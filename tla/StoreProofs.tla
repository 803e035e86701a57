---------------------------- MODULE StoreProofs ----------------------------
(***************************************************************************)
(* That every document of the store keeps the values its indexes are made   *)
(* of, alone and unlike any other's, that the SQL condition loses no row    *)
(* that matches, and that each call does to what the documents say what     *)
(* FactBase says of it, for any names, days and times, any arrays, any      *)
(* number of documents and any sequence of the calls the code makes.        *)
(***************************************************************************)
EXTENDS Store, CollectionsProofs

------------------------------------------------------------------------------
(* Documents.                                                               *)

IsScalar(v) == v = One(v.of[1])

(* The fields that are no arrays hold one value, those a column is made of  *)
(* always, and those of the unique index one that is not null.              *)
GoodDoc(doc) ==
  /\ \A f \in DOMAIN doc : doc[f].array \in BOOLEAN /\ (~ doc[f].array => IsScalar(doc[f]))
  /\ \A f \in DOMAIN doc \cap Columns[name] : IsScalar(doc[f])
  /\ \A f \in Index[name] : f \in DOMAIN doc /\ Get(doc, f) # Null

Arrayed(f) == f \notin Columns[name] /\ f \notin Index[name]

StoreInv ==
  /\ name \in {"users", "roles", "usageDaily", "apiKeys"}
  /\ IsSequence(rows) /\ \A i \in 1..Len(rows) : GoodDoc(rows[i])
  /\ Distinct(rows, Index[name])
  /\ Len(rows) <= IF name = "users" THEN Cardinality(Name) ELSE MaxRows

(* The columns and the unique index of each collection.                     *)
LEMMA TheFields ==
  /\ name = "users" => Columns[name] = {"_id", "email", "logto_user_id"} /\ Index[name] = {"email"}
  /\ name = "roles" => Columns[name] = {"_id", "key"} /\ Index[name] = {"key"}
  /\ name = "usageDaily" =>
       /\ Columns[name] = {"_id", "user_id", "app_key", "day"}
       /\ Index[name] = {"user_id", "app_key", "day"}
  /\ name = "apiKeys" =>
       Columns[name] = {"_id", "token_hash", "user_id"} /\ Index[name] = {"token_hash"}
  BY DEF Columns, Index

(* Tagged values are read as they were made.                                *)
LEMMA Values ==
  /\ \A v : One(v).array = FALSE /\ One(v).of[1] = v /\ IsScalar(One(v))
  /\ \A s : Many(s).array = TRUE /\ Many(s).of = s
  BY DEF One, Many, IsScalar

(* An array in a field without an index leaves a document good.             *)
LEMMA PutArray ==
  ASSUME NEW doc, GoodDoc(doc), NEW f, Arrayed(f), NEW s
  PROVE  GoodDoc(Put(doc, f, Many(s)))
<1> DEFINE d == Put(doc, f, Many(s))
<1>1. DOMAIN d = DOMAIN doc \cup {f} /\ d[f] = Many(s) /\ \A g \in DOMAIN doc : g # f => d[g] = doc[g]
  BY DEF Put
<1>2. Many(s).array = TRUE
  BY Values
<1> HIDE DEF d
<1>3. \A g \in Index[name] : g \in DOMAIN d /\ Get(d, g) # Null
  BY <1>1 DEF GoodDoc, Arrayed, Get
<1>4. \A g \in DOMAIN d : d[g].array \in BOOLEAN /\ (~ d[g].array => IsScalar(d[g]))
  BY <1>1, <1>2 DEF GoodDoc
<1>5. \A g \in DOMAIN d \cap Columns[name] : IsScalar(d[g])
  BY <1>1 DEF GoodDoc, Arrayed
<1> QED BY <1>3, <1>4, <1>5 DEF GoodDoc, d

(* So does a value, unless it is null and its field of the unique index.    *)
LEMMA PutScalar ==
  ASSUME NEW doc, GoodDoc(doc), NEW f, NEW v, f \in Index[name] => v # Null
  PROVE  GoodDoc(Put(doc, f, One(v)))
<1> DEFINE d == Put(doc, f, One(v))
<1>1. DOMAIN d = DOMAIN doc \cup {f} /\ d[f] = One(v) /\ \A g \in DOMAIN doc : g # f => d[g] = doc[g]
  BY DEF Put
<1>2. One(v).array = FALSE /\ One(v).of[1] = v /\ IsScalar(One(v))
  BY Values
<1> HIDE DEF d
<1>3. \A g \in Index[name] : g \in DOMAIN d /\ Get(d, g) # Null
  BY <1>1, <1>2 DEF GoodDoc, Get
<1>4. \A g \in DOMAIN d : d[g].array \in BOOLEAN /\ (~ d[g].array => IsScalar(d[g]))
  BY <1>1, <1>2 DEF GoodDoc
<1>5. \A g \in DOMAIN d \cap Columns[name] : IsScalar(d[g])
  BY <1>1, <1>2 DEF GoodDoc
<1> QED BY <1>3, <1>4, <1>5 DEF GoodDoc, d

(* An update of an array is an array in its place, or nothing.              *)
LEMMA ArrayUpdate ==
  ASSUME NEW doc, GoodDoc(doc), NEW filter, NEW u, Arrayed(u.field),
         u.op \in {"setAt", "setEach", "push", "addToSet", "pull", "pullWhere"}
  PROVE  GoodDoc(ApplyUpdate(doc, filter, u))
<1> DEFINE d == ApplyUpdate(doc, filter, u)
<1>1. d = doc \/ \E s : d = Put(doc, u.field, Many(s))
  <2>1. CASE u.op = "setAt"
    BY <2>1 DEF ApplyUpdate
  <2>2. CASE u.op = "setEach"
    BY <2>2 DEF ApplyUpdate
  <2>3. CASE u.op = "push"
    BY <2>3 DEF ApplyUpdate
  <2>4. CASE u.op = "addToSet"
    BY <2>4 DEF ApplyUpdate
  <2>5. CASE u.op \in {"pull", "pullWhere"}
    BY <2>5 DEF ApplyUpdate
  <2> QED BY <2>1, <2>2, <2>3, <2>4, <2>5
<1> HIDE DEF d
<1> QED BY <1>1, PutArray DEF d

------------------------------------------------------------------------------
(* The calls of the store.                                                  *)

(* A statement that the unique index refuses leaves the rows alone.         *)
LEMMA RefusedOrDistinct ==
  ASSUME NEW old, NEW new, NEW n, NEW index
  PROVE  LET r == Checked(old, new, n, index).rows IN r = old \/ (r = new /\ Distinct(new, index))
  BY DEF Checked, Ok

(* Good and distinct documents, not too many, are a collection.             *)
LEMMA RowsAre ==
  ASSUME StoreInv, name' = name, NEW new, rows' = new, IsSequence(new),
         \A i \in 1..Len(new) : GoodDoc(new[i]), Distinct(new, Index[name]),
         Len(new) <= IF name = "users" THEN Cardinality(Name) ELSE MaxRows
  PROVE  StoreInv'
<1>1. \A doc : GoodDoc(doc)' <=> GoodDoc(doc)
  BY DEF GoodDoc, Columns, Index, IsScalar
<1>2. Index' = Index
  BY DEF Index
<1>3. \A i \in 1..Len(rows') : GoodDoc(rows'[i])
  OBVIOUS
<1>4. (\A i \in 1..Len(rows) : GoodDoc(rows[i]))'
  BY <1>1, <1>3
<1>5. Distinct(rows', Index[name]) /\ IsSequence(rows')
  OBVIOUS
<1>6. Distinct(rows, Index[name])' /\ IsSequence(rows)'
  BY <1>2, <1>5 DEF Distinct, IsSequence, Get
<1> QED BY <1>4, <1>6 DEF StoreInv

(* A call that changes no row keeps the invariant.                          *)
LEMMA RowsKept == ASSUME StoreInv, rows' = rows, name' = name PROVE StoreInv'
  BY RowsAre DEF StoreInv

(* An update, or the document made for want of one, keeps the invariant.    *)
LEMMA UpdateKeeps ==
  ASSUME StoreInv, name' = name, NEW filter, NEW us, NEW many \in BOOLEAN, NEW upsert \in BOOLEAN,
         rows' = Update(rows, Columns[name], Index[name], filter, us, many, upsert).rows,
         \A doc : GoodDoc(doc) => GoodDoc(ApplyAll(doc, filter, us)),
         upsert => name # "users" /\ Len(rows) < MaxRows /\ GoodDoc(BuildUpsertDoc(filter, us))
  PROVE  StoreInv'
<1> DEFINE at == Targets(rows, Columns[name], filter, many)
           patched == [i \in DOMAIN rows |-> IF i \in at THEN ApplyAll(rows[i], filter, us) ELSE rows[i]]
<1>1. IsSequence(rows) /\ DOMAIN rows = 1..Len(rows) /\ Len(rows) \in Nat
      /\ \A i \in 1..Len(rows) : GoodDoc(rows[i])
  BY SequencesGrow DEF StoreInv, IsSequence
<1>2. CASE at = {} /\ upsert
  <2> DEFINE doc == BuildUpsertDoc(filter, us)
             new == Append(rows, doc)
  <2>1. rows' = Checked(rows, new, 1, Index[name]).rows
    BY <1>2 DEF Update, InsertOne
  <2>2. GoodDoc(doc) /\ name # "users" /\ Len(rows) < MaxRows /\ MaxRows \in Nat
    BY <1>2, StoreAssumption
  <2>3. /\ IsSequence(new) /\ Len(new) = Len(rows) + 1
        /\ new[Len(rows) + 1] = doc /\ \A i \in 1..Len(rows) : new[i] = rows[i]
    BY <1>1, SequencesGrow
  <2> HIDE DEF doc, new
  <2>4. \A i \in 1..Len(new) : GoodDoc(new[i])
    BY <1>1, <2>2, <2>3
  <2>5. Len(new) <= MaxRows
    BY <1>1, <2>2, <2>3
  <2>6. rows' = rows \/ (rows' = new /\ Distinct(new, Index[name]))
    BY <2>1, RefusedOrDistinct
  <2> QED BY <2>2, <2>3, <2>4, <2>5, <2>6, RowsKept, RowsAre
<1>3. CASE ~ (at = {} /\ upsert)
  <2>1. rows' = Checked(rows, patched, Cardinality(at), Index[name]).rows
    BY <1>3 DEF Update
  <2>2. IsSequence(patched) /\ Len(patched) = Len(rows)
    <3> HIDE DEF at
    <3>1. Len(patched) = Len(rows)
      BY <1>1
    <3> QED BY <1>1, <3>1 DEF IsSequence
  <2>3. \A i \in 1..Len(rows) : GoodDoc(patched[i])
    <3> HIDE DEF at
    <3> QED BY <1>1
  <2> HIDE DEF patched, at
  <2>4. rows' = rows \/ (rows' = patched /\ Distinct(patched, Index[name]))
    BY <2>1, RefusedOrDistinct
  <2> QED BY <2>2, <2>3, <2>4, RowsKept, RowsAre DEF StoreInv
<1> QED BY <1>2, <1>3

(* So does an insert where there is room.                                   *)
LEMMA InsertKeeps ==
  ASSUME StoreInv, name' = name, name # "users", Len(rows) < MaxRows, NEW doc, GoodDoc(doc),
         rows' = InsertOne(rows, Index[name], doc).rows
  PROVE  StoreInv'
<1> DEFINE new == Append(rows, doc)
<1>1. IsSequence(rows) /\ Len(rows) \in Nat /\ \A i \in 1..Len(rows) : GoodDoc(rows[i])
  BY DEF StoreInv, IsSequence
<1>2. rows' = Checked(rows, new, 1, Index[name]).rows
  BY DEF InsertOne
<1>3. /\ IsSequence(new) /\ Len(new) = Len(rows) + 1
      /\ new[Len(rows) + 1] = doc /\ \A i \in 1..Len(rows) : new[i] = rows[i]
  BY <1>1, SequencesGrow
<1> HIDE DEF new
<1>4. \A i \in 1..Len(new) : GoodDoc(new[i])
  BY <1>1, <1>3
<1>5. Len(new) <= MaxRows
  BY <1>1, <1>3, StoreAssumption
<1>6. rows' = rows \/ (rows' = new /\ Distinct(new, Index[name]))
  BY <1>2, RefusedOrDistinct
<1> QED BY <1>3, <1>4, <1>5, <1>6, RowsKept, RowsAre

(* So does a deletion, which picks the rows that stay.                      *)
LEMMA DeleteKeeps ==
  ASSUME StoreInv, name' = name, NEW filter, NEW many \in BOOLEAN,
         rows' = Delete(rows, Columns[name], filter, many)
  PROVE  StoreInv'
<1> DEFINE at == DOMAIN rows \ Targets(rows, Columns[name], filter, many)
           new == Picked(rows, at)
           a == Ascending(at)
<1>1. IsSequence(rows) /\ DOMAIN rows = 1..Len(rows) /\ Len(rows) \in Nat
      /\ \A i \in 1..Len(rows) : GoodDoc(rows[i])
  BY SequencesGrow DEF StoreInv, IsSequence
<1>2. rows' = new /\ at \in SUBSET DOMAIN rows
  BY DEF Delete
<1> HIDE DEF at
<1>3. /\ IsSequence(new) /\ Len(new) <= Len(rows)
      /\ \A k \in 1..Len(new) : a[k] \in at /\ new[k] = rows[a[k]]
      /\ \A j, k \in 1..Len(new) : a[j] = a[k] => j = k
  BY <1>1, <1>2, PickedMembers
<1> HIDE DEF new, a
<1>4. \A i \in 1..Len(new) : GoodDoc(new[i])
  BY <1>1, <1>2, <1>3
<1>5. Distinct(new, Index[name])
  <2>1. DOMAIN new = 1..Len(new)
    BY <1>3, SequencesGrow
  <2>2. Distinct(rows, Index[name])
    BY DEF StoreInv
  <2> QED BY <1>1, <1>2, <1>3, <2>1, <2>2 DEF Distinct
<1>6. Len(new) <= IF name = "users" THEN Cardinality(Name) ELSE MaxRows
  <2>1. Len(new) \in Nat /\ Cardinality(Name) \in Nat /\ MaxRows \in Nat
    BY <1>3, StoreAssumption, FS_CardinalityType DEF IsSequence
  <2> QED BY <1>1, <1>3, <2>1 DEF StoreInv
<1> QED BY <1>2, <1>3, <1>4, <1>5, <1>6, RowsAre

------------------------------------------------------------------------------
(* The calls of the code.                                                   *)

(* An update of one operation, if that keeps documents good.                *)
LEMMA OneUpdateKeeps ==
  ASSUME StoreInv, name' = name, NEW filter, NEW u, NEW many \in BOOLEAN,
         rows' = Update(rows, Columns[name], Index[name], filter, <<u>>, many, FALSE).rows,
         \A doc : GoodDoc(doc) => GoodDoc(ApplyUpdate(doc, filter, u))
  PROVE  StoreInv'
<1>1. \A doc : GoodDoc(doc) => GoodDoc(ApplyAll(doc, filter, <<u>>))
  BY AllOfOne
<1> QED BY <1>1, UpdateKeeps

(* Setting a value keeps a document good.                                   *)
LEMMA SetsOne ==
  ASSUME NEW filter, NEW f, NEW v, f \in Index[name] => v # Null, NEW doc, GoodDoc(doc)
  PROVE  GoodDoc(ApplyUpdate(doc, filter, Set(f, One(v))))
<1>1. ApplyUpdate(doc, filter, Set(f, One(v))) = Put(doc, f, One(v))
  BY DEF ApplyUpdate, Set
<1> QED BY <1>1, PutScalar

(* Setting an array keeps a document good.                                  *)
LEMMA SetsMany ==
  ASSUME NEW filter, NEW f, Arrayed(f), NEW s, NEW doc, GoodDoc(doc)
  PROVE  GoodDoc(ApplyUpdate(doc, filter, Set(f, Many(s))))
<1>1. ApplyUpdate(doc, filter, Set(f, Many(s))) = Put(doc, f, Many(s))
  BY DEF ApplyUpdate, Set
<1> QED BY <1>1, PutArray

(* A call that updates an array without an index keeps the invariant.       *)
LEMMA ArrayCall ==
  ASSUME StoreInv, NEW filter, NEW u, Arrayed(u.field),
         u.op \in {"setAt", "setEach", "push", "addToSet", "pull", "pullWhere"},
         NEW c, NEW x, NEW y,
         Call(c, x, y, Patch(filter, <<u>>)) \/ Call(c, x, y, PatchMany(filter, <<u>>))
  PROVE  StoreInv'
<1>1. \A doc : GoodDoc(doc) => GoodDoc(ApplyUpdate(doc, filter, u))
  BY ArrayUpdate
<1>2. name' = name /\ \E many \in BOOLEAN :
        rows' = Update(rows, Columns[name], Index[name], filter, <<u>>, many, FALSE).rows
  BY DEF Call, Patch, PatchMany
<1> QED BY <1>1, <1>2, OneUpdateKeeps

(* An operation is read as it was made.                                     *)
LEMMA Operations ==
  /\ \A op, f, v : Op(op, f, v).op = op /\ Op(op, f, v).field = f /\ Op(op, f, v).v = v
  /\ \A f, c, s : /\ SetEach(f, c, s).op = "setEach" /\ SetEach(f, c, s).field = f
                  /\ SetEach(f, c, s).cond = c /\ SetEach(f, c, s).sub = s
  BY DEF Op, SetEach

(* Every call on the users keeps the invariant.                             *)
LEMMA UsersKeep ==
  ASSUME StoreInv, name = "users", NEW x \in Name, NEW y \in Name, OnUsers(x, y)
  PROVE  StoreInv'
<1>1. Arrayed("roles") /\ Arrayed("app_overrides")
  BY TheFields DEF Arrayed
<1>2. ASSUME NEW s, Call("setRoles", x, x, Patch(<<Is("email", x)>>, <<Set("roles", Many(s))>>))
      PROVE  StoreInv'
  <2>1. name' = name /\ rows' = Update(rows, Columns[name], Index[name], <<Is("email", x)>>,
                                       <<Set("roles", Many(s))>>, FALSE, FALSE).rows
    BY <1>2 DEF Call, Patch
  <2> QED BY <1>1, <2>1, SetsMany, OneUpdateKeeps
<1>3. CASE Call("moveHolders", x, y, PatchMany(<<Is("roles", x)>>, <<Op("setAt", "roles", y)>>))
  BY <1>1, <1>3, Operations, ArrayCall
<1>4. CASE Call("stripHolders", x, x, PatchMany(<<Is("roles", x)>>, <<Op("pull", "roles", x)>>))
  BY <1>1, <1>4, Operations, ArrayCall
<1>5. CASE Call("grantRole", x, y, Patch(<<Is("email", x)>>, <<Op("addToSet", "roles", y)>>))
  BY <1>1, <1>5, Operations, ArrayCall
<1>6. CASE Call("pullOverride", x, y,
               Patch(<<Is("email", x)>>, <<Op("pullWhere", "app_overrides", [app |-> y])>>))
  BY <1>1, <1>6, Operations, ArrayCall
<1>7. ASSUME NEW e, Call("pushOverride", x, y,
               Patch(<<Is("email", x)>>, <<Op("push", "app_overrides", [app |-> y, effect |-> e])>>))
      PROVE  StoreInv'
  BY <1>1, <1>7, Operations, ArrayCall
<1>8. CASE Call("moveOverrides", x, y,
               PatchMany(<<Has("app_overrides", "app", x)>>,
                         <<SetEach("app_overrides", [app |-> x], [app |-> y])>>))
  BY <1>1, <1>8, Operations, ArrayCall
<1>9. CASE Call("dropOverrides", x, x,
               PatchMany(<<Has("app_overrides", "app", x)>>,
                         <<Op("pullWhere", "app_overrides", [app |-> x])>>))
  BY <1>1, <1>9, Operations, ArrayCall
<1> QED BY <1>2, <1>3, <1>4, <1>5, <1>6, <1>7, <1>8, <1>9 DEF OnUsers

(* No name is null.                                                         *)
LEMMA NamesAreValues == \A x \in Name : x # Null
  BY StoreAssumption

(* A document of values, the indexed ones not null, is good.                *)
LEMMA ScalarDocument ==
  ASSUME NEW d, \A f \in DOMAIN d : \E v : d[f] = One(v) /\ (f \in Index[name] => v # Null),
         Index[name] \subseteq DOMAIN d
  PROVE  GoodDoc(d)
<1>1. \A f \in DOMAIN d : d[f].array = FALSE /\ IsScalar(d[f])
  BY Values
<1>2. \A f \in Index[name] : d[f].of[1] # Null
  BY Values
<1>3. \A f \in Index[name] : f \in DOMAIN d /\ Get(d, f) # Null
  BY <1>2 DEF Get
<1> QED BY <1>1, <1>3 DEF GoodDoc

(* Every call on the roles keeps the invariant.                             *)
LEMMA RolesKeep ==
  ASSUME StoreInv, name = "roles", NEW x \in Name, NEW y \in Name, OnRoles(x, y)
  PROVE  StoreInv'
<1>1. Arrayed("grants") /\ Index[name] = {"key"} /\ x # Null /\ y # Null
  BY TheFields, NamesAreValues DEF Arrayed
<1>2. GoodDoc(Put(<<>>, "key", One(x)))
  <2> DEFINE d == Put(<<>>, "key", One(x))
  <2>1. DOMAIN d = {"key"} /\ d["key"] = One(x)
    BY DEF Put
  <2> HIDE DEF d
  <2>2. GoodDoc(d)
    BY <1>1, <2>1, ScalarDocument
  <2> QED BY <2>2 DEF d
<1>3. ASSUME Room, Call("insertRole", x, x, Insert(Put(Put(<<>>, "key", One(x)), "grants", Many(<<>>))))
      PROVE  StoreInv'
  <2>1. GoodDoc(Put(Put(<<>>, "key", One(x)), "grants", Many(<<>>)))
    BY <1>1, <1>2, PutArray
  <2> QED BY <1>3, <2>1, InsertKeeps DEF Call, Insert, Room
<1>4. ASSUME Room, NEW s,
             Call("seedRole", x, x,
                  Upsert(<<Is("key", x)>>,
                         <<Set("grants", Many(s)), Op("setOnInsert", "key", One(x))>>))
      PROVE  StoreInv'
  <2> DEFINE filter == <<Is("key", x)>>
             a == Set("grants", Many(s))
             b == Op("setOnInsert", "key", One(x))
             us == <<a, b>>
  <2>1. ASSUME NEW doc, GoodDoc(doc) PROVE GoodDoc(ApplyAll(doc, filter, us))
    <3>1. ApplyAll(doc, filter, us) = ApplyUpdate(ApplyUpdate(doc, filter, a), filter, b)
      BY AllOfTwo
    <3>2. GoodDoc(ApplyUpdate(doc, filter, a))
      BY <1>1, <2>1, SetsMany
    <3>3. \A d : ApplyUpdate(d, filter, b) = d
      BY DEF ApplyUpdate, Op
    <3> QED BY <3>1, <3>2, <3>3
  <2>2. GoodDoc(InsertAll(GivenAll(filter), us))
    <3>1. GivenAll(filter) = Put(<<>>, "key", One(x))
      <4>1. GivenAll(filter) = Given(<<>>, Is("key", x))
        BY GivenOne
      <4>2. Given(<<>>, Is("key", x)) = Put(<<>>, "key", One(x))
        BY DEF Given, Is, Clause
      <4> QED BY <4>1, <4>2
    <3>2. InsertAll(GivenAll(filter), us) = Insertion(Insertion(GivenAll(filter), a), b)
      BY InsertTwo
    <3>3. \A d : Insertion(d, a) = d /\ Insertion(d, b) = Put(d, "key", One(x))
      BY DEF Insertion, Set, Op
    <3> QED BY <1>1, <1>2, <3>1, <3>2, <3>3, PutScalar
  <2>3. GoodDoc(BuildUpsertDoc(filter, us))
    BY <2>1, <2>2 DEF BuildUpsertDoc
  <2> HIDE DEF us, filter
  <2>4. name' = name /\ rows' = Update(rows, Columns[name], Index[name], filter, us, FALSE, TRUE).rows
    BY <1>4 DEF Call, Upsert, us, filter
  <2> QED BY <1>4, <2>1, <2>3, <2>4, UpdateKeeps DEF Room
<1>5. CASE Call("moveRole", x, y, Patch(<<Is("key", x)>>, <<Set("key", One(y))>>))
  <2>1. \A doc : GoodDoc(doc) => GoodDoc(ApplyUpdate(doc, <<Is("key", x)>>, Set("key", One(y))))
    BY <1>1, SetsOne
  <2> QED BY <1>5, <2>1, OneUpdateKeeps DEF Call, Patch
<1>6. CASE Call("pushGrant", x, y, Patch(<<Is("key", x)>>, <<Op("push", "grants", [app |-> y])>>))
  BY <1>1, <1>6, Operations, ArrayCall
<1>7. CASE Call("pullGrant", x, y, Patch(<<Is("key", x)>>, <<Op("pullWhere", "grants", [app |-> y])>>))
  BY <1>1, <1>7, Operations, ArrayCall
<1>8. CASE Call("moveGrants", x, y,
               PatchMany(<<Has("grants", "app", x)>>, <<SetEach("grants", [app |-> x], [app |-> y])>>))
  BY <1>1, <1>8, Operations, ArrayCall
<1>9. CASE Call("dropGrants", x, x,
               PatchMany(<<Has("grants", "app", x)>>, <<Op("pullWhere", "grants", [app |-> x])>>))
  BY <1>1, <1>9, Operations, ArrayCall
<1>10. CASE Call("removeRole", x, x, Delete(rows, Columns[name], <<Is("key", x)>>, FALSE))
  BY <1>10, DeleteKeeps DEF Call
<1> QED BY <1>3, <1>4, <1>5, <1>6, <1>7, <1>8, <1>9, <1>10 DEF OnRoles

(* Setting a value is putting it in its place.                              *)
LEMMA SetsValue ==
  ASSUME NEW filter, NEW f, NEW v, NEW doc
  PROVE  ApplyUpdate(doc, filter, Set(f, v)) = Put(doc, f, v)
BY DEF ApplyUpdate, Set

(* What record sets on a row that is there, and on one that it makes.       *)
LEMMA RecordApplied ==
  ASSUME NEW x, NEW y, NEW d, NEW t, NEW w, NEW filter
  PROVE  /\ ApplyAll(w, filter, RecordUpdates(x, y, d, t)) = ApplyUpdate(w, filter, Set("last_at", One(t)))
         /\ ApplyUpdate(w, filter, Set("last_at", One(t))) = Put(w, "last_at", One(t))
<1> DEFINE us == RecordUpdates(x, y, d, t)
<1>1. DOMAIN us = {1, 2, 3, 4, 5}
  BY DEF RecordUpdates
<1>2. us[1].op = "setOnInsert" /\ us[2].op = "setOnInsert" /\ us[3].op = "setOnInsert"
      /\ us[4].op = "setOnInsert" /\ us[5] = Set("last_at", One(t))
  BY DEF RecordUpdates, Op
<1> HIDE DEF us
<1>3. \A v : /\ ApplyUpdate(v, filter, us[1]) = v /\ ApplyUpdate(v, filter, us[2]) = v
             /\ ApplyUpdate(v, filter, us[3]) = v /\ ApplyUpdate(v, filter, us[4]) = v
  BY <1>2 DEF ApplyUpdate
<1>4. ApplyAll(w, filter, us) = ApplyUpdate(w, filter, us[5])
  BY <1>1, <1>3, AllOfFive
<1>5. ApplyUpdate(w, filter, Set("last_at", One(t))) = Put(w, "last_at", One(t))
  BY SetsValue
<1> QED BY <1>2, <1>4, <1>5 DEF us

LEMMA RecordInserted ==
  ASSUME NEW x, NEW y, NEW d, NEW t, NEW w
  PROVE  InsertAll(w, RecordUpdates(x, y, d, t)) =
           Put(Put(Put(Put(w, "user_id", One(x)), "app_key", One(y)), "day", One(d)), "first_at", One(t))
<1> DEFINE us == RecordUpdates(x, y, d, t)
<1>1. DOMAIN us = {1, 2, 3, 4, 5}
  BY DEF RecordUpdates
<1>2. us[1] = Op("setOnInsert", "user_id", One(x)) /\ us[2] = Op("setOnInsert", "app_key", One(y))
      /\ us[3] = Op("setOnInsert", "day", One(d)) /\ us[4] = Op("setOnInsert", "first_at", One(t))
      /\ us[5] = Set("last_at", One(t))
  BY DEF RecordUpdates
<1> HIDE DEF us
<1>3. \A v, f, c : Insertion(v, Op("setOnInsert", f, c)) = Put(v, f, c)
  BY DEF Insertion, Op
<1>4. \A v, f, c : Insertion(v, Set(f, c)) = v
  BY DEF Insertion, Set
<1> DEFINE w1 == Put(w, "user_id", One(x))
           w2 == Put(w1, "app_key", One(y))
           w3 == Put(w2, "day", One(d))
           w4 == Put(w3, "first_at", One(t))
<1>5. /\ w1 = Insertion(w, us[1]) /\ w2 = Insertion(w1, us[2]) /\ w3 = Insertion(w2, us[3])
      /\ w4 = Insertion(w3, us[4]) /\ w4 = Insertion(w4, us[5])
  BY <1>2, <1>3, <1>4
<1> HIDE DEF w1, w2, w3, w4
<1>6. InsertAll(w, us) = w4
  BY <1>1, <1>5, InsertFive
<1> QED BY <1>6 DEF us, w1, w2, w3, w4

(* Every call on the usage rows keeps the invariant.                        *)
LEMMA UsageKeeps ==
  ASSUME StoreInv, name = "usageDaily", NEW x \in Name, NEW y \in Name, OnUsage(x, y)
  PROVE  StoreInv'
<1>1. Index[name] = {"user_id", "app_key", "day"} /\ x # Null /\ y # Null
      /\ \A d \in Days : d # Null
  BY TheFields, NamesAreValues, StoreAssumption
<1>2. ASSUME Room, NEW d \in Days, NEW t,
             Call("record", x, y,
                  Upsert(<<Is("user_id", x), Is("app_key", y), Is("day", d)>>,
                         RecordUpdates(x, y, d, t)))
      PROVE  StoreInv'
  <2> DEFINE filter == <<Is("user_id", x), Is("app_key", y), Is("day", d)>>
             us == RecordUpdates(x, y, d, t)
             u1 == Put(<<>>, "user_id", One(x))
             u2 == Put(u1, "app_key", One(y))
             u3 == Put(u2, "day", One(d))
  <2>1. ASSUME NEW doc, GoodDoc(doc) PROVE GoodDoc(ApplyAll(doc, filter, us))
    <3>1. ApplyAll(doc, filter, us) = ApplyUpdate(doc, filter, Set("last_at", One(t)))
      BY RecordApplied
    <3> QED BY <1>1, <2>1, <3>1, SetsOne
  <2>2. GivenAll(filter) = u3
    <3>1. GivenAll(filter) =
            Given(Given(Given(<<>>, Is("user_id", x)), Is("app_key", y)), Is("day", d))
      BY GivenThree
    <3>2. \A doc, f, v : Given(doc, Is(f, v)) = Put(doc, f, One(v))
      BY DEF Given, Is, Clause
    <3> QED BY <3>1, <3>2
  <2>3. GoodDoc(u3)
    <3>1. DOMAIN u1 = {"user_id"} /\ u1["user_id"] = One(x)
      BY DEF Put
    <3> HIDE DEF u1
    <3>2. DOMAIN u2 = {"user_id", "app_key"} /\ u2["user_id"] = One(x) /\ u2["app_key"] = One(y)
      BY <3>1 DEF Put
    <3> HIDE DEF u2
    <3>3. DOMAIN u3 = {"user_id", "app_key", "day"} /\ u3["day"] = One(d)
          /\ u3["user_id"] = One(x) /\ u3["app_key"] = One(y)
      BY <3>2 DEF Put
    <3> HIDE DEF u3
    <3> QED BY <1>1, <3>3, ScalarDocument
  <2> HIDE DEF u3
  <2>4. GoodDoc(InsertAll(GivenAll(filter), us))
    <3> DEFINE v1 == Put(u3, "user_id", One(x))
               v2 == Put(v1, "app_key", One(y))
               v3 == Put(v2, "day", One(d))
    <3>1. InsertAll(GivenAll(filter), us) = Put(v3, "first_at", One(t))
      BY <2>2, RecordInserted
    <3>2. GoodDoc(v1)
      BY <1>1, <2>3, PutScalar
    <3> HIDE DEF v1
    <3>3. GoodDoc(v2)
      BY <1>1, <3>2, PutScalar
    <3> HIDE DEF v2
    <3>4. GoodDoc(v3)
      BY <1>1, <3>3, PutScalar
    <3> HIDE DEF v3
    <3> QED BY <1>1, <3>1, <3>4, PutScalar
  <2>5. GoodDoc(BuildUpsertDoc(filter, us))
    BY <2>1, <2>4 DEF BuildUpsertDoc
  <2> HIDE DEF us, filter
  <2>6. name' = name /\ rows' = Update(rows, Columns[name], Index[name], filter, us, FALSE, TRUE).rows
    BY <1>2 DEF Call, Upsert, us, filter
  <2> QED BY <1>2, <2>1, <2>5, <2>6, UpdateKeeps DEF Room
<1>3. CASE Call("moveUsage", x, y, PatchMany(<<Is("app_key", x)>>, <<Set("app_key", One(y))>>))
  <2>1. \A doc : GoodDoc(doc) => GoodDoc(ApplyUpdate(doc, <<Is("app_key", x)>>, Set("app_key", One(y))))
    BY <1>1, SetsOne
  <2> QED BY <1>3, <2>1, OneUpdateKeeps DEF Call, PatchMany
<1>4. CASE Call("dropAppUsage", x, x, Delete(rows, Columns[name], <<Is("app_key", x)>>, TRUE))
  BY <1>4, DeleteKeeps DEF Call
<1>5. CASE Call("dropUserUsage", x, x, Delete(rows, Columns[name], <<Is("user_id", x)>>, TRUE))
  BY <1>5, DeleteKeeps DEF Call
<1> QED BY <1>2, <1>3, <1>4, <1>5 DEF OnUsage

(* Every call on the API keys keeps the invariant.                          *)
LEMMA KeysKeep ==
  ASSUME StoreInv, name = "apiKeys", NEW x \in Name, NEW y \in Name, OnKeys(x, y)
  PROVE  StoreInv'
<1>1. Index[name] = {"token_hash"} /\ x # Null
  BY TheFields, NamesAreValues
<1>2. CASE Room /\ Call("createKey", x, y, Insert(KeyDoc(x, y)))
  <2>1. GoodDoc(KeyDoc(x, y))
    <3> DEFINE d == KeyDoc(x, y)
    <3>1. "token_hash" \in DOMAIN d /\ d["token_hash"] = One(x)
          /\ DOMAIN d = {"_id", "token_hash", "user_id", "last_used_at", "revoked_at"}
          /\ \A f \in DOMAIN d : \E v : d[f] = One(v)
      BY DEF KeyDoc
    <3> HIDE DEF d
    <3>2. GoodDoc(d)
      BY <1>1, <3>1, ScalarDocument
    <3> QED BY <3>2 DEF d
  <2> QED BY <1>2, <2>1, InsertKeeps DEF Call, Insert, Room
<1>3. CASE Call("revokeKey", x, y, Revoke(x, y))
  <2> DEFINE filter == <<Is("_id", x), Is("user_id", y), Is("revoked_at", Null)>>
  <2>1. \A doc : GoodDoc(doc) => GoodDoc(ApplyUpdate(doc, filter, Set("revoked_at", One(0))))
    BY <1>1, SetsOne
  <2> QED BY <1>3, <2>1, OneUpdateKeeps DEF Call, Revoke, Patch
<1>4. ASSUME NEW t, name' = name, rows' = TouchLastUsed(x, t) PROVE StoreInv'
  <2> DEFINE filter == <<Is("_id", x), StaleStamp(t)>>
  <2>1. \A doc : GoodDoc(doc) => GoodDoc(ApplyUpdate(doc, filter, Set("last_used_at", One(t))))
    BY <1>1, SetsOne
  <2> QED BY <1>4, <2>1, OneUpdateKeeps DEF TouchLastUsed, Patch
<1> QED BY <1>2, <1>3, <1>4 DEF OnKeys

(* Every step keeps the invariant.                                          *)
LEMMA StoreStep == StoreInv /\ [Next]_vars => StoreInv'
<1> SUFFICES ASSUME StoreInv, [Next]_vars PROVE StoreInv'
  OBVIOUS
<1>1. CASE UNCHANGED vars
  BY <1>1, RowsKept DEF vars
<1>2. CASE Next
  BY <1>2, UsersKeep, RolesKeep, UsageKeeps, KeysKeep DEF Next
<1> QED BY <1>1, <1>2

------------------------------------------------------------------------------
(* The first rows.                                                          *)

(* A finite set as a sequence: its members, each once.                      *)
LEMMA SequenceOfSet ==
  ASSUME NEW S, IsFiniteSet(S)
  PROVE  LET s == SetToSeq(S) IN
         /\ IsSequence(s) /\ Len(s) = Cardinality(S)
         /\ \A i \in 1..Len(s) : s[i] \in S
         /\ \A i, j \in 1..Len(s) : s[i] = s[j] => i = j
<1> DEFINE n == Cardinality(S)
           s == SetToSeq(S)
<1>1. n \in Nat /\ \E f : f \in Bijection(1..n, S)
  BY FS_CardinalityType DEF ExistsBijection
<1>2. PICK f : f \in Bijection(1..n, S)
  BY <1>1
<1>3. f \in [1..n -> S] /\ \A i, j \in 1..n : f[i] = f[j] => i = j
  BY <1>2 DEF Bijection, Injection, IsInjective
<1>4. \E g \in [1..n -> S] : IsInjective(g)
  BY <1>3 DEF IsInjective
<1>5. s \in [1..n -> S] /\ IsInjective(s)
  BY <1>4 DEF SetToSeq
<1> HIDE DEF n, s
<1>6. Len(s) = n /\ s = [i \in 1..n |-> s[i]]
  BY <1>1, <1>5
<1> QED BY <1>1, <1>5, <1>6 DEF IsInjective, IsSequence, n, s

(* The first rows are good, and no two users share an email.                *)
LEMMA StoreInit == Init => StoreInv
<1> SUFFICES ASSUME Init PROVE StoreInv
  OBVIOUS
<1>1. name \in {"users", "roles", "usageDaily", "apiKeys"}
  BY DEF Init, Columns
<1>2. CASE name # "users"
  <2>1. rows = <<>> /\ Len(rows) = 0 /\ DOMAIN rows = {}
    BY <1>2 DEF Init
  <2>2. IsSequence(rows)
    BY <2>1 DEF IsSequence
  <2>3. Distinct(rows, Index[name])
    BY <2>1 DEF Distinct
  <2> QED BY <1>1, <1>2, <2>1, <2>2, <2>3, StoreAssumption DEF StoreInv
<1>3. CASE name = "users"
  <2> DEFINE S == {User(u) : u \in Name}
             m == [d \in S |-> Get(d, "email")]
  <2>1. ASSUME NEW u \in Name PROVE GoodDoc(User(u)) /\ Get(User(u), "email") = u
    <3> DEFINE d1 == Put(<<>>, "email", One(u))
               d2 == Put(d1, "roles", Many(<<>>))
               d3 == Put(d2, "app_overrides", Many(<<>>))
    <3>1. DOMAIN d1 = {"email"} /\ d1["email"] = One(u)
      BY DEF Put
    <3> HIDE DEF d1
    <3>2. GoodDoc(d1)
      BY <1>3, <3>1, TheFields, NamesAreValues, ScalarDocument
    <3>3. Arrayed("roles") /\ Arrayed("app_overrides")
      BY <1>3, TheFields DEF Arrayed
    <3>4. GoodDoc(d3)
      BY <3>2, <3>3, PutArray
    <3>5. "email" \in DOMAIN d3 /\ d3["email"] = One(u)
      BY <3>1 DEF Put
    <3> HIDE DEF d3
    <3>6. Get(d3, "email") = u
      BY <3>5, Values DEF Get
    <3> QED BY <3>4, <3>6 DEF User, d1, d3
  <2>2. m \in [S -> Name] /\ \A d, e \in S : m[d] = m[e] => d = e
    BY <2>1
  <2>3. m \in Injection(S, Name)
    BY <2>2 DEF Injection, IsInjective
  <2>4. IsFiniteSet(S) /\ Cardinality(S) <= Cardinality(Name)
    BY <2>3, FS_Injection, StoreAssumption
  <2>5. rows = SetToSeq(S)
    BY <1>3 DEF Init
  <2>6. \A d \in S : GoodDoc(d)
    BY <2>1
  <2> HIDE DEF S
  <2>7. /\ IsSequence(rows) /\ Len(rows) = Cardinality(S)
        /\ \A i \in 1..Len(rows) : rows[i] \in S
        /\ \A i, j \in 1..Len(rows) : rows[i] = rows[j] => i = j
    BY <2>4, <2>5, SequenceOfSet
  <2>8. DOMAIN rows = 1..Len(rows)
    BY <2>7, SequencesGrow
  <2>9. Distinct(rows, Index[name])
    <3>1. Index[name] = {"email"}
      BY <1>3, TheFields
    <3>2. ASSUME NEW i \in 1..Len(rows), NEW j \in 1..Len(rows), i # j
          PROVE  Get(rows[i], "email") # Get(rows[j], "email")
      <4>1. rows[i] \in S /\ rows[j] \in S /\ rows[i] # rows[j]
        BY <2>7, <3>2
      <4>2. m[rows[i]] # m[rows[j]]
        BY <2>2, <4>1
      <4> QED BY <4>1, <4>2
    <3> QED BY <2>8, <3>1, <3>2 DEF Distinct
  <2> QED BY <1>3, <2>4, <2>6, <2>7, <2>9 DEF StoreInv
<1> QED BY <1>2, <1>3

------------------------------------------------------------------------------
(* What the invariant says of a reading.                                    *)

(* The invariant has the types.                                             *)
LEMMA InvTypes == StoreInv => StoreTypeOK
<1> SUFFICES ASSUME StoreInv PROVE StoreTypeOK
  OBVIOUS
<1>1. name \in DOMAIN Columns
  BY DEF StoreInv, Columns
<1>2. IsSequence(rows) /\ DOMAIN rows = 1..Len(rows) /\ Len(rows) \in Nat
      /\ \A i \in 1..Len(rows) : GoodDoc(rows[i])
  BY SequencesGrow DEF StoreInv, IsSequence
<1>3. Len(rows) <= MaxRows + Cardinality(Name)
  <2>1. MaxRows \in Nat /\ Cardinality(Name) \in Nat
    BY StoreAssumption, FS_CardinalityType
  <2> QED BY <1>2, <2>1 DEF StoreInv
<1>4. ASSUME NEW v, IsScalar(v) PROVE Len(v.of) = 1
  BY <1>4 DEF IsScalar, One
<1> QED BY <1>1, <1>2, <1>3, <1>4 DEF StoreTypeOK, GoodDoc

(* The invariant has a row for each key.                                    *)
LEMMA InvKeys == StoreInv => OneRowPerKey
<1> SUFFICES ASSUME StoreInv PROVE OneRowPerKey
  OBVIOUS
<1>1. DOMAIN rows = 1..Len(rows) /\ \A i \in 1..Len(rows) : GoodDoc(rows[i])
  BY SequencesGrow DEF StoreInv
<1>2. \A i \in DOMAIN rows : \A f \in Index[name] : Get(rows[i], f) # Null
  BY <1>1 DEF GoodDoc
<1>3. Distinct(rows, Index[name])
  BY DEF StoreInv
<1> QED BY <1>2, <1>3 DEF OneRowPerKey, Distinct

(* A field that has a column holds one value, the column's.                 *)
LEMMA ColumnHoldsValue ==
  ASSUME NEW doc, GoodDoc(doc), NEW path, Len(path) = 1, path[1] \in Columns[name]
  PROVE  \A v \in ResolveValues(doc, path) : v = Get(doc, path[1])
<1>1. CASE path[1] \notin DOMAIN doc
  BY <1>1 DEF ResolveValues
<1>2. CASE path[1] \in DOMAIN doc
  <2> DEFINE v == doc[path[1]]
  <2>1. v = One(v.of[1])
    BY <1>2 DEF GoodDoc, IsScalar
  <2>2. ResolveValues(doc, path) = Range(v.of)
    BY <1>2 DEF ResolveValues
  <2>3. Get(doc, path[1]) = v.of[1]
    BY <1>2 DEF Get
  <2> HIDE DEF v
  <2>4. v.of = <<v.of[1]>>
    BY <2>1 DEF One
  <2>5. DOMAIN v.of = {1}
    BY <2>4
  <2> QED BY <2>2, <2>3, <2>5 DEF Range
<1> QED BY <1>1, <1>2

(* An equality asked of a column loses no match, unless it is with null.    *)
LEMMA EqKept ==
  ASSUME NEW doc, GoodDoc(doc), NEW f, NEW v, f \in Columns[name] => v # Null,
         MatchField(doc, Is(f, v))
  PROVE  Prefilter(doc, Is(f, v), Columns[name])
<1>1. Is(f, v).path = <<f>> /\ Len(Is(f, v).path) = 1 /\ Is(f, v).path[1] = f
      /\ Is(f, v).op = "eq" /\ Is(f, v).v = v
  BY DEF Is, Clause
<1>2. ASSUME f \in Columns[name] PROVE Get(doc, f) = v /\ v # Null
  <2>1. v \in ResolveValues(doc, Is(f, v).path)
    BY <1>1, <1>2 DEF MatchField
  <2> QED BY <1>1, <1>2, <2>1, ColumnHoldsValue
<1> QED BY <1>1, <1>2 DEF Prefilter

(* Nor does the membership in a set without null.                           *)
LEMMA InKept ==
  ASSUME NEW doc, GoodDoc(doc), NEW f, NEW s, Null \notin s,
         MatchField(doc, Clause(<<f>>, "in", s))
  PROVE  Prefilter(doc, Clause(<<f>>, "in", s), Columns[name])
<1> DEFINE c == Clause(<<f>>, "in", s)
<1>1. c.path = <<f>> /\ Len(c.path) = 1 /\ c.path[1] = f /\ c.op = "in" /\ c.v = s
  BY DEF Clause
<1> HIDE DEF c
<1>2. MatchField(doc, c)
  BY DEF c
<1>3. ASSUME f \in Columns[name] PROVE Get(doc, f) \in s /\ Get(doc, f) # Null
  <2>1. PICK v \in ResolveValues(doc, c.path) : v \in s
    BY <1>1, <1>2 DEF MatchField
  <2>2. v = Get(doc, f)
    BY <1>1, <1>3, ColumnHoldsValue
  <2> QED BY <2>1, <2>2
<1>4. Prefilter(doc, c, Columns[name])
  BY <1>1, <1>3 DEF Prefilter
<1> QED BY <1>4 DEF c

(* Nor does a lower bound.                                                  *)
LEMMA FromKept ==
  ASSUME NEW doc, GoodDoc(doc), NEW f, NEW d,
         MatchField(doc, Clause(<<f>>, "gte", d))
  PROVE  Prefilter(doc, Clause(<<f>>, "gte", d), Columns[name])
<1> DEFINE c == Clause(<<f>>, "gte", d)
<1>1. c.path = <<f>> /\ Len(c.path) = 1 /\ c.path[1] = f /\ c.op = "gte" /\ c.v = d
  BY DEF Clause
<1> HIDE DEF c
<1>2. MatchField(doc, c)
  BY DEF c
<1>3. ASSUME f \in Columns[name] PROVE Get(doc, f) >= d /\ Get(doc, f) # Null
  <2>1. PICK v \in ResolveValues(doc, c.path) : v # Null /\ v >= d
    BY <1>1, <1>2 DEF MatchField
  <2>2. v = Get(doc, f)
    BY <1>1, <1>3, ColumnHoldsValue
  <2> QED BY <2>1, <2>2
<1>4. Prefilter(doc, c, Columns[name])
  BY <1>1, <1>3 DEF Prefilter
<1> QED BY <1>4 DEF c

(* In the invariant the SQL condition is sound.                             *)
LEMMA InvSound == StoreInv => PrefilterKeepsMatches
<1> SUFFICES ASSUME StoreInv PROVE PrefilterKeepsMatches
  OBVIOUS
<1>1. DOMAIN rows = 1..Len(rows) /\ \A i \in DOMAIN rows : GoodDoc(rows[i])
  BY SequencesGrow DEF StoreInv
<1>2. "revoked_at" \notin Columns[name]
  BY TheFields DEF StoreInv
<1> SUFFICES ASSUME NEW x \in Name
    PROVE /\ \A f : Sound(<<Is(f, x), Is("revoked_at", Null)>>)
          /\ \A f : \A d \in Days : Sound(<<Is(f, x), Clause(<<"day">>, "gte", d)>>)
          /\ \A f : Sound(<<Has(f, "app", x)>>)
          /\ \A f : \A s \in SUBSET Name : Sound(<<Clause(<<f>>, "in", s)>>)
  BY DEF PrefilterKeepsMatches
<1>3. x # Null /\ Null \notin Name
  BY StoreAssumption
<1>4. ASSUME NEW a, \A doc : GoodDoc(doc) /\ MatchField(doc, a) => Prefilter(doc, a, Columns[name])
      PROVE  Sound(<<a>>)
  BY <1>1, <1>4 DEF Sound, Selected, Matches
<1>5. ASSUME NEW a, \A doc : GoodDoc(doc) /\ MatchField(doc, a) => Prefilter(doc, a, Columns[name]),
             NEW b, \A doc : GoodDoc(doc) /\ MatchField(doc, b) => Prefilter(doc, b, Columns[name])
      PROVE  Sound(<<a, b>>)
  BY <1>1, <1>5 DEF Sound, Selected, Matches
<1>6. \A f, doc : GoodDoc(doc) /\ MatchField(doc, Is(f, x)) => Prefilter(doc, Is(f, x), Columns[name])
  BY <1>3, EqKept
<1>7. ASSUME NEW f PROVE Sound(<<Is(f, x), Is("revoked_at", Null)>>)
  <2>1. \A doc : GoodDoc(doc) /\ MatchField(doc, Is("revoked_at", Null))
                 => Prefilter(doc, Is("revoked_at", Null), Columns[name])
    BY <1>2, EqKept
  <2> QED BY <1>5, <1>6, <2>1
<1>8. ASSUME NEW f, NEW d \in Days PROVE Sound(<<Is(f, x), Clause(<<"day">>, "gte", d)>>)
  BY <1>5, <1>6, FromKept
<1>9. ASSUME NEW f PROVE Sound(<<Has(f, "app", x)>>)
  <2>1. \A doc : Prefilter(doc, Has(f, "app", x), Columns[name])
    BY DEF Prefilter, Has, Clause
  <2> QED BY <1>4, <2>1
<1>10. ASSUME NEW f, NEW s \in SUBSET Name PROVE Sound(<<Clause(<<f>>, "in", s)>>)
  <2>1. Null \notin s
    BY <1>3
  <2> QED BY <1>4, <2>1, InKept
<1> QED BY <1>7, <1>8, <1>9, <1>10

(* The invariant of the collections, of every behaviour.                    *)
LEMMA StoreInvariant == Spec => []StoreInv
  BY StoreInit, StoreStep, PTL DEF Spec

(* Every document of a collection is one, with tagged values, and there are *)
(* no more of them than the bound lets in.                                  *)
THEOREM StoreTypes == Spec => []StoreTypeOK
  BY StoreInvariant, InvTypes, PTL

(* Whatever calls the code makes, in any order and with any arguments, each *)
(* document has values of its own for the unique index (the indexes of      *)
(* src/src/store/sqlite.ts): an upsert or a rename never makes another.     *)
THEOREM KeysAreUnique == Spec => []OneRowPerKey
  BY StoreInvariant, InvKeys, PTL

(* The SQL condition made of a filter's clauses loses no row that matches.  *)
THEOREM PrefilterIsSound == Spec => []PrefilterKeepsMatches
  BY StoreInvariant, InvSound, PTL

------------------------------------------------------------------------------
(* Arrays, as the sets of their members.                                    *)

(* Replacing a value in an array replaces it in the set of its members.     *)
LEMMA Replaced ==
  ASSUME NEW s, IsSequence(s), NEW old, NEW new
  PROVE  LET r == ReplaceMatched(s, old, new) IN
         IsSequence(r) /\ Range(r) = {IF v = old THEN new ELSE v : v \in Range(s)}
<1> DEFINE r == ReplaceMatched(s, old, new)
<1>1. DOMAIN s = 1..Len(s) /\ Len(s) \in Nat
  BY SequencesGrow DEF IsSequence
<1>2. r = [i \in 1..Len(s) |-> IF s[i] = old THEN new ELSE s[i]]
  BY <1>1 DEF ReplaceMatched
<1> HIDE DEF r
<1>3. Len(r) = Len(s) /\ IsSequence(r) /\ DOMAIN r = 1..Len(s)
  BY <1>1, <1>2 DEF IsSequence
<1>4. \A i \in 1..Len(s) : r[i] = IF s[i] = old THEN new ELSE s[i]
  BY <1>2
<1>5. Range(r) = {IF v = old THEN new ELSE v : v \in Range(s)}
  BY <1>1, <1>3, <1>4 DEF Range
<1> QED BY <1>3, <1>5 DEF r

(* Overwriting the members that meet a condition does so in their set.      *)
LEMMA EachSet ==
  ASSUME NEW s, IsSequence(s), NEW cond, NEW sub
  PROVE  LET r == SetMatching(s, cond, sub) IN
         IsSequence(r) /\ Range(r) = {IF MatchesElement(v, cond) THEN Over(v, sub) ELSE v : v \in Range(s)}
<1> DEFINE r == SetMatching(s, cond, sub)
           new(v) == IF MatchesElement(v, cond) THEN Over(v, sub) ELSE v
<1>1. DOMAIN s = 1..Len(s) /\ Len(s) \in Nat
  BY SequencesGrow DEF IsSequence
<1>2. r = [i \in 1..Len(s) |-> new(s[i])]
  BY <1>1 DEF SetMatching
<1> HIDE DEF r, new
<1>3. Len(r) = Len(s) /\ IsSequence(r) /\ DOMAIN r = 1..Len(s)
  BY <1>1, <1>2 DEF IsSequence
<1>4. \A i \in 1..Len(s) : r[i] = new(s[i])
  BY <1>2
<1>5. Range(r) = {new(v) : v \in Range(s)}
  BY <1>1, <1>3, <1>4 DEF Range
<1> QED BY <1>3, <1>5 DEF r, new

(* Pulling from an array takes the members that meet the condition, all of  *)
(* them.                                                                    *)
LEMMA Pulled ==
  ASSUME NEW s, IsSequence(s), NEW u
  PROVE  LET r == Pull(s, u) IN
         /\ IsSequence(r)
         /\ Range(r) = {v \in Range(s) : IF u.op = "pull" THEN v # u.v ELSE ~ MatchesElement(v, u.v)}
<1> DEFINE stays(v) == IF u.op = "pull" THEN v # u.v ELSE ~ MatchesElement(v, u.v)
           at == {i \in DOMAIN s : stays(s[i])}
           r == Pull(s, u)
<1>1. r = Picked(s, at) /\ at \in SUBSET DOMAIN s
  BY DEF Pull
<1> HIDE DEF r, at
<1>2. /\ IsSequence(r)
      /\ \A k \in 1..Len(r) : Ascending(at)[k] \in at /\ r[k] = s[Ascending(at)[k]]
      /\ \A i \in at : \E k \in 1..Len(r) : r[k] = s[i]
  BY <1>1, PickedMembers
<1>3. DOMAIN r = 1..Len(r)
  BY <1>2, SequencesGrow
<1>4. at = {i \in DOMAIN s : stays(s[i])}
  BY DEF at
<1> HIDE DEF stays
<1>5. Range(r) = {v \in Range(s) : stays(v)}
  <2>1. ASSUME NEW v \in Range(r) PROVE v \in Range(s) /\ stays(v)
    <3>1. PICK k \in 1..Len(r) : v = r[k]
      BY <1>3, <2>1 DEF Range
    <3> DEFINE i == Ascending(at)[k]
    <3>2. i \in at /\ v = s[i]
      BY <1>2, <3>1
    <3> HIDE DEF i
    <3>3. i \in DOMAIN s /\ stays(s[i])
      BY <1>4, <3>2
    <3> QED BY <3>2, <3>3 DEF Range
  <2>2. ASSUME NEW v \in Range(s), stays(v) PROVE v \in Range(r)
    <3>1. PICK i \in DOMAIN s : v = s[i]
      BY <2>2 DEF Range
    <3>2. i \in at
      BY <1>4, <2>2, <3>1
    <3> QED BY <1>2, <1>3, <3>1, <3>2 DEF Range
  <2> QED BY <2>1, <2>2
<1> QED BY <1>2, <1>5 DEF r, stays

(* Appending to an array adds a member.                                     *)
LEMMA Appended ==
  ASSUME NEW s, IsSequence(s), NEW v
  PROVE  IsSequence(Append(s, v)) /\ Range(Append(s, v)) = Range(s) \cup {v}
<1> DEFINE r == Append(s, v)
<1>1. /\ DOMAIN s = 1..Len(s) /\ Len(s) \in Nat /\ IsSequence(r) /\ Len(r) = Len(s) + 1
      /\ r[Len(s) + 1] = v /\ \A i \in 1..Len(s) : r[i] = s[i]
  BY SequencesGrow DEF IsSequence
<1>2. DOMAIN r = 1..Len(r)
  BY <1>1, SequencesGrow
<1> HIDE DEF r
<1>3. DOMAIN r = 1..Len(s) \cup {Len(s) + 1}
  BY <1>1, <1>2
<1>4. Range(r) = Range(s) \cup {v}
  BY <1>1, <1>3 DEF Range
<1> QED BY <1>1, <1>4 DEF r

(* An array that an operation makes of a document's, by its members.        *)
IsArray(doc, f) == f \in DOMAIN doc /\ doc[f].array = TRUE /\ IsSequence(doc[f].of)
Members(doc, f) == Range(Elements(doc, f))

(* One field is new, the rest is as it was.                                 *)
OnlyField(d, doc, f) == DOMAIN d = DOMAIN doc /\ \A g \in DOMAIN doc : g # f => d[g] = doc[g]

(* What d holds of the array f after an update of doc.                      *)
Holds(d, doc, f, M) == OnlyField(d, doc, f) /\ IsArray(d, f) /\ Members(d, f) = M

(* A new array in the place of a field changes that field only.             *)
LEMMA PutMembers ==
  ASSUME NEW doc, NEW f, f \in DOMAIN doc, NEW t, IsSequence(t)
  PROVE  Holds(Put(doc, f, Many(t)), doc, f, Range(t))
<1> DEFINE d == Put(doc, f, Many(t))
<1>1. DOMAIN d = DOMAIN doc \cup {f} /\ d[f] = Many(t)
      /\ \A g \in DOMAIN doc : g # f => d[g] = doc[g]
  BY DEF Put
<1> HIDE DEF d
<1>2. Elements(d, f) = t /\ IsArray(d, f)
  BY <1>1, Values DEF Elements, IsArray
<1>3. OnlyField(d, doc, f)
  BY <1>1 DEF OnlyField
<1>4. Members(d, f) = Range(t)
  BY <1>2 DEF Members
<1> QED BY <1>2, <1>3, <1>4 DEF d, Holds

(* The elements of an array field are a sequence.                           *)
LEMMA ElementsOf ==
  ASSUME NEW doc, NEW f, IsArray(doc, f)
  PROVE  /\ f \in DOMAIN doc /\ doc[f].array /\ IsSequence(Elements(doc, f))
         /\ Members(doc, f) = Range(Elements(doc, f))
  BY DEF IsArray, Elements, Members

(* setAt replaces the members that the filter asked for.                    *)
LEMMA SetAtOf ==
  ASSUME NEW doc, NEW f, IsArray(doc, f), NEW filter, NEW y
  PROVE  Holds(ApplyUpdate(doc, filter, Op("setAt", f, y)), doc, f,
               {IF v = Target(filter, f) THEN y ELSE v : v \in Members(doc, f)})
<1> DEFINE els == Elements(doc, f)
           t == ReplaceMatched(els, Target(filter, f), y)
<1>1. f \in DOMAIN doc /\ doc[f].array /\ IsSequence(els) /\ Members(doc, f) = Range(els)
  BY ElementsOf
<1>2. ApplyUpdate(doc, filter, Op("setAt", f, y)) = Put(doc, f, Many(t))
  BY <1>1, Operations DEF ApplyUpdate
<1>3. IsSequence(t) /\ Range(t) = {IF v = Target(filter, f) THEN y ELSE v : v \in Members(doc, f)}
  BY <1>1, Replaced
<1> HIDE DEF t
<1> QED BY <1>1, <1>2, <1>3, PutMembers

(* setEach rewrites the members that match.                                 *)
LEMMA SetEachOf ==
  ASSUME NEW doc, NEW f, IsArray(doc, f), NEW filter, NEW c, NEW s
  PROVE  Holds(ApplyUpdate(doc, filter, SetEach(f, c, s)), doc, f,
               {IF MatchesElement(v, c) THEN Over(v, s) ELSE v : v \in Members(doc, f)})
<1> DEFINE els == Elements(doc, f)
           t == SetMatching(els, c, s)
<1>1. f \in DOMAIN doc /\ doc[f].array /\ IsSequence(els) /\ Members(doc, f) = Range(els)
  BY ElementsOf
<1>2. ApplyUpdate(doc, filter, SetEach(f, c, s)) = Put(doc, f, Many(t))
  BY <1>1, Operations DEF ApplyUpdate
<1>3. IsSequence(t) /\ Range(t) = {IF MatchesElement(v, c) THEN Over(v, s) ELSE v : v \in Members(doc, f)}
  BY <1>1, EachSet
<1> HIDE DEF t
<1> QED BY <1>1, <1>2, <1>3, PutMembers

(* push adds a member.                                                      *)
LEMMA PushOf ==
  ASSUME NEW doc, NEW f, IsArray(doc, f), NEW filter, NEW y
  PROVE  Holds(ApplyUpdate(doc, filter, Op("push", f, y)), doc, f,
               Members(doc, f) \cup {y})
<1> DEFINE els == Elements(doc, f)
           t == Append(els, y)
<1>1. f \in DOMAIN doc /\ doc[f].array /\ IsSequence(els) /\ Members(doc, f) = Range(els)
  BY ElementsOf
<1>2. ApplyUpdate(doc, filter, Op("push", f, y)) = Put(doc, f, Many(t))
  BY <1>1, Operations DEF ApplyUpdate
<1>3. IsSequence(t) /\ Range(t) = Members(doc, f) \cup {y}
  BY <1>1, Appended
<1> HIDE DEF t
<1> QED BY <1>1, <1>2, <1>3, PutMembers

(* So does addToSet.                                                        *)
LEMMA AddOf ==
  ASSUME NEW doc, NEW f, IsArray(doc, f), NEW filter, NEW y
  PROVE  Holds(ApplyUpdate(doc, filter, Op("addToSet", f, y)), doc, f,
               Members(doc, f) \cup {y})
<1> DEFINE els == Elements(doc, f)
           t == IF y \in Range(els) THEN els ELSE Append(els, y)
<1>1. f \in DOMAIN doc /\ doc[f].array /\ IsSequence(els) /\ Members(doc, f) = Range(els)
  BY ElementsOf
<1>2. ApplyUpdate(doc, filter, Op("addToSet", f, y)) = Put(doc, f, Many(t))
  BY <1>1, Operations DEF ApplyUpdate
<1>3. IsSequence(t) /\ Range(t) = Members(doc, f) \cup {y}
  <2>1. CASE y \in Range(els)
    BY <1>1, <2>1
  <2>2. CASE y \notin Range(els)
    BY <1>1, <2>2, Appended
  <2> QED BY <2>1, <2>2
<1> HIDE DEF t
<1> QED BY <1>1, <1>2, <1>3, PutMembers

(* pull takes one.                                                          *)
LEMMA PullOf ==
  ASSUME NEW doc, NEW f, IsArray(doc, f), NEW filter, NEW y
  PROVE  Holds(ApplyUpdate(doc, filter, Op("pull", f, y)), doc, f,
               Members(doc, f) \ {y})
<1> DEFINE els == Elements(doc, f)
           t == Pull(els, Op("pull", f, y))
<1>1. f \in DOMAIN doc /\ doc[f].array /\ IsSequence(els) /\ Members(doc, f) = Range(els)
  BY ElementsOf
<1>2. ApplyUpdate(doc, filter, Op("pull", f, y)) = Put(doc, f, Many(t))
  BY <1>1, Operations DEF ApplyUpdate
<1>3. IsSequence(t) /\ Range(t) = Members(doc, f) \ {y}
  <2>1. IsSequence(t) /\ Range(t) = {v \in Range(els) : v # y}
    BY <1>1, Operations, Pulled
  <2> QED BY <1>1, <2>1
<1> HIDE DEF t
<1> QED BY <1>1, <1>2, <1>3, PutMembers

(* pullWhere takes those that match.                                        *)
LEMMA PullWhereOf ==
  ASSUME NEW doc, NEW f, IsArray(doc, f), NEW filter, NEW c
  PROVE  Holds(ApplyUpdate(doc, filter, Op("pullWhere", f, c)), doc, f,
               {v \in Members(doc, f) : ~ MatchesElement(v, c)})
<1> DEFINE els == Elements(doc, f)
           t == Pull(els, Op("pullWhere", f, c))
<1>1. f \in DOMAIN doc /\ doc[f].array /\ IsSequence(els) /\ Members(doc, f) = Range(els)
  BY ElementsOf
<1>2. ApplyUpdate(doc, filter, Op("pullWhere", f, c)) = Put(doc, f, Many(t))
  BY <1>1, Operations DEF ApplyUpdate
<1>3. IsSequence(t) /\ Range(t) = {v \in Members(doc, f) : ~ MatchesElement(v, c)}
  <2>1. IsSequence(t) /\ Range(t) = {v \in Range(els) : ~ MatchesElement(v, c)}
    BY <1>1, Operations, Pulled
  <2> QED BY <1>1, <2>1
<1> HIDE DEF t
<1> QED BY <1>1, <1>2, <1>3, PutMembers

(* set stores the array it is given.                                        *)
LEMMA SetArrayOf ==
  ASSUME NEW doc, NEW f, IsArray(doc, f), NEW filter, NEW t, IsSequence(t)
  PROVE  Holds(ApplyUpdate(doc, filter, Set(f, Many(t))), doc, f, Range(t))
<1>1. ApplyUpdate(doc, filter, Set(f, Many(t))) = Put(doc, f, Many(t))
  BY DEF ApplyUpdate, Set
<1> QED BY <1>1, ElementsOf, PutMembers

------------------------------------------------------------------------------
(* What a filter selects.                                                   *)

(* A field of one value matches a name if it is the name.                   *)
LEMMA MatchesValue ==
  ASSUME NEW d, NEW f, f \in DOMAIN d, IsScalar(d[f]), NEW v, v # Null
  PROVE  MatchField(d, Is(f, v)) <=> Get(d, f) = v
<1> DEFINE c == Is(f, v)
<1>1. c.path = <<f>> /\ Len(c.path) = 1 /\ c.path[1] = f /\ c.op = "eq" /\ c.v = v
  BY DEF Is, Clause
<1>2. ResolveValues(d, c.path) = Range(d[f].of)
  BY <1>1 DEF ResolveValues
<1>3. d[f].of = <<Get(d, f)>>
  BY DEF IsScalar, One, Get
<1>4. Range(<<Get(d, f)>>) = {Get(d, f)}
  BY DEF Range
<1> HIDE DEF c
<1>5. MatchField(d, c) <=> v \in ResolveValues(d, c.path)
  BY <1>1 DEF MatchField
<1> QED BY <1>2, <1>3, <1>4, <1>5 DEF c

(* An array matches a name if the name, or a sub-document of that app, is a *)
(* member.                                                                  *)
LEMMA MatchesMember ==
  ASSUME NEW d, NEW f, IsArray(d, f), NEW v, v # Null
  PROVE  /\ MatchField(d, Is(f, v)) <=> v \in Members(d, f)
         /\ MatchField(d, Has(f, "app", v)) <=>
              \E e \in Members(d, f) : "app" \in DOMAIN e /\ e["app"] = v
<1>1. Members(d, f) = Range(d[f].of) /\ f \in DOMAIN d
  BY DEF Members, Elements, IsArray
<1>2. MatchField(d, Is(f, v)) <=> v \in Members(d, f)
  <2> DEFINE c == Is(f, v)
  <2>1. c.path = <<f>> /\ Len(c.path) = 1 /\ c.path[1] = f /\ c.op = "eq" /\ c.v = v
    BY DEF Is, Clause
  <2>2. ResolveValues(d, c.path) = Range(d[f].of)
    BY <1>1, <2>1 DEF ResolveValues
  <2> HIDE DEF c
  <2>3. MatchField(d, c) <=> v \in ResolveValues(d, c.path)
    BY <2>1 DEF MatchField
  <2> QED BY <1>1, <2>2, <2>3 DEF c
<1>3. MatchField(d, Has(f, "app", v)) <=>
        \E e \in Members(d, f) : "app" \in DOMAIN e /\ e["app"] = v
  <2> DEFINE c == Has(f, "app", v)
  <2>1. /\ c.path = <<f, "app">> /\ Len(c.path) = 2 /\ c.path[1] = f /\ c.path[2] = "app"
        /\ c.op = "eq" /\ c.v = v
    BY DEF Has, Clause
  <2>2. ResolveValues(d, c.path) = {el["app"] : el \in {e \in Range(d[f].of) : "app" \in DOMAIN e}}
    BY <1>1, <2>1 DEF ResolveValues
  <2> HIDE DEF c
  <2>3. MatchField(d, c) <=> v \in ResolveValues(d, c.path)
    BY <2>1 DEF MatchField
  <2> QED BY <1>1, <2>2, <2>3 DEF c
<1> QED BY <1>2, <1>3

(* A filter of one clause selects what the clause matches: the SQL          *)
(* condition takes nothing from it.                                         *)
LEMMA SelectedBy ==
  ASSUME NEW d, GoodDoc(d)
  PROVE  /\ \A f, v : v # Null =>
              (Selected(d, Columns[name], <<Is(f, v)>>) <=> MatchField(d, Is(f, v)))
         /\ \A f, v : Selected(d, Columns[name], <<Has(f, "app", v)>>) <=>
              MatchField(d, Has(f, "app", v))
         /\ \A filter : Selected(d, Columns[name], filter) => Matches(d, filter)
<1>1. ASSUME NEW c, MatchField(d, c) => Prefilter(d, c, Columns[name])
      PROVE  Selected(d, Columns[name], <<c>>) <=> MatchField(d, c)
  BY <1>1 DEF Selected, Matches
<1>2. \A f, v : v # Null => (MatchField(d, Is(f, v)) => Prefilter(d, Is(f, v), Columns[name]))
  BY EqKept
<1>3. \A f, v : Prefilter(d, Has(f, "app", v), Columns[name])
  BY DEF Prefilter, Has, Clause
<1> QED BY <1>1, <1>2, <1>3 DEF Selected

(* So does one of three.                                                    *)
LEMMA SelectedByThree ==
  ASSUME NEW d, GoodDoc(d), NEW f, NEW x, x # Null, NEW g, NEW y, y # Null, NEW h, NEW z,
         h \in Columns[name] => z # Null
  PROVE  Selected(d, Columns[name], <<Is(f, x), Is(g, y), Is(h, z)>>) <=>
           MatchField(d, Is(f, x)) /\ MatchField(d, Is(g, y)) /\ MatchField(d, Is(h, z))
<1> DEFINE a == Is(f, x)
           b == Is(g, y)
           c == Is(h, z)
<1>1. /\ MatchField(d, a) => Prefilter(d, a, Columns[name])
      /\ MatchField(d, b) => Prefilter(d, b, Columns[name])
      /\ MatchField(d, c) => Prefilter(d, c, Columns[name])
  BY EqKept
<1> HIDE DEF a, b, c
<1>2. Selected(d, Columns[name], <<a, b, c>>) <=>
        MatchField(d, a) /\ MatchField(d, b) /\ MatchField(d, c)
  BY <1>1 DEF Selected, Matches
<1> QED BY <1>2 DEF a, b, c

------------------------------------------------------------------------------
(* The facts, row by row.                                                   *)

Facts == UNION {Said(rows[i]) : i \in DOMAIN rows}

Patched(d, filter, u) ==
  IF Selected(d, Columns[name], filter) THEN ApplyUpdate(d, filter, u) ELSE d
AllPatched(filter, u) == [i \in DOMAIN rows |-> Patched(rows[i], filter, u)]

(* At most one row is selected.                                             *)
AtMostOne(filter) ==
  \A i, j \in DOMAIN rows :
    Selected(rows[i], Columns[name], filter) /\ Selected(rows[j], Columns[name], filter) => i = j

(* A call is about every row that its filter selects, when it is about many *)
(* or no two are.                                                           *)
LEMMA TargetsAre ==
  ASSUME StoreInv, NEW filter, NEW many \in BOOLEAN, many \/ AtMostOne(filter)
  PROVE  Targets(rows, Columns[name], filter, many) =
           {i \in DOMAIN rows : Selected(rows[i], Columns[name], filter)}
<1> DEFINE chosen == {i \in DOMAIN rows : Selected(rows[i], Columns[name], filter)}
           at == Targets(rows, Columns[name], filter, many)
<1>1. DOMAIN rows = 1..Len(rows) /\ Len(rows) \in Nat
  BY SequencesGrow DEF StoreInv, IsSequence
<1>2. at = chosen
  <2>1. CASE many \/ chosen = {}
    BY <2>1 DEF Targets
  <2>2. CASE ~ many /\ chosen # {}
    <3>1. PICK i \in chosen : TRUE
      BY <2>2
    <3>2. \A j \in chosen : j = i
      BY <2>2, <3>1 DEF AtMostOne
    <3>3. chosen = {i} /\ i \in Int
      BY <1>1, <3>1, <3>2
    <3>4. at = {CHOOSE k \in chosen : \A j \in chosen : k <= j}
      BY <2>2 DEF Targets
    <3> HIDE DEF chosen, at
    <3>5. (CHOOSE k \in chosen : \A j \in chosen : k <= j) = i
      BY <3>3
    <3> QED BY <3>3, <3>4, <3>5
  <2> QED BY <2>1, <2>2
<1> QED BY <1>2

(* An update patches the rows it is about, unless the unique index refuses. *)
LEMMA RowsPatched ==
  ASSUME StoreInv, NEW filter, NEW u, NEW many \in BOOLEAN, many \/ AtMostOne(filter),
         rows' = Update(rows, Columns[name], Index[name], filter, <<u>>, many, FALSE).rows
  PROVE  \/ rows' = AllPatched(filter, u) /\ Distinct(AllPatched(filter, u), Index[name])
         \/ rows' = rows /\ ~ Distinct(AllPatched(filter, u), Index[name])
<1> DEFINE chosen == {i \in DOMAIN rows : Selected(rows[i], Columns[name], filter)}
           at == Targets(rows, Columns[name], filter, many)
           new == [i \in DOMAIN rows |-> IF i \in at THEN ApplyAll(rows[i], filter, <<u>>) ELSE rows[i]]
<1>1. DOMAIN rows = 1..Len(rows) /\ Len(rows) \in Nat
  BY SequencesGrow DEF StoreInv, IsSequence
<1>2. at = chosen
  BY TargetsAre
<1>3. \A i \in DOMAIN rows :
        (IF i \in at THEN ApplyAll(rows[i], filter, <<u>>) ELSE rows[i]) = Patched(rows[i], filter, u)
  <2>1. \A i \in DOMAIN rows : i \in at <=> Selected(rows[i], Columns[name], filter)
    BY <1>2
  <2> HIDE DEF at
  <2> QED BY <2>1, AllOfOne DEF Patched
<1>4. new = AllPatched(filter, u)
  BY <1>3 DEF AllPatched
<1>5. rows' = Checked(rows, new, Cardinality(at), Index[name]).rows
  BY DEF Update
<1> HIDE DEF new, at
<1> QED BY <1>4, <1>5 DEF Checked, Ok

(* The facts after a step are what the new rows say.                        *)
LEMMA FactsAre ==
  ASSUME name' = name, NEW new, rows' = new
  PROVE  Facts' = UNION {Said(new[i]) : i \in DOMAIN new}
<1>1. \A d : Said(d)' = Said(d)
  BY DEF Said
<1>2. Facts' = UNION {Said(rows[i])' : i \in DOMAIN rows'}
  BY DEF Facts
<1> QED BY <1>1, <1>2 DEF Facts

(* Rows that stay the same say the same.                                    *)
LEMMA FactsSame == ASSUME name' = name, rows' = rows PROVE Facts' = Facts
  BY FactsAre DEF Facts

(* If a selected row says New and not Gone, and no other says any of Gone.  *)
But(S, Gone, New) == (S \ Gone) \cup New

(* An update whose selected rows give up Gone and say New gives up Gone and *)
(* adds New; if it selects none, none of Gone was said.                     *)
LEMMA FactsChanged ==
  ASSUME name' = name, NEW filter, NEW u, rows' = AllPatched(filter, u), NEW Gone, NEW New,
         \A i \in DOMAIN rows : Selected(rows[i], Columns[name], filter) =>
           Said(ApplyUpdate(rows[i], filter, u)) = But(Said(rows[i]), Gone, New),
         \A i \in DOMAIN rows : ~ Selected(rows[i], Columns[name], filter) =>
           But(Said(rows[i]), Gone, {}) = Said(rows[i])
  PROVE  /\ (\E i \in DOMAIN rows : Selected(rows[i], Columns[name], filter)) =>
              Facts' = But(Facts, Gone, New)
         /\ (~ \E i \in DOMAIN rows : Selected(rows[i], Columns[name], filter)) =>
              Facts' = Facts /\ But(Facts, Gone, {}) = Facts
<1> DEFINE new == AllPatched(filter, u)
           sel(i) == Selected(rows[i], Columns[name], filter)
<1>1. DOMAIN new = DOMAIN rows /\ \A i \in DOMAIN rows : new[i] = Patched(rows[i], filter, u)
  BY DEF AllPatched
<1>2. Facts' = UNION {Said(new[i]) : i \in DOMAIN new}
  BY FactsAre
<1> HIDE DEF new, sel
<1>3. ASSUME NEW i \in DOMAIN rows
      PROVE  /\ sel(i) => Said(new[i]) = (Said(rows[i]) \ Gone) \cup New
             /\ ~ sel(i) => Said(new[i]) = Said(rows[i]) /\ Said(rows[i]) \ Gone = Said(rows[i])
  BY <1>1 DEF sel, Patched, But
<1>4. \A g : g \in Facts' <=> \E i \in DOMAIN rows : g \in Said(new[i])
  BY <1>1, <1>2
<1>5. \A g : g \in Facts <=> \E i \in DOMAIN rows : g \in Said(rows[i])
  BY DEF Facts
<1>6. ASSUME NEW j \in DOMAIN rows, sel(j) PROVE Facts' = (Facts \ Gone) \cup New
  <2>1. ASSUME NEW g \in Facts' PROVE g \in (Facts \ Gone) \cup New
    <3>1. PICK i \in DOMAIN rows : g \in Said(new[i])
      BY <1>4
    <3>2. g \in (Said(rows[i]) \ Gone) \cup New
      BY <1>3, <3>1
    <3> QED BY <1>5, <3>2
  <2>2. ASSUME NEW g \in Facts \ Gone PROVE g \in Facts'
    <3>1. PICK i \in DOMAIN rows : g \in Said(rows[i])
      BY <1>5
    <3> QED BY <1>3, <1>4, <3>1
  <2>3. ASSUME NEW g \in New PROVE g \in Facts'
    BY <1>3, <1>4, <1>6, <2>3
  <2> QED BY <2>1, <2>2, <2>3
<1>7. ASSUME \A i \in DOMAIN rows : ~ sel(i) PROVE Facts' = Facts /\ Facts \ Gone = Facts
  <2>1. \A i \in DOMAIN rows : Said(new[i]) = Said(rows[i]) /\ Said(rows[i]) \ Gone = Said(rows[i])
    BY <1>3, <1>7
  <2>2. \A g : g \in Facts' <=> g \in Facts
    BY <1>4, <1>5, <2>1
  <2>3. ASSUME NEW g \in Facts PROVE g \notin Gone
    <3>1. PICK i \in DOMAIN rows : g \in Said(rows[i])
      BY <1>5
    <3> QED BY <2>1, <3>1
  <2> QED BY <2>2, <2>3
<1> QED BY <1>6, <1>7 DEF sel, But

(* An update whose selected rows only give up Gone takes Gone away.         *)
LEMMA FactsLost ==
  ASSUME name' = name, NEW filter, NEW u, rows' = AllPatched(filter, u), NEW Gone,
         \A i \in DOMAIN rows : Selected(rows[i], Columns[name], filter) =>
           Said(ApplyUpdate(rows[i], filter, u)) = But(Said(rows[i]), Gone, {}),
         \A i \in DOMAIN rows : ~ Selected(rows[i], Columns[name], filter) =>
           But(Said(rows[i]), Gone, {}) = Said(rows[i])
  PROVE  Facts' = But(Facts, Gone, {})
  BY FactsChanged

(* If the selected rows say what they said.                                 *)
LEMMA FactsUnchanged ==
  ASSUME name' = name, NEW filter, NEW u, rows' = AllPatched(filter, u),
         \A i \in DOMAIN rows : Selected(rows[i], Columns[name], filter) =>
           Said(ApplyUpdate(rows[i], filter, u)) = Said(rows[i])
  PROVE  Facts' = Facts
<1> DEFINE new == AllPatched(filter, u)
<1>1. DOMAIN new = DOMAIN rows /\ \A i \in DOMAIN rows : new[i] = Patched(rows[i], filter, u)
  BY DEF AllPatched
<1>2. Facts' = UNION {Said(new[i]) : i \in DOMAIN new}
  BY FactsAre
<1> HIDE DEF new
<1>3. \A i \in DOMAIN rows : Said(new[i]) = Said(rows[i])
  BY <1>1 DEF Patched
<1>4. \A g : g \in Facts' <=> g \in Facts
  BY <1>1, <1>2, <1>3 DEF Facts
<1> QED BY <1>4

(* If each row says the same in other words.                                *)
RenamedTo(g, kinds, n, x, y) == IF g[1] \in kinds /\ g[n] = x THEN [g EXCEPT ![n] = y] ELSE g
RenamedAll(S, kinds, n, x, y) == {RenamedTo(g, kinds, n, x, y) : g \in S}

(* An update after which each row says the same under new names renames the *)
(* facts.                                                                   *)
LEMMA FactsMapped ==
  ASSUME name' = name, NEW filter, NEW u, rows' = AllPatched(filter, u), NEW kinds, NEW n, NEW x, NEW y,
         \A i \in DOMAIN rows :
           Said(IF Selected(rows[i], Columns[name], filter) THEN ApplyUpdate(rows[i], filter, u) ELSE rows[i])
             = RenamedAll(Said(rows[i]), kinds, n, x, y)
  PROVE  Facts' = RenamedAll(Facts, kinds, n, x, y)
<1> DEFINE new == AllPatched(filter, u)
<1>1. DOMAIN new = DOMAIN rows /\ \A i \in DOMAIN rows : new[i] = Patched(rows[i], filter, u)
  BY DEF AllPatched
<1>2. Facts' = UNION {Said(new[i]) : i \in DOMAIN new}
  BY FactsAre
<1> HIDE DEF new
<1>3. \A i \in DOMAIN rows : Said(new[i]) = RenamedAll(Said(rows[i]), kinds, n, x, y)
  BY <1>1 DEF Patched
<1>4. \A g : g \in Facts' <=> \E i \in DOMAIN rows : g \in Said(new[i])
  BY <1>1, <1>2
<1>5. \A g : g \in Facts <=> \E i \in DOMAIN rows : g \in Said(rows[i])
  BY DEF Facts
<1>6. ASSUME NEW g PROVE g \in Facts' <=> \E k \in Facts : g = RenamedTo(k, kinds, n, x, y)
  <2>1. ASSUME g \in Facts' PROVE \E k \in Facts : g = RenamedTo(k, kinds, n, x, y)
    <3>1. PICK i \in DOMAIN rows : g \in Said(new[i])
      BY <1>4, <2>1
    <3>2. PICK k \in Said(rows[i]) : g = RenamedTo(k, kinds, n, x, y)
      BY <1>3, <3>1 DEF RenamedAll
    <3> QED BY <1>5, <3>2
  <2>2. ASSUME NEW k \in Facts, g = RenamedTo(k, kinds, n, x, y) PROVE g \in Facts'
    <3>1. PICK i \in DOMAIN rows : k \in Said(rows[i])
      BY <1>5
    <3> QED BY <1>3, <1>4, <2>2, <3>1 DEF RenamedAll
  <2> QED BY <2>1, <2>2
<1> QED BY <1>6 DEF RenamedAll

(* If no row says any of Gone.                                              *)
LEMMA NoneGone ==
  ASSUME NEW Gone, \A i \in DOMAIN rows : But(Said(rows[i]), Gone, {}) = Said(rows[i])
  PROVE  But(Facts, Gone, {}) = Facts
  BY DEF Facts, But

(* A new row adds what it says.                                             *)
LEMMA FactsInserted ==
  ASSUME StoreInv, name' = name, NEW doc, rows' = InsertOne(rows, Index[name], doc).rows
  PROVE  \/ /\ Distinct(Append(rows, doc), Index[name]) /\ Facts' = Facts \cup Said(doc)
            /\ \A i \in DOMAIN rows' : rows'[i] = doc \/ \E j \in DOMAIN rows : rows'[i] = rows[j]
         \/ rows' = rows /\ ~ Distinct(Append(rows, doc), Index[name])
<1> DEFINE new == Append(rows, doc)
           n == Len(rows)
<1>1. DOMAIN rows = 1..n /\ n \in Nat
  BY SequencesGrow DEF StoreInv, IsSequence
<1>2. rows' = Checked(rows, new, 1, Index[name]).rows
  BY DEF InsertOne
<1>3. IsSequence(new) /\ Len(new) = n + 1 /\ new[n + 1] = doc /\ \A i \in 1..n : new[i] = rows[i]
  BY SequencesGrow DEF StoreInv
<1>4. DOMAIN new = 1..(n + 1)
  BY <1>3, SequencesGrow
<1>5. CASE ~ Distinct(new, Index[name])
  BY <1>2, <1>5 DEF Checked
<1>6. CASE Distinct(new, Index[name])
  <2> HIDE DEF new, n
  <2>1. rows' = new
    BY <1>2, <1>6 DEF Checked, Ok
  <2>2. Facts' = UNION {Said(new[i]) : i \in DOMAIN new}
    BY <2>1, FactsAre
  <2>3. \A i \in DOMAIN new : i \in 1..n \/ i = n + 1
    BY <1>1, <1>4
  <2>4. ASSUME NEW g PROVE g \in Facts' <=> g \in Facts \/ g \in Said(doc)
    <3>1. g \in Facts' => g \in Facts \/ g \in Said(doc)
      BY <1>1, <1>3, <2>2, <2>3 DEF Facts
    <3>2. 1..n \subseteq DOMAIN new /\ n + 1 \in DOMAIN new
      BY <1>1, <1>4
    <3>3. g \in Facts \/ g \in Said(doc) => g \in Facts'
      BY <1>1, <1>3, <2>2, <3>2 DEF Facts
    <3> QED BY <3>1, <3>3
  <2>5. Facts' = Facts \cup Said(doc)
    BY <2>4
  <2>6. \A i \in DOMAIN rows' : rows'[i] = doc \/ \E j \in DOMAIN rows : rows'[i] = rows[j]
    BY <1>1, <1>3, <2>1, <2>3
  <2> QED BY <1>6, <2>5, <2>6 DEF new
<1> QED BY <1>5, <1>6 DEF new

(* It is refused if and only if its key is another row's.                   *)
LEMMA InsertRefused ==
  ASSUME StoreInv, NEW f, Index[name] = {f}, NEW doc, Get(doc, f) # Null
  PROVE  Distinct(Append(rows, doc), Index[name]) <=>
           \A i \in DOMAIN rows : Get(rows[i], f) # Get(doc, f)
<1> DEFINE new == Append(rows, doc)
           n == Len(rows)
<1>1. DOMAIN rows = 1..n /\ n \in Nat
  BY SequencesGrow DEF StoreInv, IsSequence
<1>3. IsSequence(new) /\ Len(new) = n + 1 /\ new[n + 1] = doc /\ \A i \in 1..n : new[i] = rows[i]
  BY SequencesGrow DEF StoreInv
<1>4. DOMAIN new = 1..(n + 1)
  BY <1>3, SequencesGrow
<1>5. \A i \in 1..n : Get(rows[i], f) # Null
  BY DEF StoreInv, GoodDoc
<1>6. \A i, j \in 1..n : i # j => Get(rows[i], f) # Get(rows[j], f)
  BY <1>1, <1>5 DEF StoreInv, Distinct
<1> HIDE DEF new, n
<1>7. ASSUME Distinct(new, {f}), NEW i \in 1..n PROVE Get(rows[i], f) # Get(doc, f)
  <2>1. i \in DOMAIN new /\ n + 1 \in DOMAIN new /\ i # n + 1
    BY <1>1, <1>4
  <2> QED BY <1>3, <1>5, <1>7, <2>1 DEF Distinct
<1>8. ASSUME \A i \in 1..n : Get(rows[i], f) # Get(doc, f) PROVE Distinct(new, {f})
  <2>1. \A i \in DOMAIN new : i \in 1..n \/ i = n + 1
    BY <1>1, <1>4
  <2>2. ASSUME NEW i \in DOMAIN new, NEW j \in DOMAIN new, i # j PROVE Get(new[i], f) # Get(new[j], f)
    BY <1>3, <1>6, <1>8, <2>1, <2>2
  <2> QED BY <2>2 DEF Distinct
<1> QED BY <1>1, <1>7, <1>8 DEF new

(* An upsert patches the row there is, or makes one.                        *)
LEMMA Upserted ==
  ASSUME StoreInv, NEW filter, NEW us, NEW u, AtMostOne(filter),
         \A doc : ApplyAll(doc, filter, us) = ApplyUpdate(doc, filter, u)
  PROVE  /\ (\E i \in DOMAIN rows : Selected(rows[i], Columns[name], filter)) =>
              Upsert(filter, us) = Patch(filter, <<u>>)
         /\ (~ \E i \in DOMAIN rows : Selected(rows[i], Columns[name], filter)) =>
              Upsert(filter, us) = InsertOne(rows, Index[name], BuildUpsertDoc(filter, us)).rows
<1> DEFINE at == Targets(rows, Columns[name], filter, FALSE)
<1>1. at = {i \in DOMAIN rows : Selected(rows[i], Columns[name], filter)}
  BY TargetsAre
<1>2. \A doc : ApplyAll(doc, filter, us) = ApplyAll(doc, filter, <<u>>)
  BY AllOfOne
<1> HIDE DEF at
<1>3. [i \in DOMAIN rows |-> IF i \in at THEN ApplyAll(rows[i], filter, us) ELSE rows[i]]
      = [i \in DOMAIN rows |-> IF i \in at THEN ApplyAll(rows[i], filter, <<u>>) ELSE rows[i]]
  BY <1>2
<1>4. ASSUME at # {} PROVE Upsert(filter, us) = Patch(filter, <<u>>)
  BY <1>3, <1>4 DEF Upsert, Patch, Update, at
<1>5. ASSUME at = {}
      PROVE  Upsert(filter, us) = InsertOne(rows, Index[name], BuildUpsertDoc(filter, us)).rows
  BY <1>5 DEF Upsert, Update, at
<1> QED BY <1>1, <1>4, <1>5

(* A deletion takes what the selected rows say.                             *)
LEMMA FactsDeleted ==
  ASSUME StoreInv, name' = name, NEW filter, NEW many \in BOOLEAN, many \/ AtMostOne(filter),
         rows' = Delete(rows, Columns[name], filter, many), NEW Gone,
         \A i \in DOMAIN rows :
           /\ Selected(rows[i], Columns[name], filter) => But(Said(rows[i]), Gone, {}) = {}
           /\ ~ Selected(rows[i], Columns[name], filter) => But(Said(rows[i]), Gone, {}) = Said(rows[i])
  PROVE  /\ Facts' = But(Facts, Gone, {})
         /\ \A i \in DOMAIN rows' : \E j \in DOMAIN rows : rows'[i] = rows[j]
<1> DEFINE chosen == {i \in DOMAIN rows : Selected(rows[i], Columns[name], filter)}
           at == Targets(rows, Columns[name], filter, many)
           stay == DOMAIN rows \ at
           new == Picked(rows, stay)
<1>1. IsSequence(rows) /\ DOMAIN rows = 1..Len(rows) /\ Len(rows) \in Nat
  BY SequencesGrow DEF StoreInv, IsSequence
<1>2. at = chosen
  BY TargetsAre
<1>3. rows' = new
  BY DEF Delete
<1>4. stay \in SUBSET DOMAIN rows /\ stay = {i \in DOMAIN rows : ~ Selected(rows[i], Columns[name], filter)}
  BY <1>2
<1> HIDE DEF stay, at
<1> HIDE DEF new
<1>12. new = Picked(rows, stay)
  BY DEF new
<1>5. IsSequence(new)
  BY <1>1, <1>4, <1>12, PickedMembers
<1>13. \A k \in 1..Len(new) : Ascending(stay)[k] \in stay /\ new[k] = rows[Ascending(stay)[k]]
  BY <1>1, <1>4, <1>12, PickedMembers
<1>14. \A i \in stay : \E k \in 1..Len(new) : new[k] = rows[i]
  <2>1. \A i \in stay : \E k \in 1..Len(Picked(rows, stay)) : Picked(rows, stay)[k] = rows[i]
    <3>1. IsSequence(rows) /\ stay \in SUBSET DOMAIN rows
      BY <1>1, <1>4
    <3> QED BY ONLY <3>1, PickedMembers
  <2> QED BY <1>12, <2>1
<1>6. DOMAIN new = 1..Len(new)
  BY <1>5, SequencesGrow
<1>7. Facts' = UNION {Said(new[i]) : i \in DOMAIN new}
  BY <1>3, FactsAre
<1>8. \A k \in DOMAIN new : \E i \in stay : new[k] = rows[i]
  BY <1>13, <1>6
<1>9. Facts' = UNION {Said(rows[i]) : i \in stay}
  <2>1. ASSUME NEW g \in Facts' PROVE \E i \in stay : g \in Said(rows[i])
    BY <1>7, <1>8
  <2>2. ASSUME NEW i \in stay, NEW g \in Said(rows[i]) PROVE g \in Facts'
    BY <1>14, <1>6, <1>7
  <2> QED BY <2>1, <2>2
<1>10. \A i \in DOMAIN rows : Said(rows[i]) \ Gone = IF i \in stay THEN Said(rows[i]) ELSE {}
  BY <1>4 DEF But
<1>11. Facts' = Facts \ Gone
  <2>1. ASSUME NEW g \in Facts' PROVE g \in Facts \ Gone
    <3>1. PICK i \in stay : g \in Said(rows[i])
      BY <1>9
    <3>2. i \in DOMAIN rows /\ g \in Said(rows[i]) \ Gone
      BY <1>4, <1>10, <3>1
    <3> QED BY <3>2 DEF Facts
  <2>2. ASSUME NEW g \in Facts \ Gone PROVE g \in Facts'
    <3>1. PICK i \in DOMAIN rows : g \in Said(rows[i])
      BY DEF Facts
    <3>2. i \in stay
      BY <1>10, <3>1
    <3> QED BY <1>9, <3>1, <3>2
  <2> QED BY <2>1, <2>2
<1> QED BY <1>3, <1>4, <1>8, <1>11 DEF But

------------------------------------------------------------------------------
(* What documents look like beside their indexes.                           *)

IsGrant(g)    == \E a : g = [app |-> a]
IsOverride(o) == \E a, e : o = [app |-> a, effect |-> e]
IsValue(d, f) == f \in DOMAIN d /\ ~ d[f].array

ShapedDoc(d) ==
  /\ name = "users" => /\ IsArray(d, "roles") /\ IsArray(d, "app_overrides")
                       /\ \A o \in Members(d, "app_overrides") : IsOverride(o)
  /\ name = "roles" => IsArray(d, "grants") /\ \A g \in Members(d, "grants") : IsGrant(g)
  /\ name = "apiKeys" => /\ IsValue(d, "_id") /\ IsValue(d, "user_id") /\ IsValue(d, "revoked_at")
                         /\ Get(d, "_id") = Get(d, "token_hash")

Shapes  == \A i \in DOMAIN rows : ShapedDoc(rows[i])
FactInv == StoreInv /\ Shapes

(* Each row is good and well shaped.                                        *)
LEMMA RowIs ==
  ASSUME FactInv, NEW i \in DOMAIN rows
  PROVE  GoodDoc(rows[i]) /\ ShapedDoc(rows[i])
  BY SequencesGrow DEF FactInv, StoreInv, Shapes

(* Nobody else has the key.                                                 *)
LEMMA OneOfAKey ==
  ASSUME FactInv, NEW f, Index[name] = {f}, NEW x, x # Null
  PROVE  /\ AtMostOne(<<Is(f, x)>>)
         /\ \A i \in DOMAIN rows : Selected(rows[i], Columns[name], <<Is(f, x)>>) <=>
              Get(rows[i], f) = x
         /\ \A i, j \in DOMAIN rows : Get(rows[i], f) = Get(rows[j], f) => i = j
<1>1. ASSUME NEW i \in DOMAIN rows
      PROVE  Selected(rows[i], Columns[name], <<Is(f, x)>>) <=> Get(rows[i], f) = x
  <2>1. GoodDoc(rows[i])
    BY <1>1, RowIs
  <2>2. f \in DOMAIN rows[i] /\ f \in Columns[name]
    BY <2>1, TheFields DEF GoodDoc, FactInv, StoreInv
  <2>3. IsScalar(rows[i][f])
    BY <2>1, <2>2 DEF GoodDoc
  <2> QED BY <2>1, <2>2, <2>3, SelectedBy, MatchesValue
<1>2. \A i, j \in DOMAIN rows : Get(rows[i], f) = Get(rows[j], f) => i = j
  <2>1. \A i \in DOMAIN rows : Get(rows[i], f) # Null
    BY RowIs DEF GoodDoc
  <2> QED BY <2>1 DEF FactInv, StoreInv, Distinct
<1> QED BY <1>1, <1>2 DEF AtMostOne

(* A call that leaves the index alone is never refused.                     *)
LEMMA NeverRefused ==
  ASSUME FactInv, NEW filter, NEW u, NEW many \in BOOLEAN, many \/ AtMostOne(filter),
         rows' = Update(rows, Columns[name], Index[name], filter, <<u>>, many, FALSE).rows,
         \A i \in DOMAIN rows : \A g \in Index[name] :
           Get(ApplyUpdate(rows[i], filter, u), g) = Get(rows[i], g)
  PROVE  rows' = AllPatched(filter, u)
<1>1. \A i \in DOMAIN rows : \A g \in Index[name] : Get(Patched(rows[i], filter, u), g) = Get(rows[i], g)
  BY DEF Patched
<1>2. Distinct(AllPatched(filter, u), Index[name])
  BY <1>1 DEF FactInv, StoreInv, Distinct, AllPatched
<1> QED BY <1>2, RowsPatched DEF FactInv

(* Rows that are all well shaped are the invariant's.                       *)
LEMMA ShapesOf ==
  ASSUME name' = name, NEW new, rows' = new, \A i \in DOMAIN new : ShapedDoc(new[i])
  PROVE  Shapes'
<1>1. \A d : ShapedDoc(d)' <=> ShapedDoc(d)
  BY DEF ShapedDoc
<1> QED BY <1>1 DEF Shapes

------------------------------------------------------------------------------
(* The users.                                                               *)

UserFacts(e, R, O) ==
  {<<"user", e>>} \cup {<<"holds", e, k>> : k \in R}
  \cup {<<"override", e, o.app, o.effect>> : o \in O}

(* What a row of a user says.                                               *)
LEMMA SaidOfUser ==
  ASSUME name = "users", NEW d
  PROVE  Said(d) = UserFacts(Get(d, "email"), Members(d, "roles"), Members(d, "app_overrides"))
  BY DEF Said, UserFacts, Members

(* The parts of a user's facts, and what becomes of them under a new name.  *)
LEMMA FactsAre3 ==
  /\ \A e : <<"user", e>>[1] = "user" /\ <<"user", e>>[2] = e
  /\ \A e, k : /\ <<"holds", e, k>>[1] = "holds" /\ <<"holds", e, k>>[2] = e /\ <<"holds", e, k>>[3] = k
               /\ \A y : [<<"holds", e, k>> EXCEPT ![3] = y] = <<"holds", e, y>>
  /\ \A e, a, f : LET o == <<"override", e, a, f>> IN
               /\ o[1] = "override" /\ o[2] = e /\ o[3] = a /\ o[4] = f
               /\ \A y : [o EXCEPT ![3] = y] = <<"override", e, y, f>>
<1>1. \A e, k, y : [<<"holds", e, k>> EXCEPT ![3] = y] = <<"holds", e, y>>
  OBVIOUS
<1>2. \A e, a, f, y : [<<"override", e, a, f>> EXCEPT ![3] = y] = <<"override", e, y, f>>
  OBVIOUS
<1> QED BY <1>1, <1>2

(* The members, with y for x.                                               *)
Swapped(R, x, y) == {IF k = x THEN y ELSE k : k \in R}

(* Replacing a role among a user's roles renames it in what he holds.       *)
LEMMA HoldersMoved ==
  ASSUME NEW e, NEW R, NEW O, NEW x, NEW y
  PROVE  UserFacts(e, Swapped(R, x, y), O) =
           RenamedAll(UserFacts(e, R, O), {"holds"}, 3, x, y)
<1> DEFINE S == {IF k = x THEN y ELSE k : k \in R}
<1>1. RenamedTo(<<"user", e>>, {"holds"}, 3, x, y) = <<"user", e>>
  BY FactsAre3 DEF RenamedTo
<1>2. \A k : RenamedTo(<<"holds", e, k>>, {"holds"}, 3, x, y) = <<"holds", e, IF k = x THEN y ELSE k>>
  BY FactsAre3 DEF RenamedTo
<1>3. \A a, f : RenamedTo(<<"override", e, a, f>>, {"holds"}, 3, x, y) = <<"override", e, a, f>>
  BY FactsAre3 DEF RenamedTo
<1>4. ASSUME NEW g \in UserFacts(e, R, O) PROVE RenamedTo(g, {"holds"}, 3, x, y) \in UserFacts(e, S, O)
  BY <1>1, <1>2, <1>3, <1>4 DEF UserFacts
<1>5. ASSUME NEW g \in UserFacts(e, S, O)
      PROVE  \E k \in UserFacts(e, R, O) : g = RenamedTo(k, {"holds"}, 3, x, y)
  <2>1. CASE g = <<"user", e>>
    BY <1>1, <2>1 DEF UserFacts
  <2>2. ASSUME NEW k \in R, g = <<"holds", e, IF k = x THEN y ELSE k>>
        PROVE  \E v \in UserFacts(e, R, O) : g = RenamedTo(v, {"holds"}, 3, x, y)
    BY <1>2, <2>2 DEF UserFacts
  <2>3. ASSUME NEW o \in O, g = <<"override", e, o.app, o.effect>>
        PROVE  \E v \in UserFacts(e, R, O) : g = RenamedTo(v, {"holds"}, 3, x, y)
    BY <1>3, <2>3 DEF UserFacts
  <2> QED BY <2>1, <2>2, <2>3 DEF UserFacts
<1> QED BY <1>4, <1>5 DEF RenamedAll, Swapped

(* The facts of a kind about a name.                                        *)
Saying(S, kind, n, x) == {g \in S : g[1] = kind /\ g[n] = x}

(* Taking a role from a user's roles takes the fact that he holds it.       *)
LEMMA HoldersDropped ==
  ASSUME NEW e, NEW R, NEW O, NEW x, NEW All, UserFacts(e, R, O) \subseteq All
  PROVE  UserFacts(e, R \ {x}, O) = But(UserFacts(e, R, O), Saying(All, "holds", 3, x), {})
<1>1. \A k : LET g == <<"holds", e, k>> IN g[1] = "holds" /\ g[3] = k
  OBVIOUS
<1>2. <<"user", e>>[1] # "holds" /\ \A a, f : <<"override", e, a, f>>[1] # "holds"
  OBVIOUS
<1>3. ASSUME NEW g
      PROVE  g \in UserFacts(e, R \ {x}, O) <=>
               g \in UserFacts(e, R, O) /\ ~ (g[1] = "holds" /\ g[3] = x)
  BY <1>1, <1>2 DEF UserFacts
<1> QED BY <1>3 DEF Saying, But

(* New roles for old ones are what he holds instead.                        *)
LEMMA HoldersSet ==
  ASSUME NEW e, NEW R, NEW O, NEW T, NEW All, UserFacts(e, R, O) \subseteq All
  PROVE  UserFacts(e, T, O) =
           But(UserFacts(e, R, O), Saying(All, "holds", 2, e), {<<"holds", e, k>> : k \in T})
<1>1. \A k : LET g == <<"holds", e, k>> IN g[1] = "holds" /\ g[2] = e
  OBVIOUS
<1>2. <<"user", e>>[1] # "holds" /\ \A a, f : <<"override", e, a, f>>[1] # "holds"
  OBVIOUS
<1>3. ASSUME NEW g PROVE g \in UserFacts(e, T, O) <=>
        (g \in UserFacts(e, R, O) /\ ~ (g[1] = "holds" /\ g[2] = e)) \/ g \in {<<"holds", e, k>> : k \in T}
  BY <1>1, <1>2 DEF UserFacts
<1> QED BY <1>3 DEF Saying, But

(* What another holds is not among what is said of a user.                  *)
LEMMA HeldByOthers ==
  ASSUME NEW e, NEW R, NEW O, NEW x, e # x, NEW All
  PROVE  But(UserFacts(e, R, O), Saying(All, "holds", 2, x), {}) = UserFacts(e, R, O)
<1>1. \A k : LET g == <<"holds", e, k>> IN g[1] = "holds" /\ g[2] = e
  OBVIOUS
<1>2. <<"user", e>>[1] # "holds" /\ \A a, f : <<"override", e, a, f>>[1] # "holds"
  OBVIOUS
<1>3. ASSUME NEW g \in UserFacts(e, R, O) PROVE ~ (g[1] = "holds" /\ g[2] = x)
  BY <1>1, <1>2 DEF UserFacts
<1> QED BY <1>3 DEF Saying, But

(* One role more is one fact more.                                          *)
LEMMA HoldersAdded ==
  ASSUME NEW e, NEW R, NEW O, NEW y
  PROVE  UserFacts(e, R \cup {y}, O) = But(UserFacts(e, R, O), {}, {<<"holds", e, y>>})
  BY DEF UserFacts, But

(* The members, with another app for x.                                     *)
WithApp(O, x, y) == {IF MatchesElement(o, [app |-> x]) THEN Over(o, [app |-> y]) ELSE o : o \in O}

(* What an override says when its app has got a new key.                    *)
LEMMA OverridesMoved ==
  ASSUME NEW e, NEW R, NEW O, \A o \in O : IsOverride(o), NEW x, NEW y
  PROVE  /\ \A o \in WithApp(O, x, y) : IsOverride(o)
         /\ UserFacts(e, R, WithApp(O, x, y)) = RenamedAll(UserFacts(e, R, O), {"override"}, 3, x, y)
<1> DEFINE c == [app |-> x]
           m(o) == IF MatchesElement(o, c) THEN Over(o, [app |-> y]) ELSE o
           S == {m(o) : o \in O}
<1>1. ASSUME NEW o \in O
      PROVE  /\ IsOverride(m(o))
             /\ m(o).app = (IF o.app = x THEN y ELSE o.app) /\ m(o).effect = o.effect
  <2>1. PICK a, f : o = [app |-> a, effect |-> f]
    BY DEF IsOverride
  <2>2. MatchesElement(o, c) <=> a = x
    BY <2>1 DEF MatchesElement
  <2>3. Over(o, [app |-> y]) = [app |-> y, effect |-> f]
    BY <2>1 DEF Over
  <2>4. m(o) = [app |-> IF a = x THEN y ELSE a, effect |-> f]
    BY <2>1, <2>2, <2>3
  <2> DEFINE b == IF a = x THEN y ELSE a
             v == m(o)
  <2>5. v = [app |-> b, effect |-> f] /\ b = (IF o.app = x THEN y ELSE o.app) /\ o.effect = f
    BY <2>1, <2>4
  <2> HIDE DEF b, v, m
  <2>6. IsOverride(v) /\ v.app = b /\ v.effect = f
    BY <2>5 DEF IsOverride
  <2> QED BY <2>5, <2>6 DEF v
<1> HIDE DEF m
<1>2. \A o \in S : IsOverride(o)
  BY <1>1
<1>3. RenamedTo(<<"user", e>>, {"override"}, 3, x, y) = <<"user", e>>
  BY FactsAre3 DEF RenamedTo
<1>4. \A k : RenamedTo(<<"holds", e, k>>, {"override"}, 3, x, y) = <<"holds", e, k>>
  BY FactsAre3 DEF RenamedTo
<1>5. \A o \in O : RenamedTo(<<"override", e, o.app, o.effect>>, {"override"}, 3, x, y)
                    = <<"override", e, m(o).app, m(o).effect>>
  BY <1>1, FactsAre3 DEF RenamedTo
<1>6. ASSUME NEW g \in UserFacts(e, R, O)
      PROVE  RenamedTo(g, {"override"}, 3, x, y) \in UserFacts(e, R, S)
  BY <1>3, <1>4, <1>5, <1>6 DEF UserFacts
<1>7. ASSUME NEW g \in UserFacts(e, R, S)
      PROVE  \E k \in UserFacts(e, R, O) : g = RenamedTo(k, {"override"}, 3, x, y)
  <2>1. CASE g = <<"user", e>>
    BY <1>3, <2>1 DEF UserFacts
  <2>2. ASSUME NEW k \in R, g = <<"holds", e, k>>
        PROVE  \E v \in UserFacts(e, R, O) : g = RenamedTo(v, {"override"}, 3, x, y)
    BY <1>4, <2>2 DEF UserFacts
  <2>3. ASSUME NEW o \in O, g = <<"override", e, m(o).app, m(o).effect>>
        PROVE  \E v \in UserFacts(e, R, O) : g = RenamedTo(v, {"override"}, 3, x, y)
    BY <1>5, <2>3 DEF UserFacts
  <2> QED BY <2>1, <2>2, <2>3 DEF UserFacts
<1> QED BY <1>2, <1>6, <1>7 DEF m, WithApp, RenamedAll

(* Pulling every override of an app takes what is said of it.               *)
LEMMA OverridesDropped ==
  ASSUME NEW e, NEW R, NEW O, \A o \in O : IsOverride(o), NEW x,
         NEW All, UserFacts(e, R, O) \subseteq All
  PROVE  UserFacts(e, R, {o \in O : ~ MatchesElement(o, [app |-> x])}) =
           But(UserFacts(e, R, O), Saying(All, "override", 3, x), {})
<1> DEFINE S == {o \in O : ~ MatchesElement(o, [app |-> x])}
<1>1. \A o \in O : MatchesElement(o, [app |-> x]) <=> o.app = x
  BY DEF MatchesElement, IsOverride
<1>2. \A a, f : LET g == <<"override", e, a, f>> IN g[1] = "override" /\ g[3] = a
  OBVIOUS
<1>3. <<"user", e>>[1] # "override" /\ \A k : <<"holds", e, k>>[1] # "override"
  OBVIOUS
<1>4. ASSUME NEW g
      PROVE  g \in UserFacts(e, R, S) <=> g \in UserFacts(e, R, O) /\ ~ (g[1] = "override" /\ g[3] = x)
  BY <1>1, <1>2, <1>3 DEF UserFacts
<1> QED BY <1>4 DEF Saying, But

(* One override more is one fact more.                                      *)
LEMMA OverridesAdded ==
  ASSUME NEW e, NEW R, NEW O, NEW y, NEW f
  PROVE  UserFacts(e, R, O \cup {[app |-> y, effect |-> f]}) =
           But(UserFacts(e, R, O), {}, {<<"override", e, y, f>>})
<1> DEFINE o == [app |-> y, effect |-> f]
<1>1. o.app = y /\ o.effect = f
  OBVIOUS
<1> HIDE DEF o
<1>2. UserFacts(e, R, O \cup {o}) = UserFacts(e, R, O) \cup {<<"override", e, o.app, o.effect>>}
  BY DEF UserFacts
<1> QED BY <1>1, <1>2 DEF o, But

Overriding(S, e, y) == {g \in S : g[1] = "override" /\ g[2] = e /\ g[3] = y}

(* Pulling a user's overrides of an app takes what they say, whatever their *)
(* effects.                                                                 *)
LEMMA OverrideDropped ==
  ASSUME NEW e, NEW R, NEW O, \A o \in O : IsOverride(o), NEW y,
         NEW All, UserFacts(e, R, O) \subseteq All
  PROVE  UserFacts(e, R, {o \in O : ~ MatchesElement(o, [app |-> y])}) =
           But(UserFacts(e, R, O), Overriding(All, e, y), {})
<1> DEFINE S == {o \in O : ~ MatchesElement(o, [app |-> y])}
<1>1. \A o \in O : MatchesElement(o, [app |-> y]) <=> o.app = y
  BY DEF MatchesElement, IsOverride
<1>2. \A a, f : LET g == <<"override", e, a, f>> IN g[1] = "override" /\ g[2] = e /\ g[3] = a
  OBVIOUS
<1>3. <<"user", e>>[1] # "override" /\ \A k : <<"holds", e, k>>[1] # "override"
  OBVIOUS
<1>4. ASSUME NEW g
      PROVE  g \in UserFacts(e, R, S) <=>
               g \in UserFacts(e, R, O) /\ ~ (g[1] = "override" /\ g[2] = e /\ g[3] = y)
  BY <1>1, <1>2, <1>3 DEF UserFacts
<1> QED BY <1>4 DEF Overriding, But

(* An override of another is not among what is said of a user.              *)
LEMMA OverriddenByOthers ==
  ASSUME NEW e, NEW R, NEW O, NEW x, e # x, NEW y, NEW All
  PROVE  But(UserFacts(e, R, O), Overriding(All, x, y), {}) = UserFacts(e, R, O)
<1>1. \A a, f : LET g == <<"override", e, a, f>> IN g[1] = "override" /\ g[2] = e
  OBVIOUS
<1>2. <<"user", e>>[1] # "override" /\ \A k : <<"holds", e, k>>[1] # "override"
  OBVIOUS
<1>3. ASSUME NEW g \in UserFacts(e, R, O) PROVE ~ (g[1] = "override" /\ g[2] = x)
  BY <1>1, <1>2 DEF UserFacts
<1> QED BY <1>3 DEF Overriding, But

(* An update that leaves the index alone and documents well shaped.         *)
LEMMA PlainCall ==
  ASSUME FactInv, NEW filter, NEW u, name' = name,
         rows' = PatchMany(filter, <<u>>) \/ (rows' = Patch(filter, <<u>>) /\ AtMostOne(filter)),
         \A i \in DOMAIN rows :
           /\ \A g \in Index[name] : Get(ApplyUpdate(rows[i], filter, u), g) = Get(rows[i], g)
           /\ ShapedDoc(ApplyUpdate(rows[i], filter, u))
  PROVE  rows' = AllPatched(filter, u) /\ Shapes'
<1>1. \E many \in BOOLEAN :
        /\ many \/ AtMostOne(filter)
        /\ rows' = Update(rows, Columns[name], Index[name], filter, <<u>>, many, FALSE).rows
  BY DEF Patch, PatchMany
<1>2. rows' = AllPatched(filter, u)
  BY <1>1, NeverRefused
<1>3. Shapes'
  <2> DEFINE new == AllPatched(filter, u)
  <2>1. DOMAIN new = DOMAIN rows /\ \A i \in DOMAIN rows : new[i] = Patched(rows[i], filter, u)
    BY DEF AllPatched
  <2> HIDE DEF new
  <2>2. \A i \in DOMAIN new : ShapedDoc(new[i])
    BY <2>1, RowIs DEF Patched
  <2> QED BY <1>2, <2>2, ShapesOf DEF new
<1> QED BY <1>2, <1>3

(* So is one of a field that is not of the index.                           *)
LEMMA ShapedCall ==
  ASSUME FactInv, NEW filter, NEW u, NEW c, NEW x, NEW y,
         \/ Call(c, x, y, PatchMany(filter, <<u>>))
         \/ Call(c, x, y, Patch(filter, <<u>>)) /\ AtMostOne(filter),
         NEW f, f \notin Index[name],
         \A i \in DOMAIN rows : /\ OnlyField(ApplyUpdate(rows[i], filter, u), rows[i], f)
                                /\ ShapedDoc(ApplyUpdate(rows[i], filter, u))
  PROVE  name' = name /\ call' = <<c, x, y>> /\ rows' = AllPatched(filter, u) /\ Shapes'
<1>1. /\ name' = name /\ call' = <<c, x, y>>
      /\ rows' = PatchMany(filter, <<u>>) \/ (rows' = Patch(filter, <<u>>) /\ AtMostOne(filter))
  BY DEF Call
<1>2. \A i \in DOMAIN rows : \A g \in Index[name] :
        Get(ApplyUpdate(rows[i], filter, u), g) = Get(rows[i], g)
  BY DEF OnlyField, Get
<1> QED BY <1>1, <1>2, PlainCall

(* A new array of a user, and what he says with it.                         *)
LEMMA RolesOfUser ==
  ASSUME name = "users", NEW d, GoodDoc(d), ShapedDoc(d), NEW A, NEW M, Holds(A, d, "roles", M)
  PROVE  /\ OnlyField(A, d, "roles") /\ ShapedDoc(A)
         /\ Said(A) = UserFacts(Get(d, "email"), M, Members(d, "app_overrides"))
<1>1. OnlyField(A, d, "roles") /\ IsArray(A, "roles") /\ Members(A, "roles") = M
  BY DEF Holds
<1>2. IsArray(d, "app_overrides") /\ \A o \in Members(d, "app_overrides") : IsOverride(o)
  BY DEF ShapedDoc
<1>3. "email" \in DOMAIN d /\ "app_overrides" \in DOMAIN d
  BY <1>2, TheFields DEF GoodDoc, IsArray
<1>4. A["email"] = d["email"] /\ A["app_overrides"] = d["app_overrides"] /\ DOMAIN A = DOMAIN d
  BY <1>1, <1>3 DEF OnlyField
<1>5. Get(A, "email") = Get(d, "email") /\ Members(A, "app_overrides") = Members(d, "app_overrides")
  BY <1>4 DEF Get, Members, Elements
<1>6. ShapedDoc(A)
  BY <1>1, <1>2, <1>4, <1>5 DEF ShapedDoc, IsArray
<1>7. Said(A) = UserFacts(Get(d, "email"), M, Members(d, "app_overrides"))
  BY <1>1, <1>5, SaidOfUser
<1> QED BY <1>1, <1>6, <1>7

(* The same of his overrides.                                               *)
LEMMA OverridesOfUser ==
  ASSUME name = "users", NEW d, GoodDoc(d), ShapedDoc(d), NEW A, NEW M, Holds(A, d, "app_overrides", M),
         \A o \in M : IsOverride(o)
  PROVE  /\ OnlyField(A, d, "app_overrides") /\ ShapedDoc(A)
         /\ Said(A) = UserFacts(Get(d, "email"), Members(d, "roles"), M)
<1>1. OnlyField(A, d, "app_overrides") /\ IsArray(A, "app_overrides") /\ Members(A, "app_overrides") = M
  BY DEF Holds
<1>2. IsArray(d, "roles")
  BY DEF ShapedDoc
<1>3. "email" \in DOMAIN d /\ "roles" \in DOMAIN d
  BY <1>2, TheFields DEF GoodDoc, IsArray
<1>4. A["email"] = d["email"] /\ A["roles"] = d["roles"] /\ DOMAIN A = DOMAIN d
  BY <1>1, <1>3 DEF OnlyField
<1>5. Get(A, "email") = Get(d, "email") /\ Members(A, "roles") = Members(d, "roles")
  BY <1>4 DEF Get, Members, Elements
<1>6. ShapedDoc(A)
  BY <1>1, <1>2, <1>4 DEF ShapedDoc, IsArray
<1>7. Said(A) = UserFacts(Get(d, "email"), Members(d, "roles"), M)
  BY <1>1, <1>5, SaidOfUser
<1> QED BY <1>1, <1>6, <1>7

(* What a user's row is and says.                                           *)
LEMMA UserRow ==
  ASSUME FactInv, name = "users", NEW i \in DOMAIN rows
  PROVE  /\ GoodDoc(rows[i]) /\ ShapedDoc(rows[i])
         /\ IsArray(rows[i], "roles") /\ IsArray(rows[i], "app_overrides")
         /\ \A o \in Members(rows[i], "app_overrides") : IsOverride(o)
         /\ Said(rows[i]) = UserFacts(Get(rows[i], "email"), Members(rows[i], "roles"),
                                      Members(rows[i], "app_overrides"))
         /\ Said(rows[i]) \subseteq Facts
<1>1. GoodDoc(rows[i]) /\ ShapedDoc(rows[i])
  BY RowIs
<1>2. Said(rows[i]) \subseteq Facts
  BY DEF Facts
<1> QED BY <1>1, <1>2, SaidOfUser DEF ShapedDoc

(* The arrays that a request may bring are sequences of names.              *)
LEMMA ArraysAre == \A s \in Arrays : IsSequence(s) /\ Range(s) \in SUBSET Name
<1> SUFFICES ASSUME NEW n \in 0..MaxArray, NEW s \in [1..n -> Name]
             PROVE  IsSequence(s) /\ Range(s) \in SUBSET Name
  BY DEF Arrays
<1>1. n \in Nat /\ Len(s) = n /\ s = [i \in 1..n |-> s[i]]
  OBVIOUS
<1> QED BY <1>1 DEF IsSequence, Range

(* A user exists if a row is his.                                           *)
LEMMA UserIsThere ==
  ASSUME FactInv, name = "users", NEW x \in Name
  PROVE  /\ AtMostOne(<<Is("email", x)>>)
         /\ \A i \in DOMAIN rows : Selected(rows[i], Columns[name], <<Is("email", x)>>) <=>
              Get(rows[i], "email") = x
         /\ <<"user", x>> \in Facts <=>
              \E i \in DOMAIN rows : Selected(rows[i], Columns[name], <<Is("email", x)>>)
<1>1. /\ AtMostOne(<<Is("email", x)>>)
      /\ \A i \in DOMAIN rows : Selected(rows[i], Columns[name], <<Is("email", x)>>) <=>
           Get(rows[i], "email") = x
  BY TheFields, NamesAreValues, OneOfAKey
<1>2. \A i \in DOMAIN rows : <<"user", x>> \in Said(rows[i]) <=> Get(rows[i], "email") = x
  <2>1. \A e, R, O : <<"user", x>> \in UserFacts(e, R, O) <=> e = x
    <3>1. \A e, k : <<"holds", e, k>>[1] # "user"
      OBVIOUS
    <3>2. \A e, a, f : <<"override", e, a, f>>[1] # "user"
      OBVIOUS
    <3>3. <<"user", x>>[1] = "user" /\ \A e : <<"user", x>> = <<"user", e>> <=> e = x
      OBVIOUS
    <3> QED BY <3>1, <3>2, <3>3 DEF UserFacts
  <2> QED BY <2>1, SaidOfUser
<1> QED BY <1>1, <1>2 DEF Facts

------------------------------------------------------------------------------
(* The users' calls as steps of FactBase.                                   *)

(* moveHolders gives every holder of a role its new key, duplicates too.    *)
LEMMA MoveHoldersStep ==
  ASSUME FactInv, name = "users", NEW x \in Name, NEW y \in Name,
         Call("moveHolders", x, y, PatchMany(<<Is("roles", x)>>, <<Op("setAt", "roles", y)>>))
  PROVE  Shapes' /\ F!FactNext
<1> DEFINE filter == <<Is("roles", x)>>
           u == Op("setAt", "roles", y)
           moved(R) == Swapped(R, x, y)
<1>1. Target(filter, "roles") = x /\ x # Null
  BY NamesAreValues DEF Target, Is, Clause
<1>2. \A d : IsArray(d, "roles") =>
        Holds(ApplyUpdate(d, filter, u), d, "roles", moved(Members(d, "roles")))
  BY <1>1, SetAtOf DEF Swapped
<1> HIDE DEF u, moved
<1>3. ASSUME NEW i \in DOMAIN rows
      PROVE  LET d == rows[i]  A == ApplyUpdate(d, filter, u) IN
             /\ OnlyField(A, d, "roles") /\ ShapedDoc(A)
             /\ Said(A) = UserFacts(Get(d, "email"), moved(Members(d, "roles")), Members(d, "app_overrides"))
  BY <1>2, UserRow, RolesOfUser
<1>4. name' = name /\ call' = <<"moveHolders", x, y>> /\ rows' = AllPatched(filter, u) /\ Shapes'
  BY <1>3, TheFields, ShapedCall DEF u
<1>5. ASSUME NEW i \in DOMAIN rows
      PROVE  Said(IF Selected(rows[i], Columns[name], filter) THEN ApplyUpdate(rows[i], filter, u) ELSE rows[i])
               = RenamedAll(Said(rows[i]), {"holds"}, 3, x, y)
  <2> DEFINE d == rows[i]
             R == Members(d, "roles")
             T == RenamedAll(Said(d), {"holds"}, 3, x, y)
  <2>1. UserFacts(Get(d, "email"), moved(R), Members(d, "app_overrides")) = T
    BY UserRow, HoldersMoved DEF moved
  <2>2. Selected(d, Columns[name], filter) <=> x \in R
    BY <1>1, UserRow, SelectedBy, MatchesMember
  <2>3. CASE x \in R
    BY <1>3, <2>1, <2>2, <2>3
  <2>4. CASE x \notin R
    <3>1. moved(R) = R
      BY <2>4 DEF moved, Swapped
    <3> QED BY <2>1, <2>2, <2>4, <3>1, UserRow
  <2> QED BY <2>3, <2>4
<1>6. Facts' = RenamedAll(Facts, {"holds"}, 3, x, y)
  BY <1>4, <1>5, FactsMapped
<1>7. F!Call("moveHolders", x, y, F!Renamed("holds", 3, x, y))
  BY <1>4, <1>6 DEF F!Call, F!Renamed, RenamedAll, RenamedTo, Facts
<1> QED BY <1>4, <1>7 DEF F!FactNext, F!OnUsers

(* stripHolders takes a role from every holder.                             *)
LEMMA StripHoldersStep ==
  ASSUME FactInv, name = "users", NEW x \in Name,
         Call("stripHolders", x, x, PatchMany(<<Is("roles", x)>>, <<Op("pull", "roles", x)>>))
  PROVE  Shapes' /\ F!FactNext
<1> DEFINE filter == <<Is("roles", x)>>
           u == Op("pull", "roles", x)
           Gone == Saying(Facts, "holds", 3, x)
<1>1. \A d : IsArray(d, "roles") =>
        Holds(ApplyUpdate(d, filter, u), d, "roles", Members(d, "roles") \ {x})
  BY PullOf
<1> HIDE DEF u
<1>2. ASSUME NEW i \in DOMAIN rows
      PROVE  LET d == rows[i]  A == ApplyUpdate(d, filter, u) IN
             /\ OnlyField(A, d, "roles") /\ ShapedDoc(A)
             /\ Said(A) = UserFacts(Get(d, "email"), Members(d, "roles") \ {x}, Members(d, "app_overrides"))
  BY <1>1, UserRow, RolesOfUser
<1>3. name' = name /\ call' = <<"stripHolders", x, x>> /\ rows' = AllPatched(filter, u) /\ Shapes'
  BY <1>2, TheFields, ShapedCall DEF u
<1>4. ASSUME NEW i \in DOMAIN rows
      PROVE  /\ Said(ApplyUpdate(rows[i], filter, u)) = But(Said(rows[i]), Gone, {})
             /\ ~ Selected(rows[i], Columns[name], filter) =>
                  But(Said(rows[i]), Gone, {}) = Said(rows[i])
  <2> DEFINE d == rows[i]
             R == Members(d, "roles")
             O == Members(d, "app_overrides")
             e == Get(d, "email")
  <2>1. UserFacts(e, R \ {x}, O) = But(Said(d), Gone, {})
    <3>1. Said(d) = UserFacts(e, R, O) /\ Said(d) \subseteq Facts
      BY UserRow
    <3> HIDE DEF d, R, O, e
    <3>2. UserFacts(e, R, O) \subseteq Facts
      BY <3>1
    <3>3. UserFacts(e, R \ {x}, O) = But(UserFacts(e, R, O), Saying(Facts, "holds", 3, x), {})
      BY ONLY <3>2, HoldersDropped
    <3> QED BY <3>1, <3>3
  <2>2. Selected(d, Columns[name], filter) <=> x \in R
    BY NamesAreValues, UserRow, SelectedBy, MatchesMember
  <2>3. x \notin R => R \ {x} = R
    OBVIOUS
  <2> HIDE DEF Gone
  <2> QED BY <1>2, <2>1, <2>2, <2>3, UserRow
<1>5. Facts' = But(Facts, Gone, {})
  <2> HIDE DEF Gone, filter
  <2> QED BY <1>3, <1>4, FactsLost
<1>6. F!Call("stripHolders", x, x, F!Without("holds", 3, x))
  BY <1>3, <1>5 DEF F!Call, F!Without, Saying, But, Facts
<1>7. F!OnUsers(x, x)
  BY <1>6 DEF F!OnUsers
<1> QED BY <1>3, <1>7 DEF F!FactNext

(* setRoles makes the array sent a user's roles, if there is the user.      *)
LEMMA SetRolesStep ==
  ASSUME FactInv, name = "users", NEW x \in Name, NEW s \in Arrays,
         Call("setRoles", x, x, Patch(<<Is("email", x)>>, <<Set("roles", Many(s))>>))
  PROVE  Shapes' /\ F!FactNext
<1> DEFINE filter == <<Is("email", x)>>
           u == Set("roles", Many(s))
<1>1. \A d : IsArray(d, "roles") => Holds(ApplyUpdate(d, filter, u), d, "roles", Range(s))
  BY ArraysAre, SetArrayOf
<1> HIDE DEF u
<1>2. ASSUME NEW i \in DOMAIN rows
      PROVE  LET d == rows[i]  A == ApplyUpdate(d, filter, u) IN
             /\ OnlyField(A, d, "roles") /\ ShapedDoc(A)
             /\ Said(A) = UserFacts(Get(d, "email"), Range(s), Members(d, "app_overrides"))
  BY <1>1, UserRow, RolesOfUser
<1>3. name' = name /\ call' = <<"setRoles", x, x>> /\ rows' = AllPatched(filter, u) /\ Shapes'
  <2>1. AtMostOne(filter)
    BY UserIsThere
  <2> QED BY <1>2, <2>1, TheFields, ShapedCall DEF u
<1> DEFINE Gone == Saying(Facts, "holds", 2, x)
           New == {<<"holds", x, k>> : k \in Range(s)}
<1>4. ASSUME NEW i \in DOMAIN rows
      PROVE  /\ Selected(rows[i], Columns[name], filter) =>
                  Said(ApplyUpdate(rows[i], filter, u)) = But(Said(rows[i]), Gone, New)
             /\ ~ Selected(rows[i], Columns[name], filter) =>
                  But(Said(rows[i]), Gone, {}) = Said(rows[i])
  <2> DEFINE d == rows[i]
             R == Members(d, "roles")
             O == Members(d, "app_overrides")
             e == Get(d, "email")
  <2>1. Said(d) = UserFacts(e, R, O) /\ Said(d) \subseteq Facts /\ \A o \in O : IsOverride(o)
    BY UserRow
  <2>2. Selected(d, Columns[name], filter) <=> e = x
    BY UserIsThere
  <2>3. CASE e = x
    <3>1. Said(ApplyUpdate(d, filter, u)) = UserFacts(e, Range(s), O)
      BY <1>2
    <3> HIDE DEF d, R, O, e
    <3>2. UserFacts(e, Range(s), O) = But(Said(d), Gone, New)
      <4>1. UserFacts(e, R, O) \subseteq Facts
        BY <2>1
      <4>2. UserFacts(e, Range(s), O) =
              But(UserFacts(e, R, O), Saying(Facts, "holds", 2, e), {<<"holds", e, k>> : k \in Range(s)})
        BY ONLY <4>1, HoldersSet
      <4> QED BY <2>1, <2>3, <4>2
    <3> QED BY <2>2, <2>3, <3>1, <3>2 DEF d
  <2>4. CASE e # x
    <3> HIDE DEF d, R, O, e
    <3>1. But(Said(d), Gone, {}) = Said(d)
      BY <2>1, <2>4, HeldByOthers
    <3> QED BY <2>2, <2>4, <3>1 DEF d
  <2> QED BY <2>3, <2>4
<1> HIDE DEF Gone, New, filter
<1>5. Facts' = IF <<"user", x>> \in Facts THEN But(Facts, Gone, New) ELSE Facts
  BY <1>3, <1>4, FactsChanged, UserIsThere DEF filter
<1>6. F!Call("setRoles", x, x,
             F!If(<<"user", x>> \in Facts,
                  F!Without("holds", 2, x) \cup {<<"holds", x, k>> : k \in Range(s)}))
  BY <1>3, <1>5 DEF F!Call, F!If, F!Without, Saying, But, Facts, Gone, New
<1>7. F!OnUsers(x, x)
  BY <1>6, ArraysAre DEF F!OnUsers, Facts
<1> QED BY <1>3, <1>7 DEF F!FactNext

(* grantRole adds a role to a user's, if there is the user.                 *)
LEMMA GrantRoleStep ==
  ASSUME FactInv, name = "users", NEW x \in Name, NEW y \in Name,
         Call("grantRole", x, y, Patch(<<Is("email", x)>>, <<Op("addToSet", "roles", y)>>))
  PROVE  Shapes' /\ F!FactNext
<1> DEFINE filter == <<Is("email", x)>>
           u == Op("addToSet", "roles", y)
<1>1. \A d : IsArray(d, "roles") =>
        Holds(ApplyUpdate(d, filter, u), d, "roles", Members(d, "roles") \cup {y})
  BY AddOf
<1> HIDE DEF u
<1>2. ASSUME NEW i \in DOMAIN rows
      PROVE  LET d == rows[i]  A == ApplyUpdate(d, filter, u) IN
             /\ OnlyField(A, d, "roles") /\ ShapedDoc(A)
             /\ Said(A) = UserFacts(Get(d, "email"), Members(d, "roles") \cup {y}, Members(d, "app_overrides"))
  BY <1>1, UserRow, RolesOfUser
<1>3. name' = name /\ call' = <<"grantRole", x, y>> /\ rows' = AllPatched(filter, u) /\ Shapes'
  <2>1. AtMostOne(filter)
    BY UserIsThere
  <2> QED BY <1>2, <2>1, TheFields, ShapedCall DEF u
<1> DEFINE Gone == {}
           New == {<<"holds", x, y>>}
<1>4. ASSUME NEW i \in DOMAIN rows
      PROVE  /\ Selected(rows[i], Columns[name], filter) =>
                  Said(ApplyUpdate(rows[i], filter, u)) = But(Said(rows[i]), Gone, New)
             /\ ~ Selected(rows[i], Columns[name], filter) =>
                  But(Said(rows[i]), Gone, {}) = Said(rows[i])
  <2> DEFINE d == rows[i]
             R == Members(d, "roles")
             O == Members(d, "app_overrides")
             e == Get(d, "email")
  <2>1. Said(d) = UserFacts(e, R, O) /\ Said(d) \subseteq Facts /\ \A o \in O : IsOverride(o)
    BY UserRow
  <2>2. Selected(d, Columns[name], filter) <=> e = x
    BY UserIsThere
  <2>3. CASE e = x
    <3>1. Said(ApplyUpdate(d, filter, u)) = UserFacts(e, R \cup {y}, O)
      BY <1>2
    <3> HIDE DEF d, R, O, e
    <3>2. UserFacts(e, R \cup {y}, O) = But(Said(d), Gone, New)
      <4>1. UserFacts(e, R \cup {y}, O) = But(UserFacts(e, R, O), {}, {<<"holds", e, y>>})
        BY ONLY TRUE DEF UserFacts, But
      <4> QED BY <2>1, <2>3, <4>1
    <3> QED BY <2>2, <2>3, <3>1, <3>2 DEF d
  <2>4. CASE e # x
    <3> HIDE DEF d, R, O, e
    <3>1. But(Said(d), Gone, {}) = Said(d)
      BY DEF But
    <3> QED BY <2>2, <2>4, <3>1 DEF d
  <2> QED BY <2>3, <2>4
<1> HIDE DEF Gone, New, filter
<1>5. Facts' = IF <<"user", x>> \in Facts THEN But(Facts, Gone, New) ELSE Facts
  BY <1>3, <1>4, FactsChanged, UserIsThere DEF filter
<1>6. F!Call("grantRole", x, y, F!If(<<"user", x>> \in Facts, Facts \cup {<<"holds", x, y>>}))
  BY <1>3, <1>5 DEF F!Call, F!If, F!Without, Saying, But, Facts, Gone, New
<1>7. F!OnUsers(x, y)
  BY <1>6 DEF F!OnUsers, Facts
<1> QED BY <1>3, <1>7 DEF F!FactNext

(* pushOverride adds an override to a user's, if there is the user.         *)
LEMMA PushOverrideStep ==
  ASSUME FactInv, name = "users", NEW x \in Name, NEW y \in Name, NEW f \in Effects,
         Call("pushOverride", x, y,
              Patch(<<Is("email", x)>>, <<Op("push", "app_overrides", [app |-> y, effect |-> f])>>))
  PROVE  Shapes' /\ F!FactNext
<1> DEFINE filter == <<Is("email", x)>>
           u == Op("push", "app_overrides", [app |-> y, effect |-> f])
<1>1. \A d : IsArray(d, "app_overrides") =>
        Holds(ApplyUpdate(d, filter, u), d, "app_overrides",
              Members(d, "app_overrides") \cup {[app |-> y, effect |-> f]})
  BY PushOf
<1> HIDE DEF u
<1>2. ASSUME NEW i \in DOMAIN rows
      PROVE  LET d == rows[i]  A == ApplyUpdate(d, filter, u) IN
             /\ OnlyField(A, d, "app_overrides") /\ ShapedDoc(A)
             /\ Said(A) = UserFacts(Get(d, "email"), Members(d, "roles"),
                                    Members(d, "app_overrides") \cup {[app |-> y, effect |-> f]})
  <2>1. \A o \in Members(rows[i], "app_overrides") \cup {[app |-> y, effect |-> f]} : IsOverride(o)
    BY UserRow DEF IsOverride
  <2> QED BY <1>1, <2>1, UserRow, OverridesOfUser
<1>3. name' = name /\ call' = <<"pushOverride", x, y>> /\ rows' = AllPatched(filter, u) /\ Shapes'
  <2>1. AtMostOne(filter)
    BY UserIsThere
  <2> QED BY <1>2, <2>1, TheFields, ShapedCall DEF u
<1> DEFINE Gone == {}
           New == {<<"override", x, y, f>>}
<1>4. ASSUME NEW i \in DOMAIN rows
      PROVE  /\ Selected(rows[i], Columns[name], filter) =>
                  Said(ApplyUpdate(rows[i], filter, u)) = But(Said(rows[i]), Gone, New)
             /\ ~ Selected(rows[i], Columns[name], filter) =>
                  But(Said(rows[i]), Gone, {}) = Said(rows[i])
  <2> DEFINE d == rows[i]
             R == Members(d, "roles")
             O == Members(d, "app_overrides")
             e == Get(d, "email")
  <2>1. Said(d) = UserFacts(e, R, O) /\ Said(d) \subseteq Facts /\ \A o \in O : IsOverride(o)
    BY UserRow
  <2>2. Selected(d, Columns[name], filter) <=> e = x
    BY UserIsThere
  <2>3. CASE e = x
    <3>1. Said(ApplyUpdate(d, filter, u)) = UserFacts(e, R, O \cup {[app |-> y, effect |-> f]})
      BY <1>2
    <3> HIDE DEF d, R, O, e
    <3>2. UserFacts(e, R, O \cup {[app |-> y, effect |-> f]}) = But(Said(d), Gone, New)
      <4> DEFINE o == [app |-> y, effect |-> f]
      <4>3. o.app = y /\ o.effect = f
        OBVIOUS
      <4> HIDE DEF o
      <4>2. UserFacts(e, R, O \cup {o}) = But(UserFacts(e, R, O), {}, {<<"override", e, o.app, o.effect>>})
        BY ONLY TRUE DEF UserFacts, But
      <4>1. UserFacts(e, R, O \cup {o}) = But(UserFacts(e, R, O), {}, {<<"override", e, y, f>>})
        BY <4>2, <4>3
      <4> USE DEF o
      <4> QED BY <2>1, <2>3, <4>1
    <3> QED BY <2>2, <2>3, <3>1, <3>2 DEF d
  <2>4. CASE e # x
    <3> HIDE DEF d, R, O, e
    <3>1. But(Said(d), Gone, {}) = Said(d)
      BY DEF But
    <3> QED BY <2>2, <2>4, <3>1 DEF d
  <2> QED BY <2>3, <2>4
<1> HIDE DEF Gone, New, filter
<1>5. Facts' = IF <<"user", x>> \in Facts THEN But(Facts, Gone, New) ELSE Facts
  BY <1>3, <1>4, FactsChanged, UserIsThere DEF filter
<1>6. F!Call("pushOverride", x, y, F!If(<<"user", x>> \in Facts, Facts \cup {<<"override", x, y, f>>}))
  BY <1>3, <1>5 DEF F!Call, F!If, F!Without, Saying, But, Facts, Gone, New
<1>7. F!OnUsers(x, y)
  BY <1>6 DEF F!OnUsers, Facts
<1> QED BY <1>3, <1>7 DEF F!FactNext

(* pullOverride takes a user's overrides of an app, whatever their effects. *)
LEMMA PullOverrideStep ==
  ASSUME FactInv, name = "users", NEW x \in Name, NEW y \in Name,
         Call("pullOverride", x, y,
              Patch(<<Is("email", x)>>, <<Op("pullWhere", "app_overrides", [app |-> y])>>))
  PROVE  Shapes' /\ F!FactNext
<1> DEFINE filter == <<Is("email", x)>>
           u == Op("pullWhere", "app_overrides", [app |-> y])
<1>1. \A d : IsArray(d, "app_overrides") =>
        Holds(ApplyUpdate(d, filter, u), d, "app_overrides",
              {o \in Members(d, "app_overrides") : ~ MatchesElement(o, [app |-> y])})
  BY PullWhereOf
<1> HIDE DEF u
<1>2. ASSUME NEW i \in DOMAIN rows
      PROVE  LET d == rows[i]  A == ApplyUpdate(d, filter, u) IN
             /\ OnlyField(A, d, "app_overrides") /\ ShapedDoc(A)
             /\ Said(A) = UserFacts(Get(d, "email"), Members(d, "roles"),
                    {o \in Members(d, "app_overrides") : ~ MatchesElement(o, [app |-> y])})
  BY <1>1, UserRow, OverridesOfUser
<1>3. name' = name /\ call' = <<"pullOverride", x, y>> /\ rows' = AllPatched(filter, u) /\ Shapes'
  <2>1. AtMostOne(filter)
    BY UserIsThere
  <2> QED BY <1>2, <2>1, TheFields, ShapedCall DEF u
<1> DEFINE Gone == Overriding(Facts, x, y)
           New == {}
<1>4. ASSUME NEW i \in DOMAIN rows
      PROVE  /\ Selected(rows[i], Columns[name], filter) =>
                  Said(ApplyUpdate(rows[i], filter, u)) = But(Said(rows[i]), Gone, New)
             /\ ~ Selected(rows[i], Columns[name], filter) =>
                  But(Said(rows[i]), Gone, {}) = Said(rows[i])
  <2> DEFINE d == rows[i]
             R == Members(d, "roles")
             O == Members(d, "app_overrides")
             e == Get(d, "email")
  <2>1. Said(d) = UserFacts(e, R, O) /\ Said(d) \subseteq Facts /\ \A o \in O : IsOverride(o)
    BY UserRow
  <2>2. Selected(d, Columns[name], filter) <=> e = x
    BY UserIsThere
  <2>3. CASE e = x
    <3>1. Said(ApplyUpdate(d, filter, u)) = UserFacts(e, R, {o \in O : ~ MatchesElement(o, [app |-> y])})
      BY <1>2
    <3> HIDE DEF d, R, O, e
    <3>2. UserFacts(e, R, {o \in O : ~ MatchesElement(o, [app |-> y])}) = But(Said(d), Gone, New)
      <4>1. UserFacts(e, R, O) \subseteq Facts
        BY <2>1
      <4>2. UserFacts(e, R, {o \in O : ~ MatchesElement(o, [app |-> y])}) =
              But(UserFacts(e, R, O), Overriding(Facts, e, y), {})
        BY ONLY <2>1, <4>1, OverrideDropped
      <4> QED BY <2>1, <2>3, <4>2
    <3> QED BY <2>2, <2>3, <3>1, <3>2 DEF d
  <2>4. CASE e # x
    <3> HIDE DEF d, R, O, e
    <3>1. But(Said(d), Gone, {}) = Said(d)
      BY <2>1, <2>4, OverriddenByOthers
    <3> QED BY <2>2, <2>4, <3>1 DEF d
  <2> QED BY <2>3, <2>4
<1> HIDE DEF Gone, New, filter
<1>5. Facts' = But(Facts, Gone, New)
  <2>1. New = {}
    BY DEF New
  <2> QED BY <1>3, <1>4, <2>1, FactsLost
<1>6. F!Call("pullOverride", x, y, {g \in Facts : ~ (g[1] = "override" /\ g[2] = x /\ g[3] = y)})
  BY <1>3, <1>5 DEF F!Call, But, Overriding, Facts, Gone, New
<1>7. F!OnUsers(x, y)
  BY <1>6 DEF F!OnUsers, Facts
<1> QED BY <1>3, <1>7 DEF F!FactNext

(* moveOverrides gives every override of an app its new key.                *)
LEMMA MoveOverridesStep ==
  ASSUME FactInv, name = "users", NEW x \in Name, NEW y \in Name,
         Call("moveOverrides", x, y,
              PatchMany(<<Has("app_overrides", "app", x)>>,
                        <<SetEach("app_overrides", [app |-> x], [app |-> y])>>))
  PROVE  Shapes' /\ F!FactNext
<1> DEFINE filter == <<Has("app_overrides", "app", x)>>
           u == SetEach("app_overrides", [app |-> x], [app |-> y])
           moved(O) == WithApp(O, x, y)
<1>1. \A d : IsArray(d, "app_overrides") =>
              Holds(ApplyUpdate(d, filter, u), d, "app_overrides", moved(Members(d, "app_overrides")))
  BY SetEachOf DEF WithApp
<1>2. ASSUME NEW e, NEW R, NEW O, \A o \in O : IsOverride(o)
      PROVE  /\ \A o \in moved(O) : IsOverride(o)
             /\ UserFacts(e, R, moved(O)) = RenamedAll(UserFacts(e, R, O), {"override"}, 3, x, y)
  BY ONLY <1>2, OverridesMoved
<1>3. ASSUME NEW O, \A o \in O : IsOverride(o), ~ \E o \in O : "app" \in DOMAIN o /\ o["app"] = x
      PROVE  moved(O) = O
  BY <1>3 DEF MatchesElement, WithApp
<1> HIDE DEF u, moved
<1>4. ASSUME NEW i \in DOMAIN rows
      PROVE  LET d == rows[i]  A == ApplyUpdate(d, filter, u) IN
             /\ OnlyField(A, d, "app_overrides") /\ ShapedDoc(A)
             /\ Said(A) = UserFacts(Get(d, "email"), Members(d, "roles"), moved(Members(d, "app_overrides")))
  BY <1>1, <1>2, UserRow, OverridesOfUser
<1>5. name' = name /\ call' = <<"moveOverrides", x, y>> /\ rows' = AllPatched(filter, u) /\ Shapes'
  BY <1>4, TheFields, ShapedCall DEF u
<1>6. ASSUME NEW i \in DOMAIN rows
      PROVE  Said(IF Selected(rows[i], Columns[name], filter) THEN ApplyUpdate(rows[i], filter, u) ELSE rows[i])
               = RenamedAll(Said(rows[i]), {"override"}, 3, x, y)
  <2> DEFINE d == rows[i]
             O == Members(d, "app_overrides")
             T == RenamedAll(Said(d), {"override"}, 3, x, y)
  <2>1. UserFacts(Get(d, "email"), Members(d, "roles"), moved(O)) = T
    BY <1>2, UserRow
  <2>2. Selected(d, Columns[name], filter) <=> \E o \in O : "app" \in DOMAIN o /\ o["app"] = x
    BY NamesAreValues, UserRow, SelectedBy, MatchesMember
  <2>3. CASE Selected(d, Columns[name], filter)
    BY <1>4, <2>1, <2>3
  <2>4. CASE ~ Selected(d, Columns[name], filter)
    <3>1. moved(O) = O
      BY <1>3, <2>2, <2>4, UserRow
    <3> QED BY <2>1, <2>4, <3>1, UserRow
  <2> QED BY <2>3, <2>4
<1>7. Facts' = RenamedAll(Facts, {"override"}, 3, x, y)
  BY <1>5, <1>6, FactsMapped
<1>8. F!Call("moveOverrides", x, y, F!Renamed("override", 3, x, y))
  BY <1>5, <1>7 DEF F!Call, F!Renamed, RenamedAll, RenamedTo, Facts
<1> QED BY <1>5, <1>8 DEF F!FactNext, F!OnUsers

(* dropOverrides takes every override of an app.                            *)
LEMMA DropOverridesStep ==
  ASSUME FactInv, name = "users", NEW x \in Name,
         Call("dropOverrides", x, x,
              PatchMany(<<Has("app_overrides", "app", x)>>,
                        <<Op("pullWhere", "app_overrides", [app |-> x])>>))
  PROVE  Shapes' /\ F!FactNext
<1> DEFINE filter == <<Has("app_overrides", "app", x)>>
           u == Op("pullWhere", "app_overrides", [app |-> x])
           left(O) == {o \in O : ~ MatchesElement(o, [app |-> x])}
           Gone == Saying(Facts, "override", 3, x)
<1>1. \A d : IsArray(d, "app_overrides") =>
              Holds(ApplyUpdate(d, filter, u), d, "app_overrides", left(Members(d, "app_overrides")))
  BY PullWhereOf
<1>2. ASSUME NEW e, NEW R, NEW O, \A o \in O : IsOverride(o), UserFacts(e, R, O) \subseteq Facts
      PROVE  UserFacts(e, R, left(O)) = But(UserFacts(e, R, O), Gone, {})
  BY ONLY <1>2, OverridesDropped
<1>3. ASSUME NEW O, ~ \E o \in O : "app" \in DOMAIN o /\ o["app"] = x
      PROVE  left(O) = O
  BY <1>3 DEF MatchesElement
<1>9. \A O : left(O) \subseteq O
  OBVIOUS
<1> HIDE DEF u, left, Gone
<1>4. ASSUME NEW i \in DOMAIN rows
      PROVE  LET d == rows[i]  A == ApplyUpdate(d, filter, u) IN
             /\ OnlyField(A, d, "app_overrides") /\ ShapedDoc(A)
             /\ Said(A) = UserFacts(Get(d, "email"), Members(d, "roles"), left(Members(d, "app_overrides")))
  BY <1>1, <1>9, UserRow, OverridesOfUser
<1>5. name' = name /\ call' = <<"dropOverrides", x, x>> /\ rows' = AllPatched(filter, u) /\ Shapes'
  BY <1>4, TheFields, ShapedCall DEF u
<1>6. ASSUME NEW i \in DOMAIN rows
      PROVE  /\ Said(ApplyUpdate(rows[i], filter, u)) = But(Said(rows[i]), Gone, {})
             /\ ~ Selected(rows[i], Columns[name], filter) =>
                  But(Said(rows[i]), Gone, {}) = Said(rows[i])
  <2> DEFINE d == rows[i]
             O == Members(d, "app_overrides")
  <2>1. UserFacts(Get(d, "email"), Members(d, "roles"), left(O)) = But(Said(d), Gone, {})
    BY <1>2, UserRow
  <2>2. Selected(d, Columns[name], filter) <=> \E o \in O : "app" \in DOMAIN o /\ o["app"] = x
    BY NamesAreValues, UserRow, SelectedBy, MatchesMember
  <2>3. ~ Selected(d, Columns[name], filter) => left(O) = O
    BY <1>3, <2>2
  <2> QED BY <1>4, <2>1, <2>3, UserRow
<1>7. Facts' = But(Facts, Gone, {})
  <2> HIDE DEF filter
  <2> QED BY <1>5, <1>6, FactsLost
<1>8. F!Call("dropOverrides", x, x, F!Without("override", 3, x))
  BY <1>5, <1>7 DEF F!Call, F!Without, Saying, But, Facts, Gone
<1>10. F!OnUsers(x, x)
  BY <1>8 DEF F!OnUsers
<1> QED BY <1>5, <1>10 DEF F!FactNext

------------------------------------------------------------------------------
(* The roles.                                                               *)

RoleFacts(k, G) == {<<"role", k>>} \cup {<<"grants", k, g.app>> : g \in G}

(* What a row of a role says.                                               *)
LEMMA SaidOfRole ==
  ASSUME name = "roles", NEW d PROVE Said(d) = RoleFacts(Get(d, "key"), Members(d, "grants"))
  BY DEF Said, RoleFacts, Members

(* What a role's row is and says.                                           *)
LEMMA RoleRow ==
  ASSUME FactInv, name = "roles", NEW i \in DOMAIN rows
  PROVE  /\ GoodDoc(rows[i]) /\ ShapedDoc(rows[i]) /\ IsArray(rows[i], "grants")
         /\ \A g \in Members(rows[i], "grants") : IsGrant(g)
         /\ Said(rows[i]) = RoleFacts(Get(rows[i], "key"), Members(rows[i], "grants"))
         /\ Said(rows[i]) \subseteq Facts
<1>1. GoodDoc(rows[i]) /\ ShapedDoc(rows[i])
  BY RowIs
<1>2. Said(rows[i]) \subseteq Facts
  BY DEF Facts
<1> QED BY <1>1, <1>2, SaidOfRole DEF ShapedDoc

(* New grants of a role, and what it says with them.                        *)
LEMMA GrantsOfRole ==
  ASSUME name = "roles", NEW d, GoodDoc(d), NEW A, NEW M, Holds(A, d, "grants", M),
         \A g \in M : IsGrant(g)
  PROVE  OnlyField(A, d, "grants") /\ ShapedDoc(A) /\ Said(A) = RoleFacts(Get(d, "key"), M)
<1>1. OnlyField(A, d, "grants") /\ IsArray(A, "grants") /\ Members(A, "grants") = M
  BY DEF Holds
<1>2. "key" \in DOMAIN d
  BY TheFields DEF GoodDoc
<1>3. Get(A, "key") = Get(d, "key")
  BY <1>1, <1>2 DEF OnlyField, Get
<1>4. ShapedDoc(A)
  BY <1>1 DEF ShapedDoc
<1> QED BY <1>1, <1>3, <1>4, SaidOfRole

(* A role exists if a row is its.                                           *)
LEMMA RoleIsThere ==
  ASSUME FactInv, name = "roles", NEW x \in Name
  PROVE  /\ AtMostOne(<<Is("key", x)>>)
         /\ \A i \in DOMAIN rows : Selected(rows[i], Columns[name], <<Is("key", x)>>) <=>
              Get(rows[i], "key") = x
         /\ <<"role", x>> \in Facts <=>
              \E i \in DOMAIN rows : Selected(rows[i], Columns[name], <<Is("key", x)>>)
         /\ <<"role", x>> \in Facts <=> \E i \in DOMAIN rows : Get(rows[i], "key") = x
<1>1. /\ AtMostOne(<<Is("key", x)>>)
      /\ \A i \in DOMAIN rows : Selected(rows[i], Columns[name], <<Is("key", x)>>) <=>
           Get(rows[i], "key") = x
  BY TheFields, NamesAreValues, OneOfAKey
<1>2. \A i \in DOMAIN rows : <<"role", x>> \in Said(rows[i]) <=> Get(rows[i], "key") = x
  <2>1. \A k, G : <<"role", x>> \in RoleFacts(k, G) <=> k = x
    <3>1. \A k, a : <<"grants", k, a>>[1] # "role"
      OBVIOUS
    <3>2. <<"role", x>>[1] = "role" /\ \A k : <<"role", x>> = <<"role", k>> <=> k = x
      OBVIOUS
    <3> QED BY <3>1, <3>2 DEF RoleFacts
  <2> QED BY <2>1, SaidOfRole
<1> QED BY <1>1, <1>2 DEF Facts

(* The parts of a role's facts, and what becomes of them under a new name.  *)
LEMMA RoleTuples ==
  /\ \A k : <<"role", k>>[1] = "role" /\ <<"role", k>>[2] = k /\ \A y : [<<"role", k>> EXCEPT ![2] = y] = <<"role", y>>
  /\ \A k, a : /\ <<"grants", k, a>>[1] = "grants" /\ <<"grants", k, a>>[2] = k /\ <<"grants", k, a>>[3] = a
               /\ \A y : [<<"grants", k, a>> EXCEPT ![2] = y] = <<"grants", y, a>>
               /\ \A y : [<<"grants", k, a>> EXCEPT ![3] = y] = <<"grants", k, y>>
<1>1. \A k, y : [<<"role", k>> EXCEPT ![2] = y] = <<"role", y>>
  OBVIOUS
<1>2. \A k, a, y : [<<"grants", k, a>> EXCEPT ![2] = y] = <<"grants", y, a>>
  OBVIOUS
<1>3. \A k, a, y : [<<"grants", k, a>> EXCEPT ![3] = y] = <<"grants", k, y>>
  OBVIOUS
<1> QED BY <1>1, <1>2, <1>3

(* Pulling the grants of an app takes what is said of it.                   *)
LEMMA GrantsDropped ==
  ASSUME NEW k, NEW G, NEW S, NEW x, NEW All, RoleFacts(k, G) \subseteq All,
         \A g : g \in S <=> g \in G /\ g.app # x
  PROVE  RoleFacts(k, S) = But(RoleFacts(k, G), Saying(All, "grants", 3, x), {})
<1>1. ASSUME NEW g
      PROVE  g \in RoleFacts(k, S) <=> g \in RoleFacts(k, G) /\ ~ (g[1] = "grants" /\ g[3] = x)
  BY RoleTuples DEF RoleFacts
<1> QED BY <1>1 DEF Saying, But

TheGrant(k, a) == {<<"grants", k, a>>}

(* From one role it takes that role's grant.                                *)
LEMMA GrantPulled ==
  ASSUME NEW k, NEW G, NEW S, NEW x, \A g : g \in S <=> g \in G /\ g.app # x
  PROVE  RoleFacts(k, S) = But(RoleFacts(k, G), TheGrant(k, x), {})
<1>1. \A a : <<"grants", k, a>> = <<"grants", k, x>> <=> a = x
  OBVIOUS
<1>2. ASSUME NEW g PROVE g \in RoleFacts(k, S) <=> g \in RoleFacts(k, G) /\ g # <<"grants", k, x>>
  BY <1>1, RoleTuples DEF RoleFacts
<1> QED BY <1>2 DEF But, TheGrant

(* What is said of another role is not said of this one, and no new name of *)
(* the other changes it.                                                    *)
LEMMA GrantedByOthers ==
  ASSUME NEW k, NEW G, NEW x, k # x, NEW All, NEW y
  PROVE  /\ But(RoleFacts(k, G), Saying(All, "grants", 2, x), {}) = RoleFacts(k, G)
         /\ But(RoleFacts(k, G), {g \in All : g[1] \in {"role", "grants"} /\ g[2] = x}, {}) = RoleFacts(k, G)
         /\ RenamedAll(RoleFacts(k, G), {"role", "grants"}, 2, x, y) = RoleFacts(k, G)
<1>1. \A g \in RoleFacts(k, G) : g[2] = k
  BY RoleTuples DEF RoleFacts
<1>3. \A g \in RoleFacts(k, G) : RenamedTo(g, {"role", "grants"}, 2, x, y) = g
  BY <1>1 DEF RenamedTo
<1>4. RenamedAll(RoleFacts(k, G), {"role", "grants"}, 2, x, y) = RoleFacts(k, G)
  BY <1>3 DEF RenamedAll
<1> QED BY <1>1, <1>4 DEF But, Saying

(* Nor is a single grant of the other.                                      *)
LEMMA GrantOfOthers ==
  ASSUME NEW k, NEW G, NEW x, k # x, NEW y
  PROVE  But(RoleFacts(k, G), TheGrant(x, y), {}) = RoleFacts(k, G)
<1>1. \A g \in RoleFacts(k, G) : g[2] = k
  BY RoleTuples DEF RoleFacts
<1>2. <<"grants", x, y>>[2] = x
  OBVIOUS
<1> QED BY <1>1, <1>2 DEF But, TheGrant

(* New grants for old ones are what the role grants instead.                *)
LEMMA GrantsSet ==
  ASSUME NEW k, NEW G, NEW as, NEW All, RoleFacts(k, G) \subseteq All
  PROVE  RoleFacts(k, {[app |-> a] : a \in as}) =
           But(RoleFacts(k, G), Saying(All, "grants", 2, k),
               {<<"role", k>>} \cup {<<"grants", k, a>> : a \in as})
<1> DEFINE T == {[app |-> a] : a \in as}
<1>1. \A a : [app |-> a].app = a
  OBVIOUS
<1>2. ASSUME NEW g
      PROVE  g \in RoleFacts(k, T) <=> g = <<"role", k>> \/ \E a \in as : g = <<"grants", k, a>>
  BY <1>1 DEF RoleFacts
<1>3. ASSUME NEW g \in RoleFacts(k, G), ~ (g[1] = "grants" /\ g[2] = k) PROVE g = <<"role", k>>
  BY <1>3, RoleTuples DEF RoleFacts
<1>4. \A g \in RoleFacts(k, G) : g \notin Saying(All, "grants", 2, k) => g = <<"role", k>>
  BY <1>3 DEF Saying
<1> HIDE DEF T
<1>5. RoleFacts(k, T) = But(RoleFacts(k, G), Saying(All, "grants", 2, k),
                            {<<"role", k>>} \cup {<<"grants", k, a>> : a \in as})
  BY <1>2, <1>4 DEF But
<1> QED BY <1>5 DEF T

(* Giving an app a new key in the grants renames it in what the role        *)
(* grants.                                                                  *)
LEMMA GrantsMoved ==
  ASSUME NEW k, NEW G, \A g \in G : IsGrant(g), NEW x, NEW y
  PROVE  /\ \A g \in WithApp(G, x, y) : IsGrant(g)
         /\ RoleFacts(k, WithApp(G, x, y)) = RenamedAll(RoleFacts(k, G), {"grants"}, 3, x, y)
<1> DEFINE m(o) == IF MatchesElement(o, [app |-> x]) THEN Over(o, [app |-> y]) ELSE o
           S == {m(o) : o \in G}
<1>1. ASSUME NEW o \in G PROVE IsGrant(m(o)) /\ m(o).app = (IF o.app = x THEN y ELSE o.app)
  <2>1. PICK a : o = [app |-> a]
    BY DEF IsGrant
  <2>2. MatchesElement(o, [app |-> x]) <=> a = x
    <3> DEFINE c == [app |-> x]
    <3>1. DOMAIN c = {"app"} /\ c["app"] = x /\ "app" \in DOMAIN o /\ o["app"] = a
      BY <2>1
    <3> HIDE DEF c
    <3>2. MatchesElement(o, c) <=> a = x
      BY <3>1 DEF MatchesElement
    <3> QED BY <3>2 DEF c
  <2>3. Over(o, [app |-> y]) = [app |-> y]
    <3> DEFINE s == [app |-> y]
    <3>1. DOMAIN s = {"app"} /\ DOMAIN o = {"app"} /\ s = [p \in {"app"} |-> s[p]]
      BY <2>1
    <3> HIDE DEF s
    <3>2. Over(o, s) = [p \in {"app"} |-> s[p]]
      BY <3>1 DEF Over
    <3> QED BY <3>1, <3>2 DEF s
  <2>4. o.app = a
    BY <2>1
  <2>5. CASE a = x
    <3>1. m(o) = [app |-> y]
      BY <2>2, <2>3, <2>5
    <3> HIDE DEF m
    <3> QED BY <2>4, <2>5, <3>1 DEF IsGrant
  <2>6. CASE a # x
    <3>1. m(o) = o
      BY <2>2, <2>6
    <3> HIDE DEF m
    <3> QED BY <2>4, <2>6, <3>1
  <2> QED BY <2>5, <2>6
<1> HIDE DEF m
<1>2. \A o \in S : IsGrant(o)
  BY <1>1
<1>3. RenamedTo(<<"role", k>>, {"grants"}, 3, x, y) = <<"role", k>>
  BY RoleTuples DEF RenamedTo
<1>4. \A o \in G : RenamedTo(<<"grants", k, o.app>>, {"grants"}, 3, x, y) = <<"grants", k, m(o).app>>
  BY <1>1, RoleTuples DEF RenamedTo
<1>5. ASSUME NEW g \in RoleFacts(k, G) PROVE RenamedTo(g, {"grants"}, 3, x, y) \in RoleFacts(k, S)
  BY <1>3, <1>4, <1>5 DEF RoleFacts
<1>6. ASSUME NEW g \in RoleFacts(k, S)
      PROVE  \E v \in RoleFacts(k, G) : g = RenamedTo(v, {"grants"}, 3, x, y)
  <2>1. CASE g = <<"role", k>>
    BY <1>3, <2>1 DEF RoleFacts
  <2>2. ASSUME NEW o \in G, g = <<"grants", k, m(o).app>>
        PROVE  \E v \in RoleFacts(k, G) : g = RenamedTo(v, {"grants"}, 3, x, y)
    BY <1>4, <2>2 DEF RoleFacts
  <2> QED BY <2>1, <2>2 DEF RoleFacts
<1> QED BY <1>2, <1>5, <1>6 DEF m, WithApp, RenamedAll

(* A new key for a role renames it in all that is said of it.               *)
LEMMA RoleMoved ==
  ASSUME NEW x, NEW y, NEW G
  PROVE  RenamedAll(RoleFacts(x, G), {"role", "grants"}, 2, x, y) = RoleFacts(y, G)
<1>1. RenamedTo(<<"role", x>>, {"role", "grants"}, 2, x, y) = <<"role", y>>
  BY RoleTuples DEF RenamedTo
<1>2. \A a : RenamedTo(<<"grants", x, a>>, {"role", "grants"}, 2, x, y) = <<"grants", y, a>>
  BY RoleTuples DEF RenamedTo
<1>3. ASSUME NEW g
      PROVE  g \in RoleFacts(y, G) <=>
               \E v \in RoleFacts(x, G) : g = RenamedTo(v, {"role", "grants"}, 2, x, y)
  BY <1>1, <1>2 DEF RoleFacts
<1> QED BY <1>3 DEF RenamedAll

(* New documents are well shaped with the old ones.                         *)
LEMMA ShapesWith ==
  ASSUME FactInv, name' = name, NEW doc, ShapedDoc(doc),
         \A i \in DOMAIN rows' : rows'[i] = doc \/ \E j \in DOMAIN rows : rows'[i] = rows[j]
  PROVE  Shapes'
<1> DEFINE new == rows'
<1>1. \A i \in DOMAIN new : ShapedDoc(new[i])
  BY RowIs
<1> QED BY <1>1, ShapesOf

(* Rows that stay the same stay well shaped.                                *)
LEMMA ShapesSame ==
  ASSUME FactInv, name' = name, rows' = rows
  PROVE  Shapes'
  BY RowIs, ShapesOf

------------------------------------------------------------------------------
(* The roles' calls as steps of FactBase.                                   *)

(* What a new role is and says.                                             *)
LEMMA NewRole ==
  ASSUME name = "roles", NEW x, NEW s, IsSequence(s), \A g \in Range(s) : IsGrant(g),
         NEW doc, DOMAIN doc = {"key", "grants"}, doc["key"] = One(x), doc["grants"] = Many(s)
  PROVE  Get(doc, "key") = x /\ ShapedDoc(doc) /\ Said(doc) = RoleFacts(x, Range(s))
<1>1. Get(doc, "key") = x /\ Elements(doc, "grants") = s /\ IsArray(doc, "grants")
  BY Values DEF Get, Elements, IsArray
<1>2. Members(doc, "grants") = Range(s)
  BY <1>1 DEF Members
<1>3. ShapedDoc(doc)
  BY <1>1, <1>2 DEF ShapedDoc
<1> QED BY <1>1, <1>2, <1>3, SaidOfRole

(* insertRole adds a role without grants, or is refused when the key is     *)
(* taken.                                                                   *)
LEMMA InsertRoleStep ==
  ASSUME FactInv, name = "roles", NEW x \in Name,
         Call("insertRole", x, x, Insert(Put(Put(<<>>, "key", One(x)), "grants", Many(<<>>))))
  PROVE  Shapes' /\ F!FactNext
<1> DEFINE doc == Put(Put(<<>>, "key", One(x)), "grants", Many(<<>>))
<1>1. IsSequence(<<>>) /\ Range(<<>>) = {}
  BY DEF IsSequence, Range
<1>2. DOMAIN doc = {"key", "grants"} /\ doc["key"] = One(x) /\ doc["grants"] = Many(<<>>)
  <2> DEFINE d == Put(<<>>, "key", One(x))
  <2>1. DOMAIN d = {"key"} /\ d["key"] = One(x)
    BY DEF Put
  <2> HIDE DEF d
  <2>2. DOMAIN Put(d, "grants", Many(<<>>)) = {"key", "grants"} /\ Put(d, "grants", Many(<<>>))["key"] = One(x)
        /\ Put(d, "grants", Many(<<>>))["grants"] = Many(<<>>)
    BY <2>1 DEF Put
  <2> QED BY <2>2 DEF d
<1> HIDE DEF doc
<1>3. Get(doc, "key") = x /\ ShapedDoc(doc) /\ Said(doc) = {<<"role", x>>}
  <2>1. RoleFacts(x, {}) = {<<"role", x>>}
    BY DEF RoleFacts
  <2>2. Get(doc, "key") = x /\ ShapedDoc(doc) /\ Said(doc) = RoleFacts(x, Range(<<>>))
    BY <1>1, <1>2, NewRole
  <2> QED BY <1>1, <2>1, <2>2
<1>4. name' = name /\ call' = <<"insertRole", x, x>> /\ rows' = InsertOne(rows, Index[name], doc).rows
  BY DEF Call, Insert, doc
<1>5. Shapes' /\ Facts' = Facts \cup {<<"role", x>>}
  <2>1. CASE rows' = rows /\ ~ Distinct(Append(rows, doc), Index[name])
    <3>1. <<"role", x>> \in Facts
      BY <1>3, <2>1, InsertRefused, TheFields, NamesAreValues, RoleIsThere DEF FactInv
    <3> QED BY <1>4, <2>1, <3>1, FactsSame, ShapesSame
  <2>2. CASE /\ Facts' = Facts \cup Said(doc)
             /\ \A i \in DOMAIN rows' : rows'[i] = doc \/ \E j \in DOMAIN rows : rows'[i] = rows[j]
    BY <1>3, <1>4, <2>2, ShapesWith
  <2> QED BY <1>4, <2>1, <2>2, FactsInserted DEF FactInv
<1>6. F!Call("insertRole", x, x, Facts \cup {<<"role", x>>})
  BY <1>4, <1>5 DEF F!Call, Facts
<1>7. F!OnRoles(x, x)
  BY <1>6 DEF F!OnRoles, Facts
<1> QED BY <1>5, <1>7 DEF F!FactNext

(* seedRole makes or overwrites a role: its grants are those of the seed.   *)
LEMMA SeedRoleStep ==
  ASSUME FactInv, name = "roles", NEW x \in Name, NEW s \in Arrays,
         Call("seedRole", x, x,
              Upsert(<<Is("key", x)>>,
                     <<Set("grants", Many([i \in DOMAIN s |-> [app |-> s[i]]])),
                       Op("setOnInsert", "key", One(x))>>))
  PROVE  Shapes' /\ F!FactNext
<1> DEFINE filter == <<Is("key", x)>>
           gs == [i \in DOMAIN s |-> [app |-> s[i]]]
           a == Set("grants", Many(gs))
           b == Op("setOnInsert", "key", One(x))
           us == <<a, b>>
           as == Range(s)
           G == {[app |-> k] : k \in as}
           New == {<<"role", x>>} \cup {<<"grants", x, k>> : k \in as}
           Gone == Saying(Facts, "grants", 2, x)
           doc == BuildUpsertDoc(filter, us)
<1>1. IsSequence(gs) /\ Range(gs) = G /\ as \in SUBSET Name /\ \A g \in G : IsGrant(g)
  <2>1. IsSequence(s) /\ DOMAIN s = 1..Len(s) /\ Len(s) \in Nat /\ as \in SUBSET Name
    BY ArraysAre, SequencesGrow DEF IsSequence
  <2>2. IsSequence(gs) /\ DOMAIN gs = DOMAIN s
    <3>1. Len(gs) = Len(s)
      BY <2>1
    <3> QED BY <2>1, <3>1 DEF IsSequence
  <2>3. Range(gs) = G
    BY <2>2 DEF Range
  <2>4. \A g \in G : IsGrant(g)
    BY DEF IsGrant
  <2> QED BY <2>1, <2>2, <2>3, <2>4
<1> HIDE DEF gs
<1>2. \A d : ApplyUpdate(d, filter, a) = Put(d, "grants", Many(gs)) /\ ApplyUpdate(d, filter, b) = d
  BY DEF ApplyUpdate, Set, Op
<1>3. \A d : ApplyAll(d, filter, us) = ApplyUpdate(d, filter, a)
  <2>1. \A d : ApplyAll(d, filter, us) = ApplyUpdate(ApplyUpdate(d, filter, a), filter, b)
    BY AllOfTwo
  <2> QED BY <1>2, <2>1
<1>4. DOMAIN doc = {"key", "grants"} /\ doc["key"] = One(x) /\ doc["grants"] = Many(gs)
  <2> DEFINE d1 == Put(<<>>, "key", One(x))
             d2 == Put(d1, "key", One(x))
             d3 == Put(d2, "grants", Many(gs))
  <2>1. GivenAll(filter) = d1
    <3>1. Given(<<>>, Is("key", x)) = Put(<<>>, "key", One(x))
      BY DEF Given, Is, Clause
    <3> QED BY <3>1, GivenOne
  <2>2. InsertAll(GivenAll(filter), us) = d2
    <3>1. \A d : Insertion(d, a) = d /\ Insertion(d, b) = Put(d, "key", One(x))
      BY DEF Insertion, Set, Op
    <3> QED BY <2>1, <3>1, InsertTwo
  <2>3. doc = d3
    BY <1>2, <1>3, <2>2 DEF BuildUpsertDoc
  <2>4. DOMAIN d1 = {"key"}
    BY DEF Put
  <2> HIDE DEF d1
  <2>5. DOMAIN d2 = {"key"} /\ d2["key"] = One(x)
    BY <2>4 DEF Put
  <2> HIDE DEF d2
  <2>6. DOMAIN d3 = {"key", "grants"} /\ d3["key"] = One(x) /\ d3["grants"] = Many(gs)
    BY <2>5 DEF Put
  <2> HIDE DEF doc, d3
  <2> QED BY <2>3, <2>6
<1> HIDE DEF doc
<1>5. Get(doc, "key") = x /\ ShapedDoc(doc) /\ Said(doc) = RoleFacts(x, G)
  BY <1>1, <1>4, NewRole
<1>6. AtMostOne(filter) /\ \A i \in DOMAIN rows : Selected(rows[i], Columns[name], filter) <=>
        Get(rows[i], "key") = x
  BY RoleIsThere
<1>7. name' = name /\ call' = <<"seedRole", x, x>> /\ rows' = Upsert(filter, us)
  BY DEF Call, gs
<1>8. \A d : IsArray(d, "grants") => Holds(ApplyUpdate(d, filter, a), d, "grants", G)
  <2>1. \A d : IsArray(d, "grants") => Holds(ApplyUpdate(d, filter, a), d, "grants", Range(gs))
    BY <1>1, SetArrayOf
  <2> QED BY <1>1, <2>1
<1> HIDE DEF us, a, G, Gone, New, filter, as
<1>9. ASSUME NEW i \in DOMAIN rows
      PROVE  LET d == rows[i]  A == ApplyUpdate(d, filter, a) IN
             /\ OnlyField(A, d, "grants") /\ ShapedDoc(A) /\ Said(A) = RoleFacts(Get(d, "key"), G)
  BY <1>1, <1>8, RoleRow, GrantsOfRole
<1>10. ASSUME NEW i \in DOMAIN rows
       PROVE  /\ Selected(rows[i], Columns[name], filter) =>
                   Said(ApplyUpdate(rows[i], filter, a)) = But(Said(rows[i]), Gone, New)
              /\ ~ Selected(rows[i], Columns[name], filter) =>
                   But(Said(rows[i]), Gone, {}) = Said(rows[i])
  <2> DEFINE d == rows[i]
             k == Get(d, "key")
             R == Members(d, "grants")
  <2>1. Said(d) = RoleFacts(k, R) /\ Said(d) \subseteq Facts
    BY RoleRow
  <2>2. Said(ApplyUpdate(d, filter, a)) = RoleFacts(k, G) /\ (Selected(d, Columns[name], filter) <=> k = x)
    BY <1>6, <1>9
  <2> HIDE DEF d, k, R
  <2>3. CASE k = x
    <3>1. RoleFacts(k, R) \subseteq Facts
      BY <2>1
    <3>2. RoleFacts(k, G) = But(RoleFacts(k, R), Saying(Facts, "grants", 2, k),
                                {<<"role", k>>} \cup {<<"grants", k, v>> : v \in as})
      BY ONLY <3>1, GrantsSet DEF G
    <3>3. RoleFacts(k, G) = But(RoleFacts(k, R), Gone, New)
      BY <2>3, <3>2 DEF Gone, New
    <3> QED BY <2>1, <2>2, <2>3, <3>3 DEF d
  <2>4. CASE k # x
    <3>1. But(RoleFacts(k, R), Saying(Facts, "grants", 2, x), {}) = RoleFacts(k, R)
      BY ONLY <2>4, GrantedByOthers
    <3> QED BY <2>1, <2>2, <2>4, <3>1 DEF d, Gone
  <2> QED BY <2>3, <2>4
<1>11. Shapes' /\ Facts' = But(Facts, Gone, New)
  <2>1. CASE \E i \in DOMAIN rows : Selected(rows[i], Columns[name], filter)
    <3>1. rows' = Patch(filter, <<a>>)
      BY <1>3, <1>6, <1>7, <2>1, Upserted DEF FactInv
    <3>2. Call("seedRole", x, x, Patch(filter, <<a>>))
      BY <1>7, <3>1 DEF Call
    <3>3. rows' = AllPatched(filter, a) /\ Shapes'
      BY <1>6, <1>9, <3>2, TheFields, ShapedCall
    <3> QED BY <1>7, <1>10, <2>1, <3>3, FactsChanged
  <2>2. CASE ~ \E i \in DOMAIN rows : Selected(rows[i], Columns[name], filter)
    <3>1. rows' = InsertOne(rows, Index[name], doc).rows
      BY <1>3, <1>6, <1>7, <2>2, Upserted DEF FactInv, doc
    <3>2. Distinct(Append(rows, doc), Index[name])
      BY <1>5, <1>6, <2>2, InsertRefused, TheFields, NamesAreValues DEF FactInv
    <3>3. Facts' = Facts \cup RoleFacts(x, G) /\ Shapes'
      BY <1>5, <1>7, <3>1, <3>2, FactsInserted, ShapesWith DEF FactInv
    <3>4. But(Facts, Gone, {}) = Facts
      BY <1>10, <2>2, NoneGone
    <3>5. RoleFacts(x, G) = New
      <4>1. \A v : [app |-> v].app = v
        OBVIOUS
      <4> QED BY <4>1 DEF RoleFacts, G, New
    <3> QED BY <3>3, <3>4, <3>5 DEF But
  <2> QED BY <2>1, <2>2
<1>12. F!Call("seedRole", x, x,
              F!Without("grants", 2, x) \cup {<<"role", x>>} \cup {<<"grants", x, k>> : k \in as})
  BY <1>7, <1>11 DEF F!Call, F!Without, Saying, But, Facts, Gone, New
<1>13. F!OnRoles(x, x)
  BY <1>1, <1>12 DEF F!OnRoles, Facts
<1> QED BY <1>11, <1>13 DEF F!FactNext

(* pushGrant adds a grant to a role, if there is the role.                  *)
LEMMA PushGrantStep ==
  ASSUME FactInv, name = "roles", NEW x \in Name, NEW y \in Name,
         Call("pushGrant", x, y, Patch(<<Is("key", x)>>, <<Op("push", "grants", [app |-> y])>>))
  PROVE  Shapes' /\ F!FactNext
<1> DEFINE filter == <<Is("key", x)>>
           g == [app |-> y]
           u == Op("push", "grants", g)
           New == {<<"grants", x, y>>}
<1>1. \A d : IsArray(d, "grants") =>
        Holds(ApplyUpdate(d, filter, u), d, "grants", Members(d, "grants") \cup {g})
  BY PushOf
<1>2. AtMostOne(filter) /\ \A i \in DOMAIN rows : Selected(rows[i], Columns[name], filter) <=>
        Get(rows[i], "key") = x
  BY RoleIsThere
<1>3. <<"role", x>> \in Facts <=> \E i \in DOMAIN rows : Selected(rows[i], Columns[name], filter)
  BY RoleIsThere
<1>4. IsGrant(g) /\ g.app = y
  BY DEF IsGrant
<1>5. Call("pushGrant", x, y, Patch(filter, <<u>>))
  OBVIOUS
<1> HIDE DEF u, g, filter
<1>6. ASSUME NEW i \in DOMAIN rows
      PROVE  LET d == rows[i]  A == ApplyUpdate(d, filter, u) IN
             /\ OnlyField(A, d, "grants") /\ ShapedDoc(A)
             /\ Said(A) = RoleFacts(Get(d, "key"), Members(d, "grants") \cup {g})
  <2>1. \A v \in Members(rows[i], "grants") \cup {g} : IsGrant(v)
    BY <1>4, RoleRow
  <2> QED BY <1>1, <2>1, RoleRow, GrantsOfRole
<1>7. name' = name /\ call' = <<"pushGrant", x, y>> /\ rows' = AllPatched(filter, u) /\ Shapes'
  BY <1>2, <1>5, <1>6, TheFields, ShapedCall
<1>8. ASSUME NEW i \in DOMAIN rows
      PROVE  /\ Selected(rows[i], Columns[name], filter) =>
                  Said(ApplyUpdate(rows[i], filter, u)) = But(Said(rows[i]), {}, New)
             /\ ~ Selected(rows[i], Columns[name], filter) => But(Said(rows[i]), {}, {}) = Said(rows[i])
  <2> DEFINE d == rows[i]
             G == Members(d, "grants")
  <2>1. \A k, R : RoleFacts(k, R \cup {g}) = But(RoleFacts(k, R), {}, {<<"grants", k, y>>})
    BY ONLY <1>4 DEF RoleFacts, But
  <2>2. \A S : But(S, {}, {}) = S
    BY DEF But
  <2>3. Said(d) = RoleFacts(Get(d, "key"), G)
    BY RoleRow
  <2>4. Selected(d, Columns[name], filter) => Get(d, "key") = x
    BY <1>2
  <2>5. Said(ApplyUpdate(d, filter, u)) = RoleFacts(Get(d, "key"), G \cup {g})
    BY <1>6
  <2> HIDE DEF d, G
  <2>6. Selected(d, Columns[name], filter) => Said(ApplyUpdate(d, filter, u)) = But(Said(d), {}, New)
    BY <2>1, <2>3, <2>4, <2>5
  <2> QED BY <2>2, <2>6 DEF d
<1>9. Facts' = IF <<"role", x>> \in Facts THEN But(Facts, {}, New) ELSE Facts
  <2> HIDE DEF New
  <2>1. (\E i \in DOMAIN rows : Selected(rows[i], Columns[name], filter)) =>
          Facts' = But(Facts, {}, New)
    BY <1>7, <1>8, FactsChanged
  <2>2. (~ \E i \in DOMAIN rows : Selected(rows[i], Columns[name], filter)) => Facts' = Facts
    BY <1>7, <1>8, FactsChanged
  <2> QED BY <1>3, <2>1, <2>2
<1>10. F!Call("pushGrant", x, y, F!If(<<"role", x>> \in Facts, Facts \cup {<<"grants", x, y>>}))
  BY <1>7, <1>9 DEF F!Call, F!If, But, Facts
<1>11. F!OnRoles(x, y)
  BY <1>10 DEF F!OnRoles, Facts
<1> QED BY <1>7, <1>11 DEF F!FactNext

(* The grants that a pull leaves are those of other apps.                   *)
LEMMA GrantMatches ==
  ASSUME NEW G, \A g \in G : IsGrant(g), NEW x, NEW S, S = {g \in G : ~ MatchesElement(g, [app |-> x])}
  PROVE  /\ \A g : g \in S <=> g \in G /\ g.app # x
         /\ \A g \in S : IsGrant(g)
<1> DEFINE c == [app |-> x]
<1>1. DOMAIN c = {"app"} /\ c["app"] = x
  OBVIOUS
<1>2. \A g \in G : "app" \in DOMAIN g /\ g["app"] = g.app
  BY DEF IsGrant
<1> HIDE DEF c
<1>3. \A g \in G : MatchesElement(g, c) <=> g.app = x
  BY <1>1, <1>2 DEF MatchesElement
<1> QED BY <1>3 DEF c

(* pullGrant takes a role's grants of an app, all of them.                  *)
LEMMA PullGrantStep ==
  ASSUME FactInv, name = "roles", NEW x \in Name, NEW y \in Name,
         Call("pullGrant", x, y, Patch(<<Is("key", x)>>, <<Op("pullWhere", "grants", [app |-> y])>>))
  PROVE  Shapes' /\ F!FactNext
<1> DEFINE filter == <<Is("key", x)>>
           u == Op("pullWhere", "grants", [app |-> y])
           left(G) == {g \in G : ~ MatchesElement(g, [app |-> y])}
           Gone == TheGrant(x, y)
<1>1. \A d : IsArray(d, "grants") =>
        Holds(ApplyUpdate(d, filter, u), d, "grants", left(Members(d, "grants")))
  BY PullWhereOf
<1>2. AtMostOne(filter) /\ \A i \in DOMAIN rows : Selected(rows[i], Columns[name], filter) <=>
        Get(rows[i], "key") = x
  BY RoleIsThere
<1>3. ASSUME NEW G, \A g \in G : IsGrant(g)
      PROVE  (\A g : g \in left(G) <=> g \in G /\ g.app # y) /\ \A g \in left(G) : IsGrant(g)
  BY <1>3, GrantMatches
<1>4. Call("pullGrant", x, y, Patch(filter, <<u>>))
  OBVIOUS
<1> HIDE DEF u, left, filter, Gone
<1>5. ASSUME NEW i \in DOMAIN rows
      PROVE  LET d == rows[i]  A == ApplyUpdate(d, filter, u) IN
             /\ OnlyField(A, d, "grants") /\ ShapedDoc(A)
             /\ Said(A) = RoleFacts(Get(d, "key"), left(Members(d, "grants")))
  BY <1>1, <1>3, RoleRow, GrantsOfRole
<1>6. name' = name /\ call' = <<"pullGrant", x, y>> /\ rows' = AllPatched(filter, u) /\ Shapes'
  BY <1>2, <1>4, <1>5, TheFields, ShapedCall
<1>7. ASSUME NEW i \in DOMAIN rows
      PROVE  /\ Selected(rows[i], Columns[name], filter) =>
                  Said(ApplyUpdate(rows[i], filter, u)) = But(Said(rows[i]), Gone, {})
             /\ ~ Selected(rows[i], Columns[name], filter) =>
                  But(Said(rows[i]), Gone, {}) = Said(rows[i])
  <2> DEFINE d == rows[i]
             k == Get(d, "key")
             G == Members(d, "grants")
  <2>1. Said(d) = RoleFacts(k, G) /\ \A g \in G : IsGrant(g)
    BY RoleRow
  <2>2. /\ Said(ApplyUpdate(d, filter, u)) = RoleFacts(k, left(G))
        /\ Selected(d, Columns[name], filter) <=> k = x
    BY <1>2, <1>5
  <2> HIDE DEF d, k, G
  <2>3. \A g : g \in left(G) <=> g \in G /\ g.app # y
    BY <1>3, <2>1
  <2>4. RoleFacts(k, left(G)) = But(RoleFacts(k, G), TheGrant(k, y), {})
    BY ONLY <2>3, GrantPulled
  <2>5. CASE k = x
    BY <2>1, <2>2, <2>4, <2>5 DEF d, Gone
  <2>6. CASE k # x
    BY <2>1, <2>2, <2>6, GrantOfOthers DEF d, Gone
  <2> QED BY <2>5, <2>6
<1>8. Facts' = But(Facts, Gone, {})
  BY <1>6, <1>7, FactsLost
<1>9. F!Call("pullGrant", x, y, Facts \ {<<"grants", x, y>>})
  BY <1>6, <1>8 DEF F!Call, But, TheGrant, Facts, Gone
<1>10. F!OnRoles(x, y)
  BY <1>9 DEF F!OnRoles, Facts
<1> QED BY <1>6, <1>10 DEF F!FactNext

(* dropGrants takes every grant of an app.                                  *)
LEMMA DropGrantsStep ==
  ASSUME FactInv, name = "roles", NEW x \in Name,
         Call("dropGrants", x, x,
              PatchMany(<<Has("grants", "app", x)>>, <<Op("pullWhere", "grants", [app |-> x])>>))
  PROVE  Shapes' /\ F!FactNext
<1> DEFINE filter == <<Has("grants", "app", x)>>
           u == Op("pullWhere", "grants", [app |-> x])
           left(G) == {g \in G : ~ MatchesElement(g, [app |-> x])}
           Gone == Saying(Facts, "grants", 3, x)
<1>1. \A d : IsArray(d, "grants") =>
        Holds(ApplyUpdate(d, filter, u), d, "grants", left(Members(d, "grants")))
  BY PullWhereOf
<1>2. ASSUME NEW i \in DOMAIN rows
      PROVE  Selected(rows[i], Columns[name], filter) <=>
               \E g \in Members(rows[i], "grants") : g.app = x
  <2>1. \A g \in Members(rows[i], "grants") : "app" \in DOMAIN g /\ g["app"] = g.app
    BY RoleRow DEF IsGrant
  <2> QED BY <2>1, NamesAreValues, RoleRow, SelectedBy, MatchesMember
<1>3. ASSUME NEW G, \A g \in G : IsGrant(g)
      PROVE  (\A g : g \in left(G) <=> g \in G /\ g.app # x) /\ \A g \in left(G) : IsGrant(g)
  BY <1>3, GrantMatches
<1>4. Call("dropGrants", x, x, PatchMany(filter, <<u>>))
  OBVIOUS
<1> HIDE DEF u, left, filter, Gone
<1>5. ASSUME NEW i \in DOMAIN rows
      PROVE  LET d == rows[i]  A == ApplyUpdate(d, filter, u) IN
             /\ OnlyField(A, d, "grants") /\ ShapedDoc(A)
             /\ Said(A) = RoleFacts(Get(d, "key"), left(Members(d, "grants")))
  BY <1>1, <1>3, RoleRow, GrantsOfRole
<1>6. name' = name /\ call' = <<"dropGrants", x, x>> /\ rows' = AllPatched(filter, u) /\ Shapes'
  BY <1>4, <1>5, TheFields, ShapedCall
<1>7. ASSUME NEW i \in DOMAIN rows
      PROVE  /\ Said(ApplyUpdate(rows[i], filter, u)) = But(Said(rows[i]), Gone, {})
             /\ ~ Selected(rows[i], Columns[name], filter) =>
                  But(Said(rows[i]), Gone, {}) = Said(rows[i])
  <2> DEFINE d == rows[i]
             k == Get(d, "key")
             G == Members(d, "grants")
  <2>1. Said(d) = RoleFacts(k, G) /\ Said(d) \subseteq Facts /\ \A g \in G : IsGrant(g)
    BY RoleRow
  <2>2. Said(ApplyUpdate(d, filter, u)) = RoleFacts(k, left(G))
    BY <1>5
  <2>3. Selected(d, Columns[name], filter) <=> \E g \in G : g.app = x
    BY <1>2
  <2> HIDE DEF d, k, G
  <2>4. \A g : g \in left(G) <=> g \in G /\ g.app # x
    BY <1>3, <2>1
  <2>5. RoleFacts(k, G) \subseteq Facts
    BY <2>1
  <2>6. RoleFacts(k, left(G)) = But(RoleFacts(k, G), Saying(Facts, "grants", 3, x), {})
    BY ONLY <2>4, <2>5, GrantsDropped
  <2>7. ~ Selected(d, Columns[name], filter) => left(G) = G
    BY <2>3, <2>4
  <2> QED BY <2>1, <2>2, <2>6, <2>7 DEF d, Gone
<1>8. Facts' = But(Facts, Gone, {})
  BY <1>6, <1>7, FactsLost
<1>9. F!Call("dropGrants", x, x, F!Without("grants", 3, x))
  BY <1>6, <1>8 DEF F!Call, F!Without, Saying, But, Facts, Gone
<1>10. F!OnRoles(x, x)
  BY <1>9 DEF F!OnRoles
<1> QED BY <1>6, <1>10 DEF F!FactNext

(* moveGrants gives an app its new key in every grant.                      *)
LEMMA MoveGrantsStep ==
  ASSUME FactInv, name = "roles", NEW x \in Name, NEW y \in Name,
         Call("moveGrants", x, y,
              PatchMany(<<Has("grants", "app", x)>>, <<SetEach("grants", [app |-> x], [app |-> y])>>))
  PROVE  Shapes' /\ F!FactNext
<1> DEFINE filter == <<Has("grants", "app", x)>>
           u == SetEach("grants", [app |-> x], [app |-> y])
<1>1. \A d : IsArray(d, "grants") =>
              Holds(ApplyUpdate(d, filter, u), d, "grants", WithApp(Members(d, "grants"), x, y))
  BY SetEachOf DEF WithApp
<1>2. ASSUME NEW i \in DOMAIN rows
      PROVE  Selected(rows[i], Columns[name], filter) <=>
               \E g \in Members(rows[i], "grants") : "app" \in DOMAIN g /\ g["app"] = x
  BY NamesAreValues, RoleRow, SelectedBy, MatchesMember
<1>3. ASSUME NEW G, ~ \E g \in G : "app" \in DOMAIN g /\ g["app"] = x
      PROVE  WithApp(G, x, y) = G
  BY <1>3 DEF MatchesElement, WithApp
<1>4. Call("moveGrants", x, y, PatchMany(filter, <<u>>))
  OBVIOUS
<1> HIDE DEF u, filter
<1>5. ASSUME NEW i \in DOMAIN rows
      PROVE  LET d == rows[i]  A == ApplyUpdate(d, filter, u) IN
             /\ OnlyField(A, d, "grants") /\ ShapedDoc(A)
             /\ Said(A) = RoleFacts(Get(d, "key"), WithApp(Members(d, "grants"), x, y))
  <2>1. \A g \in WithApp(Members(rows[i], "grants"), x, y) : IsGrant(g)
    BY RoleRow, GrantsMoved
  <2> QED BY <1>1, <2>1, RoleRow, GrantsOfRole
<1>6. name' = name /\ call' = <<"moveGrants", x, y>> /\ rows' = AllPatched(filter, u) /\ Shapes'
  BY <1>4, <1>5, TheFields, ShapedCall
<1>7. ASSUME NEW i \in DOMAIN rows
      PROVE  Said(IF Selected(rows[i], Columns[name], filter) THEN ApplyUpdate(rows[i], filter, u) ELSE rows[i])
               = RenamedAll(Said(rows[i]), {"grants"}, 3, x, y)
  <2> DEFINE d == rows[i]
             G == Members(d, "grants")
  <2>1. RoleFacts(Get(d, "key"), WithApp(G, x, y)) = RenamedAll(Said(d), {"grants"}, 3, x, y)
    BY RoleRow, GrantsMoved
  <2>2. CASE Selected(d, Columns[name], filter)
    BY <1>5, <2>1, <2>2
  <2>3. CASE ~ Selected(d, Columns[name], filter)
    <3>1. WithApp(G, x, y) = G
      BY <1>2, <1>3, <2>3
    <3> QED BY <2>1, <2>3, <3>1, RoleRow
  <2> QED BY <2>2, <2>3
<1>8. Facts' = RenamedAll(Facts, {"grants"}, 3, x, y)
  BY <1>6, <1>7, FactsMapped
<1>9. F!Call("moveGrants", x, y, F!Renamed("grants", 3, x, y))
  BY <1>6, <1>8 DEF F!Call, F!Renamed, RenamedAll, RenamedTo, Facts
<1> QED BY <1>6, <1>9 DEF F!FactNext, F!OnRoles

(* removeRole takes a role and what it grants.                              *)
LEMMA RemoveRoleStep ==
  ASSUME FactInv, name = "roles", NEW x \in Name,
         Call("removeRole", x, x, Delete(rows, Columns[name], <<Is("key", x)>>, FALSE))
  PROVE  Shapes' /\ F!FactNext
<1> DEFINE filter == <<Is("key", x)>>
           Gone == {g \in Facts : g[1] \in {"role", "grants"} /\ g[2] = x}
<1>1. AtMostOne(filter) /\ \A i \in DOMAIN rows : Selected(rows[i], Columns[name], filter) <=>
        Get(rows[i], "key") = x
  BY RoleIsThere
<1>2. name' = name /\ call' = <<"removeRole", x, x>> /\ rows' = Delete(rows, Columns[name], filter, FALSE)
  BY DEF Call
<1>3. ASSUME NEW i \in DOMAIN rows
      PROVE  /\ Selected(rows[i], Columns[name], filter) => But(Said(rows[i]), Gone, {}) = {}
             /\ ~ Selected(rows[i], Columns[name], filter) =>
                  But(Said(rows[i]), Gone, {}) = Said(rows[i])
  <2> DEFINE d == rows[i]
             k == Get(d, "key")
             G == Members(d, "grants")
  <2>1. Said(d) = RoleFacts(k, G) /\ Said(d) \subseteq Facts
    BY RoleRow
  <2>2. Selected(d, Columns[name], filter) <=> k = x
    BY <1>1
  <2> HIDE DEF d, k, G
  <2>3. CASE k = x
    <3>1. \A g \in RoleFacts(k, G) : g[1] \in {"role", "grants"} /\ g[2] = k
      BY RoleTuples DEF RoleFacts
    <3>2. But(Said(d), Gone, {}) = {}
      BY <2>1, <2>3, <3>1 DEF But
    <3> QED BY <2>2, <2>3, <3>2 DEF d
  <2>4. CASE k # x
    <3>1. But(RoleFacts(k, G), {g \in Facts : g[1] \in {"role", "grants"} /\ g[2] = x}, {}) = RoleFacts(k, G)
      BY <2>4, GrantedByOthers
    <3> QED BY <2>1, <2>2, <2>4, <3>1 DEF d
  <2> QED BY <2>3, <2>4
<1> HIDE DEF Gone, filter
<1>4. /\ Facts' = But(Facts, Gone, {})
      /\ \A i \in DOMAIN rows' : \E j \in DOMAIN rows : rows'[i] = rows[j]
  BY <1>1, <1>2, <1>3, FactsDeleted DEF FactInv
<1>5. Shapes'
  <2>1. \A i \in DOMAIN rows' : ShapedDoc(rows'[i])
    BY <1>4, RowIs
  <2> QED BY <1>2, <2>1, ShapesOf
<1>6. F!Call("removeRole", x, x, {g \in Facts : ~ (g[1] \in {"role", "grants"} /\ g[2] = x)})
  BY <1>2, <1>4 DEF F!Call, But, Facts, Gone
<1>7. F!OnRoles(x, x)
  BY <1>6 DEF F!OnRoles, Facts
<1> QED BY <1>5, <1>7 DEF F!FactNext

(* A role of another key grants what it granted.                            *)
LEMMA KeyOfRole ==
  ASSUME name = "roles", NEW d, GoodDoc(d), ShapedDoc(d), NEW filter, NEW y, NEW A,
         A = ApplyUpdate(d, filter, Set("key", One(y)))
  PROVE  ShapedDoc(A) /\ Get(A, "key") = y /\ Said(A) = RoleFacts(y, Members(d, "grants"))
<1>1. A = Put(d, "key", One(y))
  BY DEF ApplyUpdate, Set
<1>2. "key" \in DOMAIN d /\ "grants" \in DOMAIN d
  BY TheFields DEF GoodDoc, ShapedDoc, IsArray
<1>3. DOMAIN A = DOMAIN d /\ A["key"] = One(y) /\ A["grants"] = d["grants"]
  BY <1>1, <1>2 DEF Put
<1>4. Get(A, "key") = y /\ Members(A, "grants") = Members(d, "grants")
  BY <1>2, <1>3, Values DEF Get, Members, Elements
<1>5. ShapedDoc(A)
  BY <1>3, <1>4 DEF ShapedDoc, IsArray
<1> QED BY <1>4, <1>5, SaidOfRole

(* moveRole gives a role its new key, unless another has it.                *)
LEMMA MoveRoleStep ==
  ASSUME FactInv, name = "roles", NEW x \in Name, NEW y \in Name,
         Call("moveRole", x, y, Patch(<<Is("key", x)>>, <<Set("key", One(y))>>))
  PROVE  Shapes' /\ F!FactNext
<1> DEFINE filter == <<Is("key", x)>>
           u == Set("key", One(y))
           new == AllPatched(filter, u)
<1>1. AtMostOne(filter) /\ \A i \in DOMAIN rows : Selected(rows[i], Columns[name], filter) <=>
        Get(rows[i], "key") = x
  BY RoleIsThere
<1>2. name' = name /\ call' = <<"moveRole", x, y>> /\ rows' = Patch(filter, <<u>>)
  BY DEF Call
<1>3. \A i \in DOMAIN rows :
        LET A == ApplyUpdate(rows[i], filter, u) IN
        ShapedDoc(A) /\ Get(A, "key") = y /\ Said(A) = RoleFacts(y, Members(rows[i], "grants"))
  BY RoleRow, KeyOfRole
<1>4. \/ rows' = new /\ Distinct(new, Index[name])
      \/ rows' = rows /\ ~ Distinct(new, Index[name])
  BY <1>1, <1>2, RowsPatched DEF FactInv, Patch
<1>5. DOMAIN new = DOMAIN rows /\ \A i \in DOMAIN rows : new[i] = Patched(rows[i], filter, u)
  BY DEF AllPatched
<1>6. <<"role", y>> \in Facts <=> \E i \in DOMAIN rows : Get(rows[i], "key") = y
  BY RoleIsThere
<1>7. Index[name] = {"key"} /\ y # Null
  BY TheFields, NamesAreValues
<1>8. \A i \in DOMAIN rows : Get(rows[i], "key") # Null
  BY <1>7, RoleRow DEF GoodDoc
<1>9. \A i, j \in DOMAIN rows : Get(rows[i], "key") = Get(rows[j], "key") => i = j
  BY <1>7, <1>8 DEF FactInv, StoreInv, Distinct
<1>10. new = AllPatched(filter, u)
  OBVIOUS
<1> HIDE DEF u, filter, new
<1>11. \A i \in DOMAIN rows : Get(new[i], "key") = IF Get(rows[i], "key") = x THEN y ELSE Get(rows[i], "key")
  BY <1>1, <1>3, <1>5 DEF Patched
<1>12. Shapes'
  <2>1. \A i \in DOMAIN new : ShapedDoc(new[i])
    BY <1>3, <1>5, RoleRow DEF Patched
  <2>2. CASE rows' = new
    BY <1>2, <2>1, <2>2, ShapesOf
  <2>3. CASE rows' = rows
    BY <1>2, <2>3, ShapesSame
  <2> QED BY <1>4, <2>2, <2>3
<1>13. CASE <<"role", y>> \notin Facts
  <2>1. Distinct(new, {"key"})
    <3>1. \A i, j \in DOMAIN rows : i # j => Get(new[i], "key") # Get(new[j], "key")
      BY <1>6, <1>9, <1>11, <1>13
    <3> QED BY <1>5, <3>1 DEF Distinct
  <2>2. rows' = AllPatched(filter, u)
    BY <1>4, <1>7, <1>10, <2>1
  <2>3. ASSUME NEW i \in DOMAIN rows
        PROVE  Said(IF Selected(rows[i], Columns[name], filter) THEN ApplyUpdate(rows[i], filter, u) ELSE rows[i])
                 = RenamedAll(Said(rows[i]), {"role", "grants"}, 2, x, y)
    <3> DEFINE d == rows[i]
               k == Get(d, "key")
               G == Members(d, "grants")
    <3>1. Said(d) = RoleFacts(k, G) /\ (Selected(d, Columns[name], filter) <=> k = x)
          /\ Said(ApplyUpdate(d, filter, u)) = RoleFacts(y, G)
      BY <1>1, <1>3, RoleRow
    <3> HIDE DEF d, k, G
    <3>2. CASE k = x
      <4>1. RenamedAll(RoleFacts(x, G), {"role", "grants"}, 2, x, y) = RoleFacts(y, G)
        BY RoleMoved
      <4> QED BY <3>1, <3>2, <4>1 DEF d
    <3>3. CASE k # x
      <4>1. RenamedAll(RoleFacts(k, G), {"role", "grants"}, 2, x, y) = RoleFacts(k, G)
        BY <3>3, GrantedByOthers
      <4> QED BY <3>1, <3>3, <4>1 DEF d
    <3> QED BY <3>2, <3>3
  <2>4. Facts' = RenamedAll(Facts, {"role", "grants"}, 2, x, y)
    BY <1>2, <2>2, <2>3, FactsMapped
  <2>5. F!Call("moveRole", x, y,
               F!If(<<"role", y>> \notin Facts,
                    {IF f[1] \in {"role", "grants"} /\ f[2] = x THEN [f EXCEPT ![2] = y] ELSE f : f \in Facts}))
    BY <1>2, <1>13, <2>4 DEF F!Call, F!If, RenamedAll, RenamedTo, Facts
  <2>6. F!OnRoles(x, y)
    BY <2>5 DEF F!OnRoles, Facts
  <2> QED BY <1>12, <2>6 DEF F!FactNext
<1>14. CASE <<"role", y>> \in Facts
  <2>1. Facts' = Facts
    <3>1. CASE rows' = rows
      BY <1>2, <3>1, FactsSame
    <3>2. CASE rows' = new /\ Distinct(new, {"key"})
      <4>2. PICK j \in DOMAIN rows : Get(rows[j], "key") = y
        BY <1>6, <1>14
      <4>3. ASSUME NEW i \in DOMAIN rows, Get(rows[i], "key") = x PROVE i = j
        <5>1. Get(new[i], "key") = y /\ Get(new[j], "key") = y
          BY <1>11, <4>2, <4>3
        <5> QED BY <1>5, <1>7, <3>2, <5>1 DEF Distinct
      <4>4. ASSUME NEW i \in DOMAIN rows, Selected(rows[i], Columns[name], filter)
            PROVE  Said(ApplyUpdate(rows[i], filter, u)) = Said(rows[i])
        <5>1. Get(rows[i], "key") = y
          BY <1>1, <4>2, <4>3, <4>4
        <5> QED BY <1>3, <5>1, RoleRow
      <4> QED BY <1>2, <1>10, <3>2, <4>4, FactsUnchanged
    <3> QED BY <1>4, <1>7, <3>1, <3>2
  <2>2. F!Call("moveRole", x, y,
               F!If(<<"role", y>> \notin Facts,
                    {IF f[1] \in {"role", "grants"} /\ f[2] = x THEN [f EXCEPT ![2] = y] ELSE f : f \in Facts}))
    BY <1>2, <1>14, <2>1 DEF F!Call, F!If, Facts
  <2>3. F!OnRoles(x, y)
    BY <2>2 DEF F!OnRoles, Facts
  <2> QED BY <1>12, <2>3 DEF F!FactNext
<1> QED BY <1>13, <1>14

------------------------------------------------------------------------------
(* The usage rows.                                                          *)

Used(u, a, d) == <<"used", u, a, d>>
UsedBy(doc)   == Used(Get(doc, "user_id"), Get(doc, "app_key"), Get(doc, "day"))

(* The parts of what a usage row says.                                      *)
LEMMA UsedTuples ==
  /\ \A u, a, d : /\ Used(u, a, d)[1] = "used" /\ Used(u, a, d)[2] = u
                  /\ Used(u, a, d)[3] = a /\ Used(u, a, d)[4] = d
                  /\ \A y : [Used(u, a, d) EXCEPT ![3] = y] = Used(u, y, d)
  /\ \A u, a, d, v, b, e : Used(u, a, d) = Used(v, b, e) <=> u = v /\ a = b /\ d = e
<1>1. \A u, a, d, y : [<<"used", u, a, d>> EXCEPT ![3] = y] = <<"used", u, y, d>>
  OBVIOUS
<1>2. \A u, a, d, v, b, e : Used(u, a, d) = Used(v, b, e) <=> u = v /\ a = b /\ d = e
  BY DEF Used
<1> QED BY <1>1, <1>2 DEF Used

(* A usage row says one thing.                                              *)
LEMMA SaidOfUse == ASSUME name = "usageDaily", NEW d PROVE Said(d) = {UsedBy(d)}
  BY DEF Said, UsedBy, Used

(* What a usage row is and says.                                            *)
LEMMA UseRow ==
  ASSUME FactInv, name = "usageDaily", NEW i \in DOMAIN rows
  PROVE  /\ GoodDoc(rows[i]) /\ Said(rows[i]) = {UsedBy(rows[i])} /\ UsedBy(rows[i]) \in Facts
         /\ \A f \in {"user_id", "app_key", "day"} :
              /\ f \in DOMAIN rows[i] /\ IsScalar(rows[i][f]) /\ Get(rows[i], f) # Null
              /\ \A v : v # Null => (MatchField(rows[i], Is(f, v)) <=> Get(rows[i], f) = v)
<1>1. GoodDoc(rows[i])
  BY RowIs
<1>2. Said(rows[i]) = {UsedBy(rows[i])}
  BY SaidOfUse
<1>3. UsedBy(rows[i]) \in Facts
  BY <1>2 DEF Facts
<1>4. ASSUME NEW f \in {"user_id", "app_key", "day"}
      PROVE  f \in DOMAIN rows[i] /\ IsScalar(rows[i][f]) /\ Get(rows[i], f) # Null
  BY <1>1, TheFields DEF GoodDoc
<1> QED BY <1>1, <1>2, <1>3, <1>4, MatchesValue

(* The facts are those of the rows.                                         *)
LEMMA FactsOfUse ==
  ASSUME name = "usageDaily", NEW g
  PROVE  g \in Facts <=> \E i \in DOMAIN rows : g = UsedBy(rows[i])
  BY SaidOfUse DEF Facts

(* A row is the only one of its user, app and day.                          *)
LEMMA OneUse ==
  ASSUME FactInv, name = "usageDaily", NEW i \in DOMAIN rows, NEW j \in DOMAIN rows,
         UsedBy(rows[i]) = UsedBy(rows[j])
  PROVE  i = j
<1>1. \A f \in {"user_id", "app_key", "day"} : Get(rows[i], f) = Get(rows[j], f)
  BY UsedTuples DEF UsedBy
<1>2. \A f \in Index[name] : Get(rows[i], f) = Get(rows[j], f) /\ Get(rows[i], f) # Null
  BY <1>1, UseRow, TheFields
<1> QED BY <1>2 DEF FactInv, StoreInv, Distinct

(* Rows that say different things do not break the unique index.            *)
LEMMA UsageDistinct ==
  ASSUME name = "usageDaily", NEW new,
         \A i, j \in DOMAIN new : i # j => UsedBy(new[i]) # UsedBy(new[j])
  PROVE  Distinct(new, Index[name])
<1>1. \A i, j \in DOMAIN new : i # j =>
        \E f \in {"user_id", "app_key", "day"} : Get(new[i], f) # Get(new[j], f)
  BY DEF UsedBy, Used
<1> QED BY <1>1, TheFields DEF Distinct

(* Usage rows have no arrays.                                               *)
LEMMA UsageShaped == name = "usageDaily" => \A d : ShapedDoc(d)
  BY DEF ShapedDoc

(* dropAppUsage takes every row of an app.                                  *)
LEMMA DropAppUsageStep ==
  ASSUME FactInv, name = "usageDaily", NEW x \in Name,
         Call("dropAppUsage", x, x, Delete(rows, Columns[name], <<Is("app_key", x)>>, TRUE))
  PROVE  Shapes' /\ F!FactNext
<1> DEFINE filter == <<Is("app_key", x)>>
           Gone == Saying(Facts, "used", 3, x)
<1>1. name' = name /\ call' = <<"dropAppUsage", x, x>> /\ rows' = Delete(rows, Columns[name], filter, TRUE)
  BY DEF Call
<1>2. ASSUME NEW i \in DOMAIN rows
      PROVE  /\ Selected(rows[i], Columns[name], filter) => But(Said(rows[i]), Gone, {}) = {}
             /\ ~ Selected(rows[i], Columns[name], filter) =>
                  But(Said(rows[i]), Gone, {}) = Said(rows[i])
  <2>1. Selected(rows[i], Columns[name], filter) <=> Get(rows[i], "app_key") = x
    BY UseRow, NamesAreValues, SelectedBy
  <2>2. UsedBy(rows[i]) \in Gone <=> Get(rows[i], "app_key") = x
    BY UseRow, UsedTuples DEF Saying, UsedBy
  <2> HIDE DEF Gone, filter
  <2> QED BY <2>1, <2>2, UseRow DEF But
<1> HIDE DEF Gone, filter
<1>3. Facts' = But(Facts, Gone, {})
  BY <1>1, <1>2, FactsDeleted DEF FactInv
<1>4. Shapes'
  BY <1>1, UsageShaped, ShapesOf
<1>5. F!Call("dropAppUsage", x, x, F!Without("used", 3, x))
  BY <1>1, <1>3 DEF F!Call, F!Without, Saying, But, Facts, Gone
<1>6. F!OnUsage(x, x)
  BY <1>5 DEF F!OnUsage
<1> QED BY <1>4, <1>6 DEF F!FactNext

(* dropUserUsage takes every row of a user.                                 *)
LEMMA DropUserUsageStep ==
  ASSUME FactInv, name = "usageDaily", NEW x \in Name,
         Call("dropUserUsage", x, x, Delete(rows, Columns[name], <<Is("user_id", x)>>, TRUE))
  PROVE  Shapes' /\ F!FactNext
<1> DEFINE filter == <<Is("user_id", x)>>
           Gone == Saying(Facts, "used", 2, x)
<1>1. name' = name /\ call' = <<"dropUserUsage", x, x>> /\ rows' = Delete(rows, Columns[name], filter, TRUE)
  BY DEF Call
<1>2. ASSUME NEW i \in DOMAIN rows
      PROVE  /\ Selected(rows[i], Columns[name], filter) => But(Said(rows[i]), Gone, {}) = {}
             /\ ~ Selected(rows[i], Columns[name], filter) =>
                  But(Said(rows[i]), Gone, {}) = Said(rows[i])
  <2>1. Selected(rows[i], Columns[name], filter) <=> Get(rows[i], "user_id") = x
    BY UseRow, NamesAreValues, SelectedBy
  <2>2. UsedBy(rows[i]) \in Gone <=> Get(rows[i], "user_id") = x
    BY UseRow, UsedTuples DEF Saying, UsedBy
  <2> HIDE DEF Gone, filter
  <2> QED BY <2>1, <2>2, UseRow DEF But
<1> HIDE DEF Gone, filter
<1>3. Facts' = But(Facts, Gone, {})
  BY <1>1, <1>2, FactsDeleted DEF FactInv
<1>4. Shapes'
  BY <1>1, UsageShaped, ShapesOf
<1>5. F!Call("dropUserUsage", x, x, F!Without("used", 2, x))
  BY <1>1, <1>3 DEF F!Call, F!Without, Saying, But, Facts, Gone
<1>6. F!OnUsage(x, x)
  BY <1>5 DEF F!OnUsage
<1> QED BY <1>4, <1>6 DEF F!FactNext

(* What a usage row says with one value changed.                            *)
LEMMA UsePut ==
  ASSUME NEW d, \A f \in {"user_id", "app_key", "day"} : f \in DOMAIN d, NEW f, NEW v
  PROVE  LET A == Put(d, f, One(v)) IN
         UsedBy(A) = Used(IF f = "user_id" THEN v ELSE Get(d, "user_id"),
                          IF f = "app_key" THEN v ELSE Get(d, "app_key"),
                          IF f = "day" THEN v ELSE Get(d, "day"))
<1>1. \A g \in DOMAIN d : Get(Put(d, f, One(v)), g) = IF g = f THEN v ELSE Get(d, g)
  BY Values DEF Put, Get
<1> QED BY <1>1 DEF UsedBy

(* moveUsage gives an app its new key in every row, or in none when one of  *)
(* the new key is in the way.                                               *)
LEMMA MoveUsageStep ==
  ASSUME FactInv, name = "usageDaily", NEW x \in Name, NEW y \in Name,
         Call("moveUsage", x, y, PatchMany(<<Is("app_key", x)>>, <<Set("app_key", One(y))>>))
  PROVE  Shapes' /\ F!FactNext
<1> DEFINE filter == <<Is("app_key", x)>>
           u == Set("app_key", One(y))
           new == AllPatched(filter, u)
           Free == \A f \in Facts : f[3] = x => <<"used", f[2], y, f[4]>> \notin Facts
           app(i) == Get(rows[i], "app_key")
           to(i) == IF app(i) = x THEN y ELSE app(i)
<1>1. name' = name /\ call' = <<"moveUsage", x, y>> /\ rows' = PatchMany(filter, <<u>>)
  BY DEF Call
<1>2. \/ rows' = new /\ Distinct(new, Index[name])
      \/ rows' = rows /\ ~ Distinct(new, Index[name])
  BY <1>1, RowsPatched DEF FactInv, PatchMany
<1>3. \A i \in DOMAIN rows : Selected(rows[i], Columns[name], filter) <=> app(i) = x
  BY UseRow, NamesAreValues, SelectedBy
<1>4. \A i \in DOMAIN rows :
        UsedBy(ApplyUpdate(rows[i], filter, u)) = Used(Get(rows[i], "user_id"), y, Get(rows[i], "day"))
  <2>1. \A d : ApplyUpdate(d, filter, u) = Put(d, "app_key", One(y))
    BY DEF ApplyUpdate, Set
  <2> QED BY <2>1, UseRow, UsePut
<1>5. DOMAIN new = DOMAIN rows /\ \A i \in DOMAIN rows : new[i] = Patched(rows[i], filter, u)
  BY DEF AllPatched
<1>6. new = AllPatched(filter, u)
  OBVIOUS
<1> HIDE DEF u, filter, new, app
<1>7. \A i \in DOMAIN rows : UsedBy(rows[i]) = Used(Get(rows[i], "user_id"), app(i), Get(rows[i], "day"))
  BY DEF UsedBy, app
<1>8. \A i \in DOMAIN rows : UsedBy(new[i]) = Used(Get(rows[i], "user_id"), to(i), Get(rows[i], "day"))
  BY <1>3, <1>4, <1>5, <1>7 DEF Patched
<1>9. Free <=> \A i, j \in DOMAIN rows :
        app(i) = x => UsedBy(rows[j]) # Used(Get(rows[i], "user_id"), y, Get(rows[i], "day"))
  <2>1. \A i \in DOMAIN rows : LET f == UsedBy(rows[i]) IN
          f[3] = app(i) /\ <<"used", f[2], y, f[4]>> = Used(Get(rows[i], "user_id"), y, Get(rows[i], "day"))
    BY <1>7, UsedTuples DEF Used
  <2> QED BY <2>1, FactsOfUse
<1>10. Distinct(new, Index[name]) <=> x = y \/ Free
  <2>1. ASSUME x = y PROVE Distinct(new, Index[name])
    <3>1. \A i \in DOMAIN rows : UsedBy(new[i]) = UsedBy(rows[i])
      BY <1>7, <1>8, <2>1
    <3> QED BY <1>5, <3>1, OneUse, UsageDistinct
  <2>2. ASSUME Free PROVE Distinct(new, Index[name])
    <3>1. ASSUME NEW i \in DOMAIN rows, NEW j \in DOMAIN rows, i # j, UsedBy(new[i]) = UsedBy(new[j])
          PROVE  FALSE
      <4>1. /\ to(i) = to(j) /\ Get(rows[i], "user_id") = Get(rows[j], "user_id")
            /\ Get(rows[i], "day") = Get(rows[j], "day")
        BY <1>8, <3>1, UsedTuples
      <4>2. CASE app(i) = app(j)
        BY <1>7, <3>1, <4>1, <4>2, OneUse
      <4>3. CASE app(i) = x /\ app(j) # x
        BY <1>7, <1>9, <2>2, <4>1, <4>3
      <4>4. CASE app(j) = x /\ app(i) # x
        BY <1>7, <1>9, <2>2, <4>1, <4>4
      <4> QED BY <4>1, <4>2, <4>3, <4>4
    <3> QED BY <1>5, <3>1, UsageDistinct
  <2>3. ASSUME x # y, ~ Free PROVE ~ Distinct(new, Index[name])
    <3>1. PICK i \in DOMAIN rows, j \in DOMAIN rows :
            app(i) = x /\ UsedBy(rows[j]) = Used(Get(rows[i], "user_id"), y, Get(rows[i], "day"))
      BY <1>9, <2>3
    <3>2. /\ app(j) = y /\ Get(rows[j], "user_id") = Get(rows[i], "user_id")
          /\ Get(rows[j], "day") = Get(rows[i], "day")
      BY <1>7, <3>1, UsedTuples
    <3>3. i # j /\ UsedBy(new[i]) = UsedBy(new[j])
      BY <1>8, <2>3, <3>1, <3>2
    <3>4. \A f \in {"user_id", "app_key", "day"} : Get(new[i], f) = Get(new[j], f)
      BY <3>3, UsedTuples DEF UsedBy
    <3>5. UsedBy(new[i]) = Used(Get(rows[i], "user_id"), y, Get(rows[i], "day"))
      BY <1>8, <3>1
    <3>6. \A f \in {"user_id", "app_key", "day"} : Get(new[i], f) # Null
      BY <3>5, UsedTuples, UseRow, NamesAreValues DEF UsedBy
    <3> QED BY <1>5, <3>3, <3>4, <3>6, TheFields DEF Distinct
  <2> QED BY <2>1, <2>2, <2>3
<1>11. rows' = new => Facts' = RenamedAll(Facts, {"used"}, 3, x, y)
  <2> SUFFICES ASSUME rows' = new PROVE Facts' = RenamedAll(Facts, {"used"}, 3, x, y)
    OBVIOUS
  <2>1. ASSUME NEW i \in DOMAIN rows
        PROVE  Said(IF Selected(rows[i], Columns[name], filter) THEN ApplyUpdate(rows[i], filter, u) ELSE rows[i])
                 = RenamedAll(Said(rows[i]), {"used"}, 3, x, y)
    <3>1. Said(new[i]) = {UsedBy(new[i])} /\ Said(rows[i]) = {UsedBy(rows[i])}
      BY SaidOfUse
    <3>2. UsedBy(new[i]) = RenamedTo(UsedBy(rows[i]), {"used"}, 3, x, y)
      BY <1>7, <1>8, UsedTuples DEF RenamedTo
    <3>3. Said(new[i]) = RenamedAll(Said(rows[i]), {"used"}, 3, x, y)
      BY <3>1, <3>2 DEF RenamedAll
    <3> QED BY <1>5, <3>3 DEF Patched
  <2> QED BY <1>1, <1>6, <2>1, FactsMapped
<1>12. x = y => RenamedAll(Facts, {"used"}, 3, x, y) = Facts
  <2> SUFFICES ASSUME x = y PROVE RenamedAll(Facts, {"used"}, 3, x, y) = Facts
    OBVIOUS
  <2>1. \A g \in Facts : RenamedTo(g, {"used"}, 3, x, y) = g
    BY <1>7, FactsOfUse, UsedTuples DEF RenamedTo
  <2> QED BY <2>1 DEF RenamedAll
<1>13. Facts' = IF Free THEN RenamedAll(Facts, {"used"}, 3, x, y) ELSE Facts
  BY <1>1, <1>2, <1>10, <1>11, <1>12, FactsSame
<1>14. Shapes'
  BY <1>1, UsageShaped, ShapesOf
<1>15. F!Call("moveUsage", x, y,
              F!If(\A f \in Facts : f[3] = x => <<"used", f[2], y, f[4]>> \notin Facts,
                   F!Renamed("used", 3, x, y)))
  BY <1>1, <1>13 DEF F!Call, F!If, F!Renamed, RenamedAll, RenamedTo, Facts
<1>16. F!OnUsage(x, y)
  BY <1>15 DEF F!OnUsage, Facts
<1> QED BY <1>14, <1>16 DEF F!FactNext

(* A new row of another user, app or day is not in the way of any.          *)
LEMMA NewUse ==
  ASSUME FactInv, name = "usageDaily", NEW doc,
         \A i \in DOMAIN rows : UsedBy(rows[i]) # UsedBy(doc)
  PROVE  Distinct(Append(rows, doc), Index[name])
<1> DEFINE new == Append(rows, doc)
           n == Len(rows)
<1>1. DOMAIN rows = 1..n /\ n \in Nat
  BY SequencesGrow DEF FactInv, StoreInv, IsSequence
<1>2. IsSequence(new) /\ Len(new) = n + 1 /\ new[n + 1] = doc /\ \A i \in 1..n : new[i] = rows[i]
  BY SequencesGrow DEF FactInv, StoreInv
<1>3. DOMAIN new = 1..(n + 1)
  BY <1>2, SequencesGrow
<1> HIDE DEF new, n
<1>4. \A i \in DOMAIN new : i \in DOMAIN rows \/ i = n + 1
  BY <1>1, <1>3
<1>5. \A i, j \in DOMAIN rows : i # j => UsedBy(rows[i]) # UsedBy(rows[j])
  BY OneUse
<1>6. ASSUME NEW i \in DOMAIN new, NEW j \in DOMAIN new, i # j PROVE UsedBy(new[i]) # UsedBy(new[j])
  BY <1>1, <1>2, <1>4, <1>5, <1>6
<1>7. Distinct(new, Index[name])
  BY <1>6, UsageDistinct
<1> QED BY <1>7 DEF new

(* The row that record's upsert makes when there is none.                   *)
LEMMA UsedInsert ==
  ASSUME NEW x, NEW y, NEW d, NEW t
  PROVE  LET doc == BuildUpsertDoc(<<Is("user_id", x), Is("app_key", y), Is("day", d)>>,
                                   RecordUpdates(x, y, d, t))
         IN UsedBy(doc) = Used(x, y, d)
<1> DEFINE filter == <<Is("user_id", x), Is("app_key", y), Is("day", d)>>
           us == RecordUpdates(x, y, d, t)
           u1 == Put(<<>>, "user_id", One(x))
           u2 == Put(u1, "app_key", One(y))
           u3 == Put(u2, "day", One(d))
           v1 == Put(u3, "user_id", One(x))
           v2 == Put(v1, "app_key", One(y))
           v3 == Put(v2, "day", One(d))
           u4 == Put(v3, "first_at", One(t))
           u5 == Put(u4, "last_at", One(t))
           doc == BuildUpsertDoc(filter, us)
<1>1. GivenAll(filter) = u3
  <2>1. GivenAll(filter) =
          Given(Given(Given(<<>>, Is("user_id", x)), Is("app_key", y)), Is("day", d))
    BY GivenThree
  <2>2. \A w, f, v : Given(w, Is(f, v)) = Put(w, f, One(v))
    BY DEF Given, Is, Clause
  <2> QED BY <2>1, <2>2
<1>2. InsertAll(GivenAll(filter), us) = u4
  BY <1>1, RecordInserted
<1>3. doc = u5
  <2> HIDE DEF u4, filter
  <2>1. ApplyAll(u4, filter, us) = u5
    BY RecordApplied
  <2> QED BY <1>2, <2>1 DEF BuildUpsertDoc
<1>4. DOMAIN u1 = {"user_id"} /\ u1["user_id"] = One(x)
  BY DEF Put
<1> HIDE DEF u1
<1>5. DOMAIN u2 = {"user_id", "app_key"} /\ u2["user_id"] = One(x) /\ u2["app_key"] = One(y)
  BY <1>4 DEF Put
<1> HIDE DEF u2
<1>6. DOMAIN u3 = {"user_id", "app_key", "day"} /\ u3["day"] = One(d)
      /\ u3["user_id"] = One(x) /\ u3["app_key"] = One(y)
  BY <1>5 DEF Put
<1> HIDE DEF u3
<1>7. DOMAIN u4 = {"user_id", "app_key", "day", "first_at"} /\ u4["day"] = One(d)
      /\ u4["user_id"] = One(x) /\ u4["app_key"] = One(y)
  <2> DEFINE K == {"user_id", "app_key", "day"}
             Same(v) == DOMAIN v = K /\ v["day"] = One(d) /\ v["user_id"] = One(x) /\ v["app_key"] = One(y)
  <2>1. Same(u3)
    BY <1>6
  <2>2. Same(v1)
    BY <2>1 DEF Put
  <2> HIDE DEF v1
  <2>3. Same(v2)
    BY <2>2 DEF Put
  <2> HIDE DEF v2
  <2>4. Same(v3)
    BY <2>3 DEF Put
  <2> HIDE DEF v3
  <2> QED BY <2>4 DEF Put
<1> HIDE DEF u4
<1>8. DOMAIN u5 = {"user_id", "app_key", "day", "first_at", "last_at"} /\ u5["day"] = One(d)
      /\ u5["user_id"] = One(x) /\ u5["app_key"] = One(y)
  BY <1>7 DEF Put
<1> HIDE DEF u5
<1>9. Get(u5, "user_id") = x /\ Get(u5, "app_key") = y /\ Get(u5, "day") = d
  BY <1>8, Values DEF Get
<1>10. UsedBy(u5) = Used(x, y, d)
  BY <1>9 DEF UsedBy
<1> HIDE DEF doc
<1>11. UsedBy(doc) = Used(x, y, d)
  BY <1>3, <1>10
<1> QED BY <1>11 DEF doc

(* record makes sure there is a row of the user, app and day, and makes no  *)
(* second one.                                                              *)
LEMMA RecordStep ==
  ASSUME FactInv, name = "usageDaily", NEW x \in Name, NEW y \in Name, NEW d \in Days, NEW t,
         Call("record", x, y,
              Upsert(<<Is("user_id", x), Is("app_key", y), Is("day", d)>>,
                     RecordUpdates(x, y, d, t)))
  PROVE  Shapes' /\ F!FactNext
<1> DEFINE filter == <<Is("user_id", x), Is("app_key", y), Is("day", d)>>
           u == Set("last_at", One(t))
           us == RecordUpdates(x, y, d, t)
           doc == BuildUpsertDoc(filter, us)
           g == Used(x, y, d)
<1>1. x # Null /\ y # Null /\ d # Null
  BY NamesAreValues, StoreAssumption
<1>2. ASSUME NEW i \in DOMAIN rows
      PROVE  Selected(rows[i], Columns[name], filter) <=> UsedBy(rows[i]) = g
  <2>1. Selected(rows[i], Columns[name], filter) <=>
          /\ MatchField(rows[i], Is("user_id", x)) /\ MatchField(rows[i], Is("app_key", y))
          /\ MatchField(rows[i], Is("day", d))
    BY <1>1, UseRow, SelectedByThree
  <2>2. Selected(rows[i], Columns[name], filter) <=>
          /\ Get(rows[i], "user_id") = x /\ Get(rows[i], "app_key") = y /\ Get(rows[i], "day") = d
    BY <1>1, <2>1, UseRow
  <2> HIDE DEF filter
  <2> QED BY <2>2, UsedTuples DEF UsedBy
<1>3. AtMostOne(filter)
  BY <1>2, OneUse DEF AtMostOne
<1>4. \A w : ApplyUpdate(w, filter, u) = Put(w, "last_at", One(t))
  BY RecordApplied
<1>5. \A w : ApplyAll(w, filter, us) = ApplyUpdate(w, filter, u)
  BY RecordApplied
<1>6. name' = name /\ call' = <<"record", x, y>> /\ rows' = Upsert(filter, us)
  BY DEF Call
<1>7. UsedBy(doc) = g
  BY UsedInsert
<1> HIDE DEF filter, u, us, doc
<1>8. Shapes' /\ Facts' = Facts \cup {g}
  <2>1. CASE \E i \in DOMAIN rows : Selected(rows[i], Columns[name], filter)
    <3>1. rows' = Patch(filter, <<u>>)
      BY <1>3, <1>5, <1>6, <2>1, Upserted DEF FactInv
    <3>2. ASSUME NEW i \in DOMAIN rows
          PROVE  LET A == ApplyUpdate(rows[i], filter, u) IN
                 /\ \A k \in Index[name] : Get(A, k) = Get(rows[i], k)
                 /\ ShapedDoc(A) /\ Said(A) = Said(rows[i])
      <4> DEFINE w == rows[i]
                 A == ApplyUpdate(w, filter, u)
      <4>1. \A k \in {"user_id", "app_key", "day"} : k \in DOMAIN w
        BY UseRow
      <4>2. A = Put(w, "last_at", One(t))
        BY <1>4
      <4> HIDE DEF A, w
      <4>3. \A k \in {"user_id", "app_key", "day"} : Get(A, k) = Get(w, k)
        BY <4>1, <4>2 DEF Get, Put
      <4>4. Said(A) = Said(w)
        BY <4>3, SaidOfUse DEF UsedBy
      <4> QED BY <4>3, <4>4, TheFields, UsageShaped DEF A, w
    <3>3. rows' = AllPatched(filter, u) /\ Shapes'
      BY <1>3, <1>6, <3>1, <3>2, PlainCall
    <3>4. Facts' = Facts
      BY <1>6, <3>2, <3>3, FactsUnchanged
    <3>5. g \in Facts
      BY <1>2, <2>1, UseRow
    <3> HIDE DEF g
    <3> QED BY <3>3, <3>4, <3>5
  <2>2. CASE ~ \E i \in DOMAIN rows : Selected(rows[i], Columns[name], filter)
    <3>1. rows' = InsertOne(rows, Index[name], doc).rows
      BY <1>3, <1>5, <1>6, <2>2, Upserted DEF FactInv, doc
    <3>2. \A i \in DOMAIN rows : UsedBy(rows[i]) # UsedBy(doc)
      BY <1>2, <1>7, <2>2
    <3>3. Distinct(Append(rows, doc), Index[name])
      BY <3>2, NewUse
    <3>4. Facts' = Facts \cup Said(doc)
      BY <1>6, <3>1, <3>3, FactsInserted DEF FactInv
    <3>5. Said(doc) = {g}
      BY <1>7, SaidOfUse
    <3>6. Shapes'
      BY <1>6, UsageShaped, ShapesOf
    <3> QED BY <3>4, <3>5, <3>6
  <2> QED BY <2>1, <2>2
<1>9. F!Call("record", x, y, Facts \cup {<<"used", x, y, d>>})
  BY <1>6, <1>8 DEF F!Call, Facts, Used
<1>10. F!OnUsage(x, y)
  BY <1>9 DEF F!OnUsage, Facts
<1> QED BY <1>8, <1>10 DEF F!FactNext

------------------------------------------------------------------------------
(* The API keys.                                                            *)

KeyFacts(id, owner, r) ==
  {<<"key", id, owner>>} \cup (IF r = Null THEN {} ELSE {<<"revoked", id>>})

(* What a row of a key says.                                                *)
LEMMA SaidOfKey ==
  ASSUME name = "apiKeys", NEW d
  PROVE  Said(d) = KeyFacts(Get(d, "_id"), Get(d, "user_id"), Get(d, "revoked_at"))
  BY DEF Said, KeyFacts

(* What is said of a key names the key, and says what it says.              *)
LEMMA KeyTuples ==
  /\ \A h, u : <<"key", h, u>>[2] = h /\ <<"revoked", h>>[2] = h
  /\ \A h, u, k, v : /\ <<"key", h, u>> = <<"key", k, v>> <=> h = k /\ u = v
                     /\ <<"key", h, u>> # <<"revoked", k>>
                     /\ <<"revoked", h>> = <<"revoked", k>> <=> h = k
<1>1. \A h, u, k : <<"key", h, u>> # <<"revoked", k>>
  OBVIOUS
<1>2. \A h, u, k, v : <<"key", h, u>> = <<"key", k, v>> <=> h = k /\ u = v
  OBVIOUS
<1>3. \A h, k : <<"revoked", h>> = <<"revoked", k>> <=> h = k
  OBVIOUS
<1> QED BY <1>1, <1>2, <1>3

(* Asking a value to be null.                                               *)
LEMMA MatchesNull ==
  ASSUME NEW d, NEW f, f \in DOMAIN d, IsScalar(d[f])
  PROVE  MatchField(d, Is(f, Null)) <=> Get(d, f) = Null
<1> DEFINE c == Is(f, Null)
<1>1. c.path = <<f>> /\ Len(c.path) = 1 /\ c.path[1] = f /\ c.op = "eq" /\ c.v = Null
  BY DEF Is, Clause
<1>2. ResolveValues(d, c.path) = Range(d[f].of)
  BY <1>1 DEF ResolveValues
<1>3. d[f].of = <<Get(d, f)>>
  BY DEF IsScalar, One, Get
<1>4. Range(<<Get(d, f)>>) = {Get(d, f)}
  BY DEF Range
<1> HIDE DEF c
<1>5. MatchField(d, c) <=> ResolveValues(d, c.path) = {} \/ Null \in ResolveValues(d, c.path)
  BY <1>1 DEF MatchField
<1> QED BY <1>2, <1>3, <1>4, <1>5 DEF c

(* What a key's row is and says.                                            *)
LEMMA KeyRow ==
  ASSUME FactInv, name = "apiKeys", NEW i \in DOMAIN rows
  PROVE  LET d == rows[i] IN
         /\ GoodDoc(d) /\ ShapedDoc(d)
         /\ Said(d) = KeyFacts(Get(d, "_id"), Get(d, "user_id"), Get(d, "revoked_at"))
         /\ Said(d) \subseteq Facts
         /\ \A f \in {"_id", "user_id", "revoked_at"} : f \in DOMAIN d /\ IsScalar(d[f])
         /\ "token_hash" \in DOMAIN d /\ Get(d, "_id") = Get(d, "token_hash")
<1>1. GoodDoc(rows[i]) /\ ShapedDoc(rows[i])
  BY RowIs
<1>2. \A f \in {"_id", "user_id", "revoked_at"} : f \in DOMAIN rows[i] /\ ~ rows[i][f].array
  BY <1>1 DEF ShapedDoc, IsValue
<1>3. \A f \in {"_id", "user_id", "revoked_at"} : IsScalar(rows[i][f])
  BY <1>1, <1>2 DEF GoodDoc
<1>4. "token_hash" \in DOMAIN rows[i] /\ Get(rows[i], "_id") = Get(rows[i], "token_hash")
  BY <1>1, TheFields DEF GoodDoc, ShapedDoc
<1>5. Said(rows[i]) \subseteq Facts
  BY DEF Facts
<1> QED BY <1>1, <1>2, <1>3, <1>4, <1>5, SaidOfKey

(* A name is one key's.                                                     *)
LEMMA OneOfAName ==
  ASSUME FactInv, name = "apiKeys", NEW i \in DOMAIN rows, NEW j \in DOMAIN rows,
         Get(rows[i], "_id") = Get(rows[j], "_id")
  PROVE  i = j
<1>1. Get(rows[i], "token_hash") = Get(rows[j], "token_hash") /\ Get(rows[i], "token_hash") # Null
  BY KeyRow, TheFields DEF GoodDoc
<1>2. \A g \in Index[name] : Get(rows[i], g) # Null /\ Get(rows[i], g) = Get(rows[j], g)
  BY <1>1, TheFields
<1> QED BY <1>2 DEF FactInv, StoreInv, Distinct

(* Nothing is said of a name that is no key's.                              *)
LEMMA KeyIsThere ==
  ASSUME FactInv, name = "apiKeys", NEW x
  PROVE  /\ (\A f \in Facts : f[2] # x) <=> \A i \in DOMAIN rows : Get(rows[i], "token_hash") # x
         /\ \A y : <<"key", x, y>> \in Facts <=>
                     \E i \in DOMAIN rows : Get(rows[i], "_id") = x /\ Get(rows[i], "user_id") = y
         /\ <<"revoked", x>> \in Facts <=>
              \E i \in DOMAIN rows : Get(rows[i], "_id") = x /\ Get(rows[i], "revoked_at") # Null
<1>1. \A g : g \in Facts <=>
        \E i \in DOMAIN rows :
          g \in KeyFacts(Get(rows[i], "_id"), Get(rows[i], "user_id"), Get(rows[i], "revoked_at"))
  BY KeyRow DEF Facts
<1>2. \A h, u, r : \A g \in KeyFacts(h, u, r) : g[2] = h
  BY KeyTuples DEF KeyFacts
<1>3. \A h, u, r : <<"key", h, u>> \in KeyFacts(h, u, r)
  BY DEF KeyFacts
<1>4. ASSUME NEW i \in DOMAIN rows, Get(rows[i], "token_hash") = x PROVE \E f \in Facts : f[2] = x
  <2>1. <<"key", x, Get(rows[i], "user_id")>> \in Facts
    BY <1>1, <1>3, <1>4, KeyRow
  <2> QED BY <2>1, KeyTuples
<1>5. ASSUME NEW f \in Facts, f[2] = x PROVE \E i \in DOMAIN rows : Get(rows[i], "token_hash") = x
  BY <1>1, <1>2, <1>5, KeyRow
<1>6. \A h, u, r : \A y : <<"key", x, y>> \in KeyFacts(h, u, r) <=> h = x /\ u = y
  BY KeyTuples DEF KeyFacts
<1>7. \A h, u, r : <<"revoked", x>> \in KeyFacts(h, u, r) <=> h = x /\ r # Null
  BY KeyTuples DEF KeyFacts
<1> QED BY <1>1, <1>4, <1>5, <1>6, <1>7

(* A key is said to be an owner's only if a row says so.                    *)
LEMMA OwnedKey ==
  ASSUME FactInv, name = "apiKeys", NEW x, NEW y, <<"key", x, y>> \in Facts
  PROVE  \E i \in DOMAIN rows : Get(rows[i], "_id") = x /\ Get(rows[i], "user_id") = y
<1>1. PICK i \in DOMAIN rows :
        <<"key", x, y>> \in KeyFacts(Get(rows[i], "_id"), Get(rows[i], "user_id"), Get(rows[i], "revoked_at"))
  BY KeyRow DEF Facts
<1> QED BY <1>1, KeyTuples DEF KeyFacts

(* createKey adds a key, or is refused when its hash is taken.              *)
LEMMA CreateKeyStep ==
  ASSUME FactInv, name = "apiKeys", NEW x \in Name, NEW y \in Name,
         Call("createKey", x, y, Insert(KeyDoc(x, y)))
  PROVE  Shapes' /\ F!FactNext
<1> DEFINE doc == KeyDoc(x, y)
<1>1. /\ Get(doc, "_id") = x /\ Get(doc, "token_hash") = x /\ Get(doc, "user_id") = y
      /\ Get(doc, "revoked_at") = Null /\ ShapedDoc(doc)
  <2>1. /\ DOMAIN doc = {"_id", "token_hash", "user_id", "last_used_at", "revoked_at"}
        /\ doc["_id"] = One(x) /\ doc["token_hash"] = One(x) /\ doc["user_id"] = One(y)
        /\ doc["revoked_at"] = One(Null)
    BY DEF KeyDoc
  <2> HIDE DEF doc
  <2>2. /\ Get(doc, "_id") = x /\ Get(doc, "token_hash") = x /\ Get(doc, "user_id") = y
        /\ Get(doc, "revoked_at") = Null
    BY <2>1, Values DEF Get
  <2>3. ShapedDoc(doc)
    BY <2>1, <2>2, Values DEF ShapedDoc, IsValue
  <2> QED BY <2>2, <2>3
<1> HIDE DEF doc
<1>2. Said(doc) = {<<"key", x, y>>}
  <2>1. KeyFacts(x, y, Null) = {<<"key", x, y>>}
    BY DEF KeyFacts
  <2> QED BY <1>1, <2>1, SaidOfKey
<1>3. name' = name /\ call' = <<"createKey", x, y>> /\ rows' = InsertOne(rows, Index[name], doc).rows
  BY DEF Call, Insert, doc
<1>4. Distinct(Append(rows, doc), Index[name]) <=> \A f \in Facts : f[2] # x
  <2>1. Index[name] = {"token_hash"} /\ Get(doc, "token_hash") # Null
    BY <1>1, TheFields, NamesAreValues
  <2>2. Distinct(Append(rows, doc), Index[name]) <=>
          \A i \in DOMAIN rows : Get(rows[i], "token_hash") # Get(doc, "token_hash")
    BY <2>1, InsertRefused DEF FactInv
  <2> QED BY <1>1, <2>2, KeyIsThere
<1>5. /\ Facts' = IF \A f \in Facts : f[2] # x THEN Facts \cup {<<"key", x, y>>} ELSE Facts
      /\ Shapes'
  <2>1. CASE Distinct(Append(rows, doc), Index[name])
    <3>1. Facts' = Facts \cup Said(doc) /\ Shapes'
      BY <1>1, <1>3, <2>1, FactsInserted, ShapesWith DEF FactInv
    <3> QED BY <1>2, <1>4, <2>1, <3>1
  <2>2. CASE ~ Distinct(Append(rows, doc), Index[name])
    <3>1. rows' = rows
      BY <1>3, <2>2, FactsInserted DEF FactInv
    <3>2. Facts' = Facts /\ Shapes'
      BY <1>3, <3>1, FactsSame, ShapesSame
    <3> QED BY <1>4, <2>2, <3>2
  <2> QED BY <2>1, <2>2
<1>6. F!Call("createKey", x, y, F!If(\A f \in Facts : f[2] # x, Facts \cup {<<"key", x, y>>}))
  BY <1>3, <1>5 DEF F!Call, F!If, Facts
<1>7. F!OnKeys(x, y)
  BY <1>6 DEF F!OnKeys, Facts
<1> QED BY <1>5, <1>7 DEF F!FactNext

(* An update of a field that says at most whether the key is revoked.       *)
LEMMA KeyPut ==
  ASSUME FactInv, name = "apiKeys", NEW i \in DOMAIN rows, NEW f \in {"revoked_at", "last_used_at"},
           NEW v
  PROVE  LET d == rows[i]  A == Put(d, f, One(v)) IN
         /\ ShapedDoc(A) /\ \A g \in Index[name] : Get(A, g) = Get(d, g)
         /\ Said(A) = KeyFacts(Get(d, "_id"), Get(d, "user_id"),
                               IF f = "revoked_at" THEN v ELSE Get(d, "revoked_at"))
<1> DEFINE d == rows[i]
           A == Put(d, f, One(v))
<1>1. /\ ShapedDoc(d) /\ "_id" \in DOMAIN d /\ "user_id" \in DOMAIN d /\ "token_hash" \in DOMAIN d
      /\ "revoked_at" \in DOMAIN d /\ Get(d, "_id") = Get(d, "token_hash")
      /\ ~ d["_id"].array /\ ~ d["user_id"].array /\ ~ d["revoked_at"].array
  BY KeyRow DEF ShapedDoc, IsValue
<1>2. DOMAIN A = DOMAIN d \cup {f} /\ A[f] = One(v) /\ \A g \in DOMAIN d : g # f => A[g] = d[g]
  BY DEF Put
<1> HIDE DEF d, A
<1>3. \A g \in {"_id", "user_id", "token_hash"} : g \in DOMAIN A /\ A[g] = d[g] /\ Get(A, g) = Get(d, g)
  BY <1>1, <1>2 DEF Get
<1>4. Get(A, "revoked_at") = IF f = "revoked_at" THEN v ELSE Get(d, "revoked_at")
  BY <1>1, <1>2, Values DEF Get
<1>5. "revoked_at" \in DOMAIN A /\ ~ A["revoked_at"].array
  BY <1>1, <1>2, Values
<1>6. ShapedDoc(A)
  BY <1>1, <1>3, <1>5 DEF ShapedDoc, IsValue
<1>7. \A g \in Index[name] : Get(A, g) = Get(d, g)
  BY <1>3, TheFields
<1>8. Said(A) = KeyFacts(Get(A, "_id"), Get(A, "user_id"), Get(A, "revoked_at"))
  BY SaidOfKey
<1>9. Said(A) = KeyFacts(Get(d, "_id"), Get(d, "user_id"), IF f = "revoked_at" THEN v ELSE Get(d, "revoked_at"))
  BY <1>3, <1>4, <1>8
<1> QED BY <1>6, <1>7, <1>9 DEF d, A

(* revokeKey revokes a key if the caller owns it.  A second time it selects *)
(* nothing, and nothing is left to say.                                     *)
LEMMA RevokeKeyStep ==
  ASSUME FactInv, name = "apiKeys", NEW x \in Name, NEW y \in Name,
         Call("revokeKey", x, y, Revoke(x, y))
  PROVE  Shapes' /\ F!FactNext
<1> DEFINE filter == <<Is("_id", x), Is("user_id", y), Is("revoked_at", Null)>>
           u == Set("revoked_at", One(0))
           New == {<<"revoked", x>>}
           id(i) == Get(rows[i], "_id")
           owner(i) == Get(rows[i], "user_id")
           revoked(i) == Get(rows[i], "revoked_at")
<1>1. x # Null /\ y # Null /\ 0 # Null
  BY NamesAreValues, StoreAssumption
<1>2. ASSUME NEW i \in DOMAIN rows
      PROVE  Selected(rows[i], Columns[name], filter) <=> id(i) = x /\ owner(i) = y /\ revoked(i) = Null
  <2>1. "revoked_at" \notin Columns[name]
    BY TheFields
  <2>2. Selected(rows[i], Columns[name], filter) <=>
          /\ MatchField(rows[i], Is("_id", x)) /\ MatchField(rows[i], Is("user_id", y))
          /\ MatchField(rows[i], Is("revoked_at", Null))
    BY <1>1, <2>1, KeyRow, SelectedByThree
  <2>3. MatchField(rows[i], Is("_id", x)) <=> id(i) = x
    BY <1>1, KeyRow, MatchesValue
  <2>4. MatchField(rows[i], Is("user_id", y)) <=> owner(i) = y
    BY <1>1, KeyRow, MatchesValue
  <2>5. MatchField(rows[i], Is("revoked_at", Null)) <=> revoked(i) = Null
    BY KeyRow, MatchesNull
  <2> QED BY <2>2, <2>3, <2>4, <2>5
<1>3. \A d : ApplyUpdate(d, filter, u) = Put(d, "revoked_at", One(0))
  BY DEF ApplyUpdate, Set
<1>4. name' = name /\ call' = <<"revokeKey", x, y>> /\ rows' = Patch(filter, <<u>>)
  BY DEF Call, Revoke
<1> HIDE DEF filter, u
<1>5. AtMostOne(filter)
  BY <1>2, OneOfAName DEF AtMostOne
<1>6. ASSUME NEW i \in DOMAIN rows
      PROVE  LET A == ApplyUpdate(rows[i], filter, u) IN
             /\ ShapedDoc(A) /\ \A g \in Index[name] : Get(A, g) = Get(rows[i], g)
             /\ Said(A) = KeyFacts(id(i), owner(i), 0)
  BY <1>3, KeyPut
<1>7. rows' = AllPatched(filter, u) /\ Shapes'
  BY <1>4, <1>5, <1>6, PlainCall
<1>8. ASSUME NEW i \in DOMAIN rows
      PROVE  /\ Selected(rows[i], Columns[name], filter) =>
                  Said(ApplyUpdate(rows[i], filter, u)) = But(Said(rows[i]), {}, New)
             /\ But(Said(rows[i]), {}, {}) = Said(rows[i])
  <2>1. But(Said(rows[i]), {}, {}) = Said(rows[i])
    BY DEF But
  <2>2. ASSUME Selected(rows[i], Columns[name], filter)
        PROVE  Said(ApplyUpdate(rows[i], filter, u)) = But(Said(rows[i]), {}, New)
    <3>1. Said(rows[i]) = KeyFacts(x, y, Null)
      BY <1>2, <2>2, KeyRow
    <3>2. Said(ApplyUpdate(rows[i], filter, u)) = KeyFacts(x, y, 0)
      BY <1>2, <1>6, <2>2
    <3>3. KeyFacts(x, y, 0) = But(KeyFacts(x, y, Null), {}, New)
      BY <1>1 DEF KeyFacts, But
    <3> QED BY <3>1, <3>2, <3>3
  <2> QED BY <2>1, <2>2
<1> HIDE DEF New
<1>9. /\ (\E i \in DOMAIN rows : Selected(rows[i], Columns[name], filter)) =>
           Facts' = But(Facts, {}, New)
      /\ (~ \E i \in DOMAIN rows : Selected(rows[i], Columns[name], filter)) => Facts' = Facts
  BY <1>4, <1>7, <1>8, FactsChanged
<1>10. Facts' = IF <<"key", x, y>> \in Facts THEN Facts \cup {<<"revoked", x>>} ELSE Facts
  <2>1. CASE \E i \in DOMAIN rows : Selected(rows[i], Columns[name], filter)
    <3>1. <<"key", x, y>> \in Facts
      BY <1>2, <2>1, KeyIsThere
    <3>2. But(Facts, {}, New) = Facts \cup {<<"revoked", x>>}
      BY DEF But, New
    <3> QED BY <1>9, <2>1, <3>1, <3>2
  <2>2. CASE ~ \E i \in DOMAIN rows : Selected(rows[i], Columns[name], filter)
    <3>1. ASSUME <<"key", x, y>> \in Facts PROVE <<"revoked", x>> \in Facts
      <4>1. PICK i \in DOMAIN rows : id(i) = x /\ owner(i) = y
        BY ONLY FactInv, name = "apiKeys", <3>1, OwnedKey
      <4>2. revoked(i) # Null
        BY <1>2, <2>2, <4>1
      <4> QED BY <4>1, <4>2, KeyIsThere
    <3>2. <<"key", x, y>> \in Facts => Facts \cup {<<"revoked", x>>} = Facts
      BY <3>1
    <3> QED BY <1>9, <2>2, <3>2
  <2> QED BY <2>1, <2>2
<1>11. F!Call("revokeKey", x, y, F!If(<<"key", x, y>> \in Facts, Facts \cup {<<"revoked", x>>}))
  BY <1>4, <1>10 DEF F!Call, F!If, Facts
<1>12. F!OnKeys(x, y)
  BY <1>11 DEF F!OnKeys, Facts
<1> QED BY <1>7, <1>12 DEF F!FactNext

(* touchKey stamps at most the one key, and a stamp says nothing.           *)
LEMMA TouchKeyStep ==
  ASSUME FactInv, name = "apiKeys", NEW x \in Name, NEW t,
         call' = <<"touchKey", x, x>>, rows' = TouchLastUsed(x, t), name' = name
  PROVE  Shapes' /\ F!FactNext
<1> DEFINE a == Is("_id", x)
           b == StaleStamp(t)
           filter == <<a, b>>
           u == Set("last_used_at", One(t))
<1>1. ASSUME NEW i \in DOMAIN rows, Selected(rows[i], Columns[name], filter)
      PROVE  Get(rows[i], "_id") = x
  <2>1. Matches(rows[i], filter)
    BY <1>1 DEF Selected
  <2>2. MatchField(rows[i], a)
    <3> HIDE DEF a, b
    <3>1. DOMAIN filter = {1, 2} /\ filter[1] = a
      OBVIOUS
    <3> QED BY <2>1, <3>1 DEF Matches
  <2> QED BY <2>2, KeyRow, MatchesValue, NamesAreValues
<1>2. \A d : ApplyUpdate(d, filter, u) = Put(d, "last_used_at", One(t))
  BY DEF ApplyUpdate, Set
<1>3. rows' = Patch(filter, <<u>>)
  BY DEF TouchLastUsed
<1> HIDE DEF filter, u
<1>4. AtMostOne(filter)
  BY <1>1, OneOfAName DEF AtMostOne
<1>5. ASSUME NEW i \in DOMAIN rows
      PROVE  LET A == ApplyUpdate(rows[i], filter, u) IN
             /\ ShapedDoc(A) /\ \A g \in Index[name] : Get(A, g) = Get(rows[i], g)
             /\ Said(A) = Said(rows[i])
  BY <1>2, KeyPut, KeyRow
<1>6. rows' = AllPatched(filter, u) /\ Shapes'
  BY <1>3, <1>4, <1>5, PlainCall
<1>7. Facts' = Facts
  BY <1>5, <1>6, FactsUnchanged
<1>8. F!Call("touchKey", x, x, Facts)
  BY <1>7 DEF F!Call, Facts
<1>9. F!OnKeys(x, x)
  BY <1>8 DEF F!OnKeys, Facts
<1> QED BY <1>6, <1>9 DEF F!FactNext

------------------------------------------------------------------------------
(* The refinement.                                                          *)

(* A user made at the start has two empty arrays.                           *)
LEMMA NewUser == ASSUME name = "users", NEW u PROVE ShapedDoc(User(u))
<1> DEFINE d1 == Put(<<>>, "email", One(u))
           d2 == Put(d1, "roles", Many(<<>>))
           d3 == Put(d2, "app_overrides", Many(<<>>))
<1>1. "roles" \in DOMAIN d2 /\ d2["roles"] = Many(<<>>)
  BY DEF Put
<1> HIDE DEF d2
<1>2. /\ "roles" \in DOMAIN d3 /\ d3["roles"] = Many(<<>>)
      /\ "app_overrides" \in DOMAIN d3 /\ d3["app_overrides"] = Many(<<>>)
  BY <1>1 DEF Put
<1> HIDE DEF d3
<1>3. IsSequence(<<>>) /\ Range(<<>>) = {}
  BY DEF IsSequence, Range
<1>4. IsArray(d3, "roles") /\ IsArray(d3, "app_overrides") /\ Members(d3, "app_overrides") = {}
  BY <1>2, <1>3, Values DEF IsArray, Members, Elements
<1>5. ShapedDoc(d3)
  BY <1>4 DEF ShapedDoc
<1> QED BY <1>5 DEF User, d3, d2

(* The first documents are well shaped.                                     *)
LEMMA FactInit == Init => FactInv
<1> SUFFICES ASSUME Init PROVE Shapes
  BY StoreInit DEF FactInv
<1>1. CASE name # "users"
  <2>1. DOMAIN rows = {}
    BY <1>1 DEF Init
  <2> QED BY <2>1 DEF Shapes
<1>2. CASE name = "users"
  <2> DEFINE S == {User(u) : u \in Name}
  <2>1. IsFiniteSet(S)
    <3> DEFINE m == [u \in Name |-> User(u)]
    <3>1. m \in Surjection(Name, S)
      BY DEF Surjection
    <3> HIDE DEF m, S
    <3> QED BY <3>1, StoreAssumption, FS_Surjection
  <2>2. \A d \in S : ShapedDoc(d)
    BY <1>2, NewUser
  <2>3. rows = SetToSeq(S)
    BY <1>2 DEF Init
  <2> HIDE DEF S
  <2>4. IsSequence(rows) /\ \A i \in 1..Len(rows) : rows[i] \in S
    BY <2>1, <2>3, SequenceOfSet
  <2> QED BY <2>2, <2>4, SequencesGrow DEF Shapes
<1> QED BY <1>1, <1>2

(* Each call keeps the shapes, and is the step of its name: the users'.     *)
LEMMA UsersStep ==
  ASSUME FactInv, name = "users", NEW x \in Name, NEW y \in Name, OnUsers(x, y)
  PROVE  Shapes' /\ F!FactNext
  BY MoveHoldersStep, StripHoldersStep, SetRolesStep, GrantRoleStep, PullOverrideStep,
     PushOverrideStep, MoveOverridesStep, DropOverridesStep DEF OnUsers

(* The roles'.                                                              *)
LEMMA RolesStep ==
  ASSUME FactInv, name = "roles", NEW x \in Name, NEW y \in Name, OnRoles(x, y)
  PROVE  Shapes' /\ F!FactNext
  BY InsertRoleStep, SeedRoleStep, MoveRoleStep, PushGrantStep, PullGrantStep,
     MoveGrantsStep, DropGrantsStep, RemoveRoleStep DEF OnRoles

(* The usage rows'.                                                         *)
LEMMA UsageStep ==
  ASSUME FactInv, name = "usageDaily", NEW x \in Name, NEW y \in Name, OnUsage(x, y)
  PROVE  Shapes' /\ F!FactNext
  BY RecordStep, MoveUsageStep, DropAppUsageStep, DropUserUsageStep DEF OnUsage

(* The keys'.                                                               *)
LEMMA KeysStep ==
  ASSUME FactInv, name = "apiKeys", NEW x \in Name, NEW y \in Name, OnKeys(x, y)
  PROVE  Shapes' /\ F!FactNext
  BY CreateKeyStep, RevokeKeyStep, TouchKeyStep DEF OnKeys

(* Every call.                                                              *)
LEMMA CallStep == FactInv /\ Next => Shapes' /\ F!FactNext
<1> SUFFICES ASSUME FactInv, Next PROVE Shapes' /\ F!FactNext
  OBVIOUS
<1>1. PICK x \in Name, y \in Name :
        \/ name = "users" /\ OnUsers(x, y)
        \/ name = "roles" /\ OnRoles(x, y)
        \/ name = "usageDaily" /\ OnUsage(x, y)
        \/ name = "apiKeys" /\ OnKeys(x, y)
  BY DEF Next
<1>2. CASE name = "users" /\ OnUsers(x, y)
  BY <1>2, UsersStep
<1>3. CASE name = "roles" /\ OnRoles(x, y)
  BY <1>3, RolesStep
<1>4. CASE name = "usageDaily" /\ OnUsage(x, y)
  BY <1>4, UsageStep
<1>5. CASE name = "apiKeys" /\ OnKeys(x, y)
  BY <1>5, KeysStep
<1> QED BY <1>1, <1>2, <1>3, <1>4, <1>5

(* The shapes are invariant with the indexes.                               *)
LEMMA FactStep == FactInv /\ [Next]_vars => FactInv'
<1> SUFFICES ASSUME FactInv, [Next]_vars PROVE FactInv'
  OBVIOUS
<1>1. StoreInv'
  BY StoreStep DEF FactInv
<1>2. CASE UNCHANGED vars
  BY <1>2, ShapesSame, <1>1 DEF vars, FactInv
<1>3. CASE Next
  BY <1>1, <1>3, CallStep DEF FactInv
<1> QED BY <1>2, <1>3

(* Every step of the store is one of the facts, or none.                    *)
LEMMA StepRefines == FactInv /\ [Next]_vars => [F!FactNext]_<<Facts, call>>
<1> SUFFICES ASSUME FactInv, [Next]_vars PROVE F!FactNext \/ UNCHANGED <<Facts, call>>
  OBVIOUS
<1>1. CASE UNCHANGED vars
  <2>1. name' = name /\ rows' = rows /\ call' = call
    BY <1>1 DEF vars
  <2> QED BY <2>1, FactsSame
<1>2. CASE Next
  BY <1>2, CallStep
<1> QED BY <1>1, <1>2

(* The store implements the facts: over any names, days, times, arrays and  *)
(* rows, each call that the services make of the query and update language  *)
(* of src/src/store/mongoql.ts changes what the collection says as the      *)
(* call's name promises, reaches every document and every duplicate it      *)
(* should and no other, and leaves no trace when the unique index refuses   *)
(* it.                                                                      *)
THEOREM StoreImplementsFacts == Spec => ImplementsFacts
<1>1. Spec => []FactInv
  BY FactInit, FactStep, PTL DEF Spec
<1>2. FactInv /\ [Next]_vars => [F!FactNext]_<<UNION {Said(rows[i]) : i \in DOMAIN rows}, call>>
  BY StepRefines DEF Facts
<1> QED BY <1>1, <1>2, PTL DEF Spec, ImplementsFacts, F!FactSpec
=============================================================================
