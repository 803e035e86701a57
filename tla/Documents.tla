----------------------------- MODULE Documents -----------------------------
(***************************************************************************)
(* The document store of the default backend, as operators: the query and   *)
(* update language of src/src/store/mongoql.ts and the calls that           *)
(* src/src/store/sqlite.ts builds on it.  A call never awaits inside, so    *)
(* it is one step of the modules that use it, a function from rows to rows. *)
(*                                                                          *)
(* A document maps field names to values: One(v), or an array Many(s).  The *)
(* members of an array are scalars or sub-documents (records of scalars).   *)
(* Scalars that the code sorts or compares by order (keys, days, times) are *)
(* integers.  An _id is what norm makes of it: comparable.                  *)
(***************************************************************************)
EXTENDS Collections, SequencesExt, FiniteSetsExt

CONSTANT Null   \* null

(* A mutant of Many: the array is stored as if it were a value.             *)
ManyAsOne(s) == [array |-> FALSE, of |-> s]

One(v)  == [array |-> FALSE, of |-> <<v>>]
Many(s) == [array |-> TRUE, of |-> s]
Put(doc, f, value) == [x \in DOMAIN doc \cup {f} |-> IF x = f THEN value ELSE doc[x]]
Get(doc, f)      == IF f \in DOMAIN doc THEN doc[f].of[1] ELSE Null
Elements(doc, f) == IF f \in DOMAIN doc /\ doc[f].array THEN doc[f].of ELSE <<>>

------------------------------------------------------------------------------
(* Queries.  A filter is a sequence of clauses; a path of two names goes    *)
(* through the sub-documents of an array, and an array is flattened.  A     *)
(* logical operator ($or) is a field like any other, one no document has.   *)

Clause(path, op, v) == [path |-> path, op |-> op, v |-> v]
Is(f, v)            == Clause(<<f>>, "eq", v)

ResolveValues(doc, path) ==
  IF path[1] \notin DOMAIN doc THEN {}
  ELSE IF Len(path) = 1 THEN Range(doc[path[1]].of)
  ELSE {el[path[2]] : el \in {e \in Range(doc[path[1]].of) : path[2] \in DOMAIN e}}

MatchField(doc, c) ==
  LET flat == ResolveValues(doc, c.path)
      Some(Rel(_, _)) == \E x \in flat \ {Null} : Rel(x, c.v)
  IN CASE c.op = "eq"     -> IF c.v = Null THEN flat = {} \/ Null \in flat ELSE c.v \in flat
       [] c.op = "ne"     -> c.v \notin flat
       [] c.op = "in"     -> c.v \cap flat # {}
       [] c.op = "nin"    -> c.v \cap flat = {}
       [] c.op = "exists" -> c.v = (flat # {})
       [] c.op = "gte"    -> Some(>=)
       [] c.op = "gt"     -> Some(>)
       [] c.op = "lte"    -> Some(<=)
       [] c.op = "lt"     -> Some(<)

Matches(doc, filter) == \A i \in DOMAIN filter : MatchField(doc, filter[i])

(* A condition on a sub-document ($pull, arrayFilters) is of equalities.    *)
MatchesElement(el, cond) == \A k \in DOMAIN cond : k \in DOMAIN el /\ el[k] = cond[k]

------------------------------------------------------------------------------
(* Updates: a sequence of operations on fields.                             *)

Set(f, v)            == [op |-> "set", field |-> f, v |-> v]
SetEach(f, cond, sub) == [op |-> "setEach", field |-> f, cond |-> cond, sub |-> sub]
Op(op, f, v)         == [op |-> op, field |-> f, v |-> v]

(* A mutant of ReplaceMatched: MongoDB's own `$`, which replaces the first. *)
ReplaceFirst(s, old, new) ==
  [i \in DOMAIN s |-> IF s[i] = old /\ \A j \in 1..(i - 1) : s[j] # old THEN new ELSE s[i]]

(* `field.$`: every element that equals the value the filter asks of field. *)
ReplaceMatched(s, old, new) == [i \in DOMAIN s |-> IF s[i] = old THEN new ELSE s[i]]

(* `field.$[id].sub` with arrayFilters.                                     *)
Over(el, sub) == [k \in DOMAIN el \cup DOMAIN sub |-> IF k \in DOMAIN sub THEN sub[k] ELSE el[k]]
SetMatching(s, cond, sub) ==
  [i \in DOMAIN s |-> IF MatchesElement(s[i], cond) THEN Over(s[i], sub) ELSE s[i]]

Pull(s, u) ==
  Picked(s, {i \in DOMAIN s : IF u.op = "pull" THEN s[i] # u.v ELSE ~ MatchesElement(s[i], u.v)})

Target(filter, f) ==
  LET i == CHOOSE j \in DOMAIN filter : filter[j].path = <<f>> IN filter[i].v

ApplyUpdate(doc, filter, u) ==
  LET els == Elements(doc, u.field)  f == u.field
      InArray(s) == IF f \in DOMAIN doc /\ doc[f].array THEN Put(doc, f, Many(s)) ELSE doc
  IN CASE u.op = "set"         -> Put(doc, f, u.v)
       [] u.op = "setOnInsert" -> doc
       [] u.op = "setAt"       -> InArray(ReplaceMatched(els, Target(filter, f), u.v))
       [] u.op = "setEach"     -> InArray(SetMatching(els, u.cond, u.sub))
       [] u.op = "push"        -> Put(doc, f, Many(Append(els, u.v)))
       [] u.op = "addToSet"    -> Put(doc, f, Many(IF u.v \in Range(els) THEN els
                                                   ELSE Append(els, u.v)))
       [] u.op \in {"pull", "pullWhere"} -> InArray(Pull(els, u))

ApplyAll(doc, filter, us) == FoldLeft(LAMBDA d, u : ApplyUpdate(d, filter, u), doc, us)

(* The fields that a filter asks of a document, and those of an insert.     *)
Given(doc, c)    == IF c.op = "eq" /\ Len(c.path) = 1 THEN Put(doc, c.path[1], One(c.v)) ELSE doc
Insertion(doc, u) == IF u.op = "setOnInsert" THEN Put(doc, u.field, u.v) ELSE doc
GivenAll(filter)    == FoldLeft(Given, <<>>, filter)
InsertAll(doc, us) == FoldLeft(Insertion, doc, us)

BuildUpsertDoc(filter, us) == ApplyAll(InsertAll(GivenAll(filter), us), filter, us)

------------------------------------------------------------------------------
(* Reading a collection.  The rows an SQL condition on the generated        *)
(* columns keeps (NULL compares with nothing), then those that match.       *)

(* A mutant of Prefilter: a comparison with an operator never asked for.    *)
PrefilterStrict(doc, c, columns) ==
  LET f == c.path[1]  x == Get(doc, f) IN
  Len(c.path) = 1 /\ f \in columns =>
    CASE c.op = "eq"  -> x # Null /\ x = c.v
      [] c.op = "in"  -> x # Null /\ x \in c.v
      [] c.op = "gte" -> x # Null /\ x > c.v
      [] OTHER        -> TRUE

Prefilter(doc, c, columns) ==
  LET f == c.path[1]  x == Get(doc, f) IN
  Len(c.path) = 1 /\ f \in columns =>
    CASE c.op = "eq"  -> x # Null /\ x = c.v
      [] c.op = "in"  -> x # Null /\ x \in c.v
      [] c.op = "gte" -> x # Null /\ x >= c.v
      [] OTHER        -> TRUE

Selected(doc, columns, filter) ==
  (\A i \in DOMAIN filter : Prefilter(doc, filter[i], columns)) /\ Matches(doc, filter)
SelectMatching(rows, columns, filter) ==
  Picked(rows, {i \in DOMAIN rows : Selected(rows[i], columns, filter)})

(* sortDocs: a stable sort, null before everything in ascending order.      *)
Below(a, b, key) ==
  LET x == Get(a, key.field)  y == Get(b, key.field) IN
  x # y /\ (x = Null \/ (y # Null /\ x < y))
Precedes(a, b, spec) ==
  \E i \in DOMAIN spec :
    /\ \A j \in 1..(i - 1) : Get(a, spec[j].field) = Get(b, spec[j].field)
    /\ IF spec[i].dir = 1 THEN Below(a, b, spec[i]) ELSE Below(b, a, spec[i])
StableSort(s, Less(_, _)) ==
  LET place(i) == 1 + Cardinality({j \in DOMAIN s : Less(s[j], s[i])
                                                     \/ (~ Less(s[i], s[j]) /\ j < i)})
  IN [k \in DOMAIN s |-> s[CHOOSE i \in DOMAIN s : place(i) = k]]
SortDocs(rows, spec) == StableSort(rows, LAMBDA a, b : Precedes(a, b, spec))
Limit(s, n) == SubSeq(s, 1, IF Len(s) < n THEN Len(s) ELSE n)

(* groupStage with { $sum: 1 } and { $max: '$<field>' }: a document for     *)
(* each value of the field, in the order in which they first appear.        *)
Count(rows, field, v) == Cardinality({i \in DOMAIN rows : Get(rows[i], field) = v})
MaxOf(rows, field, v, max) ==
  LET xs == {Get(rows[i], max) : i \in {j \in DOMAIN rows : Get(rows[j], field) = v}} \ {Null}
  IN IF xs = {} THEN Null ELSE CHOOSE x \in xs : \A y \in xs : y <= x
GroupStage(rows, field, max) ==
  LET first == {i \in DOMAIN rows : \A j \in 1..(i - 1) : Get(rows[j], field) # Get(rows[i], field)}
      ids == [k \in 1..Cardinality(first) |-> Get(rows[Ascending(first)[k]], field)]
      Bucket(v) == Put(Put(Put(<<>>, "_id", One(v)), "n", One(Count(rows, field, v))),
                       "last", One(MaxOf(rows, field, v, max)))
  IN [i \in DOMAIN ids |-> Bucket(ids[i])]

------------------------------------------------------------------------------
(* Writing.  A unique index ignores NULL; a statement that breaks one makes *)
(* the call throw, and its transaction leaves nothing behind.               *)

Distinct(rows, index) ==
  \A i, j \in DOMAIN rows :
    i # j => \E f \in index : Get(rows[i], f) = Null \/ Get(rows[i], f) # Get(rows[j], f)

Ok(rows, n) == [ok |-> TRUE, rows |-> rows, n |-> n]

(* A mutant of Checked: the call throws, what it wrote stays.               *)
NotRolledBack(old, new, n, index) == [ok |-> Distinct(new, index), rows |-> new, n |-> n]

Checked(old, new, n, index) ==
  IF Distinct(new, index) THEN Ok(new, n) ELSE [ok |-> FALSE, rows |-> old, n |-> 0]

InsertOne(rows, index, doc) == Checked(rows, Append(rows, doc), 1, index)

(* The rows a call is about: the first that is selected, or all of them.    *)
Targets(rows, columns, filter, many) ==
  LET at == {i \in DOMAIN rows : Selected(rows[i], columns, filter)}
  IN IF many \/ at = {} THEN at ELSE {CHOOSE i \in at : \A j \in at : i <= j}

Update(rows, columns, index, filter, us, many, upsert) ==
  LET at == Targets(rows, columns, filter, many)
      patched == [i \in DOMAIN rows |->
                    IF i \in at THEN ApplyAll(rows[i], filter, us) ELSE rows[i]]
  IN IF at = {} /\ upsert THEN InsertOne(rows, index, BuildUpsertDoc(filter, us))
     ELSE Checked(rows, patched, Cardinality(at), index)

Delete(rows, columns, filter, many) ==
  Picked(rows, DOMAIN rows \ Targets(rows, columns, filter, many))
==============================================================================
