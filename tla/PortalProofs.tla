---------------------------- MODULE PortalProofs ----------------------------
(***************************************************************************)
(* For any groups, apps and administrators: an order that was asked for     *)
(* alone is the order there is.  For any personas and any interleaving of   *)
(* sign-ins, writes, resets and restarts: every session of the demo has an  *)
(* end in sight, and a reset leaves nothing of what went before it.         *)
(***************************************************************************)
EXTENDS Launcher, Demo, CollectionsProofs

------------------------------------------------------------------------------
(* Sorting.  The groups of any positions have one order: the place of a     *)
(* group is the number of those before it.                                  *)

Place(g) == Cardinality({h \in Groups : Before(h, g)}) + 1

Positioned == position \in [Group -> Int \cup {Nothing}]

LEMMA GroupsAreFinite ==
  /\ IsFiniteSet(Groups) /\ Cardinality(Groups) \in Nat
  /\ \A S \in SUBSET Groups : IsFiniteSet(S) /\ Cardinality(S) \in Nat
<1>1. Groups \in SUBSET Group
  BY DEF Groups
<1>2. IsFiniteSet(Groups)
  BY <1>1, FS_Subset, LauncherAssumption
<1>3. \A S \in SUBSET Groups : IsFiniteSet(S)
  BY <1>2, FS_Subset
<1> QED BY <1>2, <1>3, FS_CardinalityType

LEMMA BeforeIsAnOrder ==
  ASSUME Positioned
  PROVE  /\ \A g \in Groups : ~ Before(g, g)
         /\ \A f, g, h \in Groups : Before(f, g) /\ Before(g, h) => Before(f, h)
         /\ \A g, h \in Groups : g # h => Before(g, h) \/ Before(h, g)
<1>1. Groups \subseteq Int /\ \A g \in Groups : position[g] \in Int
  BY LauncherAssumption DEF Groups, Positioned
<1> QED BY <1>1 DEF Before

LEMMA PlacesIncrease ==
  ASSUME Positioned, NEW g \in Groups, NEW h \in Groups, Before(g, h)
  PROVE  Place(g) < Place(h)
<1> DEFINE below(x) == {y \in Groups : Before(y, x)}
<1>1. below(g) \cup {g} \in SUBSET below(h) /\ g \notin below(g)
  BY BeforeIsAnOrder
<1>2. IsFiniteSet(below(g)) /\ IsFiniteSet(below(h))
  BY GroupsAreFinite
<1>3. Cardinality(below(g) \cup {g}) = Cardinality(below(g)) + 1
  BY <1>1, <1>2, FS_AddElement
<1>4. Cardinality(below(g) \cup {g}) <= Cardinality(below(h))
  BY <1>1, <1>2, FS_Subset
<1>5. Cardinality(below(g)) \in Nat /\ Cardinality(below(h)) \in Nat
  BY <1>2, FS_CardinalityType
<1> HIDE DEF below
<1>6. Cardinality(below(g)) < Cardinality(below(h))
  BY <1>3, <1>4, <1>5
<1> QED BY <1>5, <1>6 DEF Place, below

LEMMA PlacesAreDistinct ==
  ASSUME Positioned, NEW g \in Groups, NEW h \in Groups
  PROVE  /\ Place(g) \in 1..Cardinality(Groups)
         /\ Place(g) = Place(h) => g = h
         /\ Place(g) < Place(h) => Before(g, h)
<1> DEFINE below(x) == {y \in Groups : Before(y, x)}
           n == Cardinality(Groups)
<1>1. IsFiniteSet(Groups) /\ n \in Nat /\ \A x \in Groups : IsFiniteSet(below(x)) /\ Cardinality(below(x)) \in Nat
  BY GroupsAreFinite
<1>2. below(g) \in SUBSET (Groups \ {g})
  BY BeforeIsAnOrder
<1>3. Cardinality(Groups \ {g}) = n - 1 /\ IsFiniteSet(Groups \ {g})
  BY <1>1, FS_RemoveElement
<1>4. Cardinality(below(g)) <= n - 1
  BY <1>2, <1>3, FS_Subset
<1>5. Place(g) = Cardinality(below(g)) + 1 /\ Place(h) = Cardinality(below(h)) + 1
  BY DEF Place
<1>6. Place(g) \in 1..n /\ Place(h) \in Nat
  <2> HIDE DEF below, n
  <2> QED BY <1>1, <1>4, <1>5
<1>7. Before(h, g) => Place(h) < Place(g)
  BY PlacesIncrease
<1>8. Before(g, h) => Place(g) < Place(h)
  BY PlacesIncrease
<1>9. g = h \/ Before(g, h) \/ Before(h, g)
  BY BeforeIsAnOrder
<1> HIDE DEF n
<1> QED BY <1>6, <1>7, <1>8, <1>9 DEF n

(* A list of all the groups, each once.                                     *)
Lists(list) ==
  /\ list \in [1..Cardinality(Groups) -> Groups]
  /\ \A g \in Groups : \E i \in 1..Cardinality(Groups) : list[i] = g
  /\ \A i, j \in 1..Cardinality(Groups) : list[i] = list[j] => i = j

(* As many members as groups, and none twice: none is missing.              *)
LEMMA OnceIsAll ==
  ASSUME NEW list \in [1..Cardinality(Groups) -> Groups],
         \A i, j \in 1..Cardinality(Groups) : list[i] = list[j] => i = j
  PROVE  Lists(list)
<1> DEFINE n == Cardinality(Groups)
<1>1. IsFiniteSet(Groups) /\ n \in Nat
  BY GroupsAreFinite
<1>2. IsFiniteSet(1..n) /\ Cardinality(1..n) = n
  BY <1>1, FS_Interval
<1>3. list \in Injection(1..n, Groups)
  BY DEF Injection, IsInjective
<1>4. list \in Surjection(1..n, Groups)
  BY <1>1, <1>2, <1>3, FS_Injection
<1> QED BY <1>4 DEF Surjection, Lists

LEMMA ASortedListIsThere ==
  ASSUME Positioned
  PROVE  \E list \in [1..Cardinality(Groups) -> Groups] : InOrder(list)
<1> DEFINE n == Cardinality(Groups)
           place == [g \in Groups |-> Place(g)]
           list == [i \in 1..n |-> CHOOSE g \in Groups : Place(g) = i]
<1>1. IsFiniteSet(Groups) /\ n \in Nat
  BY GroupsAreFinite
<1>2. IsFiniteSet(1..n) /\ Cardinality(1..n) = n
  BY <1>1, FS_Interval
<1>3. place \in Injection(Groups, 1..n)
  BY PlacesAreDistinct DEF Injection, IsInjective
<1>4. place \in Surjection(Groups, 1..n)
  BY <1>1, <1>2, <1>3, FS_Injection
<1>5. \A i \in 1..n : \E g \in Groups : Place(g) = i
  BY <1>4 DEF Surjection
<1>6. \A i \in 1..n : list[i] \in Groups /\ Place(list[i]) = i
  BY <1>5
<1>7. list \in [1..n -> Groups]
  BY <1>6
<1>8. InOrder(list)
  <2> SUFFICES ASSUME NEW i \in 1..n, NEW j \in 1..n, i < j PROVE Before(list[i], list[j])
    BY <1>7 DEF InOrder
  <2> HIDE DEF list
  <2>1. list[i] \in Groups /\ list[j] \in Groups /\ Place(list[i]) < Place(list[j])
    BY <1>6
  <2> QED BY <2>1, PlacesAreDistinct
<1> QED BY <1>7, <1>8

LEMMA SortedLists ==
  ASSUME Positioned, NEW list \in [1..Cardinality(Groups) -> Groups], InOrder(list)
  PROVE  Lists(list) /\ \A i \in 1..Cardinality(Groups) : Place(list[i]) = i
<1> DEFINE n == Cardinality(Groups)
<1>1. n \in Nat
  BY GroupsAreFinite
<1>2. \A i, j \in 1..n : i < j => Before(list[i], list[j])
  BY DEF InOrder
<1>3. \A i, j \in 1..n : list[i] = list[j] => i = j
  <2> SUFFICES ASSUME NEW i \in 1..n, NEW j \in 1..n, list[i] = list[j], i # j PROVE FALSE
    OBVIOUS
  <2>1. i < j \/ j < i
    BY <1>1
  <2>2. Before(list[i], list[i])
    BY <1>2, <2>1
  <2> QED BY <2>2, BeforeIsAnOrder
<1>4. Lists(list)
  BY <1>3, OnceIsAll
<1>5. ASSUME NEW i \in 1..n PROVE Place(list[i]) = i
  <2> DEFINE S == {h \in Groups : Before(h, list[i])}
             f == [j \in 1..(i - 1) |-> list[j]]
  <2>1. i - 1 \in Nat /\ 1..(i - 1) \subseteq 1..n
    BY <1>1
  <2>2. \A j \in 1..(i - 1) : list[j] \in S
    BY <1>1, <1>2, <2>1
  <2>3. \A h \in S : \E j \in 1..(i - 1) : list[j] = h
    <3> SUFFICES ASSUME NEW h \in S PROVE \E j \in 1..(i - 1) : list[j] = h
      OBVIOUS
    <3>1. PICK j \in 1..n : list[j] = h
      BY <1>4 DEF Lists
    <3>2. ~ (i < j) /\ i # j
      BY <1>2, <3>1, BeforeIsAnOrder
    <3> QED BY <1>1, <3>1, <3>2
  <2>4. f \in Bijection(1..(i - 1), S)
    <3>1. f \in [1..(i - 1) -> S]
      BY <2>2
    <3>2. \A j, k \in 1..(i - 1) : f[j] = f[k] => j = k
      BY <1>3, <2>1
    <3>3. \A h \in S : \E j \in 1..(i - 1) : f[j] = h
      BY <2>3
    <3> QED BY <3>1, <3>2, <3>3 DEF Bijection, Injection, Surjection, IsInjective
  <2>5. IsFiniteSet(1..(i - 1)) /\ Cardinality(1..(i - 1)) = i - 1
    BY <2>1, FS_Interval
  <2>6. Cardinality(S) = i - 1
    BY <2>4, <2>5, FS_Bijection DEF ExistsBijection
  <2> QED BY <2>1, <2>6 DEF Place
<1> QED BY <1>4, <1>5

LEMMA ListGroupsSorts ==
  ASSUME Positioned
  PROVE  ListGroups \in [1..Cardinality(Groups) -> Groups] /\ InOrder(ListGroups) /\ Lists(ListGroups)
<1>1. ListGroups \in [1..Cardinality(Groups) -> Groups] /\ InOrder(ListGroups)
  BY ASortedListIsThere DEF ListGroups
<1> QED BY <1>1, SortedLists

LEMMA TheSortedList ==
  ASSUME Positioned, NEW list \in [1..Cardinality(Groups) -> Groups], InOrder(list)
  PROVE  ListGroups = list
<1> DEFINE D == 1..Cardinality(Groups)
           f == ListGroups
<1>1. \A i \in D : Place(list[i]) = i /\ Place(f[i]) = i
  BY SortedLists, ListGroupsSorts
<1>2. \A i \in D : f[i] = list[i]
  BY <1>1, ListGroupsSorts, PlacesAreDistinct
<1>3. f \in [D -> Groups]
  BY ListGroupsSorts
<1> HIDE DEF D, f
<1>4. list \in [D -> Groups]
  BY DEF D
<1>5. f = list
  <2>1. f = [x \in D |-> f[x]]
    BY ONLY <1>3
  <2>2. list = [x \in D |-> list[x]]
    BY ONLY <1>4
  <2> QED BY ONLY <1>2, <2>1, <2>2, Zenon
<1> QED BY <1>5 DEF f

------------------------------------------------------------------------------
(* The invariant.                                                           *)

Ops  == {"none", "new", "create", "move", "order", "delete", "assign"}
Key  == Group \cup {Nothing}   \* or one that is undefined
Jobs ==
  [op : Ops, pc : {"write", "done"}, key : Int \cup {Nothing}, keys : Seq(Key),
   to : Int \cup {Nothing}, at : Nat \ {0}, alone : BOOLEAN]

(* What the call of a handler is about.                                     *)
WellMeant(j) ==
  /\ j.op = "none" => j.pc = "done"
  /\ j.op \in {"new", "create", "move", "delete"} => j.key \in Group
  /\ j.op = "create" => j.to \in Int
  /\ j.op = "move" => j.to \in Directions
  /\ j.op = "assign" => j.key \in Tile /\ j.to \in Group \cup {Nothing}

LauncherTypes ==
  /\ Positioned /\ inGroup \in [Tile -> Group \cup {Nothing}] /\ overlap \in BOOLEAN
  /\ jobs \in [Admin -> Jobs] /\ \A h \in Admin : WellMeant(jobs[h])

(* Nobody is at work beside a handler that is alone, or that was and has    *)
(* been followed by none; and without an overlap all that work are.         *)
Apart ==
  /\ \A h, x \in Admin : jobs[h].alone /\ x # h => ~ Running(x)
  /\ ~ overlap => \A h \in Admin : Running(h) => jobs[h].alone

(* The positions that a reordering alone has written are still as written;  *)
(* the group that one alone is to move is there.                            *)
Written(j) == IF j.pc = "done" THEN Len(j.keys) ELSE j.at - 1
Ordering(h) ==
  LET j == jobs[h] IN
  /\ j.op = "order" /\ j.alone =>
       /\ Lists(j.keys) /\ j.at <= Len(j.keys) + 1
       /\ \A i \in 1..Written(j) : position[j.keys[i]] = i - 1
  /\ j.op = "move" /\ j.alone => j.key \in Groups

(* Without an overlap: the positions differ unless they are being written,  *)
(* every app is in a group there is, and what a handler has found still is. *)
OnePlaceEach == \A f, g \in Groups : position[f] = position[g] => f = g
Shelved      == \A a \in Tile : inGroup[a] \in Groups \cup {Nothing}
Finds(h) ==
  LET j == jobs[h] IN
  Running(h) =>
    /\ j.op # "order" => OnePlaceEach
    /\ j.op \in {"new", "create"} => j.key \notin Groups
    /\ j.op = "create" => \A g \in Groups : position[g] < j.to
    /\ j.op = "assign" => j.to \in Groups \cup {Nothing}
    /\ j.op = "delete" /\ j.at = 2 => \A a \in Tile : inGroup[a] # j.key
InPlace ==
  ~ overlap =>
    /\ Shelved
    /\ (\A h \in Admin : ~ Running(h)) => OnePlaceEach
    /\ \A h \in Admin : Finds(h)

LauncherInv == LauncherTypes /\ Apart /\ (\A h \in Admin : Ordering(h)) /\ InPlace

LEMMA JobLeft ==
  ASSUME NEW j \in Jobs, NEW b \in BOOLEAN
  PROVE  LET k == [j EXCEPT !.alone = b] IN
         /\ k \in Jobs /\ (WellMeant(j) => WellMeant(k))
         /\ k.op = j.op /\ k.pc = j.pc /\ k.key = j.key /\ k.keys = j.keys /\ k.to = j.to /\ k.at = j.at
         /\ k.alone = b
<1> DEFINE k == [j EXCEPT !.alone = b]
<1>1. k \in Jobs
  BY DEF Jobs
<1>2. /\ k.op = j.op /\ k.pc = j.pc /\ k.key = j.key /\ k.keys = j.keys /\ k.to = j.to /\ k.at = j.at
      /\ k.alone = b
  BY DEF Jobs
<1> HIDE DEF k
<1>3. WellMeant(j) => WellMeant(k)
  BY <1>2 DEF WellMeant
<1> QED BY <1>1, <1>2, <1>3 DEF k

LEMMA RestedJob ==
  /\ Rested \in Jobs /\ WellMeant(Rested)
  /\ Rested.op = "none" /\ Rested.pc = "done" /\ Rested.alone = FALSE
<1> DEFINE j == Job("none", Nothing, <<>>, Nothing)
<1>1. j \in Jobs
  BY DEF Jobs, Job, Ops
<1>2. Rested = [j EXCEPT !.pc = "done", !.alone = FALSE]
  BY DEF Rested
<1>3. Rested \in Jobs
  <2> HIDE DEF j
  <2> QED BY <1>1, <1>2 DEF Jobs
<1>4. Rested.op = "none" /\ Rested.pc = "done" /\ Rested.alone = FALSE
  BY DEF Rested, Job
<1> QED BY <1>3, <1>4 DEF WellMeant

LEMMA LauncherInitially == LauncherInit => LauncherInv
<1> SUFFICES ASSUME LauncherInit PROVE LauncherInv
  OBVIOUS
<1>1. /\ position = [g \in Group |-> Nothing] /\ inGroup = [a \in Tile |-> Nothing]
      /\ jobs = [h \in Admin |-> Rested] /\ overlap = FALSE
  BY DEF LauncherInit
<1>2. Rested \in Jobs /\ Rested.op = "none" /\ Rested.pc = "done" /\ Rested.alone = FALSE
  BY RestedJob
<1>3. Groups = {}
  BY <1>1 DEF Groups
<1>4. LauncherTypes
  BY <1>1, <1>2 DEF LauncherTypes, Positioned, WellMeant
<1>5. Apart /\ \A h \in Admin : Ordering(h)
  BY <1>1, <1>2 DEF Apart, Ordering, Running
<1>6. InPlace
  BY <1>1, <1>2, <1>3 DEF InPlace, Shelved, OnePlaceEach, Finds, Running
<1> QED BY <1>4, <1>5, <1>6 DEF LauncherInv

(* A handler begins: what the others have done is no longer the last word.  *)
LEMMA StartKeeps ==
  ASSUME LauncherInv, NEW h \in Admin, NEW op \in Ops, NEW key, NEW keys, NEW to,
         LET j == Job(op, key, keys, to) IN
           /\ j \in Jobs /\ WellMeant(j) /\ Start(h, j)
           /\ op # "create" /\ (op = "order" => Lists(keys)) /\ (op = "move" => key \in Groups)
           /\ op = "new" => key \notin Groups
           /\ op = "assign" /\ Shelved => to \in Groups \cup {Nothing}
  PROVE  LauncherInv'
<1> DEFINE j == Job(op, key, keys, to)
           others == \E x \in Admin \ {h} : Running(x)
<1>1. /\ j = [op |-> op, pc |-> "write", key |-> key, keys |-> keys, to |-> to, at |-> 1, alone |-> TRUE]
      /\ j \in Jobs /\ WellMeant(j)
  BY DEF Job
<1>2. /\ ~ Running(h)
      /\ jobs' = [x \in Admin |-> IF x = h THEN [j EXCEPT !.alone = ~ others]
                                  ELSE [IF Running(x) THEN jobs[x] ELSE Rested EXCEPT !.alone = FALSE]]
      /\ overlap' = (overlap \/ others)
      /\ position' = position /\ inGroup' = inGroup
  BY DEF Start
<1>3. /\ Rested \in Jobs /\ WellMeant(Rested)
      /\ Rested.op = "none" /\ Rested.pc = "done" /\ Rested.alone = FALSE
  BY RestedJob
<1>4. Groups' = Groups
  BY <1>2 DEF Groups
<1> DEFINE new == [j EXCEPT !.alone = ~ others]
           old(x) == [IF Running(x) THEN jobs[x] ELSE Rested EXCEPT !.alone = FALSE]
<1>5. /\ new \in Jobs /\ WellMeant(new) /\ new.op = op /\ new.pc = "write" /\ new.key = key /\ new.keys = keys
      /\ new.to = to /\ new.at = 1 /\ new.alone = ~ others
  <2> HIDE DEF others, j
  <2>1. (~ others) \in BOOLEAN
    OBVIOUS
  <2>2. /\ new \in Jobs /\ (WellMeant(j) => WellMeant(new))
        /\ new.op = j.op /\ new.pc = j.pc /\ new.key = j.key /\ new.keys = j.keys /\ new.to = j.to
        /\ new.at = j.at /\ new.alone = ~ others
    BY <1>1, <2>1, JobLeft
  <2>3. j.op = op /\ j.pc = "write" /\ j.key = key /\ j.keys = keys /\ j.to = to /\ j.at = 1
    BY <1>1
  <2> HIDE DEF new
  <2> QED BY <1>1, <2>2, <2>3
<1>6. jobs \in [Admin -> Jobs] /\ \A x \in Admin : WellMeant(jobs[x])
  BY DEF LauncherInv, LauncherTypes
<1>7. ASSUME NEW x \in Admin, Running(x)
      PROVE  /\ old(x) \in Jobs /\ WellMeant(old(x)) /\ old(x).alone = FALSE /\ old(x).op = jobs[x].op
             /\ old(x).pc = jobs[x].pc /\ old(x).key = jobs[x].key /\ old(x).to = jobs[x].to
             /\ old(x).at = jobs[x].at
  <2> DEFINE left == [jobs[x] EXCEPT !.alone = FALSE]
  <2>1. jobs[x] \in Jobs /\ old(x) = left
    BY <1>6, <1>7
  <2>2. /\ left \in Jobs /\ (WellMeant(jobs[x]) => WellMeant(left)) /\ left.alone = FALSE
        /\ left.op = jobs[x].op /\ left.pc = jobs[x].pc /\ left.key = jobs[x].key /\ left.to = jobs[x].to
        /\ left.at = jobs[x].at
    BY <2>1, JobLeft
  <2> HIDE DEF old, left
  <2> QED BY <1>6, <2>1, <2>2
<1>8. ASSUME NEW x \in Admin, ~ Running(x)
      PROVE  /\ old(x) \in Jobs /\ WellMeant(old(x)) /\ old(x).alone = FALSE /\ old(x).op = "none"
             /\ old(x).pc = "done"
  <2> DEFINE left == [Rested EXCEPT !.alone = FALSE]
  <2>1. old(x) = left
    BY <1>8
  <2>2. /\ left \in Jobs /\ (WellMeant(Rested) => WellMeant(left)) /\ left.alone = FALSE
        /\ left.op = Rested.op /\ left.pc = Rested.pc
    BY <1>3, JobLeft
  <2> HIDE DEF old, left
  <2> QED BY <1>3, <2>1, <2>2
<1>9. jobs'[h] = new /\ \A x \in Admin \ {h} : jobs'[x] = old(x)
  BY <1>2
<1> HIDE DEF new, old, j
<1>10. LauncherTypes'
  <2>1. jobs' \in [Admin -> Jobs]
    BY <1>2, <1>5, <1>7, <1>8, <1>9 DEF new, old
  <2>2. \A x \in Admin : WellMeant(jobs'[x])
    BY <1>5, <1>7, <1>8, <1>9
  <2> QED BY <1>2, <2>1, <2>2 DEF LauncherInv, LauncherTypes, Positioned, WellMeant
<1>11. \A x \in Admin : Running(x)' => x = h \/ Running(x)
  BY <1>8, <1>9 DEF Running
<1>12. Apart'
  <2>1. ASSUME NEW x \in Admin, NEW y \in Admin, jobs'[x].alone, y # x PROVE ~ Running(y)'
    <3>1. x = h /\ ~ others
      BY <1>5, <1>7, <1>8, <1>9, <2>1
    <3> QED BY <1>11, <2>1, <3>1
  <2>2. ASSUME ~ overlap', NEW x \in Admin, Running(x)' PROVE jobs'[x].alone
    <3>1. ~ others
      BY <1>2, <2>2
    <3>2. x = h
      BY <1>11, <2>2, <3>1
    <3> QED BY <1>5, <1>9, <3>1, <3>2
  <2>3. (\A x, y \in Admin : jobs[x].alone /\ y # x => ~ Running(y))'
    BY <2>1
  <2>4. (~ overlap => \A x \in Admin : Running(x) => jobs[x].alone)'
    BY <2>2
  <2> QED BY <2>3, <2>4 DEF Apart
<1>13. ASSUME NEW x \in Admin PROVE Ordering(x)'
  <2>1. CASE x = h
    <3>1. ASSUME op = "order" PROVE Lists(keys)' /\ Len(keys) \in Nat
      <4>1. Lists(keys)
        BY <3>1 DEF j
      <4>2. keys \in Seq(Key)
        BY <1>5 DEF Jobs
      <4> QED BY <1>4, <4>1, <4>2 DEF Lists
    <3>2. jobs'[x] = new
      BY <1>9, <2>1
    <3>3. jobs'[x].op = op /\ jobs'[x].keys = keys /\ jobs'[x].at = 1 /\ jobs'[x].pc = "write"
      BY <1>5, <3>2
    <3>4. op = "order" => /\ Lists(keys)' /\ 1 <= Len(keys) + 1
                          /\ \A i \in 1..(1 - 1) : position'[keys[i]] = i - 1
      BY <3>1
    <3>5. op = "move" => jobs'[x].key \in Groups'
      BY <1>4, <1>5, <3>2 DEF j
    <3> QED BY <3>3, <3>4, <3>5 DEF Ordering, Written
  <2>2. CASE x # h
    <3>1. jobs'[x].alone = FALSE
      BY <1>7, <1>8, <1>9, <2>2
    <3> QED BY <3>1 DEF Ordering
  <2> QED BY <2>1, <2>2
<1>14. InPlace'
  <2>1. ASSUME ~ overlap' PROVE Shelved' /\ OnePlaceEach' /\ \A x \in Admin : Finds(x)'
    <3>1. ~ overlap /\ ~ others
      BY <1>2, <2>1
    <3>2. Shelved /\ OnePlaceEach
      BY <1>2, <3>1 DEF LauncherInv, InPlace
    <3>3. Shelved' /\ OnePlaceEach'
      BY <1>2, <1>4, <3>2 DEF Shelved, OnePlaceEach
    <3>4. ASSUME NEW x \in Admin PROVE Finds(x)'
      <4> SUFFICES ASSUME Running(x)' PROVE Finds(x)'
        BY DEF Finds
      <4>1. x = h /\ jobs'[x] = new
        BY <1>9, <1>11, <3>1
      <4>2. /\ op # "create" /\ (op = "new" => key \notin Groups')
            /\ op = "assign" => to \in Groups' \cup {Nothing}
        BY <1>2, <1>4, <3>2 DEF j
      <4>3. jobs'[x].op = op /\ jobs'[x].key = key /\ jobs'[x].to = to /\ jobs'[x].at = 1
        BY <1>5, <4>1
      <4> QED BY <3>3, <4>2, <4>3 DEF Finds
    <3> QED BY <3>3, <3>4
  <2> QED BY <2>1 DEF InPlace
<1> QED BY <1>10, <1>12, <1>13, <1>14 DEF LauncherInv
------------------------------------------------------------------------------
(* The beginnings.                                                          *)

(* A new group comes after all there are.                                   *)
LEMMA NextPositionIsLast ==
  ASSUME Positioned
  PROVE  NextPosition \in Int /\ \A g \in Groups : position[g] < NextPosition
<1> DEFINE n == Cardinality(Groups)
           S == {position[g] : g \in Groups}
<1>1. n \in Nat /\ IsFiniteSet(Groups) /\ \A g \in Groups : position[g] \in Int
  BY GroupsAreFinite DEF Positioned, Groups
<1>2. CASE Groups = {}
  BY <1>2 DEF NextPosition
<1>3. CASE Groups # {}
  <2>1. PICK list \in [1..n -> Groups] : InOrder(list)
    BY ASortedListIsThere
  <2>2. Lists(list)
    BY <2>1, SortedLists
  <2>3. n # 0
    BY <1>1, <1>3, FS_EmptySet
  <2>4. n \in 1..n /\ list[n] \in Groups
    BY <1>1, <2>1, <2>3
  <2>5. \A g \in Groups : position[list[n]] >= position[g]
    <3> SUFFICES ASSUME NEW g \in Groups PROVE position[list[n]] >= position[g]
      OBVIOUS
    <3>1. PICK i \in 1..n : list[i] = g
      BY <2>2 DEF Lists
    <3>2. i = n \/ i < n
      BY <1>1, <3>1
    <3>3. i < n => Before(list[i], list[n])
      BY <2>1, <2>4, <3>1 DEF InOrder
    <3> QED BY <1>1, <2>4, <3>1, <3>2, <3>3 DEF Before
  <2>6. position[list[n]] \in S /\ \A y \in S : position[list[n]] >= y
    BY <2>4, <2>5
  <2>7. Max(S) \in S /\ \A y \in S : Max(S) >= y
    BY <2>6 DEF Max
  <2>8. Max(S) \in Int /\ \A g \in Groups : position[g] <= Max(S)
    BY <1>1, <2>7
  <2>9. NextPosition = Max(S) + 1
    BY <1>3 DEF NextPosition
  <2> HIDE DEF S
  <2> QED BY <1>1, <2>8, <2>9
<1> QED BY <1>2, <1>3

LEMMA ListsAreKeys ==
  ASSUME NEW list, Lists(list)
  PROVE  list \in Seq(Key) /\ Len(list) = Cardinality(Groups)
<1>1. list \in [1..Cardinality(Groups) -> Groups] /\ Cardinality(Groups) \in Nat /\ Groups \subseteq Group
  BY GroupsAreFinite DEF Lists, Groups
<1> QED BY <1>1 DEF Key

LEMMA BeginCreateKeeps ==
  ASSUME LauncherInv, NEW h \in Admin, NEW g \in Group, BeginCreate(h, g)
  PROVE  LauncherInv'
<1> DEFINE j == Job("new", g, <<>>, Nothing)
<1>1. g \in Int /\ <<>> \in Seq(Key)
  BY LauncherAssumption
<1>2. j \in Jobs
  BY <1>1 DEF Job, Jobs, Ops
<1>3. WellMeant(j)
  BY DEF Job, WellMeant
<1>4. Start(h, j) /\ g \notin Groups
  BY DEF BeginCreate
<1> QED BY <1>2, <1>3, <1>4, StartKeeps DEF Ops

LEMMA DeleteGroupKeeps ==
  ASSUME LauncherInv, NEW h \in Admin, NEW g \in Group, DeleteGroup(h, g)
  PROVE  LauncherInv'
<1> DEFINE j == Job("delete", g, <<>>, Nothing)
<1>1. g \in Int /\ <<>> \in Seq(Key)
  BY LauncherAssumption
<1>2. j \in Jobs
  BY <1>1 DEF Job, Jobs, Ops
<1>3. WellMeant(j)
  BY DEF Job, WellMeant
<1>4. Start(h, j)
  BY DEF DeleteGroup
<1> QED BY <1>2, <1>3, <1>4, StartKeeps DEF Ops

LEMMA UpdateAppKeeps ==
  ASSUME LauncherInv, NEW h \in Admin, NEW a \in Tile, NEW g \in Group \cup {Nothing},
         UpdateApp(h, a, g)
  PROVE  LauncherInv'
<1> DEFINE j == Job("assign", a, <<>>, g)
<1>1. a \in Int /\ g \in Int \cup {Nothing} /\ <<>> \in Seq(Key)
  BY LauncherAssumption
<1>2. j \in Jobs
  BY <1>1 DEF Job, Jobs, Ops
<1>3. WellMeant(j)
  BY DEF Job, WellMeant
<1>4. Start(h, j) /\ (Shelved => g \in Groups \cup {Nothing})
  BY DEF UpdateApp, Shelved
<1> QED BY <1>2, <1>3, <1>4, StartKeeps DEF Ops

LEMMA OrderKeeps ==
  ASSUME LauncherInv, NEW h \in Admin, NEW keys, Lists(keys), Start(h, Job("order", Nothing, keys, Nothing))
  PROVE  LauncherInv'
<1> DEFINE j == Job("order", Nothing, keys, Nothing)
<1>1. keys \in Seq(Key)
  BY ListsAreKeys
<1>2. j \in Jobs
  BY <1>1 DEF Job, Jobs, Ops
<1>3. WellMeant(j)
  BY DEF Job, WellMeant
<1> QED BY <1>2, <1>3, StartKeeps DEF Ops

LEMMA MoveGroupKeeps ==
  ASSUME LauncherInv, NEW h \in Admin, NEW g \in Group, NEW dir \in Directions, MoveGroup(h, g, dir)
  PROVE  LauncherInv'
<1> DEFINE j == Job("move", g, <<>>, dir)
<1>1. g \in Int /\ dir \in Int /\ <<>> \in Seq(Key)
  BY LauncherAssumption DEF Directions
<1>2. j \in Jobs
  BY <1>1 DEF Job, Jobs, Ops
<1>3. WellMeant(j)
  BY DEF Job, WellMeant
<1>4. Start(h, j) /\ g \in Groups
  BY DEF MoveGroup
<1> QED BY <1>2, <1>3, <1>4, StartKeeps DEF Ops

LEMMA ReorderGroupsKeeps ==
  ASSUME LauncherInv, NEW h \in Admin, NEW m \in Nat, NEW keys \in [1..m -> Group], ReorderGroups(h, keys)
  PROVE  LauncherInv'
<1> DEFINE n == Cardinality(Groups)
<1>1. n \in Nat /\ ListGroups \in [1..n -> Groups]
  BY GroupsAreFinite, ListGroupsSorts DEF LauncherInv, LauncherTypes
<1>2. Len(ListGroups) = n /\ Len(keys) = m
  BY <1>1
<1>3. m = n /\ Range(keys) = Groups /\ IsInjective(keys)
  BY <1>2 DEF ReorderGroups
<1>4. keys \in [1..n -> Groups] /\ \A x, y \in 1..n : keys[x] = keys[y] => x = y
  BY <1>3 DEF Range, IsInjective
<1>5. Lists(keys)
  BY <1>4, OnceIsAll
<1> QED BY <1>5, OrderKeeps DEF ReorderGroups
------------------------------------------------------------------------------
(* The writes.                                                              *)

(* Whoever is beside a handler at work has been alone no longer.            *)
LEMMA BesideOne ==
  ASSUME LauncherInv, NEW h \in Admin, Running(h), NEW x \in Admin \ {h}
  PROVE  jobs[x].alone = FALSE /\ (~ overlap => jobs[h].alone /\ ~ Running(x))
<1>1. jobs[x] \in Jobs
  BY DEF LauncherInv, LauncherTypes
<1>2. jobs[x].alone \in BOOLEAN
  BY <1>1 DEF Jobs
<1> QED BY <1>2 DEF LauncherInv, Apart

(* A handler changes only its own job: the rest of the invariant is about   *)
(* it, and about what it has written.                                       *)
LEMMA OneWrites ==
  ASSUME LauncherInv, NEW h \in Admin, Running(h), NEW j \in Jobs, WellMeant(j), jobs' = [jobs EXCEPT ![h] = j],
         UNCHANGED overlap, Positioned', inGroup' \in [Tile -> Group \cup {Nothing}],
         j.alone => jobs[h].alone, ~ overlap /\ j.pc # "done" => j.alone, Ordering(h)',
         ~ overlap => Shelved' /\ Finds(h)' /\ (j.pc = "done" => OnePlaceEach')
  PROVE  LauncherInv'
<1>1. jobs \in [Admin -> Jobs] /\ \A x \in Admin : WellMeant(jobs[x])
  BY DEF LauncherInv, LauncherTypes
<1>2. jobs'[h] = j /\ \A x \in Admin \ {h} : jobs'[x] = jobs[x]
  BY <1>1
<1>3. \A x \in Admin \ {h} : jobs'[x].alone = FALSE /\ Running(x)' = Running(x)
  BY <1>2, BesideOne DEF Running
<1>4. LauncherTypes'
  BY <1>1, <1>2 DEF LauncherInv, LauncherTypes, WellMeant
<1>5. Apart'
  <2>1. \A x, y \in Admin : jobs'[x].alone /\ y # x => ~ Running(y)'
    <3> SUFFICES ASSUME NEW x \in Admin, NEW y \in Admin, jobs'[x].alone, y # x PROVE ~ Running(y)'
      OBVIOUS
    <3>1. x = h /\ jobs[h].alone
      BY <1>2, <1>3
    <3>2. ~ Running(y)
      BY <3>1 DEF LauncherInv, Apart
    <3> QED BY <1>3, <3>1, <3>2
  <2>2. ~ overlap' => \A x \in Admin : Running(x)' => jobs'[x].alone
    <3> SUFFICES ASSUME ~ overlap', NEW x \in Admin, Running(x)' PROVE jobs'[x].alone
      OBVIOUS
    <3>1. x = h
      BY <1>3, BesideOne
    <3> QED BY <1>2, <3>1 DEF Running
  <2> QED BY <2>1, <2>2 DEF Apart
<1>6. ASSUME NEW x \in Admin PROVE Ordering(x)'
  <2>1. CASE x = h
    BY <2>1
  <2>2. CASE x # h
    BY <1>3, <2>2 DEF Ordering
  <2> QED BY <2>1, <2>2
<1>7. ASSUME ~ overlap' PROVE /\ Shelved' /\ \A x \in Admin : Finds(x)'
                              /\ (\A x \in Admin : ~ Running(x)') => OnePlaceEach'
  <2>1. Shelved' /\ Finds(h)' /\ (j.pc = "done" => OnePlaceEach')
    BY <1>7
  <2>2. ASSUME NEW x \in Admin \ {h} PROVE Finds(x)'
    <3>1. ~ Running(x)'
      BY <1>3, <1>7, <2>2, BesideOne
    <3> QED BY <3>1 DEF Finds
  <2>3. ~ Running(h)' => j.pc = "done"
    BY <1>2 DEF Running
  <2> QED BY <2>1, <2>2, <2>3
<1>8. InPlace'
  BY <1>7 DEF InPlace
<1> QED BY <1>4, <1>5, <1>6, <1>8 DEF LauncherInv

(* The handlers that are not reorderings leave nothing behind.              *)
LEMMA FinishKeeps ==
  ASSUME LauncherInv, NEW h \in Admin, Running(h), jobs[h].op # "order", Finish(h),
         Positioned', inGroup' \in [Tile -> Group \cup {Nothing}], ~ overlap => Shelved' /\ OnePlaceEach'
  PROVE  LauncherInv'
<1>1. jobs' = [jobs EXCEPT ![h] = Rested] /\ UNCHANGED overlap
  BY DEF Finish
<1>2. jobs'[h] = Rested
  BY <1>1 DEF LauncherInv, LauncherTypes
<1>3. Ordering(h)' /\ Finds(h)'
  BY <1>2, RestedJob DEF Ordering, Finds, Running
<1> QED BY <1>1, <1>3, RestedJob, OneWrites

LEMMA AtWork ==
  ASSUME LauncherInv, NEW h \in Admin, Running(h)
  PROVE  /\ jobs[h] \in Jobs /\ WellMeant(jobs[h]) /\ jobs \in [Admin -> Jobs]
         /\ Positioned /\ inGroup \in [Tile -> Group \cup {Nothing}]
         /\ ~ overlap => /\ jobs[h].alone /\ Shelved /\ Finds(h)
                         /\ (jobs[h].op # "order" => OnePlaceEach)
  BY DEF LauncherInv, LauncherTypes, Apart, InPlace, Finds

(* The list is read: the job that goes on from there.                       *)
GoesOn(h, op, key, keys, to) ==
  LET k == jobs'[h] IN
  /\ jobs' = [jobs EXCEPT ![h] = k] /\ UNCHANGED overlap
  /\ k \in Jobs /\ k.op = op /\ k.pc = "write" /\ k.key = key /\ k.keys = keys /\ k.to = to
  /\ k.at = 1 /\ k.alone = jobs[h].alone

LEMMA JobGoesOn ==
  ASSUME LauncherInv, NEW h \in Admin, Running(h), NEW op \in Ops, NEW key \in Int \cup {Nothing},
         NEW keys \in Seq(Key), NEW to \in Int \cup {Nothing}, Becomes(h, op, key, keys, to)
  PROVE  GoesOn(h, op, key, keys, to)
<1> DEFINE j == Job(op, key, keys, to)
           k == [j EXCEPT !.alone = jobs[h].alone]
<1>1. jobs[h].alone \in BOOLEAN /\ jobs \in [Admin -> Jobs]
  BY AtWork DEF Jobs
<1>2. /\ j = [op |-> op, pc |-> "write", key |-> key, keys |-> keys, to |-> to, at |-> 1, alone |-> TRUE]
      /\ j \in Jobs
  BY DEF Job, Jobs
<1>3. jobs' = [jobs EXCEPT ![h] = k] /\ UNCHANGED overlap
  BY DEF Becomes
<1>4. /\ k \in Jobs /\ k.op = op /\ k.pc = "write" /\ k.key = key /\ k.keys = keys /\ k.to = to
      /\ k.at = 1 /\ k.alone = jobs[h].alone
  <2>1. j.op = op /\ j.pc = "write" /\ j.key = key /\ j.keys = keys /\ j.to = to /\ j.at = 1
    BY <1>2
  <2> HIDE DEF j
  <2> QED BY <1>1, <1>2, <2>1, JobLeft
<1> HIDE DEF k
<1>5. jobs'[h] = k
  BY <1>1, <1>3
<1> QED BY <1>3, <1>4, <1>5 DEF GoesOn

LEMMA ReadPositionsKeeps ==
  ASSUME LauncherInv, NEW h \in Admin, Running(h), ReadPositions(h)
  PROVE  LauncherInv'
<1> DEFINE k == jobs'[h]
<1>1. jobs[h].op = "new" /\ Becomes(h, "create", jobs[h].key, <<>>, NextPosition) /\ UNCHANGED <<position, inGroup>>
  BY DEF ReadPositions
<1>2. NextPosition \in Int /\ \A g \in Groups : position[g] < NextPosition
  BY AtWork, NextPositionIsLast
<1>3. jobs[h].key \in Group /\ jobs[h].key \in Int
  BY <1>1, AtWork, LauncherAssumption DEF WellMeant
<1>4. /\ jobs' = [jobs EXCEPT ![h] = k] /\ UNCHANGED overlap
      /\ k \in Jobs /\ k.op = "create" /\ k.pc = "write" /\ k.key = jobs[h].key /\ k.to = NextPosition
      /\ k.alone = jobs[h].alone
  <2>1. "create" \in Ops /\ <<>> \in Seq(Key) /\ NextPosition \in Int \cup {Nothing}
        /\ jobs[h].key \in Int \cup {Nothing}
    BY <1>2, <1>3 DEF Ops
  <2>2. GoesOn(h, "create", jobs[h].key, <<>>, NextPosition)
    BY <1>1, <2>1, JobGoesOn
  <2> HIDE DEF k
  <2> QED BY <2>2 DEF GoesOn, k
<1>5. Groups' = Groups /\ Positioned' /\ inGroup' \in [Tile -> Group \cup {Nothing}]
  BY <1>1, AtWork DEF Groups, Positioned
<1> HIDE DEF k
<1>6. WellMeant(k)
  BY <1>2, <1>3, <1>4 DEF WellMeant
<1>7. Ordering(h)'
  BY <1>4 DEF Ordering, k
<1>8. ASSUME ~ overlap PROVE jobs[h].alone /\ Shelved' /\ Finds(h)'
  <2>1. jobs[h].alone /\ Shelved /\ OnePlaceEach /\ jobs[h].key \notin Groups
    BY <1>1, <1>8, AtWork DEF Finds
  <2>2. Shelved' /\ OnePlaceEach'
    BY <1>1, <1>5, <2>1 DEF Shelved, OnePlaceEach
  <2>3. k.key \notin Groups' /\ \A g \in Groups' : position'[g] < k.to
    BY <1>1, <1>2, <1>4, <1>5, <2>1
  <2> QED BY <1>4, <2>1, <2>2, <2>3 DEF Finds, k
<1> QED BY <1>4, <1>5, <1>6, <1>7, <1>8, OneWrites

LEMMA SwappedLists ==
  ASSUME Positioned, NEW list, Lists(list), NEW i \in DOMAIN list, NEW j \in DOMAIN list
  PROVE  Lists(Swapped(list, i, j))
<1> DEFINE n == Cardinality(Groups)
           keys == Swapped(list, i, j)
<1>1. list \in [1..n -> Groups] /\ i \in 1..n /\ j \in 1..n /\ \A x, y \in 1..n : list[x] = list[y] => x = y
  BY DEF Lists
<1> HIDE DEF n
<1>2. keys = [list EXCEPT ![i] = list[j], ![j] = list[i]]
  BY DEF Swapped
<1> HIDE DEF keys
<1>3. keys \in [1..n -> Groups]
  BY <1>1, <1>2
<1>4. \A x \in 1..n : keys[x] = list[IF x = j THEN i ELSE IF x = i THEN j ELSE x]
  BY <1>1, <1>2
<1>5. \A x, y \in 1..n : keys[x] = keys[y] => x = y
  BY <1>1, <1>4
<1> QED BY <1>3, <1>5, OnceIsAll DEF n, keys

LEMMA ReadOrderKeeps ==
  ASSUME LauncherInv, NEW h \in Admin, Running(h), ReadOrder(h)
  PROVE  LauncherInv'
<1> DEFINE n == Cardinality(Groups)
           list == ListGroups
           i == IndexOf(list, jobs[h].key)
           j == i + jobs[h].to
           keys == Reordered(list, i, j)
           k == jobs'[h]
<1>1. /\ jobs[h].op = "move" /\ UNCHANGED <<position, inGroup>>
      /\ (j \in DOMAIN list /\ Becomes(h, "order", Nothing, keys, Nothing)) \/ Finish(h)
  BY DEF ReadOrder
<1>2. Lists(list) /\ list \in [1..n -> Groups] /\ n \in Nat /\ Groups \subseteq Group
  BY AtWork, ListGroupsSorts, GroupsAreFinite DEF Groups
<1>3. Groups' = Groups /\ Positioned /\ Positioned' /\ inGroup' \in [Tile -> Group \cup {Nothing}]
  BY <1>1, AtWork DEF Groups, Positioned
<1>4. ASSUME ~ overlap PROVE jobs[h].alone /\ Shelved' /\ OnePlaceEach'
  BY <1>1, <1>3, <1>4, AtWork DEF Shelved, OnePlaceEach
<1> HIDE DEF list, n
<1>5. CASE Finish(h)
  BY <1>1, <1>3, <1>4, <1>5, FinishKeeps
<1>6. CASE j \in DOMAIN list /\ Becomes(h, "order", Nothing, keys, Nothing)
  <2>1. ASSUME i \in DOMAIN list PROVE Lists(keys)
    <3>1. keys = Swapped(list, i, j)
      BY <2>1 DEF Reordered
    <3> QED BY <1>2, <1>3, <1>6, <2>1, <3>1, SwappedLists
  <2>2. keys \in Seq(Key)
    <3>1. CASE i \in DOMAIN list
      BY <2>1, <3>1, ListsAreKeys
    <3>2. CASE i \notin DOMAIN list
      <4>1. keys = [list EXCEPT ![j] = Nothing]
        BY <3>2 DEF Reordered
      <4> HIDE DEF keys
      <4>2. keys \in [1..n -> Key]
        BY <1>2, <1>6, <4>1 DEF Key
      <4> QED BY <1>2, <4>2
    <3> QED BY <3>1, <3>2
  <2>3. jobs[h].key \in Groups => i \in DOMAIN list
    <3> SUFFICES ASSUME jobs[h].key \in Groups PROVE i \in DOMAIN list
      OBVIOUS
    <3>1. \E x \in 1..n : list[x] = jobs[h].key
      BY <1>2 DEF Lists, n
    <3>2. DOMAIN list = 1..n
      BY <1>2
    <3>3. jobs[h].key \in Range(list)
      BY <3>1, <3>2 DEF Range
    <3> QED BY <3>1, <3>2, <3>3 DEF IndexOf
  <2> HIDE DEF i, j, keys
  <2>4. PICK m : m = keys
    OBVIOUS
  <2>5. /\ jobs' = [jobs EXCEPT ![h] = k] /\ UNCHANGED overlap
        /\ k \in Jobs /\ k.op = "order" /\ k.pc = "write" /\ k.keys = m /\ k.at = 1
        /\ k.alone = jobs[h].alone
    <3>1. "order" \in Ops /\ Nothing \in Int \cup {Nothing} /\ m \in Seq(Key)
          /\ Becomes(h, "order", Nothing, m, Nothing)
      BY <1>6, <2>2, <2>4 DEF Ops
    <3>2. GoesOn(h, "order", Nothing, m, Nothing)
      BY <3>1, JobGoesOn
    <3> HIDE DEF k
    <3> QED BY <3>2 DEF GoesOn, k
  <2> HIDE DEF k
  <2>6. WellMeant(k)
    BY <2>5 DEF WellMeant
  <2>7. Ordering(h)'
    <3> SUFFICES ASSUME k.alone PROVE Lists(m)' /\ 1 <= Len(m) + 1
      BY <2>5 DEF Ordering, Written, Lists, k
    <3>1. jobs[h].key \in Groups
      BY <1>1, <2>5 DEF LauncherInv, Ordering
    <3>2. Lists(m) /\ Len(m) \in Nat
      BY <2>1, <2>2, <2>3, <2>4, <3>1
    <3>3. Cardinality(Groups)' = Cardinality(Groups)
      BY <1>3
    <3> QED BY <1>3, <3>2, <3>3 DEF Lists
  <2>8. Finds(h)'
    BY <2>5 DEF Finds, k
  <2> QED BY <1>3, <1>4, <2>5, <2>6, <2>7, <2>8, OneWrites
<1> QED BY <1>1, <1>5, <1>6

LEMMA InsertGroupKeeps ==
  ASSUME LauncherInv, NEW h \in Admin, Running(h), InsertGroup(h)
  PROVE  LauncherInv'
<1> DEFINE j == jobs[h]
<1>1. /\ j.op = "create" /\ Finish(h) /\ inGroup' = inGroup
      /\ position' = [position EXCEPT ![j.key] = IF position[j.key] = Nothing THEN j.to ELSE position[j.key]]
  BY DEF InsertGroup
<1>2. j.key \in Group /\ j.to \in Int
  BY <1>1, AtWork DEF WellMeant
<1>3. Positioned'
  BY <1>1, <1>2, AtWork DEF Positioned
<1>4. ASSUME ~ overlap PROVE Shelved' /\ OnePlaceEach'
  <2>1. /\ j.key \notin Groups /\ (\A g \in Groups : position[g] < j.to) /\ Shelved /\ OnePlaceEach
        /\ Positioned
    BY <1>1, <1>4, AtWork DEF Finds
  <2> HIDE DEF j
  <2>2. Groups' = Groups \cup {j.key} /\ position'[j.key] = j.to
    BY <1>1, <1>2, <2>1, LauncherAssumption DEF Groups, Positioned
  <2>3. \A g \in Groups : position'[g] = position[g] /\ position[g] \in Int
    BY <1>1, <2>1 DEF Groups, Positioned
  <2>4. OnePlaceEach'
    BY <1>2, <2>1, <2>2, <2>3 DEF OnePlaceEach
  <2>5. Shelved'
    BY <1>1, <2>1, <2>2 DEF Shelved
  <2> QED BY <2>4, <2>5
<1> QED BY <1>1, <1>3, <1>4, AtWork, FinishKeeps

LEMMA AssignKeeps ==
  ASSUME LauncherInv, NEW h \in Admin, Running(h), Assign(h)
  PROVE  LauncherInv'
<1> DEFINE j == jobs[h]
<1>1. /\ j.op = "assign" /\ Finish(h) /\ position' = position
      /\ inGroup' = [inGroup EXCEPT ![j.key] = j.to]
  BY DEF Assign
<1>2. j.key \in Tile /\ j.to \in Group \cup {Nothing}
  BY <1>1, AtWork DEF WellMeant
<1>3. Positioned' /\ inGroup' \in [Tile -> Group \cup {Nothing}]
  BY <1>1, <1>2, AtWork DEF Positioned
<1>4. ASSUME ~ overlap PROVE Shelved' /\ OnePlaceEach'
  <2>1. j.to \in Groups \cup {Nothing} /\ Shelved /\ OnePlaceEach
    BY <1>1, <1>4, AtWork DEF Finds
  <2>2. Groups' = Groups
    BY <1>1 DEF Groups
  <2> HIDE DEF j
  <2> QED BY <1>1, <1>2, <2>1, <2>2, AtWork DEF Shelved, OnePlaceEach
<1> QED BY <1>1, <1>3, <1>4, FinishKeeps

LEMMA RemoveGroupKeeps ==
  ASSUME LauncherInv, NEW h \in Admin, Running(h), RemoveGroup(h)
  PROVE  LauncherInv'
<1> DEFINE j == jobs[h]
<1>1. /\ j.op = "delete" /\ j.at = 2 /\ Finish(h) /\ inGroup' = inGroup
      /\ position' = [position EXCEPT ![j.key] = Nothing]
  BY DEF RemoveGroup
<1>2. j.key \in Group /\ Positioned
  BY <1>1, AtWork DEF WellMeant
<1>3. Positioned'
  BY <1>1, <1>2 DEF Positioned
<1>4. ASSUME ~ overlap PROVE Shelved' /\ OnePlaceEach'
  <2>1. (\A a \in Tile : inGroup[a] # j.key) /\ Shelved /\ OnePlaceEach
    BY <1>1, <1>4, AtWork DEF Finds
  <2> HIDE DEF j
  <2>2. Groups' = Groups \ {j.key} /\ \A g \in Groups' : position'[g] = position[g]
    BY <1>1, <1>2 DEF Groups, Positioned
  <2> QED BY <1>1, <2>1, <2>2 DEF Shelved, OnePlaceEach
<1> QED BY <1>1, <1>3, <1>4, AtWork, FinishKeeps

LEMMA StepOf ==
  ASSUME LauncherInv, NEW h \in Admin, Running(h), Step(h)
  PROVE  LET j == jobs[h]  k == jobs'[h] IN
         /\ jobs' = [jobs EXCEPT ![h] = k] /\ UNCHANGED overlap
         /\ k \in Jobs /\ WellMeant(k)
         /\ k.op = j.op /\ k.pc = j.pc /\ k.key = j.key /\ k.keys = j.keys /\ k.to = j.to /\ k.at = j.at + 1
         /\ k.alone = j.alone
<1> DEFINE j == jobs[h]
           k == [j EXCEPT !.at = j.at + 1]
<1>1. j \in Jobs /\ WellMeant(j) /\ jobs \in [Admin -> Jobs]
  BY AtWork
<1>2. jobs' = [jobs EXCEPT ![h] = k] /\ UNCHANGED overlap
  BY DEF Step
<1> HIDE DEF j
<1>3. k \in Jobs
  <2>1. j.at \in Nat \ {0}
    BY <1>1 DEF Jobs
  <2>2. j.at + 1 \in Nat \ {0}
    BY <2>1
  <2> QED BY <1>1, <2>2 DEF Jobs
<1>4. /\ k.op = j.op /\ k.pc = j.pc /\ k.key = j.key /\ k.keys = j.keys /\ k.to = j.to /\ k.at = j.at + 1
      /\ k.alone = j.alone
  BY <1>1 DEF Jobs
<1> HIDE DEF k
<1>5. WellMeant(k)
  BY <1>1, <1>4 DEF WellMeant
<1>6. jobs'[h] = k
  BY <1>1, <1>2
<1> QED BY <1>2, <1>3, <1>4, <1>5, <1>6 DEF j

LEMMA UngroupKeeps ==
  ASSUME LauncherInv, NEW h \in Admin, Running(h), Ungroup(h)
  PROVE  LauncherInv'
<1> DEFINE j == jobs[h]
           k == jobs'[h]
<1>1. /\ j.op = "delete" /\ j.at = 1 /\ Step(h) /\ position' = position
      /\ inGroup' = [a \in Tile |-> IF inGroup[a] = j.key THEN Nothing ELSE inGroup[a]]
  BY DEF Ungroup
<1>2. /\ jobs' = [jobs EXCEPT ![h] = k] /\ UNCHANGED overlap
      /\ k \in Jobs /\ WellMeant(k)
      /\ k.op = "delete" /\ k.pc = j.pc /\ k.key = j.key /\ k.at = 2 /\ k.alone = j.alone
  BY <1>1, StepOf
<1>3. j.key \in Group /\ Positioned /\ inGroup \in [Tile -> Group \cup {Nothing}]
  BY <1>1, AtWork DEF WellMeant
<1>4. Positioned' /\ inGroup' \in [Tile -> Group \cup {Nothing}] /\ Ordering(h)'
  BY <1>1, <1>2, <1>3 DEF Positioned, Ordering
<1>5. j.pc # "done"
  BY DEF Running
<1>6. ASSUME ~ overlap PROVE j.alone /\ Shelved' /\ Finds(h)'
  <2>1. j.alone /\ Shelved /\ OnePlaceEach
    BY <1>1, <1>6, AtWork
  <2>2. Groups' = Groups /\ Nothing # j.key
    BY <1>1, <1>3, LauncherAssumption DEF Groups
  <2> HIDE DEF j
  <2>3. Shelved' /\ \A a \in Tile : inGroup'[a] # j.key
    BY <1>1, <2>1, <2>2 DEF Shelved
  <2>4. OnePlaceEach'
    BY <1>1, <2>1, <2>2 DEF OnePlaceEach
  <2> QED BY <1>2, <2>1, <2>3, <2>4 DEF Finds
<1> HIDE DEF j, k
<1> QED BY <1>2, <1>4, <1>5, <1>6, OneWrites DEF j

(* A position is written for every group, and then they differ.             *)
LEMMA WriteOneKeeps ==
  ASSUME LauncherInv, NEW h \in Admin, Running(h), WriteOrder(h), jobs[h].at <= Len(jobs[h].keys)
  PROVE  LauncherInv'
<1> DEFINE j == jobs[h]
           k == jobs'[h]
           g == j.keys[j.at]
<1>1. /\ j.op = "order" /\ Step(h) /\ inGroup' = inGroup
      /\ position' = [x \in Group |-> IF x = g /\ x \in Groups THEN j.at - 1 ELSE position[x]]
  <2>1. j \in Jobs
    BY AtWork
  <2>2. j.at \in Nat /\ Len(j.keys) \in Nat
    BY <2>1 DEF Jobs
  <2>3. ~ (j.at > Len(j.keys))
    BY <2>2
  <2> QED BY <2>3 DEF WriteOrder
<1>2. /\ jobs' = [jobs EXCEPT ![h] = k] /\ UNCHANGED overlap
      /\ k \in Jobs /\ WellMeant(k)
      /\ k.op = "order" /\ k.pc = j.pc /\ k.keys = j.keys /\ k.at = j.at + 1 /\ k.alone = j.alone
  BY <1>1, StepOf
<1>3. j \in Jobs /\ Positioned /\ inGroup \in [Tile -> Group \cup {Nothing}] /\ j.pc # "done"
  BY AtWork DEF Running
<1>4. j.at \in Nat \ {0} /\ j.keys \in Seq(Key) /\ j.alone \in BOOLEAN /\ j.at <= Len(j.keys)
  BY <1>3 DEF Jobs
<1>5. Ordering(h)
  BY DEF LauncherInv
<1>6. ~ overlap => j.alone /\ Shelved
  BY AtWork
<1> HIDE DEF j, k
<1>7. \A x \in Group : position'[x] = IF x = g /\ x \in Groups THEN j.at - 1 ELSE position[x]
  BY <1>1
<1>8. Positioned' /\ inGroup' \in [Tile -> Group \cup {Nothing}]
  BY <1>1, <1>3, <1>4, <1>7 DEF Positioned
<1>9. Groups' = Groups
  <2>1. j.at - 1 # Nothing
    BY <1>4, LauncherAssumption
  <2> HIDE DEF g
  <2> QED BY <1>7, <2>1 DEF Groups
<1>10. ASSUME j.alone
       PROVE  /\ Lists(j.keys)' /\ j.at + 1 <= Len(j.keys) + 1
              /\ \A i \in 1..j.at : position'[j.keys[i]] = i - 1
  <2> DEFINE n == Cardinality(Groups)
  <2>1. Lists(j.keys) /\ \A i \in 1..(j.at - 1) : position[j.keys[i]] = i - 1
    BY <1>1, <1>3, <1>5, <1>10 DEF Ordering, Written, j
  <2>2. /\ Len(j.keys) = n /\ n \in Nat /\ j.keys \in [1..n -> Groups]
        /\ \A x, y \in 1..n : j.keys[x] = j.keys[y] => x = y
    BY <2>1, ListsAreKeys, GroupsAreFinite DEF Lists
  <2> HIDE DEF n
  <2>3. j.at \in 1..n /\ g \in Groups
    BY <1>4, <2>2
  <2>4. position'[g] = j.at - 1
    BY <1>7, <2>3 DEF Groups
  <2>5. ASSUME NEW i \in 1..(j.at - 1) PROVE position'[j.keys[i]] = i - 1
    <3>1. i \in 1..n /\ i # j.at
      BY <2>3, <2>2
    <3>2. j.keys[i] # g /\ j.keys[i] \in Group
      BY <2>2, <2>3, <3>1 DEF Groups
    <3> HIDE DEF g
    <3>3. position'[j.keys[i]] = position[j.keys[i]]
      BY <1>7, <3>2
    <3> QED BY <2>1, <3>3
  <2>6. \A i \in 1..j.at : i = j.at \/ i \in 1..(j.at - 1)
    BY <1>4
  <2>7. \A i \in 1..j.at : position'[j.keys[i]] = i - 1
    BY <2>4, <2>5, <2>6
  <2>8. Cardinality(Groups)' = Cardinality(Groups)
    BY <1>9
  <2>9. Lists(j.keys)'
    BY <1>9, <2>1, <2>8, <1>2 DEF Lists, j
  <2> QED BY <1>4, <2>7, <2>9
<1> QED
  <2>1. Ordering(h)'
    <3> SUFFICES ASSUME k.alone
                 PROVE  /\ Lists(j.keys)' /\ k.at <= Len(k.keys) + 1
                        /\ \A i \in 1..(k.at - 1) : position'[k.keys[i]] = i - 1
      BY <1>2, <1>3 DEF Ordering, Written, j, k
    <3>1. j.alone /\ k.at - 1 = j.at
      BY <1>2, <1>4
    <3> QED BY <1>2, <1>10, <3>1
  <2>2. ~ overlap => Shelved' /\ Finds(h)'
    <3>1. ASSUME ~ overlap PROVE Shelved'
      BY <1>1, <1>6, <1>9, <3>1 DEF Shelved
    <3>2. Finds(h)'
      BY <1>2 DEF Finds, k
    <3> QED BY <3>1, <3>2
  <2>3. /\ k.alone => jobs[h].alone
        /\ ~ overlap /\ k.pc # "done" => k.alone
        /\ ~ (k.pc = "done")
    BY <1>2, <1>3, <1>6 DEF j
  <2> QED BY <1>2, <1>8, <2>1, <2>2, <2>3, OneWrites

LEMMA WriteLastKeeps ==
  ASSUME LauncherInv, NEW h \in Admin, Running(h), WriteOrder(h), ~ (jobs[h].at <= Len(jobs[h].keys))
  PROVE  LauncherInv'
<1> DEFINE j == jobs[h]
           k == [j EXCEPT !.pc = "done", !.at = 1]
<1>1. j \in Jobs /\ WellMeant(j) /\ jobs \in [Admin -> Jobs] /\ Positioned /\ j.pc # "done"
      /\ inGroup \in [Tile -> Group \cup {Nothing}] /\ (~ overlap => j.alone /\ Shelved)
  BY AtWork DEF Running
<1>2. j.at \in Nat \ {0} /\ Len(j.keys) \in Nat
  BY <1>1 DEF Jobs
<1>3. /\ j.op = "order" /\ jobs' = [jobs EXCEPT ![h] = k] /\ UNCHANGED overlap
      /\ position' = position /\ inGroup' = inGroup
  BY <1>2 DEF WriteOrder, Finish
<1>4. Ordering(h)
  BY DEF LauncherInv
<1> HIDE DEF j
<1>5. k \in Jobs
  <2> DEFINE m == [j EXCEPT !.pc = "done"]
  <2>1. m \in Jobs
    BY <1>1 DEF Jobs
  <2>2. k = [m EXCEPT !.at = 1]
    BY <1>1 DEF Jobs
  <2>3. 1 \in Nat \ {0}
    OBVIOUS
  <2> HIDE DEF m
  <2> QED BY <2>1, <2>2, <2>3 DEF Jobs
<1>6. k.op = "order" /\ k.pc = "done" /\ k.keys = j.keys /\ k.at = 1 /\ k.alone = j.alone
  BY <1>1, <1>3 DEF Jobs
<1> HIDE DEF k
<1>7. WellMeant(k)
  BY <1>6 DEF WellMeant
<1>8. Groups' = Groups /\ jobs'[h] = k
  BY <1>1, <1>3 DEF Groups
<1>9. ASSUME j.alone
      PROVE  Lists(j.keys) /\ \A i \in 1..Len(j.keys) : position[j.keys[i]] = i - 1
  <2>1. /\ Lists(j.keys) /\ j.at <= Len(j.keys) + 1
        /\ \A i \in 1..(j.at - 1) : position[j.keys[i]] = i - 1
    BY <1>1, <1>3, <1>4, <1>9 DEF Ordering, Written, j
  <2>2. j.at - 1 = Len(j.keys)
    BY <1>2, <2>1 DEF j
  <2> QED BY <2>1, <2>2
<1>10. Ordering(h)'
  <2> SUFFICES ASSUME j.alone
               PROVE  /\ Lists(jobs[h].keys)' /\ k.at <= Len(k.keys) + 1
                      /\ \A i \in 1..Len(k.keys) : position'[k.keys[i]] = i - 1
    BY <1>6, <1>8 DEF Ordering, Written
  <2>1. Lists(jobs[h].keys)'
    <3>1. jobs'[h].keys = jobs[h].keys
      BY <1>6, <1>8 DEF j
    <3>2. Lists(jobs[h].keys)
      BY <1>9 DEF j
    <3>3. Cardinality(Groups)' = Cardinality(Groups)
      BY <1>8
    <3> QED BY <1>8, <3>1, <3>2, <3>3 DEF Lists
  <2> QED BY <1>2, <1>3, <1>6, <1>9, <2>1 DEF j
<1>11. ASSUME ~ overlap PROVE Shelved' /\ OnePlaceEach'
  <2>1. /\ Lists(j.keys) /\ (\A i \in 1..Len(j.keys) : position[j.keys[i]] = i - 1)
        /\ Len(j.keys) = Cardinality(Groups)
    BY <1>1, <1>9, <1>11, ListsAreKeys
  <2>2. \A g \in Groups : \E i \in 1..Len(j.keys) : j.keys[i] = g /\ position[g] = i - 1
    BY <2>1 DEF Lists
  <2>3. \A f, g \in Groups : position[f] = position[g] => f = g
    <3> SUFFICES ASSUME NEW f \in Groups, NEW g \in Groups, position[f] = position[g] PROVE f = g
      OBVIOUS
    <3>1. PICK x \in 1..Len(j.keys) : j.keys[x] = f /\ position[f] = x - 1
      BY <2>2
    <3>2. PICK y \in 1..Len(j.keys) : j.keys[y] = g /\ position[g] = y - 1
      BY <2>2
    <3>3. x \in Int /\ y \in Int
      BY <1>2 DEF j
    <3>4. x - 1 = y - 1
      BY ONLY <3>1, <3>2, position[f] = position[g], Zenon
    <3>5. x = y
      BY <3>3, <3>4
    <3> QED BY <3>1, <3>2, <3>5
  <2> QED BY <1>1, <1>3, <1>8, <1>11, <2>3 DEF Shelved, OnePlaceEach
<1> QED
  <2>1. Finds(h)'
    BY <1>6, <1>8 DEF Finds, Running
  <2>2. Positioned' /\ inGroup' \in [Tile -> Group \cup {Nothing}]
    BY <1>1, <1>3 DEF Positioned
  <2>3. k.alone => jobs[h].alone
    BY <1>6 DEF j
  <2> QED BY <1>3, <1>5, <1>6, <1>7, <1>10, <1>11, <2>1, <2>2, <2>3, OneWrites

(* A step of the launcher keeps the invariant.                              *)
LEMMA LauncherKeeps == ASSUME LauncherInv, [LauncherNext]_launcherVars PROVE LauncherInv'
<1>1. CASE UNCHANGED launcherVars
  <2>1. position' = position /\ inGroup' = inGroup /\ jobs' = jobs /\ overlap' = overlap
    BY <1>1 DEF launcherVars
  <2>2. Groups' = Groups
    BY <2>1 DEF Groups
  <2>3. \A h \in Admin : (Running(h)' <=> Running(h)) /\ (Ordering(h)' <=> Ordering(h))
    BY <2>1, <2>2 DEF Running, Ordering, Written, Lists
  <2>4. OnePlaceEach' <=> OnePlaceEach
    BY <2>1, <2>2 DEF OnePlaceEach
  <2>5. \A h \in Admin : Finds(h)' <=> Finds(h)
    BY <2>1, <2>2, <2>3, <2>4 DEF Finds
  <2>6. LauncherTypes'
    BY <2>1 DEF LauncherInv, LauncherTypes, Positioned, WellMeant
  <2>7. Apart'
    BY <2>1, <2>3 DEF LauncherInv, Apart
  <2>8. InPlace'
    BY <2>1, <2>2, <2>3, <2>4, <2>5 DEF LauncherInv, InPlace, Shelved
  <2> QED BY <2>3, <2>6, <2>7, <2>8 DEF LauncherInv
<1>2. ASSUME NEW h \in Admin, NEW g \in Group, BeginCreate(h, g) \/ DeleteGroup(h, g) PROVE LauncherInv'
  BY <1>2, BeginCreateKeeps, DeleteGroupKeeps
<1>3. ASSUME NEW h \in Admin, NEW g \in Group, NEW dir \in Directions, MoveGroup(h, g, dir)
      PROVE  LauncherInv'
  BY <1>3, MoveGroupKeeps
<1>4. ASSUME NEW h \in Admin, NEW keys \in UNION {[1..n -> Group] : n \in 0..Cardinality(Group)},
             ReorderGroups(h, keys)
      PROVE  LauncherInv'
  <2>1. PICK n \in 0..Cardinality(Group) : keys \in [1..n -> Group]
    OBVIOUS
  <2>2. n \in Nat
    BY <2>1, FS_CardinalityType, LauncherAssumption
  <2> QED BY <1>4, <2>1, <2>2, ReorderGroupsKeeps
<1>5. ASSUME NEW h \in Admin, NEW a \in Tile, NEW g \in Group \cup {Nothing}, UpdateApp(h, a, g)
      PROVE  LauncherInv'
  BY <1>5, UpdateAppKeeps
<1>6. ASSUME NEW h \in Admin, Running(h),
             \/ ReadPositions(h) \/ ReadOrder(h) \/ InsertGroup(h) \/ WriteOrder(h)
             \/ Ungroup(h) \/ RemoveGroup(h) \/ Assign(h)
      PROVE  LauncherInv'
  BY <1>6, ReadPositionsKeeps, ReadOrderKeeps, InsertGroupKeeps, WriteOneKeeps, WriteLastKeeps, UngroupKeeps, RemoveGroupKeeps, AssignKeeps
<1> QED BY <1>1, <1>2, <1>3, <1>4, <1>5, <1>6 DEF LauncherNext

------------------------------------------------------------------------------
(* What the launcher draws.                                                 *)

(* The places of the tiles that name a group, and of those left over.       *)
In(tiles, g)        == {t \in DOMAIN tiles : inGroup[tiles[t]] = g}
LeftOver(tiles, list) == {t \in DOMAIN tiles : inGroup[tiles[t]] \notin Range(list)}
Filled(tiles, list) == {i \in DOMAIN list : In(tiles, list[i]) # {}}
Extra(tiles, list)  == IF LeftOver(tiles, list) = {} THEN 0 ELSE 1

(* The group, and the tiles' places, of the i-th section.                   *)
GroupAt(tiles, list, i) == list[Ascending(Filled(tiles, list))[i]]
KeyAt(tiles, list, i) ==
  IF i <= Cardinality(Filled(tiles, list)) THEN GroupAt(tiles, list, i) ELSE Nothing
TilesAt(tiles, list, i) ==
  IF i <= Cardinality(Filled(tiles, list)) THEN In(tiles, GroupAt(tiles, list, i))
  ELSE LeftOver(tiles, list)

(* A sequence, and one more.                                                *)
LEMMA OneMore ==
  ASSUME NEW full, NEW f \in Nat, Len(full) = f, full = [k \in 1..f |-> full[k]], NEW last
  PROVE  /\ DOMAIN Append(full, last) = 1..(f + 1)
         /\ \A i \in 1..(f + 1) : Append(full, last)[i] = IF i <= f THEN full[i] ELSE last
<1>1. IsSequence(full)
  BY DEF IsSequence
<1>2. /\ IsSequence(Append(full, last)) /\ Len(Append(full, last)) = f + 1
      /\ Append(full, last)[f + 1] = last /\ \A i \in 1..f : Append(full, last)[i] = full[i]
  BY <1>1, SequencesGrow
<1>3. DOMAIN Append(full, last) = 1..(f + 1)
  BY <1>2, SequencesGrow
<1>4. \A i \in 1..(f + 1) : (i <= f /\ i \in 1..f) \/ (i = f + 1 /\ ~ (i <= f))
  OBVIOUS
<1> HIDE DEF IsSequence
<1> QED BY ONLY <1>2, <1>3, <1>4

(* Whichever way it returns: the filled folders in the order of the list,   *)
(* then the rest if there is one.                                           *)
LEMMA SectionsAre ==
  ASSUME NEW tiles, NEW list, NEW n \in Nat, DOMAIN tiles = 1..n, tiles = [t \in 1..n |-> tiles[t]],
         NEW m \in Nat, DOMAIN list = 1..m
  PROVE  LET drawn == LauncherSections(tiles, list)  f == Cardinality(Filled(tiles, list)) IN
         /\ f \in Nat /\ f <= m /\ DOMAIN drawn = 1..(f + Extra(tiles, list))
         /\ \A i \in DOMAIN drawn :
              /\ drawn[i].key = KeyAt(tiles, list, i)
              /\ drawn[i].apps = Picked(tiles, TilesAt(tiles, list, i))
<1> DEFINE drawn == LauncherSections(tiles, list)
           F == Filled(tiles, list)
           f == Cardinality(F)
           R == LeftOver(tiles, list)
           a == Ascending(F)
           folders == [i \in DOMAIN list |-> Folder(tiles, list[i])]
           E == {i \in DOMAIN folders : folders[i].apps # <<>>}
           full == Picked(folders, E)
           rest == Rest(tiles, list)
           last == [key |-> Nothing, apps |-> rest]
           e == Extra(tiles, list)
           Empty(at) == Picked(tiles, at) = <<>>
<1>1. ASSUME NEW g
      PROVE  Folder(tiles, g).key = g /\ Folder(tiles, g).apps = Picked(tiles, In(tiles, g))
  BY DEF Folder, In
<1>2. \A at \in SUBSET (1..n) : Empty(at) <=> at = {}
  BY PickedPlaces
<1>3. \A g : In(tiles, g) \in SUBSET (1..n)
  BY DEF In
<1>4. E = F /\ DOMAIN folders = 1..m
  <2>1. DOMAIN folders = 1..m /\ \A i \in 1..m : folders[i].apps = Picked(tiles, In(tiles, list[i]))
    BY <1>1
  <2>2. \A i \in 1..m : folders[i].apps # <<>> <=> In(tiles, list[i]) # {}
    <3> SUFFICES ASSUME NEW i \in 1..m PROVE folders[i].apps # <<>> <=> In(tiles, list[i]) # {}
      OBVIOUS
    <3> DEFINE at == In(tiles, list[i])
    <3>1. folders[i].apps = Picked(tiles, at) /\ at \in SUBSET (1..n)
      BY <1>3, <2>1
    <3> HIDE DEF at, folders
    <3>2. Picked(tiles, at) = <<>> <=> at = {}
      BY <1>2, <3>1
    <3> QED BY <3>1, <3>2 DEF at
  <2> HIDE DEF folders
  <2> QED BY <2>1, <2>2 DEF Filled
<1>5. F \in SUBSET (1..m)
  BY DEF Filled
<1>6. rest = Picked(tiles, R) /\ R \in SUBSET (1..n)
  BY DEF Rest, LeftOver
<1>7. rest = <<>> <=> R = {}
  BY <1>2, <1>6
<1>8. \A i \in 1..m : folders[i].key = list[i] /\ folders[i].apps = Picked(tiles, In(tiles, list[i]))
  BY <1>1
<1>9. drawn = IF tiles = <<>> THEN <<>> ELSE IF full = <<>> THEN <<last>>
              ELSE IF rest = <<>> THEN full ELSE Append(full, last)
  BY DEF LauncherSections
<1>10. e = IF rest = <<>> THEN 0 ELSE 1
  BY <1>7 DEF Extra
<1>11. tiles # <<>> => 1 \in 1..n
  <2>1. CASE n = 0
    <3>1. tiles = [t \in {} |-> tiles[t]]
      BY <2>1
    <3> QED BY <3>1
  <2> QED BY <2>1
<1>12. tiles = <<>> => n = 0
  <2>1. ASSUME tiles = <<>> PROVE 1..n = {}
    BY <2>1
  <2> QED BY <2>1
<1>13. tiles = <<>> => R = {} /\ F = {}
  <2> SUFFICES ASSUME tiles = <<>> PROVE R = {} /\ F = {}
    OBVIOUS
  <2>1. \A t : t \notin DOMAIN tiles
    BY <1>12
  <2>2. \A g : In(tiles, g) = {}
    BY <2>1 DEF In
  <2> QED BY <2>1, <2>2 DEF LeftOver, Filled
<1>14. tiles # <<>> /\ F = {} => R # {}
  <2> SUFFICES ASSUME 1 \in 1..n, F = {} PROVE R # {}
    BY <1>11
  <2>1. \A i \in DOMAIN list : inGroup[tiles[1]] # list[i]
    BY DEF Filled, In
  <2>2. 1 \in R
    BY <2>1 DEF LeftOver, Range
  <2> QED BY <2>2
<1> HIDE DEF folders, E, R, rest, last, e, drawn
<1>15. full = Picked(folders, F)
  BY <1>4
<1> HIDE DEF F
<1>16. /\ f \in Nat /\ f <= m /\ Len(full) = f /\ DOMAIN full = 1..f /\ full = [k \in 1..f |-> full[k]]
       /\ \A k \in 1..f : a[k] \in F /\ full[k] = folders[a[k]]
       /\ full = <<>> <=> F = {}
  <2> DEFINE p == Picked(folders, F)
  <2>1. /\ f \in Nat /\ f <= m /\ Len(p) = f /\ DOMAIN p = 1..f /\ p = [k \in 1..f |-> p[k]]
        /\ \A k \in 1..f : a[k] \in F /\ p[k] = folders[a[k]]
        /\ p = <<>> <=> F = {}
    <3>1. DOMAIN folders = 1..m /\ F \in SUBSET (1..m)
      BY <1>4, <1>5
    <3> HIDE DEF p
    <3> QED BY ONLY <3>1, m \in Nat, PickedPlaces DEF p
  <2> HIDE DEF p, full
  <2> QED BY <2>1, <1>15 DEF p
<1>17. F = {} => f = 0
  BY FS_EmptySet
<1> HIDE DEF a, full, f
<1>18. ASSUME NEW k \in 1..f
       PROVE  full[k].key = KeyAt(tiles, list, k) /\ full[k].apps = Picked(tiles, TilesAt(tiles, list, k))
  <2>1. a[k] \in 1..m /\ k <= f
    BY <1>5, <1>16
  <2>2. list[a[k]] = GroupAt(tiles, list, k)
    BY DEF GroupAt, a, F
  <2>3. full[k].key = GroupAt(tiles, list, k) /\ full[k].apps = Picked(tiles, In(tiles, GroupAt(tiles, list, k)))
    BY <1>8, <1>16, <2>1, <2>2
  <2>4. KeyAt(tiles, list, k) = GroupAt(tiles, list, k) /\ TilesAt(tiles, list, k) = In(tiles, GroupAt(tiles, list, k))
    BY <2>1 DEF KeyAt, TilesAt, f, F
  <2> QED BY <2>3, <2>4
<1>19. last.key = KeyAt(tiles, list, f + 1) /\ last.apps = Picked(tiles, TilesAt(tiles, list, f + 1))
  <2>1. ~ (f + 1 <= f)
    BY <1>16
  <2>2. KeyAt(tiles, list, f + 1) = Nothing /\ TilesAt(tiles, list, f + 1) = R
    BY <2>1 DEF KeyAt, TilesAt, f, F, R
  <2> QED BY <1>6, <2>2 DEF last
<1>20. /\ DOMAIN drawn = 1..(f + e)
       /\ \A i \in 1..(f + e) : drawn[i] = IF i <= f THEN full[i] ELSE last
  <2>1. CASE tiles = <<>>
    <3>1. f = 0 /\ e = 0 /\ drawn = <<>>
      BY <1>7, <1>9, <1>10, <1>13, <1>17, <2>1
    <3> QED BY <3>1
  <2>2. CASE tiles # <<>> /\ full = <<>>
    <3>1. f = 0 /\ e = 1 /\ drawn = <<last>>
      BY <1>7, <1>9, <1>10, <1>14, <1>16, <1>17, <2>2
    <3> QED BY <3>1
  <2>3. CASE tiles # <<>> /\ full # <<>> /\ rest = <<>>
    <3>1. e = 0 /\ drawn = full
      BY <1>9, <1>10, <2>3
    <3>2. f + e = f /\ \A i \in 1..f : i <= f
      BY <1>16, <3>1
    <3> QED BY <1>16, <3>1, <3>2
  <2>4. CASE tiles # <<>> /\ full # <<>> /\ rest # <<>>
    <3>1. e = 1 /\ drawn = Append(full, last)
      BY <1>9, <1>10, <2>4
    <3> QED BY <1>16, <3>1, OneMore
  <2> QED BY <2>1, <2>2, <2>3, <2>4
<1>21. ASSUME NEW i \in 1..(f + e)
       PROVE  drawn[i].key = KeyAt(tiles, list, i) /\ drawn[i].apps = Picked(tiles, TilesAt(tiles, list, i))
  <2>1. i \in 1..f \/ (i = f + 1 /\ ~ (i <= f))
    BY <1>10, <1>16
  <2>2. i \in 1..f => i <= f
    BY <1>16
  <2> QED BY <1>18, <1>19, <1>20, <2>1, <2>2
<1> QED BY <1>16, <1>20, <1>21 DEF drawn, f, F, e

(* The groups that were read, in their order.                               *)
Shelf(read) == Picked(ListGroups, {i \in DOMAIN ListGroups : ListGroups[i] \in read})

LEMMA ShelfIs ==
  ASSUME Positioned, NEW read
  PROVE  \E m \in Nat :
           /\ DOMAIN Shelf(read) = 1..m /\ Range(Shelf(read)) = Groups \cap read
           /\ \A i \in 1..m : Shelf(read)[i] \in Groups
           /\ \A i, j \in 1..m : i < j => Before(Shelf(read)[i], Shelf(read)[j])
           /\ \A i, j \in 1..m : Shelf(read)[i] = Shelf(read)[j] => i = j
<1> DEFINE n == Cardinality(Groups)
           at == {i \in DOMAIN ListGroups : ListGroups[i] \in read}
           p == Picked(ListGroups, at)
           a == Ascending(at)
           m == Cardinality(at)
<1>1. n \in Nat /\ DOMAIN ListGroups = 1..n
  BY ListGroupsSorts, GroupsAreFinite
<1>2. /\ \A i \in 1..n : ListGroups[i] \in Groups
      /\ \A i, j \in 1..n : i < j => Before(ListGroups[i], ListGroups[j])
      /\ \A g \in Groups : \E i \in 1..n : ListGroups[i] = g
  BY <1>1, ListGroupsSorts DEF InOrder, Lists
<1>3. at \in SUBSET (1..n) /\ \A i \in 1..n : i \in at <=> ListGroups[i] \in read
  BY <1>1
<1> HIDE DEF n, at
<1>4. /\ m \in Nat /\ DOMAIN p = 1..m
      /\ \A k \in 1..m : a[k] \in at /\ p[k] = ListGroups[a[k]]
      /\ \A j, k \in 1..m : j < k => a[j] < a[k]
      /\ \A i \in at : \E k \in 1..m : a[k] = i /\ p[k] = ListGroups[i]
  <2> HIDE DEF p
  <2> QED BY ONLY <1>1, <1>3, PickedPlaces DEF p
<1>5. p = Shelf(read)
  BY DEF Shelf, at
<1> HIDE DEF p, a, m
<1>6. \A k \in 1..m : p[k] \in Groups \cap read
  BY <1>2, <1>3, <1>4
<1>7. \A g \in Groups \cap read : \E k \in 1..m : p[k] = g
  BY <1>2, <1>3, <1>4
<1>8. Range(p) = Groups \cap read
  <2>1. \A x : x \in Range(p) <=> \E k \in 1..m : p[k] = x
    BY <1>4 DEF Range
  <2> QED BY <1>6, <1>7, <2>1
<1>9. ASSUME NEW i \in 1..m, NEW j \in 1..m, i < j PROVE Before(p[i], p[j])
  <2>1. a[i] \in 1..n /\ a[j] \in 1..n /\ a[i] < a[j]
    BY <1>3, <1>4, <1>9
  <2> QED BY <1>2, <1>4, <2>1
<1>10. \A i, j \in 1..m : p[i] = p[j] => i = j
  <2> SUFFICES ASSUME NEW i \in 1..m, NEW j \in 1..m, p[i] = p[j], i # j PROVE FALSE
    OBVIOUS
  <2>1. i < j \/ j < i
    BY <1>4
  <2>2. Before(p[i], p[i])
    BY <1>9, <2>1
  <2> QED BY <1>6, <2>2, BeforeIsAnOrder
<1> QED BY <1>4, <1>5, <1>6, <1>8, <1>9, <1>10

(* A list of groups in their order; n places shared out over c sections;    *)
(* and the sections named by the groups of their tiles.                     *)
Sorted(list, m) ==
  /\ DOMAIN list = 1..m
  /\ \A i \in 1..m : list[i] # Nothing
  /\ \A i, j \in 1..m : i < j => Before(list[i], list[j])
  /\ \A i, j \in 1..m : list[i] = list[j] => i = j
Parts(n, c, S) ==
  /\ \A i \in 1..c : S[i] \in SUBSET (1..n) /\ S[i] # {}
  /\ \A t \in 1..n : \E i \in 1..c : t \in S[i]
  /\ \A i, j \in 1..c : S[i] \cap S[j] # {} => i = j
Keyed(tiles, list, c, S, key) ==
  /\ \A i \in 1..c : \A t \in S[i] :
       key[i] = IF inGroup[tiles[t]] \in Range(list) THEN inGroup[tiles[t]] ELSE Nothing
  /\ \A i, j \in 1..c : i < j => key[i] # Nothing /\ (key[j] # Nothing => Before(key[i], key[j]))

(* Every tile's place is in one section, and in no other: that of its group *)
(* if the list has it, else the last; the groups stay in the list's order.  *)
LEMMA SectionsPartition ==
  ASSUME NEW tiles, NEW list, NEW n \in Nat, DOMAIN tiles = 1..n, NEW m \in Nat, Sorted(list, m),
         NEW f \in Nat, f = Cardinality(Filled(tiles, list)), NEW c, c = f + Extra(tiles, list)
  PROVE  LET T == [i \in 1..c |-> TilesAt(tiles, list, i)]  key == [i \in 1..c |-> KeyAt(tiles, list, i)] IN
         Parts(n, c, T) /\ Keyed(tiles, list, c, T, key)
<1> USE DEF Sorted
<1> DEFINE F == Filled(tiles, list)
           a == Ascending(F)
           R == LeftOver(tiles, list)
           g(i) == GroupAt(tiles, list, i)
           S(i) == TilesAt(tiles, list, i)
           K(i) == KeyAt(tiles, list, i)
<1>1. F \in SUBSET (1..m) /\ F \in SUBSET Int /\ IsFiniteSet(F)
  <2>1. F \in SUBSET (1..m)
    BY DEF Filled
  <2>2. IsFiniteSet(1..m)
    BY FS_Interval
  <2> HIDE DEF F
  <2>3. IsFiniteSet(F)
    BY <2>1, <2>2, FS_Subset
  <2> QED BY <2>1, <2>3
<1>2. /\ \A k \in 1..f : a[k] \in F
      /\ \A x \in F : \E k \in 1..f : a[k] = x
      /\ \A j, k \in 1..f : j < k => a[j] < a[k]
  <2> HIDE DEF F
  <2>1. f = Cardinality(F)
    BY DEF F
  <2> QED BY <1>1, <2>1, AscendingPlaces, AscendingOrder
<1>3. \A k \in 1..f : a[k] \in 1..m /\ g(k) = list[a[k]] /\ In(tiles, g(k)) # {}
  BY <1>1, <1>2 DEF GroupAt, Filled
<1>4. /\ \A k \in 1..f : g(k) # Nothing /\ g(k) \in Range(list)
      /\ \A j, k \in 1..f : g(j) = g(k) => j = k
      /\ \A j, k \in 1..f : j < k => Before(g(j), g(k))
  <2> HIDE DEF g, a
  <2>1. \A j, k \in 1..f : j # k => a[j] # a[k]
    <3>1. \A j, k \in 1..f : j # k => j < k \/ k < j
      OBVIOUS
    <3>2. \A j \in 1..f : a[j] \in Int
      BY <1>3
    <3> QED BY <1>2, <3>1, <3>2
  <2>2. \A k \in 1..f : list[a[k]] \in Range(list)
    BY <1>3 DEF Range
  <2>3. \A k \in 1..f : g(k) # Nothing /\ g(k) \in Range(list)
    BY <1>3, <2>2
  <2>4. \A j, k \in 1..f : g(j) = g(k) => j = k
    BY <1>3, <2>1
  <2>5. ASSUME NEW j \in 1..f, NEW k \in 1..f, j < k PROVE Before(g(j), g(k))
    <3>1. a[j] < a[k]
      BY <1>2, <2>5
    <3> QED BY <1>3, <3>1
  <2> QED BY <2>3, <2>4, <2>5
<1>5. \A i \in 1..c : (i \in 1..f /\ i <= f) \/ (i = f + 1 /\ ~ (i <= f) /\ R # {})
  BY DEF Extra
<1>6. \A i \in 1..f : i \in 1..c /\ i <= f
  BY DEF Extra
<1>7. R # {} => f + 1 \in 1..c /\ ~ (f + 1 <= f)
  BY DEF Extra
<1>8. \A i : i <= f => S(i) = In(tiles, g(i)) /\ K(i) = g(i)
  BY DEF TilesAt, KeyAt
<1>9. \A i : ~ (i <= f) => S(i) = R /\ K(i) = Nothing
  BY DEF TilesAt, KeyAt
<1>10. /\ R \in SUBSET (1..n) /\ \A x : In(tiles, x) \in SUBSET (1..n)
       /\ \A t \in 1..n : t \in R <=> inGroup[tiles[t]] \notin Range(list)
       /\ \A x : \A t \in 1..n : t \in In(tiles, x) <=> inGroup[tiles[t]] = x
  BY DEF LeftOver, In
<1>11. ASSUME NEW t \in 1..n, inGroup[tiles[t]] \in Range(list)
       PROVE  \E k \in 1..f : inGroup[tiles[t]] = g(k)
  <2>1. PICK i \in 1..m : list[i] = inGroup[tiles[t]]
    BY <1>11 DEF Range
  <2>2. t \in In(tiles, list[i])
    BY <1>10, <2>1
  <2>3. i \in F
    BY <2>2 DEF Filled
  <2> QED BY <1>2, <1>3, <2>1, <2>3
<1> HIDE DEF F, a, R, g, S, K
<1>12. \A i \in 1..c : S(i) \in SUBSET (1..n) /\ S(i) # {}
  <2> SUFFICES ASSUME NEW i \in 1..c PROVE S(i) \in SUBSET (1..n) /\ S(i) # {}
    OBVIOUS
  <2>1. CASE i \in 1..f /\ i <= f
    BY <1>3, <1>8, <1>10, <2>1
  <2>2. CASE ~ (i <= f) /\ R # {}
    BY <1>9, <1>10, <2>2
  <2> QED BY <1>5, <2>1, <2>2
<1>13. ASSUME NEW t \in 1..n PROVE \E i \in 1..c : t \in S(i)
  <2>1. CASE inGroup[tiles[t]] \in Range(list)
    <3>1. PICK k \in 1..f : inGroup[tiles[t]] = g(k)
      BY <1>11, <2>1
    <3> QED BY <1>6, <1>8, <1>10, <3>1
  <2>2. CASE inGroup[tiles[t]] \notin Range(list)
    <3>1. t \in R
      BY <1>10, <2>2
    <3> QED BY <1>7, <1>9, <3>1
  <2> QED BY <2>1, <2>2
<1>14. ASSUME NEW i \in 1..c, NEW j \in 1..c, NEW t \in S(i), t \in S(j) PROVE i = j
  <2>0. t \in 1..n
    BY <1>12
  <2>1. CASE i \in 1..f /\ i <= f /\ j \in 1..f /\ j <= f
    <3>1. g(i) = g(j)
      BY <1>8, <1>10, <1>14, <2>0, <2>1
    <3> QED BY <1>4, <2>1, <3>1
  <2>2. CASE i \in 1..f /\ i <= f /\ ~ (j <= f)
    BY <1>4, <1>8, <1>9, <1>10, <1>14, <2>0, <2>2
  <2>3. CASE j \in 1..f /\ j <= f /\ ~ (i <= f)
    BY <1>4, <1>8, <1>9, <1>10, <1>14, <2>0, <2>3
  <2> QED BY <1>5, <2>1, <2>2, <2>3
<1>15. ASSUME NEW i \in 1..c, NEW t \in S(i)
       PROVE  K(i) = IF inGroup[tiles[t]] \in Range(list) THEN inGroup[tiles[t]] ELSE Nothing
  <2>0. t \in 1..n
    BY <1>12
  <2>1. CASE i \in 1..f /\ i <= f
    BY <1>4, <1>8, <1>10, <2>0, <2>1
  <2>2. CASE ~ (i <= f)
    BY <1>9, <1>10, <2>0, <2>2
  <2> QED BY <1>5, <2>1, <2>2
<1>16. ASSUME NEW i \in 1..c, NEW j \in 1..c, i < j
       PROVE  K(i) # Nothing /\ (K(j) # Nothing => Before(K(i), K(j)))
  <2>1. i \in 1..f /\ i <= f
    BY <1>5, <1>16
  <2>2. CASE j \in 1..f /\ j <= f
    BY <1>4, <1>8, <1>16, <2>1, <2>2
  <2>3. CASE ~ (j <= f)
    BY <1>4, <1>8, <1>9, <2>1, <2>3
  <2> QED BY <1>5, <2>1, <2>2, <2>3
<1>17. \A i, j \in 1..c : S(i) \cap S(j) # {} => i = j
  BY <1>14
<1> DEFINE T == [i \in 1..c |-> S(i)]
           key == [i \in 1..c |-> K(i)]
<1>18. \A i \in 1..c : T[i] = S(i) /\ key[i] = K(i)
  OBVIOUS
<1> HIDE DEF T, key
<1>19. Parts(n, c, T)
  <2>1. \A i \in 1..c : T[i] \in SUBSET (1..n) /\ T[i] # {}
    BY ONLY <1>12, <1>18
  <2>2. \A t \in 1..n : \E i \in 1..c : t \in T[i]
    BY ONLY <1>13, <1>18
  <2>3. \A i, j \in 1..c : T[i] \cap T[j] # {} => i = j
    BY ONLY <1>17, <1>18
  <2> QED BY ONLY <2>1, <2>2, <2>3 DEF Parts
<1>20. Keyed(tiles, list, c, T, key)
  BY <1>15, <1>16, <1>18 DEF Keyed
<1> QED BY <1>19, <1>20 DEF T, key, S, K

(* The members of may in ascending order; and each of them at one place of  *)
(* the sections, in that order.                                             *)
Counts(n, tiles, may) ==
  /\ DOMAIN tiles = 1..n /\ may \in SUBSET Int
  /\ \A t \in 1..n : tiles[t] \in may
  /\ \A x \in may : \E t \in 1..n : tiles[t] = x
  /\ \A s, t \in 1..n : s < t => tiles[s] < tiles[t]
ShownOnce(tiles, may, c, apps, S) ==
  /\ \A i \in 1..c : apps[i] # <<>>
  /\ \A i \in 1..c : \A k \in DOMAIN apps[i] : \E t \in S[i] : apps[i][k] = tiles[t] /\ apps[i][k] \in may
  /\ \A x \in may : \E i \in 1..c : \E k \in DOMAIN apps[i] : apps[i][k] = x
  /\ \A i, j \in 1..c : \A k \in DOMAIN apps[i] : \A l \in DOMAIN apps[j] :
       apps[i][k] = apps[j][l] => i = j /\ k = l
  /\ \A i \in 1..c : \A k, l \in DOMAIN apps[i] : k < l => apps[i][k] < apps[i][l]

(* Sections that share out the places of tiles show each tile once, in the  *)
(* order of the tiles.                                                      *)
LEMMA SharedOut ==
  ASSUME NEW n \in Nat, NEW tiles, NEW may, Counts(n, tiles, may), NEW c, NEW S, Parts(n, c, S),
         NEW apps, DOMAIN apps = 1..c, \A i \in 1..c : apps[i] = Picked(tiles, S[i])
  PROVE  ShownOnce(tiles, may, c, apps, S)
<1> USE DEF Counts, Parts
<1> DEFINE a(i) == Ascending(S[i])
           At(i, k) == apps[i][k]
           m(i) == Cardinality(S[i])
<1>1. ASSUME NEW i \in 1..c
      PROVE  /\ m(i) \in Nat /\ DOMAIN apps[i] = 1..m(i)
             /\ \A k \in DOMAIN apps[i] : a(i)[k] \in S[i] /\ At(i, k) = tiles[a(i)[k]]
             /\ \A k, l \in DOMAIN apps[i] : k < l => a(i)[k] < a(i)[l]
             /\ \A t \in S[i] : \E k \in DOMAIN apps[i] : a(i)[k] = t /\ At(i, k) = tiles[t]
             /\ apps[i] # <<>>
  <2> DEFINE at == S[i]
  <2>1. at \in SUBSET (1..n) /\ at # {} /\ apps[i] = Picked(tiles, at)
    OBVIOUS
  <2> HIDE DEF at
  <2> DEFINE p == Picked(tiles, at)
  <2>2. /\ Cardinality(at) \in Nat /\ DOMAIN p = 1..Cardinality(at)
        /\ \A k \in 1..Cardinality(at) : Ascending(at)[k] \in at /\ p[k] = tiles[Ascending(at)[k]]
        /\ \A j, k \in 1..Cardinality(at) : j < k => Ascending(at)[j] < Ascending(at)[k]
        /\ \A t \in at : \E k \in 1..Cardinality(at) : Ascending(at)[k] = t /\ p[k] = tiles[t]
        /\ (p = <<>>) <=> (at = {})
    <3> HIDE DEF p
    <3> QED BY ONLY <2>1, n \in Nat, DOMAIN tiles = 1..n, PickedPlaces DEF p
  <2> HIDE DEF p
  <2>3. p = apps[i]
    BY <2>1 DEF p
  <2> QED BY <2>1, <2>2, <2>3 DEF at
<1> HIDE DEF a, m, At
<1>2. \A i \in 1..c : \A k \in DOMAIN apps[i] : a(i)[k] \in 1..n
  BY <1>1
<1>3. \A s, t \in 1..n : tiles[s] = tiles[t] => s = t
  <2>1. \A s \in 1..n : tiles[s] \in Int
    OBVIOUS
  <2>2. \A s, t \in 1..n : s = t \/ s < t \/ t < s
    OBVIOUS
  <2> QED BY <2>1, <2>2
<1>4. ASSUME NEW i \in 1..c, NEW k \in DOMAIN apps[i]
      PROVE  \E t \in S[i] : At(i, k) = tiles[t] /\ At(i, k) \in may
  <2>1. a(i)[k] \in S[i] /\ At(i, k) = tiles[a(i)[k]]
    BY <1>1
  <2>2. tiles[a(i)[k]] \in may
    BY <1>2
  <2> QED BY <2>1, <2>2
<1>5. ASSUME NEW x \in may PROVE \E i \in 1..c : \E k \in DOMAIN apps[i] : At(i, k) = x
  <2>1. PICK t \in 1..n : tiles[t] = x
    OBVIOUS
  <2>2. PICK i \in 1..c : t \in S[i]
    OBVIOUS
  <2> QED BY <1>1, <2>1, <2>2
<1>6. ASSUME NEW i \in 1..c, NEW j \in 1..c, NEW k \in DOMAIN apps[i], NEW l \in DOMAIN apps[j],
             At(i, k) = At(j, l)
      PROVE  i = j /\ k = l
  <2>0. a(i)[k] \in S[i] /\ At(i, k) = tiles[a(i)[k]] /\ a(j)[l] \in S[j] /\ At(j, l) = tiles[a(j)[l]]
    BY <1>1
  <2>1. a(i)[k] = a(j)[l]
    <3>1. a(i)[k] \in 1..n /\ a(j)[l] \in 1..n
      BY <1>2
    <3> QED BY ONLY <2>0, <3>1, <1>3, <1>6
  <2>2. i = j
    <3>1. S[i] \cap S[j] # {}
      BY ONLY <2>0, <2>1
    <3> QED BY <3>1
  <2>3. k < l \/ l < k \/ k = l
    BY <1>1, <2>2
  <2>4. k = l
    BY <1>1, <1>2, <2>1, <2>2, <2>3
  <2> QED BY <2>2, <2>4
<1>7. ASSUME NEW i \in 1..c, NEW k \in DOMAIN apps[i], NEW l \in DOMAIN apps[i], k < l
      PROVE  At(i, k) < At(i, l)
  <2>1. a(i)[k] < a(i)[l] /\ a(i)[k] \in 1..n /\ a(i)[l] \in 1..n
    BY <1>1, <1>2, <1>7
  <2> QED BY <1>1, <2>1
<1> QED BY <1>1, <1>4, <1>5, <1>6, <1>7 DEF At, ShownOnce

(* So whatever the sections are, every tile that may be seen is in one.     *)
LEMMA EveryAppIsShown == Positioned => LauncherShowsEveryApp
<1> SUFFICES ASSUME Positioned, NEW may \in SUBSET Tile, NEW read \in SUBSET Group
    PROVE  LET drawn == LauncherSections(Ascending(may), Shelf(read))
               places == UNION {{<<i, k>> : k \in DOMAIN drawn[i].apps} : i \in DOMAIN drawn}
               TileAt(p) == drawn[p[1]].apps[p[2]]
           IN /\ \A p \in places : TileAt(p) \in may
              /\ \A x \in may : \E p \in places : TileAt(p) = x
              /\ \A p, q \in places : TileAt(p) = TileAt(q) => p = q
              /\ \A p, q \in places : p[1] = q[1] /\ p[2] < q[2] => TileAt(p) < TileAt(q)
              /\ \A i \in DOMAIN drawn : drawn[i].apps # <<>>
              /\ \A i, j \in DOMAIN drawn : i < j =>
                   /\ drawn[i].key # Nothing
                   /\ drawn[j].key # Nothing => Before(drawn[i].key, drawn[j].key)
              /\ \A p \in places :
                   drawn[p[1]].key = IF inGroup[TileAt(p)] \in Groups \cap read THEN inGroup[TileAt(p)] ELSE Nothing
  BY DEF LauncherShowsEveryApp, Shelf
<1> DEFINE tiles == Ascending(may)
           list == Shelf(read)
           drawn == LauncherSections(tiles, list)
           n == Cardinality(may)
           f == Cardinality(Filled(tiles, list))
           c == f + Extra(tiles, list)
           S(i) == TilesAt(tiles, list, i)
           places == UNION {{<<i, k>> : k \in DOMAIN drawn[i].apps} : i \in DOMAIN drawn}
           TileAt(p) == drawn[p[1]].apps[p[2]]
<1>1. may \in SUBSET Int /\ IsFiniteSet(may)
  <2>1. may \in SUBSET (Group \cup Tile)
    OBVIOUS
  <2> QED BY <2>1, FS_Subset, LauncherAssumption
<1>2. DOMAIN tiles = 1..n /\ tiles = [t \in 1..n |-> tiles[t]]
  BY DEF Ascending
<1>3. /\ n \in Nat /\ \A t \in 1..n : tiles[t] \in may
      /\ \A x \in may : \E t \in 1..n : tiles[t] = x
      /\ \A s, t \in 1..n : s < t => tiles[s] < tiles[t]
  BY <1>1, AscendingPlaces, AscendingOrder
<1>4. PICK m \in Nat :
        /\ DOMAIN list = 1..m /\ Range(list) = Groups \cap read
        /\ \A i \in 1..m : list[i] \in Groups
        /\ \A i, j \in 1..m : i < j => Before(list[i], list[j])
        /\ \A i, j \in 1..m : list[i] = list[j] => i = j
  BY ShelfIs
<1>5. Sorted(list, m)
  BY <1>4, LauncherAssumption DEF Groups, Sorted
<1> HIDE DEF tiles, list, n
<1>6. /\ f \in Nat /\ DOMAIN drawn = 1..c
      /\ \A i \in 1..c : drawn[i].key = KeyAt(tiles, list, i) /\ drawn[i].apps = Picked(tiles, TilesAt(tiles, list, i))
  BY <1>2, <1>3, <1>4, SectionsAre
<1>7. f = Cardinality(Filled(tiles, list)) /\ c = f + Extra(tiles, list)
  OBVIOUS
<1> HIDE DEF drawn, c, f
<1> DEFINE apps == [i \in 1..c |-> drawn[i].apps]
           T == [i \in 1..c |-> TilesAt(tiles, list, i)]
           key == [i \in 1..c |-> KeyAt(tiles, list, i)]
<1>8. Parts(n, c, T) /\ Keyed(tiles, list, c, T, key)
  BY <1>2, <1>3, <1>5, <1>6, <1>7, SectionsPartition
<1>9. /\ DOMAIN apps = 1..c
      /\ \A i \in 1..c : apps[i] = Picked(tiles, T[i]) /\ apps[i] = drawn[i].apps /\ key[i] = drawn[i].key
  BY <1>6
<1> HIDE DEF apps, T, key
<1>10. ShownOnce(tiles, may, c, apps, T)
  <2>1. Counts(n, tiles, may)
    BY <1>1, <1>2, <1>3 DEF Counts
  <2> QED BY <1>3, <1>8, <1>9, <2>1, SharedOut
<1>11. \A p : p \in places <=> \E i \in 1..c : \E k \in DOMAIN apps[i] : p = <<i, k>>
  BY <1>6, <1>9
<1>12. \A i \in 1..c : \A k \in DOMAIN apps[i] : <<i, k>> \in places /\ TileAt(<<i, k>>) = apps[i][k]
  BY <1>9, <1>11
<1> HIDE DEF places, TileAt
<1>13. \A p \in places : p[1] \in 1..c /\ p[2] \in DOMAIN apps[p[1]] /\ p = <<p[1], p[2]>>
                         /\ TileAt(p) = apps[p[1]][p[2]]
  BY <1>11, <1>12
<1>14. \A p \in places : TileAt(p) \in may
  BY <1>13, <1>10 DEF ShownOnce
<1>15. ASSUME NEW x \in may PROVE \E p \in places : TileAt(p) = x
  <2>1. PICK i \in 1..c : \E k \in DOMAIN apps[i] : apps[i][k] = x
    BY <1>10 DEF ShownOnce
  <2>2. PICK k \in DOMAIN apps[i] : apps[i][k] = x
    BY <2>1
  <2>3. <<i, k>> \in places /\ TileAt(<<i, k>>) = x
    BY <1>12, <2>2
  <2> QED BY <2>3
<1>16. \A p, q \in places : TileAt(p) = TileAt(q) => p = q
  BY <1>13, <1>10 DEF ShownOnce
<1>17. \A p, q \in places : p[1] = q[1] /\ p[2] < q[2] => TileAt(p) < TileAt(q)
  BY <1>13, <1>10 DEF ShownOnce
<1>18. \A i \in DOMAIN drawn : drawn[i].apps # <<>>
  BY <1>6, <1>9, <1>10 DEF ShownOnce
<1>19. \A i, j \in DOMAIN drawn : i < j =>
         /\ drawn[i].key # Nothing
         /\ drawn[j].key # Nothing => Before(drawn[i].key, drawn[j].key)
  BY <1>6, <1>8, <1>9 DEF Keyed
<1>20. ASSUME NEW p \in places
       PROVE  drawn[p[1]].key = IF inGroup[TileAt(p)] \in Groups \cap read THEN inGroup[TileAt(p)] ELSE Nothing
  <2>1. PICK t \in T[p[1]] : TileAt(p) = tiles[t]
    BY <1>13, <1>10 DEF ShownOnce
  <2>2. key[p[1]] = IF inGroup[tiles[t]] \in Range(list) THEN inGroup[tiles[t]] ELSE Nothing
    BY <1>8, <1>13 DEF Keyed
  <2> QED BY <1>4, <1>9, <1>13, <2>1, <2>2
<1> QED BY <1>14, <1>15, <1>16, <1>17, <1>18, <1>19, <1>20 DEF places, TileAt, drawn, tiles, list

(* For any number of groups, apps and administrators, whatever groups there *)
(* are and whichever of them were read: the launcher draws every tile that  *)
(* the user may see and no other, each once, in the section of its group or *)
(* else the last, the groups and the tiles in their order.                  *)
THEOREM EveryAppHasItsTile == LauncherInit /\ [][LauncherNext]_launcherVars => []LauncherShowsEveryApp
<1>1. LauncherInit => LauncherInv
  BY LauncherInitially
<1>2. LauncherInv /\ [LauncherNext]_launcherVars => LauncherInv'
  BY LauncherKeeps
<1>3. LauncherInv => LauncherShowsEveryApp
  BY EveryAppIsShown DEF LauncherInv, LauncherTypes
<1> QED BY <1>1, <1>2, <1>3, PTL

(* What the invariant says of an order that was asked for.                  *)
LEMMA AskedOrderStands == LauncherInv => OrderIsAsked
<1> SUFFICES ASSUME LauncherInv PROVE OrderIsAsked
  OBVIOUS
<1>1. Positioned /\ jobs \in [Admin -> Jobs]
  BY DEF LauncherInv, LauncherTypes
<1>2. ASSUME NEW h \in Admin, jobs[h].op = "order", ~ Running(h), jobs[h].alone
      PROVE  ListGroups = jobs[h].keys
  <2> DEFINE keys == jobs[h].keys
             n == Cardinality(Groups)
  <2>1. Lists(keys) /\ \A i \in 1..Len(keys) : position[keys[i]] = i - 1
    BY <1>2 DEF LauncherInv, Ordering, Written, Running
  <2>2. Len(keys) = n /\ keys \in [1..n -> Groups] /\ n \in Nat
    BY <2>1, ListsAreKeys, GroupsAreFinite DEF Lists
  <2> HIDE DEF keys, n
  <2>3. DOMAIN keys = 1..n /\ \A i \in 1..n : position[keys[i]] = i - 1
    BY <2>1, <2>2
  <2>4. InOrder(keys)
    BY <2>2, <2>3 DEF InOrder, Before
  <2>5. ListGroups = keys
    BY <1>1, <2>2, <2>4, TheSortedList DEF n
  <2> QED BY <2>5 DEF keys
<1>3. ~ overlap /\ (\A h \in Admin : ~ Running(h)) => OnePlaceEach /\ Shelved
  BY DEF LauncherInv, InPlace
<1> QED BY <1>2, <1>3 DEF OrderIsAsked, OnePlaceEach, Shelved

(* For any number of groups, apps and administrators: an order that was     *)
(* asked for while no other handler was at work is the order there is; and  *)
(* as long as none has overlapped with another, no two groups share a       *)
(* position and no app names a group that is gone.                          *)
THEOREM OrderStands == LauncherInit /\ [][LauncherNext]_launcherVars => []OrderIsAsked
<1>1. LauncherInit => LauncherInv
  BY LauncherInitially
<1>2. LauncherInv /\ [LauncherNext]_launcherVars => LauncherInv'
  BY LauncherKeeps
<1>3. LauncherInv => OrderIsAsked
  BY AskedOrderStands
<1> QED BY <1>1, <1>2, <1>3, PTL

------------------------------------------------------------------------------
(* The demo.                                                                *)

(* Session s is of a sign-in that has yet to arm the reset.                 *)
Arming(s) == signin[s.who].pc = "arm" /\ signin[s.who].id = s.id

DemoShaped ==
  /\ signin = [p \in Persona |-> signin[p]] /\ \A p \in Persona : DOMAIN signin[p] = {"pc", "id"}
  /\ \A s \in sessions : s.who \in Persona /\ s = [who |-> s.who, id |-> s.id]
  /\ resetting \in Nat
  /\ serving \in BOOLEAN /\ timer \in BOOLEAN /\ resetAt \in BOOLEAN

(* An idle process that says it is armed has a timer; and what a reset will *)
(* no longer wipe is armed when it is idle again, or ended in the reset.    *)
TimerOfArmed == serving /\ resetting = 0 /\ resetAt => timer
EndInSight   == serving /\ resetting = 0 => \A s \in sessions : s \in overlapped \/ timer \/ Arming(s)
PastTheWipe  == resetting > 1 => \A s \in sessions : s \in overlapped \/ Arming(s)

DemoInv == DemoShaped /\ TimerOfArmed /\ EndInSight /\ PastTheWipe

LEMMA DemoInitially == DemoInit => DemoInv
<1> SUFFICES ASSUME DemoInit PROVE DemoInv
  OBVIOUS
<1>1. signin = [p \in Persona |-> signin[p]] /\ \A p \in Persona : DOMAIN signin[p] = {"pc", "id"}
  BY DEF DemoInit, Away
<1>2. sessions = {} /\ resetting = 0 /\ serving = FALSE /\ timer = FALSE /\ resetAt = FALSE
  BY DEF DemoInit
<1> QED BY <1>1, <1>2 DEF DemoInv, DemoShaped, TimerOfArmed, EndInSight, PastTheWipe

------------------------------------------------------------------------------
(* The reset wipes the sessions first; those of later sign-ins it finds     *)
(* armed in vain, or about to arm.                                          *)

LEMMA ResettingKeeps ==
  ASSUME DemoInv, Fire \/ Boot \/ Wipe \/ Seed \/ EndReset
  PROVE  DemoInv'
<1> USE DEF DemoInv, DemoShaped, TimerOfArmed, EndInSight, PastTheWipe, Arming
<1>1. CASE Fire \/ Boot
  <2>1. /\ UNCHANGED <<sessions, resetAt, serving, signin>>
        /\ resetting' = 1 /\ timer' = FALSE
    BY <1>1 DEF Fire, Boot, BeginReset
  <2>2. DemoShaped'
    BY <2>1
  <2>3. TimerOfArmed' /\ EndInSight' /\ PastTheWipe'
    BY <2>1
  <2> QED BY <2>2, <2>3
<1>2. CASE Wipe
  <2>1. /\ UNCHANGED <<resetAt, timer, serving, signin>> /\ resetting' = resetting + 1
        /\ resetting > 0
    BY <1>2 DEF Wipe, AllCollections
  <2>2. CASE AllCollections[resetting] = "sessions"
    BY <1>2, <2>1, <2>2 DEF Wipe
  <2>3. CASE AllCollections[resetting] # "sessions"
    <3>1. resetting # 1 /\ sessions' = sessions /\ overlapped' = overlapped
      BY <1>2, <2>3 DEF Wipe, AllCollections
    <3> QED BY <2>1, <3>1
  <2> QED BY <2>2, <2>3
<1>3. CASE Seed
  <2>1. /\ UNCHANGED <<resetAt, timer, serving, signin, sessions, overlapped>>
        /\ resetting' = resetting + 1 /\ resetting > 1
    BY <1>3 DEF Seed, AllCollections, Seeds
  <2> QED BY <2>1
<1>4. CASE EndReset
  <2>1. /\ UNCHANGED <<signin, sessions, overlapped>> /\ resetting > 1
        /\ resetting' = 0 /\ resetAt' = FALSE /\ timer' = FALSE /\ serving' = TRUE
    BY <1>4 DEF EndReset, AllCollections, Seeds
  <2> QED BY <2>1
<1> QED BY <1>1, <1>2, <1>3, <1>4

(* A sign-in that is not at its last step has no session that counts on it. *)
LEMMA SigningInKeeps ==
  ASSUME DemoInv, NEW p \in Persona, SignIn(p) \/ Heal(p)
  PROVE  DemoInv'
<1>1. /\ signin[p].pc # "arm"
      /\ UNCHANGED <<sessions, resetAt, timer, resetting, serving, overlapped>>
  BY DEF SignIn, Heal
<1>2. PICK new : /\ signin' = [signin EXCEPT ![p] = new]
                 /\ DOMAIN new = {"pc", "id"}
  BY DEF SignIn, Heal, LookedUp, Away, DemoInv, DemoShaped
<1>3. signin'[p] = new /\ \A q \in Persona \ {p} : signin'[q] = signin[q]
  BY <1>2 DEF DemoInv, DemoShaped
<1>4. DemoShaped'
  BY <1>1, <1>2, <1>3 DEF DemoInv, DemoShaped
<1>5. \A s \in sessions : Arming(s) => Arming(s)'
  BY <1>1, <1>3 DEF DemoInv, DemoShaped, Arming
<1> QED BY <1>1, <1>4, <1>5 DEF DemoInv, TimerOfArmed, EndInSight, PastTheWipe

LEMMA MintingKeeps ==
  ASSUME DemoInv, NEW p \in Persona, Mint(p)
  PROVE  DemoInv'
<1> DEFINE new == [who |-> p, id |-> signin[p].id]
<1>1. /\ signin[p].pc = "mint" /\ sessions' = sessions \cup {new}
      /\ signin' = [signin EXCEPT ![p] = [signin[p] EXCEPT !.pc = "arm"]]
      /\ UNCHANGED <<resetAt, timer, resetting, serving, overlapped>>
  BY DEF Mint
<1>2. /\ signin'[p].pc = "arm" /\ signin'[p].id = signin[p].id /\ DOMAIN signin'[p] = {"pc", "id"}
      /\ \A q \in Persona \ {p} : signin'[q] = signin[q]
  BY <1>1 DEF DemoInv, DemoShaped
<1>3. DemoShaped'
  BY <1>1, <1>2 DEF DemoInv, DemoShaped
<1>4. Arming(new)' /\ \A s \in sessions : Arming(s) => Arming(s)'
  BY <1>1, <1>2 DEF DemoInv, DemoShaped, Arming
<1> QED BY <1>1, <1>3, <1>4 DEF DemoInv, TimerOfArmed, EndInSight, PastTheWipe

(* The sign-in arms: the timer of an idle process, or the history.          *)
LEMMA ArmingKeeps ==
  ASSUME DemoInv, NEW p \in Persona, ArmReset(p)
  PROVE  DemoInv'
<1> DEFINE mine == [who |-> p, id |-> signin[p].id]
<1>1. /\ signin' = [signin EXCEPT ![p] = Away] /\ resetAt' = TRUE /\ timer' = (timer \/ ~ resetAt)
      /\ overlapped' = IF resetting = 0 THEN overlapped \ {mine} ELSE overlapped \cup {mine}
      /\ UNCHANGED <<sessions, resetting, serving>>
  BY DEF ArmReset
<1>2. \A q \in Persona \ {p} : signin'[q] = signin[q]
  BY <1>1 DEF DemoInv, DemoShaped
<1>3. DemoShaped'
  BY <1>1 DEF DemoInv, DemoShaped, Away
<1>4. \A s \in sessions : Arming(s) => Arming(s)' \/ s = mine
  BY <1>2 DEF DemoInv, DemoShaped, Arming
<1>5. serving /\ resetting = 0 => timer'
  BY <1>1 DEF DemoInv, DemoShaped, TimerOfArmed
<1>6. PastTheWipe'
  BY <1>1, <1>4 DEF DemoInv, DemoShaped, PastTheWipe
<1> QED BY <1>1, <1>3, <1>5, <1>6 DEF DemoInv, TimerOfArmed, EndInSight

LEMMA VisitsKeep ==
  ASSUME DemoInv,
         \/ BeginWrite \/ \E p \in Persona, op \in {"disable", "delete"} : BeginOn(p, op)
         \/ \E c : VisitorWrite(c)
         \/ \E s \in sessions : Logout(s)
         \/ DisablePersona \/ DeletePersona
  PROVE  DemoInv'
<1>1. /\ sessions' \subseteq sessions
      /\ UNCHANGED <<resetAt, timer, resetting, serving, signin, overlapped>>
  BY DEF BeginWrite, BeginOn, Begin, VisitorWrite, Logout, DisablePersona, DeletePersona, EndSessions
<1> QED BY <1>1 DEF DemoInv, DemoShaped, TimerOfArmed, EndInSight, PastTheWipe, Arming

LEMMA CrashKeeps == DemoInv /\ Crash => DemoInv'
<1> SUFFICES ASSUME DemoInv, Crash PROVE DemoInv'
  OBVIOUS
<1>1. /\ signin' = [p \in Persona |-> signin'[p]]
      /\ \A p \in Persona : DOMAIN signin'[p] = {"pc", "id"}
  BY DEF Crash, Away
<1>2. /\ sessions' = sessions /\ resetting' = 0
      /\ serving' = FALSE /\ timer' = FALSE /\ resetAt' = FALSE
  BY DEF Crash
<1>3. DemoShaped'
  BY <1>1, <1>2 DEF DemoInv, DemoShaped
<1>4. TimerOfArmed' /\ EndInSight' /\ PastTheWipe'
  BY <1>2 DEF TimerOfArmed, EndInSight, PastTheWipe
<1> QED BY <1>3, <1>4 DEF DemoInv

LEMMA DemoStepKeeps == DemoInv /\ [DemoNext]_demoVars => DemoInv'
<1> SUFFICES ASSUME DemoInv, [DemoNext]_demoVars PROVE DemoInv'
  OBVIOUS
<1>1. CASE Fire \/ ResetStep
  BY <1>1, ResettingKeeps DEF ResetStep
<1>2. ASSUME NEW p \in Persona, SignIn(p) \/ Heal(p) \/ Mint(p) \/ ArmReset(p) PROVE DemoInv'
  BY <1>2, SigningInKeeps, MintingKeeps, ArmingKeeps
<1>3. CASE \/ BeginWrite \/ \E p \in Persona, op \in {"disable", "delete"} : BeginOn(p, op)
           \/ \E c : VisitorWrite(c)
           \/ \E s \in sessions : Logout(s)
           \/ DisablePersona \/ DeletePersona
  BY <1>3, VisitsKeep
<1>4. CASE Crash
  BY <1>4, CrashKeeps
<1>5. CASE UNCHANGED demoVars
  BY <1>5 DEF demoVars, DemoInv, DemoShaped, TimerOfArmed, EndInSight, PastTheWipe, Arming
<1> QED BY <1>1, <1>2, <1>3, <1>4, <1>5 DEF DemoNext

(* For any personas, and wherever sign-ins, resets and crashes cut into each*)
(* other: an idle demo with a session in it has its reset armed, or is about*)
(* to, unless that session's sign-in ended while a reset was under way.     *)
THEOREM SessionsHaveAnEnd == DemoSpec => []SignedInMeansArmed
<1>1. DemoInv => SignedInMeansArmed
  BY DEF DemoInv, DemoShaped, EndInSight, Arming, SignedInMeansArmed
<1> QED BY DemoInitially, DemoStepKeeps, <1>1, PTL DEF DemoSpec

------------------------------------------------------------------------------
(* What a reset leaves.                                                     *)

(* The reset has yet to wipe c; or it has seeded c, as has the last one.    *)
Ahead(c)  == resetting > 0 /\ \E i \in DOMAIN AllCollections : i >= resetting /\ AllCollections[i] = c
Seeded(c) ==
  \E i \in DOMAIN Seeds : Seeds[i] = c /\ (resetting = 0 \/ i < resetting - Len(AllCollections))

(* In a store that the process serves, or resets, a collection that no      *)
(* visitor has written since, and that the reset need not reach any more,   *)
(* holds nothing but what is seeded; and that, once it has been seeded.  So *)
(* do the personas.                                                         *)
Kept    == serving \/ resetting > 0
Clean(c) == c \notin late /\ ~ Ahead(c)
NothingElse ==
  Kept => \A c \in Collections \ {"appGroups"} : Clean(c) => docs[c] \subseteq SeedOf(c)
SeedThere ==
  Kept => \A c \in Collections : Clean(c) /\ Seeded(c) => "seed" \in docs[c]
PersonasBack ==
  Kept /\ "users" \notin late /\ Seeded("users") => \A p \in Persona : status[p] = "active"
ResetInv ==
  /\ docs = [c \in Collections |-> docs[c]]
  /\ resetting \in 0..(Len(AllCollections) + Len(Seeds) + 1)
  /\ NothingElse /\ SeedThere /\ PersonasBack

LEMMA TheCollections ==
  /\ Len(AllCollections) = 8 /\ DOMAIN AllCollections = 1..8
  /\ Len(Seeds) = 4 /\ DOMAIN Seeds = 1..4 /\ Seeds[4] = "users"
  /\ \A i \in 1..4 : Seeds[i] \in Collections
  /\ \A i, j \in 1..4 : Seeds[i] = Seeds[j] => i = j
  /\ \A c \in Collections \ {"appGroups"} : \E i \in 1..8 : AllCollections[i] = c
<1>1. \A c \in Collections \ {"appGroups"} : \E i \in 1..8 : AllCollections[i] = c
  <2> DEFINE at == [c \in Collections |->
                     CASE c = "users" -> 2 [] c = "roles" -> 3 [] c = "apps" -> 4
                       [] c = "emailRules" -> 5 [] c = "audit" -> 6 [] c = "usageDaily" -> 7
                       [] OTHER -> 8]
  <2>1. \A c \in Collections \ {"appGroups"} : at[c] \in 1..8 /\ AllCollections[at[c]] = c
    BY DEF Collections, AllCollections
  <2> QED BY <2>1
<1> QED BY <1>1 DEF AllCollections, Seeds, Collections

LEMMA ResetInitially == DemoInit => ResetInv
BY TheCollections DEF DemoInit, ResetInv, Kept, NothingElse, SeedThere, PersonasBack

(* A reset begins: it has everything ahead of it.                           *)
LEMMA ResetBegins == ResetInv /\ (Fire \/ Boot) => ResetInv'
<1> SUFFICES ASSUME ResetInv, Fire \/ Boot PROVE ResetInv'
  OBVIOUS
<1>1. resetting' = 1 /\ docs' = docs
  BY DEF Fire, Boot, BeginReset
<1>2. \A c \in Collections \ {"appGroups"} : Ahead(c)'
  BY <1>1, TheCollections DEF Ahead, AllCollections
<1>3. \A c : ~ Seeded(c)'
  BY <1>1, TheCollections DEF Seeded, AllCollections, Seeds
<1> QED BY <1>1, <1>2, <1>3, TheCollections
        DEF ResetInv, NothingElse, SeedThere, PersonasBack, Clean, AllCollections, Seeds

(* What is wiped is clean, and empty.                                       *)
LEMMA WipeKeeps == ResetInv /\ Wipe => ResetInv'
<1> SUFFICES ASSUME ResetInv, Wipe PROVE ResetInv'
  OBVIOUS
<1> DEFINE w == AllCollections[resetting]
<1>1. resetting \in 1..8 /\ resetting' = resetting + 1 /\ late' = late \ {w}
  BY TheCollections DEF Wipe
<1>2. docs' = [c \in Collections |-> IF c = w THEN {} ELSE docs[c]]
  <2>1. docs = [c \in Collections |-> docs[c]] /\ "sessions" \notin Collections
    BY DEF ResetInv, Collections
  <2>2. CASE w = "sessions"
    BY <2>1, <2>2 DEF Wipe
  <2>3. CASE w # "sessions"
    BY <2>1, <2>3 DEF Wipe
  <2> QED BY <2>2, <2>3
<1>3. \A c \in Collections : Ahead(c) /\ c # w => Ahead(c)'
  BY <1>1, TheCollections DEF Ahead, AllCollections
<1>4. NothingElse'
  <2> SUFFICES ASSUME NEW c \in Collections \ {"appGroups"}, Clean(c)' PROVE docs'[c] \subseteq SeedOf(c)
    BY DEF NothingElse, SeedOf, Seeds
  <2>1. CASE c = w
    BY <1>2, <2>1
  <2>2. CASE c # w
    <3>1. Clean(c) /\ Kept
      BY <1>1, <1>3, <2>2 DEF Clean, Kept
    <3>2. docs'[c] = docs[c]
      BY <1>2, <2>2
    <3> QED BY <3>1, <3>2 DEF ResetInv, NothingElse
  <2> QED BY <2>1, <2>2
<1> HIDE DEF w
<1>5. \A c : ~ Seeded(c)'
  BY <1>1, TheCollections DEF Seeded, AllCollections, Seeds
<1>6. SeedThere' /\ PersonasBack'
  BY <1>5 DEF SeedThere, PersonasBack
<1> QED BY <1>1, <1>2, <1>4, <1>6, TheCollections DEF ResetInv, AllCollections, Seeds

LEMMA SeedKeeps == ResetInv /\ Seed => ResetInv'
<1> SUFFICES ASSUME ResetInv, Seed PROVE ResetInv'
  OBVIOUS
<1> DEFINE k == resetting - Len(AllCollections)
<1>1. k \in 1..4 /\ resetting \in 9..12 /\ resetting' = resetting + 1 /\ late' = late /\ resetting = k + 8
  BY TheCollections DEF Seed, ResetInv
<1>2. /\ docs' = [docs EXCEPT ![Seeds[k]] = @ \cup {"seed"}]
      /\ Seeds[k] = "users" => status' = [p \in Persona |-> "active"]
      /\ Seeds[k] # "users" => status' = status
  BY DEF Seed, SeedCollection
<1> HIDE DEF k
<1>3. Kept /\ \A c : ~ Ahead(c)
  BY <1>1, TheCollections DEF Kept, Ahead
<1>4. \A c : Seeded(c)' => Seeded(c) \/ c = Seeds[k]
  BY <1>1, TheCollections DEF Seeded, AllCollections, Seeds
<1>5. NothingElse'
  <2> SUFFICES ASSUME NEW c \in Collections \ {"appGroups"}, c \notin late PROVE docs'[c] \subseteq SeedOf(c)
    BY <1>1 DEF NothingElse, Clean, SeedOf, Seeds
  <2>1. docs[c] \subseteq SeedOf(c)
    BY <1>3 DEF ResetInv, NothingElse, Clean
  <2>2. Seeds[k] \in Collections /\ SeedOf(Seeds[k]) = {"seed"}
    BY <1>1, TheCollections DEF SeedOf
  <2> QED BY <1>2, <2>1, <2>2 DEF ResetInv
<1>6. SeedThere'
  <2> SUFFICES ASSUME NEW c \in Collections, c \notin late, Seeded(c)' PROVE "seed" \in docs'[c]
    BY <1>1 DEF SeedThere, Clean
  <2>1. c = Seeds[k] \/ "seed" \in docs[c]
    BY <1>3, <1>4 DEF ResetInv, SeedThere, Clean
  <2> QED BY <1>2, <2>1 DEF ResetInv
<1>7. PersonasBack'
  BY <1>1, <1>2, <1>3, <1>4 DEF ResetInv, PersonasBack
<1>8. docs' = [c \in Collections |-> docs'[c]]
  BY <1>2 DEF ResetInv
<1> QED BY <1>1, <1>5, <1>6, <1>7, <1>8, TheCollections DEF ResetInv, AllCollections, Seeds

LEMMA EndKeepsReset == ResetInv /\ EndReset => ResetInv'
<1> SUFFICES ASSUME ResetInv, EndReset PROVE ResetInv'
  OBVIOUS
<1>1. resetting = 13 /\ resetting' = 0 /\ UNCHANGED <<docs, late, status>>
  BY TheCollections DEF EndReset
<1>2. Kept /\ \A c : ~ Ahead(c) /\ ~ Ahead(c)'
  BY <1>1, TheCollections DEF Ahead, Kept
<1>3. \A c : Seeded(c)' => Seeded(c)
  BY <1>1, TheCollections DEF Seeded, AllCollections, Seeds
<1>4. NothingElse'
  BY <1>1, <1>2 DEF ResetInv, NothingElse, Clean, SeedOf, Seeds
<1>5. SeedThere' /\ PersonasBack'
  BY <1>1, <1>2, <1>3 DEF ResetInv, SeedThere, PersonasBack, Clean
<1> QED BY <1>1, <1>4, <1>5, TheCollections DEF ResetInv, AllCollections, Seeds

(* Between the steps of a reset: a collection that is written is late; what *)
(* changes otherwise is a collection that is seeded once more.              *)
LEMMA WritesKeep ==
  ASSUME ResetInv, NEW c,
         late \subseteq late', UNCHANGED <<resetting, serving>>,
         docs' = [x \in Collections |-> docs'[x]],
         \A x \in Collections \ {c} : docs'[x] = docs[x],
         \/ c \in late'
         \/ docs'[c] = docs[c]
         \/ \E i \in DOMAIN Seeds : c = Seeds[i] /\ docs'[c] = docs[c] \cup {"seed"},
         \/ "users" \in late'
         \/ status' = status
         \/ \A p \in Persona : status'[p] = "active"
  PROVE  ResetInv'
<1>1. \A x : (Ahead(x)' <=> Ahead(x)) /\ (Seeded(x)' <=> Seeded(x))
  BY DEF Ahead, Seeded, AllCollections, Seeds
<1>2. \A x : Clean(x)' => Clean(x)
  BY <1>1 DEF Clean
<1>3. NothingElse'
  <2> SUFFICES ASSUME Kept, NEW x \in Collections \ {"appGroups"}, Clean(x)' PROVE docs'[x] \subseteq SeedOf(x)
    BY DEF NothingElse, Kept, SeedOf, Seeds
  <2>1. docs[x] \subseteq SeedOf(x)
    BY <1>2 DEF ResetInv, NothingElse
  <2>2. x \notin late'
    BY DEF Clean
  <2>3. docs'[x] = docs[x] \/ (docs'[x] = docs[x] \cup {"seed"} /\ \E i \in DOMAIN Seeds : x = Seeds[i])
    BY <2>2
  <2>4. (\E i \in DOMAIN Seeds : x = Seeds[i]) => SeedOf(x) = {"seed"}
    BY DEF SeedOf
  <2> QED BY <2>1, <2>3, <2>4
<1>4. SeedThere'
  <2> SUFFICES ASSUME Kept, NEW x \in Collections, Clean(x)', Seeded(x) PROVE "seed" \in docs'[x]
    BY <1>1 DEF SeedThere, Kept
  <2>1. "seed" \in docs[x] /\ x \notin late'
    BY <1>2 DEF ResetInv, SeedThere, Clean
  <2> QED BY <2>1
<1>5. PersonasBack'
  BY <1>1 DEF ResetInv, PersonasBack, Kept
<1> QED BY <1>3, <1>4, <1>5, TheCollections DEF ResetInv, AllCollections, Seeds

LEMMA ResetInvKept == ResetInv /\ [DemoNext]_demoVars => ResetInv'
<1> SUFFICES ASSUME ResetInv, [DemoNext]_demoVars PROVE ResetInv'
  OBVIOUS
<1>1. CASE Fire \/ ResetStep
  BY <1>1, ResetBegins, WipeKeeps, SeedKeeps, EndKeepsReset DEF ResetStep
<1>2. ASSUME NEW p \in Persona, Heal(p) PROVE ResetInv'
  <2>1. UNCHANGED <<late, resetting, serving>>
    BY <1>2 DEF Heal
  <2>2. CASE UNCHANGED <<docs, status>>
    BY <2>1, <2>2, WritesKeep DEF ResetInv
  <2>3. ASSUME NEW i \in DOMAIN Seeds, SeedCollection(Seeds[i]) PROVE ResetInv'
    <3>1. Seeds[i] \in Collections
      BY TheCollections
    <3>2. /\ docs' = [docs EXCEPT ![Seeds[i]] = @ \cup {"seed"}]
          /\ status' = status \/ status' = [q \in Persona |-> "active"]
      BY <2>3 DEF SeedCollection
    <3>3. /\ docs' = [x \in Collections |-> docs'[x]] /\ docs'[Seeds[i]] = docs[Seeds[i]] \cup {"seed"}
          /\ \A x \in Collections \ {Seeds[i]} : docs'[x] = docs[x]
      BY <3>1, <3>2 DEF ResetInv
    <3>4. status' = status \/ \A q \in Persona : status'[q] = "active"
      BY <3>2
    <3> QED BY <2>1, <3>3, <3>4, WritesKeep
  <2> QED BY <1>2, <2>2, <2>3 DEF Heal
<1>3. ASSUME UNCHANGED <<docs, status, late, resetting, serving>> PROVE ResetInv'
  BY <1>3, WritesKeep DEF ResetInv
<1>4. ASSUME NEW p \in Persona, SignIn(p) \/ Mint(p) \/ ArmReset(p) PROVE ResetInv'
  BY <1>3, <1>4 DEF SignIn, Mint, ArmReset
<1>5. CASE \/ BeginWrite \/ \E p \in Persona, op \in {"disable", "delete"} : BeginOn(p, op)
           \/ \E s \in sessions : Logout(s)
           \/ UNCHANGED demoVars
  BY <1>3, <1>5 DEF BeginWrite, BeginOn, Begin, Logout, demoVars
<1>6. CASE DisablePersona \/ DeletePersona
  <2>1. docs' = docs /\ UNCHANGED <<resetting, serving>> /\ late \subseteq late'
        /\ ("users" \in late' \/ status' = status)
    BY <1>6 DEF DisablePersona, DeletePersona
  <2> QED BY <2>1, WritesKeep DEF ResetInv
<1>7. ASSUME NEW c \in Visited, VisitorWrite(c) PROVE ResetInv'
  <2>1. PICK new : docs' = [docs EXCEPT ![c] = new]
    BY <1>7 DEF VisitorWrite
  <2>2. late' = late \cup {c} /\ UNCHANGED <<status, resetting, serving>>
    BY <1>7 DEF VisitorWrite
  <2>3. docs' = [x \in Collections |-> docs'[x]] /\ \A x \in Collections \ {c} : docs'[x] = docs[x]
    BY <2>1 DEF ResetInv
  <2> QED BY <2>2, <2>3, WritesKeep
<1>8. CASE Crash
  <2>1. serving' = FALSE /\ resetting' = 0 /\ docs' = docs
    BY <1>8 DEF Crash
  <2> QED BY <2>1, TheCollections DEF ResetInv, Kept, NothingElse, SeedThere, PersonasBack,
          AllCollections, Seeds
<1> QED BY <1>1, <1>2, <1>4, <1>5, <1>6, <1>7, <1>8 DEF DemoNext

(* For any personas, and whatever visitors add, edit, rename, delete or     *)
(* disable, and whatever is cut off: when no reset is under way, each of    *)
(* the collections that the reset goes through and that no visitor has      *)
(* written since holds the seed, whole, and nothing else.                   *)
THEOREM ResetIsComplete == DemoSpec => []ResetLeavesOnlySeed
<1>1. ResetInv => ResetLeavesOnlySeed
  <2> SUFFICES ASSUME ResetInv, serving, resetting = 0 PROVE ResetLeavesOnlySeed
    BY DEF ResetLeavesOnlySeed
  <2>1. Kept /\ \A c : ~ Ahead(c)
    BY DEF Kept, Ahead
  <2>2. \A i \in DOMAIN Seeds : Seeded(Seeds[i])
    BY DEF Seeded
  <2>3. ASSUME NEW c \in Collections \ {"appGroups"}, c \notin late PROVE docs[c] = SeedOf(c)
    <3>1. docs[c] \subseteq SeedOf(c) /\ (Seeded(c) => "seed" \in docs[c])
      BY <2>1, <2>3 DEF ResetInv, NothingElse, SeedThere, Clean
    <3> QED BY <2>2, <3>1 DEF SeedOf
  <2>4. Seeded("users")
    BY <2>2, TheCollections
  <2> QED BY <2>1, <2>3, <2>4 DEF ResetLeavesOnlySeed, ResetInv, PersonasBack
<1> QED BY ResetInitially, ResetInvKept, <1>1, PTL DEF DemoSpec
=============================================================================
