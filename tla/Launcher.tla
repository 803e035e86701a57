------------------------------ MODULE Launcher ------------------------------
(***************************************************************************)
(* The app groups (src/src/services/app-groups.ts), the group of an app     *)
(* (updateApp of src/src/services/apps.ts) and the launcher that draws them *)
(* (src/src/routes/portal.ts).  A handler is a sequence of steps between    *)
(* awaits, and two administrators may be at it.  Names are left out: groups *)
(* of one position come in the order of their keys, as if named by them.    *)
(***************************************************************************)
EXTENDS Collections, SequencesExt, FiniteSetsExt

CONSTANTS
  Group,        \* keys, integers
  Tile,         \* the apps, integers, in the order of their names
  Admin,
  Nothing,      \* no group
  MaxPosition   \* bound: of createGroup, where it begins and where it lists the groups

ASSUME LauncherAssumption ==
  Group \cup Tile \subseteq Int /\ IsFiniteSet(Group \cup Tile) /\ MaxPosition \in Int /\ Nothing \notin Int

VARIABLES
  position,   \* group -> its position, or Nothing when it does not exist
  inGroup,    \* app -> the group it names
  jobs,       \* administrator -> the handler at work, or the last one
  overlap     \* history: two handlers have overlapped

launcherVars == <<position, inGroup, jobs, overlap>>

Groups == {g \in Group : position[g] # Nothing}
Directions == {-1, 1}   \* up and down
Before(g, h) == position[g] < position[h] \/ (position[g] = position[h] /\ g < h)
InOrder(list) == \A i, j \in DOMAIN list : i < j => Before(list[i], list[j])
ListGroups == CHOOSE list \in [1..Cardinality(Groups) -> Groups] : InOrder(list)

Running(h) == jobs[h].pc # "done"
Job(op, key, keys, to) ==
  [op |-> op, pc |-> "write", key |-> key, keys |-> keys, to |-> to, at |-> 1, alone |-> TRUE]

Rested == [Job("none", Nothing, <<>>, Nothing) EXCEPT !.pc = "done", !.alone = FALSE]

(* A handler has made its first look-up, and found nothing to refuse.       *)
Start(h, job) ==
  LET others == \E x \in Admin \ {h} : Running(x) IN
  /\ ~ Running(h)
  /\ jobs' = [x \in Admin |-> IF x = h THEN [job EXCEPT !.alone = ~ others]
                              ELSE [IF Running(x) THEN jobs[x] ELSE Rested EXCEPT !.alone = FALSE]]
  /\ overlap' = (overlap \/ others)
  /\ UNCHANGED <<position, inGroup>>
Finish(h) == jobs' = [jobs EXCEPT ![h] = IF @.op = "order" THEN [@ EXCEPT !.pc = "done", !.at = 1]
                                         ELSE Rested] /\ UNCHANGED overlap
Step(h)   == jobs' = [jobs EXCEPT ![h].at = @ + 1] /\ UNCHANGED overlap
Becomes(h, op, key, keys, to) ==
  /\ jobs' = [jobs EXCEPT ![h] = [Job(op, key, keys, to) EXCEPT !.alone = jobs[h].alone]]
  /\ UNCHANGED overlap

(* createGroup: the key is free; then the groups are listed.                *)
NextPosition == IF Groups = {} THEN 0 ELSE Max({position[g] : g \in Groups}) + 1
BeginCreate(h, g) ==
  /\ g \notin Groups /\ NextPosition <= MaxPosition
  /\ Start(h, Job("new", g, <<>>, Nothing))
ReadPositions(h) ==
  /\ jobs[h].op = "new" /\ NextPosition <= MaxPosition
  /\ Becomes(h, "create", jobs[h].key, <<>>, NextPosition)
  /\ UNCHANGED <<position, inGroup>>

(* A mutant of Swapped: the neighbour is overwritten.                       *)
Overwritten(list, i, j) == [list EXCEPT ![i] = list[j]]

Swapped(list, i, j) == [list EXCEPT ![i] = list[j], ![j] = list[i]]

(* moveGroup: the group exists; then the groups are listed.  One that has   *)
(* gone in between is at 0 (indexOf: -1): moved down, it takes the place of *)
(* the first, whose key is then undefined.                                  *)
IndexOf(list, g) == IF g \in Range(list) THEN CHOOSE i \in DOMAIN list : list[i] = g ELSE 0
Reordered(list, i, j) ==
  IF i \in DOMAIN list THEN Swapped(list, i, j) ELSE [list EXCEPT ![j] = Nothing]
MoveGroup(h, g, dir) == g \in Groups /\ Start(h, Job("move", g, <<>>, dir))
ReadOrder(h) ==
  LET i == IndexOf(ListGroups, jobs[h].key)
      j == i + jobs[h].to
  IN /\ jobs[h].op = "move"
     /\ IF j \in DOMAIN ListGroups THEN Becomes(h, "order", Nothing, Reordered(ListGroups, i, j), Nothing)
        ELSE Finish(h)   \* already at the edge
     /\ UNCHANGED <<position, inGroup>>

(* The keys must be the groups there are, each once.                        *)
ReorderGroups(h, keys) ==
  /\ Len(keys) = Len(ListGroups) /\ Range(keys) = Groups /\ IsInjective(keys)
  /\ Start(h, Job("order", Nothing, keys, Nothing))

DeleteGroup(h, g) == g \in Groups /\ Start(h, Job("delete", g, <<>>, Nothing))

(* updateApp writes the group it was sent, or else the one it has read; a   *)
(* new one must exist.                                                      *)
UpdateApp(h, a, g) ==
  /\ g # Nothing /\ g # inGroup[a] => g \in Groups
  /\ Start(h, Job("assign", a, <<>>, g))

(* The writes, one by one.                                                  *)
InsertGroup(h) ==
  /\ jobs[h].op = "create"
  /\ position' = [position EXCEPT ![jobs[h].key] = IF @ = Nothing THEN jobs[h].to ELSE @]
  /\ Finish(h) /\ UNCHANGED inGroup

WriteOrder(h) ==
  LET j == jobs[h] IN
  /\ j.op = "order"
  /\ IF j.at > Len(j.keys) THEN Finish(h) /\ UNCHANGED position
     ELSE /\ position' = [g \in Group |-> IF g = j.keys[j.at] /\ g \in Groups THEN j.at - 1
                                          ELSE position[g]]
          /\ Step(h)
  /\ UNCHANGED inGroup

Ungroup(h) ==
  /\ jobs[h].op = "delete" /\ jobs[h].at = 1
  /\ inGroup' = [a \in Tile |-> IF inGroup[a] = jobs[h].key THEN Nothing ELSE inGroup[a]]
  /\ Step(h) /\ UNCHANGED position
RemoveGroup(h) ==
  /\ jobs[h].op = "delete" /\ jobs[h].at = 2
  /\ position' = [position EXCEPT ![jobs[h].key] = Nothing]
  /\ Finish(h) /\ UNCHANGED inGroup

Assign(h) ==
  /\ jobs[h].op = "assign"
  /\ inGroup' = [inGroup EXCEPT ![jobs[h].key] = jobs[h].to]
  /\ Finish(h) /\ UNCHANGED position

LauncherInit ==
  /\ position = [g \in Group |-> Nothing] /\ inGroup = [a \in Tile |-> Nothing]
  /\ jobs = [h \in Admin |-> Rested]
  /\ overlap = FALSE

LauncherNext ==
  \E h \in Admin :
    \/ \E g \in Group : BeginCreate(h, g) \/ DeleteGroup(h, g)
    \/ \E g \in Group, dir \in Directions : MoveGroup(h, g, dir)
    \/ \E keys \in UNION {[1..n -> Group] : n \in 0..Cardinality(Group)} : ReorderGroups(h, keys)
    \/ \E a \in Tile, g \in Group \cup {Nothing} : UpdateApp(h, a, g)
    \/ /\ Running(h)
       /\ \/ ReadPositions(h) \/ ReadOrder(h) \/ InsertGroup(h) \/ WriteOrder(h)
          \/ Ungroup(h) \/ RemoveGroup(h) \/ Assign(h)

------------------------------------------------------------------------------
(* The launcher: the tiles that a user may see, in the groups that were     *)
(* read with them.                                                          *)

(* A mutant of Rest: the tiles that name no group.                          *)
Ungrouped(tiles, list) == Picked(tiles, {i \in DOMAIN tiles : inGroup[tiles[i]] = Nothing})

Rest(tiles, list) == Picked(tiles, {i \in DOMAIN tiles : inGroup[tiles[i]] \notin Range(list)})

Folder(tiles, g) == [key |-> g, apps |-> Picked(tiles, {i \in DOMAIN tiles : inGroup[tiles[i]] = g})]

LauncherSections(tiles, list) ==
  LET folders == [i \in DOMAIN list |-> Folder(tiles, list[i])]
      full == Picked(folders, {i \in DOMAIN folders : folders[i].apps # <<>>})
      rest == Rest(tiles, list)
  IN IF tiles = <<>> THEN <<>>
     ELSE IF full = <<>> THEN <<[key |-> Nothing, apps |-> rest]>>
     ELSE IF rest = <<>> THEN full ELSE Append(full, [key |-> Nothing, apps |-> rest])

------------------------------------------------------------------------------
(* Groups "are display-only": whatever groups there are, and whichever of   *)
(* them were read, the launcher draws every tile that the user may see and  *)
(* no other, each at one place, in a section that is not empty: that of its *)
(* group, or else the last one.  The groups come in their order, the tiles  *)
(* of a section in that of their names.                                     *)
LauncherShowsEveryApp ==
  \A may \in SUBSET Tile, read \in SUBSET Group :
    LET tiles == Ascending(may)
        list  == Picked(ListGroups, {i \in DOMAIN ListGroups : ListGroups[i] \in read})
        drawn == LauncherSections(tiles, list)
        places == UNION {{<<i, k>> : k \in DOMAIN drawn[i].apps} : i \in DOMAIN drawn}
        TileAt(p) == drawn[p[1]].apps[p[2]]
    IN /\ \A p \in places : TileAt(p) \in may
       /\ \A a \in may : \E p \in places : TileAt(p) = a
       /\ \A p, q \in places : TileAt(p) = TileAt(q) => p = q
       /\ \A p, q \in places : p[1] = q[1] /\ p[2] < q[2] => TileAt(p) < TileAt(q)
       /\ \A i \in DOMAIN drawn : drawn[i].apps # <<>>
       /\ \A i, j \in DOMAIN drawn : i < j =>
            /\ drawn[i].key # Nothing
            /\ drawn[j].key # Nothing => Before(drawn[i].key, drawn[j].key)
       /\ \A p \in places :
            drawn[p[1]].key = IF inGroup[TileAt(p)] \in Groups \cap read THEN inGroup[TileAt(p)] ELSE Nothing

(* An order that was asked for while no other handler was at work is the    *)
(* order there is.  As long as none has overlapped with another, no two     *)
(* groups share a position and no app names a group that is gone; two that  *)
(* do overlap can leave either.                                             *)
OrderIsAsked ==
  /\ \A h \in Admin : jobs[h].op = "order" /\ ~ Running(h) /\ jobs[h].alone => ListGroups = jobs[h].keys
  /\ ~ overlap /\ (\A h \in Admin : ~ Running(h)) =>
       /\ \A f, g \in Groups : position[f] = position[g] => f = g
       /\ \A a \in Tile : inGroup[a] \in Groups \cup {Nothing}
==============================================================================
