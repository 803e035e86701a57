-------------------------------- MODULE Usage --------------------------------
(***************************************************************************)
(* The write side of the usage statistics (src/src/usage.ts): the set that  *)
(* suppresses a second write of a day, the writes in flight, and everything *)
(* that removes or moves rows meanwhile.  A use is <<user, app, day>>.      *)
(***************************************************************************)
EXTENDS Integers, FiniteSets

CONSTANTS
  UsageUser, UsageApp,
  LastDay,      \* bound: days 1..LastDay
  MaxPending    \* bound: uses of a day whose writes are in flight; two writes each

ASSUME UsageAssumption == LastDay \in Nat \ {0} /\ MaxPending \in Nat

VARIABLES
  day, seen, seenDay,
  used,      \* the rows of usage_daily
  pending,   \* use -> its writes in flight
  ids,       \* the user ids that exist; an id that is gone never comes back
  gone,
  wiping,    \* performReset is between the wipe of usage_daily and its end
  rekeyed    \* history: the app keys deleted or renamed since seen was empty

usageVars == <<day, seen, seenDay, used, pending, ids, gone, wiping, rekeyed>>
Use == UsageUser \X UsageApp \X (1..LastDay)

InFlight == {k \in Use : k[3] = day /\ pending[k] > 0}

(* recordUsage up to its write.  The gateway does not wait for it, so the   *)
(* user may be gone by now.                                                 *)
RecordUsage(u, a) ==
  LET key  == <<u, a, day>>
      kept == IF seenDay = day THEN seen ELSE {}
  IN /\ u \in ids \cup gone
     /\ key \notin kept => Cardinality(InFlight \cup {key}) <= MaxPending /\ pending[key] <= 1
     /\ seenDay' = day /\ seen' = kept \cup {key}
     /\ rekeyed' = IF seenDay = day THEN rekeyed ELSE {}
     /\ pending' = IF key \in kept THEN pending ELSE [pending EXCEPT ![key] = @ + 1]
     /\ UNCHANGED <<day, used, ids, gone, wiping>>

WriteArrives(k) ==
  /\ pending[k] > 0
  /\ pending' = [pending EXCEPT ![k] = @ - 1] /\ used' = used \cup {k}
  /\ UNCHANGED <<day, seen, seenDay, ids, gone, wiping, rekeyed>>

(* A mutant of WriteFails: the entry stays.                                 *)
WritePoisons(k) ==
  /\ pending[k] > 0
  /\ pending' = [pending EXCEPT ![k] = @ - 1]
  /\ UNCHANGED <<day, seen, seenDay, used, ids, gone, wiping, rekeyed>>

WriteFails(k) ==
  /\ pending[k] > 0
  /\ pending' = [pending EXCEPT ![k] = @ - 1] /\ seen' = seen \ {k}
  /\ UNCHANGED <<day, seenDay, used, ids, gone, wiping, rekeyed>>

------------------------------------------------------------------------------
(* The rows go: with their app, with their user, with everything.           *)

DeleteAppUsage(a) ==
  /\ used' = {k \in used : k[2] # a} /\ rekeyed' = rekeyed \cup {a}
  /\ UNCHANGED <<day, seen, seenDay, pending, ids, gone, wiping>>

(* One statement under the unique index: a row that is there already under  *)
(* the new key makes it throw, and no row moves.                            *)
RenameAppUsage(a, b) ==
  LET Move(k) == IF k[2] = a THEN <<k[1], b, k[3]>> ELSE k
      clash   == \E k \in used : k[2] = a /\ Move(k) \in used
  IN /\ a # b
     /\ used' = IF clash THEN used ELSE {Move(k) : k \in used}
     /\ rekeyed' = rekeyed \cup {a}
     /\ UNCHANGED <<day, seen, seenDay, pending, ids, gone, wiping>>

DeleteUserUsage(u) ==
  /\ u \in ids
  /\ ids' = ids \ {u} /\ gone' = gone \cup {u}
  /\ used' = {k \in used : k[1] # u}
  /\ UNCHANGED <<day, seen, seenDay, pending, wiping, rekeyed>>

(* Bound: one user after the other, as no statement concerns two.           *)
CreateUser(u) ==
  /\ u \notin gone /\ ids = {}
  /\ ids' = ids \cup {u}
  /\ UNCHANGED <<day, seen, seenDay, used, pending, gone, wiping, rekeyed>>

(* performReset: the wipe takes the users and their usage, the end clears.  *)
WipeUsage ==
  /\ ~ wiping /\ wiping' = TRUE
  /\ used' = {} /\ ids' = {} /\ gone' = gone \cup ids
  /\ UNCHANGED <<day, seen, seenDay, pending, rekeyed>>
ClearUsageDedup ==
  /\ wiping /\ wiping' = FALSE
  /\ seen' = {} /\ seenDay' = 0 /\ rekeyed' = {}
  /\ UNCHANGED <<day, used, pending, ids, gone>>

NextDay ==
  /\ day < LastDay /\ day' = day + 1
  /\ UNCHANGED <<seen, seenDay, used, pending, ids, gone, wiping, rekeyed>>

(* The process dies: the set and the writes in flight go, the rows stay.    *)
RestartUsage ==
  /\ seen' = {} /\ seenDay' = 0 /\ rekeyed' = {} /\ wiping' = FALSE
  /\ pending' = [k \in Use |-> 0]
  /\ UNCHANGED <<day, used, ids, gone>>

UsageInit ==
  /\ day = 1 /\ seen = {} /\ seenDay = 0 /\ used = {} /\ pending = [k \in Use |-> 0]
  /\ ids = {} /\ gone = {} /\ wiping = FALSE /\ rekeyed = {}

UsageNext ==
  \/ \E u \in UsageUser :
       \/ DeleteUserUsage(u) \/ CreateUser(u)
       \/ \E a \in UsageApp : RecordUsage(u, a)
  \/ \E k \in Use : WriteArrives(k) \/ WriteFails(k)
  \/ \E a \in UsageApp : DeleteAppUsage(a) \/ \E b \in UsageApp : RenameAppUsage(a, b)
  \/ WipeUsage \/ ClearUsageDedup \/ NextDay \/ RestartUsage

UsageSpec == UsageInit /\ [][UsageNext]_usageVars

------------------------------------------------------------------------------
(* usage.ts: "Don't poison the dedup entry".  The set suppresses only what  *)
(* is written or on its way: failures, restarts, resets, midnight and a     *)
(* write that outlives any of them included.  Except that a key that was    *)
(* deleted or renamed and is then used for another app the same day is      *)
(* still suppressed for it: neither handler clears the set.                 *)
SeenMeansWritten ==
  \A k \in seen :
    k[1] \in ids => k \in used \/ pending[k] > 0 \/ k[2] \in rekeyed
==============================================================================
