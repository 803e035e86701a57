--------------------------------- MODULE Demo ---------------------------------
(***************************************************************************)
(* The demo mode: the reset and its timer (src/src/demo/reset.ts), the      *)
(* sign-in of the personas (src/src/demo/auth.ts) and the seed              *)
(* (src/src/demo/seed.ts), and the visitors who, as an administrator, write *)
(* to the collections while it runs.  Of a collection we keep whether all   *)
(* that is seeded is there as it was seeded, and whether there is anything  *)
(* else; of a persona the status of its row and its id, a new one each time *)
(* the row is made.  The timer may fire at any moment: time is left out.    *)
(***************************************************************************)
EXTENDS Integers, Sequences, FiniteSets

CONSTANTS
  Persona,
  Visited,   \* bound: the collections that visitors write to
  Ids        \* bound: ids are counted modulo Ids (an old one seems live again)

VARIABLES
  docs,      \* collection -> what it holds: the "seed", whole, and "visitor"s' documents
  id,        \* the personas' ids
  status,    \* persona -> "none" (no row), "active" or "disabled"
  sessions,  \* of [who, id], the sessions of one user counting as one
  resetAt,   \* resetAtMs # null
  timer,     \* a timeout is pending
  resetting, \* the step performReset is at, or 0
  serving,   \* the process listens
  signin,    \* persona -> the step its sign-in is at
  writer,    \* the administrator's handler that is under way, and the user it read
  late,      \* history: the collections that visitors have written since the last
             \* reset began, or since it wiped them
  overlapped \* history: the sessions whose last sign-in ended during a reset

demoVars == <<docs, id, status, sessions, resetAt, timer, resetting, serving, signin,
              writer, late, overlapped>>

Collections == {"roles", "apps", "emailRules", "users", "audit", "usageDaily", "apiKeys",
                "appGroups"}
Seeds       == <<"roles", "apps", "emailRules", "users">>

(* A mutant of AllCollections: the apps are forgotten.                      *)
WithoutApps == <<"sessions", "users", "roles", "emailRules", "audit", "usageDaily", "apiKeys">>

AllCollections ==
  <<"sessions", "users", "roles", "apps", "emailRules", "audit", "usageDaily", "apiKeys">>

Live(s) == status[s.who] = "active" /\ s.id = id[s.who]

(* seedDemo, one collection: upserts by natural key, so that what was edited*)
(* or deleted is as seeded again, a persona that has no row gets a new one, *)
(* and what is there besides stays.                                         *)
SeedCollection(c) ==
  /\ docs' = [docs EXCEPT ![c] = @ \cup {"seed"}]
  /\ IF c = "users"
     THEN /\ status' = [p \in Persona |-> "active"]
          /\ id' = [p \in Persona |-> IF status[p] = "none" THEN (id[p] + 1) % Ids ELSE id[p]]
     ELSE UNCHANGED <<status, id>>

------------------------------------------------------------------------------
(* performReset.  Its first step, the snapshot of the ids, and the evictions*)
(* at its end are module Gateway's; a step that throws ends the process.    *)

BeginReset ==
  /\ resetting = 0
  /\ resetting' = 1 /\ timer' = FALSE /\ late' = {}

(* The timeout fires; or the process has come up.                           *)
Fire ==
  /\ serving /\ timer /\ BeginReset
  /\ UNCHANGED <<docs, id, status, sessions, resetAt, serving, signin, writer, overlapped>>
Boot ==
  /\ ~ serving /\ BeginReset
  /\ UNCHANGED <<docs, id, status, sessions, resetAt, serving, signin, writer, overlapped>>

Wipe ==
  LET c == AllCollections[resetting] IN
  /\ resetting \in DOMAIN AllCollections
  /\ resetting' = resetting + 1
  /\ sessions' = IF c = "sessions" THEN {} ELSE sessions
  /\ overlapped' = IF c = "sessions" THEN {} ELSE overlapped
  /\ docs' = IF c = "sessions" THEN docs ELSE [docs EXCEPT ![c] = {}]
  /\ late' = late \ {c}
  /\ status' = IF c = "users" THEN [p \in Persona |-> "none"] ELSE status
  /\ UNCHANGED <<id, resetAt, timer, serving, signin, writer>>

Seed ==
  LET i == resetting - Len(AllCollections) IN
  /\ resetting > 0 /\ i \in DOMAIN Seeds
  /\ resetting' = resetting + 1
  /\ SeedCollection(Seeds[i])
  /\ UNCHANGED <<sessions, resetAt, timer, serving, signin, writer, late, overlapped>>

(* A mutant of EndReset: the reset stays armed.                             *)
EndArmed ==
  /\ resetting = Len(AllCollections) + Len(Seeds) + 1
  /\ resetting' = 0 /\ timer' = FALSE
  /\ serving' = TRUE
  /\ UNCHANGED <<docs, id, status, sessions, resetAt, signin, writer, late, overlapped>>

EndReset ==
  /\ resetting = Len(AllCollections) + Len(Seeds) + 1
  /\ resetting' = 0 /\ resetAt' = FALSE /\ timer' = FALSE
  /\ serving' = TRUE
  /\ UNCHANGED <<docs, id, status, sessions, signin, writer, late, overlapped>>

ResetStep == Boot \/ Wipe \/ Seed \/ EndReset

------------------------------------------------------------------------------
(* POST /demo/login, step by step.                                          *)

Away == [pc |-> "away", id |-> 0]

(* The persona's row, looked up: its id, if it is active.                   *)
LookedUp(p, otherwise) ==
  IF status[p] = "active" THEN [pc |-> "mint", id |-> id[p]] ELSE otherwise

SignIn(p) ==
  /\ serving /\ signin[p].pc = "away"
  /\ signin' = [signin EXCEPT ![p] = LookedUp(p, [pc |-> "heal", id |-> 1])]
  /\ UNCHANGED <<docs, id, status, sessions, resetAt, timer, resetting, serving, writer, late,
                 overlapped>>

(* seedDemo once more, and the row is looked up again.                      *)
Heal(p) ==
  LET i == signin[p].id IN
  /\ signin[p].pc = "heal"
  /\ IF i \in DOMAIN Seeds
     THEN SeedCollection(Seeds[i]) /\ signin' = [signin EXCEPT ![p].id = i + 1]
     ELSE signin' = [signin EXCEPT ![p] = LookedUp(p, Away)] /\ UNCHANGED <<docs, id, status>>
  /\ UNCHANGED <<sessions, resetAt, timer, resetting, serving, writer, late, overlapped>>

(* createSession; the stamp of the user and the audit leave the state alone.*)
Mint(p) ==
  /\ signin[p].pc = "mint"
  /\ sessions' = sessions \cup {[who |-> p, id |-> signin[p].id]}
  /\ signin' = [signin EXCEPT ![p].pc = "arm"]
  /\ UNCHANGED <<docs, id, status, resetAt, timer, resetting, serving, writer, late, overlapped>>

ArmReset(p) ==
  /\ signin[p].pc = "arm"
  /\ signin' = [signin EXCEPT ![p] = Away]
  /\ resetAt' = TRUE /\ timer' = (timer \/ ~ resetAt)
  /\ LET s == [who |-> p, id |-> signin[p].id] IN
     overlapped' = IF resetting = 0 THEN overlapped \ {s} ELSE overlapped \cup {s}
  /\ UNCHANGED <<docs, id, status, sessions, resetting, serving, writer, late>>

(* The session of the cookie goes: that of a user who has no other, or else *)
(* nothing changes here.                                                    *)
Logout(s) ==
  /\ serving
  /\ sessions' = sessions \ {s}
  /\ UNCHANGED <<docs, id, status, resetAt, timer, resetting, serving, signin, writer, late,
                 overlapped>>

------------------------------------------------------------------------------
(* What a visitor does as an administrator: a handler begins on a live      *)
(* session and writes later; one about a user reads its row, and goes step  *)
(* by step by the id it has read.                                           *)

Resting  == [op |-> "none", at |-> 0, who |-> "none", id |-> 0]
NextStep == writer' = [writer EXCEPT !.at = @ + 1]
Begin(handler) ==
  /\ serving /\ writer = Resting /\ \E s \in sessions : Live(s)
  /\ writer' = handler
  /\ UNCHANGED <<docs, id, status, sessions, resetAt, timer, resetting, serving,
                 signin, late, overlapped>>

BeginWrite      == Begin([Resting EXCEPT !.op = "write"])
BeginOn(p, op) == status[p] # "none" /\ Begin([op |-> op, at |-> 1, who |-> p, id |-> id[p]])

(* A document is added, one goes, or a seeded one is edited; given another  *)
(* key, it is a visitor's.                                                  *)
Rewritten(held) ==
  {held \cup {"visitor"}, held \ {"visitor"}, held \ {"seed"}}
  \cup (IF "seed" \in held THEN {{"visitor"}} ELSE {})
VisitorWrite(c) ==
  /\ writer.op = "write" /\ writer' = Resting
  /\ \E new \in Rewritten(docs[c]) : docs' = [docs EXCEPT ![c] = new]
  /\ late' = late \cup {c}
  /\ UNCHANGED <<id, status, sessions, resetAt, timer, resetting, serving, signin, overlapped>>

Found           == status[writer.who] # "none" /\ id[writer.who] = writer.id
RowBecomes(new) == status' = IF Found THEN [status EXCEPT ![writer.who] = new] ELSE status
EndSessions     == sessions' = sessions \ {[who |-> writer.who, id |-> writer.id]}

(* disableUser: the status, then the sessions.                              *)
DisablePersona ==
  /\ writer.op = "disable"
  /\ \/ writer.at = 1 /\ NextStep /\ RowBecomes("disabled") /\ late' = late \cup {"users"}
        /\ UNCHANGED sessions
     \/ writer.at = 2 /\ writer' = Resting /\ EndSessions /\ UNCHANGED <<status, late>>
  /\ UNCHANGED <<docs, id, resetAt, timer, resetting, serving, signin, overlapped>>

(* deleteUser: the sessions, then the row.                                  *)
DeletePersona ==
  /\ writer.op = "delete"
  /\ \/ writer.at = 1 /\ NextStep /\ EndSessions /\ UNCHANGED <<status, late>>
     \/ writer.at = 2 /\ writer' = Resting /\ RowBecomes("none") /\ late' = late \cup {"users"}
        /\ UNCHANGED sessions
  /\ UNCHANGED <<docs, id, resetAt, timer, resetting, serving, signin, overlapped>>

(* The process dies and comes up again: the store stays.                    *)
Crash ==
  /\ serving' = FALSE /\ resetting' = 0 /\ resetAt' = FALSE /\ timer' = FALSE
  /\ signin' = [p \in Persona |-> Away] /\ writer' = Resting
  /\ UNCHANGED <<docs, id, status, sessions, late, overlapped>>

DemoInit ==
  /\ docs = [c \in Collections |-> {}]
  /\ id = [p \in Persona |-> 0] /\ status = [p \in Persona |-> "none"]
  /\ sessions = {} /\ resetAt = FALSE /\ timer = FALSE /\ resetting = 0 /\ serving = FALSE
  /\ signin = [p \in Persona |-> Away] /\ writer = Resting
  /\ late = {} /\ overlapped = {}

DemoNext ==
  \/ Fire \/ ResetStep \/ Crash
  \/ \E p \in Persona : SignIn(p) \/ Heal(p) \/ Mint(p) \/ ArmReset(p)
  \/ \E s \in sessions : Logout(s)
  \/ BeginWrite \/ \E p \in Persona, op \in {"disable", "delete"} : BeginOn(p, op)
  \/ \E c \in Visited : VisitorWrite(c)
  \/ DisablePersona \/ DeletePersona

DemoSpec == DemoInit /\ [][DemoNext]_demoVars

(* A timeout fires and the reset goes on: the process runs.                 *)
DemoFairness == WF_demoVars(Fire) /\ WF_demoVars(ResetStep)

------------------------------------------------------------------------------
(* What the seed puts into a collection.                                    *)
SeedOf(c) == IF c \in {Seeds[i] : i \in DOMAIN Seeds} THEN {"seed"} ELSE {}

(* reset.ts: "Wipe every collection and reseed to the fixed demo dataset".  *)
(* When no reset is under way, a collection that no visitor has written     *)
(* since the last one began, or since it came to the collection, holds what *)
(* is seeded, as it was seeded, and nothing else: an edited or deleted seed *)
(* is back, what a visitor added is gone; and so every persona is there and *)
(* active.  Of the collections that the reset is meant to go through.       *)
ResetLeavesOnlySeed ==
  serving /\ resetting = 0 =>
    /\ \A c \in Collections \ {"appGroups"} : c \notin late => docs[c] = SeedOf(c)
    /\ "users" \notin late => \A p \in Persona : status[p] = "active"

(* "All collections that hold mutable state" (reset.ts:24) and "every       *)
(* collection is wiped" (demo/README.md:55): the app groups too.            *)
EveryCollectionIsWiped ==
  serving /\ resetting = 0 => \A c \in Collections : c \notin late => docs[c] = SeedOf(c)

(* "idle --first sign-in after a reset--> armed": for any session there is, *)
(* the timeout that ends the window is pending, or a sign-in is about to arm*)
(* it.  Not so for a sign-in that ends while a reset is under way: the      *)
(* reset ignores its armReset and then goes idle.                           *)
SignedInMeansArmed ==
  \A s \in sessions :
    serving /\ resetting = 0 /\ s \notin overlapped =>
      timer \/ \E p \in Persona : signin[p].pc = "arm"

(* A reset that is armed happens: no sign-in, write, logout or crash puts   *)
(* it off for ever ("the window does NOT extend").                          *)
ArmedResetHappens == resetAt ~> ~ resetAt
==============================================================================
