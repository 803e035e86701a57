--------------------------- MODULE RegistryProofs ---------------------------
(***************************************************************************)
(* Type correctness of module Registry and that nobody locks the portal,    *)
(* for any number of handlers in flight, any calls and any stores.  A type  *)
(* that takes an argument: the status updateApp falls back to comes from    *)
(* the document its first step read, so a program must never reach writeApp *)
(* without that document (Planned).                                         *)
(***************************************************************************)
EXTENDS Registry, TLAPS, SequenceTheorems

(* What is still to do: findApp is awaited alone, and writeApp comes next   *)
(* with the app in hand, or after the findApp of an updateApp.              *)
Planned(op) ==
  \A i \in 1..Len(op.todo) :
    /\ "findApp" \in op.todo[i] => op.todo[i] = {"findApp"}
    /\ "writeApp" \in op.todo[i] =>
         \/ i = 1 /\ op.app \in AppDoc
         \/ i = 2 /\ op.todo[1] = {"findApp"} /\ op.call.name = "updateApp"

OpOK(op) == op \in Op /\ (op.todo # <<>> => op.call \in Call) /\ Planned(op)

(* The collections, and the handlers, of RegistryTypeOK.                    *)
StoreOK ==
  /\ users \in [User -> UserDoc \cup {Null}]
  /\ roles \in [RoleKey -> RoleDoc \cup {Null}]
  /\ apps \in [AppKey -> AppDoc \cup {Null}]
  /\ sessions \subseteq User
OpsOK == ops \in [Proc -> Op] /\ \A p \in Proc : OpOK(ops[p])
RInv  == StoreOK /\ OpsOK

------------------------------------------------------------------------------
(* Programs and what remains of them.                                       *)

(* A handler that never writes an app's status; where it asks for an app it *)
(* asks for nothing else.                                                   *)
ReadsOnly(program) ==
  /\ program \in Seq(SUBSET StepName)
  /\ \A i \in 1..Len(program) :
       ("findApp" \in program[i] => program[i] = {"findApp"}) /\ "writeApp" \notin program[i]

(* Every handler is a sequence of sets of calls with a sound plan: only     *)
(* updateApp writes the app's status, right after it has read it.           *)
LEMMA ProgramPlanned ==
  ASSUME NEW n \in DOMAIN Program
  PROVE  /\ Program[n] \in Seq(SUBSET StepName)
         /\ \A i \in 1..Len(Program[n]) :
              /\ "findApp" \in Program[n][i] => Program[n][i] = {"findApp"}
              /\ "writeApp" \in Program[n][i] =>
                   i = 2 /\ Program[n][1] = {"findApp"} /\ n = "updateApp"
<1>1. ReadsOnly(SetRoles)
  BY DEF SetRoles, ReadsOnly, StepName
<1>2. ReadsOnly(SetOverride)
  BY DEF SetOverride, ReadsOnly, StepName
<1>3. ReadsOnly(DeleteOverride)
  BY DEF DeleteOverride, ReadsOnly, StepName
<1>4. ReadsOnly(DisableUser)
  BY DEF DisableUser, ReadsOnly, StepName
<1>5. ReadsOnly(EnableUser)
  BY DEF EnableUser, ReadsOnly, StepName
<1>6. ReadsOnly(DeleteUser)
  BY DEF DeleteUser, ReadsOnly, StepName
<1>7. ReadsOnly(CreateRole)
  BY DEF CreateRole, ReadsOnly, StepName
<1>8. ReadsOnly(RenameRole)
  BY DEF RenameRole, ReadsOnly, StepName
<1>9. ReadsOnly(AddGrant)
  BY DEF AddGrant, ReadsOnly, StepName
<1>10. ReadsOnly(DeleteGrant)
  BY DEF DeleteGrant, ReadsOnly, StepName
<1>11. ReadsOnly(DeleteRole)
  BY DEF DeleteRole, ReadsOnly, StepName
<1>12. ReadsOnly(CreateApp)
  BY DEF CreateApp, ReadsOnly, StepName
<1>13. ReadsOnly(RenameApp)
  BY DEF RenameApp, ReadsOnly, StepName
<1>14. ReadsOnly(DeleteApp)
  BY DEF DeleteApp, ReadsOnly, StepName
<1>15. ReadsOnly(RegenerateSecret)
  BY DEF RegenerateSecret, ReadsOnly, StepName
<1>16. ReadsOnly(SignIn)
  BY DEF SignIn, ReadsOnly, StepName
<1>17. UpdateApp \in Seq(SUBSET StepName)
       /\ \A i \in 1..Len(UpdateApp) :
            /\ "findApp" \in UpdateApp[i] => UpdateApp[i] = {"findApp"}
            /\ "writeApp" \in UpdateApp[i] => i = 2 /\ UpdateApp[1] = {"findApp"}
  <2>1. UpdateApp \in Seq(SUBSET StepName) /\ Len(UpdateApp) = 3
    BY DEF UpdateApp, StepName
  <2>2. UpdateApp[1] = {"findApp"} /\ UpdateApp[2] = {"writeApp"} /\ UpdateApp[3] = {"evictAll"}
    BY DEF UpdateApp
  <2>3. \A i \in 1..3 : i = 1 \/ i = 2 \/ i = 3
    OBVIOUS
  <2> QED BY <2>1, <2>2, <2>3
<1>18. Program.setRoles = SetRoles /\ Program.setOverride = SetOverride /\
       Program.deleteOverride = DeleteOverride /\ Program.disableUser = DisableUser /\
       Program.enableUser = EnableUser /\ Program.deleteUser = DeleteUser /\
       Program.createRole = CreateRole /\ Program.renameRole = RenameRole /\
       Program.addGrant = AddGrant /\ Program.deleteGrant = DeleteGrant /\
       Program.deleteRole = DeleteRole /\ Program.createApp = CreateApp /\
       Program.renameApp = RenameApp /\ Program.deleteApp = DeleteApp /\
       Program.regenerateSecret = RegenerateSecret /\ Program.signIn = SignIn /\
       Program.updateApp = UpdateApp
  BY DEF Program
<1>19. n \in {"setRoles", "setOverride", "deleteOverride", "disableUser", "enableUser",
              "deleteUser", "createRole", "renameRole", "addGrant", "deleteGrant",
              "deleteRole", "createApp", "renameApp", "deleteApp", "regenerateSecret",
              "signIn", "updateApp"}
  BY DEF Program
<1>20. n = "updateApp" \/ ReadsOnly(Program[n])
  BY <1>1, <1>2, <1>3, <1>4, <1>5, <1>6, <1>7, <1>8, <1>9, <1>10, <1>11, <1>12, <1>13,
     <1>14, <1>15, <1>16, <1>18, <1>19
<1> QED BY <1>17, <1>18, <1>20 DEF ReadsOnly

(* Finishing step s of the first set leaves a sequence: the tail, or the    *)
(* rest of the first set in front of it.                                    *)
LEMMA RestSeq ==
  ASSUME NEW todo \in Seq(SUBSET StepName), todo # <<>>, NEW s
  PROVE  /\ Rest(todo, s) \in Seq(SUBSET StepName)
         /\ Head(todo) = todo[1]
         /\ Head(todo) = {s} =>
              /\ Len(Rest(todo, s)) = Len(todo) - 1
              /\ \A i \in 1..Len(Rest(todo, s)) : Rest(todo, s)[i] = todo[i + 1]
         /\ Head(todo) # {s} =>
              /\ Len(Rest(todo, s)) = Len(todo)
              /\ Rest(todo, s)[1] = todo[1] \ {s}
              /\ \A i \in 2..Len(Rest(todo, s)) : Rest(todo, s)[i] = todo[i]
<1>1. Len(todo) \in Nat \ {0} /\ Head(todo) = todo[1] /\ todo[1] \in SUBSET StepName
  OBVIOUS
<1>2. Tail(todo) \in Seq(SUBSET StepName) /\ Len(Tail(todo)) = Len(todo) - 1
      /\ \A i \in 1..Len(Tail(todo)) : Tail(todo)[i] = todo[i + 1]
  BY <1>1
<1>3. CASE Head(todo) = {s}
  BY <1>1, <1>2, <1>3 DEF Rest
<1>4. CASE Head(todo) # {s}
  <2> DEFINE first == <<Head(todo) \ {s}>>
  <2>1. first \in Seq(SUBSET StepName) /\ Len(first) = 1 /\ first[1] = todo[1] \ {s}
    BY <1>1
  <2>2. Rest(todo, s) = first \o Tail(todo)
    BY <1>4 DEF Rest
  <2> HIDE DEF first
  <2>3. /\ first \o Tail(todo) \in Seq(SUBSET StepName)
        /\ Len(first \o Tail(todo)) = Len(todo)
        /\ \A i \in 1..Len(todo) :
             (first \o Tail(todo))[i] = IF i <= 1 THEN first[i] ELSE Tail(todo)[i - 1]
    BY <1>1, <1>2, <2>1, ConcatProperties
  <2>4. \A i \in 2..Len(todo) : i - 1 \in 1..Len(Tail(todo))
    BY <1>1, <1>2
  <2>5. \A i \in 2..Len(todo) : Rest(todo, s)[i] = todo[i]
    BY <1>1, <1>2, <2>2, <2>3, <2>4
  <2>6. Rest(todo, s)[1] = todo[1] \ {s}
    BY <1>1, <2>1, <2>2, <2>3
  <2> QED BY <1>1, <1>4, <2>2, <2>3, <2>5, <2>6
<1> QED BY <1>3, <1>4

LEMMA IdleOK == OpOK(Idle)
  BY DEF OpOK, Op, Planned, Idle

(* A step other than findApp leaves the plan sound: writeApp only gets      *)
(* nearer once findApp is done.                                             *)
LEMMA AdvanceOK ==
  ASSUME NEW op, OpOK(op), op.todo # <<>>, NEW s, s \in Head(op.todo), s # "findApp"
  PROVE  OpOK(Advance(op, s))
<1> DEFINE rest == Rest(op.todo, s)
           new  == [op EXCEPT !.todo = rest]
<1>1. op \in Op /\ op.todo \in Seq(SUBSET StepName) /\ Planned(op) /\ op.call \in Call
  BY DEF OpOK, Op
<1>2. /\ rest \in Seq(SUBSET StepName)
      /\ Head(op.todo) = op.todo[1]
      /\ Head(op.todo) = {s} =>
           /\ Len(rest) = Len(op.todo) - 1
           /\ \A i \in 1..Len(rest) : rest[i] = op.todo[i + 1]
      /\ Head(op.todo) # {s} =>
           /\ Len(rest) = Len(op.todo)
           /\ rest[1] = op.todo[1] \ {s}
           /\ \A i \in 2..Len(rest) : rest[i] = op.todo[i]
  BY <1>1, RestSeq
<1>3. Len(op.todo) \in Nat \ {0} /\ Len(rest) \in Nat
  BY <1>1, <1>2
<1> HIDE DEF rest
<1>4. new \in Op /\ new.todo = rest /\ new.app = op.app /\ new.call = op.call
  BY <1>1, <1>2 DEF Op
<1>5. "findApp" \notin op.todo[1] /\ op.todo[1] # {"findApp"}
  BY <1>1, <1>2, <1>3 DEF Planned
<1>6. \A i \in 1..Len(op.todo) : "writeApp" \in op.todo[i] => i = 1 /\ op.app \in AppDoc
  BY <1>1, <1>5 DEF Planned
<1>7. ASSUME Head(op.todo) = {s} PROVE Planned(new)
  <2>1. \A i \in 1..Len(rest) : i + 1 \in 1..Len(op.todo) /\ i + 1 # 1
    BY <1>2, <1>3, <1>7
  <2>2. \A i \in 1..Len(rest) : "writeApp" \notin rest[i]
    BY <1>2, <1>6, <1>7, <2>1
  <2>3. \A i \in 1..Len(rest) : "findApp" \in rest[i] => rest[i] = {"findApp"}
    BY <1>1, <1>2, <1>7, <2>1 DEF Planned
  <2> QED BY <1>4, <2>2, <2>3 DEF Planned
<1>8. ASSUME Head(op.todo) # {s} PROVE Planned(new)
  <2>1. \A i \in 1..Len(rest) : "findApp" \in rest[i] => rest[i] = {"findApp"}
    BY <1>1, <1>2, <1>3, <1>5, <1>8 DEF Planned
  <2>2. \A i \in 1..Len(rest) : "writeApp" \in rest[i] => i = 1 /\ op.app \in AppDoc
    BY <1>2, <1>3, <1>6, <1>8
  <2> QED BY <1>4, <2>1, <2>2 DEF Planned
<1>9. OpOK(new)
  BY <1>1, <1>4, <1>7, <1>8 DEF OpOK
<1> QED BY <1>9, IdleOK DEF Advance, rest

(* findApp leaves the app's document with an updateApp that writes next.    *)
LEMMA FindAppOK ==
  ASSUME NEW op, OpOK(op), op.todo # <<>>, "findApp" \in Head(op.todo), NEW app,
         app \in AppDoc \cup {Null}, op.call.name = "updateApp" => app \in AppDoc
  PROVE  OpOK([Advance(op, "findApp") EXCEPT !.app = app])
<1> DEFINE rest == Rest(op.todo, "findApp")
           adv  == [op EXCEPT !.todo = rest]
           new  == [adv EXCEPT !.app = app]
<1>1. op \in Op /\ op.todo \in Seq(SUBSET StepName) /\ Planned(op) /\ op.call \in Call
  BY DEF OpOK, Op
<1>2. Len(op.todo) \in Nat \ {0} /\ Head(op.todo) = op.todo[1] /\ op.todo[1] = {"findApp"}
  BY <1>1 DEF Planned
<1>3. /\ rest \in Seq(SUBSET StepName) /\ Len(rest) = Len(op.todo) - 1
      /\ \A i \in 1..Len(rest) : rest[i] = op.todo[i + 1]
  BY <1>1, <1>2, RestSeq
<1> HIDE DEF rest
<1>4. new \in Op /\ new.todo = rest /\ new.app = app /\ new.call = op.call
  BY <1>1, <1>3 DEF Op
<1>5. \A i \in 1..Len(rest) : i + 1 \in 1..Len(op.todo) /\ i + 1 # 1
  BY <1>2, <1>3
<1>6. \A i \in 1..Len(rest) : "findApp" \in rest[i] => rest[i] = {"findApp"}
  BY <1>1, <1>3, <1>5 DEF Planned
<1>7. \A i \in 1..Len(rest) : "writeApp" \in rest[i] => i = 1 /\ app \in AppDoc
  BY <1>1, <1>3, <1>5 DEF Planned
<1>8. OpOK(new)
  BY <1>1, <1>4, <1>6, <1>7 DEF OpOK, Planned
<1>9. Idle \in Op /\ Idle.todo = <<>>
  BY IdleOK DEF OpOK, Idle
<1>10. [Idle EXCEPT !.app = app] \in Op /\ [Idle EXCEPT !.app = app].todo = <<>>
  BY <1>9 DEF Op
<1>11. OpOK([Idle EXCEPT !.app = app])
  BY <1>10 DEF OpOK, Planned
<1> QED BY <1>8, <1>11 DEF Advance, rest

(* A handler that starts does so with its program.                          *)
LEMMA StartOK ==
  ASSUME NEW call \in Call, NEW let0 \in SUBSET User, NEW held0 \in SUBSET User
  PROVE  OpOK([call |-> call, todo |-> Program[call.name], app |-> Null,
               let0 |-> let0, held0 |-> held0])
<1>1. call.name \in DOMAIN Program
  BY DEF Call
<1>2. /\ Program[call.name] \in Seq(SUBSET StepName)
      /\ \A i \in 1..Len(Program[call.name]) :
           /\ "findApp" \in Program[call.name][i] => Program[call.name][i] = {"findApp"}
           /\ "writeApp" \in Program[call.name][i] =>
                i = 2 /\ Program[call.name][1] = {"findApp"} /\ call.name = "updateApp"
  BY <1>1, ProgramPlanned
<1> QED BY <1>2 DEF OpOK, Op, Planned

------------------------------------------------------------------------------
(* The handlers in flight, after a step.                                    *)

LEMMA CallOK ==
  ASSUME RInv, NEW p \in Proc, NEW s, At(p, s)
  PROVE  c(p) \in Call /\ OpOK(ops[p]) /\ ops[p].todo # <<>> /\ s \in Head(ops[p].todo)
BY DEF RInv, OpsOK, OpOK, At, c

LEMMA ReplaceOK ==
  ASSUME RInv, NEW p \in Proc, NEW op, OpOK(op), ops' = [ops EXCEPT ![p] = op]
  PROVE  OpsOK'
<1>1. op \in Op
  BY DEF OpOK
<1>2. ops' \in [Proc -> Op]
  BY <1>1 DEF RInv, OpsOK
<1>3. \A q \in Proc : OpOK(ops'[q])
  BY DEF RInv, OpsOK
<1> QED BY <1>2, <1>3 DEF OpsOK

LEMMA DoneOK ==
  ASSUME RInv, NEW p \in Proc, NEW s, s # "findApp", Done(p, s)
  PROVE  OpsOK'
<1>1. OpOK(ops[p]) /\ ops[p].todo # <<>> /\ s \in Head(ops[p].todo)
  BY CallOK DEF Done
<1>2. OpOK(Advance(ops[p], s))
  BY <1>1, AdvanceOK
<1>3. ops' = [ops EXCEPT ![p] = Advance(ops[p], s)]
  BY DEF Done, RInv, OpsOK
<1> QED BY <1>2, <1>3, ReplaceOK

LEMMA StoreKept == ASSUME StoreOK, UNCHANGED store PROVE StoreOK'
BY DEF StoreOK, store

(* A handler that throws, or that finds what it needs, leaves the store.    *)
LEMMA ThrowOK ==
  ASSUME RInv, NEW p \in Proc, NEW s, Throw(p, s)
  PROVE  RInv'
BY IdleOK, ReplaceOK, StoreKept DEF Throw, RInv

LEMMA CheckOK ==
  ASSUME RInv, NEW p \in Proc, NEW s, s # "findApp", NEW found, Check(p, s, found)
  PROVE  RInv'
BY DoneOK, ThrowOK, StoreKept DEF Check, RInv

LEMMA QuietStepOK ==
  ASSUME RInv, NEW p \in Proc, NEW s, s # "findApp", Done(p, s), UNCHANGED store
  PROVE  RInv'
BY DoneOK, StoreKept DEF RInv

------------------------------------------------------------------------------
(* The steps that read, and those of a handler that starts.                 *)

LEMMA StartStep ==
  ASSUME RInv, NEW p \in Proc, Start(p)
  PROVE  RInv'
<1>1. PICK call \in Calls :
        ops' = [ops EXCEPT ![p] =
                  [call |-> call, todo |-> Program[call.name], app |-> Null,
                   let0 |-> IF call.name = "renameApp"
                            THEN {u \in User : StoreAllows(u, call.a)} ELSE {},
                   held0 |-> IF call.name = "renameRole"
                             THEN {u \in User : \E k \in {call.k, call.k2} : Holds(users[u], k)}
                             ELSE {}]]
  BY DEF Start
<1> DEFINE let0  == IF call.name = "renameApp"
                    THEN {u \in User : StoreAllows(u, call.a)} ELSE {}
           held0 == IF call.name = "renameRole"
                    THEN {u \in User : \E k \in {call.k, call.k2} : Holds(users[u], k)} ELSE {}
           op    == [call |-> call, todo |-> Program[call.name], app |-> Null,
                     let0 |-> let0, held0 |-> held0]
<1>2. call \in Call
  BY <1>1, RegistryAssumption
<1>3. let0 \in SUBSET User /\ held0 \in SUBSET User
  OBVIOUS
<1>4. ops' = [ops EXCEPT ![p] = op]
  BY <1>1
<1> HIDE DEF let0, held0
<1>5. OpOK(op)
  BY <1>2, <1>3, StartOK
<1>6. OpsOK'
  BY <1>4, <1>5, ReplaceOK
<1> QED BY <1>6, StoreKept DEF Start, RInv

LEMMA FindAppStep ==
  ASSUME RInv, NEW p \in Proc, FindApp(p)
  PROVE  RInv'
<1>1. OpOK(ops[p]) /\ ops[p].todo # <<>> /\ "findApp" \in Head(ops[p].todo) /\ c(p) \in Call
  BY CallOK DEF FindApp
<1>2. CASE Throw(p, "findApp")
  BY <1>2, ThrowOK
<1>3. CASE ~ Throw(p, "findApp")
  <2> DEFINE a   == c(p).a
             app == IF c(p).name = "updateApp" THEN apps[a] ELSE Null
             op  == [Advance(ops[p], "findApp") EXCEPT !.app = app]
  <2>1. apps[a] # Null /\ ops' = [ops EXCEPT ![p] = op] /\ UNCHANGED store
    BY <1>3 DEF FindApp, RInv, OpsOK
  <2>2. a \in AppKey
    BY <1>1 DEF Call
  <2>3. apps[a] \in AppDoc
    BY <2>1, <2>2 DEF RInv, StoreOK
  <2>4. app \in AppDoc \cup {Null} /\ (ops[p].call.name = "updateApp" => app \in AppDoc)
    BY <2>3 DEF c
  <2> HIDE DEF app
  <2>5. OpOK(op)
    BY <1>1, <2>4, FindAppOK
  <2> HIDE DEF op
  <2> QED BY <2>1, <2>5, ReplaceOK, StoreKept DEF RInv
<1> QED BY <1>2, <1>3

LEMMA ReadStep ==
  ASSUME RInv, NEW p \in Proc,
         \/ FindUser(p) \/ FindActive(p) \/ FindRole(p) \/ FindNoRole(p) \/ FindNoApp(p)
         \/ IdpDelete(p) \/ MoveUsage(p) \/ DropUsage(p) \/ EvictUser(p) \/ EvictAll(p)
  PROVE  RInv'
<1>1. CASE FindUser(p) \/ FindActive(p) \/ FindRole(p) \/ FindNoRole(p) \/ FindNoApp(p)
  BY <1>1, CheckOK DEF FindUser, FindActive, FindRole, FindNoRole, FindNoApp
<1>2. CASE IdpDelete(p) \/ MoveUsage(p) \/ DropUsage(p) \/ EvictUser(p) \/ EvictAll(p)
  BY <1>2, QuietStepOK, ThrowOK DEF IdpDelete, MoveUsage, DropUsage, EvictUser, EvictAll
<1> QED BY <1>1, <1>2

------------------------------------------------------------------------------
(* The steps that write, one lemma per collection.                          *)

LEMMA PatchUserOK ==
  ASSUME StoreOK, NEW u \in User, NEW new, users[u] # Null => new \in UserDoc, PatchUser(u, new)
  PROVE  StoreOK'
BY DEF PatchUser, StoreOK

LEMMA PatchRoleOK ==
  ASSUME StoreOK, NEW k \in RoleKey, NEW new, roles[k] # Null => new \in RoleDoc, PatchRole(k, new)
  PROVE  StoreOK'
BY DEF PatchRole, StoreOK

(* updateApp holds the document it falls back to when it writes.            *)
LEMMA WriteAppKnowsApp ==
  ASSUME RInv, NEW p \in Proc, At(p, "writeApp")
  PROVE  ops[p].app \in AppDoc
<1>1. OpOK(ops[p]) /\ ops[p].todo # <<>> /\ "writeApp" \in Head(ops[p].todo)
  BY CallOK
<1>2. ops[p].todo \in Seq(SUBSET StepName) /\ Planned(ops[p])
  BY <1>1 DEF OpOK, Op
<1>3. Head(ops[p].todo) = ops[p].todo[1] /\ 1 \in 1..Len(ops[p].todo)
  BY <1>1, <1>2
<1> QED BY <1>1, <1>2, <1>3 DEF Planned

LEMMA UserWriteStep ==
  ASSUME RInv, NEW p \in Proc,
         \/ WriteRoles(p) \/ WriteDisabled(p) \/ WriteActive(p) \/ PullOverride(p)
         \/ PushOverride(p) \/ RemoveUser(p) \/ MoveHolders(p) \/ StripHolders(p)
         \/ MoveOverrides(p) \/ DropOverrides(p)
  PROVE  RInv'
<1> DEFINE call == c(p)
<1>1. ASSUME NEW s, Done(p, s), s # "findApp"
      PROVE  /\ OpsOK'
             /\ call.u \in User /\ call.k \in RoleKey /\ call.k2 \in RoleKey
             /\ call.a \in AppKey /\ call.a2 \in AppKey
             /\ call.effect \in Effect /\ call.roles \in SUBSET RoleKey
  <2>1. call \in Call
    BY <1>1, CallOK DEF Done
  <2> QED BY <1>1, <2>1, DoneOK DEF Call
<1>2. StoreOK /\ \A u \in User : users[u] # Null => users[u] \in UserDoc
  BY DEF RInv, StoreOK
<1>3. CASE WriteRoles(p)
  <2>1. users[call.u] # Null => [users[call.u] EXCEPT !.roles = call.roles] \in UserDoc
    BY <1>1, <1>2, <1>3 DEF WriteRoles, UserDoc
  <2> QED BY <1>1, <1>2, <1>3, <2>1, PatchUserOK DEF WriteRoles, RInv
<1>4. CASE WriteDisabled(p)
  <2>1. users[call.u] # Null => [users[call.u] EXCEPT !.status = "disabled"] \in UserDoc
    BY <1>1, <1>2, <1>4 DEF WriteDisabled, UserDoc
  <2> QED BY <1>1, <1>2, <1>4, <2>1, PatchUserOK DEF WriteDisabled, RInv
<1>5. CASE WriteActive(p)
  <2>1. users[call.u] # Null => [users[call.u] EXCEPT !.status = "active"] \in UserDoc
    BY <1>1, <1>2, <1>5 DEF WriteActive, UserDoc
  <2> QED BY <1>1, <1>2, <1>5, <2>1, PatchUserOK DEF WriteActive, RInv
<1>6. CASE PullOverride(p)
  <2>1. users[call.u] # Null =>
          [users[call.u] EXCEPT !.overrides = {o \in @ : o.app # call.a}] \in UserDoc
    BY <1>1, <1>2, <1>6 DEF PullOverride, UserDoc
  <2> QED BY <1>1, <1>2, <1>6, <2>1, PatchUserOK DEF PullOverride, RInv
<1>7. CASE PushOverride(p)
  <2>1. [app |-> call.a, effect |-> call.effect] \in Override
    BY <1>1, <1>7 DEF PushOverride, Override
  <2>2. users[call.u] # Null =>
          [users[call.u] EXCEPT !.overrides =
             @ \cup {[app |-> call.a, effect |-> call.effect]}] \in UserDoc
    BY <1>1, <1>2, <1>7, <2>1 DEF PushOverride, UserDoc
  <2> QED BY <1>1, <1>2, <1>7, <2>2, PatchUserOK DEF PushOverride, RInv
<1>8. CASE RemoveUser(p)
  BY <1>1, <1>2, <1>8 DEF RemoveUser, RInv, StoreOK
<1>9. CASE MoveHolders(p)
  <2>1. \A u \in User : users[u] # Null =>
          [users[u] EXCEPT !.roles = (@ \ {call.k}) \cup {call.k2}] \in UserDoc
    BY <1>1, <1>2, <1>9 DEF MoveHolders, UserDoc
  <2>2. users' \in [User -> UserDoc \cup {Null}]
    BY <1>2, <1>9, <2>1 DEF MoveHolders, Holds, StoreOK
  <2> QED BY <1>1, <1>9, <2>2 DEF MoveHolders, RInv, StoreOK
<1>10. CASE StripHolders(p)
  <2>1. \A u \in User : users[u] # Null => [users[u] EXCEPT !.roles = @ \ {call.k}] \in UserDoc
    BY <1>1, <1>2, <1>10 DEF StripHolders, UserDoc
  <2>2. users' \in [User -> UserDoc \cup {Null}]
    BY <1>2, <1>10, <2>1 DEF StripHolders, Holds, StoreOK
  <2> QED BY <1>1, <1>10, <2>2 DEF StripHolders, RInv, StoreOK
<1>11. CASE MoveOverrides(p)
  <2>1. ASSUME NEW u \in User, users[u] # Null
        PROVE  [users[u] EXCEPT !.overrides =
                  {[o EXCEPT !.app = Rename(o.app, call.a, call.a2)] : o \in @}] \in UserDoc
    <3>1. \A o \in Override : [o EXCEPT !.app = Rename(o.app, call.a, call.a2)] \in Override
      BY <1>1, <1>11 DEF MoveOverrides, Override, Rename
    <3>2. users[u] \in UserDoc /\ users[u].overrides \subseteq Override
      BY <1>2, <2>1 DEF UserDoc
    <3>3. {[o EXCEPT !.app = Rename(o.app, call.a, call.a2)] : o \in users[u].overrides}
            \subseteq Override
      BY <3>1, <3>2
    <3> QED BY <3>2, <3>3 DEF UserDoc
  <2>2. users' \in [User -> UserDoc \cup {Null}]
    BY <1>11, <2>1 DEF MoveOverrides
  <2> QED BY <1>1, <1>11, <2>2 DEF MoveOverrides, RInv, StoreOK
<1>12. CASE DropOverrides(p)
  <2>1. \A u \in User : users[u] # Null =>
          [users[u] EXCEPT !.overrides = {o \in @ : o.app # call.a}] \in UserDoc
    BY <1>1, <1>2, <1>12 DEF DropOverrides, UserDoc
  <2>2. users' \in [User -> UserDoc \cup {Null}]
    BY <1>12, <2>1 DEF DropOverrides
  <2> QED BY <1>1, <1>12, <2>2 DEF DropOverrides, RInv, StoreOK
<1> QED BY <1>3, <1>4, <1>5, <1>6, <1>7, <1>8, <1>9, <1>10, <1>11, <1>12

LEMMA RoleWriteStep ==
  ASSUME RInv, NEW p \in Proc,
         \/ InsertRole(p) \/ PullGrant(p) \/ PushGrant(p) \/ RemoveRole(p) \/ MoveRole(p)
         \/ MoveGrants(p) \/ DropGrants(p)
  PROVE  RInv'
<1> DEFINE call == c(p)
<1>1. ASSUME NEW s, At(p, s)
      PROVE  /\ call.k \in RoleKey /\ call.k2 \in RoleKey
             /\ call.a \in AppKey /\ call.a2 \in AppKey
  BY <1>1, CallOK DEF Call
<1>2. StoreOK /\ \A k \in RoleKey : roles[k] # Null => roles[k] \in RoleDoc
  BY DEF RInv, StoreOK
<1>3. CASE InsertRole(p)
  <2>1. CASE Throw(p, "insertRole")
    BY <2>1, ThrowOK
  <2>2. CASE ~ Throw(p, "insertRole")
    <3>1. [grants |-> {}] \in RoleDoc
      BY DEF RoleDoc
    <3> QED BY <1>1, <1>2, <1>3, <2>2, <3>1, DoneOK DEF InsertRole, RInv, StoreOK
  <2> QED BY <2>1, <2>2
<1>4. CASE PullGrant(p)
  <2>1. roles[call.k] # Null => [roles[call.k] EXCEPT !.grants = @ \ {call.a}] \in RoleDoc
    BY <1>1, <1>2, <1>4 DEF PullGrant, Done, RoleDoc
  <2> QED BY <1>1, <1>2, <1>4, <2>1, PatchRoleOK, DoneOK DEF PullGrant, Done, RInv
<1>5. CASE PushGrant(p)
  <2>1. roles[call.k] # Null => [roles[call.k] EXCEPT !.grants = @ \cup {call.a}] \in RoleDoc
    BY <1>1, <1>2, <1>5 DEF PushGrant, Done, RoleDoc
  <2> QED BY <1>1, <1>2, <1>5, <2>1, PatchRoleOK, DoneOK DEF PushGrant, Done, RInv
<1>6. CASE RemoveRole(p)
  BY <1>2, <1>6, DoneOK DEF RemoveRole, RInv, StoreOK
<1>7. CASE MoveRole(p)
  <2>1. CASE Throw(p, "moveRole")
    BY <2>1, ThrowOK
  <2>2. CASE ~ Throw(p, "moveRole")
    BY <1>1, <1>2, <1>7, <2>2, DoneOK DEF MoveRole, RInv, StoreOK
  <2> QED BY <2>1, <2>2
<1>8. CASE MoveGrants(p)
  <2>1. ASSUME NEW k \in RoleKey, roles[k] # Null
        PROVE  [roles[k] EXCEPT !.grants = {Rename(a, call.a, call.a2) : a \in @}] \in RoleDoc
    <3>1. \A a \in AppKey : Rename(a, call.a, call.a2) \in AppKey
      BY <1>1, <1>8 DEF MoveGrants, Done, Rename
    <3> QED BY <1>2, <2>1, <3>1 DEF RoleDoc
  <2>2. roles' \in [RoleKey -> RoleDoc \cup {Null}]
    BY <1>8, <2>1 DEF MoveGrants
  <2> QED BY <1>2, <1>8, <2>2, DoneOK DEF MoveGrants, RInv, StoreOK
<1>9. CASE DropGrants(p)
  <2>1. \A k \in RoleKey : roles[k] # Null => [roles[k] EXCEPT !.grants = @ \ {call.a}] \in RoleDoc
    BY <1>2 DEF RoleDoc
  <2>2. roles' \in [RoleKey -> RoleDoc \cup {Null}]
    BY <1>9, <2>1 DEF DropGrants
  <2> QED BY <1>2, <1>9, <2>2, DoneOK DEF DropGrants, RInv, StoreOK
<1> QED BY <1>3, <1>4, <1>5, <1>6, <1>7, <1>8, <1>9

LEMMA AppWriteStep ==
  ASSUME RInv, NEW p \in Proc,
         \/ InsertApp(p) \/ WriteApp(p) \/ WriteSecret(p) \/ RemoveApp(p) \/ MoveApp(p)
  PROVE  RInv'
<1> DEFINE call == c(p)
<1>1. ASSUME NEW s, At(p, s)
      PROVE  call.a \in AppKey /\ call.a2 \in AppKey /\ call.status \in AppStatus \cup {"keep"}
             /\ call.public \in BOOLEAN
  BY <1>1, CallOK DEF Call
<1>2. StoreOK /\ \A a \in AppKey : apps[a] # Null => apps[a] \in AppDoc
  BY DEF RInv, StoreOK
<1>3. CASE InsertApp(p)
  <2>1. CASE Throw(p, "insertApp")
    BY <2>1, ThrowOK
  <2>2. CASE ~ Throw(p, "insertApp")
    <3>1. \A s \in Secret : [status |-> "active", public |-> FALSE, secret |-> s] \in AppDoc
      BY DEF AppDoc, AppStatus
    <3> QED BY <1>1, <1>2, <1>3, <2>2, <3>1, DoneOK DEF InsertApp, RInv, StoreOK
  <2> QED BY <2>1, <2>2
<1>4. CASE WriteApp(p)
  <2> DEFINE status == IF call.status = "keep" THEN ops[p].app.status ELSE call.status
  <2>1. At(p, "writeApp")
    BY <1>4 DEF WriteApp, Done
  <2>2. status \in AppStatus
    BY <1>1, <2>1, WriteAppKnowsApp DEF AppDoc
  <2>3. apps[call.a] # Null =>
          [apps[call.a] EXCEPT !.status = status, !.public = call.public] \in AppDoc
    BY <1>1, <1>2, <2>1, <2>2 DEF AppDoc
  <2>4. apps' = [apps EXCEPT ![call.a] =
                   IF @ = Null THEN Null
                   ELSE [@ EXCEPT !.status = status, !.public = call.public]]
    BY <1>4 DEF WriteApp
  <2> HIDE DEF status
  <2>5. apps' \in [AppKey -> AppDoc \cup {Null}]
    BY <1>1, <1>2, <2>1, <2>3, <2>4 DEF StoreOK
  <2> QED BY <1>2, <1>4, <2>5, DoneOK DEF WriteApp, RInv, StoreOK
<1>5. CASE WriteSecret(p)
  <2>1. PICK s \in Secret : apps' = [apps EXCEPT ![call.a] =
                                       IF @ = Null THEN Null ELSE [@ EXCEPT !.secret = s]]
    BY <1>5 DEF WriteSecret
  <2>2. \A a \in AppKey : apps[a] # Null => [apps[a] EXCEPT !.secret = s] \in AppDoc
    BY <1>2 DEF AppDoc
  <2>3. apps' \in [AppKey -> AppDoc \cup {Null}]
    BY <1>2, <2>1, <2>2 DEF StoreOK
  <2> QED BY <1>2, <1>5, <2>3, DoneOK DEF WriteSecret, RInv, StoreOK
<1>6. CASE RemoveApp(p)
  BY <1>2, <1>6, DoneOK DEF RemoveApp, RInv, StoreOK
<1>7. CASE MoveApp(p)
  <2>1. CASE Throw(p, "moveApp")
    BY <2>1, ThrowOK
  <2>2. CASE ~ Throw(p, "moveApp")
    BY <1>1, <1>2, <1>7, <2>2, DoneOK DEF MoveApp, RInv, StoreOK
  <2> QED BY <2>1, <2>2
<1> QED BY <1>3, <1>4, <1>5, <1>6, <1>7

LEMMA SessionStep ==
  ASSUME RInv, NEW p \in Proc, DropSessions(p) \/ OpenSession(p)
  PROVE  RInv'
<1>1. CASE DropSessions(p)
  BY <1>1, DoneOK DEF DropSessions, RInv, StoreOK
<1>2. CASE OpenSession(p)
  <2>1. c(p).u \in User
    BY <1>2, CallOK DEF OpenSession, Done, Call
  <2> QED BY <1>2, <2>1, DoneOK DEF OpenSession, RInv, StoreOK
<1> QED BY <1>1, <1>2

------------------------------------------------------------------------------
(* The invariant, and the theorem.                                          *)

LEMMA StoreStepKeepsRInv ==
  ASSUME RInv, NEW p \in Proc, StoreStep(p)
  PROVE  RInv'
BY StartStep, FindAppStep, ReadStep, UserWriteStep, RoleWriteStep, AppWriteStep, SessionStep
   DEF StoreStep

(* A restart of the portal: the superadmin, the demo app.                   *)

LEMMA RestoredOK ==
  ASSUME NEW user \in UserDoc \cup {Null}
  PROVE  Restored(user) \in UserDoc /\ WithDemo(Restored(user)) \in UserDoc
<1>1. Restored(user) \in UserDoc
  BY RegistryAssumption DEF Restored, UserDoc
<1>2. [app |-> DemoApp, effect |-> "allow"] \in Override
  BY RegistryAssumption DEF Override, Effect
<1> QED BY <1>1, <1>2 DEF WithDemo, UserDoc

LEMMA RestartPortalStep ==
  ASSUME RInv, RestartPortal
  PROVE  RInv'
<1>1. OpsOK'
  BY IdleOK DEF RestartPortal, OpsOK, OpOK
<1>2. users \in [User -> UserDoc \cup {Null}] /\ roles \in [RoleKey -> RoleDoc \cup {Null}]
  BY DEF RInv, StoreOK
<1>3. users' \in [User -> UserDoc \cup {Null}]
  <2>1. CASE EnsureSuperadmin
    BY <1>2, <2>1, RestoredOK DEF EnsureSuperadmin
  <2>2. CASE EnsureDemoApp
    BY <1>2, <2>2, RestoredOK DEF EnsureDemoApp
  <2> QED BY <2>1, <2>2 DEF RestartPortal, Bootstrap
<1>4. roles' \in [RoleKey -> RoleDoc \cup {Null}]
  <2>1. [grants |-> {}] \in RoleDoc
    BY DEF RoleDoc
  <2>2. roles' = [roles EXCEPT ![ProtectedRole] = IF @ = Null THEN [grants |-> {}] ELSE @]
    BY DEF RestartPortal, Bootstrap, EnsureSuperadmin, EnsureDemoApp
  <2> QED BY <1>2, <2>1, <2>2
<1>5. apps' \in [AppKey -> AppDoc \cup {Null}]
  <2>1. \A s \in Secret, b \in BOOLEAN : [status |-> "active", public |-> b, secret |-> s] \in AppDoc
    BY DEF AppDoc, AppStatus
  <2> QED BY <2>1 DEF RestartPortal, Bootstrap, EnsureDemoApp, RInv, StoreOK
<1>6. sessions' \subseteq User
  BY DEF RestartPortal, Bootstrap, RInv, StoreOK
<1> QED BY <1>1, <1>3, <1>4, <1>5, <1>6 DEF RInv, StoreOK

LEMMA RInitRInv == RInit => RInv
<1> SUFFICES ASSUME RInit PROVE RInv
  OBVIOUS
<1>1. StoreOK
  BY RegistryAssumption DEF RInit, StoreOK
<1>2. OpsOK
  BY IdleOK DEF RInit, OpsOK, OpOK
<1> QED BY <1>1, <1>2 DEF RInv

LEMMA RNextRInv == RInv /\ [RNext]_rvars => RInv'
<1> SUFFICES ASSUME RInv, [RNext]_rvars PROVE RInv'
  OBVIOUS
<1>1. ASSUME NEW p \in Proc, StoreStep(p) \/ EvictUser(p) \/ EvictAll(p)
      PROVE  RInv'
  BY <1>1, StoreStepKeepsRInv, ReadStep
<1>2. CASE UNCHANGED rvars
  BY <1>2 DEF rvars, RInv, StoreOK, OpsOK, OpOK, Planned
<1> QED BY <1>1, <1>2, RestartPortalStep DEF RNext

(* What a restart cut off are handlers.                                     *)
LEMMA TornStep ==
  ASSUME RInv, torn \subseteq DOMAIN Program, [RNext]_rvars
  PROVE  torn' \subseteq DOMAIN Program
<1>1. ASSUME NEW p \in Proc, Owes(p)
      PROVE  c(p).name \in DOMAIN Program
  BY <1>1, CallOK DEF Owes, Call
<1>2. CASE RestartPortal
  BY <1>1, <1>2 DEF RestartPortal
<1> QED BY <1>2 DEF RNext, rvars

(* The collections and the handlers in flight keep their types, however     *)
(* many handlers overlap: in particular updateApp (services/apps.ts) always *)
(* has a document to take the status from.                                  *)
THEOREM RegistryTypeCorrect == RSpec => []RegistryTypeOK
<1> DEFINE Inv == RInv /\ torn \subseteq DOMAIN Program
<1>1. RInit => Inv
  BY RInitRInv DEF RInit
<1>2. Inv /\ [RNext]_rvars => Inv'
  BY RNextRInv, TornStep
<1>3. Inv => RegistryTypeOK
  BY DEF RInv, StoreOK, OpsOK, RegistryTypeOK
<1> QED BY <1>1, <1>2, <1>3, PTL DEF RSpec

------------------------------------------------------------------------------
(* Nobody locks the portal: whatever handlers overlap and wherever a        *)
(* restart cuts them off, the superadmin stays active and the structural    *)
(* role stays (NoLockout).                                                  *)
(*                                                                          *)
(* The handlers ask isSuperadmin and PROTECTED_ROLE once, in their first    *)
(* step, and write several steps later.  The invariant says what that is    *)
(* worth in between: a handler that still has a dangerous step to make      *)
(* either has not asked yet, or does not name what is protected.            *)

Pending(op, s) == \E i \in 1..Len(op.todo) : s \in op.todo[i]

(* The steps that could take the superadmin, or the role, away, and the     *)
(* handlers that make them.                                                 *)
AskedUser(op) ==
  \A s \in {"writeDisabled", "removeUser"} :
    Pending(op, s) =>
      \/ op.call.u \notin SuperAdmin
      \/ op.todo[1] = {"findUser"} /\ op.call.name \in {"disableUser", "deleteUser"}
AskedRole(op) ==
  \A s \in {"moveRole", "removeRole"} :
    Pending(op, s) =>
      \/ op.call.k # ProtectedRole
      \/ op.todo[1] = {"findRole"} /\ op.call.name \in {"renameRole", "deleteRole"}
Careful(op) == op.todo # <<>> => AskedUser(op) /\ AskedRole(op)

LockInv == RInv /\ NoLockout /\ \A p \in Proc : Careful(ops[p])

------------------------------------------------------------------------------
(* The programs ask first.                                                  *)

(* No step of the program is dangerous.                                     *)
Harmless(program) ==
  \A i \in 1..Len(program) :
    program[i] \cap {"writeDisabled", "removeUser", "moveRole", "removeRole"} = {}

LEMMA ProgramCareful ==
  ASSUME NEW n \in DOMAIN Program
  PROVE  \/ Harmless(Program[n])
         \/ /\ n \in {"disableUser", "deleteUser"} /\ Program[n][1] = {"findUser"}
            /\ \A i \in 1..Len(Program[n]) : Program[n][i] \cap {"moveRole", "removeRole"} = {}
         \/ /\ n \in {"renameRole", "deleteRole"} /\ Program[n][1] = {"findRole"}
            /\ \A i \in 1..Len(Program[n]) : Program[n][i] \cap {"writeDisabled", "removeUser"} = {}
<1>1. CASE n = "disableUser"
  BY <1>1 DEF Program, DisableUser
<1>2. CASE n = "deleteUser"
  BY <1>2 DEF Program, DeleteUser
<1>3. CASE n = "renameRole"
  BY <1>3 DEF Program, RenameRole
<1>4. CASE n = "deleteRole"
  BY <1>4 DEF Program, DeleteRole
<1>5. CASE n \in {"setRoles", "setOverride", "deleteOverride", "enableUser"}
  <2>1. Harmless(SetRoles) /\ Harmless(SetOverride)
    BY DEF Harmless, SetRoles, SetOverride
  <2>2. Harmless(DeleteOverride) /\ Harmless(EnableUser)
    BY DEF Harmless, DeleteOverride, EnableUser
  <2> QED BY <1>5, <2>1, <2>2 DEF Program
<1>6. CASE n \in {"createRole", "addGrant", "deleteGrant", "createApp", "updateApp"}
  <2>1. Harmless(CreateRole) /\ Harmless(AddGrant)
    BY DEF Harmless, CreateRole, AddGrant
  <2>2. Harmless(DeleteGrant) /\ Harmless(CreateApp) /\ Harmless(UpdateApp)
    BY DEF Harmless, DeleteGrant, CreateApp, UpdateApp
  <2> QED BY <1>6, <2>1, <2>2 DEF Program
<1>7. CASE n \in {"renameApp", "deleteApp", "regenerateSecret", "signIn"}
  <2>1. Harmless(RenameApp) /\ Harmless(DeleteApp)
    BY DEF Harmless, RenameApp, DeleteApp
  <2>2. Harmless(RegenerateSecret) /\ Harmless(SignIn)
    BY DEF Harmless, RegenerateSecret, SignIn
  <2> QED BY <1>7, <2>1, <2>2 DEF Program
<1> QED BY <1>1, <1>2, <1>3, <1>4, <1>5, <1>6, <1>7 DEF Program

LEMMA StartCareful ==
  ASSUME NEW call \in Call, NEW op, op.call = call, op.todo = Program[call.name]
  PROVE  Careful(op)
<1>1. call.name \in DOMAIN Program
  BY DEF Call
<1> QED BY <1>1, ProgramCareful DEF Careful, AskedUser, AskedRole, Pending, Harmless

(* What is done is no longer to do.                                         *)
LEMMA PendingShrinks ==
  ASSUME NEW todo \in Seq(SUBSET StepName), todo # <<>>, NEW t, NEW s,
         NEW i \in 1..Len(Rest(todo, t)), s \in Rest(todo, t)[i]
  PROVE  \E j \in 1..Len(todo) : s \in todo[j]
<1>1. Len(todo) \in Nat \ {0}
  OBVIOUS
<1>2. CASE Head(todo) = {t}
  <2>1. i + 1 \in 1..Len(todo) /\ s \in todo[i + 1]
    BY <1>1, <1>2, RestSeq
  <2> QED BY <2>1
<1>3. CASE Head(todo) # {t}
  <2>1. i \in 1..Len(todo) /\ (i = 1 \/ i \in 2..Len(todo))
    BY <1>1, <1>3, RestSeq
  <2>2. s \in todo[i]
    BY <1>3, <2>1, RestSeq
  <2> QED BY <2>1, <2>2
<1> QED BY <1>2, <1>3

(* A step keeps a handler careful; the one that asks makes it so.           *)
LEMMA AdvanceCareful ==
  ASSUME NEW op \in Op, op.todo # <<>>, Careful(op), NEW t, t \in Head(op.todo),
         t = "findUser" /\ op.call.name \in {"disableUser", "deleteUser"}
           => op.call.u \notin SuperAdmin,
         t = "findRole" /\ op.call.name \in {"renameRole", "deleteRole"}
           => op.call.k # ProtectedRole
  PROVE  Careful(Advance(op, t))
<1> DEFINE new == [op EXCEPT !.todo = Rest(op.todo, t)]
<1>1. op.todo \in Seq(SUBSET StepName) /\ Head(op.todo) = op.todo[1]
  BY DEF Op
<1>2. new.call = op.call /\ new.todo = Rest(op.todo, t)
  BY DEF Op
<1>3. \A s : Pending(new, s) => Pending(op, s)
  BY <1>1, <1>2, PendingShrinks DEF Pending
<1>4. AskedUser(new)
  <2>1. ASSUME NEW s \in {"writeDisabled", "removeUser"}, Pending(new, s)
        PROVE  op.call.u \notin SuperAdmin
    <3>1. \/ op.call.u \notin SuperAdmin
          \/ op.todo[1] = {"findUser"} /\ op.call.name \in {"disableUser", "deleteUser"}
      BY <1>3, <2>1 DEF Careful, AskedUser
    <3> QED BY <1>1, <3>1
  <2> QED BY <1>2, <2>1 DEF AskedUser
<1>5. AskedRole(new)
  <2>1. ASSUME NEW s \in {"moveRole", "removeRole"}, Pending(new, s)
        PROVE  op.call.k # ProtectedRole
    <3>1. \/ op.call.k # ProtectedRole
          \/ op.todo[1] = {"findRole"} /\ op.call.name \in {"renameRole", "deleteRole"}
      BY <1>3, <2>1 DEF Careful, AskedRole
    <3> QED BY <1>1, <3>1
  <2> QED BY <1>2, <2>1 DEF AskedRole
<1>6. Careful(Idle)
  BY DEF Careful, Idle
<1> QED BY <1>4, <1>5, <1>6 DEF Advance, Careful

------------------------------------------------------------------------------
(* The handlers, after a step.                                              *)

LEMMA ReplaceCareful ==
  ASSUME LockInv, NEW p \in Proc, NEW op, Careful(op), ops' = [ops EXCEPT ![p] = op]
  PROVE  \A q \in Proc : Careful(ops'[q])
BY DEF LockInv, RInv, OpsOK

LEMMA DoneCareful ==
  ASSUME LockInv, NEW p \in Proc, NEW t, Done(p, t),
         t = "findUser" /\ c(p).name \in {"disableUser", "deleteUser"}
           => c(p).u \notin SuperAdmin,
         t = "findRole" /\ c(p).name \in {"renameRole", "deleteRole"}
           => c(p).k # ProtectedRole
  PROVE  \A q \in Proc : Careful(ops'[q])
<1>1. ops[p] \in Op /\ ops[p].todo # <<>> /\ t \in Head(ops[p].todo)
  BY CallOK DEF Done, OpOK, LockInv
<1>2. Careful(Advance(ops[p], t))
  BY <1>1, AdvanceCareful DEF c, LockInv
<1>3. ops' = [ops EXCEPT ![p] = Advance(ops[p], t)]
  BY DEF Done, LockInv, RInv, OpsOK
<1> QED BY <1>2, <1>3, ReplaceCareful

LEMMA ThrowCareful ==
  ASSUME LockInv, NEW p \in Proc, NEW t, Throw(p, t)
  PROVE  (\A q \in Proc : Careful(ops'[q])) /\ UNCHANGED store
<1>1. Careful(Idle)
  BY DEF Careful, Idle
<1> QED BY <1>1, ReplaceCareful DEF Throw

LEMMA StoreUnlocked == ASSUME NoLockout, UNCHANGED store PROVE NoLockout'
BY DEF NoLockout, store

(* A handler about to make a dangerous step has asked.                      *)
LEMMA Dangerous ==
  ASSUME LockInv, NEW p \in Proc
  PROVE  /\ At(p, "writeDisabled") \/ At(p, "removeUser") => c(p).u \notin SuperAdmin
         /\ At(p, "moveRole") \/ At(p, "removeRole") => c(p).k # ProtectedRole
<1>1. ASSUME NEW s, At(p, s)
      PROVE  Pending(ops[p], s) /\ s \in ops[p].todo[1] /\ Careful(ops[p]) /\ ops[p].todo # <<>>
  <2>1. OpOK(ops[p]) /\ ops[p].todo # <<>> /\ s \in Head(ops[p].todo)
    BY <1>1, CallOK DEF LockInv
  <2>2. ops[p].todo \in Seq(SUBSET StepName)
    BY <2>1 DEF OpOK, Op
  <2>3. Head(ops[p].todo) = ops[p].todo[1] /\ 1 \in 1..Len(ops[p].todo)
    BY <2>1, <2>2
  <2> QED BY <2>1, <2>3 DEF Pending, LockInv
<1> QED BY <1>1 DEF Careful, AskedUser, AskedRole, c

------------------------------------------------------------------------------
(* One lemma per group of steps.                                            *)

LEMMA ReadLocked ==
  ASSUME LockInv, NEW p \in Proc,
         \/ Start(p)
         \/ FindUser(p) \/ FindActive(p) \/ FindRole(p) \/ FindNoRole(p) \/ FindApp(p)
         \/ FindNoApp(p) \/ IdpDelete(p) \/ MoveUsage(p) \/ DropUsage(p)
         \/ EvictUser(p) \/ EvictAll(p)
  PROVE  NoLockout' /\ \A q \in Proc : Careful(ops'[q])
<1>1. CASE Start(p)
  <2>1. PICK call \in Calls :
          ops' = [ops EXCEPT ![p] =
                    [call |-> call, todo |-> Program[call.name], app |-> Null,
                     let0 |-> IF call.name = "renameApp"
                              THEN {u \in User : StoreAllows(u, call.a)} ELSE {},
                     held0 |-> IF call.name = "renameRole"
                               THEN {u \in User : \E k \in {call.k, call.k2} : Holds(users[u], k)}
                               ELSE {}]]
    BY <1>1 DEF Start
  <2> DEFINE op == [call |-> call, todo |-> Program[call.name], app |-> Null,
                    let0 |-> IF call.name = "renameApp"
                             THEN {u \in User : StoreAllows(u, call.a)} ELSE {},
                    held0 |-> IF call.name = "renameRole"
                              THEN {u \in User : \E k \in {call.k, call.k2} : Holds(users[u], k)}
                              ELSE {}]
  <2>2. call \in Call /\ op.call = call /\ op.todo = Program[call.name]
    BY RegistryAssumption
  <2>3. ops' = [ops EXCEPT ![p] = op]
    BY <2>1
  <2> HIDE DEF op
  <2>4. Careful(op)
    BY <2>2, StartCareful
  <2> QED BY <1>1, <2>3, <2>4, ReplaceCareful, StoreUnlocked DEF Start, LockInv
<1>2. ASSUME NEW t, NEW found, Check(p, t, found),
             found /\ t = "findUser" /\ c(p).name \in {"disableUser", "deleteUser"}
               => c(p).u \notin SuperAdmin,
             found /\ t = "findRole" /\ c(p).name \in {"renameRole", "deleteRole"}
               => c(p).k # ProtectedRole
      PROVE  NoLockout' /\ \A q \in Proc : Careful(ops'[q])
  <2>1. CASE found
    BY <1>2, <2>1, DoneCareful, StoreUnlocked DEF Check, LockInv
  <2>2. CASE ~ found
    BY <1>2, <2>2, ThrowCareful, StoreUnlocked DEF Check, LockInv
  <2> QED BY <2>1, <2>2
<1>3. CASE FindUser(p)
  BY <1>2, <1>3 DEF FindUser
<1>4. CASE FindRole(p)
  BY <1>2, <1>4 DEF FindRole
<1>5. CASE FindActive(p) \/ FindNoRole(p) \/ FindNoApp(p)
  BY <1>2, <1>5 DEF FindActive, FindNoRole, FindNoApp
<1>6. CASE FindApp(p)
  <2>1. CASE Throw(p, "findApp")
    BY <2>1, ThrowCareful, StoreUnlocked DEF LockInv
  <2>2. CASE ~ Throw(p, "findApp")
    <3> DEFINE adv == Advance(ops[p], "findApp")
               app == IF c(p).name = "updateApp" THEN apps[c(p).a] ELSE Null
               op  == [adv EXCEPT !.app = app]
    <3>1. ops' = [ops EXCEPT ![p] = op] /\ UNCHANGED store /\ At(p, "findApp")
      BY <1>6, <2>2 DEF FindApp, LockInv, RInv, OpsOK
    <3>2. ops[p] \in Op /\ ops[p].todo # <<>> /\ "findApp" \in Head(ops[p].todo)
      BY <3>1, CallOK DEF OpOK, LockInv
    <3>3. Careful(adv)
      BY <3>2, AdvanceCareful DEF LockInv
    <3>4. adv.todo = op.todo /\ adv.call = op.call
      <4>1. Idle.todo = [Idle EXCEPT !.app = app].todo /\ Idle.call = [Idle EXCEPT !.app = app].call
        BY DEF Idle
      <4> QED BY <3>2, <4>1 DEF Advance, Op
    <3> HIDE DEF adv, op
    <3>5. Careful(op)
      BY <3>3, <3>4 DEF Careful, AskedUser, AskedRole, Pending
    <3> QED BY <3>1, <3>5, ReplaceCareful, StoreUnlocked DEF LockInv
  <2> QED BY <2>1, <2>2
<1>7. CASE IdpDelete(p) \/ MoveUsage(p) \/ DropUsage(p) \/ EvictUser(p) \/ EvictAll(p)
  BY <1>7, DoneCareful, ThrowCareful, StoreUnlocked
     DEF IdpDelete, MoveUsage, DropUsage, EvictUser, EvictAll, LockInv
<1> QED BY <1>1, <1>3, <1>4, <1>5, <1>6, <1>7

LEMMA UserWriteLocked ==
  ASSUME LockInv, NEW p \in Proc,
         \/ WriteRoles(p) \/ WriteDisabled(p) \/ WriteActive(p) \/ PullOverride(p)
         \/ PushOverride(p) \/ RemoveUser(p) \/ MoveHolders(p) \/ StripHolders(p)
         \/ MoveOverrides(p) \/ DropOverrides(p)
  PROVE  NoLockout' /\ \A q \in Proc : Careful(ops'[q])
<1>1. \A q \in Proc : Careful(ops'[q])
  BY DoneCareful DEF WriteRoles, WriteDisabled, WriteActive, PullOverride, PushOverride, RemoveUser,
     MoveHolders, StripHolders, MoveOverrides, DropOverrides
<1>2. roles' = roles
  BY DEF WriteRoles, WriteDisabled, WriteActive, PullOverride, PushOverride, RemoveUser,
     MoveHolders, StripHolders, MoveOverrides, DropOverrides, PatchUser
<1>3. \A u \in SuperAdmin : u \in User /\ ActiveUser(users[u])
  BY RegistryAssumption DEF LockInv, NoLockout
<1>4. users \in [User -> UserDoc \cup {Null}]
  BY DEF LockInv, RInv, StoreOK
<1>5. ASSUME NEW v \in SuperAdmin
      PROVE  ActiveUser(users'[v])
  <2>1. v \in User /\ users[v] \in UserDoc /\ users[v] # Null /\ users[v].status = "active"
    BY <1>3, <1>4 DEF ActiveUser
  <2>2. ASSUME NEW ks \in SUBSET RoleKey
        PROVE  ActiveUser([users[v] EXCEPT !.roles = ks])
    <3>1. [users[v] EXCEPT !.roles = ks] \in UserDoc
      BY <2>1 DEF UserDoc
    <3> QED BY <2>1, <3>1, NullAssumption DEF ActiveUser, UserDoc
  <2>3. ASSUME NEW os \in SUBSET Override
        PROVE  ActiveUser([users[v] EXCEPT !.overrides = os])
    <3>1. [users[v] EXCEPT !.overrides = os] \in UserDoc
      BY <2>1 DEF UserDoc
    <3> QED BY <2>1, <3>1, NullAssumption DEF ActiveUser, UserDoc
  <2>4. users[v].roles \in SUBSET RoleKey /\ users[v].overrides \in SUBSET Override
    BY <2>1 DEF UserDoc
  <2>5. ASSUME NEW s, Done(p, s)
        PROVE  /\ c(p).u \in User /\ c(p).roles \in SUBSET RoleKey /\ c(p).k2 \in RoleKey
               /\ c(p).a \in AppKey /\ c(p).a2 \in AppKey /\ c(p).effect \in Effect
    BY <2>5, CallOK DEF Done, Call, LockInv
  <2>6. CASE WriteDisabled(p) \/ RemoveUser(p)
    <3>1. c(p).u \notin SuperAdmin
      BY <2>6, Dangerous DEF WriteDisabled, RemoveUser, Done
    <3> QED BY <1>3, <1>4, <2>6, <3>1 DEF WriteDisabled, RemoveUser, PatchUser, ActiveUser
  <2>7. CASE WriteRoles(p)
    <3>1. c(p).roles \in SUBSET RoleKey
      BY <2>5, <2>7 DEF WriteRoles
    <3>2. users'[v] \in {users[v], [users[v] EXCEPT !.roles = c(p).roles]}
      BY <1>4, <2>1, <2>7 DEF WriteRoles, PatchUser
    <3> QED BY <1>3, <2>2, <3>1, <3>2
  <2>8. CASE WriteActive(p)
    <3>1. [users[v] EXCEPT !.status = "active"] = users[v]
      BY <2>1 DEF UserDoc
    <3>2. users'[v] \in {users[v], [users[v] EXCEPT !.status = "active"]}
      BY <1>4, <2>1, <2>8 DEF WriteActive, PatchUser
    <3> QED BY <1>3, <3>1, <3>2
  <2>9. CASE PullOverride(p)
    <3> DEFINE os == {o \in users[v].overrides : o.app # c(p).a}
    <3>1. users'[v] \in {users[v], [users[v] EXCEPT !.overrides = os]}
      BY <1>4, <2>1, <2>9 DEF PullOverride, PatchUser
    <3>2. os \in SUBSET Override
      BY <2>4
    <3> HIDE DEF os
    <3> QED BY <1>3, <2>3, <3>1, <3>2
  <2>10. CASE PushOverride(p)
    <3> DEFINE os == users[v].overrides \cup {[app |-> c(p).a, effect |-> c(p).effect]}
    <3>1. users'[v] \in {users[v], [users[v] EXCEPT !.overrides = os]}
      BY <1>4, <2>1, <2>10 DEF PushOverride, PatchUser
    <3>2. os \in SUBSET Override
      BY <2>4, <2>5, <2>10 DEF PushOverride, Override
    <3> HIDE DEF os
    <3> QED BY <1>3, <2>3, <3>1, <3>2
  <2>11. CASE MoveHolders(p)
    <3> DEFINE ks == (users[v].roles \ {c(p).k}) \cup {c(p).k2}
    <3>1. users'[v] \in {users[v], [users[v] EXCEPT !.roles = ks]}
      BY <2>1, <2>11 DEF MoveHolders
    <3>2. ks \in SUBSET RoleKey
      BY <2>4, <2>5, <2>11 DEF MoveHolders
    <3> HIDE DEF ks
    <3> QED BY <1>3, <2>2, <3>1, <3>2
  <2>12. CASE StripHolders(p)
    <3> DEFINE ks == users[v].roles \ {c(p).k}
    <3>1. users'[v] \in {users[v], [users[v] EXCEPT !.roles = ks]}
      BY <2>1, <2>12 DEF StripHolders
    <3>2. ks \in SUBSET RoleKey
      BY <2>4
    <3> HIDE DEF ks
    <3> QED BY <1>3, <2>2, <3>1, <3>2
  <2>13. CASE MoveOverrides(p)
    <3> DEFINE os == {[o EXCEPT !.app = Rename(o.app, c(p).a, c(p).a2)] : o \in users[v].overrides}
    <3>1. users'[v] = [users[v] EXCEPT !.overrides = os]
      BY <2>1, <2>13 DEF MoveOverrides
    <3>2. \A o \in Override : [o EXCEPT !.app = Rename(o.app, c(p).a, c(p).a2)] \in Override
      BY <2>5, <2>13 DEF MoveOverrides, Override, Rename
    <3>3. os \in SUBSET Override
      BY <2>4, <3>2
    <3> HIDE DEF os
    <3> QED BY <2>3, <3>1, <3>3
  <2>14. CASE DropOverrides(p)
    <3> DEFINE os == {o \in users[v].overrides : o.app # c(p).a}
    <3>1. users'[v] = [users[v] EXCEPT !.overrides = os]
      BY <2>1, <2>14 DEF DropOverrides
    <3>2. os \in SUBSET Override
      BY <2>4
    <3> HIDE DEF os
    <3> QED BY <2>3, <3>1, <3>2
  <2> QED BY <2>6, <2>7, <2>8, <2>9, <2>10, <2>11, <2>12, <2>13, <2>14
<1> QED BY <1>1, <1>2, <1>5 DEF NoLockout, LockInv

LEMMA RoleWriteLocked ==
  ASSUME LockInv, NEW p \in Proc,
         \/ InsertRole(p) \/ PullGrant(p) \/ PushGrant(p) \/ RemoveRole(p) \/ MoveRole(p)
         \/ MoveGrants(p) \/ DropGrants(p)
  PROVE  NoLockout' /\ \A q \in Proc : Careful(ops'[q])
<1>1. \A q \in Proc : Careful(ops'[q])
  BY DoneCareful, ThrowCareful
     DEF InsertRole, PullGrant, PushGrant, RemoveRole, MoveRole, MoveGrants, DropGrants
<1>2. users' = users
  BY DEF InsertRole, PullGrant, PushGrant, RemoveRole, MoveRole, MoveGrants, DropGrants,
         PatchRole, Throw, store
<1>3. ASSUME NEW k \in RoleKey, roles[k] # Null,
             k = c(p).k => ~ MoveRole(p) /\ ~ RemoveRole(p)
      PROVE  roles'[k] # Null
  <2>1. roles \in [RoleKey -> RoleDoc \cup {Null}] /\ roles[k] \in RoleDoc
    BY <1>3 DEF LockInv, RInv, StoreOK
  <2>2. ASSUME NEW s, Done(p, s)
        PROVE  c(p).k \in RoleKey /\ c(p).k2 \in RoleKey /\ c(p).a \in AppKey /\ c(p).a2 \in AppKey
    BY <2>2, CallOK DEF Done, Call, LockInv
  <2>3. ASSUME NEW as \in SUBSET AppKey
        PROVE  [roles[k] EXCEPT !.grants = as] # Null
    <3>1. [roles[k] EXCEPT !.grants = as] \in RoleDoc
      BY <2>1 DEF RoleDoc
    <3> QED BY <3>1, NullAssumption
  <2>4. roles[k].grants \in SUBSET AppKey
    BY <2>1 DEF RoleDoc
  <2>5. CASE InsertRole(p)
    <3>1. roles'[k] = roles[k]
      BY <1>3, <2>1, <2>5 DEF InsertRole, Throw, store
    <3> QED BY <1>3, <3>1
  <2>6. CASE PullGrant(p)
    <3>1. roles'[k] \in {roles[k], [roles[k] EXCEPT !.grants = roles[k].grants \ {c(p).a}]}
      BY <2>1, <2>6 DEF PullGrant, PatchRole
    <3> QED BY <1>3, <2>3, <2>4, <3>1
  <2>7. CASE PushGrant(p)
    <3>1. roles'[k] \in {roles[k], [roles[k] EXCEPT !.grants = roles[k].grants \cup {c(p).a}]}
      BY <2>1, <2>7 DEF PushGrant, PatchRole
    <3>2. c(p).a \in AppKey
      BY <2>2, <2>7 DEF PushGrant
    <3> QED BY <1>3, <2>3, <2>4, <3>1, <3>2
  <2>8. CASE RemoveRole(p)
    BY <1>3, <2>1, <2>8 DEF RemoveRole
  <2>9. CASE MoveRole(p)
    <3>1. k # c(p).k
      BY <1>3, <2>9
    <3>2. roles'[k] \in {roles[k], roles[c(p).k]}
          /\ (roles'[k] = roles[c(p).k] => roles[c(p).k] # Null \/ roles'[k] = roles[k])
      BY <2>1, <2>9, <3>1 DEF MoveRole, Throw, store
    <3> QED BY <1>3, <3>2
  <2>10. CASE MoveGrants(p)
    <3> DEFINE as == {Rename(a, c(p).a, c(p).a2) : a \in roles[k].grants}
    <3>1. roles'[k] = [roles[k] EXCEPT !.grants = as]
      BY <1>3, <2>10 DEF MoveGrants
    <3>2. as \in SUBSET AppKey
      BY <2>2, <2>4, <2>10 DEF MoveGrants, Rename
    <3> HIDE DEF as
    <3> QED BY <2>3, <3>1, <3>2
  <2>11. CASE DropGrants(p)
    <3>1. roles'[k] = [roles[k] EXCEPT !.grants = roles[k].grants \ {c(p).a}]
      BY <1>3, <2>11 DEF DropGrants
    <3> QED BY <2>3, <2>4, <3>1
  <2> QED BY <2>5, <2>6, <2>7, <2>8, <2>9, <2>10, <2>11
<1>4. ProtectedRole \in RoleKey /\ roles[ProtectedRole] # Null
  BY RegistryAssumption DEF LockInv, NoLockout
<1>5. ProtectedRole = c(p).k => ~ MoveRole(p) /\ ~ RemoveRole(p)
  BY Dangerous DEF MoveRole, RemoveRole, Done
<1>6. roles'[ProtectedRole] # Null
  BY <1>3, <1>4, <1>5
<1> QED BY <1>1, <1>2, <1>6 DEF NoLockout, LockInv

LEMMA OtherLocked ==
  ASSUME LockInv, NEW p \in Proc,
         \/ InsertApp(p) \/ WriteApp(p) \/ WriteSecret(p) \/ RemoveApp(p) \/ MoveApp(p)
         \/ DropSessions(p) \/ OpenSession(p)
  PROVE  NoLockout' /\ \A q \in Proc : Careful(ops'[q])
<1>1. \A q \in Proc : Careful(ops'[q])
  BY DoneCareful, ThrowCareful
     DEF InsertApp, WriteApp, WriteSecret, RemoveApp, MoveApp, DropSessions, OpenSession
<1>2. UNCHANGED <<users, roles>>
  BY DEF InsertApp, WriteApp, WriteSecret, RemoveApp, MoveApp, DropSessions, OpenSession, Throw,
         store
<1> QED BY <1>1, <1>2 DEF NoLockout, LockInv

(* A restart restores what NoLockout says, whatever it finds.               *)
LEMMA RestartLocked ==
  ASSUME LockInv, RestartPortal
  PROVE  NoLockout' /\ \A q \in Proc : Careful(ops'[q])
<1>1. \A q \in Proc : Careful(ops'[q])
  BY DEF RestartPortal, Careful, Idle
<1>2. ASSUME NEW u \in SuperAdmin
      PROVE  ActiveUser(users'[u])
  <2>1. u \in User /\ users[u] \in UserDoc \cup {Null}
    BY RegistryAssumption DEF LockInv, RInv, StoreOK
  <2>2. Restored(users[u]) \in UserDoc /\ WithDemo(Restored(users[u])) \in UserDoc
    BY <2>1, RestoredOK
  <2>3. Restored(users[u]).status = "active"
    BY <2>1 DEF Restored, UserDoc
  <2>4. WithDemo(Restored(users[u])).status = "active"
    BY <2>2, <2>3 DEF WithDemo, UserDoc
  <2>5. users'[u] \in {Restored(users[u]), WithDemo(Restored(users[u]))}
    BY <2>1 DEF RestartPortal, Bootstrap, EnsureSuperadmin, EnsureDemoApp
  <2> QED BY <2>2, <2>3, <2>4, <2>5, NullAssumption DEF ActiveUser
<1>3. roles'[ProtectedRole] # Null
  <2>1. [grants |-> {}] # Null
    BY NullAssumption DEF RoleDoc
  <2> QED BY <2>1, RegistryAssumption
          DEF RestartPortal, Bootstrap, EnsureSuperadmin, EnsureDemoApp, LockInv, RInv, StoreOK
<1> QED BY <1>1, <1>2, <1>3 DEF NoLockout

------------------------------------------------------------------------------
(* The theorem.                                                             *)

LEMMA InitLocked == RInit => LockInv
<1> SUFFICES ASSUME RInit PROVE LockInv
  OBVIOUS
<1>1. NoLockout
  BY BootstrapAssumption DEF RInit, NoLockout
<1>2. \A p \in Proc : Careful(ops[p])
  BY DEF RInit, Careful, Idle
<1> QED BY <1>1, <1>2, RInitRInv DEF LockInv

LEMMA NextLocked == LockInv /\ [RNext]_rvars => LockInv'
<1> SUFFICES ASSUME LockInv, [RNext]_rvars PROVE LockInv'
  OBVIOUS
<1>1. RInv'
  BY RNextRInv DEF LockInv
<1>2. ASSUME NEW p \in Proc, StoreStep(p) \/ EvictUser(p) \/ EvictAll(p)
      PROVE  NoLockout' /\ \A q \in Proc : Careful(ops'[q])
  BY <1>2, ReadLocked, UserWriteLocked, RoleWriteLocked, OtherLocked DEF StoreStep
<1>3. CASE UNCHANGED rvars
  <2>1. NoLockout'
    BY <1>3 DEF rvars, LockInv, NoLockout
  <2>2. \A q \in Proc : Careful(ops'[q])
    BY <1>3 DEF rvars, LockInv
  <2> QED BY <1>1, <2>1, <2>2 DEF LockInv
<1>4. \A q \in Proc : Careful(ops'[q]) <=> Careful(ops[q])'
  OBVIOUS
<1> QED BY <1>1, <1>2, <1>3, <1>4, RestartLocked DEF RNext, LockInv

(* "The system_admin role and the configured superadmin account are         *)
(* structural ... so they are protected" (services/common.ts): for any      *)
(* number of overlapping handlers and restarts, the superadmin is active    *)
(* and the structural role is there.                                        *)
THEOREM PortalNeverLocked == RSpec => []NoLockout
<1>1. LockInv => NoLockout
  BY DEF LockInv
<1> QED BY <1>1, InitLocked, NextLocked, PTL DEF RSpec

------------------------------------------------------------------------------
(***************************************************************************)
(* The references of the registry: no grant and no override dangles, nobody *)
(* has two overrides for one app, renames keep access, who is not active    *)
(* has no session.  A handler checks, and writes some awaits later; what    *)
(* it has found stays true unless a handler that clashes with its call runs *)
(* in between.  So each theorem is for any number of overlapping handlers,  *)
(* and says which calls clash: those must not overlap.                      *)
(***************************************************************************)

Busy(p) == ops[p].todo # <<>>
Left(p) == Len(ops[p].todo)   \* store calls (or pairs of them) still to await

------------------------------------------------------------------------------
(* What clashes.                                                            *)

(* The apps a call takes away, and those it counts on.                      *)
Takes(call) ==
  IF call.name = "deleteApp" THEN {call.a}
  ELSE IF call.name = "renameApp" THEN {call.a, call.a2} ELSE {}
Uses(call) == IF call.name \in {"addGrant", "setOverride"} THEN {call.a} ELSE Takes(call)

AppsClash(one, two) == Takes(one) \cap Uses(two) # {} \/ Takes(two) \cap Uses(one) # {}
AppsApart ==
  \A p, q \in Proc : p # q /\ Busy(p) /\ Busy(q) => ~ AppsClash(c(p), c(q))

(* Two overrides of one user for one app.                                   *)
OverridesApart ==
  \A p, q \in Proc : p # q /\ Busy(p) /\ Busy(q) =>
    ~ /\ c(p).name = "setOverride" /\ c(q).name = "setOverride"
      /\ c(p).u = c(q).u /\ c(p).a = c(q).a

(* A sign-in of a user who is being disabled or deleted.                    *)
SignInsApart ==
  \A p, q \in Proc : Busy(p) /\ Busy(q) =>
    ~ /\ c(p).name = "signIn" /\ c(q).name \in {"disableUser", "deleteUser"}
      /\ c(p).u = c(q).u

(* What a rename or a deletion of a role has made of its holders lasts      *)
(* until somebody changes it: its call counts until the next one.           *)
RoleKeys(call) ==
  IF call.name = "renameRole" THEN {call.k, call.k2}
  ELSE IF call.name = "deleteRole" THEN {call.k} ELSE {}
RolesClash(one, two) ==
  \/ one.name \in {"renameRole", "deleteRole"} /\ two.name = "setRoles"
  \/ one.name = "renameRole" /\ two.name = "deleteUser"
  \/ RoleKeys(one) \cap RoleKeys(two) # {}
RolesApart ==
  \A p, q \in Proc : p # q /\ c(p) # Null /\ Busy(q) => ~ RolesClash(c(p), c(q))

(* An app is renamed while nothing else is done.                            *)
RenamesAlone ==
  \A p, q \in Proc : p # q /\ c(p) # Null /\ c(p).name = "renameApp" => ~ Busy(q)

------------------------------------------------------------------------------
(* The invariants.                                                          *)

(* A handler in flight follows its program: what is left is the end of it,  *)
(* but for the calls of the first set that are done.                        *)
Follows(op) ==
  LET program == Program[op.call.name]
      done    == Len(program) - Len(op.todo)
  IN op.todo # <<>> =>
       /\ done \in Nat
       /\ op.todo[1] # {} /\ op.todo[1] \subseteq program[done + 1]
       /\ \A i \in 2..Len(op.todo) : op.todo[i] = program[done + i]
ControlInv == RInv /\ \A p \in Proc : Follows(ops[p])

Granted(a)    == \E k \in RoleKey : roles[k] # Null /\ a \in roles[k].grants
Overridden(a) == \E u \in User : users[u] # Null /\ \E o \in users[u].overrides : o.app = a

(* A reference is to an app that exists, or to one whose new name a rename  *)
(* in flight will put in its place.                                         *)
Owed(a, s) == \E p \in Proc : At(p, s) /\ c(p).a = a
GrantsStand    == \A a \in AppKey : Granted(a) => apps[a] # Null \/ Owed(a, "moveGrants")
OverridesStand == \A a \in AppKey : Overridden(a) => apps[a] # Null \/ Owed(a, "moveOverrides")

(* What a handler has found, or made of the store, and builds on.           *)
KnowsApp(p) ==
  Busy(p) =>
    /\ c(p).name \in {"addGrant", "setOverride"} /\ Left(p) <= 3 => apps[c(p).a] # Null
    /\ c(p).name = "renameApp" =>
         /\ Left(p) \in {4, 5} => apps[c(p).a] # Null
         /\ Left(p) = 3 => apps[c(p).a2] # Null
    /\ c(p).name = "deleteApp" /\ Left(p) \in {3, 4} =>
         /\ "dropGrants" \notin ops[p].todo[1] => ~ Granted(c(p).a)
         /\ "dropOverrides" \notin ops[p].todo[1] => ~ Overridden(c(p).a)

AppsInv ==
  "renameApp" \notin torn =>
    GrantsStand /\ OverridesStand /\ \A p \in Proc : KnowsApp(p)

(* Overrides: a setOverride that has pulled leaves none to meet; a rename   *)
(* that has moved the app finds none of the new key.                        *)
Single(u) == users[u] # Null =>
               \A o1, o2 \in users[u].overrides : o1.app = o2.app => o1 = o2
Pulled(p) ==
  /\ At(p, "pushOverride") /\ users[c(p).u] # Null =>
       \A o \in users[c(p).u].overrides : o.app # c(p).a
  /\ At(p, "moveOverrides") => ~ Overridden(c(p).a2)
OverridesInv ==
  "renameApp" \notin torn => (\A u \in User : Single(u)) /\ \A p \in Proc : Pulled(p)

(* Sessions.                                                                *)
OwesSessions(p, u) == At(p, "dropSessions") /\ c(p).name = "disableUser" /\ c(p).u = u
KnowsUser(p) ==
  Busy(p) =>
    /\ c(p).name = "signIn" /\ Left(p) = 1 => ActiveUser(users[c(p).u])
    /\ c(p).name = "deleteUser" /\ Left(p) <= 4 => c(p).u \notin sessions
SessionsInv ==
  "disableUser" \notin torn =>
    /\ \A u \in sessions : ActiveUser(users[u]) \/ \E p \in Proc : OwesSessions(p, u)
    /\ \A p \in Proc : KnowsUser(p)

(* Holders.                                                                 *)
Held(k) == {u \in User : Holds(users[u], k)}
KnowsRole(p) ==
  c(p) # Null =>
    /\ c(p).name = "renameRole" =>
         /\ Left(p) \in {3, 4} => roles[c(p).k] # Null
         /\ Left(p) <= 2 => roles[c(p).k2] # Null /\ c(p).k # c(p).k2
         /\ Left(p) >= 2 => Held(c(p).k) \cup Held(c(p).k2) = ops[p].held0
         /\ Left(p) <= 1 => Held(c(p).k2) = ops[p].held0 /\ Held(c(p).k) = {}
    /\ c(p).name = "deleteRole" /\ Left(p) <= 2 => Held(c(p).k) = {}
HoldersInv == \A p \in Proc : KnowsRole(p)

(* Access.  Half way through a rename the app, its grants and its overrides *)
(* may go by different keys.                                                *)
LetIn(a, granted, overridden) ==
  {u \in User : /\ ActiveUser(users[u]) /\ ActiveApp(apps[a])
                /\ ~ HasOverride(users[u], overridden, "deny")
                /\ \/ HasOverride(users[u], overridden, "allow")
                   \/ GrantingRoles(users[u], granted, roles) # {}}
AppNow(p)  == IF Left(p) >= 4 THEN c(p).a ELSE c(p).a2
KeyNow(p, s) == IF Left(p) >= 4 \/ At(p, s) THEN c(p).a ELSE c(p).a2
KnowsAccess(p) ==
  c(p) # Null /\ c(p).name = "renameApp" =>
    /\ LetIn(AppNow(p), KeyNow(p, "moveGrants"), KeyNow(p, "moveOverrides")) = ops[p].let0
    /\ At(p, "moveGrants") => ~ Granted(c(p).a2)
    /\ At(p, "moveOverrides") => ~ Overridden(c(p).a2)
AccessInv == "renameApp" \notin torn => \A p \in Proc : KnowsAccess(p)
------------------------------------------------------------------------------
(* The programs.                                                            *)

Pairs == {{"moveGrants", "moveOverrides"}, {"dropGrants", "dropOverrides"}}

(* Which handlers make a step, with how many sets of calls left.            *)
Place(n, left, s) ==
  /\ s = "writeRoles" => n = "setRoles"
  /\ s = "writeDisabled" => (n = "disableUser" /\ left = 3)
  /\ s = "pushOverride" => (n = "setOverride" /\ left = 2)
  /\ s = "pullOverride" => (n = "setOverride" /\ left = 3) \/ n = "deleteOverride"
  /\ s = "removeUser" => (n = "deleteUser" /\ left = 2)
  /\ s = "dropSessions" => (n = "disableUser" /\ left = 2) \/ (n = "deleteUser" /\ left = 5)
  /\ s = "openSession" => (n = "signIn" /\ left = 1)
  /\ s = "pushGrant" => (n = "addGrant" /\ left = 2)
  /\ s = "pullGrant" => (n = "addGrant" /\ left = 3) \/ n = "deleteGrant"
  /\ s = "removeRole" => (n = "deleteRole" /\ left = 2)
  /\ s = "stripHolders" => (n = "deleteRole" /\ left = 3)
  /\ s = "moveRole" => (n = "renameRole" /\ left = 3)
  /\ s = "moveHolders" => (n = "renameRole" /\ left = 2)
  /\ s = "removeApp" => (n = "deleteApp" /\ left = 3)
  /\ s \in {"dropGrants", "dropOverrides"} => (n = "deleteApp" /\ left = 4)
  /\ s = "moveApp" => (n = "renameApp" /\ left = 4)
  /\ s \in {"moveGrants", "moveOverrides"} => (n = "renameApp" /\ left = 3)
PlaceOfReads(n, left, s) ==
  /\ s = "findUser" => n \in {"setRoles", "enableUser", "disableUser"}
                       \/ (n = "setOverride" /\ left = 5) \/ (n = "deleteUser" /\ left = 6)
  /\ s = "findActive" => (n = "signIn" /\ left = 2)
  /\ s = "findRole" => \/ (n \in {"renameRole", "addGrant"} /\ left = 5)
                       \/ (n = "deleteRole" /\ left = 4) \/ n = "deleteGrant"
  /\ s = "findNoRole" => (n = "renameRole" /\ left = 4) \/ n = "createRole"
  /\ s = "findApp" => \/ (n \in {"setOverride", "addGrant"} /\ left = 4)
                      \/ (n = "renameApp" /\ left = 6) \/ (n = "deleteApp" /\ left = 5)
                      \/ n \in {"updateApp", "regenerateSecret"}
  /\ s = "findNoApp" => (n = "renameApp" /\ left = 5) \/ n = "createApp"
  /\ s = "idpDelete" => (n = "deleteUser" /\ left = 3)
  /\ s = "moveUsage" => (n = "renameApp" /\ left = 2)
  /\ s = "dropUsage" => (n = "deleteUser" /\ left = 1) \/ (n = "deleteApp" /\ left = 2)
  /\ s = "evictUser" => left = 1 \/ (n = "deleteUser" /\ left = 4)
  /\ s = "evictAll" => left = 1
  /\ s = "insertRole" => n = "createRole"
  /\ s = "insertApp" => n = "createApp"
  /\ s = "writeActive" => n = "enableUser"
  /\ s = "writeApp" => n = "updateApp"
  /\ s = "writeSecret" => n = "regenerateSecret"

LEMMA StepTable ==
  ASSUME NEW n \in DOMAIN Program, NEW i \in 1..Len(Program[n]), NEW s \in Program[n][i]
  PROVE  /\ Place(n, Len(Program[n]) + 1 - i, s)
         /\ PlaceOfReads(n, Len(Program[n]) + 1 - i, s)
         /\ Program[n][i] = {s} \/ Program[n][i] \in Pairs
<1>1. CASE n = "setRoles"
  BY <1>1 DEF Program, SetRoles, Place, PlaceOfReads, Pairs
<1>2. CASE n = "setOverride"
  BY <1>2 DEF Program, SetOverride, Place, PlaceOfReads, Pairs
<1>3. CASE n = "deleteOverride"
  BY <1>3 DEF Program, DeleteOverride, Place, PlaceOfReads, Pairs
<1>4. CASE n = "disableUser"
  BY <1>4 DEF Program, DisableUser, Place, PlaceOfReads, Pairs
<1>5. CASE n = "enableUser"
  BY <1>5 DEF Program, EnableUser, Place, PlaceOfReads, Pairs
<1>6. CASE n = "deleteUser"
  BY <1>6 DEF Program, DeleteUser, Place, PlaceOfReads, Pairs
<1>7. CASE n = "createRole"
  BY <1>7 DEF Program, CreateRole, Place, PlaceOfReads, Pairs
<1>8. CASE n = "renameRole"
  BY <1>8 DEF Program, RenameRole, Place, PlaceOfReads, Pairs
<1>9. CASE n = "addGrant"
  BY <1>9 DEF Program, AddGrant, Place, PlaceOfReads, Pairs
<1>10. CASE n = "deleteGrant"
  BY <1>10 DEF Program, DeleteGrant, Place, PlaceOfReads, Pairs
<1>11. CASE n = "deleteRole"
  BY <1>11 DEF Program, DeleteRole, Place, PlaceOfReads, Pairs
<1>12. CASE n = "createApp"
  BY <1>12 DEF Program, CreateApp, Place, PlaceOfReads, Pairs
<1>13. CASE n = "updateApp"
  BY <1>13 DEF Program, UpdateApp, Place, PlaceOfReads, Pairs
<1>14. CASE n = "renameApp"
  BY <1>14 DEF Program, RenameApp, Place, PlaceOfReads, Pairs
<1>15. CASE n = "deleteApp"
  BY <1>15 DEF Program, DeleteApp, Place, PlaceOfReads, Pairs
<1>16. CASE n = "regenerateSecret"
  BY <1>16 DEF Program, RegenerateSecret, Place, PlaceOfReads, Pairs
<1>17. CASE n = "signIn"
  BY <1>17 DEF Program, SignIn, Place, PlaceOfReads, Pairs
<1> QED BY <1>1, <1>2, <1>3, <1>4, <1>5, <1>6, <1>7, <1>8, <1>9, <1>10, <1>11, <1>12, <1>13, <1>14,
           <1>15, <1>16, <1>17 DEF Program

(* The handlers that build on what they find: how long they are, and the    *)
(* calls that are awaited together.                                         *)
LEMMA Lengths ==
  /\ Len(Program["renameApp"]) = 6 /\ Len(Program["deleteApp"]) = 5
  /\ Len(Program["addGrant"]) = 5 /\ Len(Program["setOverride"]) = 5
  /\ Len(Program["signIn"]) = 2 /\ Len(Program["deleteUser"]) = 6
  /\ Len(Program["renameRole"]) = 5 /\ Len(Program["deleteRole"]) = 4
  /\ Program["renameApp"][4] = {"moveGrants", "moveOverrides"}
  /\ Program["deleteApp"][2] = {"dropGrants", "dropOverrides"}
<1>1. /\ Program["renameApp"] = RenameApp /\ Program["deleteApp"] = DeleteApp
      /\ Program["addGrant"] = AddGrant /\ Program["setOverride"] = SetOverride
      /\ Program["signIn"] = SignIn /\ Program["deleteUser"] = DeleteUser
      /\ Program["renameRole"] = RenameRole /\ Program["deleteRole"] = DeleteRole
  BY DEF Program
<1>2. Len(RenameApp) = 6 /\ RenameApp[4] = {"moveGrants", "moveOverrides"}
  BY DEF RenameApp
<1>3. Len(DeleteApp) = 5 /\ DeleteApp[2] = {"dropGrants", "dropOverrides"}
  BY DEF DeleteApp
<1>4. Len(AddGrant) = 5 /\ Len(SetOverride) = 5
  BY DEF AddGrant, SetOverride
<1>5. Len(SignIn) = 2 /\ Len(DeleteUser) = 6
  BY DEF SignIn, DeleteUser
<1>6. Len(RenameRole) = 5 /\ Len(DeleteRole) = 4
  BY DEF RenameRole, DeleteRole
<1> QED BY <1>1, <1>2, <1>3, <1>4, <1>5, <1>6

(* No program is empty, and none of its sets of calls is.                   *)
LEMMA ProgramFull ==
  ASSUME NEW n \in DOMAIN Program
  PROVE  /\ Program[n] \in Seq(SUBSET StepName) /\ Len(Program[n]) \in Nat \ {0}
         /\ \A i \in 1..Len(Program[n]) : Program[n][i] # {}
<1> SUFFICES /\ Len(Program[n]) # 0
             /\ \A i \in 1..Len(Program[n]) : Program[n][i] # {}
  BY ProgramPlanned
<1>1. CASE n = "setRoles"
  BY <1>1 DEF Program, SetRoles
<1>2. CASE n = "setOverride"
  BY <1>2 DEF Program, SetOverride
<1>3. CASE n = "deleteOverride"
  BY <1>3 DEF Program, DeleteOverride
<1>4. CASE n = "disableUser"
  BY <1>4 DEF Program, DisableUser
<1>5. CASE n = "enableUser"
  BY <1>5 DEF Program, EnableUser
<1>6. CASE n = "deleteUser"
  BY <1>6 DEF Program, DeleteUser
<1>7. CASE n = "createRole"
  BY <1>7 DEF Program, CreateRole
<1>8. CASE n = "renameRole"
  BY <1>8 DEF Program, RenameRole
<1>9. CASE n = "addGrant"
  BY <1>9 DEF Program, AddGrant
<1>10. CASE n = "deleteGrant"
  BY <1>10 DEF Program, DeleteGrant
<1>11. CASE n = "deleteRole"
  BY <1>11 DEF Program, DeleteRole
<1>12. CASE n = "createApp"
  BY <1>12 DEF Program, CreateApp
<1>13. CASE n = "updateApp"
  BY <1>13 DEF Program, UpdateApp
<1>14. CASE n = "renameApp"
  BY <1>14 DEF Program, RenameApp
<1>15. CASE n = "deleteApp"
  BY <1>15 DEF Program, DeleteApp
<1>16. CASE n = "regenerateSecret"
  BY <1>16 DEF Program, RegenerateSecret
<1>17. CASE n = "signIn"
  BY <1>17 DEF Program, SignIn
<1> QED BY <1>1, <1>2, <1>3, <1>4, <1>5, <1>6, <1>7, <1>8, <1>9, <1>10,
           <1>11, <1>12, <1>13, <1>14, <1>15, <1>16, <1>17 DEF Program

------------------------------------------------------------------------------
(* A handler's step: it goes on to what remains, or it is over.             *)

Others(p)  == \A q \in Proc : q # p => ops'[q] = ops[q]
Goes(p, s) ==
  /\ ops'[p].todo = Rest(ops[p].todo, s) /\ ops'[p].call = ops[p].call
  /\ ops'[p].let0 = ops[p].let0 /\ ops'[p].held0 = ops[p].held0
Stops(p)    == ops'[p].todo = <<>> /\ ops'[p].call = Null
Moves(p, s) ==
  /\ At(p, s) /\ Others(p)
  /\ \/ Goes(p, s)
     \/ Stops(p) /\ Left(p) = 1 /\ c(p).name \notin Remembered
Halts(p, s) == At(p, s) /\ Others(p) /\ Stops(p) /\ UNCHANGED store

LEMMA OpShape ==
  ASSUME RInv, NEW p \in Proc
  PROVE  /\ ops[p] \in Op /\ ops[p].todo \in Seq(SUBSET StepName)
         /\ Left(p) \in Nat /\ (Busy(p) <=> Left(p) # 0)
         /\ Busy(p) => c(p) \in Call /\ c(p).name \in DOMAIN Program
                       /\ Head(ops[p].todo) = ops[p].todo[1]
         /\ c(p) # Null => c(p) \in Call
<1>1. ops[p] \in Op /\ (Busy(p) => c(p) \in Call)
  BY DEF RInv, OpsOK, OpOK, Busy, c
<1>2. ops[p].todo \in Seq(SUBSET StepName) /\ c(p) \in Call \cup {Null}
  BY <1>1 DEF Op, c
<1>3. Left(p) \in Nat /\ (Busy(p) <=> Left(p) # 0) /\ (Busy(p) => Head(ops[p].todo) = ops[p].todo[1])
  BY <1>2 DEF Left, Busy
<1> QED BY <1>1, <1>2, <1>3 DEF Call

LEMMA DoneMoves ==
  ASSUME RInv, NEW p \in Proc, NEW s, Done(p, s)
  PROVE  Moves(p, s)
<1>1. ops[p] \in Op /\ ops[p].todo # <<>> /\ s \in Head(ops[p].todo) /\ Left(p) \in Nat
  BY OpShape DEF Done, At
<1>2. ops'[p] = Advance(ops[p], s) /\ Others(p)
  BY DEF Done, RInv, OpsOK, Others
<1>3. \/ Goes(p, s)
      \/ Stops(p) /\ Rest(ops[p].todo, s) = <<>> /\ c(p).name \notin Remembered
  BY <1>1, <1>2 DEF Advance, Idle, Goes, Stops, Op, c
<1>4. Rest(ops[p].todo, s) = <<>> => Left(p) = 1
  <2>1. ops[p].todo \in Seq(SUBSET StepName)
    BY OpShape
  <2>2. Rest(ops[p].todo, s) = <<>> => Len(Rest(ops[p].todo, s)) = 0
    OBVIOUS
  <2>3. Len(Rest(ops[p].todo, s)) \in {Left(p), Left(p) - 1} /\ Left(p) # 0
    BY <1>1, <2>1, RestSeq DEF Left
  <2> QED BY <1>1, <2>2, <2>3
<1> QED BY <1>2, <1>3, <1>4 DEF Moves, Done

LEMMA ThrowHalts ==
  ASSUME RInv, NEW p \in Proc, NEW s, Throw(p, s)
  PROVE  Halts(p, s)
BY DEF Throw, Halts, Others, Stops, Idle, RInv, OpsOK

LEMMA CheckMoves ==
  ASSUME RInv, NEW p \in Proc, NEW s, NEW found, Check(p, s, found)
  PROVE  (found /\ Moves(p, s) /\ UNCHANGED store) \/ Halts(p, s)
BY DoneMoves, ThrowHalts DEF Check

LEMMA FindAppMoves ==
  ASSUME RInv, NEW p \in Proc, FindApp(p)
  PROVE  \/ apps[c(p).a] # Null /\ Moves(p, "findApp") /\ UNCHANGED store
         \/ Halts(p, "findApp")
<1> DEFINE adv == Advance(ops[p], "findApp")
           app == IF c(p).name = "updateApp" THEN apps[c(p).a] ELSE Null
<1>1. CASE Throw(p, "findApp")
  BY <1>1, ThrowHalts
<1>2. CASE ~ Throw(p, "findApp")
  <2>1. /\ apps[c(p).a] # Null /\ UNCHANGED store /\ At(p, "findApp")
        /\ ops' = [ops EXCEPT ![p] = [Advance(@, "findApp") EXCEPT !.app = app]]
    BY <1>2 DEF FindApp
  <2>2. ops'[p] = [adv EXCEPT !.app = app] /\ Others(p)
    BY <2>1 DEF RInv, OpsOK, Others
  <2>3. /\ Rest(ops[p].todo, "findApp") \in Seq(SUBSET StepName)
        /\ Len(Rest(ops[p].todo, "findApp")) \in {Left(p), Left(p) - 1} /\ Left(p) \in Nat \ {0}
    <3>1. ops[p].todo \in Seq(SUBSET StepName) /\ ops[p].todo # <<>>
      BY <2>1, OpShape DEF At
    <3> QED BY <3>1, RestSeq DEF Left
  <2>4. Rest(ops[p].todo, "findApp") = <<>> => Left(p) = 1
    <3>1. Rest(ops[p].todo, "findApp") = <<>> => Len(Rest(ops[p].todo, "findApp")) = 0
      OBVIOUS
    <3> QED BY <2>3, <3>1
  <2>5. CASE Rest(ops[p].todo, "findApp") = <<>> /\ c(p).name \notin Remembered
    <3>1. adv = Idle
      BY <2>5 DEF Advance, c
    <3>2. ops'[p].todo = <<>> /\ ops'[p].call = Null
      BY <2>2, <3>1 DEF Idle
    <3> QED BY <2>1, <2>2, <2>4, <2>5, <3>2 DEF Moves, Stops
  <2>6. CASE ~ (Rest(ops[p].todo, "findApp") = <<>> /\ c(p).name \notin Remembered)
    <3>1. adv = [ops[p] EXCEPT !.todo = Rest(ops[p].todo, "findApp")] /\ ops[p] \in Op
      BY <2>6, OpShape DEF Advance, c
    <3>2. Goes(p, "findApp")
      BY <2>2, <3>1 DEF Goes, Op
    <3> QED BY <2>1, <2>2, <3>2 DEF Moves
  <2> QED BY <2>5, <2>6
<1> QED BY <1>1, <1>2

LEMMA StartMoves ==
  ASSUME RInv, NEW p \in Proc, Start(p)
  PROVE  /\ ~ Busy(p) /\ Others(p) /\ UNCHANGED store
         /\ c(p)' \in Calls /\ c(p)' \in Call /\ ops'[p].todo = Program[c(p)'.name]
         /\ c(p)'.name = "renameApp" =>
              ops'[p].let0 = {u \in User : StoreAllows(u, c(p)'.a)}
         /\ c(p)'.name = "renameRole" =>
              ops'[p].held0 = {u \in User : \E k \in {c(p)'.k, c(p)'.k2} : Holds(users[u], k)}
<1>1. PICK call \in Calls :
        ops' = [ops EXCEPT ![p] =
                  [call |-> call, todo |-> Program[call.name], app |-> Null,
                   let0 |-> IF call.name = "renameApp"
                            THEN {u \in User : StoreAllows(u, call.a)} ELSE {},
                   held0 |-> IF call.name = "renameRole"
                             THEN {u \in User : \E k \in {call.k, call.k2} : Holds(users[u], k)}
                             ELSE {}]]
  BY DEF Start
<1>2. Others(p) /\ UNCHANGED store /\ ~ Busy(p)
  BY <1>1 DEF Start, RInv, OpsOK, Others, Busy
<1>3. /\ ops'[p].call = call /\ ops'[p].todo = Program[call.name]
      /\ ops'[p].let0 = IF call.name = "renameApp"
                        THEN {u \in User : StoreAllows(u, call.a)} ELSE {}
      /\ ops'[p].held0 = IF call.name = "renameRole"
                         THEN {u \in User : \E k \in {call.k, call.k2} : Holds(users[u], k)}
                         ELSE {}
  BY <1>1 DEF RInv, OpsOK
<1>4. call \in Call /\ c(p)' = call
  BY <1>3, RegistryAssumption DEF c
<1> QED BY <1>2, <1>3, <1>4

LEMMA StepMoves ==
  ASSUME RInv, NEW p \in Proc, StoreStep(p) \/ EvictUser(p) \/ EvictAll(p)
  PROVE  Start(p) \/ \E s : Moves(p, s) \/ Halts(p, s)
<1>1. ASSUME NEW s, Done(p, s) \/ Throw(p, s)
      PROVE  \E t : Moves(p, t) \/ Halts(p, t)
  BY <1>1, DoneMoves, ThrowHalts
<1>2. ASSUME NEW s, NEW found, Check(p, s, found)
      PROVE  \E t : Moves(p, t) \/ Halts(p, t)
  BY <1>2, CheckMoves
<1>3. CASE FindApp(p)
  BY <1>3, FindAppMoves
<1>4. CASE FindUser(p) \/ FindActive(p) \/ FindRole(p) \/ FindNoRole(p) \/ FindNoApp(p)
  BY <1>2, <1>4 DEF FindUser, FindActive, FindRole, FindNoRole, FindNoApp
<1>5. CASE \/ WriteRoles(p) \/ WriteDisabled(p) \/ WriteActive(p)
           \/ PullOverride(p) \/ PushOverride(p) \/ RemoveUser(p) \/ IdpDelete(p)
           \/ DropSessions(p) \/ OpenSession(p)
  BY <1>1, <1>5 DEF WriteRoles, WriteDisabled, WriteActive, PullOverride, PushOverride,
     RemoveUser, IdpDelete, DropSessions, OpenSession
<1>6. CASE \/ InsertRole(p) \/ PullGrant(p) \/ PushGrant(p) \/ RemoveRole(p)
           \/ MoveRole(p) \/ MoveHolders(p) \/ StripHolders(p)
  BY <1>1, <1>6 DEF InsertRole, PullGrant, PushGrant, RemoveRole, MoveRole, MoveHolders,
     StripHolders
<1>7. CASE \/ InsertApp(p) \/ WriteApp(p) \/ WriteSecret(p) \/ RemoveApp(p) \/ MoveApp(p)
  BY <1>1, <1>7 DEF InsertApp, WriteApp, WriteSecret, RemoveApp, MoveApp
<1>8. CASE \/ MoveGrants(p) \/ MoveOverrides(p) \/ DropGrants(p) \/ DropOverrides(p)
           \/ MoveUsage(p) \/ DropUsage(p) \/ EvictUser(p) \/ EvictAll(p)
  BY <1>1, <1>8 DEF MoveGrants, MoveOverrides, DropGrants, DropOverrides, MoveUsage, DropUsage,
     EvictUser, EvictAll
<1> QED BY <1>3, <1>4, <1>5, <1>6, <1>7, <1>8 DEF StoreStep

(* Where a handler about to make step s stands; what else it may do now.    *)
LEMMA Where ==
  ASSUME ControlInv, NEW p \in Proc, NEW s, At(p, s)
  PROVE  /\ Busy(p) /\ c(p) \in Call /\ Left(p) \in Nat \ {0} /\ s \in ops[p].todo[1]
         /\ Place(c(p).name, Left(p), s) /\ PlaceOfReads(c(p).name, Left(p), s)
         /\ \A t : At(p, t) => t = s \/ \E pair \in Pairs : s \in pair /\ t \in pair
         /\ ops[p].todo[1] = {s} \/ \E pair \in Pairs : ops[p].todo[1] \subseteq pair /\ s \in pair
<1>1. RInv /\ Follows(ops[p])
  BY DEF ControlInv
<1>2. Busy(p) /\ c(p) \in Call /\ Left(p) \in Nat \ {0} /\ c(p).name \in DOMAIN Program
      /\ Head(ops[p].todo) = ops[p].todo[1]
  BY <1>1, OpShape DEF At, Busy
<1> DEFINE program == Program[c(p).name]
           done    == Len(program) - Left(p)
<1>3. done \in Nat /\ ops[p].todo[1] \subseteq program[done + 1]
  BY <1>1, <1>2 DEF Follows, Busy, Left, c
<1>4. Len(program) \in Nat
  BY <1>2, ProgramFull
<1>5. done + 1 \in 1..Len(program) /\ Len(program) + 1 - (done + 1) = Left(p)
  <2> HIDE DEF program
  <2>1. Len(program) \in Nat /\ Left(p) \in Nat \ {0} /\ Len(program) - Left(p) \in Nat
    BY <1>2, <1>3, <1>4
  <2> QED BY <2>1
<1>6. s \in ops[p].todo[1] /\ s \in program[done + 1]
  BY <1>2, <1>3 DEF At
<1>7. /\ Place(c(p).name, Left(p), s) /\ PlaceOfReads(c(p).name, Left(p), s)
      /\ program[done + 1] = {s} \/ program[done + 1] \in Pairs
  <2> HIDE DEF done
  <2>1. /\ Place(c(p).name, Len(program) + 1 - (done + 1), s)
        /\ PlaceOfReads(c(p).name, Len(program) + 1 - (done + 1), s)
        /\ program[done + 1] = {s} \/ program[done + 1] \in Pairs
    BY <1>2, <1>5, <1>6, StepTable
  <2> QED BY <1>5, <2>1
<1>8. \A t : At(p, t) => t \in program[done + 1]
  BY <1>2, <1>3 DEF At
<1> QED BY <1>2, <1>3, <1>6, <1>7, <1>8

LEMMA GoesOn ==
  ASSUME ControlInv, NEW p \in Proc, NEW s, At(p, s), Goes(p, s)
  PROVE  /\ c(p)' = c(p) /\ Follows(ops'[p])
         /\ \/ /\ ops[p].todo[1] = {s} /\ Left(p)' = Left(p) - 1
               /\ Busy(p)' => /\ Left(p)' # 0
                              /\ ops'[p].todo[1] =
                                   Program[c(p).name][Len(Program[c(p).name]) - Left(p) + 2]
            \/ /\ ops[p].todo[1] # {s} /\ Left(p)' = Left(p)
               /\ Busy(p)' /\ ops'[p].todo[1] = ops[p].todo[1] \ {s}
<1> DEFINE program == Program[c(p).name]
           todo    == ops[p].todo
           rest    == Rest(todo, s)
<1>1. RInv /\ Follows(ops[p]) /\ ops[p] \in Op
  BY OpShape DEF ControlInv
<1>2. Busy(p) /\ c(p) \in Call /\ Left(p) \in Nat \ {0} /\ c(p).name \in DOMAIN Program
      /\ Head(todo) = todo[1] /\ todo \in Seq(SUBSET StepName) /\ Left(p) = Len(todo)
  BY <1>1, OpShape DEF At, Busy, Left
<1>3. /\ Len(program) \in Nat /\ Len(program) - Left(p) \in Nat /\ todo[1] # {}
      /\ todo[1] \subseteq program[Len(program) - Left(p) + 1]
      /\ \A i \in 2..Left(p) : todo[i] = program[Len(program) - Left(p) + i]
  BY <1>1, <1>2, ProgramFull DEF Follows, Busy, Left, c
<1>4. \A i \in 1..Len(program) : program[i] # {}
  BY <1>2, ProgramFull
<1>5. s \in todo[1] /\ todo # <<>>
  BY <1>2 DEF At
<1>6. /\ ops'[p].todo = rest /\ ops'[p].call = c(p) /\ c(p)' = c(p) /\ Left(p)' = Len(rest)
      /\ (Busy(p)' <=> rest # <<>>)
  BY DEF Goes, c, Left, Busy
<1> HIDE DEF program, todo, rest
<1>7. CASE todo[1] = {s}
  <2>1. /\ rest \in Seq(SUBSET StepName) /\ Len(rest) = Left(p) - 1
        /\ \A i \in 1..Len(rest) : rest[i] = todo[i + 1]
    BY <1>2, <1>5, <1>7, RestSeq DEF rest
  <2>2. \A i \in 1..Len(rest) : i + 1 \in 2..Left(p)
    BY <1>2, <2>1
  <2>3. \A i \in 1..Len(rest) : rest[i] = program[Len(program) - Left(p) + (i + 1)]
    BY <1>3, <2>1, <2>2
  <2>4. rest # <<>> => Len(rest) # 0
    BY <2>1
  <2>5. rest # <<>> => /\ rest[1] = program[Len(program) - Left(p) + 2]
                       /\ Len(program) - Left(p) + 2 \in 1..Len(program)
    BY <1>2, <1>3, <2>1, <2>3, <2>4
  <2>6. Len(program) - Len(rest) \in Nat
        /\ Len(program) - Len(rest) = Len(program) - Left(p) + 1
    BY <1>2, <1>3, <2>1
  <2>7. \A i \in 1..Len(rest) : rest[i] = program[Len(program) - Len(rest) + i]
    BY <1>2, <1>3, <2>1, <2>3, <2>6
  <2>8. Follows(ops'[p])
    BY <1>4, <1>6, <2>1, <2>4, <2>5, <2>6, <2>7 DEF Follows, program
  <2> QED BY <1>6, <1>7, <2>1, <2>4, <2>5, <2>8 DEF program, todo
<1>8. CASE todo[1] # {s}
  <2>1. /\ rest \in Seq(SUBSET StepName) /\ Len(rest) = Left(p) /\ rest[1] = todo[1] \ {s}
        /\ \A i \in 2..Len(rest) : rest[i] = todo[i]
    BY <1>2, <1>5, <1>8, RestSeq DEF rest
  <2>2. rest # <<>>
    BY <1>2, <2>1
  <2>3. Follows(ops'[p])
    BY <1>3, <1>5, <1>6, <1>8, <2>1 DEF Follows, program
  <2> QED BY <1>6, <1>8, <2>1, <2>2, <2>3 DEF todo
<1> QED BY <1>7, <1>8

LEMMA Stopped ==
  ASSUME NEW p, Stops(p)
  PROVE  c(p)' = Null /\ ~ Busy(p)' /\ (\A t : ~ At(p, t)') /\ Follows(ops'[p])
BY DEF Stops, c, Busy, At, Follows

LEMMA ProgramFollows ==
  ASSUME NEW op, op.call.name \in DOMAIN Program, op.todo = Program[op.call.name]
  PROVE  Follows(op)
BY ProgramFull DEF Follows

LEMMA InitControl == RInit => ControlInv
BY RInitRInv DEF RInit, ControlInv, Follows, Idle

LEMMA NextControl == ASSUME ControlInv, [RNext]_rvars PROVE ControlInv'
<1>1. RInv /\ RInv'
  BY RNextRInv DEF ControlInv
<1>2. ASSUME NEW p \in Proc, StoreStep(p) \/ EvictUser(p) \/ EvictAll(p), NEW q \in Proc
      PROVE  Follows(ops'[q])
  <2>1. CASE Start(p)
    <3>1. Follows(ops'[p])
      <4>1. ops'[p].call \in Call /\ ops'[p].todo = Program[ops'[p].call.name]
        BY <1>1, <2>1, StartMoves DEF c
      <4> QED BY <4>1, ProgramFollows DEF Call
    <3> QED BY <1>1, <2>1, <3>1, StartMoves DEF Others, ControlInv
  <2>2. ASSUME NEW s, Moves(p, s) \/ Halts(p, s)
        PROVE  Follows(ops'[q])
    BY <2>2, GoesOn, Stopped DEF Moves, Halts, Others, ControlInv
  <2> QED BY <1>1, <1>2, <2>1, <2>2, StepMoves
<1>3. CASE RestartPortal
  BY <1>1, <1>3 DEF RestartPortal, Idle, Follows, ControlInv
<1>4. CASE UNCHANGED rvars
  BY <1>1, <1>4 DEF rvars, ControlInv, Follows
<1> QED BY <1>1, <1>2, <1>3, <1>4 DEF RNext, ControlInv

(* What a handler must be doing, where it stands.                           *)
LEMMA Turn ==
  ASSUME ControlInv, NEW p \in Proc, NEW s, At(p, s)
  PROVE  /\ c(p).name \in {"addGrant", "setOverride"} /\ Left(p) = 4 => s = "findApp"
         /\ c(p).name = "setOverride" /\ Left(p) = 3 => s = "pullOverride"
         /\ c(p).name = "renameApp" =>
              /\ Left(p) = 6 => s = "findApp"
              /\ Left(p) = 5 => s = "findNoApp"
              /\ Left(p) = 4 => s = "moveApp"
              /\ Left(p) = 3 => s \in {"moveGrants", "moveOverrides"}
              /\ Left(p) = 2 => s = "moveUsage"
         /\ c(p).name = "deleteApp" =>
              /\ Left(p) = 5 => s = "findApp"
              /\ Left(p) = 4 => s \in {"dropGrants", "dropOverrides"}
         /\ c(p).name = "signIn" /\ Left(p) = 2 => s = "findActive"
         /\ c(p).name = "deleteUser" /\ Left(p) = 5 => s = "dropSessions"
         /\ c(p).name = "renameRole" =>
              /\ Left(p) = 5 => s = "findRole"
              /\ Left(p) = 4 => s = "findNoRole"
              /\ Left(p) = 3 => s = "moveRole"
              /\ Left(p) = 2 => s = "moveHolders"
         /\ c(p).name = "deleteRole" /\ Left(p) = 3 => s = "stripHolders"
<1>1. Place(c(p).name, Left(p), s) /\ PlaceOfReads(c(p).name, Left(p), s)
  BY Where
<1>2. s \in StepName
  <2>1. ops[p].todo \in Seq(SUBSET StepName) /\ ops[p].todo # <<>> /\ s \in Head(ops[p].todo)
    BY OpShape DEF At, ControlInv
  <2> QED BY <2>1
<1> QED BY <1>1, <1>2 DEF Place, PlaceOfReads, StepName

------------------------------------------------------------------------------
(* What the writes do to the references.                                    *)

OverridesKept ==
  \A u \in User : users'[u] # Null =>
    users[u] # Null /\ users'[u].overrides \subseteq users[u].overrides
GrantsKept == \A a \in AppKey : Granted(a)' => Granted(a)
AppsKept   == \A a \in AppKey : apps[a] # Null => apps'[a] # Null

LEMMA CallShape ==
  ASSUME RInv, NEW p \in Proc, NEW s, At(p, s)
  PROVE  /\ c(p).u \in User /\ c(p).k \in RoleKey /\ c(p).k2 \in RoleKey
         /\ c(p).a \in AppKey /\ c(p).a2 \in AppKey
BY CallOK DEF Call

LEMMA StoreShape ==
  ASSUME RInv
  PROVE  /\ DOMAIN users = User /\ users = [u \in User |-> users[u]]
         /\ \A u \in User : users[u] # Null => users[u] \in UserDoc
         /\ DOMAIN roles = RoleKey /\ roles = [k \in RoleKey |-> roles[k]]
         /\ \A k \in RoleKey : roles[k] # Null => roles[k] \in RoleDoc
         /\ DOMAIN apps = AppKey /\ apps = [a \in AppKey |-> apps[a]]
BY DEF RInv, StoreOK

LEMMA FewerOverrides ==
  ASSUME OverridesKept
  PROVE  \A a : Overridden(a)' => Overridden(a)
BY DEF OverridesKept, Overridden

LEMMA SameUsers ==
  ASSUME users' = users
  PROVE  OverridesKept /\ \A a : Overridden(a)' <=> Overridden(a)
BY DEF OverridesKept, Overridden

LEMMA SameRoles ==
  ASSUME roles' = roles
  PROVE  \A a : Granted(a)' <=> Granted(a)
BY DEF Granted

LEMMA UserWrites ==
  ASSUME RInv, NEW p \in Proc,
         \/ WriteRoles(p) \/ WriteDisabled(p) \/ WriteActive(p) \/ PullOverride(p)
         \/ RemoveUser(p) \/ MoveHolders(p) \/ StripHolders(p) \/ DropOverrides(p)
  PROVE  OverridesKept /\ UNCHANGED <<roles, apps, sessions>>
<1>1. /\ DOMAIN users = User /\ users = [u \in User |-> users[u]]
      /\ \A u \in User : users[u] # Null => users[u] \in UserDoc
  BY StoreShape
<1>2. CASE WriteRoles(p) \/ WriteDisabled(p) \/ WriteActive(p)
  BY <1>1, <1>2 DEF WriteRoles, WriteDisabled, WriteActive, PatchUser, OverridesKept, UserDoc
<1>3. CASE PullOverride(p)
  BY <1>1, <1>3 DEF PullOverride, PatchUser, OverridesKept, UserDoc
<1>4. CASE RemoveUser(p)
  BY <1>1, <1>4 DEF RemoveUser, OverridesKept
<1>5. CASE MoveHolders(p) \/ StripHolders(p)
  <2>1. \A u \in User : Holds(users[u], c(p).k) => users[u] # Null
    BY DEF Holds
  <2>2. ASSUME NEW u \in User
        PROVE  users'[u] = users[u] \/ (users[u] # Null /\ users'[u].overrides = users[u].overrides)
    <3>1. CASE MoveHolders(p)
      <4>1. users'[u] = IF Holds(users[u], c(p).k)
                        THEN [users[u] EXCEPT !.roles = (@ \ {c(p).k}) \cup {c(p).k2}]
                        ELSE users[u]
        BY <3>1 DEF MoveHolders
      <4> QED BY <1>1, <2>1, <4>1 DEF UserDoc
    <3>2. CASE StripHolders(p)
      <4>1. users'[u] = IF Holds(users[u], c(p).k)
                        THEN [users[u] EXCEPT !.roles = @ \ {c(p).k}] ELSE users[u]
        BY <3>2 DEF StripHolders
      <4> QED BY <1>1, <2>1, <4>1 DEF UserDoc
    <3> QED BY <1>5, <3>1, <3>2
  <2>3. UNCHANGED <<roles, apps, sessions>>
    BY <1>5 DEF MoveHolders, StripHolders
  <2> QED BY <2>2, <2>3 DEF OverridesKept
<1>6. CASE DropOverrides(p)
  BY <1>1, <1>6 DEF DropOverrides, OverridesKept, UserDoc
<1> QED BY <1>2, <1>3, <1>4, <1>5, <1>6

LEMMA RoleWrites ==
  ASSUME RInv, NEW p \in Proc, NEW s, Done(p, s),
         \/ InsertRole(p) \/ PullGrant(p) \/ RemoveRole(p) \/ MoveRole(p) \/ DropGrants(p)
  PROVE  GrantsKept /\ UNCHANGED <<users, apps, sessions>>
<1>1. /\ DOMAIN roles = RoleKey
      /\ \A k \in RoleKey : roles[k] # Null => roles[k] \in RoleDoc
  BY StoreShape
<1>2. c(p).k \in RoleKey /\ c(p).k2 \in RoleKey
  BY CallShape DEF Done
<1>3. CASE InsertRole(p)
  BY <1>1, <1>2, <1>3 DEF InsertRole, Granted, GrantsKept, Throw, store
<1>4. CASE PullGrant(p)
  BY <1>1, <1>2, <1>4 DEF PullGrant, PatchRole, Granted, GrantsKept, RoleDoc
<1>5. CASE RemoveRole(p)
  BY <1>1, <1>2, <1>5 DEF RemoveRole, Granted, GrantsKept
<1>6. CASE MoveRole(p)
  <2>1. UNCHANGED <<users, apps, sessions>>
    BY <1>6 DEF MoveRole, Throw, store
  <2>2. CASE roles' = roles
    BY <2>1, <2>2, SameRoles DEF GrantsKept
  <2>3. CASE roles' # roles
    <3>1. roles[c(p).k] # Null /\ roles' = [roles EXCEPT ![c(p).k2] = roles[c(p).k], ![c(p).k] = Null]
      BY <1>6, <2>3 DEF MoveRole, Throw, store
    <3>2. \A k \in RoleKey : roles'[k] # Null => roles'[k] \in {roles[k], roles[c(p).k]}
      BY <1>1, <1>2, <3>1
    <3> QED BY <1>2, <2>1, <3>1, <3>2 DEF Granted, GrantsKept
  <2> QED BY <2>2, <2>3
<1>7. CASE DropGrants(p)
  <2>1. \A k \in RoleKey : roles'[k] # Null =>
          roles[k] # Null /\ roles'[k].grants \subseteq roles[k].grants
    BY <1>1, <1>7 DEF DropGrants, RoleDoc
  <2> QED BY <1>7, <2>1 DEF DropGrants, Granted, GrantsKept
<1> QED BY <1>3, <1>4, <1>5, <1>6, <1>7

LEMMA AppWrites ==
  ASSUME RInv, NEW p \in Proc, NEW s, Done(p, s), InsertApp(p) \/ WriteApp(p) \/ WriteSecret(p)
  PROVE  AppsKept /\ UNCHANGED <<users, roles, sessions>>
<1>1. /\ DOMAIN apps = AppKey /\ \A a \in AppKey : apps[a] # Null => apps[a] \in AppDoc
      /\ c(p).a \in AppKey /\ c(p).a2 \in AppKey
      /\ c(p).status \in AppStatus \cup {"keep"} /\ c(p).public \in BOOLEAN
  <2>1. c(p) \in Call
    BY CallOK DEF Done
  <2>2. /\ c(p).a \in AppKey /\ c(p).a2 \in AppKey
        /\ c(p).status \in AppStatus \cup {"keep"} /\ c(p).public \in BOOLEAN
    BY <2>1 DEF Call
  <2> QED BY <2>2 DEF RInv, StoreOK
<1>2. CASE InsertApp(p)
  <2>1. \A x \in Secret : [status |-> "active", public |-> FALSE, secret |-> x] # Null
    <3>1. \A x \in Secret : [status |-> "active", public |-> FALSE, secret |-> x] \in AppDoc
      BY DEF AppDoc, AppStatus
    <3> QED BY <3>1, NullAssumption
  <2> QED BY <1>1, <1>2, <2>1 DEF InsertApp, Throw, store, AppsKept
<1>3. CASE WriteApp(p)
  <2> DEFINE status == IF c(p).status = "keep" THEN ops[p].app.status ELSE c(p).status
             new    == [apps[c(p).a] EXCEPT !.status = status, !.public = c(p).public]
  <2>1. status \in AppStatus
    BY <1>1, <1>3, WriteAppKnowsApp DEF WriteApp, Done, AppDoc
  <2>2. apps' = [apps EXCEPT ![c(p).a] = IF apps[c(p).a] = Null THEN Null ELSE new]
        /\ UNCHANGED <<users, roles, sessions>>
    BY <1>1, <1>3 DEF WriteApp
  <2> HIDE DEF status
  <2>3. apps[c(p).a] # Null => new # Null
    BY <1>1, <2>1, NullAssumption DEF AppDoc
  <2> HIDE DEF new
  <2> QED BY <1>1, <2>2, <2>3 DEF AppsKept
<1>4. CASE WriteSecret(p)
  <2>1. PICK x \in Secret :
          apps' = [apps EXCEPT ![c(p).a] = IF @ = Null THEN Null ELSE [@ EXCEPT !.secret = x]]
    BY <1>4 DEF WriteSecret
  <2>2. apps[c(p).a] # Null => [apps[c(p).a] EXCEPT !.secret = x] # Null
    BY <1>1, NullAssumption DEF AppDoc
  <2> QED BY <1>1, <1>4, <2>1, <2>2 DEF WriteSecret, AppsKept
<1> QED BY <1>2, <1>3, <1>4

------------------------------------------------------------------------------
(* No reference dangles.                                                    *)

AppsCore == GrantsStand /\ OverridesStand /\ \A p \in Proc : KnowsApp(p)

(* A handler takes no app away, and no reference comes up, but those its    *)
(* call is about.                                                           *)
AppsTaken(p)   == \A a \in AppKey : apps[a] # Null /\ apps'[a] = Null => a \in Takes(c(p))
ReferencesUsed(p) ==
  \A a \in AppKey : /\ Granted(a)' => Granted(a) \/ a \in Uses(c(p))
                    /\ Overridden(a)' => Overridden(a) \/ a \in Uses(c(p))

(* The other handlers: what they know is not of what this one is about.     *)
LEMMA OthersKnowApp ==
  ASSUME ControlInv, AppsApart, NEW p \in Proc, NEW q \in Proc, q # p, Busy(p),
         ops'[q] = ops[q], KnowsApp(q), AppsTaken(p), ReferencesUsed(p)
  PROVE  KnowsApp(q)'
<1>1. c(q)' = c(q) /\ Left(q)' = Left(q) /\ (Busy(q)' <=> Busy(q))
  BY DEF c, Left, Busy
<1>2. CASE Busy(q)
  <2>1. c(q).a \in AppKey /\ c(q).a2 \in AppKey
    BY <1>2, OpShape DEF ControlInv, Call
  <2>2. ~ AppsClash(c(p), c(q))
    BY <1>2 DEF AppsApart
  <2>3. \A a \in Uses(c(q)) : a \notin Takes(c(p))
    BY <2>2 DEF AppsClash
  <2>4. \A a \in Takes(c(q)) : a \notin Uses(c(p))
    BY <2>2 DEF AppsClash
  <2>5. \A a \in AppKey : a \in Uses(c(q)) /\ apps[a] # Null => apps'[a] # Null
    BY <2>3 DEF AppsTaken
  <2>6. \A a \in AppKey : a \in Takes(c(q)) => /\ Granted(a)' => Granted(a)
                                               /\ Overridden(a)' => Overridden(a)
    BY <2>4 DEF ReferencesUsed
  <2>7. c(q).name \in {"addGrant", "setOverride", "renameApp", "deleteApp"} => c(q).a \in Uses(c(q))
    BY DEF Uses, Takes
  <2>8. c(q).name = "renameApp" => c(q).a2 \in Uses(c(q))
    BY DEF Uses, Takes
  <2>9. c(q).name = "deleteApp" => c(q).a \in Takes(c(q))
    BY DEF Takes
  <2> QED BY <1>1, <1>2, <2>1, <2>5, <2>6, <2>7, <2>8, <2>9 DEF KnowsApp, Granted, Overridden
<1>3. CASE ~ Busy(q)
  BY <1>1, <1>3 DEF KnowsApp
<1> QED BY <1>2, <1>3

(* What a rename in flight owes it goes on owing, until it is done.         *)
LEMMA OwedKept ==
  ASSUME ControlInv, ControlInv', NEW p \in Proc, NEW s,
         Moves(p, s) \/ (Halts(p, s) /\ s \notin {"moveGrants", "moveOverrides"}),
         NEW t \in {"moveGrants", "moveOverrides"}, t # s, NEW a, Owed(a, t)
  PROVE  Owed(a, t)'
<1>1. PICK r \in Proc : At(r, t) /\ c(r).a = a
  BY DEF Owed
<1>2. CASE r # p
  <2>1. ops'[r] = ops[r]
    BY <1>2 DEF Moves, Halts, Others
  <2>2. At(r, t)' /\ c(r)' = c(r)
    BY <1>1, <2>1 DEF At, c
  <2> QED BY <1>1, <2>2 DEF Owed
<1>3. CASE r = p
  <2>1. At(p, s) /\ At(p, t)
    BY <1>1, <1>3 DEF Moves, Halts
  <2>2. s \in {"moveGrants", "moveOverrides"} /\ Left(p) = 3
    BY <2>1, Where DEF Pairs, Place
  <2>3. Goes(p, s)
    BY <2>2 DEF Moves, Halts
  <2>4. t \in ops[p].todo[1]
    BY <2>1, Where
  <2>5. Busy(p)' /\ t \in ops'[p].todo[1] /\ c(p)' = c(p)
    BY <2>1, <2>3, <2>4, GoesOn
  <2>6. ops'[p].todo \in Seq(SUBSET StepName) /\ ops'[p].todo # <<>>
    <3>1. RInv'
      BY DEF ControlInv
    <3>2. ops'[p].todo # <<>>
      BY <2>5 DEF Busy
    <3> QED BY <3>1, <3>2 DEF RInv, OpsOK, Op
  <2>7. Head(ops'[p].todo) = ops'[p].todo[1]
    BY <2>6
  <2>8. At(p, t)'
    BY <2>5, <2>6, <2>7 DEF At
  <2> QED BY <1>1, <1>3, <2>5, <2>8 DEF Owed
<1> QED BY <1>2, <1>3

LEMMA StandKept ==
  ASSUME ControlInv, ControlInv', AppsCore, AppsKept, NEW p \in Proc, NEW s,
         Moves(p, s) \/ (Halts(p, s) /\ s \notin {"moveGrants", "moveOverrides"})
  PROVE  /\ s # "moveGrants" /\ (\A a \in AppKey : Granted(a)' => Granted(a) \/ apps[a] # Null)
              => GrantsStand'
         /\ s # "moveOverrides" /\ (\A a \in AppKey : Overridden(a)' => Overridden(a) \/ apps[a] # Null)
              => OverridesStand'
<1>1. ASSUME s # "moveGrants", NEW a \in AppKey, Granted(a) \/ apps[a] # Null
      PROVE  apps'[a] # Null \/ Owed(a, "moveGrants")'
  <2>1. apps[a] # Null \/ Owed(a, "moveGrants")
    BY <1>1 DEF AppsCore, GrantsStand
  <2> QED BY <1>1, <2>1, OwedKept DEF AppsKept
<1>2. ASSUME s # "moveOverrides", NEW a \in AppKey, Overridden(a) \/ apps[a] # Null
      PROVE  apps'[a] # Null \/ Owed(a, "moveOverrides")'
  <2>1. apps[a] # Null \/ Owed(a, "moveOverrides")
    BY <1>2 DEF AppsCore, OverridesStand
  <2> QED BY <1>2, <2>1, OwedKept DEF AppsKept
<1> QED BY <1>1, <1>2 DEF GrantsStand, OverridesStand

(* The handler itself, unless the step is one that changes what it knows.   *)
LEMMA OwnKnowsApp ==
  ASSUME ControlInv, NEW p \in Proc, KnowsApp(p), NEW s, Moves(p, s) \/ Halts(p, s),
         s \notin {"moveApp", "dropGrants", "dropOverrides"},
         Moves(p, s) /\ s = "findApp" => apps[c(p).a] # Null,
         s = "removeApp" \/ AppsKept,
         c(p).name = "deleteApp" => \A a \in AppKey : /\ Granted(a)' => Granted(a)
                                                      /\ Overridden(a)' => Overridden(a)
  PROVE  KnowsApp(p)'
<1>1. CASE Stops(p)
  BY <1>1, Stopped DEF KnowsApp
<1>2. CASE ~ Stops(p)
  <2>1. At(p, s) /\ Moves(p, s) /\ Goes(p, s)
    BY <1>2 DEF Moves, Halts
  <2>2. Busy(p) /\ c(p) \in Call /\ Left(p) \in Nat \ {0}
    BY <2>1, Where
  <2>3. c(p).a \in AppKey /\ c(p).a2 \in AppKey
    BY <2>2 DEF Call
  <2>4. c(p)' = c(p) /\ Left(p)' \in {Left(p), Left(p) - 1}
    BY <2>1, GoesOn
  <2>5. c(p).name \in {"addGrant", "setOverride"} /\ Left(p)' <= 3 => apps[c(p).a] # Null /\ AppsKept
    <3>1. CASE Left(p) <= 3
      BY <2>1, <2>2, <3>1, Where DEF KnowsApp, Place
    <3>2. CASE Left(p) = 4
      BY <2>1, <3>2, Turn
    <3> QED BY <2>2, <2>4, <3>1, <3>2
  <2>6. c(p).name = "renameApp" /\ Left(p)' \in {4, 5} => apps[c(p).a] # Null /\ AppsKept
    <3>1. c(p).name = "renameApp" => s # "removeApp" /\ Left(p) # 4
      BY <2>1, Where, Turn DEF Place
    <3> QED BY <2>1, <2>2, <2>4, <3>1, Turn DEF KnowsApp
  <2>7. c(p).name = "renameApp" /\ Left(p)' = 3 => apps[c(p).a2] # Null /\ AppsKept
    <3>1. c(p).name = "renameApp" => s # "removeApp" /\ Left(p) # 4
      BY <2>1, Where, Turn DEF Place
    <3> QED BY <2>1, <2>2, <2>4, <3>1 DEF KnowsApp
  <2>8. ASSUME c(p).name = "deleteApp", Left(p)' \in {3, 4}, Busy(p)'
        PROVE  /\ "dropGrants" \notin ops'[p].todo[1] => ~ Granted(c(p).a)
               /\ "dropOverrides" \notin ops'[p].todo[1] => ~ Overridden(c(p).a)
    <3>1. Left(p) # 4 /\ s \notin {"moveGrants", "moveOverrides"}
      BY <2>1, <2>8, Where, Turn DEF Place
    <3>2. ops[p].todo[1] = {s}
      BY <2>1, <3>1, Where DEF Pairs
    <3>3. Left(p)' = Left(p) - 1
      BY <2>1, <3>2, GoesOn
    <3>4. Left(p) = 5
      BY <2>2, <2>8, <3>1, <3>3
    <3>5. ops'[p].todo[1] = Program["deleteApp"][Len(Program["deleteApp"]) - 5 + 2]
      BY <2>1, <2>8, <3>2, <3>4, GoesOn
    <3>6. ops'[p].todo[1] = {"dropGrants", "dropOverrides"}
      BY <3>5, Lengths
    <3> QED BY <3>6
  <2> QED BY <2>2, <2>3, <2>4, <2>5, <2>6, <2>7, <2>8 DEF KnowsApp, AppsKept, Granted, Overridden, Busy
<1> QED BY <1>1, <1>2

LEMMA AppsTogether ==
  ASSUME ControlInv, AppsApart, AppsCore, NEW p \in Proc, Busy(p), Others(p),
         AppsTaken(p), ReferencesUsed(p), GrantsStand', OverridesStand', KnowsApp(p)'
  PROVE  AppsCore'
<1>1. \A q \in Proc : q # p => KnowsApp(q)'
  BY OthersKnowApp DEF AppsCore, Others
<1> QED BY <1>1 DEF AppsCore

(* A step that takes no app away, and lets no reference come up but to an   *)
(* app that is there.                                                       *)
LEMMA MildStep ==
  ASSUME ControlInv, ControlInv', AppsApart, AppsCore, NEW p \in Proc, NEW s,
         Moves(p, s) \/ Halts(p, s),
         s \notin {"moveGrants", "moveOverrides", "moveApp", "dropGrants", "dropOverrides"},
         Moves(p, s) /\ s = "findApp" => apps[c(p).a] # Null,
         AppsKept,
         \A a \in AppKey :
           LET fresh == a \in Uses(c(p)) /\ apps[a] # Null /\ c(p).name # "deleteApp"
           IN /\ Granted(a)' => Granted(a) \/ fresh
              /\ Overridden(a)' => Overridden(a) \/ fresh
  PROVE  AppsCore'
<1>1. Busy(p) /\ Others(p)
  BY DEF Moves, Halts, At, Busy
<1>2. KnowsApp(p)'
  BY OwnKnowsApp DEF AppsCore
<1>3. GrantsStand' /\ OverridesStand'
  BY StandKept
<1>4. AppsTaken(p) /\ ReferencesUsed(p)
  BY DEF AppsTaken, ReferencesUsed, AppsKept
<1> QED BY <1>1, <1>2, <1>3, <1>4, AppsTogether

LEMMA HaltStep ==
  ASSUME ControlInv, ControlInv', AppsApart, AppsCore, NEW p \in Proc, NEW s, Halts(p, s),
         s \notin {"moveGrants", "moveOverrides"}
  PROVE  AppsCore'
<1>1. Busy(p) /\ Others(p) /\ UNCHANGED store
  BY DEF Halts, At, Busy
<1>2. KnowsApp(p)'
  BY Stopped DEF Halts, KnowsApp
<1>3. AppsKept /\ \A a \in AppKey : (Granted(a)' <=> Granted(a)) /\ (Overridden(a)' <=> Overridden(a))
  BY <1>1, SameUsers, SameRoles DEF store, AppsKept
<1>4. GrantsStand' /\ OverridesStand'
  BY <1>3, StandKept
<1>5. AppsTaken(p) /\ ReferencesUsed(p)
  BY <1>3 DEF AppsTaken, ReferencesUsed, AppsKept
<1> QED BY <1>1, <1>2, <1>4, <1>5, AppsTogether

LEMMA StartApps ==
  ASSUME ControlInv, ControlInv', AppsCore, NEW p \in Proc, Start(p)
  PROVE  AppsCore'
<1>1. /\ ~ Busy(p) /\ Others(p) /\ UNCHANGED store /\ c(p)' \in Call
      /\ ops'[p].todo = Program[c(p)'.name]
  BY StartMoves DEF ControlInv
<1>2. UNCHANGED <<users, roles, apps>>
  BY <1>1 DEF store
<1>3. ASSUME NEW a, NEW t, Owed(a, t)
      PROVE  Owed(a, t)'
  <2>1. PICK r \in Proc : At(r, t) /\ c(r).a = a
    BY <1>3 DEF Owed
  <2>2. ops'[r] = ops[r]
    BY <1>1, <2>1 DEF Others, At, Busy
  <2> QED BY <2>1, <2>2 DEF Owed, At, c
<1>4. GrantsStand' /\ OverridesStand'
  BY <1>2, <1>3, SameUsers, SameRoles DEF GrantsStand, OverridesStand, AppsCore
<1>5. KnowsApp(p)'
  <2>1. Left(p)' = Len(Program[c(p)'.name])
    BY <1>1 DEF Left
  <2>2. /\ c(p)'.name \in {"addGrant", "setOverride", "deleteApp"} => Left(p)' = 5
        /\ c(p)'.name = "renameApp" => Left(p)' = 6
    BY <2>1, Lengths
  <2> QED BY <2>2 DEF KnowsApp
<1>6. ASSUME NEW q \in Proc, q # p
      PROVE  KnowsApp(q)'
  <2>1. ops'[q] = ops[q] /\ KnowsApp(q)
    BY <1>1, <1>6 DEF Others, AppsCore
  <2> QED BY <1>2, <2>1 DEF KnowsApp, Granted, Overridden, Busy, Left, c
<1> QED BY <1>4, <1>5, <1>6 DEF AppsCore

LEMMA PushesApps ==
  ASSUME ControlInv, ControlInv', AppsApart, AppsCore, NEW p \in Proc,
         PushGrant(p) \/ PushOverride(p)
  PROVE  AppsCore'
<1>1. RInv
  BY DEF ControlInv
<1>2. /\ DOMAIN users = User /\ \A u \in User : users[u] # Null => users[u] \in UserDoc
      /\ DOMAIN roles = RoleKey /\ \A k \in RoleKey : roles[k] # Null => roles[k] \in RoleDoc
  BY <1>1, StoreShape
<1>3. CASE PushGrant(p)
  <2>1. Moves(p, "pushGrant") /\ At(p, "pushGrant")
    BY <1>1, <1>3, DoneMoves DEF PushGrant, Done
  <2>2. c(p).name = "addGrant" /\ Left(p) = 2 /\ Busy(p)
    BY <2>1, Where DEF Place
  <2>3. apps[c(p).a] # Null /\ c(p).a \in Uses(c(p))
    BY <2>2 DEF AppsCore, KnowsApp, Uses
  <2>4. UNCHANGED <<users, apps>>
    BY <1>3 DEF PushGrant, PatchRole
  <2>5. \A a \in AppKey : Granted(a)' => Granted(a) \/ a = c(p).a
    BY <1>2, <1>3 DEF PushGrant, PatchRole, Granted, RoleDoc
  <2> QED BY <2>1, <2>2, <2>3, <2>4, <2>5, SameUsers, MildStep DEF AppsKept
<1>4. CASE PushOverride(p)
  <2>1. Moves(p, "pushOverride") /\ At(p, "pushOverride")
    BY <1>1, <1>4, DoneMoves DEF PushOverride, Done
  <2>2. c(p).name = "setOverride" /\ Left(p) = 2 /\ Busy(p)
    BY <2>1, Where DEF Place
  <2>3. apps[c(p).a] # Null /\ c(p).a \in Uses(c(p))
    BY <2>2 DEF AppsCore, KnowsApp, Uses
  <2>4. UNCHANGED <<roles, apps>>
    BY <1>4 DEF PushOverride, PatchUser
  <2>5. \A a \in AppKey : Overridden(a)' => Overridden(a) \/ a = c(p).a
    BY <1>2, <1>4 DEF PushOverride, PatchUser, Overridden, UserDoc
  <2> QED BY <2>1, <2>2, <2>3, <2>4, <2>5, SameRoles, MildStep DEF AppsKept
<1> QED BY <1>3, <1>4

LEMMA DropsApps ==
  ASSUME ControlInv, ControlInv', AppsApart, AppsCore, NEW p \in Proc,
         DropGrants(p) \/ DropOverrides(p)
  PROVE  AppsCore'
<1>1. RInv
  BY DEF ControlInv
<1>2. /\ DOMAIN users = User /\ \A u \in User : users[u] # Null => users[u] \in UserDoc
      /\ DOMAIN roles = RoleKey /\ \A k \in RoleKey : roles[k] # Null => roles[k] \in RoleDoc
  BY <1>1, StoreShape
<1>3. PICK s \in {"dropGrants", "dropOverrides"} :
        /\ Done(p, s)
        /\ s = "dropGrants" => DropGrants(p)
        /\ s = "dropOverrides" => DropOverrides(p)
  BY DEF DropGrants, DropOverrides
<1>4. Moves(p, s) /\ At(p, s)
  BY <1>1, <1>3, DoneMoves DEF Done
<1>5. c(p).name = "deleteApp" /\ Left(p) = 4 /\ Busy(p) /\ Others(p) /\ c(p).a \in AppKey
  BY <1>1, <1>4, Where, CallShape DEF Place, Moves
<1>6. Goes(p, s)
  BY <1>4, <1>5 DEF Moves
<1>7. /\ s = "dropGrants" => GrantsKept /\ UNCHANGED <<users, apps>>
      /\ s = "dropOverrides" => OverridesKept /\ UNCHANGED <<roles, apps>>
  BY <1>1, <1>3, UserWrites, RoleWrites
<1>8. AppsKept /\ \A a \in AppKey : (Granted(a)' => Granted(a)) /\ (Overridden(a)' => Overridden(a))
  BY <1>3, <1>7, SameUsers, SameRoles, FewerOverrides DEF AppsKept, GrantsKept
<1>9. GrantsStand' /\ OverridesStand'
  BY <1>3, <1>4, <1>8, StandKept
<1>10. c(p)' = c(p)
  BY <1>4, <1>5, <1>6, GoesOn
<1>11. ASSUME Busy(p)', Left(p)' \in {3, 4}
       PROVE  /\ "dropGrants" \notin ops'[p].todo[1] => ~ Granted(c(p).a)'
              /\ "dropOverrides" \notin ops'[p].todo[1] => ~ Overridden(c(p).a)'
  <2>1. PICK a \in AppKey : a = c(p).a
    BY <1>5
  <2>2. s = "dropGrants" => ~ Granted(a)'
    BY <1>2, <1>3, <2>1 DEF DropGrants, Granted, RoleDoc
  <2>3. s = "dropOverrides" => ~ Overridden(a)'
    BY <1>2, <1>3, <2>1 DEF DropOverrides, Overridden, UserDoc
  <2>4. /\ "dropGrants" \notin ops[p].todo[1] => ~ Granted(a)
        /\ "dropOverrides" \notin ops[p].todo[1] => ~ Overridden(a)
    BY <1>5, <2>1 DEF AppsCore, KnowsApp
  <2>5. \A t \in ops[p].todo[1] : t = s \/ t \in ops'[p].todo[1]
    BY <1>4, <1>6, GoesOn
  <2>6. /\ "dropGrants" \notin ops'[p].todo[1] => ~ Granted(a)'
        /\ "dropOverrides" \notin ops'[p].todo[1] => ~ Overridden(a)'
    BY <1>3, <1>8, <2>2, <2>3, <2>4, <2>5
  <2> QED BY <1>10, <2>1, <2>6 DEF Granted, Overridden, c
<1>12. KnowsApp(p)'
  BY <1>5, <1>10, <1>11 DEF KnowsApp
<1>13. AppsTaken(p) /\ ReferencesUsed(p)
  BY <1>8 DEF AppsTaken, ReferencesUsed, AppsKept
<1> QED BY <1>5, <1>9, <1>12, <1>13, AppsTogether

LEMMA RemovesApp ==
  ASSUME ControlInv, ControlInv', AppsApart, AppsCore, NEW p \in Proc, RemoveApp(p)
  PROVE  AppsCore'
<1>1. RInv
  BY DEF ControlInv
<1>2. Moves(p, "removeApp") /\ At(p, "removeApp") /\ UNCHANGED <<users, roles>>
      /\ apps' = [apps EXCEPT ![c(p).a] = Null]
  BY <1>1, DoneMoves DEF RemoveApp, Done
<1>3. c(p).name = "deleteApp" /\ Left(p) = 3 /\ Busy(p) /\ Others(p) /\ c(p).a \in AppKey
      /\ ops[p].todo[1] = {"removeApp"}
  BY <1>1, <1>2, Where, CallShape DEF Place, Pairs, Moves
<1>4. ~ Granted(c(p).a) /\ ~ Overridden(c(p).a)
  BY <1>3 DEF AppsCore, KnowsApp
<1>5. \A a \in AppKey : (Granted(a)' <=> Granted(a)) /\ (Overridden(a)' <=> Overridden(a))
  BY <1>2, SameUsers, SameRoles
<1>6. \A a \in AppKey : a # c(p).a => apps'[a] = apps[a]
  BY <1>1, <1>2 DEF RInv, StoreOK
<1>7. GrantsStand'
  BY <1>2, <1>4, <1>5, <1>6, OwedKept DEF GrantsStand, AppsCore
<1>8. OverridesStand'
  BY <1>2, <1>4, <1>5, <1>6, OwedKept DEF OverridesStand, AppsCore
<1>9. KnowsApp(p)'
  BY <1>2, <1>5, OwnKnowsApp DEF AppsCore
<1>10. AppsTaken(p) /\ ReferencesUsed(p)
  BY <1>3, <1>5, <1>6 DEF AppsTaken, ReferencesUsed, Takes
<1> QED BY <1>3, <1>7, <1>8, <1>9, <1>10, AppsTogether

(* What moveApp does when it does it: the app goes by its new key, and the  *)
(* references are owed.                                                     *)
LEMMA MovesApp ==
  ASSUME ControlInv, ControlInv', NEW p \in Proc, KnowsApp(p), MoveApp(p), ~ Halts(p, "moveApp")
  PROVE  /\ At(p, "moveApp") /\ Goes(p, "moveApp") /\ Others(p) /\ UNCHANGED <<users, roles>>
         /\ c(p).name = "renameApp" /\ Left(p) = 4 /\ Busy(p) /\ c(p)' = c(p) /\ Left(p)' = 3
         /\ c(p).a \in AppKey /\ c(p).a2 \in AppKey /\ c(p).a # c(p).a2
         /\ apps[c(p).a] # Null /\ apps[c(p).a2] = Null
         /\ apps' = [apps EXCEPT ![c(p).a2] = apps[c(p).a], ![c(p).a] = Null]
         /\ At(p, "moveGrants")' /\ At(p, "moveOverrides")'
<1>1. RInv /\ RInv'
  BY DEF ControlInv
<1>2. Done(p, "moveApp") /\ ~ Throw(p, "moveApp")
  BY <1>1, ThrowHalts DEF MoveApp
<1>3. Moves(p, "moveApp") /\ At(p, "moveApp")
  BY <1>1, <1>2, DoneMoves DEF Done
<1>4. c(p).name = "renameApp" /\ Left(p) = 4 /\ Busy(p) /\ ops[p].todo[1] = {"moveApp"}
      /\ c(p).a \in AppKey /\ c(p).a2 \in AppKey
  BY <1>1, <1>3, Where, CallShape DEF Place, Pairs
<1>5. Goes(p, "moveApp") /\ Others(p)
  BY <1>3, <1>4 DEF Moves
<1>6. apps[c(p).a] # Null
  BY <1>4 DEF KnowsApp
<1>7. apps[c(p).a2] = Null /\ c(p).a # c(p).a2 /\ UNCHANGED <<users, roles>>
      /\ apps' = [apps EXCEPT ![c(p).a2] = apps[c(p).a], ![c(p).a] = Null]
  BY <1>2, <1>6 DEF MoveApp
<1>8. c(p)' = c(p) /\ Left(p)' = 3
  BY <1>3, <1>4, <1>5, GoesOn
<1>9. ops'[p].todo # <<>> /\ Head(ops'[p].todo) = ops'[p].todo[1]
  <2>1. ops'[p].todo \in Seq(SUBSET StepName)
    BY <1>1 DEF RInv, OpsOK, Op
  <2>2. Len(ops'[p].todo) = 3
    BY <1>8 DEF Left
  <2>3. Len(<<>>) = 0
    OBVIOUS
  <2>4. ops'[p].todo # <<>>
    BY <2>2, <2>3
  <2> QED BY <2>1, <2>4
<1>10. ops'[p].todo[1] = Program["renameApp"][Len(Program["renameApp"]) - 4 + 2]
  BY <1>3, <1>4, <1>5, <1>9, GoesOn DEF Busy
<1>11. At(p, "moveGrants")' /\ At(p, "moveOverrides")'
  <2>1. ops'[p].todo[1] = {"moveGrants", "moveOverrides"}
    BY <1>10, Lengths
  <2> QED BY <1>9, <2>1 DEF At
<1> QED BY <1>3, <1>4, <1>5, <1>6, <1>7, <1>8, <1>11

LEMMA MoveAppStep ==
  ASSUME ControlInv, ControlInv', AppsApart, AppsCore, NEW p \in Proc, MoveApp(p)
  PROVE  AppsCore'
<1>1. CASE Halts(p, "moveApp")
  BY <1>1, HaltStep
<1>2. CASE ~ Halts(p, "moveApp")
  <2>1. /\ At(p, "moveApp") /\ Goes(p, "moveApp") /\ Others(p) /\ UNCHANGED <<users, roles>>
        /\ c(p).name = "renameApp" /\ Left(p) = 4 /\ Busy(p) /\ c(p)' = c(p) /\ Left(p)' = 3
        /\ c(p).a \in AppKey /\ c(p).a2 \in AppKey /\ c(p).a # c(p).a2
        /\ apps[c(p).a] # Null /\ apps[c(p).a2] = Null
        /\ apps' = [apps EXCEPT ![c(p).a2] = apps[c(p).a], ![c(p).a] = Null]
        /\ At(p, "moveGrants")' /\ At(p, "moveOverrides")'
    BY <1>2, MovesApp DEF AppsCore
  <2>2. DOMAIN apps = AppKey
    BY StoreShape DEF ControlInv
  <2>3. /\ apps'[c(p).a2] # Null
        /\ \A a \in AppKey : a # c(p).a /\ apps[a] # Null => apps'[a] # Null
    BY <2>1, <2>2
  <2>4. \A a \in AppKey : (Granted(a)' <=> Granted(a)) /\ (Overridden(a)' <=> Overridden(a))
    BY <2>1, SameUsers, SameRoles
  <2>5. Moves(p, "moveApp")
    BY <2>1 DEF Moves
  <2>6. ASSUME NEW a \in AppKey, NEW t \in {"moveGrants", "moveOverrides"}, apps[a] # Null \/ Owed(a, t)
        PROVE  apps'[a] # Null \/ Owed(a, t)'
    <3>1. CASE a = c(p).a
      BY <2>1, <2>6, <3>1 DEF Owed, At, c
    <3>2. CASE a # c(p).a
      BY <2>3, <2>5, <2>6, <3>2, OwedKept
    <3> QED BY <3>1, <3>2
  <2>7. GrantsStand' /\ OverridesStand'
    BY <2>4, <2>6 DEF GrantsStand, OverridesStand, AppsCore
  <2>8. KnowsApp(p)'
    BY <2>1, <2>3 DEF KnowsApp
  <2>9. AppsTaken(p) /\ ReferencesUsed(p)
    BY <2>1, <2>3, <2>4 DEF AppsTaken, ReferencesUsed, Takes
  <2> QED BY <2>1, <2>7, <2>8, <2>9, AppsTogether
<1> QED BY <1>1, <1>2

(* The references of the old key become references of the new one.          *)
LEMMA MovesGrants ==
  ASSUME RInv, NEW p \in Proc, MoveGrants(p)
  PROVE  /\ UNCHANGED <<users, apps, sessions>>
         /\ \A k \in RoleKey :
              /\ roles'[k] = Null <=> roles[k] = Null
              /\ roles[k] # Null =>
                   roles'[k].grants = {Rename(a, c(p).a, c(p).a2) : a \in roles[k].grants}
<1>1. \A k \in RoleKey : roles[k] # Null => roles[k] \in RoleDoc
  BY StoreShape
<1>2. roles' = [k \in RoleKey |->
        IF roles[k] = Null THEN Null
        ELSE [roles[k] EXCEPT !.grants = {Rename(a, c(p).a, c(p).a2) : a \in @}]]
  BY DEF MoveGrants
<1>3. c(p).a2 \in AppKey
  BY CallShape DEF MoveGrants, Done
<1>4. ASSUME NEW k \in RoleKey, roles[k] # Null
      PROVE  /\ roles'[k].grants = {Rename(a, c(p).a, c(p).a2) : a \in roles[k].grants}
             /\ roles'[k] # Null
  <2>1. /\ roles[k] \in RoleDoc
        /\ roles'[k] = [roles[k] EXCEPT !.grants = {Rename(a, c(p).a, c(p).a2) : a \in @}]
    BY <1>1, <1>2, <1>4
  <2>2. \A a \in roles[k].grants : Rename(a, c(p).a, c(p).a2) \in AppKey
    BY <1>3, <2>1 DEF Rename, RoleDoc
  <2>3. roles'[k] \in RoleDoc
    BY <2>1, <2>2 DEF RoleDoc
  <2>4. roles'[k] # Null
    BY <2>3, NullAssumption
  <2> QED BY <2>1, <2>4 DEF RoleDoc
<1>5. \A k \in RoleKey : roles[k] = Null => roles'[k] = Null
  BY <1>2
<1> QED BY <1>4, <1>5 DEF MoveGrants

LEMMA MovesOverrides ==
  ASSUME RInv, NEW p \in Proc, MoveOverrides(p)
  PROVE  /\ UNCHANGED <<roles, apps, sessions>>
         /\ \A u \in User :
              /\ users'[u] = Null <=> users[u] = Null
              /\ users[u] # Null =>
                   /\ users'[u].status = users[u].status /\ users'[u].roles = users[u].roles
                   /\ users'[u].overrides =
                        {[app |-> Rename(o.app, c(p).a, c(p).a2), effect |-> o.effect] :
                           o \in users[u].overrides}
<1>1. \A u \in User : users[u] # Null => users[u] \in UserDoc
  BY StoreShape
<1>2. users' = [u \in User |->
        IF users[u] = Null THEN Null
        ELSE [users[u] EXCEPT !.overrides =
                {[o EXCEPT !.app = Rename(o.app, c(p).a, c(p).a2)] : o \in @}]]
  BY DEF MoveOverrides
<1>3. c(p).a2 \in AppKey
  BY CallShape DEF MoveOverrides, Done
<1>4. ASSUME NEW u \in User, users[u] # Null
      PROVE  /\ users'[u] # Null
             /\ users'[u].status = users[u].status /\ users'[u].roles = users[u].roles
             /\ users'[u].overrides =
                  {[app |-> Rename(o.app, c(p).a, c(p).a2), effect |-> o.effect] :
                     o \in users[u].overrides}
  <2>1. /\ users[u] \in UserDoc
        /\ users'[u] = [users[u] EXCEPT !.overrides =
                          {[o EXCEPT !.app = Rename(o.app, c(p).a, c(p).a2)] : o \in @}]
    BY <1>1, <1>2, <1>4
  <2>2. \A o \in users[u].overrides :
          /\ [o EXCEPT !.app = Rename(o.app, c(p).a, c(p).a2)]
               = [app |-> Rename(o.app, c(p).a, c(p).a2), effect |-> o.effect]
          /\ [app |-> Rename(o.app, c(p).a, c(p).a2), effect |-> o.effect] \in Override
    BY <1>3, <2>1 DEF Rename, UserDoc, Override
  <2>3. {[o EXCEPT !.app = Rename(o.app, c(p).a, c(p).a2)] : o \in users[u].overrides}
          = {[app |-> Rename(o.app, c(p).a, c(p).a2), effect |-> o.effect] : o \in users[u].overrides}
    BY <2>2
  <2> DEFINE new == {[app |-> Rename(o.app, c(p).a, c(p).a2), effect |-> o.effect] :
                       o \in users[u].overrides}
  <2>4. users'[u] = [users[u] EXCEPT !.overrides = new] /\ new \subseteq Override
    BY <2>1, <2>2, <2>3
  <2> HIDE DEF new
  <2>5. /\ users'[u] \in UserDoc /\ users'[u].overrides = new
        /\ users'[u].status = users[u].status /\ users'[u].roles = users[u].roles
    BY <2>1, <2>4 DEF UserDoc
  <2>6. users'[u] # Null
    BY <2>5, NullAssumption
  <2> QED BY <2>5, <2>6 DEF new
<1>5. \A u \in User : users[u] = Null => users'[u] = Null
  BY <1>2
<1> QED BY <1>4, <1>5 DEF MoveOverrides

LEMMA MoveReferencesStep ==
  ASSUME ControlInv, ControlInv', AppsApart, AppsCore, NEW p \in Proc,
         MoveGrants(p) \/ MoveOverrides(p)
  PROVE  AppsCore'
<1>1. RInv
  BY DEF ControlInv
<1>2. PICK s \in {"moveGrants", "moveOverrides"} :
        /\ Done(p, s)
        /\ s = "moveGrants" => MoveGrants(p)
        /\ s = "moveOverrides" => MoveOverrides(p)
  BY DEF MoveGrants, MoveOverrides
<1>3. Moves(p, s) /\ At(p, s)
  BY <1>1, <1>2, DoneMoves DEF Done
<1>4. c(p).name = "renameApp" /\ Left(p) = 3 /\ Busy(p) /\ Others(p) /\ UNCHANGED apps
      /\ c(p).a \in AppKey /\ c(p).a2 \in AppKey
  BY <1>1, <1>2, <1>3, Where, CallShape, MovesGrants, MovesOverrides DEF Place, Moves
<1>5. apps[c(p).a2] # Null
  BY <1>4 DEF AppsCore, KnowsApp
<1>6. ASSUME NEW a \in AppKey, NEW t \in {"moveGrants", "moveOverrides"}, Owed(a, t), a # c(p).a
      PROVE  Owed(a, t)'
  <2>1. PICK r \in Proc : At(r, t) /\ c(r).a = a
    BY <1>6 DEF Owed
  <2>2. ops'[r] = ops[r]
    BY <1>4, <1>6, <2>1 DEF Others
  <2> QED BY <2>1, <2>2 DEF Owed, At, c
<1>7. /\ s = "moveGrants" => UNCHANGED users
      /\ s = "moveOverrides" => UNCHANGED roles
  BY <1>1, <1>2, MovesGrants, MovesOverrides
<1>8. ASSUME NEW a \in AppKey, Granted(a)', s = "moveGrants"
      PROVE  a = c(p).a2 \/ (Granted(a) /\ a # c(p).a)
  BY <1>1, <1>2, <1>8, MovesGrants DEF Granted, Rename
<1>9. ASSUME NEW a \in AppKey, Overridden(a)', s = "moveOverrides"
      PROVE  a = c(p).a2 \/ (Overridden(a) /\ a # c(p).a)
  BY <1>1, <1>2, <1>9, MovesOverrides DEF Overridden, Rename
<1>10. \A a \in AppKey : /\ s = "moveOverrides" => (Granted(a)' <=> Granted(a))
                         /\ s = "moveGrants" => (Overridden(a)' <=> Overridden(a))
  BY <1>7, SameUsers, SameRoles
<1>11. AppsKept
  BY <1>4 DEF AppsKept
<1>12. GrantsStand'
  <2>1. CASE s = "moveGrants"
    BY <1>4, <1>5, <1>6, <1>8, <2>1 DEF GrantsStand, AppsCore
  <2>2. CASE s = "moveOverrides"
    BY <1>3, <1>10, <1>11, <2>2, StandKept
  <2> QED BY <2>1, <2>2
<1>13. OverridesStand'
  <2>1. CASE s = "moveOverrides"
    BY <1>4, <1>5, <1>6, <1>9, <2>1 DEF OverridesStand, AppsCore
  <2>2. CASE s = "moveGrants"
    BY <1>3, <1>10, <1>11, <2>2, StandKept
  <2> QED BY <2>1, <2>2
<1>14. KnowsApp(p)'
  BY <1>3, <1>4, <1>11, OwnKnowsApp DEF AppsCore
<1>15. AppsTaken(p) /\ ReferencesUsed(p)
  BY <1>2, <1>4, <1>8, <1>9, <1>10, <1>11 DEF AppsTaken, AppsKept, ReferencesUsed, Uses, Takes
<1> QED BY <1>4, <1>12, <1>13, <1>14, <1>15, AppsTogether

LEMMA ReadsApps ==
  ASSUME ControlInv, ControlInv', AppsApart, AppsCore, NEW p \in Proc,
         \/ FindUser(p) \/ FindActive(p) \/ FindRole(p) \/ FindNoRole(p) \/ FindApp(p)
         \/ FindNoApp(p) \/ IdpDelete(p) \/ MoveUsage(p) \/ DropUsage(p)
         \/ EvictUser(p) \/ EvictAll(p)
  PROVE  AppsCore'
<1>1. RInv
  BY DEF ControlInv
<1>2. ASSUME NEW s, s \notin {"moveGrants", "moveOverrides", "moveApp", "dropGrants", "dropOverrides"},
             Halts(p, s) \/ (Moves(p, s) /\ UNCHANGED store),
             Moves(p, s) /\ s = "findApp" => apps[c(p).a] # Null
      PROVE  AppsCore'
  <2>1. CASE Halts(p, s)
    BY <1>2, <2>1, HaltStep
  <2>2. CASE Moves(p, s) /\ UNCHANGED store
    <3>1. AppsKept /\ \A a \in AppKey : (Granted(a)' <=> Granted(a)) /\ (Overridden(a)' <=> Overridden(a))
      BY <2>2, SameUsers, SameRoles DEF store, AppsKept
    <3> QED BY <1>2, <2>2, <3>1, MildStep
  <2> QED BY <1>2, <2>1, <2>2
<1>3. CASE FindApp(p)
  BY <1>1, <1>2, <1>3, FindAppMoves, HaltStep
<1>4. CASE FindUser(p) \/ FindActive(p) \/ FindRole(p)
  BY <1>1, <1>2, <1>4, CheckMoves DEF FindUser, FindActive, FindRole
<1>5. CASE FindNoRole(p) \/ FindNoApp(p)
  BY <1>1, <1>2, <1>5, CheckMoves DEF FindNoRole, FindNoApp
<1>6. CASE IdpDelete(p) \/ MoveUsage(p) \/ DropUsage(p) \/ EvictUser(p) \/ EvictAll(p)
  BY <1>1, <1>2, <1>6, DoneMoves, ThrowHalts
     DEF IdpDelete, MoveUsage, DropUsage, EvictUser, EvictAll
<1> QED BY <1>3, <1>4, <1>5, <1>6

LEMMA WritesApps ==
  ASSUME ControlInv, ControlInv', AppsApart, AppsCore, NEW p \in Proc,
         \/ WriteRoles(p) \/ WriteDisabled(p) \/ WriteActive(p) \/ PullOverride(p)
         \/ RemoveUser(p) \/ MoveHolders(p) \/ StripHolders(p)
         \/ DropSessions(p) \/ OpenSession(p)
         \/ InsertRole(p) \/ PullGrant(p) \/ RemoveRole(p) \/ MoveRole(p)
         \/ InsertApp(p) \/ WriteApp(p) \/ WriteSecret(p)
  PROVE  AppsCore'
<1>1. RInv
  BY DEF ControlInv
<1> DEFINE Fewer == /\ AppsKept
                    /\ \A a \in AppKey : (Granted(a)' => Granted(a)) /\ (Overridden(a)' => Overridden(a))
           Other == {"moveGrants", "moveOverrides", "moveApp", "dropGrants", "dropOverrides", "findApp"}
<1>2. ASSUME NEW s, s \notin Other, Halts(p, s) \/ (Moves(p, s) /\ Fewer)
      PROVE  AppsCore'
  BY <1>2, HaltStep, MildStep
<1>3. CASE WriteRoles(p) \/ WriteDisabled(p) \/ WriteActive(p) \/ PullOverride(p)
           \/ RemoveUser(p) \/ MoveHolders(p) \/ StripHolders(p)
  <2>1. PICK s : s \notin Other /\ Done(p, s)
    BY <1>3 DEF WriteRoles, WriteDisabled, WriteActive, PullOverride, RemoveUser, MoveHolders,
       StripHolders
  <2>2. OverridesKept /\ UNCHANGED <<roles, apps>>
    BY <1>1, <1>3, UserWrites
  <2>3. Fewer
    BY <2>2, SameRoles, FewerOverrides DEF AppsKept
  <2> QED BY <1>1, <1>2, <2>1, <2>3, DoneMoves
<1>4. CASE DropSessions(p) \/ OpenSession(p)
  <2>1. PICK s : s \notin Other /\ Done(p, s)
    BY <1>4 DEF DropSessions, OpenSession
  <2>2. Fewer
    BY <1>4, SameRoles, SameUsers DEF AppsKept, DropSessions, OpenSession
  <2> QED BY <1>1, <1>2, <2>1, <2>2, DoneMoves
<1>5. CASE InsertRole(p) \/ PullGrant(p) \/ RemoveRole(p) \/ MoveRole(p)
  <2>1. PICK s : s \notin Other /\ (Done(p, s) \/ Throw(p, s))
    BY <1>5 DEF InsertRole, PullGrant, RemoveRole, MoveRole
  <2>2. CASE Throw(p, s)
    BY <1>1, <1>2, <2>1, <2>2, ThrowHalts
  <2>3. CASE Done(p, s)
    <3>1. GrantsKept /\ UNCHANGED <<users, apps>>
      BY <1>1, <1>5, <2>3, RoleWrites
    <3>2. Fewer
      BY <3>1, SameUsers DEF AppsKept, GrantsKept
    <3> QED BY <1>1, <1>2, <2>1, <2>3, <3>2, DoneMoves
  <2> QED BY <2>1, <2>2, <2>3
<1>6. CASE InsertApp(p) \/ WriteApp(p) \/ WriteSecret(p)
  <2>1. PICK s : s \notin Other /\ (Done(p, s) \/ Throw(p, s))
    BY <1>6 DEF InsertApp, WriteApp, WriteSecret
  <2>2. CASE Throw(p, s)
    BY <1>1, <1>2, <2>1, <2>2, ThrowHalts
  <2>3. CASE Done(p, s)
    <3>1. AppsKept /\ UNCHANGED <<users, roles>>
      BY <1>1, <1>6, <2>3, AppWrites
    <3>2. Fewer
      BY <3>1, SameUsers, SameRoles
    <3> QED BY <1>1, <1>2, <2>1, <2>3, <3>2, DoneMoves
  <2> QED BY <2>1, <2>2, <2>3
<1> QED BY <1>3, <1>4, <1>5, <1>6

(* A restart that cuts no rename off finds every reference good, and the    *)
(* bootstrap adds one only to the app it seeds.                             *)
LEMMA RestartUsers ==
  ASSUME RInv, RestartPortal
  PROVE  \A u \in User :
           \/ users'[u] = users[u]
           \/ /\ users'[u] # Null /\ users'[u].status = "active"
              /\ \A o \in users'[u].overrides :
                   \/ users[u] # Null /\ o \in users[u].overrides
                   \/ EmptyRegistry /\ o = [app |-> DemoApp, effect |-> "allow"]
<1>1. \A u \in User : users[u] # Null => users[u] \in UserDoc
  BY StoreShape
<1>2. ASSUME NEW user \in UserDoc \cup {Null}
      PROVE  /\ Restored(user).status = "active" /\ WithDemo(Restored(user)).status = "active"
             /\ \A o \in WithDemo(Restored(user)).overrides :
                  \/ user # Null /\ o \in user.overrides
                  \/ o = [app |-> DemoApp, effect |-> "allow"]
             /\ \A o \in Restored(user).overrides : user # Null /\ o \in user.overrides
  <2>1. CASE user = Null
    BY <2>1 DEF Restored, WithDemo
  <2>2. CASE user # Null
    BY <2>2 DEF Restored, WithDemo, UserDoc
  <2> QED BY <2>1, <2>2
<1>3. ASSUME NEW u \in User
      PROVE  /\ Restored(users[u]) # Null /\ WithDemo(Restored(users[u])) # Null
             /\ users[u] \in UserDoc \cup {Null}
  BY <1>1, RestoredOK, NullAssumption
<1>4. CASE EmptyRegistry
  <2>1. \A u \in User : users'[u] = users[u] \/ users'[u] = WithDemo(Restored(users[u]))
    BY <1>4 DEF RestartPortal, Bootstrap, EnsureDemoApp
  <2> QED BY <1>2, <1>3, <1>4, <2>1
<1>5. CASE ~ EmptyRegistry
  <2>1. \A u \in User : users'[u] = users[u] \/ users'[u] = Restored(users[u])
    BY <1>5 DEF RestartPortal, Bootstrap, EnsureSuperadmin
  <2> QED BY <1>2, <1>3, <2>1
<1> QED BY <1>4, <1>5

LEMMA RestartRoles ==
  ASSUME RInv, RestartPortal
  PROVE  GrantsKept
<1>1. roles' = [roles EXCEPT ![ProtectedRole] = IF @ = Null THEN [grants |-> {}] ELSE @]
      /\ DOMAIN roles = RoleKey
  BY StoreShape DEF RestartPortal, Bootstrap, EnsureSuperadmin, EnsureDemoApp
<1> QED BY <1>1 DEF GrantsKept, Granted

LEMMA RestartApps ==
  ASSUME RInv, RestartPortal
  PROVE  IF EmptyRegistry THEN apps'[DemoApp] # Null ELSE apps' = apps
<1>1. DemoApp \in AppKey /\ DOMAIN apps = AppKey
  BY StoreShape, RegistryAssumption
<1>2. \A s \in Secret, b \in BOOLEAN : [status |-> "active", public |-> b, secret |-> s] # Null
  <2>1. \A s \in Secret, b \in BOOLEAN : [status |-> "active", public |-> b, secret |-> s] \in AppDoc
    BY DEF AppDoc, AppStatus
  <2> QED BY <2>1, NullAssumption
<1> QED BY <1>1, <1>2 DEF RestartPortal, Bootstrap, EnsureDemoApp

LEMMA RestartIdle ==
  ASSUME RestartPortal
  PROVE  /\ \A p \in Proc : ~ Busy(p)' /\ c(p)' = Null /\ \A t : ~ At(p, t)'
         /\ \A n \in DOMAIN Program : n \notin torn' =>
              n \notin torn /\ \A p \in Proc : Owes(p) => c(p).name # n
BY DEF RestartPortal, Idle, Busy, c, At

LEMMA RestartClean ==
  ASSUME ControlInv, AppsInv, RestartPortal, "renameApp" \notin torn'
  PROVE  \A a \in AppKey : Granted(a) \/ Overridden(a) => apps[a] # Null
<1>1. "renameApp" \in DOMAIN Program
  BY DEF Program
<1>2. "renameApp" \notin torn /\ \A p \in Proc : Owes(p) => c(p).name # "renameApp"
  BY <1>1, RestartIdle
<1>3. \A a, t : t \in {"moveGrants", "moveOverrides"} => ~ Owed(a, t)
  BY <1>2, Where DEF Owed, Owes, Place
<1> QED BY <1>2, <1>3 DEF AppsInv, GrantsStand, OverridesStand

LEMMA RestartAppsInv ==
  ASSUME ControlInv, AppsInv, RestartPortal
  PROVE  AppsInv'
<1> SUFFICES ASSUME "renameApp" \notin torn' PROVE AppsCore'
  BY DEF AppsInv, AppsCore
<1>1. RInv
  BY DEF ControlInv
<1>2. \A a \in AppKey : Granted(a)' => Granted(a)
  BY <1>1, RestartRoles DEF GrantsKept
<1>3. \A a \in AppKey : Overridden(a)' => Overridden(a) \/ (EmptyRegistry /\ a = DemoApp)
  BY <1>1, RestartUsers DEF Overridden
<1>4. \A a \in AppKey : Granted(a)' \/ Overridden(a)' => apps'[a] # Null
  BY <1>1, <1>2, <1>3, RestartClean, RestartApps DEF EmptyRegistry
<1>5. \A p \in Proc : KnowsApp(p)'
  BY RestartIdle DEF KnowsApp
<1> QED BY <1>4, <1>5 DEF AppsCore, GrantsStand, OverridesStand

LEMMA InitApps == RInit => AppsInv
<1> SUFFICES ASSUME RInit PROVE AppsInv
  OBVIOUS
<1>1. PICK s \in Stores : users = s.users /\ roles = s.roles /\ apps = s.apps
  BY DEF RInit
<1>2. \A p \in Proc : ~ Busy(p)
  BY DEF RInit, Busy, Idle
<1>3. GrantsStand /\ OverridesStand
  BY <1>1, StoresAssumption DEF GrantsStand, OverridesStand, Granted, Overridden
<1> QED BY <1>2, <1>3 DEF AppsInv, KnowsApp

LEMMA NextApps ==
  ASSUME ControlInv, ControlInv', AppsInv, AppsApart, [RNext]_rvars
  PROVE  AppsInv'
<1>1. CASE RestartPortal
  BY <1>1, RestartAppsInv
<1>2. ASSUME NEW p \in Proc, StoreStep(p) \/ EvictUser(p) \/ EvictAll(p), UNCHANGED torn,
             "renameApp" \notin torn
      PROVE  AppsInv'
  <2>1. AppsCore
    BY <1>2 DEF AppsInv, AppsCore
  <2>2. AppsCore'
    BY <1>2, <2>1, ReadsApps, WritesApps, StartApps, PushesApps, DropsApps, RemovesApp, MoveAppStep,
       MoveReferencesStep DEF StoreStep
  <2> QED BY <2>2 DEF AppsInv, AppsCore
<1>3. CASE UNCHANGED rvars
  BY <1>3 DEF rvars, AppsInv, GrantsStand, OverridesStand, Granted, Overridden, Owed, KnowsApp,
     At, c, Busy, Left
<1>4. CASE "renameApp" \in torn /\ UNCHANGED torn
  BY <1>4 DEF AppsInv
<1> QED BY <1>1, <1>2, <1>3, <1>4 DEF RNext

(* No reference dangles (NoDanglingApp): any number of handlers may         *)
(* overlap, as long as none takes an app away that another counts on.       *)
(* addGrant and setOverride ask for the app first; deleteApp drops the      *)
(* references before the app; renameApp moves the app first, and owes the   *)
(* references until its cascades are done.                                  *)
THEOREM ReferencesStand == RSpec /\ []AppsApart => []NoDanglingApp
<1> DEFINE Inv == ControlInv /\ AppsInv
<1>1. RInit => Inv
  BY InitControl, InitApps
<1>2. Inv /\ AppsApart /\ [RNext]_rvars => Inv'
  BY NextControl, NextApps
<1>3. Inv => NoDanglingApp
  <2> SUFFICES ASSUME ControlInv, AppsInv, "renameApp" \notin torn, \A p \in Proc : ~ Renaming(p)
               PROVE  \A a \in AppKey : Granted(a) \/ Overridden(a) => apps[a] # Null
    <3>1. ASSUME \A a \in AppKey : Granted(a) \/ Overridden(a) => apps[a] # Null, RInv
          PROVE  /\ \A k \in RoleKey : roles[k] # Null => \A a \in roles[k].grants : apps[a] # Null
                 /\ \A u \in User : users[u] # Null => \A o \in users[u].overrides : apps[o.app] # Null
      <4>1. /\ \A k \in RoleKey : roles[k] # Null => roles[k].grants \subseteq AppKey
            /\ \A u \in User : users[u] # Null => \A o \in users[u].overrides : o.app \in AppKey
        BY <3>1, StoreShape DEF UserDoc, RoleDoc, Override
      <4> QED BY <3>1, <4>1 DEF Granted, Overridden
    <3> QED BY <3>1 DEF NoDanglingApp, ControlInv
  <2>1. \A a, t : t \in {"moveGrants", "moveOverrides"} => ~ Owed(a, t)
    BY Where DEF Owed, Renaming, Place, At
  <2> QED BY <2>1 DEF AppsInv, GrantsStand, OverridesStand
<1> QED BY <1>1, <1>2, <1>3, PTL DEF RSpec

(* With one handler at a time no reference dangles, wherever a restart cuts *)
(* it off, a rename's aside.                                                *)
COROLLARY SerialReferencesStand ==
  ASSUME \A p, q \in Proc : p = q
  PROVE  RSpec => []NoDanglingApp
<1>1. AppsApart
  BY DEF AppsApart
<1> QED BY <1>1, ReferencesStand, PTL

------------------------------------------------------------------------------
(* Nobody has two overrides for one app.                                    *)

OverridesCore == (\A u \in User : Single(u)) /\ \A p \in Proc : Pulled(p)

(* Where a handler is after a step: at what its program has next, or at     *)
(* what it was already awaiting.                                            *)
LEMMA WhereNext ==
  ASSUME ControlInv, ControlInv', NEW p \in Proc, NEW s, At(p, s), Goes(p, s), NEW t, At(p, t)'
  PROVE  /\ Place(c(p).name, Left(p)', t)
         /\ \/ ops[p].todo[1] = {s} /\ Left(p)' = Left(p) - 1
            \/ At(p, t) /\ t # s /\ Left(p)' = Left(p)
<1>1. RInv /\ RInv' /\ Follows(ops[p])
  BY DEF ControlInv
<1>2. Busy(p)' /\ t \in ops'[p].todo[1]
  <2>1. ops'[p].todo \in Seq(SUBSET StepName) /\ ops'[p].todo # <<>>
    BY <1>1 DEF RInv, OpsOK, Op, At
  <2>2. Head(ops'[p].todo) = ops'[p].todo[1]
    BY <2>1
  <2> QED BY <2>1, <2>2 DEF At, Busy
<1>3. Busy(p) /\ c(p) \in Call /\ Left(p) \in Nat \ {0} /\ Head(ops[p].todo) = ops[p].todo[1]
      /\ c(p).name \in DOMAIN Program
  BY <1>1, OpShape DEF At, Busy
<1>4. CASE ops[p].todo[1] = {s}
  <2> DEFINE program == Program[c(p).name]
             i       == Len(program) - Left(p) + 2
  <2>1. Left(p)' = Left(p) - 1 /\ Left(p)' # 0 /\ t \in program[i]
    BY <1>2, <1>4, GoesOn
  <2>2. Len(program) - Left(p) \in Nat /\ Len(program) \in Nat
    BY <1>1, <1>3, ProgramFull DEF Follows, Busy, Left, c
  <2>3. i \in 1..Len(program) /\ Len(program) + 1 - i = Left(p) - 1
    <3> HIDE DEF program
    <3>1. Left(p) \in Nat /\ Left(p) - 1 # 0 /\ Left(p) # 0
      BY <1>3, <2>1
    <3> QED BY <2>2, <3>1
  <2> HIDE DEF i
  <2>4. Place(c(p).name, Len(program) + 1 - i, t)
    BY <1>3, <2>1, <2>3, StepTable
  <2> QED BY <1>4, <2>1, <2>3, <2>4
<1>5. CASE ops[p].todo[1] # {s}
  <2>1. Left(p)' = Left(p) /\ t \in ops[p].todo[1] /\ t # s
    BY <1>2, <1>5, GoesOn
  <2>2. At(p, t)
    BY <1>3, <2>1 DEF At, Busy
  <2> QED BY <2>1, <2>2, Where
<1> QED BY <1>4, <1>5

(* Where a handler is when it has just begun.                               *)
LEMMA WhereStarts ==
  ASSUME RInv, NEW p \in Proc, Start(p), NEW t, At(p, t)'
  PROVE  Place(c(p)'.name, Left(p)', t)
<1>1. c(p)' \in Call /\ ops'[p].todo = Program[c(p)'.name]
  BY StartMoves
<1> DEFINE n == c(p)'.name
<1>2. n \in DOMAIN Program
  BY <1>1 DEF Call
<1>3. Program[n] \in Seq(SUBSET StepName) /\ Len(Program[n]) \in Nat \ {0}
  BY <1>2, ProgramFull
<1>4. t \in Program[n][1] /\ Left(p)' = Len(Program[n])
  BY <1>1, <1>3 DEF At, Left
<1> HIDE DEF n
<1>5. 1 \in 1..Len(Program[n]) /\ Len(Program[n]) + 1 - 1 = Len(Program[n])
  BY <1>3
<1>6. Place(n, Len(Program[n]) + 1 - 1, t)
  BY <1>2, <1>4, <1>5, StepTable
<1> QED BY <1>4, <1>5, <1>6 DEF n

(* The overrides a handler makes: its setOverride's, and those its rename   *)
(* gives the new key.                                                       *)
OverridesOf(p) ==
  \A u \in User : users'[u] # Null =>
    /\ users[u] # Null
    /\ \A o \in users'[u].overrides :
         \/ o \in users[u].overrides
         \/ c(p).name = "setOverride" /\ c(p).u = u /\ o.app = c(p).a
         \/ c(p).name = "renameApp" /\ o.app = c(p).a2

LEMMA OthersPulled ==
  ASSUME ControlInv, AppsApart, OverridesApart, NEW p \in Proc, NEW q \in Proc, q # p, Busy(p),
         ops'[q] = ops[q], Pulled(q), OverridesOf(p)
  PROVE  Pulled(q)'
<1>1. c(q)' = c(q) /\ \A t : At(q, t)' <=> At(q, t)
  BY DEF c, At
<1>2. ASSUME At(q, "pushOverride"), users'[c(q).u] # Null
      PROVE  \A o \in users'[c(q).u].overrides : o.app # c(q).a
  <2>1. c(q).name = "setOverride" /\ Busy(q) /\ c(q).u \in User /\ c(q).a \in Uses(c(q))
    BY <1>2, Where, CallShape DEF Place, Uses, ControlInv
  <2>2. c(p).name = "renameApp" => c(p).a2 # c(q).a
    BY <2>1 DEF AppsApart, AppsClash, Takes
  <2>3. c(p).name = "setOverride" => c(p).u # c(q).u \/ c(p).a # c(q).a
    BY <2>1 DEF OverridesApart
  <2> QED BY <1>2, <2>1, <2>2, <2>3 DEF OverridesOf, Pulled
<1>3. ASSUME At(q, "moveOverrides"), NEW u \in User, users'[u] # Null
      PROVE  \A o \in users'[u].overrides : o.app # c(q).a2
  <2>1. c(q).name = "renameApp" /\ Busy(q) /\ c(q).a2 \in Takes(c(q))
    BY <1>3, Where DEF Place, Takes
  <2>2. c(p).name \in {"renameApp", "setOverride"} => c(q).a2 \notin Uses(c(p))
    BY <2>1 DEF AppsApart, AppsClash
  <2>3. /\ c(p).name = "renameApp" => c(p).a2 # c(q).a2
        /\ c(p).name = "setOverride" => c(p).a # c(q).a2
    BY <2>2 DEF Uses, Takes
  <2> QED BY <1>3, <2>3 DEF OverridesOf, Pulled, Overridden
<1> QED BY <1>1, <1>2, <1>3 DEF Pulled, Overridden

LEMMA OverridesTogether ==
  ASSUME ControlInv, AppsApart, OverridesApart, OverridesCore, NEW p \in Proc, Busy(p), Others(p),
         OverridesOf(p), Pulled(p)', \A u \in User : Single(u)'
  PROVE  OverridesCore'
<1>1. \A q \in Proc : q # p => Pulled(q)'
  BY OthersPulled DEF OverridesCore, Others
<1> QED BY <1>1 DEF OverridesCore

(* A step that makes no override.                                           *)
LEMMA FewerOverridesStep ==
  ASSUME ControlInv, ControlInv', AppsApart, OverridesApart, OverridesCore, NEW p \in Proc, NEW s,
         Moves(p, s) \/ Halts(p, s), OverridesKept,
         Halts(p, s) \/ s # "moveApp",
         s = "pullOverride" /\ users'[c(p).u] # Null =>
           \A o \in users'[c(p).u].overrides : o.app # c(p).a
  PROVE  OverridesCore'
<1>1. At(p, s) /\ Busy(p) /\ Others(p)
  BY DEF Moves, Halts, At, Busy
<1>2. OverridesOf(p) /\ \A u \in User : Single(u)'
  BY DEF OverridesOf, OverridesKept, Single, OverridesCore
<1>3. Pulled(p)'
  <2>1. CASE Stops(p)
    BY <2>1, Stopped DEF Pulled
  <2>2. CASE ~ Stops(p)
    <3>1. Goes(p, s) /\ s # "moveApp"
      BY <2>2 DEF Moves, Halts
    <3>2. c(p)' = c(p) /\ c(p).u \in User
      BY <1>1, <3>1, GoesOn, CallShape DEF ControlInv
    <3>3. At(p, "pushOverride")' => s = "pullOverride"
      <4> SUFFICES ASSUME At(p, "pushOverride")' PROVE s = "pullOverride"
        OBVIOUS
      <4>1. Place(c(p).name, Left(p)', "pushOverride") /\ Left(p) \in Nat
            /\ ((ops[p].todo[1] = {s} /\ Left(p)' = Left(p) - 1)
                \/ (At(p, "pushOverride") /\ "pushOverride" # s))
        BY <1>1, <3>1, WhereNext, Where
      <4>2. ~ (At(p, "pushOverride") /\ "pushOverride" # s)
        BY <1>1, Where DEF Pairs
      <4>3. c(p).name = "setOverride" /\ Left(p) = 3
        BY <4>1, <4>2 DEF Place
      <4> QED BY <1>1, <4>3, Turn
    <3>4. At(p, "moveOverrides")' => At(p, "moveOverrides")
      <4> SUFFICES ASSUME At(p, "moveOverrides")' PROVE At(p, "moveOverrides")
        OBVIOUS
      <4>1. Place(c(p).name, Left(p)', "moveOverrides") /\ Left(p) \in Nat
            /\ (Left(p)' = Left(p) - 1 \/ At(p, "moveOverrides"))
        BY <1>1, <3>1, WhereNext, Where
      <4>2. c(p).name = "renameApp" /\ Left(p) = 4 => s = "moveApp"
        BY <1>1, Turn
      <4> QED BY <3>1, <4>1, <4>2 DEF Place
    <3>5. At(p, "pushOverride")' /\ users'[c(p).u] # Null =>
            \A o \in users'[c(p).u].overrides : o.app # c(p).a
      BY <3>3
    <3>6. At(p, "moveOverrides")' =>
            \A u \in User : users'[u] # Null => \A o \in users'[u].overrides : o.app # c(p).a2
      BY <3>4 DEF OverridesCore, Pulled, Overridden, OverridesKept
    <3> QED BY <3>2, <3>5, <3>6 DEF Pulled, Overridden
  <2> QED BY <2>1, <2>2
<1> QED BY <1>1, <1>2, <1>3, OverridesTogether

LEMMA StartOverrides ==
  ASSUME ControlInv, ControlInv', OverridesCore, NEW p \in Proc, Start(p)
  PROVE  OverridesCore'
<1>1. /\ Others(p) /\ UNCHANGED store /\ c(p)' \in Call
      /\ ops'[p].todo = Program[c(p)'.name] /\ RInv'
  BY StartMoves DEF ControlInv
<1>2. UNCHANGED users
  BY <1>1 DEF store
<1>3. Left(p)' = Len(Program[c(p)'.name]) /\ RInv
  BY <1>1 DEF Left, ControlInv
<1>4. ~ At(p, "pushOverride")' /\ ~ At(p, "moveOverrides")'
  BY <1>3, WhereStarts, Lengths DEF Place
<1>5. Pulled(p)'
  BY <1>4 DEF Pulled
<1>6. \A q \in Proc : q # p => Pulled(q)'
  BY <1>1, <1>2 DEF Others, OverridesCore, Pulled, Overridden, At, c
<1> QED BY <1>2, <1>5, <1>6 DEF OverridesCore, Single

LEMMA PushOverrideStep ==
  ASSUME ControlInv, ControlInv', AppsApart, OverridesApart, OverridesCore, NEW p \in Proc,
         PushOverride(p)
  PROVE  OverridesCore'
<1>1. RInv
  BY DEF ControlInv
<1>2. Moves(p, "pushOverride") /\ At(p, "pushOverride")
  BY <1>1, DoneMoves DEF PushOverride, Done
<1>3. c(p).name = "setOverride" /\ Left(p) = 2 /\ Busy(p) /\ Others(p) /\ c(p).u \in User
  BY <1>1, <1>2, Where, CallShape DEF Place, Moves
<1>4. Goes(p, "pushOverride")
  BY <1>2, <1>3 DEF Moves
<1> DEFINE new == [app |-> c(p).a, effect |-> c(p).effect]
<1>5. /\ \A u \in User : u # c(p).u => users'[u] = users[u]
      /\ users'[c(p).u] # Null => /\ users[c(p).u] # Null
                                  /\ users'[c(p).u].overrides = users[c(p).u].overrides \cup {new}
  <2>1. DOMAIN users = User /\ (users[c(p).u] # Null => users[c(p).u] \in UserDoc)
    BY <1>1, <1>3, StoreShape
  <2> QED BY <1>3, <2>1 DEF PushOverride, PatchUser, UserDoc
<1>6. OverridesOf(p)
  BY <1>3, <1>5 DEF OverridesOf
<1>7. \A u \in User : Single(u)'
  <2>1. users'[c(p).u] # Null => \A o \in users[c(p).u].overrides : o.app # c(p).a
    BY <1>2, <1>5 DEF OverridesCore, Pulled
  <2>2. Single(c(p).u)
    BY <1>3 DEF OverridesCore
  <2>3. ASSUME NEW u \in User, u = c(p).u
        PROVE  Single(u)'
    BY <1>5, <2>1, <2>2, <2>3 DEF Single
  <2>4. ASSUME NEW u \in User, u # c(p).u
        PROVE  Single(u)'
    BY <1>5, <2>4 DEF Single, OverridesCore
  <2> QED BY <2>3, <2>4
<1>8. Pulled(p)'
  <2>1. \A t : At(p, t)' => Place("setOverride", Left(p)', t) /\ (Left(p)' = 1 \/ (At(p, t) /\ t # "pushOverride"))
    BY <1>2, <1>3, <1>4, WhereNext
  <2>2. \A t : At(p, t) => t = "pushOverride"
    BY <1>2, Where DEF Pairs
  <2> QED BY <2>1, <2>2 DEF Pulled, Place
<1> QED BY <1>3, <1>6, <1>7, <1>8, OverridesTogether

LEMMA MoveOverridesStep ==
  ASSUME ControlInv, ControlInv', AppsApart, OverridesApart, OverridesCore, NEW p \in Proc,
         MoveOverrides(p)
  PROVE  OverridesCore'
<1>1. RInv
  BY DEF ControlInv
<1>2. Moves(p, "moveOverrides") /\ At(p, "moveOverrides")
  BY <1>1, DoneMoves DEF MoveOverrides, Done
<1>3. c(p).name = "renameApp" /\ Left(p) = 3 /\ Busy(p) /\ Others(p)
  BY <1>2, Where DEF Place, Moves
<1>4. Goes(p, "moveOverrides")
  BY <1>2, <1>3 DEF Moves
<1>5. \A u \in User :
        /\ users'[u] = Null <=> users[u] = Null
        /\ users[u] # Null =>
             users'[u].overrides = {[app |-> Rename(o.app, c(p).a, c(p).a2), effect |-> o.effect] :
                                      o \in users[u].overrides}
  BY <1>1, MovesOverrides
<1>6. \A u \in User : users[u] # Null =>
        \A o \in users[u].overrides :
          /\ o.app # c(p).a2 /\ o = [app |-> o.app, effect |-> o.effect]
          /\ Rename(o.app, c(p).a, c(p).a2) = IF o.app = c(p).a THEN c(p).a2 ELSE o.app
  <2>1. ~ Overridden(c(p).a2)
    BY <1>2 DEF OverridesCore, Pulled
  <2>2. \A u \in User : users[u] # Null => users[u].overrides \subseteq Override
    BY <1>1, StoreShape DEF UserDoc
  <2> QED BY <2>1, <2>2 DEF Overridden, Override, Rename
<1>7. OverridesOf(p)
  <2>1. ASSUME NEW u \in User, users'[u] # Null, NEW o \in users'[u].overrides
        PROVE  users[u] # Null /\ (o \in users[u].overrides \/ o.app = c(p).a2)
    <3>1. PICK x \in users[u].overrides :
            o = [app |-> Rename(x.app, c(p).a, c(p).a2), effect |-> x.effect]
      BY <1>5, <2>1
    <3> QED BY <1>5, <1>6, <2>1, <3>1
  <2> QED BY <1>3, <1>5, <2>1 DEF OverridesOf
<1>8. ASSUME NEW u \in User
      PROVE  Single(u)'
  <2> SUFFICES ASSUME users'[u] # Null, NEW o1 \in users'[u].overrides, NEW o2 \in users'[u].overrides,
                      o1.app = o2.app
               PROVE  o1 = o2
    BY DEF Single
  <2>1. users[u] # Null
    BY <1>5
  <2>2. PICK x1 \in users[u].overrides :
          o1 = [app |-> Rename(x1.app, c(p).a, c(p).a2), effect |-> x1.effect]
    BY <1>5, <2>1
  <2>3. PICK x2 \in users[u].overrides :
          o2 = [app |-> Rename(x2.app, c(p).a, c(p).a2), effect |-> x2.effect]
    BY <1>5, <2>1
  <2>4. x1.app = x2.app
    BY <1>6, <2>1, <2>2, <2>3
  <2>5. x1 = x2
    BY <2>1, <2>4 DEF OverridesCore, Single
  <2> QED BY <2>2, <2>3, <2>5
<1>9. Pulled(p)'
  <2>1. \A t : At(p, t)' => Place("renameApp", Left(p)', t) /\ (Left(p)' = 2 \/ (At(p, t) /\ t # "moveOverrides"))
    BY <1>2, <1>3, <1>4, WhereNext
  <2>2. ~ At(p, "moveOverrides")' /\ ~ At(p, "pushOverride")'
    BY <2>1 DEF Place
  <2> QED BY <2>2 DEF Pulled
<1> QED BY <1>3, <1>7, <1>8, <1>9, OverridesTogether

(* A rename in flight: no other rename is about the new key, so nothing     *)
(* refers to it while no app has it.                                        *)
LEMMA NewKeyUnused ==
  ASSUME ControlInv, AppsCore, AppsApart, NEW p \in Proc, At(p, "moveApp"),
         apps[c(p).a2] = Null
  PROVE  ~ Granted(c(p).a2) /\ ~ Overridden(c(p).a2)
<1>1. c(p).name = "renameApp" /\ Left(p) = 4 /\ Busy(p) /\ c(p).a2 \in AppKey
  BY Where, CallShape DEF Place, ControlInv
<1>2. ASSUME NEW t \in {"moveGrants", "moveOverrides"}, Owed(c(p).a2, t)
      PROVE  FALSE
  <2>1. PICK r \in Proc : At(r, t) /\ c(r).a = c(p).a2
    BY <1>2 DEF Owed
  <2>2. r # p
    BY <1>1, <2>1, Where DEF Place
  <2>3. c(r).name = "renameApp" /\ Busy(r)
    BY <2>1, Where DEF Place
  <2> QED BY <1>1, <2>1, <2>2, <2>3 DEF AppsApart, AppsClash, Takes, Uses
<1> QED BY <1>1, <1>2 DEF AppsCore, GrantsStand, OverridesStand

LEMMA MoveAppOverrides ==
  ASSUME ControlInv, ControlInv', AppsCore, AppsApart, OverridesApart, OverridesCore, NEW p \in Proc,
         MoveApp(p), ~ Halts(p, "moveApp")
  PROVE  OverridesCore'
<1>1. /\ At(p, "moveApp") /\ Goes(p, "moveApp") /\ Others(p) /\ UNCHANGED <<users, roles>>
      /\ c(p).name = "renameApp" /\ Left(p) = 4 /\ Busy(p) /\ c(p)' = c(p) /\ Left(p)' = 3
      /\ c(p).a2 \in AppKey /\ apps[c(p).a2] = Null
  BY MovesApp DEF AppsCore
<1>2. ~ Overridden(c(p).a2)
  BY <1>1, NewKeyUnused
<1>3. OverridesOf(p) /\ \A u \in User : Single(u)'
  BY <1>1 DEF OverridesOf, Single, OverridesCore
<1>4. ~ At(p, "pushOverride")'
  BY <1>1, WhereNext DEF Place
<1>5. Pulled(p)'
  BY <1>1, <1>2, <1>4 DEF Pulled, Overridden
<1> QED BY <1>1, <1>3, <1>5, OverridesTogether

(* The other steps make no override.                                        *)
LEMMA OtherOverrides ==
  ASSUME ControlInv, ControlInv', AppsApart, OverridesApart, OverridesCore, NEW p \in Proc,
         StoreStep(p) \/ EvictUser(p) \/ EvictAll(p),
         ~ Start(p), ~ PushOverride(p), ~ MoveOverrides(p), MoveApp(p) => Halts(p, "moveApp")
  PROVE  OverridesCore'
<1>1. RInv
  BY DEF ControlInv
<1>2. ASSUME NEW s, Moves(p, s) \/ Halts(p, s), UNCHANGED users, s \notin {"moveApp", "pullOverride"}
      PROVE  OverridesCore'
  BY <1>2, SameUsers, FewerOverridesStep
<1>3. ASSUME NEW s, Throw(p, s), s # "pullOverride"
      PROVE  OverridesCore'
  <2>1. Halts(p, s) /\ UNCHANGED users
    BY <1>1, <1>3, ThrowHalts DEF Throw, store
  <2> QED BY <1>3, <2>1, SameUsers, FewerOverridesStep
<1>4. ASSUME NEW s, Done(p, s), UNCHANGED users, s \notin {"moveApp", "pullOverride"}
      PROVE  OverridesCore'
  BY <1>1, <1>2, <1>4, DoneMoves
<1>5. CASE FindApp(p)
  <2>1. (Moves(p, "findApp") \/ Halts(p, "findApp")) /\ UNCHANGED users
    BY <1>1, <1>5, FindAppMoves DEF store, Halts
  <2> QED BY <1>2, <2>1
<1>6. CASE FindUser(p) \/ FindActive(p) \/ FindRole(p) \/ FindNoRole(p) \/ FindNoApp(p)
  BY <1>3, <1>4, <1>6 DEF FindUser, FindActive, FindRole, FindNoRole, FindNoApp, Check, store
<1>7. CASE IdpDelete(p) \/ MoveUsage(p) \/ DropUsage(p) \/ EvictUser(p) \/ EvictAll(p)
  BY <1>3, <1>4, <1>7 DEF IdpDelete, MoveUsage, DropUsage, EvictUser, EvictAll, store
<1>8. CASE \/ DropSessions(p) \/ OpenSession(p)
           \/ InsertRole(p) \/ PullGrant(p) \/ PushGrant(p) \/ RemoveRole(p) \/ MoveRole(p)
  BY <1>3, <1>4, <1>8 DEF DropSessions, OpenSession, InsertRole, PullGrant, PushGrant, RemoveRole,
     MoveRole, PatchRole
<1>9. CASE \/ InsertApp(p) \/ WriteApp(p) \/ WriteSecret(p) \/ RemoveApp(p)
           \/ MoveGrants(p) \/ DropGrants(p)
  BY <1>3, <1>4, <1>9 DEF InsertApp, WriteApp, WriteSecret, RemoveApp, MoveGrants, DropGrants
<1>10. CASE MoveApp(p)
  BY <1>10, SameUsers, FewerOverridesStep DEF Halts, store
<1>11. CASE \/ WriteRoles(p) \/ WriteDisabled(p) \/ WriteActive(p)
            \/ RemoveUser(p) \/ MoveHolders(p) \/ StripHolders(p) \/ DropOverrides(p)
  <2>1. PICK s : s \notin {"moveApp", "pullOverride"} /\ Done(p, s)
    BY <1>11 DEF WriteRoles, WriteDisabled, WriteActive, RemoveUser, MoveHolders, StripHolders,
       DropOverrides
  <2>2. OverridesKept
    BY <1>1, <1>11, UserWrites
  <2> QED BY <1>1, <2>1, <2>2, DoneMoves, FewerOverridesStep
<1>12. CASE PullOverride(p)
  <2>1. Moves(p, "pullOverride") /\ c(p).u \in User
    BY <1>1, <1>12, DoneMoves, CallShape DEF PullOverride, Done
  <2>2. OverridesKept
    BY <1>1, <1>12, UserWrites
  <2>3. users'[c(p).u] # Null => \A o \in users'[c(p).u].overrides : o.app # c(p).a
    <3>1. DOMAIN users = User /\ (users[c(p).u] # Null => users[c(p).u] \in UserDoc)
      BY <1>1, <2>1, StoreShape
    <3> QED BY <1>12, <2>1, <3>1 DEF PullOverride, PatchUser, UserDoc
  <2> QED BY <2>1, <2>2, <2>3, FewerOverridesStep
<1> QED BY <1>5, <1>6, <1>7, <1>8, <1>9, <1>10, <1>11, <1>12 DEF StoreStep

LEMMA RestartOverrides ==
  ASSUME ControlInv, AppsInv, OverridesInv, RestartPortal
  PROVE  OverridesInv'
<1> SUFFICES ASSUME "renameApp" \notin torn' PROVE OverridesCore'
  BY DEF OverridesInv, OverridesCore
<1>1. RInv /\ "renameApp" \in DOMAIN Program
  BY DEF ControlInv, Program
<1>2. OverridesCore
  BY <1>1, RestartIdle DEF OverridesInv, OverridesCore
<1>3. EmptyRegistry => \A u \in User : users[u] # Null => users[u].overrides = {}
  <2>1. \A u \in User : users[u] # Null => users[u].overrides \subseteq Override
    BY <1>1, StoreShape DEF UserDoc
  <2> QED BY <2>1, RestartClean DEF EmptyRegistry, Overridden, Override
<1>4. ASSUME NEW u \in User
      PROVE  Single(u)'
  <2>1. CASE users'[u] = users[u]
    BY <1>2, <2>1 DEF OverridesCore, Single
  <2>2. CASE users'[u] # users[u]
    <3>1. \A o \in users'[u].overrides :
            \/ users[u] # Null /\ o \in users[u].overrides
            \/ EmptyRegistry /\ o = [app |-> DemoApp, effect |-> "allow"]
      BY <1>1, <2>2, RestartUsers
    <3> QED BY <1>2, <1>3, <3>1 DEF OverridesCore, Single
  <2> QED BY <2>1, <2>2
<1>5. \A p \in Proc : Pulled(p)'
  BY RestartIdle DEF Pulled
<1> QED BY <1>4, <1>5 DEF OverridesCore

LEMMA InitOverrides == RInit => OverridesInv
<1> SUFFICES ASSUME RInit PROVE OverridesInv
  OBVIOUS
<1>1. PICK s \in Stores : users = s.users
  BY DEF RInit
<1>2. \A p \in Proc : \A t : ~ At(p, t)
  BY DEF RInit, At, Idle
<1> QED BY <1>1, <1>2, StoresAssumption DEF OverridesInv, Single, Pulled

LEMMA NextOverrides ==
  ASSUME ControlInv, ControlInv', AppsInv, OverridesInv, AppsApart, OverridesApart, [RNext]_rvars
  PROVE  OverridesInv'
<1>1. CASE RestartPortal
  BY <1>1, RestartOverrides
<1>2. ASSUME NEW p \in Proc, StoreStep(p) \/ EvictUser(p) \/ EvictAll(p), UNCHANGED torn,
             "renameApp" \notin torn
      PROVE  OverridesInv'
  <2>1. AppsCore /\ OverridesCore
    BY <1>2 DEF AppsInv, AppsCore, OverridesInv, OverridesCore
  <2>2. OverridesCore'
    BY <1>2, <2>1, StartOverrides, PushOverrideStep, MoveOverridesStep, MoveAppOverrides,
       OtherOverrides
  <2> QED BY <2>2 DEF OverridesInv, OverridesCore
<1>3. CASE UNCHANGED rvars
  BY <1>3 DEF rvars, OverridesInv, Single, Pulled, Overridden, At, c
<1>4. CASE "renameApp" \in torn /\ UNCHANGED torn
  BY <1>4 DEF OverridesInv
<1> QED BY <1>1, <1>2, <1>3, <1>4 DEF RNext

(* A user has one override for an app (OneOverridePerApp), if besides no    *)
(* two setOverride for the same user and app overlap: each pulls, and then  *)
(* each pushes.  A rename merges none: it finds the new key unused, and a   *)
(* key that no app has nothing refers to (AppsInv).                         *)
THEOREM OverridesUnique == RSpec /\ []AppsApart /\ []OverridesApart => []OneOverridePerApp
<1> DEFINE Inv == ControlInv /\ AppsInv /\ OverridesInv
<1>1. RInit => Inv
  BY InitControl, InitApps, InitOverrides
<1>2. Inv /\ AppsApart /\ OverridesApart /\ [RNext]_rvars => Inv'
  BY NextControl, NextApps, NextOverrides
<1>3. Inv => OneOverridePerApp
  BY DEF OverridesInv, Single, OneOverridePerApp
<1> QED BY <1>1, <1>2, <1>3, PTL DEF RSpec

(* With one handler at a time nobody has two overrides for one app.         *)
COROLLARY SerialOverridesUnique ==
  ASSUME \A p, q \in Proc : p = q
  PROVE  RSpec => []OneOverridePerApp
<1>1. AppsApart /\ OverridesApart
  BY DEF AppsApart, OverridesApart
<1> QED BY <1>1, OverridesUnique, PTL

------------------------------------------------------------------------------
(* Who is not active has no session.                                        *)

SessionsStand == \A u \in sessions : ActiveUser(users[u]) \/ \E p \in Proc : OwesSessions(p, u)
SessionsCore  == SessionsStand /\ \A p \in Proc : KnowsUser(p)
ActiveKept    == \A u \in User : ActiveUser(users[u]) => ActiveUser(users'[u])

LEMMA PatchKeepsActive ==
  ASSUME RInv, NEW w \in User, NEW new,
         users[w] # Null => new \in UserDoc /\ new.status \in {users[w].status, "active"},
         PatchUser(w, new)
  PROVE  ActiveKept /\ UNCHANGED sessions
<1>1. DOMAIN users = User
  BY StoreShape
<1>2. users[w] # Null => new # Null
  BY NullAssumption
<1> QED BY <1>1, <1>2 DEF PatchUser, ActiveKept, ActiveUser

(* No write but disableUser's and deleteUser's takes a user's status away.  *)
LEMMA StatusWrites ==
  ASSUME RInv, NEW p \in Proc,
         \/ WriteRoles(p) \/ WriteActive(p) \/ PullOverride(p) \/ PushOverride(p)
         \/ MoveHolders(p) \/ StripHolders(p) \/ MoveOverrides(p) \/ DropOverrides(p)
  PROVE  ActiveKept /\ UNCHANGED sessions
<1>1. /\ DOMAIN users = User
      /\ \A u \in User : users[u] # Null => users[u] \in UserDoc
  BY StoreShape
<1>2. c(p).u \in User /\ c(p).k \in RoleKey /\ c(p).k2 \in RoleKey
      /\ c(p).roles \subseteq RoleKey /\ [app |-> c(p).a, effect |-> c(p).effect] \in Override
  <2>1. c(p) \in Call
    BY CallOK DEF WriteRoles, WriteActive, PullOverride, PushOverride, MoveHolders, StripHolders,
       MoveOverrides, DropOverrides, Done
  <2> QED BY <2>1 DEF Call, Override
<1>3. CASE WriteRoles(p) \/ WriteActive(p)
  BY <1>1, <1>2, <1>3, PatchKeepsActive DEF WriteRoles, WriteActive, UserDoc
<1>4. CASE PullOverride(p)
  <2> DEFINE new == [users[c(p).u] EXCEPT !.overrides = {o \in @ : o.app # c(p).a}]
  <2>1. users[c(p).u] # Null => new \in UserDoc /\ new.status = users[c(p).u].status
    BY <1>1, <1>2 DEF UserDoc
  <2>2. PatchUser(c(p).u, new)
    BY <1>4 DEF PullOverride
  <2> HIDE DEF new
  <2> QED BY <1>2, <2>1, <2>2, PatchKeepsActive
<1>5. CASE PushOverride(p)
  <2> DEFINE new == [users[c(p).u] EXCEPT !.overrides = @ \cup {[app |-> c(p).a, effect |-> c(p).effect]}]
  <2>1. users[c(p).u] # Null => new \in UserDoc /\ new.status = users[c(p).u].status
    BY <1>1, <1>2 DEF UserDoc
  <2>2. PatchUser(c(p).u, new)
    BY <1>5 DEF PushOverride
  <2> HIDE DEF new
  <2> QED BY <1>2, <2>1, <2>2, PatchKeepsActive
<1>6. ASSUME UNCHANGED sessions,
             \A u \in User : users[u] # Null =>
               users'[u] \in UserDoc /\ users'[u].status = users[u].status
      PROVE  ActiveKept /\ UNCHANGED sessions
  BY <1>6, NullAssumption DEF ActiveKept, ActiveUser
<1>7. CASE MoveHolders(p)
  <2>1. ASSUME NEW u \in User, users[u] # Null
        PROVE  users'[u] \in UserDoc /\ users'[u].status = users[u].status
    <3>1. users'[u] = IF Holds(users[u], c(p).k)
                      THEN [users[u] EXCEPT !.roles = (@ \ {c(p).k}) \cup {c(p).k2}]
                      ELSE users[u]
      BY <1>7 DEF MoveHolders
    <3> QED BY <1>1, <1>2, <2>1, <3>1 DEF UserDoc
  <2> QED BY <1>6, <1>7, <2>1 DEF MoveHolders
<1>8. CASE StripHolders(p)
  <2>1. ASSUME NEW u \in User, users[u] # Null
        PROVE  users'[u] \in UserDoc /\ users'[u].status = users[u].status
    <3>1. users'[u] = IF Holds(users[u], c(p).k)
                      THEN [users[u] EXCEPT !.roles = @ \ {c(p).k}] ELSE users[u]
      BY <1>8 DEF StripHolders
    <3> QED BY <1>1, <2>1, <3>1 DEF UserDoc
  <2> QED BY <1>6, <1>8, <2>1 DEF StripHolders
<1>9. CASE MoveOverrides(p)
  BY <1>9, MovesOverrides DEF ActiveKept, ActiveUser
<1>10. CASE DropOverrides(p)
  <2>1. ASSUME NEW u \in User, users[u] # Null
        PROVE  users'[u] \in UserDoc /\ users'[u].status = users[u].status
    BY <1>1, <1>10, <2>1 DEF DropOverrides, UserDoc
  <2> QED BY <1>6, <1>10, <2>1 DEF DropOverrides
<1> QED BY <1>3, <1>4, <1>5, <1>7, <1>8, <1>9, <1>10

(* A disabling in flight owes the sessions until it drops them.             *)
LEMMA OwesSessionsKept ==
  ASSUME ControlInv, NEW p \in Proc, NEW s, At(p, s), Others(p), s # "dropSessions",
         NEW u, NEW r \in Proc, OwesSessions(r, u)
  PROVE  OwesSessions(r, u)'
<1>1. r # p
  BY Where DEF OwesSessions, Pairs
<1>2. ops'[r] = ops[r]
  BY <1>1 DEF Others
<1> QED BY <1>2 DEF OwesSessions, At, c

(* The other handlers: the users they sign in or delete are not the one     *)
(* this call disables, deletes or signs in.                                 *)
LEMMA SessionsTogether ==
  ASSUME ControlInv, SignInsApart, SessionsCore, NEW p \in Proc, Busy(p), Others(p),
         \A u \in User : ActiveUser(users[u]) /\ ~ ActiveUser(users'[u]) =>
           c(p).name \in {"disableUser", "deleteUser"} /\ u = c(p).u,
         \A u \in sessions' : u \in sessions \/ (c(p).name = "signIn" /\ u = c(p).u),
         SessionsStand', KnowsUser(p)'
  PROVE  SessionsCore'
<1>1. ASSUME NEW q \in Proc, q # p
      PROVE  KnowsUser(q)'
  <2>1. ops'[q] = ops[q]
    BY <1>1 DEF Others
  <2>2. c(q)' = c(q) /\ Left(q)' = Left(q) /\ (Busy(q)' <=> Busy(q))
    BY <2>1 DEF c, Left, Busy
  <2>3. CASE Busy(q)
    <3>1. c(q).u \in User
      BY <2>3, OpShape DEF ControlInv, Call
    <3> QED BY <2>2, <2>3, <3>1 DEF KnowsUser, SessionsCore, SignInsApart
  <2>4. CASE ~ Busy(q)
    BY <2>2, <2>4 DEF KnowsUser
  <2> QED BY <2>3, <2>4
<1> QED BY <1>1 DEF SessionsCore

(* The handler itself, unless the step is about sessions.                   *)
LEMMA OwnKnowsUser ==
  ASSUME ControlInv, NEW p \in Proc, KnowsUser(p), NEW s, Moves(p, s) \/ Halts(p, s),
         c(p).name = "signIn" => ActiveKept,
         UNCHANGED sessions, s # "dropSessions",
         Moves(p, s) /\ s = "findActive" => ActiveUser(users[c(p).u])
  PROVE  KnowsUser(p)'
<1>1. CASE Stops(p)
  BY <1>1, Stopped DEF KnowsUser
<1>2. CASE ~ Stops(p)
  <2>1. At(p, s) /\ Moves(p, s) /\ Goes(p, s)
    BY <1>2 DEF Moves, Halts
  <2>2. Busy(p) /\ c(p) \in Call /\ Left(p) \in Nat \ {0}
    BY <2>1, Where
  <2>3. c(p).u \in User
    BY <2>2 DEF Call
  <2>4. c(p)' = c(p) /\ Left(p)' \in {Left(p), Left(p) - 1}
    BY <2>1, GoesOn
  <2>5. c(p).name = "signIn" /\ Left(p)' = 1 => ActiveUser(users[c(p).u]) /\ ActiveKept
    BY <2>1, <2>2, <2>4, Turn DEF KnowsUser
  <2>6. c(p).name = "deleteUser" /\ Left(p)' <= 4 => c(p).u \notin sessions
    BY <2>1, <2>2, <2>4, Turn DEF KnowsUser
  <2> QED BY <2>3, <2>4, <2>5, <2>6 DEF KnowsUser, ActiveKept
<1> QED BY <1>1, <1>2

LEMMA MildSessions ==
  ASSUME ControlInv, SignInsApart, SessionsCore, NEW p \in Proc, NEW s,
         Moves(p, s) \/ Halts(p, s), s # "dropSessions", ActiveKept, UNCHANGED sessions,
         Moves(p, s) /\ s = "findActive" => ActiveUser(users[c(p).u])
  PROVE  SessionsCore'
<1>1. Busy(p) /\ At(p, s) /\ Others(p)
  BY DEF Moves, Halts, At, Busy
<1>2. sessions \subseteq User
  BY DEF ControlInv, RInv, StoreOK
<1>3. KnowsUser(p)'
  BY OwnKnowsUser DEF SessionsCore
<1>4. SessionsStand'
  BY <1>1, <1>2, OwesSessionsKept DEF SessionsStand, SessionsCore, ActiveKept
<1> QED BY <1>1, <1>3, <1>4, SessionsTogether DEF ActiveKept

LEMMA StartSessions ==
  ASSUME ControlInv, SessionsCore, NEW p \in Proc, Start(p)
  PROVE  SessionsCore'
<1>1. /\ ~ Busy(p) /\ Others(p) /\ UNCHANGED store /\ c(p)' \in Call
      /\ ops'[p].todo = Program[c(p)'.name]
  BY StartMoves DEF ControlInv
<1>2. UNCHANGED <<users, sessions>>
  BY <1>1 DEF store
<1>3. ASSUME NEW u, NEW r \in Proc, OwesSessions(r, u)
      PROVE  OwesSessions(r, u)'
  <2>1. ops'[r] = ops[r]
    BY <1>1, <1>3 DEF Others, OwesSessions, At, Busy
  <2> QED BY <1>3, <2>1 DEF OwesSessions, At, c
<1>4. SessionsStand'
  BY <1>2, <1>3 DEF SessionsStand, SessionsCore
<1>5. KnowsUser(p)'
  <2>1. Left(p)' = Len(Program[c(p)'.name])
    BY <1>1 DEF Left
  <2>2. /\ c(p)'.name = "signIn" => Left(p)' = 2
        /\ c(p)'.name = "deleteUser" => Left(p)' = 6
    BY <2>1, Lengths
  <2> QED BY <2>2 DEF KnowsUser
<1>6. ASSUME NEW q \in Proc, q # p
      PROVE  KnowsUser(q)'
  <2>1. ops'[q] = ops[q] /\ KnowsUser(q)
    BY <1>1, <1>6 DEF Others, SessionsCore
  <2> QED BY <1>2, <2>1 DEF KnowsUser, Busy, Left, c
<1> QED BY <1>4, <1>5, <1>6 DEF SessionsCore

(* disableUser: the sessions of a user who is not active any more are owed. *)
LEMMA WriteDisabledStep ==
  ASSUME ControlInv, ControlInv', SignInsApart, SessionsCore, NEW p \in Proc, WriteDisabled(p)
  PROVE  SessionsCore'
<1>1. RInv
  BY DEF ControlInv
<1>2. Moves(p, "writeDisabled") /\ At(p, "writeDisabled")
  BY <1>1, DoneMoves DEF WriteDisabled, Done
<1>3. c(p).name = "disableUser" /\ Left(p) = 3 /\ Busy(p) /\ Others(p) /\ c(p).u \in User
      /\ ops[p].todo[1] = {"writeDisabled"}
  BY <1>1, <1>2, Where, CallShape DEF Place, Pairs, Moves
<1>4. Goes(p, "writeDisabled")
  BY <1>2, <1>3 DEF Moves
<1>5. c(p)' = c(p) /\ Left(p)' = 2
  BY <1>2, <1>3, <1>4, GoesOn
<1>6. ops'[p].todo # <<>> /\ Head(ops'[p].todo) = ops'[p].todo[1]
  <2>1. ops'[p].todo \in Seq(SUBSET StepName)
    BY DEF ControlInv, RInv, OpsOK, Op
  <2>2. Len(ops'[p].todo) = 2
    BY <1>5 DEF Left
  <2>3. Len(<<>>) = 0
    OBVIOUS
  <2>4. ops'[p].todo # <<>>
    BY <2>2, <2>3
  <2> QED BY <2>1, <2>4
<1>7. ops'[p].todo[1] = Program["disableUser"][Len(Program["disableUser"]) - 3 + 2]
  BY <1>2, <1>3, <1>4, <1>6, GoesOn DEF Busy
<1>8. OwesSessions(p, c(p).u)'
  <2>1. Len(DisableUser) = 4 /\ DisableUser[3] = {"dropSessions"}
    BY DEF DisableUser
  <2>2. Program["disableUser"] = DisableUser
    BY DEF Program
  <2>3. ops'[p].todo[1] = {"dropSessions"}
    <3>1. Len(Program["disableUser"]) - 3 + 2 = 3 /\ Program["disableUser"][3] = {"dropSessions"}
      BY <2>1, <2>2
    <3> QED BY <1>7, <3>1
  <2>4. At(p, "dropSessions")'
    BY <1>6, <2>3 DEF At
  <2>5. c(p)'.name = "disableUser"
    BY <1>3, <1>5
  <2> QED BY <2>4, <2>5 DEF OwesSessions
<1>9. (\A u \in User : u # c(p).u => users'[u] = users[u]) /\ UNCHANGED sessions
  <2>1. DOMAIN users = User
    BY <1>1, StoreShape
  <2> QED BY <2>1 DEF WriteDisabled, PatchUser
<1>10. sessions \subseteq User
  BY <1>1 DEF RInv, StoreOK
<1>11. SessionsStand'
  <2>1. \E r \in Proc : OwesSessions(r, c(p).u)'
    BY <1>8
  <2>2. ASSUME NEW u \in sessions, u # c(p).u
        PROVE  ActiveUser(users'[u]) \/ \E r \in Proc : OwesSessions(r, u)'
    <3>1. CASE ActiveUser(users[u])
      BY <1>9, <1>10, <2>2, <3>1
    <3>2. CASE ~ ActiveUser(users[u])
      <4>1. PICK r \in Proc : OwesSessions(r, u)
        BY <2>2, <3>2 DEF SessionsCore, SessionsStand
      <4> QED BY <1>2, <1>3, <4>1, OwesSessionsKept
    <3> QED BY <3>1, <3>2
  <2>3. PICK w \in User : w = c(p).u
    BY <1>3
  <2>4. \E r \in Proc : OwesSessions(r, w)'
    BY <1>5, <1>8, <2>3 DEF OwesSessions
  <2> QED BY <1>9, <2>2, <2>3, <2>4 DEF SessionsStand
<1>12. KnowsUser(p)'
  BY <1>3, <1>5 DEF KnowsUser
<1> QED BY <1>3, <1>9, <1>11, <1>12, SessionsTogether

(* deleteUser: the user has lost the sessions before the document goes.     *)
LEMMA RemoveUserStep ==
  ASSUME ControlInv, SignInsApart, SessionsCore, NEW p \in Proc, RemoveUser(p)
  PROVE  SessionsCore'
<1>1. RInv
  BY DEF ControlInv
<1>2. Moves(p, "removeUser") /\ At(p, "removeUser") /\ UNCHANGED sessions
  BY <1>1, DoneMoves DEF RemoveUser, Done
<1>3. c(p).name = "deleteUser" /\ Left(p) = 2 /\ Busy(p) /\ Others(p) /\ c(p).u \in User
  BY <1>1, <1>2, Where, CallShape DEF Place, Moves
<1>4. c(p).u \notin sessions
  BY <1>3 DEF SessionsCore, KnowsUser
<1>5. \A u \in User : u # c(p).u => users'[u] = users[u]
  BY <1>1, StoreShape DEF RemoveUser
<1>6. sessions \subseteq User
  BY <1>1 DEF RInv, StoreOK
<1>7. SessionsStand'
  BY <1>2, <1>3, <1>4, <1>5, <1>6, OwesSessionsKept DEF SessionsStand, SessionsCore
<1>8. KnowsUser(p)'
  BY <1>2, <1>3, OwnKnowsUser DEF SessionsCore
<1> QED BY <1>2, <1>3, <1>5, <1>7, <1>8, SessionsTogether

LEMMA DropSessionsStep ==
  ASSUME ControlInv, SignInsApart, SessionsCore, NEW p \in Proc, DropSessions(p)
  PROVE  SessionsCore'
<1>1. RInv
  BY DEF ControlInv
<1>2. /\ Moves(p, "dropSessions") /\ At(p, "dropSessions") /\ UNCHANGED users
      /\ sessions' = sessions \ {c(p).u}
  BY <1>1, DoneMoves DEF DropSessions, Done
<1>3. Busy(p) /\ Others(p) /\ c(p).u \in User /\ Left(p) \in {2, 5}
      /\ c(p).name \in {"disableUser", "deleteUser"}
  BY <1>1, <1>2, Where, CallShape DEF Place, Moves
<1>4. Goes(p, "dropSessions") /\ c(p)' = c(p)
  BY <1>2, <1>3, GoesOn DEF Moves
<1>5. ASSUME NEW u, u # c(p).u, NEW r \in Proc, OwesSessions(r, u)
      PROVE  OwesSessions(r, u)'
  <2>1. ops'[r] = ops[r]
    BY <1>3, <1>5 DEF Others, OwesSessions
  <2> QED BY <1>5, <2>1 DEF OwesSessions, At, c
<1>6. SessionsStand'
  BY <1>2, <1>5 DEF SessionsStand, SessionsCore
<1>7. KnowsUser(p)'
  BY <1>2, <1>3, <1>4 DEF KnowsUser
<1> QED BY <1>2, <1>3, <1>6, <1>7, SessionsTogether

(* signIn: nothing has disabled the user since findActive.                  *)
LEMMA OpenSessionStep ==
  ASSUME ControlInv, SignInsApart, SessionsCore, NEW p \in Proc, OpenSession(p)
  PROVE  SessionsCore'
<1>1. RInv
  BY DEF ControlInv
<1>2. /\ Moves(p, "openSession") /\ At(p, "openSession") /\ UNCHANGED users
      /\ sessions' = sessions \cup {c(p).u}
  BY <1>1, DoneMoves DEF OpenSession, Done
<1>3. c(p).name = "signIn" /\ Left(p) = 1 /\ Busy(p) /\ Others(p)
  BY <1>2, Where DEF Place, Moves
<1>4. ActiveUser(users[c(p).u])
  BY <1>3 DEF SessionsCore, KnowsUser
<1>5. SessionsStand'
  BY <1>2, <1>3, <1>4, OwesSessionsKept DEF SessionsStand, SessionsCore
<1>6. KnowsUser(p)'
  <2>1. CASE Stops(p)
    BY <2>1, Stopped DEF KnowsUser
  <2>2. CASE ~ Stops(p)
    <3>1. c(p)' = c(p)
      BY <1>2, <2>2, GoesOn DEF Moves
    <3> QED BY <1>2, <1>3, <1>4, <3>1 DEF KnowsUser
  <2> QED BY <2>1, <2>2
<1> QED BY <1>2, <1>3, <1>5, <1>6, SessionsTogether

LEMMA OtherSessions ==
  ASSUME ControlInv, SignInsApart, SessionsCore, NEW p \in Proc,
         StoreStep(p) \/ EvictUser(p) \/ EvictAll(p),
         ~ Start(p), ~ WriteDisabled(p), ~ RemoveUser(p), ~ DropSessions(p), ~ OpenSession(p)
  PROVE  SessionsCore'
<1>1. RInv
  BY DEF ControlInv
<1>2. UNCHANGED users => ActiveKept
  BY DEF ActiveKept
<1>3. ASSUME NEW s, Throw(p, s), s # "dropSessions"
      PROVE  SessionsCore'
  <2>1. (Halts(p, s) /\ ~ Moves(p, s)) \/ Halts(p, s)
    BY <1>1, <1>3, ThrowHalts
  <2>2. UNCHANGED <<users, sessions>>
    BY <1>3 DEF Throw, store
  <2>3. Busy(p) /\ Others(p) /\ At(p, s) /\ KnowsUser(p)'
    BY <2>1, Stopped DEF Halts, At, Busy, KnowsUser
  <2>4. SessionsStand'
    BY <1>3, <2>2, <2>3, OwesSessionsKept DEF SessionsStand, SessionsCore
  <2> QED BY <2>2, <2>3, <2>4, SessionsTogether
<1>4. ASSUME NEW s, Done(p, s), UNCHANGED <<users, sessions>>, s \notin {"dropSessions", "findActive"}
      PROVE  SessionsCore'
  BY <1>1, <1>2, <1>4, DoneMoves, MildSessions
<1>5. CASE FindApp(p)
  <2>1. (Moves(p, "findApp") \/ Halts(p, "findApp")) /\ UNCHANGED <<users, sessions>>
    BY <1>1, <1>5, FindAppMoves DEF store, Halts
  <2> QED BY <1>2, <2>1, MildSessions
<1>6. CASE FindUser(p) \/ FindRole(p) \/ FindNoRole(p) \/ FindNoApp(p)
  BY <1>3, <1>4, <1>6 DEF FindUser, FindRole, FindNoRole, FindNoApp, Check, store
<1>7. CASE FindActive(p)
  <2>1. CASE ActiveUser(users[c(p).u])
    <3>1. Done(p, "findActive") /\ UNCHANGED <<users, sessions>>
      BY <1>7, <2>1 DEF FindActive, Check, store
    <3> QED BY <1>1, <1>2, <2>1, <3>1, DoneMoves, MildSessions
  <2>2. CASE ~ ActiveUser(users[c(p).u])
    BY <1>3, <1>7, <2>2 DEF FindActive, Check
  <2> QED BY <2>1, <2>2
<1>8. CASE IdpDelete(p) \/ MoveUsage(p) \/ DropUsage(p) \/ EvictUser(p) \/ EvictAll(p)
  BY <1>3, <1>4, <1>8 DEF IdpDelete, MoveUsage, DropUsage, EvictUser, EvictAll, store
<1>9. CASE InsertRole(p) \/ PullGrant(p) \/ PushGrant(p) \/ RemoveRole(p) \/ MoveRole(p)
  BY <1>3, <1>4, <1>9 DEF InsertRole, PullGrant, PushGrant, RemoveRole, MoveRole, PatchRole
<1>10. CASE InsertApp(p) \/ WriteApp(p) \/ WriteSecret(p) \/ RemoveApp(p) \/ MoveApp(p)
  BY <1>3, <1>4, <1>10 DEF InsertApp, WriteApp, WriteSecret, RemoveApp, MoveApp
<1>11. CASE MoveGrants(p) \/ DropGrants(p)
  BY <1>4, <1>11 DEF MoveGrants, DropGrants
<1>12. CASE \/ WriteRoles(p) \/ WriteActive(p) \/ PullOverride(p) \/ PushOverride(p)
            \/ MoveHolders(p) \/ StripHolders(p) \/ MoveOverrides(p) \/ DropOverrides(p)
  <2>1. PICK s : s \notin {"dropSessions", "findActive"} /\ Done(p, s)
    BY <1>12 DEF WriteRoles, WriteActive, PullOverride, PushOverride, MoveHolders, StripHolders,
       MoveOverrides, DropOverrides
  <2> QED BY <1>1, <1>12, <2>1, StatusWrites, DoneMoves, MildSessions
<1> QED BY <1>5, <1>6, <1>7, <1>8, <1>9, <1>10, <1>11, <1>12 DEF StoreStep

LEMMA RestartSessions ==
  ASSUME ControlInv, SessionsInv, RestartPortal
  PROVE  SessionsInv'
<1> SUFFICES ASSUME "disableUser" \notin torn' PROVE SessionsCore'
  BY DEF SessionsInv, SessionsCore, SessionsStand
<1>1. RInv /\ "disableUser" \in DOMAIN Program /\ UNCHANGED sessions
  BY DEF ControlInv, Program, RestartPortal, Bootstrap
<1>2. "disableUser" \notin torn /\ \A p \in Proc : Owes(p) => c(p).name # "disableUser"
  BY <1>1, RestartIdle
<1>3. \A u \in sessions : ActiveUser(users[u])
  BY <1>2 DEF SessionsInv, OwesSessions, Owes
<1>4. sessions \subseteq User
  BY <1>1 DEF RInv, StoreOK
<1>5. \A u \in User : ActiveUser(users[u]) => ActiveUser(users'[u])
  BY <1>1, RestartUsers DEF ActiveUser
<1>6. \A p \in Proc : KnowsUser(p)'
  BY RestartIdle DEF KnowsUser
<1> QED BY <1>1, <1>3, <1>4, <1>5, <1>6 DEF SessionsCore, SessionsStand

LEMMA InitSessions == RInit => SessionsInv
<1> SUFFICES ASSUME RInit PROVE SessionsInv
  OBVIOUS
<1>1. PICK s \in Stores : users = s.users /\ sessions = s.sessions
  BY DEF RInit
<1>2. \A p \in Proc : ~ Busy(p)
  BY DEF RInit, Busy, Idle
<1> QED BY <1>1, <1>2, StoresAssumption DEF SessionsInv, KnowsUser

LEMMA NextSessions ==
  ASSUME ControlInv, ControlInv', SessionsInv, SignInsApart, [RNext]_rvars
  PROVE  SessionsInv'
<1>1. CASE RestartPortal
  BY <1>1, RestartSessions
<1>2. ASSUME NEW p \in Proc, StoreStep(p) \/ EvictUser(p) \/ EvictAll(p), UNCHANGED torn,
             "disableUser" \notin torn
      PROVE  SessionsInv'
  <2>1. SessionsCore
    BY <1>2 DEF SessionsInv, SessionsCore, SessionsStand
  <2>2. SessionsCore'
    BY <1>2, <2>1, StartSessions, WriteDisabledStep, RemoveUserStep, DropSessionsStep,
       OpenSessionStep, OtherSessions
  <2> QED BY <2>2 DEF SessionsInv, SessionsCore, SessionsStand
<1>3. CASE UNCHANGED rvars
  BY <1>3 DEF rvars, SessionsInv, OwesSessions, KnowsUser, At, c, Busy, Left
<1>4. CASE "disableUser" \in torn /\ UNCHANGED torn
  BY <1>4 DEF SessionsInv
<1> QED BY <1>1, <1>2, <1>3, <1>4 DEF RNext

(* Who is not active has no session (InactiveHasNoSession), as long as no   *)
(* sign-in of a user overlaps with the disabling or the deletion of the     *)
(* same user: the sign-in asks, and opens the session some awaits later.    *)
(* Handlers that overlap otherwise, two disablings, an enabling and a       *)
(* deletion of one user among them, do no harm; nor does a restart, but     *)
(* between the two writes of disableUser.                                   *)
THEOREM SessionsOfActive == RSpec /\ []SignInsApart => []InactiveHasNoSession
<1> DEFINE Inv == ControlInv /\ SessionsInv
<1>1. RInit => Inv
  BY InitControl, InitSessions
<1>2. Inv /\ SignInsApart /\ [RNext]_rvars => Inv'
  BY NextControl, NextSessions
<1>3. Inv => InactiveHasNoSession
  <2>1. Quiet => \A p \in Proc, u \in User : ~ OwesSessions(p, u)
    BY DEF Quiet, OwesSessions, At
  <2>2. ControlInv => sessions \subseteq User
    BY DEF ControlInv, RInv, StoreOK
  <2> QED BY <2>1, <2>2 DEF SessionsInv, InactiveHasNoSession
<1> QED BY <1>1, <1>2, <1>3, PTL DEF RSpec

(* With one handler at a time who is not active has no session.             *)
COROLLARY SerialSessionsOfActive ==
  ASSUME \A p, q \in Proc : p = q
  PROVE  RSpec => []InactiveHasNoSession
<1>1. SignInsApart
  BY DEF SignInsApart
<1> QED BY <1>1, SessionsOfActive, PTL

------------------------------------------------------------------------------
(* The change of a role reaches its holders.                                *)

(* What a handler does to roles its call does not rename or delete.         *)
RolesOf(p) ==
  \A k \in RoleKey : k \notin RoleKeys(c(p)) =>
    /\ roles[k] # Null => roles'[k] # Null
    /\ c(p).name # "setRoles" => Held(k)' \subseteq Held(k)
    /\ c(p).name \notin {"setRoles", "deleteUser"} => Held(k)' = Held(k)

SameHolders == \A u \in User, k \in RoleKey : Holds(users'[u], k) <=> Holds(users[u], k)
RolesKept   == \A k \in RoleKey : roles[k] # Null => roles'[k] # Null

LEMMA MildRoles ==
  ASSUME NEW p, SameHolders, RolesKept
  PROVE  RolesOf(p)
BY DEF SameHolders, RolesKept, RolesOf, Held

LEMMA OthersKnowRole ==
  ASSUME ControlInv, RolesApart, NEW p \in Proc, NEW q \in Proc, q # p, Busy(p),
         ops'[q] = ops[q], KnowsRole(q), RolesOf(p)
  PROVE  KnowsRole(q)'
<1>1. c(q)' = c(q) /\ Left(q)' = Left(q) /\ ops'[q].held0 = ops[q].held0
  BY DEF c, Left
<1>2. CASE c(q) = Null
  BY <1>1, <1>2 DEF KnowsRole
<1>3. CASE c(q) # Null
  <2>1. PICK k \in RoleKey, k2 \in RoleKey : k = c(q).k /\ k2 = c(q).k2
    BY <1>3, OpShape DEF ControlInv, Call
  <2>2. ~ RolesClash(c(q), c(p))
    BY <1>3 DEF RolesApart
  <2>3. CASE c(q).name = "renameRole"
    <3>1. k \notin RoleKeys(c(p)) /\ k2 \notin RoleKeys(c(p))
          /\ c(p).name \notin {"setRoles", "deleteUser"}
      BY <2>1, <2>2, <2>3 DEF RolesClash, RoleKeys
    <3>2. /\ Held(k)' = Held(k) /\ Held(k2)' = Held(k2)
          /\ roles[k] # Null => roles'[k] # Null
          /\ roles[k2] # Null => roles'[k2] # Null
      BY <3>1 DEF RolesOf
    <3>3. /\ Left(q) \in {3, 4} => roles[k] # Null
          /\ Left(q) <= 2 => roles[k2] # Null /\ k # k2
          /\ Left(q) >= 2 => Held(k) \cup Held(k2) = ops[q].held0
          /\ Left(q) <= 1 => Held(k2) = ops[q].held0 /\ Held(k) = {}
      BY <1>3, <2>1, <2>3 DEF KnowsRole, Held
    <3> QED BY <1>1, <2>1, <2>3, <3>2, <3>3 DEF KnowsRole, Held
  <2>4. CASE c(q).name = "deleteRole"
    <3>1. k \notin RoleKeys(c(p)) /\ c(p).name # "setRoles"
      BY <2>1, <2>2, <2>4 DEF RolesClash, RoleKeys
    <3>2. Held(k)' \subseteq Held(k)
      BY <3>1 DEF RolesOf
    <3>3. Left(q) <= 2 => Held(k) = {}
      BY <1>3, <2>1, <2>4 DEF KnowsRole, Held
    <3> QED BY <1>1, <2>1, <2>4, <3>2, <3>3 DEF KnowsRole, Held
  <2> QED BY <1>1, <2>3, <2>4 DEF KnowsRole
<1> QED BY <1>2, <1>3

LEMMA RolesTogether ==
  ASSUME ControlInv, RolesApart, HoldersInv, NEW p \in Proc, Busy(p), Others(p), RolesOf(p),
         KnowsRole(p)'
  PROVE  HoldersInv'
<1>1. \A q \in Proc : q # p => KnowsRole(q)'
  BY OthersKnowRole DEF HoldersInv, Others
<1> QED BY <1>1 DEF HoldersInv

(* The handler itself, unless the step renames or deletes.                  *)
LEMMA OwnKnowsRole ==
  ASSUME ControlInv, NEW p \in Proc, KnowsRole(p), NEW s, Moves(p, s) \/ Halts(p, s),
         s \notin {"moveRole", "moveHolders", "stripHolders"},
         c(p).name \in {"renameRole", "deleteRole"} => UNCHANGED users,
         c(p).name = "renameRole" => UNCHANGED roles,
         Moves(p, s) /\ s = "findRole" => roles[c(p).k] # Null
  PROVE  KnowsRole(p)'
<1>1. CASE Stops(p)
  BY <1>1, Stopped DEF KnowsRole
<1>2. CASE c(p) = Null /\ ~ Stops(p)
  BY <1>2, GoesOn DEF Moves, Halts, KnowsRole
<1>3. CASE c(p) # Null /\ ~ Stops(p)
  <2>1. At(p, s) /\ Moves(p, s) /\ Goes(p, s)
    BY <1>3 DEF Moves, Halts
  <2>2. Busy(p) /\ c(p) \in Call /\ Left(p) \in Nat \ {0} /\ c(p) # Null
    BY <1>3, <2>1, Where
  <2>3. c(p)' = c(p) /\ Left(p)' \in {Left(p), Left(p) - 1} /\ ops'[p].held0 = ops[p].held0
    BY <2>1, GoesOn DEF Goes
  <2>4. CASE c(p).name = "renameRole"
    <3>1. \A k : Held(k)' = Held(k)
      BY <2>4 DEF Held
    <3>2. Left(p) # 3 /\ Left(p) # 2 /\ (Left(p) = 5 => s = "findRole")
      BY <2>1, <2>4, Turn
    <3>3. /\ Left(p) = 4 => roles[c(p).k] # Null
          /\ Left(p) = 1 => /\ roles[c(p).k2] # Null /\ c(p).k # c(p).k2
                            /\ Held(c(p).k2) = ops[p].held0 /\ Held(c(p).k) = {}
          /\ Left(p) >= 2 => Held(c(p).k) \cup Held(c(p).k2) = ops[p].held0
      BY <2>2, <2>4 DEF KnowsRole
    <3>4. roles' = roles
      BY <2>4
    <3>5. PICK k, k2, held0 : k = c(p).k /\ k2 = c(p).k2 /\ held0 = ops[p].held0
      OBVIOUS
    <3>6. /\ Left(p)' \in {3, 4} => roles'[k] # Null
          /\ Left(p)' <= 2 => roles'[k2] # Null /\ k # k2
          /\ Left(p)' >= 2 => Held(k)' \cup Held(k2)' = held0
          /\ Left(p)' <= 1 => Held(k2)' = held0 /\ Held(k)' = {}
      BY <2>1, <2>2, <2>3, <3>1, <3>2, <3>3, <3>4, <3>5
    <3> QED BY <2>3, <2>4, <3>5, <3>6 DEF KnowsRole, Held
  <2>5. CASE c(p).name = "deleteRole"
    <3>1. \A k : Held(k)' = Held(k)
      BY <2>5 DEF Held
    <3>2. Left(p) # 3
      BY <2>1, <2>5, Turn
    <3>3. Left(p) <= 2 => Held(c(p).k) = {}
      BY <2>2, <2>5 DEF KnowsRole
    <3>4. Left(p)' <= 2 => Left(p) <= 2
      BY <2>2, <2>3, <3>2
    <3>5. PICK k : k = c(p).k
      OBVIOUS
    <3>6. Left(p)' <= 2 => Held(k)' = {}
      BY <3>1, <3>3, <3>4, <3>5
    <3> QED BY <2>3, <2>5, <3>5, <3>6 DEF KnowsRole, Held
  <2> QED BY <2>3, <2>4, <2>5 DEF KnowsRole
<1> QED BY <1>1, <1>2, <1>3

(* A step that neither renames nor deletes.                                 *)
LEMMA MildHolders ==
  ASSUME ControlInv, RolesApart, HoldersInv, NEW p \in Proc, NEW s, Moves(p, s) \/ Halts(p, s),
         s \notin {"moveRole", "moveHolders", "stripHolders"}, RolesOf(p),
         c(p).name \in {"renameRole", "deleteRole"} => UNCHANGED users,
         c(p).name = "renameRole" => UNCHANGED roles,
         Moves(p, s) /\ s = "findRole" => roles[c(p).k] # Null
  PROVE  HoldersInv'
<1>1. Busy(p) /\ Others(p)
  BY DEF Moves, Halts, At, Busy
<1>2. KnowsRole(p)'
  BY OwnKnowsRole DEF HoldersInv
<1> QED BY <1>1, <1>2, RolesTogether

LEMMA HaltHolders ==
  ASSUME ControlInv, RolesApart, HoldersInv, NEW p \in Proc, NEW s, Halts(p, s)
  PROVE  HoldersInv'
<1>1. Busy(p) /\ Others(p) /\ KnowsRole(p)'
  BY Stopped DEF Halts, At, Busy, KnowsRole
<1>2. RolesOf(p)
  BY MildRoles DEF Halts, store, SameHolders, RolesKept
<1> QED BY <1>1, <1>2, RolesTogether

LEMMA StartHolders ==
  ASSUME ControlInv, HoldersInv, NEW p \in Proc, Start(p)
  PROVE  HoldersInv'
<1>1. /\ Others(p) /\ UNCHANGED store /\ c(p)' \in Call
      /\ ops'[p].todo = Program[c(p)'.name]
      /\ c(p)'.name = "renameRole" =>
           ops'[p].held0 = {u \in User : \E k \in {c(p)'.k, c(p)'.k2} : Holds(users[u], k)}
  BY StartMoves DEF ControlInv
<1>2. UNCHANGED <<users, roles>>
  BY <1>1 DEF store
<1>3. KnowsRole(p)'
  <2>1. Left(p)' = Len(Program[c(p)'.name])
    BY <1>1 DEF Left
  <2>2. /\ c(p)'.name = "renameRole" => Left(p)' = 5
        /\ c(p)'.name = "deleteRole" => Left(p)' = 4
    BY <2>1, Lengths
  <2>3. c(p)'.name = "renameRole" => (Held(c(p).k) \cup Held(c(p).k2))' = ops'[p].held0
    BY <1>1, <1>2 DEF Held
  <2> QED BY <2>2, <2>3 DEF KnowsRole
<1>4. ASSUME NEW q \in Proc, q # p
      PROVE  KnowsRole(q)'
  <2>1. ops'[q] = ops[q] /\ KnowsRole(q)
    BY <1>1, <1>4 DEF Others, HoldersInv
  <2> QED BY <1>2, <2>1 DEF KnowsRole, Held, Left, c
<1> QED BY <1>3, <1>4 DEF HoldersInv

(* Writes that leave everybody their roles, or every role its document.     *)
LEMMA HoldersKept ==
  ASSUME RInv, NEW p \in Proc,
         \/ WriteDisabled(p) \/ WriteActive(p) \/ PullOverride(p) \/ PushOverride(p)
         \/ MoveOverrides(p) \/ DropOverrides(p)
  PROVE  SameHolders /\ UNCHANGED roles
<1>1. /\ DOMAIN users = User
      /\ \A u \in User : users[u] # Null => users[u] \in UserDoc
  BY StoreShape
<1>2. [app |-> c(p).a, effect |-> c(p).effect] \in Override /\ c(p).u \in User
  <2>1. c(p) \in Call
    BY CallOK DEF WriteDisabled, WriteActive, PullOverride, PushOverride, MoveOverrides,
       DropOverrides, Done
  <2> QED BY <2>1 DEF Call, Override
<1>3. ASSUME UNCHANGED roles,
             \A u \in User : /\ users[u] = Null => users'[u] = Null
                             /\ users[u] # Null =>
                                  users'[u] \in UserDoc /\ users'[u].roles = users[u].roles
      PROVE  SameHolders /\ UNCHANGED roles
  BY <1>3, NullAssumption DEF SameHolders, Holds
<1>4. ASSUME NEW new, PatchUser(c(p).u, new),
             users[c(p).u] # Null => new \in UserDoc /\ new.roles = users[c(p).u].roles
      PROVE  SameHolders /\ UNCHANGED roles
  BY <1>1, <1>2, <1>3, <1>4 DEF PatchUser
<1>5. CASE WriteDisabled(p) \/ WriteActive(p)
  BY <1>1, <1>2, <1>4, <1>5 DEF WriteDisabled, WriteActive, UserDoc
<1>6. CASE PullOverride(p)
  <2> DEFINE new == [users[c(p).u] EXCEPT !.overrides = {o \in @ : o.app # c(p).a}]
  <2>1. users[c(p).u] # Null => new \in UserDoc /\ new.roles = users[c(p).u].roles
    BY <1>1, <1>2 DEF UserDoc
  <2>2. PatchUser(c(p).u, new)
    BY <1>6 DEF PullOverride
  <2> HIDE DEF new
  <2> QED BY <1>4, <2>1, <2>2
<1>7. CASE PushOverride(p)
  <2> DEFINE new == [users[c(p).u] EXCEPT !.overrides = @ \cup {[app |-> c(p).a, effect |-> c(p).effect]}]
  <2>1. users[c(p).u] # Null => new \in UserDoc /\ new.roles = users[c(p).u].roles
    BY <1>1, <1>2 DEF UserDoc
  <2>2. PatchUser(c(p).u, new)
    BY <1>7 DEF PushOverride
  <2> HIDE DEF new
  <2> QED BY <1>4, <2>1, <2>2
<1>8. CASE MoveOverrides(p)
  BY <1>8, MovesOverrides DEF SameHolders, Holds
<1>9. CASE DropOverrides(p)
  <2>1. ASSUME NEW u \in User
        PROVE  /\ users[u] = Null => users'[u] = Null
               /\ users[u] # Null => users'[u] \in UserDoc /\ users'[u].roles = users[u].roles
    BY <1>1, <1>9, <2>1 DEF DropOverrides, UserDoc
  <2> QED BY <1>3, <1>9, <2>1 DEF DropOverrides
<1> QED BY <1>5, <1>6, <1>7, <1>8, <1>9

LEMMA RoleDocsKept ==
  ASSUME RInv, NEW p \in Proc, NEW s, Done(p, s),
         InsertRole(p) \/ PullGrant(p) \/ PushGrant(p) \/ MoveGrants(p) \/ DropGrants(p)
  PROVE  RolesKept /\ UNCHANGED users
<1>1. /\ DOMAIN roles = RoleKey
      /\ \A k \in RoleKey : roles[k] # Null => roles[k] \in RoleDoc
  BY StoreShape
<1>2. c(p).k \in RoleKey /\ c(p).k2 \in RoleKey /\ c(p).a \in AppKey
  BY CallShape DEF Done
<1>3. ASSUME NEW k \in RoleKey, NEW new, roles[k] # Null => new \in RoleDoc, PatchRole(k, new)
      PROVE  RolesKept /\ UNCHANGED users
  BY <1>1, <1>3, NullAssumption DEF PatchRole, RolesKept
<1>4. CASE InsertRole(p)
  <2>1. [grants |-> {}] # Null
    <3>1. [grants |-> {}] \in RoleDoc
      BY DEF RoleDoc
    <3> QED BY <3>1, NullAssumption
  <2> QED BY <1>1, <1>2, <1>4, <2>1 DEF InsertRole, Throw, store, RolesKept
<1>5. CASE PullGrant(p)
  <2> DEFINE new == [roles[c(p).k] EXCEPT !.grants = @ \ {c(p).a}]
  <2>1. roles[c(p).k] # Null => new \in RoleDoc
    BY <1>1, <1>2 DEF RoleDoc
  <2>2. PatchRole(c(p).k, new)
    BY <1>5 DEF PullGrant
  <2> HIDE DEF new
  <2> QED BY <1>2, <1>3, <2>1, <2>2
<1>6. CASE PushGrant(p)
  <2> DEFINE new == [roles[c(p).k] EXCEPT !.grants = @ \cup {c(p).a}]
  <2>1. roles[c(p).k] # Null => new \in RoleDoc
    BY <1>1, <1>2 DEF RoleDoc
  <2>2. PatchRole(c(p).k, new)
    BY <1>6 DEF PushGrant
  <2> HIDE DEF new
  <2> QED BY <1>2, <1>3, <2>1, <2>2
<1>7. CASE MoveGrants(p)
  BY <1>7, MovesGrants DEF RolesKept
<1>8. CASE DropGrants(p)
  <2>1. ASSUME NEW k \in RoleKey, roles[k] # Null
        PROVE  roles'[k] # Null
    <3>1. roles'[k] = [roles[k] EXCEPT !.grants = @ \ {c(p).a}]
      BY <1>8, <2>1 DEF DropGrants
    <3>2. roles'[k] \in RoleDoc
      BY <1>1, <2>1, <3>1 DEF RoleDoc
    <3> QED BY <3>2, NullAssumption
  <2> QED BY <1>8, <2>1 DEF DropGrants, RolesKept
<1> QED BY <1>4, <1>5, <1>6, <1>7, <1>8

(* What the handlers that move or strip holders make of them.               *)
LEMMA MovesHolders ==
  ASSUME RInv, NEW p \in Proc, MoveHolders(p)
  PROVE  /\ \A k \in RoleKey : k \notin {c(p).k, c(p).k2} => Held(k)' = Held(k)
         /\ c(p).k # c(p).k2 => \A k \in RoleKey : k = c(p).k => Held(k)' = {}
         /\ \A k \in RoleKey : k = c(p).k2 => Held(k)' = Held(c(p).k) \cup Held(c(p).k2)
<1>1. \A u \in User : users[u] # Null => users[u] \in UserDoc
  BY StoreShape
<1>2. c(p).k \in RoleKey /\ c(p).k2 \in RoleKey
  BY CallShape DEF MoveHolders, Done
<1>3. ASSUME NEW u \in User, NEW k \in RoleKey
      PROVE  Holds(users'[u], k) <=>
               IF Holds(users[u], c(p).k) THEN k = c(p).k2 \/ (k # c(p).k /\ Holds(users[u], k))
               ELSE Holds(users[u], k)
  <2>1. CASE Holds(users[u], c(p).k)
    <3>1. users[u] # Null /\ users[u] \in UserDoc
      BY <1>1, <2>1 DEF Holds
    <3>2. users'[u] = [users[u] EXCEPT !.roles = (@ \ {c(p).k}) \cup {c(p).k2}]
      BY <2>1 DEF MoveHolders
    <3>3. users'[u] \in UserDoc /\ users'[u].roles = (users[u].roles \ {c(p).k}) \cup {c(p).k2}
      BY <1>2, <3>1, <3>2 DEF UserDoc
    <3> QED BY <2>1, <3>1, <3>3, NullAssumption DEF Holds
  <2>2. CASE ~ Holds(users[u], c(p).k)
    BY <2>2 DEF MoveHolders
  <2> QED BY <2>1, <2>2
<1> QED BY <1>2, <1>3 DEF Held

LEMMA StripsHolders ==
  ASSUME RInv, NEW p \in Proc, StripHolders(p)
  PROVE  /\ \A k \in RoleKey : k # c(p).k => Held(k)' = Held(k)
         /\ \A k \in RoleKey : k = c(p).k => Held(k)' = {}
<1>1. \A u \in User : users[u] # Null => users[u] \in UserDoc
  BY StoreShape
<1>2. ASSUME NEW u \in User, NEW k \in RoleKey
      PROVE  Holds(users'[u], k) <=> k # c(p).k /\ Holds(users[u], k)
  <2>1. CASE Holds(users[u], c(p).k)
    <3>1. users[u] # Null /\ users[u] \in UserDoc
      BY <1>1, <2>1 DEF Holds
    <3>2. users'[u] = [users[u] EXCEPT !.roles = @ \ {c(p).k}]
      BY <2>1 DEF StripHolders
    <3>3. users'[u] \in UserDoc /\ users'[u].roles = users[u].roles \ {c(p).k}
      BY <3>1, <3>2 DEF UserDoc
    <3> QED BY <2>1, <3>1, <3>3, NullAssumption DEF Holds
  <2>2. CASE ~ Holds(users[u], c(p).k)
    BY <2>2 DEF StripHolders
  <2> QED BY <2>1, <2>2
<1> QED BY <1>2 DEF Held

LEMMA MoveHoldersStep ==
  ASSUME ControlInv, RolesApart, HoldersInv, NEW p \in Proc, MoveHolders(p)
  PROVE  HoldersInv'
<1>1. RInv
  BY DEF ControlInv
<1>2. Moves(p, "moveHolders") /\ At(p, "moveHolders") /\ UNCHANGED roles
  BY <1>1, DoneMoves DEF MoveHolders, Done
<1>3. c(p).name = "renameRole" /\ Left(p) = 2 /\ Busy(p) /\ Others(p)
      /\ ops[p].todo[1] = {"moveHolders"}
  BY <1>2, Where DEF Place, Pairs, Moves
<1>4. Goes(p, "moveHolders") /\ c(p)' = c(p) /\ Left(p)' = 1 /\ ops'[p].held0 = ops[p].held0
  BY <1>2, <1>3, GoesOn DEF Moves, Goes
<1>5. PICK k \in RoleKey, k2 \in RoleKey : k = c(p).k /\ k2 = c(p).k2
  BY <1>1, <1>2, CallShape
<1>6. RolesOf(p)
  BY <1>1, <1>2, <1>3, MovesHolders DEF RolesOf, RoleKeys
<1>7. KnowsRole(p)'
  <2>1. CASE c(p) = Null
    BY <1>4, <2>1 DEF KnowsRole
  <2>2. CASE c(p) # Null
    <3>1. roles[k2] # Null /\ k # k2 /\ Held(k) \cup Held(k2) = ops[p].held0
      BY <1>3, <1>5, <2>2 DEF HoldersInv, KnowsRole, Held
    <3>2. Held(k)' = {} /\ Held(k2)' = Held(k) \cup Held(k2)
      BY <1>1, <1>5, <3>1, MovesHolders DEF Held
    <3> QED BY <1>2, <1>3, <1>4, <1>5, <3>1, <3>2 DEF KnowsRole, Held
  <2> QED BY <2>1, <2>2
<1> QED BY <1>3, <1>6, <1>7, RolesTogether

LEMMA StripHoldersStep ==
  ASSUME ControlInv, RolesApart, HoldersInv, NEW p \in Proc, StripHolders(p)
  PROVE  HoldersInv'
<1>1. RInv
  BY DEF ControlInv
<1>2. Moves(p, "stripHolders") /\ At(p, "stripHolders") /\ UNCHANGED roles
  BY <1>1, DoneMoves DEF StripHolders, Done
<1>3. c(p).name = "deleteRole" /\ Left(p) = 3 /\ Busy(p) /\ Others(p)
  BY <1>2, Where DEF Place, Moves
<1>4. Goes(p, "stripHolders") /\ c(p)' = c(p)
  BY <1>2, <1>3, GoesOn DEF Moves
<1>5. PICK k \in RoleKey : k = c(p).k
  BY <1>1, <1>2, CallShape
<1>6. RolesOf(p)
  BY <1>1, <1>2, <1>3, StripsHolders DEF RolesOf, RoleKeys
<1>7. Held(k)' = {}
  BY <1>1, <1>5, StripsHolders
<1>8. KnowsRole(p)'
  BY <1>3, <1>4, <1>5, <1>7 DEF KnowsRole, Held
<1> QED BY <1>3, <1>6, <1>8, RolesTogether

LEMMA MoveRoleStep ==
  ASSUME ControlInv, RolesApart, HoldersInv, NEW p \in Proc, MoveRole(p)
  PROVE  HoldersInv'
<1>1. RInv
  BY DEF ControlInv
<1>2. CASE Throw(p, "moveRole")
  BY <1>1, <1>2, ThrowHalts, HaltHolders
<1>3. CASE ~ Throw(p, "moveRole")
  <2>1. /\ Moves(p, "moveRole") /\ At(p, "moveRole") /\ UNCHANGED users
        /\ roles[c(p).k2] = Null \/ roles[c(p).k] = Null
        /\ roles' = IF roles[c(p).k] = Null THEN roles
                    ELSE [roles EXCEPT ![c(p).k2] = roles[c(p).k], ![c(p).k] = Null]
    BY <1>1, <1>3, DoneMoves DEF MoveRole, Done
  <2>2. c(p).name = "renameRole" /\ Left(p) = 3 /\ Busy(p) /\ Others(p)
        /\ ops[p].todo[1] = {"moveRole"}
    BY <2>1, Where DEF Place, Pairs, Moves
  <2>3. Goes(p, "moveRole") /\ c(p)' = c(p) /\ Left(p)' = 2 /\ ops'[p].held0 = ops[p].held0
    BY <2>1, <2>2, GoesOn DEF Moves, Goes
  <2>4. PICK k \in RoleKey, k2 \in RoleKey : k = c(p).k /\ k2 = c(p).k2
    BY <1>1, <2>1, CallShape
  <2>5. DOMAIN roles = RoleKey
    BY <1>1, StoreShape
  <2>6. \A x : Held(x)' = Held(x)
    BY <2>1 DEF Held
  <2>7. RolesOf(p)
    BY <2>1, <2>2, <2>4, <2>5, <2>6 DEF RolesOf, RoleKeys
  <2>8. KnowsRole(p)'
    <3>1. CASE c(p) = Null
      BY <2>3, <3>1 DEF KnowsRole
    <3>2. CASE c(p) # Null
      <4>1. roles[k] # Null /\ Held(k) \cup Held(k2) = ops[p].held0
        BY <2>2, <2>4, <3>2 DEF HoldersInv, KnowsRole, Held
      <4>2. k # k2 /\ roles'[k2] # Null
        BY <2>1, <2>4, <2>5, <4>1
      <4>3. Held(k)' \cup Held(k2)' = ops[p].held0
        BY <2>6, <4>1
      <4> QED BY <2>2, <2>3, <2>4, <4>2, <4>3 DEF KnowsRole, Held
    <3> QED BY <3>1, <3>2
  <2> QED BY <2>2, <2>7, <2>8, RolesTogether
<1> QED BY <1>2, <1>3

LEMMA OtherHolders ==
  ASSUME ControlInv, RolesApart, HoldersInv, NEW p \in Proc,
         StoreStep(p) \/ EvictUser(p) \/ EvictAll(p),
         ~ Start(p), ~ MoveRole(p), ~ MoveHolders(p), ~ StripHolders(p)
  PROVE  HoldersInv'
<1>1. RInv
  BY DEF ControlInv
<1> DEFINE Roles == {"moveRole", "moveHolders", "stripHolders", "findRole"}
<1>2. ASSUME NEW s, Throw(p, s)
      PROVE  HoldersInv'
  BY <1>1, <1>2, ThrowHalts, HaltHolders
<1>3. ASSUME NEW s, Done(p, s), UNCHANGED <<users, roles>>, s \notin Roles
      PROVE  HoldersInv'
  BY <1>1, <1>3, DoneMoves, MildRoles, MildHolders DEF SameHolders, RolesKept
<1>4. CASE FindApp(p)
  <2>1. Halts(p, "findApp") \/ (Moves(p, "findApp") /\ UNCHANGED <<users, roles>>)
    BY <1>1, <1>4, FindAppMoves DEF store
  <2> QED BY <2>1, HaltHolders, MildRoles, MildHolders DEF SameHolders, RolesKept
<1>5. CASE FindUser(p) \/ FindActive(p) \/ FindNoRole(p) \/ FindNoApp(p)
  BY <1>2, <1>3, <1>5 DEF FindUser, FindActive, FindNoRole, FindNoApp, Check, store
<1>6. CASE FindRole(p)
  <2>1. Halts(p, "findRole")
        \/ (roles[c(p).k] # Null /\ Moves(p, "findRole") /\ UNCHANGED <<users, roles>>)
    <3>1. CASE Throw(p, "findRole")
      BY <1>1, <3>1, ThrowHalts
    <3>2. CASE ~ Throw(p, "findRole")
      <4>1. roles[c(p).k] # Null /\ Done(p, "findRole") /\ UNCHANGED store
        BY <1>6, <3>2 DEF FindRole, Check
      <4> QED BY <1>1, <4>1, DoneMoves DEF store
    <3> QED BY <3>1, <3>2
  <2> QED BY <2>1, HaltHolders, MildRoles, MildHolders DEF SameHolders, RolesKept
<1>7. CASE IdpDelete(p) \/ MoveUsage(p) \/ DropUsage(p) \/ EvictUser(p) \/ EvictAll(p)
  BY <1>2, <1>3, <1>7 DEF IdpDelete, MoveUsage, DropUsage, EvictUser, EvictAll, store
<1>8. CASE \/ InsertApp(p) \/ WriteApp(p) \/ WriteSecret(p) \/ RemoveApp(p) \/ MoveApp(p)
           \/ DropSessions(p) \/ OpenSession(p)
  BY <1>2, <1>3, <1>8 DEF InsertApp, WriteApp, WriteSecret, RemoveApp, MoveApp, DropSessions,
     OpenSession
<1>9. ASSUME NEW s, At(p, s),
             s \in {"writeRoles", "removeUser", "writeDisabled", "writeActive", "pullOverride",
                    "pushOverride", "moveOverrides", "dropOverrides", "insertRole", "pullGrant",
                    "pushGrant", "moveGrants", "dropGrants"}
      PROVE  c(p).name \notin {"renameRole", "deleteRole"} /\ s \notin Roles
  BY <1>9, Where DEF Place, PlaceOfReads
<1>10. CASE WriteRoles(p)
  <2>1. Moves(p, "writeRoles") /\ At(p, "writeRoles") /\ UNCHANGED roles
    BY <1>1, <1>10, DoneMoves DEF WriteRoles, PatchUser, Done
  <2>2. c(p).name = "setRoles"
    BY <2>1, Where DEF Place
  <2> QED BY <1>9, <2>1, <2>2, MildHolders DEF RolesOf
<1>11. CASE RemoveUser(p)
  <2>1. Moves(p, "removeUser") /\ At(p, "removeUser") /\ UNCHANGED roles
    BY <1>1, <1>11, DoneMoves DEF RemoveUser, Done
  <2>2. c(p).name = "deleteUser"
    BY <2>1, Where DEF Place
  <2>3. \A k : Held(k)' \subseteq Held(k)
    BY <1>1, <1>11, StoreShape DEF RemoveUser, Held, Holds
  <2> QED BY <1>9, <2>1, <2>2, <2>3, MildHolders DEF RolesOf
<1>12. CASE \/ WriteDisabled(p) \/ WriteActive(p) \/ PullOverride(p) \/ PushOverride(p)
            \/ MoveOverrides(p) \/ DropOverrides(p)
  <2>1. PICK s \in {"writeDisabled", "writeActive", "pullOverride", "pushOverride",
                    "moveOverrides", "dropOverrides"} : Done(p, s)
    BY <1>12 DEF WriteDisabled, WriteActive, PullOverride, PushOverride, MoveOverrides, DropOverrides
  <2>2. SameHolders /\ UNCHANGED roles
    BY <1>1, <1>12, HoldersKept
  <2>3. Moves(p, s) /\ At(p, s) /\ RolesOf(p)
    BY <1>1, <2>1, <2>2, DoneMoves, MildRoles DEF Done, RolesKept
  <2> QED BY <1>9, <2>2, <2>3, MildHolders
<1>13. CASE InsertRole(p) \/ PullGrant(p) \/ PushGrant(p) \/ MoveGrants(p) \/ DropGrants(p)
  <2>1. PICK s \in {"insertRole", "pullGrant", "pushGrant", "moveGrants", "dropGrants"} :
          Done(p, s) \/ Throw(p, s)
    BY <1>13 DEF InsertRole, PullGrant, PushGrant, MoveGrants, DropGrants
  <2>2. CASE Throw(p, s)
    BY <1>2, <2>2
  <2>3. CASE Done(p, s)
    <3>1. RolesKept /\ UNCHANGED users
      BY <1>1, <1>13, <2>3, RoleDocsKept
    <3>2. Moves(p, s) /\ At(p, s) /\ RolesOf(p)
      BY <1>1, <2>3, <3>1, DoneMoves, MildRoles DEF Done, SameHolders
    <3> QED BY <1>9, <3>1, <3>2, MildHolders
  <2> QED BY <2>1, <2>2, <2>3
<1>14. CASE RemoveRole(p)
  <2>1. Moves(p, "removeRole") /\ At(p, "removeRole") /\ UNCHANGED users
        /\ roles' = [roles EXCEPT ![c(p).k] = Null]
    BY <1>1, <1>14, DoneMoves DEF RemoveRole, Done
  <2>2. c(p).name = "deleteRole"
    BY <2>1, Where DEF Place
  <2>3. \A k : Held(k)' = Held(k)
    BY <2>1 DEF Held
  <2>4. RolesOf(p)
    BY <1>1, <2>1, <2>2, <2>3, StoreShape DEF RolesOf, RoleKeys
  <2> QED BY <2>1, <2>2, <2>4, MildHolders
<1> QED BY <1>4, <1>5, <1>6, <1>7, <1>8, <1>10, <1>11, <1>12, <1>13, <1>14 DEF StoreStep

LEMMA InitHolders == RInit => HoldersInv
BY DEF RInit, Idle, HoldersInv, KnowsRole, c

LEMMA NextHolders ==
  ASSUME ControlInv, HoldersInv, RolesApart, [RNext]_rvars
  PROVE  HoldersInv'
<1>1. CASE RestartPortal
  BY <1>1, RestartIdle DEF HoldersInv, KnowsRole
<1>2. ASSUME NEW p \in Proc, StoreStep(p) \/ EvictUser(p) \/ EvictAll(p)
      PROVE  HoldersInv'
  BY <1>2, StartHolders, MoveRoleStep, MoveHoldersStep, StripHoldersStep, OtherHolders
<1>3. CASE UNCHANGED rvars
  BY <1>3 DEF rvars, HoldersInv, KnowsRole, Held, Left, c
<1> QED BY <1>1, <1>2, <1>3 DEF RNext

(* The change of a role reaches its holders (RoleChangeReachesHolders), as  *)
(* long as nobody sets roles, deletes a user or renames or deletes a role   *)
(* of the same key in between: whatever else overlaps, a rename leaves the  *)
(* new key to those who held the old one or the new one when it began, and  *)
(* nobody with the old one; a deletion leaves nobody with the key.          *)
THEOREM HoldersReached == RSpec /\ []RolesApart => []RoleChangeReachesHolders
<1> DEFINE Inv == ControlInv /\ HoldersInv
<1>1. RInit => Inv
  BY InitControl, InitHolders
<1>2. Inv /\ RolesApart /\ [RNext]_rvars => Inv'
  BY NextControl, NextHolders
<1>3. Inv => RoleChangeReachesHolders
  <2>1. Quiet => \A p \in Proc : Left(p) = 0
    BY DEF Quiet, Left
  <2> QED BY <2>1 DEF HoldersInv, KnowsRole, RoleChangeReachesHolders, Held
<1> QED BY <1>1, <1>2, <1>3, PTL DEF RSpec

(* With one handler at a time every change of a role reaches its holders.   *)
COROLLARY SerialHoldersReached ==
  ASSUME \A p, q \in Proc : p = q
  PROVE  RSpec => []RoleChangeReachesHolders
<1>1. RolesApart
  BY DEF RolesApart
<1> QED BY <1>1, HoldersReached, PTL

------------------------------------------------------------------------------
(* The rename of an app keeps everybody's access.                           *)

LEMMA LetInStore ==
  ASSUME NEW a
  PROVE  {u \in User : StoreAllows(u, a)} = LetIn(a, a, a)
<1>1. ASSUME NEW u \in User
      PROVE  StoreAllows(u, a) <=>
               /\ ActiveUser(users[u]) /\ ActiveApp(apps[a])
               /\ ~ HasOverride(users[u], a, "deny")
               /\ HasOverride(users[u], a, "allow") \/ GrantingRoles(users[u], a, roles) # {}
  <2> DEFINE granting == GrantingRoles(users[u], a, roles)
             allow    == HasOverride(users[u], a, "allow")
             deny     == HasOverride(users[u], a, "deny")
  <2>1. StoreDecision(u, a) =
          IF users[u] = Null THEN "no_user"
          ELSE IF users[u].status # "active" THEN "inactive"
          ELSE IF ~ ActiveApp(apps[a]) THEN "unknown_app"
          ELSE IF deny THEN "deny_user"
          ELSE IF allow THEN "allow_user"
          ELSE IF granting # {} THEN "allow_role"
          ELSE "no_grant"
    BY DEF StoreDecision, DecideFrom
  <2> HIDE DEF granting, allow, deny
  <2>2. StoreAllows(u, a) <=> /\ users[u] # Null /\ users[u].status = "active"
                              /\ ActiveApp(apps[a]) /\ ~ deny
                              /\ allow \/ granting # {}
    BY <2>1 DEF StoreAllows, Allowed
  <2> QED BY <2>2 DEF granting, allow, deny, ActiveUser
<1> QED BY <1>1 DEF LetIn

LEMMA StartAccess ==
  ASSUME ControlInv, NEW p \in Proc, Start(p)
  PROVE  KnowsAccess(p)'
<1>1. RInv
  BY DEF ControlInv
<1>2. /\ UNCHANGED store /\ ops'[p].todo = Program[c(p)'.name]
      /\ c(p)'.name = "renameApp" => ops'[p].let0 = {u \in User : StoreAllows(u, c(p)'.a)}
  BY <1>1, StartMoves
<1>3. CASE c(p)'.name = "renameApp"
  <2>1. Left(p)' = 6
    BY <1>2, <1>3, Lengths DEF Left
  <2>2. ~ At(p, "moveGrants")' /\ ~ At(p, "moveOverrides")'
    BY <1>1, <1>3, <2>1, WhereStarts DEF Place
  <2>3. PICK a : a = c(p)'.a
    OBVIOUS
  <2>4. LetIn(a, a, a)' = LetIn(a, a, a)
    BY <1>2 DEF LetIn, store
  <2>5. ops'[p].let0 = LetIn(a, a, a)
    BY <1>2, <1>3, <2>3, LetInStore
  <2>6. AppNow(p)' = a /\ KeyNow(p, "moveGrants")' = a /\ KeyNow(p, "moveOverrides")' = a
    BY <2>1, <2>3 DEF AppNow, KeyNow
  <2>7. LetIn(AppNow(p), KeyNow(p, "moveGrants"), KeyNow(p, "moveOverrides"))' = ops'[p].let0
    BY <2>4, <2>5, <2>6 DEF LetIn
  <2> QED BY <2>2, <2>7 DEF KnowsAccess
<1>4. CASE c(p)'.name # "renameApp"
  BY <1>4 DEF KnowsAccess
<1> QED BY <1>3, <1>4

(* The steps of a rename that write nothing.                                *)
LEMMA QuietAccess ==
  ASSUME ControlInv, ControlInv', NEW p \in Proc, KnowsAccess(p), NEW s,
         Moves(p, s) \/ Halts(p, s), UNCHANGED store,
         c(p) # Null, c(p).name = "renameApp",
         s \notin {"moveApp", "moveGrants", "moveOverrides"}
  PROVE  KnowsAccess(p)'
<1>1. CASE Stops(p)
  BY <1>1, Stopped DEF KnowsAccess
<1>2. CASE ~ Stops(p)
  <2>1. At(p, s) /\ Goes(p, s)
    BY <1>2 DEF Moves, Halts
  <2>2. Left(p) \in Nat \ {0} /\ Left(p) # 4 /\ Left(p) # 3
    BY <2>1, Where, Turn
  <2>3. c(p)' = c(p) /\ Left(p)' \in {Left(p), Left(p) - 1} /\ ops'[p].let0 = ops[p].let0
    BY <2>1, GoesOn DEF Goes
  <2>4. ~ At(p, "moveGrants") /\ ~ At(p, "moveOverrides")
    BY <2>2, Where DEF Place
  <2>5. ~ At(p, "moveGrants")' /\ ~ At(p, "moveOverrides")'
    BY <2>1, <2>2, <2>4, WhereNext DEF Place
  <2>6. PICK a, g, o : a = AppNow(p) /\ g = KeyNow(p, "moveGrants") /\ o = KeyNow(p, "moveOverrides")
    OBVIOUS
  <2>7. Left(p)' >= 4 <=> Left(p) >= 4
    BY <2>2, <2>3
  <2>8. AppNow(p)' = a /\ KeyNow(p, "moveGrants")' = g /\ KeyNow(p, "moveOverrides")' = o
    BY <2>3, <2>4, <2>5, <2>6, <2>7 DEF AppNow, KeyNow
  <2>9. LetIn(a, g, o) = ops[p].let0
    BY <2>6 DEF KnowsAccess
  <2>10. LetIn(a, g, o)' = LetIn(a, g, o)
    BY DEF LetIn, store
  <2>11. LetIn(AppNow(p), KeyNow(p, "moveGrants"), KeyNow(p, "moveOverrides"))' = ops'[p].let0
    BY <2>3, <2>8, <2>9, <2>10 DEF LetIn
  <2> QED BY <2>5, <2>11 DEF KnowsAccess
<1> QED BY <1>1, <1>2

LEMMA MoveAppAccess ==
  ASSUME ControlInv, ControlInv', AppsCore, AppsApart, NEW p \in Proc, KnowsAccess(p), c(p) # Null,
         MoveApp(p)
  PROVE  KnowsAccess(p)'
<1>1. CASE Halts(p, "moveApp")
  BY <1>1, Stopped DEF Halts, KnowsAccess
<1>2. CASE ~ Halts(p, "moveApp")
  <2>1. /\ At(p, "moveApp") /\ Goes(p, "moveApp") /\ UNCHANGED <<users, roles>>
        /\ c(p).name = "renameApp" /\ Left(p) = 4 /\ c(p)' = c(p) /\ Left(p)' = 3
        /\ c(p).a \in AppKey /\ c(p).a2 \in AppKey /\ c(p).a # c(p).a2
        /\ apps[c(p).a] # Null /\ apps[c(p).a2] = Null
        /\ apps' = [apps EXCEPT ![c(p).a2] = apps[c(p).a], ![c(p).a] = Null]
        /\ At(p, "moveGrants")' /\ At(p, "moveOverrides")'
    BY <1>2, MovesApp DEF AppsCore
  <2>2. ops'[p].let0 = ops[p].let0
    BY <2>1 DEF Goes
  <2>3. PICK a \in AppKey, a2 \in AppKey : a = c(p).a /\ a2 = c(p).a2
    BY <2>1
  <2>4. ~ Granted(a2) /\ ~ Overridden(a2)
    BY <2>1, <2>3, NewKeyUnused DEF Granted, Overridden
  <2>5. LetIn(a, a, a) = ops[p].let0
    BY <2>1, <2>3 DEF KnowsAccess, AppNow, KeyNow
  <2>6. DOMAIN apps = AppKey
    BY StoreShape DEF ControlInv
  <2>7. apps'[a2] = apps[a]
    BY <2>1, <2>3, <2>6
  <2>8. LetIn(a2, a, a)' = LetIn(a, a, a)
    BY <2>1, <2>7 DEF LetIn
  <2>9. AppNow(p)' = a2 /\ KeyNow(p, "moveGrants")' = a /\ KeyNow(p, "moveOverrides")' = a
    BY <2>1, <2>3 DEF AppNow, KeyNow
  <2>10. LetIn(AppNow(p), KeyNow(p, "moveGrants"), KeyNow(p, "moveOverrides"))' = ops'[p].let0
    BY <2>2, <2>5, <2>8, <2>9 DEF LetIn
  <2>11. ~ Granted(c(p).a2)' /\ ~ Overridden(c(p).a2)'
    BY <2>1, <2>3, <2>4 DEF Granted, Overridden
  <2> QED BY <2>10, <2>11 DEF KnowsAccess
<1> QED BY <1>1, <1>2

(* The two cascades of a rename are awaited together: one done, the other   *)
(* is still owed or is not, as before.                                      *)
LEMMA OneCascade ==
  ASSUME ControlInv, ControlInv', NEW p \in Proc,
         NEW s \in {"moveGrants", "moveOverrides"}, NEW t \in {"moveGrants", "moveOverrides"},
         t # s, Moves(p, s)
  PROVE  /\ At(p, s) /\ c(p).name = "renameApp" /\ Left(p) = 3
         /\ c(p)' = c(p) /\ ops'[p].let0 = ops[p].let0 /\ Left(p)' \in {2, 3}
         /\ ~ At(p, s)' /\ (At(p, t)' <=> At(p, t))
<1>1. At(p, s) /\ c(p).name = "renameApp" /\ Left(p) = 3 /\ Others(p)
  BY Where DEF Moves, Place
<1>2. Goes(p, s)
  BY <1>1 DEF Moves
<1>3. c(p)' = c(p) /\ ops'[p].let0 = ops[p].let0 /\ Left(p)' \in {2, 3}
  BY <1>1, <1>2, GoesOn DEF Goes
<1>4. ~ At(p, s)'
  BY <1>1, <1>2, WhereNext DEF Place
<1>5. At(p, t)' => At(p, t)
  BY <1>1, <1>2, WhereNext DEF Place
<1>6. At(p, t) => At(p, t)'
  <2> SUFFICES ASSUME At(p, t) PROVE At(p, t)'
    OBVIOUS
  <2>1. t \in ops[p].todo[1]
    BY Where
  <2>2. Busy(p)' /\ t \in ops'[p].todo[1]
    BY <1>1, <1>2, <2>1, GoesOn
  <2>3. ops'[p].todo \in Seq(SUBSET StepName) /\ ops'[p].todo # <<>>
    BY <2>2 DEF ControlInv, RInv, OpsOK, Op, Busy
  <2>4. Head(ops'[p].todo) = ops'[p].todo[1]
    BY <2>3
  <2> QED BY <2>2, <2>3, <2>4 DEF At
<1> QED BY <1>1, <1>3, <1>4, <1>5, <1>6

LEMMA MoveGrantsAccess ==
  ASSUME ControlInv, ControlInv', NEW p \in Proc, KnowsAccess(p), c(p) # Null, MoveGrants(p)
  PROVE  KnowsAccess(p)'
<1>1. RInv
  BY DEF ControlInv
<1>2. Moves(p, "moveGrants")
  BY <1>1, DoneMoves DEF MoveGrants
<1>3. /\ At(p, "moveGrants") /\ c(p).name = "renameApp" /\ Left(p) = 3
      /\ c(p)' = c(p) /\ ops'[p].let0 = ops[p].let0 /\ Left(p)' \in {2, 3}
      /\ ~ At(p, "moveGrants")' /\ (At(p, "moveOverrides")' <=> At(p, "moveOverrides"))
  BY <1>2, OneCascade
<1>4. PICK a \in AppKey, a2 \in AppKey : a = c(p).a /\ a2 = c(p).a2
  BY <1>1, <1>3, CallShape
<1>key. PICK o : o = KeyNow(p, "moveOverrides")
  OBVIOUS
<1>5. /\ ~ Granted(a2) /\ LetIn(a2, a, o) = ops[p].let0
      /\ At(p, "moveOverrides") => ~ Overridden(a2)
  BY <1>3, <1>4, <1>key DEF KnowsAccess, AppNow, KeyNow, Granted, Overridden
<1>6. /\ UNCHANGED <<users, apps>>
      /\ \A k \in RoleKey :
           /\ roles'[k] = Null <=> roles[k] = Null
           /\ roles[k] # Null => roles'[k].grants = {Rename(x, a, a2) : x \in roles[k].grants}
  BY <1>1, <1>4, MovesGrants
<1>7. \A k \in RoleKey : roles'[k] # Null /\ a2 \in roles'[k].grants <=>
                         roles[k] # Null /\ a \in roles[k].grants
  <2>1. ASSUME NEW k \in RoleKey, roles[k] # Null
        PROVE  a2 \in {Rename(x, a, a2) : x \in roles[k].grants} <=> a \in roles[k].grants
    <3>1. a2 \notin roles[k].grants
      BY <1>5, <2>1 DEF Granted
    <3> QED BY <3>1 DEF Rename
  <2> QED BY <1>6, <2>1
<1>8. ASSUME NEW u \in User, ActiveUser(users[u])
      PROVE  GrantingRoles(users[u], a2, roles)' = GrantingRoles(users[u], a, roles)
  <2>1. users[u].roles \subseteq RoleKey
    BY <1>1, <1>8, StoreShape DEF UserDoc, ActiveUser
  <2>2. \A k \in users[u].roles : roles'[k] # Null /\ a2 \in roles'[k].grants <=>
                                  roles[k] # Null /\ a \in roles[k].grants
    BY <1>7, <2>1
  <2> QED BY <1>6, <2>2 DEF GrantingRoles
<1>9. LetIn(a2, a2, o)' = LetIn(a2, a, o)
  BY <1>6, <1>8 DEF LetIn
<1>10. AppNow(p)' = a2 /\ KeyNow(p, "moveGrants")' = a2 /\ KeyNow(p, "moveOverrides")' = o
  BY <1>3, <1>4, <1>key DEF AppNow, KeyNow
<1>11. LetIn(AppNow(p), KeyNow(p, "moveGrants"), KeyNow(p, "moveOverrides"))' = ops'[p].let0
  BY <1>3, <1>5, <1>9, <1>10 DEF LetIn
<1>12. At(p, "moveOverrides")' => ~ Overridden(c(p).a2)'
  BY <1>3, <1>4, <1>5, <1>6 DEF Overridden
<1> QED BY <1>3, <1>11, <1>12 DEF KnowsAccess

LEMMA MoveOverridesAccess ==
  ASSUME ControlInv, ControlInv', NEW p \in Proc, KnowsAccess(p), c(p) # Null, MoveOverrides(p)
  PROVE  KnowsAccess(p)'
<1>1. RInv
  BY DEF ControlInv
<1>2. Moves(p, "moveOverrides")
  BY <1>1, DoneMoves DEF MoveOverrides
<1>3. /\ At(p, "moveOverrides") /\ c(p).name = "renameApp" /\ Left(p) = 3
      /\ c(p)' = c(p) /\ ops'[p].let0 = ops[p].let0 /\ Left(p)' \in {2, 3}
      /\ ~ At(p, "moveOverrides")' /\ (At(p, "moveGrants")' <=> At(p, "moveGrants"))
  BY <1>2, OneCascade
<1>4. PICK a \in AppKey, a2 \in AppKey : a = c(p).a /\ a2 = c(p).a2
  BY <1>1, <1>3, CallShape
<1>key. PICK g : g = KeyNow(p, "moveGrants")
  OBVIOUS
<1>5. /\ ~ Overridden(a2) /\ LetIn(a2, g, a) = ops[p].let0
      /\ At(p, "moveGrants") => ~ Granted(a2)
  BY <1>3, <1>4, <1>key DEF KnowsAccess, AppNow, KeyNow, Granted, Overridden
<1>6. /\ UNCHANGED <<roles, apps>>
      /\ \A u \in User :
           /\ users'[u] = Null <=> users[u] = Null
           /\ users[u] # Null =>
                /\ users'[u].status = users[u].status /\ users'[u].roles = users[u].roles
                /\ users'[u].overrides =
                     {[app |-> Rename(x.app, a, a2), effect |-> x.effect] : x \in users[u].overrides}
  BY <1>1, <1>4, MovesOverrides
<1>7. ASSUME NEW u \in User
      PROVE  ActiveUser(users'[u]) <=> ActiveUser(users[u])
  BY <1>6 DEF ActiveUser
<1>8. ASSUME NEW u \in User, ActiveUser(users[u]), NEW effect
      PROVE  HasOverride(users'[u], a2, effect) <=> HasOverride(users[u], a, effect)
  <2>1. users[u] # Null /\ users[u].overrides \subseteq Override
    BY <1>1, <1>8, StoreShape DEF UserDoc, ActiveUser
  <2>2. \A x \in users[u].overrides : x = [app |-> x.app, effect |-> x.effect] /\ x.app # a2
    BY <1>5, <2>1 DEF Override, Overridden
  <2>3. [app |-> a2, effect |-> effect] \in users'[u].overrides <=>
          \E x \in users[u].overrides : [app |-> a2, effect |-> effect] =
                                        [app |-> Rename(x.app, a, a2), effect |-> x.effect]
    <3>1. users'[u].overrides =
            {[app |-> Rename(x.app, a, a2), effect |-> x.effect] : x \in users[u].overrides}
      BY <1>6, <2>1
    <3> QED BY <3>1
  <2>4. \A x \in users[u].overrides :
          [app |-> a2, effect |-> effect] = [app |-> Rename(x.app, a, a2), effect |-> x.effect]
            <=> x = [app |-> a, effect |-> effect]
    BY <2>2 DEF Rename
  <2> QED BY <2>3, <2>4 DEF HasOverride
<1>9. ASSUME NEW u \in User, ActiveUser(users[u])
      PROVE  GrantingRoles(users[u], g, roles)' = GrantingRoles(users[u], g, roles)
  BY <1>6, <1>9 DEF GrantingRoles, ActiveUser
<1>10. LetIn(a2, g, a2)' = LetIn(a2, g, a)
  BY <1>6, <1>7, <1>8, <1>9 DEF LetIn
<1>11. AppNow(p)' = a2 /\ KeyNow(p, "moveGrants")' = g /\ KeyNow(p, "moveOverrides")' = a2
  BY <1>3, <1>4, <1>key DEF AppNow, KeyNow
<1>12. LetIn(AppNow(p), KeyNow(p, "moveGrants"), KeyNow(p, "moveOverrides"))' = ops'[p].let0
  BY <1>3, <1>5, <1>10, <1>11 DEF LetIn
<1>13. At(p, "moveGrants")' => ~ Granted(c(p).a2)'
  BY <1>3, <1>4, <1>5, <1>6 DEF Granted
<1> QED BY <1>3, <1>12, <1>13 DEF KnowsAccess

LEMMA OwnAccess ==
  ASSUME ControlInv, ControlInv', AppsCore, AppsApart, NEW p \in Proc, KnowsAccess(p),
         StoreStep(p) \/ EvictUser(p) \/ EvictAll(p)
  PROVE  KnowsAccess(p)'
<1>1. RInv
  BY DEF ControlInv
<1>2. CASE Start(p)
  BY <1>2, StartAccess
<1>3. CASE ~ Start(p) /\ (c(p) = Null \/ c(p).name # "renameApp")
  <2>1. PICK s : Moves(p, s) \/ Halts(p, s)
    BY <1>1, <1>3, StepMoves
  <2>2. CASE Stops(p)
    BY <2>2, Stopped DEF KnowsAccess
  <2>3. CASE ~ Stops(p)
    <3>1. c(p)' = c(p)
      BY <2>1, <2>3, GoesOn DEF Moves, Halts
    <3> QED BY <1>3, <3>1 DEF KnowsAccess
  <2> QED BY <2>2, <2>3
<1>4. CASE c(p) # Null /\ c(p).name = "renameApp" /\ ~ Start(p)
  <2> DEFINE Writes == {"moveApp", "moveGrants", "moveOverrides"}
  <2>1. ASSUME NEW s, Throw(p, s)
        PROVE  KnowsAccess(p)'
    BY <1>1, <2>1, ThrowHalts, Stopped DEF Halts, KnowsAccess
  <2>2. ASSUME NEW s, Done(p, s), UNCHANGED store, s \notin Writes
        PROVE  KnowsAccess(p)'
    BY <1>1, <1>4, <2>2, DoneMoves, QuietAccess
  <2>3. CASE FindApp(p)
    BY <1>1, <1>4, <2>3, FindAppMoves, QuietAccess DEF Halts
  <2>4. CASE FindUser(p) \/ FindActive(p) \/ FindRole(p) \/ FindNoRole(p) \/ FindNoApp(p)
    BY <2>1, <2>2, <2>4 DEF FindUser, FindActive, FindRole, FindNoRole, FindNoApp, Check
  <2>5. CASE IdpDelete(p) \/ MoveUsage(p) \/ DropUsage(p) \/ EvictUser(p) \/ EvictAll(p)
    BY <2>1, <2>2, <2>5 DEF IdpDelete, MoveUsage, DropUsage, EvictUser, EvictAll
  <2>6. CASE MoveApp(p) \/ MoveGrants(p) \/ MoveOverrides(p)
    BY <1>4, <2>6, MoveAppAccess, MoveGrantsAccess, MoveOverridesAccess
  <2>7. ASSUME NEW s, At(p, s),
               s \in {"writeRoles", "writeDisabled", "writeActive", "pullOverride", "pushOverride",
                      "removeUser", "dropSessions", "openSession", "insertRole", "pullGrant",
                      "pushGrant", "removeRole", "moveRole", "moveHolders", "stripHolders",
                      "insertApp", "writeApp", "writeSecret", "removeApp", "dropGrants",
                      "dropOverrides"}
        PROVE  FALSE
    BY <1>4, <2>7, Where DEF Place, PlaceOfReads
  <2>8. CASE \/ WriteRoles(p) \/ WriteDisabled(p) \/ WriteActive(p)
             \/ PullOverride(p) \/ PushOverride(p) \/ RemoveUser(p)
             \/ DropSessions(p) \/ OpenSession(p)
    BY <2>7, <2>8 DEF WriteRoles, WriteDisabled, WriteActive, PullOverride, PushOverride,
       RemoveUser, DropSessions, OpenSession, Done
  <2>9. CASE \/ InsertRole(p) \/ PullGrant(p) \/ PushGrant(p) \/ RemoveRole(p)
             \/ MoveRole(p) \/ MoveHolders(p) \/ StripHolders(p)
    BY <2>7, <2>9 DEF InsertRole, PullGrant, PushGrant, RemoveRole, MoveRole, MoveHolders,
       StripHolders, Done
  <2>10. CASE \/ InsertApp(p) \/ WriteApp(p) \/ WriteSecret(p) \/ RemoveApp(p)
              \/ DropGrants(p) \/ DropOverrides(p)
    BY <2>7, <2>10 DEF InsertApp, WriteApp, WriteSecret, RemoveApp, DropGrants, DropOverrides, Done
  <2> QED BY <1>4, <2>3, <2>4, <2>5, <2>6, <2>8, <2>9, <2>10 DEF StoreStep
<1> QED BY <1>2, <1>3, <1>4

(* The other handlers: none renames an app meanwhile.                       *)
LEMMA OthersAccess ==
  ASSUME ControlInv, RenamesAlone, RenamesAlone', NEW p \in Proc, NEW q \in Proc, q # p,
         KnowsAccess(q), StoreStep(p) \/ EvictUser(p) \/ EvictAll(p)
  PROVE  KnowsAccess(q)'
<1>1. RInv
  BY DEF ControlInv
<1>2. Others(p)
  BY <1>1, StepMoves, StartMoves DEF Moves, Halts
<1>3. ops'[q] = ops[q] /\ c(q)' = c(q)
  BY <1>2 DEF Others, c
<1>4. CASE c(q) = Null \/ c(q).name # "renameApp"
  BY <1>3, <1>4 DEF KnowsAccess
<1>5. CASE c(q) # Null /\ c(q).name = "renameApp"
  <2>1. ~ Busy(p) /\ ~ Busy(p)'
    BY <1>3, <1>5 DEF RenamesAlone
  <2>2. Start(p)
    BY <1>1, <2>1, StepMoves DEF Moves, Halts, At, Busy
  <2>3. c(p)' \in Call /\ ops'[p].todo = Program[c(p)'.name]
    BY <1>1, <2>2, StartMoves
  <2>4. PICK n \in DOMAIN Program : ops'[p].todo = Program[n]
    BY <2>3 DEF Call
  <2>5. Len(ops'[p].todo) # 0
    BY <2>4, ProgramFull
  <2>6. Len(<<>>) = 0
    OBVIOUS
  <2> QED BY <2>1, <2>5, <2>6 DEF Busy
<1> QED BY <1>4, <1>5

LEMMA NextAccess ==
  ASSUME ControlInv, ControlInv', AppsInv, AccessInv, AppsApart, RenamesAlone, RenamesAlone',
         [RNext]_rvars
  PROVE  AccessInv'
<1>1. CASE RestartPortal
  BY <1>1, RestartIdle DEF AccessInv, KnowsAccess
<1>2. ASSUME NEW p \in Proc, StoreStep(p) \/ EvictUser(p) \/ EvictAll(p), UNCHANGED torn,
             "renameApp" \notin torn
      PROVE  AccessInv'
  <2>1. AppsCore
    BY <1>2 DEF AppsInv, AppsCore
  <2>2. KnowsAccess(p)'
    BY <1>2, <2>1, OwnAccess DEF AccessInv
  <2>3. \A q \in Proc : q # p => KnowsAccess(q)'
    BY <1>2, OthersAccess DEF AccessInv
  <2> QED BY <2>2, <2>3 DEF AccessInv
<1>3. CASE UNCHANGED rvars
  <2>1. ASSUME NEW p \in Proc, KnowsAccess(p)
        PROVE  KnowsAccess(p)'
    BY <1>3, <2>1 DEF rvars, KnowsAccess, AppNow, KeyNow, LetIn, Granted, Overridden, Left, At, c
  <2> QED BY <1>3, <2>1 DEF rvars, AccessInv
<1>4. CASE "renameApp" \in torn /\ UNCHANGED torn
  BY <1>4 DEF AccessInv
<1> QED BY <1>1, <1>2, <1>3, <1>4 DEF RNext

LEMMA InitAccess == RInit => AccessInv
BY DEF RInit, Idle, AccessInv, KnowsAccess, c

(* The rename of an app keeps everybody's access (AppRenameKeepsAccess), as *)
(* long as nothing else is in flight while it runs and no other handlers    *)
(* take apart what one another build on.  Half way the app goes by its new  *)
(* key, and the grants and the overrides by the old one until their cascade *)
(* is done, in either order; nothing is merged, for nothing refers to a key *)
(* that no app has.                                                         *)
THEOREM AccessKept == RSpec /\ []AppsApart /\ []RenamesAlone => []AppRenameKeepsAccess
<1> DEFINE Inv == ControlInv /\ AppsInv /\ AccessInv
<1>1. RInit => Inv
  BY InitControl, InitApps, InitAccess
<1>2. Inv /\ AppsApart /\ RenamesAlone /\ RenamesAlone' /\ [RNext]_rvars => Inv'
  BY NextControl, NextApps, NextAccess
<1>3. Inv => AppRenameKeepsAccess
  <2> SUFFICES ASSUME AccessInv, "renameApp" \notin torn, NEW p \in Proc, Quiet,
                      c(p) # Null, c(p).name = "renameApp"
               PROVE  {u \in User : StoreAllows(u, c(p).a2)} = ops[p].let0
    BY DEF AppRenameKeepsAccess
  <2>1. Left(p) = 0 /\ ~ At(p, "moveGrants") /\ ~ At(p, "moveOverrides")
    BY DEF Quiet, Left, At
  <2>2. LetIn(c(p).a2, c(p).a2, c(p).a2) = ops[p].let0
    BY <2>1 DEF AccessInv, KnowsAccess, AppNow, KeyNow
  <2> QED BY <2>2, LetInStore
<1> QED BY <1>1, <1>2, <1>3, PTL DEF RSpec

(* With one handler at a time every rename of an app keeps everybody's      *)
(* access.                                                                  *)
COROLLARY SerialAccessKept ==
  ASSUME \A p, q \in Proc : p = q
  PROVE  RSpec => []AppRenameKeepsAccess
<1>1. AppsApart /\ RenamesAlone
  BY DEF AppsApart, RenamesAlone
<1> QED BY <1>1, AccessKept, PTL
=============================================================================
