------------------------------- MODULE Accounts -------------------------------
(***************************************************************************)
(* The people of the portal and their accounts at the identity provider:    *)
(* the handlers of src/src/services/users.ts that call the provider, the    *)
(* sign-in callback (src/src/routes/auth.ts) that links the two, and the    *)
(* email rules that admit newcomers (src/src/services/emailRules.ts,        *)
(* src/src/rules.ts).  A handler takes one step per call that it awaits; a  *)
(* call to the provider may fail, or take effect and its answer be lost.    *)
(***************************************************************************)
EXTENDS Integers, FiniteSets

CONSTANTS
  Email, Name, Proc, None,
  Domain,        \* the domain of every email
  Provisioning,  \* the provider lets the portal manage its accounts
  NullsCollide,  \* the unique index takes two unlinked users for equal (MongoDB)
  MaxIds,        \* bound: users ever made
  MaxSubs,       \* bound: accounts ever made
  RuleId,        \* bound: email rules
  MaxStarts,     \* bound: handlers ever started
  Beginnings     \* the stores an instance starts from

ASSUME NoneIsNoRule ==
  \A e \in Email : [type |-> "exact", pattern |-> e, active |-> TRUE] # None

VARIABLES
  users,    \* id -> [email, sub, name, status], or None; ids are never reused
  born,     \* the ids given
  idp,      \* sub -> [email, name, suspended], or None
  issued,   \* the subs given
  rules,    \* id -> [type, pattern, active], or None
  ops,      \* the handlers
  starts,
  admitted, \* history: handler -> the emails some active rule matched since it began
  apart,    \* history: ids whose two sides need not agree (see IdentityAgrees)
  outside   \* history: ids made for an email no rule admitted

avars == <<users, born, idp, issued, rules, ops, starts, admitted, apart, outside>>

Id  == 1..MaxIds
Sub == 1..MaxSubs
UserDoc    == [email : Email, sub : Sub \cup {None}, name : Name \cup {None},
               status : {"active", "disabled"}]
AccountDoc == [email : Email, name : Name \cup {None}, suspended : BOOLEAN]

ASSUME BoundsAssumption == MaxIds \in Nat /\ MaxSubs \in Nat
ASSUME NoneAssumption == None \notin Nat \cup UserDoc \cup AccountDoc
(* An instance starts from a user and an account that agree, if linked.     *)
ASSUME BeginningsAssumption ==
  \A b \in Beginnings :
    /\ b.user \in UserDoc /\ b.account \in AccountDoc
    /\ b.user.sub # None => /\ b.user.sub = 1 /\ b.account.email = b.user.email
                            /\ b.account.suspended = (b.user.status = "disabled")
                            /\ b.account.name \in {b.user.name, None}
Users == {i \in Id : users[i] # None}
Accounts == {s \in Sub : idp[s] # None}

(* The callback's lookups: no user is 0.                                    *)
ByEmail(e) == IF \E i \in Users : users[i].email = e
              THEN CHOOSE i \in Users : users[i].email = e ELSE 0
BySub(s)   == IF \E i \in Users : users[i].sub = s
              THEN CHOOSE i \in Users : users[i].sub = s ELSE 0

(* A mutant of MatchEmail: rules that are disabled count.                   *)
MatchDisabled(set, e) ==
  \E r \in set : \/ r.type = "exact" /\ r.pattern = e
                 \/ r.type = "domain" /\ r.pattern = Domain

MatchEmail(set, e) ==
  \E r \in set : /\ r.active
                 /\ \/ r.type = "exact" /\ r.pattern = e
                    \/ r.type = "domain" /\ r.pattern = Domain
Rules == {rules[r] : r \in {x \in RuleId : rules[x] # None}}

------------------------------------------------------------------------------
(* Handlers.                                                                *)

Idle == [op |-> "none", pc |-> "done", id |-> 0, email |-> None, name |-> None, sub |-> None,
         rows |-> {}, flag |-> FALSE, alone |-> TRUE, links |-> FALSE, rules |-> {}]
Running(p) == ops[p].pc \notin {"done", "threw"}
Of(i, s, e) == users[i].sub = s \/ users[i].email = e
On(i) == {p \in Proc : Running(p) /\ \/ ops[p].id = i
                                     \/ /\ ops[p].pc = "lookup" /\ i \in Users
                                        /\ Of(i, ops[p].sub, ops[p].email)}

With(s) == {p \in Proc : Running(p) /\ s # None /\ ops[p].sub = s}

(* A handler is on a user and on his account from now on (on none: 0).  Two *)
(* that overlap there are not alone, and may leave the two sides apart.     *)
Join(p, op) ==
  LET others == ((IF op.id = 0 THEN {} ELSE On(op.id)) \cup With(op.sub)) \ {p} IN
  /\ ops' = [q \in Proc |-> IF q = p THEN [op EXCEPT !.alone = @ /\ others = {}]
                            ELSE IF q \in others THEN [ops[q] EXCEPT !.alone = FALSE]
                            ELSE ops[q]]
  /\ apart' = IF op.id = 0 \/ others = {} THEN apart ELSE apart \cup {op.id}
Begin(p, op) ==
  /\ ~ Running(p) /\ starts < MaxStarts /\ starts' = starts + 1
  /\ Join(p, op)
  /\ UNCHANGED <<users, born, idp, issued, rules, outside>>
Goto(p, pc) == ops' = [ops EXCEPT ![p].pc = pc]
End(p)      == ops' = [ops EXCEPT ![p] = Idle]
Throw(p)    == ops' = [ops EXCEPT ![p] = [Idle EXCEPT !.op = ops[p].op, !.pc = "threw"]]
Patch(i, new) == users' = IF i \in Users THEN [users EXCEPT ![i] = new] ELSE users

BeginCreate(p, e, n) ==
  /\ MatchEmail(Rules, e)
  /\ Begin(p, [Idle EXCEPT !.op = "create", !.pc = "find", !.email = e, !.name = n])
BeginImport(p, rows, auto) ==
  Begin(p, [Idle EXCEPT !.op = "import", !.pc = "row", !.rows = rows, !.flag = auto,
                        !.rules = {r \in Rules : r.active}])
(* The handlers on one user: the first call finds it, and settles whether   *)
(* the provider will be called.                                             *)
BeginOn(p, op, i, n) ==
  /\ i \in Users
  /\ Begin(p, [Idle EXCEPT !.op = op, !.pc = "write", !.id = i, !.sub = users[i].sub, !.name = n,
                           !.flag = /\ Provisioning /\ users[i].sub # None
                                    /\ op = "profile" => n # users[i].name])

(* The next row of the roster: a row that was seen or exists is only        *)
(* tallied, and so is one that no rule matches, unless it gets a rule.  So  *)
(* a roster is a set, in any order.                                         *)
NextRow(p) ==
  LET o == ops[p] IN
  /\ o.pc = "row"
  /\ IF o.rows = {} THEN End(p)
     ELSE \E e \in o.rows :
          LET kept == [o EXCEPT !.rows = @ \ {e}, !.email = e]
              next == IF ByEmail(e) # 0 \/ ~ (MatchEmail(o.rules, e) \/ o.flag) THEN "row"
                      ELSE IF MatchEmail(o.rules, e) THEN "provision" ELSE "rule"
          IN ops' = [ops EXCEPT ![p] = [kept EXCEPT !.pc = next]]
  /\ UNCHANGED <<users, born, idp, issued, rules, starts, apart, outside>>
AutoRule(p) ==
  LET new == [type |-> "exact", pattern |-> ops[p].email, active |-> TRUE] IN
  /\ ops[p].pc = "rule"
  /\ \E r \in RuleId : rules[r] = None /\ rules' = [rules EXCEPT ![r] = new]
  /\ ops' = [ops EXCEPT ![p].pc = "provision", ![p].rules = @ \cup {new}]
  /\ UNCHANGED <<users, born, idp, issued, starts, apart, outside>>

FindNoUser(p) ==
  /\ ops[p].pc = "find"
  /\ IF ByEmail(ops[p].email) # 0 THEN End(p) ELSE Goto(p, "provision")
  /\ UNCHANGED <<users, born, idp, issued, rules, starts, apart, outside>>

(* createUser gives up when the provider fails, an import goes on without.  *)
Unprovisioned(p) == IF ops[p].op = "create" THEN End(p) ELSE Goto(p, "insert")
Provision(p) ==
  LET e == ops[p].email
      s == issued + 1
  IN /\ ops[p].pc = "provision"
     /\ \/ /\ IF Provisioning THEN Unprovisioned(p) ELSE Goto(p, "insert")
           /\ UNCHANGED <<idp, issued>>
        \/ /\ Provisioning /\ s \in Sub /\ \A x \in Accounts : idp[x].email # e
           /\ issued' = s
           /\ idp' = [idp EXCEPT ![s] = [email |-> e, name |-> ops[p].name, suspended |-> FALSE]]
           /\ \/ ops' = [ops EXCEPT ![p].pc = "insert", ![p].sub = s]
              \/ Unprovisioned(p)
     /\ UNCHANGED <<users, born, rules, starts, apart, outside>>

(* insertOne under the two unique indexes.                                  *)
Insert(p) ==
  LET o == ops[p]
      clash == \E i \in Users : \/ users[i].email = o.email
                                \/ users[i].sub = o.sub /\ (o.sub # None \/ NullsCollide)
      i == born + 1
  IN /\ o.pc = "insert"
     /\ IF clash THEN Throw(p) /\ UNCHANGED <<users, born, apart, outside>>
        ELSE /\ i \in Id /\ born' = i
             /\ users' = [users EXCEPT
                            ![i] = [email |-> o.email, sub |-> o.sub, name |-> o.name,
                                    status |-> "active"]]
             /\ outside' = IF o.email \in admitted[p] THEN outside ELSE outside \cup {i}
             /\ apart' = IF o.alone THEN apart ELSE apart \cup {i}
             /\ IF o.op = "create" THEN End(p)
                ELSE ops' = [ops EXCEPT ![p].pc = "row", ![p].sub = None, ![p].alone = TRUE]
     /\ UNCHANGED <<idp, issued, rules, starts>>

(* The store call of updateProfile, disableUser and enableUser; deleteUser  *)
(* drops the sessions here (module Registry).                               *)
Write(p) ==
  LET o == ops[p]
      u == users[o.id]
  IN /\ o.pc = "write"
     /\ CASE o.op = "profile" -> Patch(o.id, [u EXCEPT !.name = o.name])
          [] o.op = "disable" -> Patch(o.id, [u EXCEPT !.status = "disabled"])
          [] o.op = "enable"  -> Patch(o.id, [u EXCEPT !.status = "active"])
          [] OTHER            -> UNCHANGED users
     /\ IF o.flag THEN Goto(p, "idp") ELSE IF o.op = "delete" THEN Goto(p, "remove") ELSE End(p)
     /\ UNCHANGED <<born, idp, issued, rules, starts, apart, outside>>

(* A mutant of Effect: enableUser leaves the account suspended.             *)
EffectKept(op, account, n) ==
  CASE op = "profile" -> [account EXCEPT !.name = n]
    [] op = "disable" -> [account EXCEPT !.suspended = TRUE]
    [] op = "delete"  -> None
    [] OTHER          -> account

Effect(op, account, n) ==
  CASE op = "profile" -> [account EXCEPT !.name = n]
    [] op = "disable" -> [account EXCEPT !.suspended = TRUE]
    [] op = "enable"  -> [account EXCEPT !.suspended = FALSE]
    [] op = "delete"  -> None

(* The provider's part.  A failure is logged, and only deleteUser gives up; *)
(* an account that is gone already fails all but a deletion.                *)
CallIdp(p) ==
  LET o == ops[p]
      there == idp[o.sub] # None
      ok    == there \/ o.op = "delete"
      after == IF there THEN [idp EXCEPT ![o.sub] = Effect(o.op, @, o.name)] ELSE idp
  IN /\ o.pc = "idp"
     /\ \/ /\ ok /\ idp' = after /\ UNCHANGED apart
           /\ IF o.op = "delete" THEN Goto(p, "remove") ELSE End(p)
        \/ idp' \in {idp, after} /\ apart' = apart \cup {o.id} /\ End(p)
     /\ UNCHANGED <<users, born, issued, rules, starts, outside>>
Remove(p) ==
  /\ ops[p].pc = "remove"
  /\ users' = [users EXCEPT ![ops[p].id] = None] /\ End(p)
  /\ UNCHANGED <<born, idp, issued, rules, starts, apart, outside>>

------------------------------------------------------------------------------
(* The callback: the claims are those of the code exchange; the user that   *)
(* is found by the sub, or else by the email (flag), must be active; the    *)
(* link is made if there was none, and a name that is another is taken over.*)

BeginCallback(p, s) ==
  /\ s \in Accounts /\ ~ idp[s].suspended
  /\ Begin(p, [Idle EXCEPT !.op = "callback", !.pc = "lookup", !.sub = s,
                           !.email = idp[s].email, !.name = idp[s].name])
LookUp(p) ==
  LET o == ops[p]
      i == IF o.flag THEN ByEmail(o.email) ELSE BySub(o.sub)
  IN /\ o.pc = "lookup"
     /\ IF i = 0 /\ ~ o.flag THEN ops' = [ops EXCEPT ![p].flag = TRUE] /\ UNCHANGED apart
        ELSE IF i = 0 \/ users[i].status # "active" THEN End(p) /\ UNCHANGED apart
        ELSE Join(p, [o EXCEPT !.pc = "link", !.id = i, !.links = (users[i].sub = None), !.flag = FALSE,
                               !.name = IF @ = users[i].name THEN None ELSE @])
     /\ UNCHANGED <<users, born, idp, issued, rules, starts, outside>>
Link(p) ==
  LET o == ops[p]
      i == o.id
      clash == i \in Users /\ o.links /\ \E j \in Users \ {i} : users[j].sub = o.sub
      heals == o.links \/ (i \in Users /\ users[i].sub = o.sub)
  IN /\ o.pc = "link"
     /\ IF clash THEN Throw(p) /\ UNCHANGED users
        ELSE /\ LET u == users[i] IN
                Patch(i, [u EXCEPT !.sub = IF o.links THEN o.sub ELSE @,
                                   !.name = IF o.name = None THEN @ ELSE o.name])
             /\ End(p)
     /\ apart' = IF ~ o.alone THEN apart \cup {i} ELSE IF heals THEN apart \ {i} ELSE apart
     /\ UNCHANGED <<born, idp, issued, rules, starts, outside>>

------------------------------------------------------------------------------
(* The email rules, and the provider's own side.                            *)

CreateRule(type, pattern) ==
  /\ \E r \in RuleId :
       /\ rules[r] = None
       /\ rules' = [rules EXCEPT ![r] = [type |-> type, pattern |-> pattern, active |-> TRUE]]
  /\ starts < MaxStarts /\ starts' = starts + 1
  /\ UNCHANGED <<users, born, idp, issued, ops, apart, outside>>
(* Two that overlap read one status and write the same.                     *)
BeginToggle(p, r) ==
  /\ rules[r] # None
  /\ Begin(p, [Idle EXCEPT !.op = "toggle", !.pc = "flip", !.name = r, !.flag = ~ rules[r].active])
ToggleRule(p) ==
  /\ ops[p].pc = "flip"
  /\ LET r == ops[p].name IN
     rules' = IF rules[r] = None THEN rules ELSE [rules EXCEPT ![r].active = ops[p].flag]
  /\ End(p)
  /\ UNCHANGED <<users, born, idp, issued, starts, apart, outside>>
DeleteRule(r) ==
  /\ rules[r] # None /\ rules' = [rules EXCEPT ![r] = None]
  /\ starts < MaxStarts /\ starts' = starts + 1
  /\ UNCHANGED <<users, born, idp, issued, ops, apart, outside>>

(* Somebody changes a name at the provider; the process dies.               *)
RenameAtIdp(s, n) ==
  /\ s \in Accounts
  /\ idp[s].name # n /\ idp' = [idp EXCEPT ![s].name = n]
  /\ apart' = apart \cup {i \in Users : users[i].sub = s}
  /\ ops' = [p \in Proc |-> IF p \in With(s) THEN [ops[p] EXCEPT !.alone = FALSE] ELSE ops[p]]
  /\ starts < MaxStarts /\ starts' = starts + 1
  /\ UNCHANGED <<users, born, issued, rules, outside>>
CrashPortal ==
  /\ ops' = [p \in Proc |-> Idle]
  /\ apart' = apart \cup ({ops[p].id : p \in {q \in Proc : Running(q)}} \ {0})
  /\ UNCHANGED <<users, born, idp, issued, rules, starts, outside>>

------------------------------------------------------------------------------
Matching(set) == {e \in Email : \E r \in set : /\ r.active
                                               /\ \/ r.type = "exact" /\ r.pattern = e
                                                  \/ r.type = "domain" /\ r.pattern = Domain}

AccountsInit ==
  /\ \E b \in Beginnings :
       /\ users = [i \in Id |-> IF i = 1 THEN b.user ELSE None]
       /\ idp = [s \in Sub |-> IF s = 1 THEN b.account ELSE None]
       /\ rules = [r \in RuleId |-> IF r = 1 THEN b.rule ELSE None]
  /\ born = 1 /\ issued = 1 /\ ops = [p \in Proc |-> Idle] /\ starts = 0
  /\ admitted = [p \in Proc |-> {}] /\ apart = {} /\ outside = {}

AccountsStep ==
  \/ \E p \in Proc :
       \/ \E e \in Email, n \in Name : BeginCreate(p, e, n)
       \/ \E rows \in (SUBSET Email) \ {{}}, auto \in BOOLEAN : BeginImport(p, rows, auto)
       \/ \E i \in Id, op \in {"disable", "enable", "delete"} : BeginOn(p, op, i, None)
       \/ \E i \in Id, n \in Name : BeginOn(p, "profile", i, n)
       \/ \E s \in Sub : BeginCallback(p, s)
       \/ \E r \in RuleId : BeginToggle(p, r)
       \/ NextRow(p) \/ AutoRule(p) \/ FindNoUser(p) \/ Provision(p) \/ Insert(p)
       \/ Write(p) \/ CallIdp(p) \/ Remove(p) \/ LookUp(p) \/ Link(p) \/ ToggleRule(p)
  \/ \E type \in {"exact", "domain"}, e \in Email \cup {Domain} : CreateRule(type, e)
  \/ \E r \in RuleId : DeleteRule(r)
  \/ \E s \in Sub, n \in Name : RenameAtIdp(s, n)
  \/ CrashPortal

AccountsNext ==
  /\ AccountsStep
  /\ admitted' = [p \in Proc |-> IF ops'[p].pc \in {"done", "threw"} THEN {}
                                 ELSE admitted[p] \cup Matching(Rules) \cup Matching(Rules')]

AccountsSpec == AccountsInit /\ [][AccountsNext]_avars

------------------------------------------------------------------------------
(* The portal and the provider agree on who is linked, suspended and named  *)
(* how: whatever was interrupted, retried or imported, a linked user at rest*)
(* has an account, suspended if and only if he is disabled, of his name or  *)
(* of none ("name || undefined").                                           *)
(* Excepted are users for whom a call to the provider failed, two handlers  *)
(* overlapped, on them or on their account, the process died in a handler   *)
(* or the provider renamed; and a sign-in alone brings even those together  *)
(* again.                                                                   *)
IdentityAgrees ==
  \A i \in Users \ apart :
    users[i].sub # None /\ On(i) = {} =>
      /\ users[i].sub \in Accounts
      /\ idp[users[i].sub].suspended = (users[i].status = "disabled")
      /\ idp[users[i].sub].name \in {users[i].name, None}

(* "Default deny": nobody is made a user whose email no active rule has     *)
(* matched since his creation or import began, though the rules are read    *)
(* once, long before the rows they admit are written.                       *)
NewcomersWereAllowed == outside = {}
==============================================================================
