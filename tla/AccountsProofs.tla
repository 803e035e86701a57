---------------------------- MODULE AccountsProofs ----------------------------
(***************************************************************************)
(* That nobody is made a user whose email no active rule has matched since  *)
(* his creation or import began, and that the two sides of a user at rest   *)
(* agree, for any emails, rules, rosters and any number of handlers that    *)
(* overlap, fail or are cut off; and that the write-suppression set of the  *)
(* usage statistics suppresses only what is written or on its way.          *)
(***************************************************************************)
EXTENDS Accounts, Usage, TLAPS

(* What a handler carries from one of its steps to the next: a creation an  *)
(* email that was admitted, an import a snapshot of rules each of which was *)
(* in force, and rows that are emails.                                      *)
Fields == {"op", "pc", "id", "email", "name", "sub", "rows", "flag", "alone", "links", "rules"}
Shaped == /\ ops = [p \in Proc |-> ops[p]] /\ \A p \in Proc : DOMAIN ops[p] = Fields
          /\ rules = [r \in RuleId |-> rules[r]]
          /\ admitted = [p \in Proc |-> admitted[p]]

Phase(o) ==
  /\ o.pc = "find" => o.op = "create"
  /\ o.pc \in {"row", "rule"} => o.op = "import"
  /\ o.pc \in {"provision", "insert"} => o.op \in {"create", "import"}
Carries(o, emails) ==
  /\ o.pc \in {"find", "provision", "insert"} => o.email \in emails
  /\ o.op = "import" => /\ o.rows \subseteq Email /\ Matching(o.rules) \subseteq emails
                        /\ o.pc = "rule" => o.email \in Email
Admission(p) == Running(p) => Phase(ops[p]) /\ Carries(ops[p], admitted[p])

AccountsInv == Shaped /\ (\A p \in Proc : Admission(p)) /\ NewcomersWereAllowed

(* The fields that Admission reads are the same in both.                    *)
Alike(o, n) == /\ DOMAIN n = Fields /\ n.op = o.op /\ n.pc = o.pc /\ n.email = o.email
               /\ n.rows = o.rows /\ n.rules = o.rules

(* The history: what a running handler may carry only grows.                *)
Remembered(p) ==
  Running(p)' => admitted[p] \cup Matching(Rules) \cup Matching(Rules)' \subseteq admitted'[p]

------------------------------------------------------------------------------
(* An email that the rules admit is among those they match.                 *)
LEMMA MatchedIsMatching ==
  ASSUME NEW set, NEW e \in Email PROVE MatchEmail(set, e) <=> e \in Matching(set)
BY DEF MatchEmail, Matching

LEMMA AccountsInitially == AccountsInit => AccountsInv
BY DEF AccountsInit, AccountsInv, Shaped, Admission, Running, Idle, Fields, NewcomersWereAllowed

(* A step whose handlers are well-formed and carry only what is admitted    *)
(* keeps the invariant, whatever else it does.                              *)
LEMMA StepKeeps ==
  ASSUME AccountsInv, AccountsNext, outside' = outside,
         ops' = [q \in Proc |-> ops'[q]], rules' = [r \in RuleId |-> rules'[r]],
         \A q \in Proc : DOMAIN ops'[q] = Fields,
         \A q \in Proc :
           \/ Alike(ops[q], ops'[q])
           \/ ops'[q].pc \in {"done", "threw"}
           \/ Phase(ops'[q]) /\ Carries(ops'[q], admitted'[q])
  PROVE  AccountsInv'
<1>1. admitted' = [q \in Proc |-> admitted'[q]] /\ \A q \in Proc : Remembered(q)
  BY DEF AccountsNext, Remembered, Running
<1>2. Shaped' /\ NewcomersWereAllowed'
  BY <1>1 DEF AccountsInv, Shaped, NewcomersWereAllowed
<1>3. ASSUME NEW q \in Proc, Alike(ops[q], ops'[q]), Running(q)'
      PROVE  Phase(ops'[q]) /\ Carries(ops'[q], admitted'[q])
  <2>1. Running(q)
    BY <1>3 DEF Alike, Running
  <2>2. Phase(ops[q]) /\ Carries(ops[q], admitted[q]) /\ admitted[q] \subseteq admitted'[q]
    BY <1>1, <1>3, <2>1 DEF AccountsInv, Admission, Remembered
  <2>3. Phase(ops'[q])
    BY <1>3, <2>2 DEF Alike, Phase
  <2>4. Carries(ops'[q], admitted'[q])
    BY <1>3, <2>2 DEF Alike, Carries
  <2> QED BY <2>3, <2>4
<1>4. \A q \in Proc : Admission(q)'
  BY <1>3 DEF Admission, Running
<1> QED BY <1>2, <1>4 DEF AccountsInv

(* What a step finds and what it may leave behind.                          *)
LEMMA History ==
  ASSUME AccountsInv, AccountsNext, NEW p \in Proc, Running(p)'
  PROVE  /\ admitted[p] \subseteq admitted'[p]
         /\ Matching(Rules) \subseteq admitted'[p] /\ Matching(Rules)' \subseteq admitted'[p]
<1>1. Remembered(p)
  BY DEF AccountsNext, Remembered, Running
<1> QED BY <1>1 DEF Remembered

LEMMA Carried ==
  ASSUME AccountsInv, AccountsNext, NEW p \in Proc, Running(p), Running(p)'
  PROVE  Phase(ops[p]) /\ Carries(ops[p], admitted'[p])
<1>1. Phase(ops[p]) /\ Carries(ops[p], admitted[p]) /\ admitted[p] \subseteq admitted'[p]
  BY History DEF AccountsInv, Admission
<1> QED BY <1>1 DEF Carries

LEMMA IdleIsShaped == DOMAIN Idle = Fields /\ Idle.pc = "done"
BY DEF Idle, Fields

(* A handler that begins, or that comes to be on a user, leaves the others  *)
(* as they are but for a flag.                                              *)
LEMMA JoinKeepsShape ==
  ASSUME Shaped, NEW p \in Proc, NEW op, DOMAIN op = Fields, Join(p, op)
  PROVE  /\ ops' = [q \in Proc |-> ops'[q]] /\ \A q \in Proc : DOMAIN ops'[q] = Fields
         /\ \A q \in Proc \ {p} : Alike(ops[q], ops'[q])
         /\ Alike(op, ops'[p])
<1> DEFINE others == ((IF op.id = 0 THEN {} ELSE On(op.id)) \cup With(op.sub)) \ {p}
           mine   == [op EXCEPT !.alone = @ /\ others = {}]
           his(q) == IF q \in others THEN [ops[q] EXCEPT !.alone = FALSE] ELSE ops[q]
<1>1. ops' = [q \in Proc |-> IF q = p THEN mine ELSE his(q)]
  BY DEF Join
<1>2. Alike(op, mine)
  BY DEF Alike, Fields
<1>3. ASSUME NEW q \in Proc PROVE Alike(ops[q], his(q))
  BY DEF Alike, Fields, Shaped
<1> HIDE DEF mine, his
<1>4. ops'[p] = mine /\ \A q \in Proc \ {p} : ops'[q] = his(q)
  BY <1>1
<1> QED BY <1>1, <1>2, <1>3, <1>4 DEF Alike

LEMMA JoinKeeps ==
  ASSUME AccountsInv, AccountsNext, UNCHANGED <<rules, outside>>,
         NEW p \in Proc, NEW op, DOMAIN op = Fields, Join(p, op),
         Running(p)' => Phase(op) /\ Carries(op, admitted'[p])
  PROVE  AccountsInv'
<1>1. /\ ops' = [q \in Proc |-> ops'[q]] /\ \A q \in Proc : DOMAIN ops'[q] = Fields
      /\ \A q \in Proc \ {p} : Alike(ops[q], ops'[q])
      /\ Alike(op, ops'[p])
  BY JoinKeepsShape DEF AccountsInv
<1>2. \/ ops'[p].pc \in {"done", "threw"}
      \/ Phase(ops'[p]) /\ Carries(ops'[p], admitted'[p])
  BY <1>1 DEF Alike, Phase, Carries, Running
<1>3. rules' = [r \in RuleId |-> rules'[r]]
  BY DEF AccountsInv, Shaped
<1> QED BY <1>1, <1>2, <1>3, StepKeeps

LEMMA BeginKeeps ==
  ASSUME AccountsInv, AccountsNext, NEW p \in Proc, NEW op, DOMAIN op = Fields, Begin(p, op),
         Phase(op), Carries(op, Matching(Rules))
  PROVE  AccountsInv'
<1>1. Running(p)' => Carries(op, admitted'[p])
  BY History DEF Carries
<1> QED BY <1>1, JoinKeeps DEF Begin

(* A step of one handler's own leaves the others as they are.               *)
LEMMA OwnStepKeeps ==
  ASSUME AccountsInv, AccountsNext, outside' = outside, rules' = [r \in RuleId |-> rules'[r]],
         NEW p \in Proc, NEW o, DOMAIN o = Fields, ops' = [ops EXCEPT ![p] = o],
         Running(p)' => Phase(o) /\ Carries(o, admitted'[p])
  PROVE  AccountsInv'
<1>1. /\ ops' = [q \in Proc |-> ops'[q]]
      /\ ops'[p] = o /\ \A q \in Proc \ {p} : ops'[q] = ops[q]
  BY DEF AccountsInv, Shaped
<1>2. \A q \in Proc : DOMAIN ops'[q] = Fields
  BY <1>1 DEF AccountsInv, Shaped
<1>3. \A q \in Proc \ {p} : Alike(ops[q], ops'[q])
  BY <1>1, <1>2 DEF Alike
<1>4. \/ ops'[p].pc \in {"done", "threw"}
      \/ Phase(ops'[p]) /\ Carries(ops'[p], admitted'[p])
  BY <1>1 DEF Running
<1> QED BY <1>1, <1>2, <1>3, <1>4, StepKeeps

LEMMA EndKeeps ==
  ASSUME AccountsInv, AccountsNext, outside' = outside, rules' = [r \in RuleId |-> rules'[r]],
         NEW p \in Proc, End(p) \/ Throw(p)
  PROVE  AccountsInv'
<1>1. CASE End(p)
  <2>1. DOMAIN Idle = Fields /\ ops' = [ops EXCEPT ![p] = Idle] /\ ~ Running(p)'
    BY <1>1 DEF End, Idle, Fields, Running, AccountsInv, Shaped
  <2> QED BY <2>1, OwnStepKeeps
<1>2. CASE Throw(p)
  <2> DEFINE o == [Idle EXCEPT !.op = ops[p].op, !.pc = "threw"]
  <2>1. DOMAIN o = Fields /\ o.pc = "threw"
    BY DEF Idle, Fields
  <2>2. ops' = [ops EXCEPT ![p] = o]
    BY <1>2 DEF Throw
  <2>3. ~ Running(p)'
    BY <2>1, <2>2 DEF Running, AccountsInv, Shaped
  <2> HIDE DEF o
  <2> QED BY <2>1, <2>2, <2>3, OwnStepKeeps
<1> QED BY <1>1, <1>2

LEMMA GotoKeeps ==
  ASSUME AccountsInv, AccountsNext, UNCHANGED <<rules, outside>>,
         NEW p \in Proc, Running(p),
         NEW pc \in {"provision", "insert", "row", "idp", "remove"}, Goto(p, pc),
         pc \in {"provision", "insert"} =>
           ops[p].op \in {"create", "import"} /\ ops[p].email \in admitted[p],
         pc = "row" => ops[p].op = "import"
  PROVE  AccountsInv'
<1> DEFINE o == [ops[p] EXCEPT !.pc = pc]
<1>1. /\ DOMAIN o = Fields /\ o.pc = pc /\ o.op = ops[p].op /\ o.email = ops[p].email
      /\ o.rows = ops[p].rows /\ o.rules = ops[p].rules
  BY DEF AccountsInv, Shaped, Fields
<1>2. ops' = [ops EXCEPT ![p] = o] /\ rules' = [r \in RuleId |-> rules'[r]]
  BY DEF Goto, AccountsInv, Shaped
<1>3. ASSUME Running(p)' PROVE Phase(o) /\ Carries(o, admitted'[p])
  <2>1. Phase(ops[p]) /\ Carries(ops[p], admitted'[p]) /\ admitted[p] \subseteq admitted'[p]
    BY <1>3, Carried, History
  <2> HIDE DEF o
  <2>2. Phase(o)
    BY <1>1 DEF Phase
  <2>3. Carries(o, admitted'[p])
    BY <1>1, <2>1 DEF Carries
  <2> QED BY <2>2, <2>3
<1> HIDE DEF o
<1> QED BY <1>1, <1>2, <1>3, OwnStepKeeps

------------------------------------------------------------------------------
(* The steps at which a handler begins.                                     *)

LEMMA BeginningsKeep ==
  ASSUME AccountsInv, AccountsNext, NEW p \in Proc
  PROVE  /\ \A e \in Email, n \in Name : BeginCreate(p, e, n) => AccountsInv'
         /\ \A rows \in SUBSET Email, auto \in BOOLEAN : BeginImport(p, rows, auto) => AccountsInv'
         /\ \A i \in Id, op \in {"disable", "enable", "delete", "profile"} :
              \A n : BeginOn(p, op, i, n) => AccountsInv'
         /\ \A s \in Sub : BeginCallback(p, s) => AccountsInv'
         /\ \A r \in RuleId : BeginToggle(p, r) => AccountsInv'
<1>1. ASSUME NEW e \in Email, NEW n \in Name, BeginCreate(p, e, n) PROVE AccountsInv'
  <2> DEFINE o == [Idle EXCEPT !.op = "create", !.pc = "find", !.email = e, !.name = n]
  <2>1. DOMAIN o = Fields /\ o.op = "create" /\ o.pc = "find" /\ o.email = e
    BY DEF Idle, Fields
  <2>2. e \in Matching(Rules) /\ Begin(p, o)
    BY <1>1, MatchedIsMatching DEF BeginCreate
  <2> HIDE DEF o
  <2>3. Phase(o) /\ Carries(o, Matching(Rules))
    BY <2>1, <2>2 DEF Phase, Carries
  <2> QED BY <2>1, <2>2, <2>3, BeginKeeps
<1>2. ASSUME NEW rows \in SUBSET Email, NEW auto \in BOOLEAN, BeginImport(p, rows, auto)
      PROVE  AccountsInv'
  <2> DEFINE live == {r \in Rules : r.active}
             o == [Idle EXCEPT !.op = "import", !.pc = "row", !.rows = rows, !.flag = auto,
                               !.rules = live]
  <2>1. DOMAIN o = Fields /\ o.op = "import" /\ o.pc = "row" /\ o.rows = rows /\ o.rules = live
    BY DEF Idle, Fields
  <2>2. Matching(live) \subseteq Matching(Rules) /\ Begin(p, o)
    BY <1>2 DEF BeginImport, Matching
  <2> HIDE DEF o, live
  <2>3. Phase(o) /\ Carries(o, Matching(Rules))
    BY <2>1, <2>2 DEF Phase, Carries
  <2> QED BY <2>1, <2>2, <2>3, BeginKeeps
<1>3. ASSUME NEW i \in Id, NEW op \in {"disable", "enable", "delete", "profile"}, NEW n,
             BeginOn(p, op, i, n)
      PROVE  AccountsInv'
  <2> DEFINE call == /\ Provisioning /\ users[i].sub # None
                     /\ op = "profile" => n # users[i].name
             o == [Idle EXCEPT !.op = op, !.pc = "write", !.id = i, !.sub = users[i].sub,
                               !.name = n, !.flag = call]
  <2>1. DOMAIN o = Fields /\ o.op = op /\ o.pc = "write"
    BY DEF Idle, Fields
  <2>2. Begin(p, o)
    BY <1>3 DEF BeginOn
  <2> HIDE DEF o
  <2>3. Phase(o) /\ Carries(o, Matching(Rules))
    BY <2>1 DEF Phase, Carries
  <2> QED BY <2>1, <2>2, <2>3, BeginKeeps
<1>4. ASSUME NEW s \in Sub, BeginCallback(p, s) PROVE AccountsInv'
  <2> DEFINE o == [Idle EXCEPT !.op = "callback", !.pc = "lookup", !.sub = s,
                               !.email = idp[s].email, !.name = idp[s].name]
  <2>1. DOMAIN o = Fields /\ o.op = "callback" /\ o.pc = "lookup"
    BY DEF Idle, Fields
  <2>2. Begin(p, o)
    BY <1>4 DEF BeginCallback
  <2> HIDE DEF o
  <2>3. Phase(o) /\ Carries(o, Matching(Rules))
    BY <2>1 DEF Phase, Carries
  <2> QED BY <2>1, <2>2, <2>3, BeginKeeps
<1>5. ASSUME NEW r \in RuleId, BeginToggle(p, r) PROVE AccountsInv'
  <2> DEFINE o == [Idle EXCEPT !.op = "toggle", !.pc = "flip", !.name = r,
                               !.flag = ~ rules[r].active]
  <2>1. DOMAIN o = Fields /\ o.op = "toggle" /\ o.pc = "flip"
    BY DEF Idle, Fields
  <2>2. Begin(p, o)
    BY <1>5 DEF BeginToggle
  <2> HIDE DEF o
  <2>3. Phase(o) /\ Carries(o, Matching(Rules))
    BY <2>1 DEF Phase, Carries
  <2> QED BY <2>1, <2>2, <2>3, BeginKeeps
<1> QED BY <1>1, <1>2, <1>3, <1>4, <1>5

------------------------------------------------------------------------------
(* The steps of a creation and of an import.                                *)

(* A row goes on to a user only when the snapshot admits it; or else to a   *)
(* rule of its own, which admits it from then on.                           *)
LEMMA NextRowKeeps ==
  ASSUME AccountsInv, AccountsNext, NEW p \in Proc, NextRow(p) PROVE AccountsInv'
<1>1. CASE ops[p].rows = {}
  BY <1>1, EndKeeps DEF NextRow, AccountsInv, Shaped
<1>2. CASE ops[p].rows # {}
  <2>1. /\ Running(p) /\ ops[p].op = "import" /\ ops[p].rows \subseteq Email
        /\ Matching(ops[p].rules) \subseteq admitted[p]
    BY DEF NextRow, Running, AccountsInv, Admission, Phase, Carries
  <2>2. PICK e \in ops[p].rows :
          LET kept == [ops[p] EXCEPT !.rows = @ \ {e}, !.email = e]
              next == IF ByEmail(e) # 0 \/ ~ (MatchEmail(ops[p].rules, e) \/ ops[p].flag)
                      THEN "row" ELSE IF MatchEmail(ops[p].rules, e) THEN "provision" ELSE "rule"
          IN ops' = [ops EXCEPT ![p] = [kept EXCEPT !.pc = next]]
    BY <1>2 DEF NextRow
  <2> DEFINE kept == [ops[p] EXCEPT !.rows = @ \ {e}, !.email = e]
             next == IF ByEmail(e) # 0 \/ ~ (MatchEmail(ops[p].rules, e) \/ ops[p].flag)
                     THEN "row" ELSE IF MatchEmail(ops[p].rules, e) THEN "provision" ELSE "rule"
             o == [kept EXCEPT !.pc = next]
  <2>3. /\ DOMAIN o = Fields /\ o.op = "import" /\ o.pc = next /\ o.email = e
        /\ o.rows = ops[p].rows \ {e} /\ o.rules = ops[p].rules
    BY <2>1 DEF AccountsInv, Shaped, Fields
  <2>4. /\ ops' = [ops EXCEPT ![p] = o] /\ outside' = outside
        /\ rules' = [r \in RuleId |-> rules'[r]]
    BY <2>2 DEF NextRow, AccountsInv, Shaped
  <2>5. next \in {"row", "provision", "rule"} /\ e \in Email
        /\ (next = "provision" => e \in Matching(ops[p].rules))
    BY <2>1, MatchedIsMatching
  <2>6. Running(p)' => admitted[p] \subseteq admitted'[p]
    BY History
  <2> HIDE DEF o, next
  <2>7. Running(p)' => Phase(o) /\ Carries(o, admitted'[p])
    BY <2>1, <2>3, <2>5, <2>6 DEF Phase, Carries
  <2> QED BY <2>3, <2>4, <2>7, OwnStepKeeps
<1> QED BY <1>1, <1>2

LEMMA AutoRuleKeeps ==
  ASSUME AccountsInv, AccountsNext, NEW p \in Proc, AutoRule(p) PROVE AccountsInv'
<1> DEFINE new == [type |-> "exact", pattern |-> ops[p].email, active |-> TRUE]
           o == [ops[p] EXCEPT !.pc = "provision", !.rules = @ \cup {new}]
<1>1. Running(p) /\ Phase(ops[p]) /\ ops[p].op = "import" /\ ops[p].email \in Email
  BY DEF AutoRule, Running, AccountsInv, Admission, Phase, Carries
<1>2. /\ DOMAIN o = Fields /\ o.op = "import" /\ o.pc = "provision" /\ o.email = ops[p].email
      /\ o.rows = ops[p].rows /\ o.rules = ops[p].rules \cup {new}
  BY <1>1 DEF AccountsInv, Shaped, Fields
<1>3. PICK r \in RuleId : rules[r] = None /\ rules' = [rules EXCEPT ![r] = new]
  BY DEF AutoRule
<1>4. /\ ops' = [ops EXCEPT ![p] = o] /\ outside' = outside
      /\ rules' = [x \in RuleId |-> rules'[x]] /\ rules'[r] = new
  BY <1>3 DEF AutoRule, AccountsInv, Shaped
<1>5. new # None
  BY <1>1, NoneIsNoRule
<1>6. ops[p].email \in Matching(Rules)'
  BY <1>1, <1>4, <1>5 DEF Matching, Rules
<1>7. Matching(ops[p].rules \cup {new}) \subseteq Matching(ops[p].rules) \cup {ops[p].email}
  BY DEF Matching
<1>8. ASSUME Running(p)' PROVE Phase(o) /\ Carries(o, admitted'[p])
  <2>1. Carries(ops[p], admitted'[p]) /\ ops[p].email \in admitted'[p]
    BY <1>1, <1>6, <1>8, Carried, History
  <2> HIDE DEF o, new
  <2>2. Phase(o)
    BY <1>2 DEF Phase
  <2>3. Carries(o, admitted'[p])
    BY <1>1, <1>2, <1>7, <2>1 DEF Carries
  <2> QED BY <2>2, <2>3
<1> HIDE DEF o
<1> QED BY <1>2, <1>4, <1>8, OwnStepKeeps

LEMMA FindNoUserKeeps ==
  ASSUME AccountsInv, AccountsNext, NEW p \in Proc, FindNoUser(p) PROVE AccountsInv'
<1>1. Running(p) /\ ops[p].op = "create" /\ ops[p].email \in admitted[p]
      /\ UNCHANGED <<rules, outside>> /\ rules' = [r \in RuleId |-> rules'[r]]
  BY DEF FindNoUser, Running, AccountsInv, Admission, Phase, Carries, Shaped
<1>2. End(p) \/ Goto(p, "provision")
  BY DEF FindNoUser
<1> QED BY <1>1, <1>2, EndKeeps, GotoKeeps

LEMMA ProvisionKeeps ==
  ASSUME AccountsInv, AccountsNext, NEW p \in Proc, Provision(p) PROVE AccountsInv'
<1>1. Running(p) /\ ops[p].op \in {"create", "import"} /\ ops[p].email \in admitted[p]
      /\ UNCHANGED <<rules, outside>> /\ rules' = [r \in RuleId |-> rules'[r]]
  BY DEF Provision, Running, AccountsInv, Admission, Phase, Carries, Shaped
<1>2. CASE End(p) \/ Goto(p, "insert")
  BY <1>1, <1>2, EndKeeps, GotoKeeps
<1>3. CASE ops' = [ops EXCEPT ![p].pc = "insert", ![p].sub = issued + 1]
  <2> DEFINE o == [ops[p] EXCEPT !.pc = "insert", !.sub = issued + 1]
  <2>1. /\ DOMAIN o = Fields /\ o.pc = "insert" /\ o.op = ops[p].op /\ o.email = ops[p].email
        /\ o.rows = ops[p].rows /\ o.rules = ops[p].rules
    BY DEF AccountsInv, Shaped, Fields
  <2>2. ops' = [ops EXCEPT ![p] = o]
    BY <1>3 DEF AccountsInv, Shaped
  <2>3. ASSUME Running(p)' PROVE Phase(o) /\ Carries(o, admitted'[p])
    <3>1. Carries(ops[p], admitted'[p]) /\ admitted[p] \subseteq admitted'[p]
      BY <1>1, <2>3, Carried, History
    <3> HIDE DEF o
    <3> QED BY <1>1, <2>1, <3>1 DEF Phase, Carries
  <2> HIDE DEF o
  <2> QED BY <1>1, <2>1, <2>2, <2>3, OwnStepKeeps
<1> QED BY <1>2, <1>3 DEF Provision, Unprovisioned

(* The one step that makes a user: his email is among the admitted.         *)
LEMMA InsertKeeps ==
  ASSUME AccountsInv, AccountsNext, NEW p \in Proc, Insert(p) PROVE AccountsInv'
<1>1. Running(p) /\ ops[p].op \in {"create", "import"} /\ ops[p].email \in admitted[p]
      /\ rules' = [r \in RuleId |-> rules'[r]] /\ rules' = rules
  BY DEF Insert, Running, AccountsInv, Admission, Phase, Carries, Shaped
<1>2. outside' = outside
  BY <1>1 DEF Insert
<1> DEFINE o == [ops[p] EXCEPT !.pc = "row", !.sub = None, !.alone = TRUE]
<1>3. \/ Throw(p) \/ End(p)
      \/ ops' = [ops EXCEPT ![p] = o] /\ ops[p].op = "import"
  BY <1>1 DEF Insert, AccountsInv, Shaped
<1>4. CASE ops' = [ops EXCEPT ![p] = o] /\ ops[p].op = "import"
  <2>1. /\ DOMAIN o = Fields /\ o.pc = "row" /\ o.op = "import"
        /\ o.rows = ops[p].rows /\ o.rules = ops[p].rules
    BY <1>4 DEF AccountsInv, Shaped, Fields
  <2>2. ASSUME Running(p)' PROVE Phase(o) /\ Carries(o, admitted'[p])
    <3>1. Carries(ops[p], admitted'[p])
      BY <1>1, <2>2, Carried
    <3> HIDE DEF o
    <3> QED BY <1>4, <2>1, <3>1 DEF Phase, Carries
  <2> HIDE DEF o
  <2> QED BY <1>1, <1>2, <1>4, <2>1, <2>2, OwnStepKeeps
<1> QED BY <1>1, <1>2, <1>3, <1>4, EndKeeps

------------------------------------------------------------------------------
(* The steps that make no user.                                             *)

LEMMA OthersKeep ==
  ASSUME AccountsInv, AccountsNext, NEW p \in Proc,
         Write(p) \/ CallIdp(p) \/ Remove(p) \/ Link(p) \/ ToggleRule(p)
  PROVE  AccountsInv'
<1>1. Running(p) /\ outside' = outside
  BY DEF Write, CallIdp, Remove, Link, ToggleRule, Running
<1>2. rules' = [r \in RuleId |-> rules'[r]]
  BY DEF Write, CallIdp, Remove, Link, ToggleRule, AccountsInv, Shaped
<1>3. \/ End(p) \/ Throw(p)
      \/ UNCHANGED rules /\ \E pc \in {"idp", "remove"} : Goto(p, pc)
  BY DEF Write, CallIdp, Remove, Link, ToggleRule
<1> QED BY <1>1, <1>2, <1>3, EndKeeps, GotoKeeps

LEMMA LookUpKeeps ==
  ASSUME AccountsInv, AccountsNext, NEW p \in Proc, LookUp(p) PROVE AccountsInv'
<1> DEFINE i == IF ops[p].flag THEN ByEmail(ops[p].email) ELSE BySub(ops[p].sub)
           o == [ops[p] EXCEPT !.pc = "link", !.id = i, !.links = (users[i].sub = None), !.flag = FALSE,
                               !.name = IF @ = users[i].name THEN None ELSE @]
           missed == [ops[p] EXCEPT !.flag = TRUE]
<1>1. Running(p) /\ UNCHANGED <<rules, outside>> /\ rules' = [r \in RuleId |-> rules'[r]]
  BY DEF LookUp, Running, AccountsInv, Shaped
<1>2. CASE End(p)
  BY <1>1, <1>2, EndKeeps
<1>3. CASE Join(p, o)
  <2>1. /\ DOMAIN o = Fields /\ o.pc = "link" /\ o.op = ops[p].op
        /\ o.rows = ops[p].rows /\ o.rules = ops[p].rules
    BY DEF AccountsInv, Shaped, Fields
  <2>2. ASSUME Running(p)' PROVE Phase(o) /\ Carries(o, admitted'[p])
    <3>1. Carries(ops[p], admitted'[p])
      BY <1>1, <2>2, Carried
    <3> HIDE DEF o
    <3> QED BY <2>1, <3>1 DEF Phase, Carries
  <2> HIDE DEF o
  <2> QED BY <1>1, <1>3, <2>1, <2>2, JoinKeeps
<1>4. CASE ops' = [ops EXCEPT ![p].flag = TRUE]
  <2>1. /\ DOMAIN missed = Fields /\ missed.pc = ops[p].pc /\ missed.op = ops[p].op
        /\ missed.rows = ops[p].rows /\ missed.rules = ops[p].rules /\ missed.email = ops[p].email
    BY DEF AccountsInv, Shaped, Fields
  <2>2. ops' = [ops EXCEPT ![p] = missed]
    BY <1>4 DEF AccountsInv, Shaped
  <2>3. ASSUME Running(p)' PROVE Phase(missed) /\ Carries(missed, admitted'[p])
    <3>1. Phase(ops[p]) /\ Carries(ops[p], admitted'[p])
      BY <1>1, <2>3, Carried
    <3> HIDE DEF missed
    <3> QED BY <2>1, <3>1 DEF Phase, Carries
  <2> HIDE DEF missed
  <2> QED BY <1>1, <2>1, <2>2, <2>3, OwnStepKeeps
<1> QED BY <1>2, <1>3, <1>4 DEF LookUp

(* The rules, the provider and the death of the process.                    *)
LEMMA SurroundingsKeep ==
  ASSUME AccountsInv, AccountsNext,
         \/ \E type, pattern : CreateRule(type, pattern)
         \/ \E r \in RuleId : DeleteRule(r)
         \/ \E s \in Sub, n \in Name : RenameAtIdp(s, n)
         \/ CrashPortal
  PROVE  AccountsInv'
<1>1. outside' = outside /\ rules' = [r \in RuleId |-> rules'[r]]
  BY DEF CreateRule, DeleteRule, RenameAtIdp, CrashPortal, AccountsInv, Shaped
<1>2. CASE ops' = ops
  BY <1>1, <1>2, StepKeeps DEF Alike, AccountsInv, Shaped
<1>3. CASE \E s \in Sub, n \in Name : RenameAtIdp(s, n)
  <2>1. PICK s \in Sub :
          ops' = [q \in Proc |-> IF q \in With(s) THEN [ops[q] EXCEPT !.alone = FALSE] ELSE ops[q]]
    BY <1>3 DEF RenameAtIdp
  <2>2. \A q \in Proc : Alike(ops[q], ops'[q])
    BY <2>1 DEF Alike, Fields, AccountsInv, Shaped
  <2>3. ops' = [q \in Proc |-> ops'[q]] /\ \A q \in Proc : DOMAIN ops'[q] = Fields
    BY <2>1, <2>2 DEF Alike
  <2> QED BY <1>1, <2>2, <2>3, StepKeeps
<1>4. CASE CrashPortal
  <2>1. ops' = [q \in Proc |-> Idle]
    BY <1>4 DEF CrashPortal
  <2>2. ops' = [q \in Proc |-> ops'[q]] /\ \A q \in Proc : ops'[q] = Idle
    BY <2>1
  <2> QED BY <1>1, <2>2, IdleIsShaped, StepKeeps
<1> QED BY <1>2, <1>3, <1>4 DEF CreateRule, DeleteRule

LEMMA AccountsStepKeeps == AccountsInv /\ [AccountsNext]_avars => AccountsInv'
<1> SUFFICES ASSUME AccountsInv, [AccountsNext]_avars PROVE AccountsInv'
  OBVIOUS
<1>1. CASE UNCHANGED avars
  BY <1>1 DEF avars, AccountsInv, Shaped, Admission, Running, NewcomersWereAllowed
<1>2. CASE AccountsNext
  <2>1. AccountsStep
    BY <1>2 DEF AccountsNext
  <2>2. ASSUME NEW p \in Proc,
               \/ \E e \in Email, n \in Name : BeginCreate(p, e, n)
               \/ \E rows \in (SUBSET Email) \ {{}}, auto \in BOOLEAN : BeginImport(p, rows, auto)
               \/ \E i \in Id, op \in {"disable", "enable", "delete"} : BeginOn(p, op, i, None)
               \/ \E i \in Id, n \in Name : BeginOn(p, "profile", i, n)
               \/ \E s \in Sub : BeginCallback(p, s)
               \/ \E r \in RuleId : BeginToggle(p, r)
        PROVE  AccountsInv'
    BY <1>2, <2>2, BeginningsKeep
  <2>3. ASSUME NEW p \in Proc,
               \/ NextRow(p) \/ AutoRule(p) \/ FindNoUser(p) \/ Provision(p) \/ Insert(p)
               \/ Write(p) \/ CallIdp(p) \/ Remove(p) \/ LookUp(p) \/ Link(p) \/ ToggleRule(p)
        PROVE  AccountsInv'
    BY <1>2, <2>3, NextRowKeeps, AutoRuleKeeps, FindNoUserKeeps, ProvisionKeeps, InsertKeeps,
       OthersKeep, LookUpKeeps
  <2>4. CASE \/ \E type, pattern : CreateRule(type, pattern)
             \/ \E r \in RuleId : DeleteRule(r)
             \/ \E s \in Sub, n \in Name : RenameAtIdp(s, n)
             \/ CrashPortal
    BY <1>2, <2>4, SurroundingsKeep
  <2> QED BY <2>1, <2>2, <2>3, <2>4 DEF AccountsStep
<1> QED BY <1>1, <1>2

(* For any emails, rules, rosters and handlers, cut off or overlapping: an  *)
(* import that works on rules it read long ago, and a creation that checked *)
(* its email before it called the provider, make a user only of an email    *)
(* that an active rule has matched since they began.                        *)
THEOREM NobodyUninvited == AccountsSpec => []NewcomersWereAllowed
<1>1. AccountsInv => NewcomersWereAllowed
  BY DEF AccountsInv
<1> QED BY AccountsInitially, AccountsStepKeeps, <1>1, PTL DEF AccountsSpec

------------------------------------------------------------------------------
(* That the two sides agree.  The invariant below says of the stores what   *)
(* the indexes and the provider guarantee; of a handler, what it holds; of  *)
(* one that is alone, what it knows of its account and its user; and of a   *)
(* user who is not apart, that one handler at most is on him, and what that *)
(* handler still owes him.                                                  *)

Stores ==
  /\ users \in [Id -> UserDoc \cup {None}] /\ idp \in [Sub -> AccountDoc \cup {None}]
  /\ born \in Nat /\ issued \in Nat
  /\ \A i \in Users : i <= born /\ (users[i].sub # None => users[i].sub <= issued)
  /\ \A s \in Accounts : s <= issued
Unique ==
  /\ \A i, j \in Users : users[i].sub = users[j].sub /\ users[i].sub # None => i = j
  /\ \A s, t \in Accounts : idp[s].email = idp[t].email => s = t
  /\ \A i \in Users : users[i].sub \in Accounts => idp[users[i].sub].email = users[i].email

OnUser  == {"write", "idp", "remove", "link"}
OnClaim == {"insert", "lookup", "link"}
Held(p) ==
  /\ ops[p].sub \in Sub \cup {None} /\ (ops[p].sub # None => ops[p].sub <= issued)
  /\ ops[p].id # 0 => ops[p].id \in Id /\ ops[p].id <= born
  /\ ops[p].id # 0 <=> ops[p].pc \in OnUser
  /\ ops[p].sub # None => ops[p].pc \in OnUser \cup OnClaim
  /\ ops[p].pc \in {"lookup", "link", "idp"} => ops[p].sub # None
  /\ ops[p].pc = "write" /\ ops[p].flag => ops[p].sub # None
Typed(p) ==
  /\ ops[p].alone \in BOOLEAN
  /\ ops[p].pc \in OnClaim \cup {"find", "provision", "rule"} => ops[p].email \in Email
  /\ ops[p].rows \subseteq Email
  /\ ops[p].pc # "flip" => ops[p].name \in Name \cup {None}
  /\ ops[p].pc \in {"write", "idp"} =>
       /\ ops[p].op \in {"profile", "disable", "enable", "delete"}
       /\ ops[p].op = "profile" => ops[p].name \in Name
Claims(p) ==
  /\ ops[p].pc \in OnClaim /\ ops[p].sub \in Accounts => idp[ops[p].sub].email = ops[p].email
  /\ ops[p].pc = "link" /\ ops[p].links /\ ops[p].id \in Users
       => users[ops[p].id].email = ops[p].email

Only(p) == \A q \in Proc \ {p} : ops[q].pc # "lookup" => ops[q].sub # ops[p].sub
Trusts(p) ==
  /\ ops[p].sub \in Accounts /\ idp[ops[p].sub].suspended = FALSE /\ Only(p)
  /\ ops[p].pc \in {"insert", "lookup"} => idp[ops[p].sub].name = ops[p].name
  /\ ops[p].pc = "insert" => \A i \in Users : users[i].sub # ops[p].sub
KnowsUser(p) ==
  /\ \A q \in Proc \ {p} : ops[q].id # ops[p].id
  /\ ops[p].id \in Users /\ users[ops[p].id].status = "active"
  /\ ops[p].links <=> users[ops[p].id].sub = None
  /\ users[ops[p].id].email = ops[p].email \/ users[ops[p].id].sub = ops[p].sub
  /\ idp[ops[p].sub].name \in
       {IF ops[p].name = None THEN users[ops[p].id].name ELSE ops[p].name, None}
Sure(p)  == ops[p].pc \in OnClaim /\ ops[p].sub # None /\ ops[p].alone
Knows(p) == Sure(p) => Trusts(p) /\ (ops[p].pc = "link" => KnowsUser(p))

Agree(i) == users[i].sub # None =>
              /\ users[i].sub \in Accounts
              /\ idp[users[i].sub].suspended = (users[i].status = "disabled")
              /\ idp[users[i].sub].name \in {users[i].name, None}
Owed(p, i) ==
  /\ ops[p].pc # "link" => ops[p].sub = users[i].sub
  /\ ops[p].pc = "write" =>
       (ops[p].flag <=> users[i].sub # None /\ (ops[p].op = "profile" => ops[p].name # users[i].name))
  /\ ops[p].pc = "idp" =>
       /\ users[i].sub \in Accounts
       /\ ops[p].op = "profile" =>
            /\ users[i].name = ops[p].name
            /\ idp[users[i].sub].suspended = (users[i].status = "disabled")
       /\ ops[p].op \in {"disable", "enable"} =>
            /\ idp[users[i].sub].name \in {users[i].name, None}
            /\ (ops[p].op = "disable") = (users[i].status = "disabled")
OneOn(i) ==
  /\ \A p, q \in Proc : ops[p].id = i /\ ops[q].id = i => p = q
  /\ \A p \in Proc : users[i].sub # None /\ ops[p].sub = users[i].sub /\ ops[p].pc # "lookup"
                      => ops[p].id = i
InStep(i) ==
  /\ OneOn(i)
  /\ \A p \in Proc : ops[p].id = i => Owed(p, i)
  /\ (\A p \in Proc : ops[p].id = i => ops[p].pc \in {"write", "link"}) => Agree(i)

HandlersInv == \A p \in Proc : Held(p) /\ Typed(p) /\ Claims(p) /\ Knows(p)
IdentityInv == Stores /\ Unique /\ HandlersInv /\ \A i \in Users \ apart : InStep(i)

(* Whoever holds an account, or is linked to it, has its email, and has it  *)
(* still when the account is gone: so the callback's second look-up cannot  *)
(* find somebody else than the user who was linked behind its back.         *)
OnAccount(p) == ops[p].pc \in OnClaim /\ ops[p].sub # None
OneEmail == \A i, j \in Users : users[i].email = users[j].email => i = j
UserMail == \A p \in Proc, i \in Users :
              OnAccount(p) /\ users[i].sub = ops[p].sub => users[i].email = ops[p].email
PeerMail == \A p, q \in Proc :
              OnAccount(p) /\ OnAccount(q) /\ ops[p].sub = ops[q].sub => ops[p].email = ops[q].email
MailInv  == OneEmail /\ UserMail /\ PeerMail

(* The same handler, but that it may no longer be alone.                    *)
Dimmed(o, n) ==
  /\ n.op = o.op /\ n.pc = o.pc /\ n.id = o.id /\ n.email = o.email /\ n.name = o.name
  /\ n.sub = o.sub /\ n.rows = o.rows /\ n.flag = o.flag /\ n.links = o.links
  /\ n.alone \in BOOLEAN /\ (n.alone => o.alone)

Bystanders(p) == \A q \in Proc \ {p} : Dimmed(ops[q], ops'[q])

------------------------------------------------------------------------------
(* What the bystanders of a step keep.                                      *)

LEMMA DimmedHolds ==
  ASSUME NEW p \in Proc, Held(p), Typed(p), Dimmed(ops[p], ops'[p]),
         born \in Nat, born' \in Nat, issued \in Nat, issued' \in Nat,
         born <= born', issued <= issued'
  PROVE  Held(p)' /\ Typed(p)'
<1>1. \A s \in Sub \cup {None} : s # None => s \in Nat
  BY BoundsAssumption DEF Sub
<1>2. Held(p)'
  BY <1>1, BoundsAssumption DEF Held, Dimmed, Id
<1>3. Typed(p)'
  BY DEF Typed, Dimmed
<1> QED BY <1>2, <1>3

(* The claims of a handler outlast every step that changes no email.        *)
LEMMA DimmedClaims ==
  ASSUME NEW p \in Proc, Claims(p), Dimmed(ops[p], ops'[p]),
         ops[p].sub \in Accounts' =>
           ops[p].sub \in Accounts /\ idp'[ops[p].sub].email = idp[ops[p].sub].email,
         ops[p].id \in Users' =>
           ops[p].id \in Users /\ users'[ops[p].id].email = users[ops[p].id].email
  PROVE  Claims(p)'
BY DEF Claims, Dimmed

(* A bystander that is alone still knows what it knew.                      *)
LEMMA BystanderKnows ==
  ASSUME NEW p \in Proc, NEW q \in Proc \ {p}, Bystanders(p), Knows(q),
         Sure(q)' =>
           /\ idp'[ops[q].sub] = idp[ops[q].sub]
           /\ ops'[p].pc = "lookup" \/ ops'[p].sub # ops[q].sub
           /\ ops[q].pc = "insert" => \A i \in Users' : users'[i].sub # ops[q].sub
           /\ ops[q].pc = "link" => /\ users'[ops[q].id] = users[ops[q].id]
                                    /\ ops'[p].id # ops[q].id
  PROVE  Knows(q)'
<1> SUFFICES ASSUME Sure(q)'
             PROVE  (Trusts(q) /\ (ops[q].pc = "link" => KnowsUser(q)))'
  BY DEF Knows
<1>1. Dimmed(ops[q], ops'[q])
  BY DEF Bystanders
<1>2. Sure(q) /\ Trusts(q) /\ (ops[q].pc = "link" => KnowsUser(q))
  BY <1>1 DEF Knows, Sure, Dimmed
<1>3. Only(q)'
  <2>1. \A r \in Proc \ {q} : ops'[r].pc # "lookup" => ops'[r].sub # ops[q].sub
    BY <1>2 DEF Trusts, Only, Bystanders, Dimmed
  <2> QED BY <1>1, <2>1 DEF Only, Dimmed
<1>4. Trusts(q)'
  BY <1>1, <1>2, <1>3 DEF Trusts, Dimmed, Accounts
<1>5. ASSUME ops[q].pc = "link" PROVE KnowsUser(q)'
  <2>1. \A r \in Proc \ {q} : ops'[r].id # ops[q].id
    BY <1>2, <1>5 DEF KnowsUser, Bystanders, Dimmed
  <2> QED BY <1>1, <1>2, <1>5, <2>1 DEF KnowsUser, Dimmed, Users
<1> QED BY <1>1, <1>4, <1>5 DEF Dimmed

(* A user whom a step neither changes nor comes to or leaves.               *)
LEMMA UserKept ==
  ASSUME NEW p \in Proc, Bystanders(p), NEW i, InStep(i), \A q \in Proc : Held(q),
         users'[i] = users[i], users[i].sub # None => idp'[users[i].sub] = idp[users[i].sub],
         ops[p].id # i, ops'[p].id # i,
         users[i].sub # None => ops'[p].pc = "lookup" \/ ops'[p].sub # users[i].sub
  PROVE  InStep(i)'
<1>1. OneOn(i)'
  <2>1. \A q \in Proc : (ops'[q].id = i) => (ops[q].id = i)
    BY DEF Bystanders, Dimmed
  <2>2. ASSUME users[i].sub # None,
               NEW q \in Proc, ops'[q].sub = users[i].sub, ops'[q].pc # "lookup"
        PROVE  ops'[q].id = i
    BY <2>2 DEF Bystanders, Dimmed, InStep, OneOn
  <2> QED BY <2>1, <2>2 DEF InStep, OneOn
<1>2. ASSUME NEW q \in Proc, ops'[q].id = i PROVE Owed(q, i)'
  <2>1. Dimmed(ops[q], ops'[q]) /\ Owed(q, i) /\ Held(q) /\ ops[q].id = i
    BY <1>2 DEF Bystanders, Dimmed, InStep
  <2> QED BY <2>1 DEF Owed, Dimmed, Accounts, Held
<1>3. ASSUME \A q \in Proc : ops'[q].id = i => ops'[q].pc \in {"write", "link"}
      PROVE  Agree(i)'
  <2>1. \A q \in Proc : ops[q].id = i => ops[q].pc \in {"write", "link"}
    BY <1>3 DEF Bystanders, Dimmed
  <2> QED BY <2>1 DEF InStep, Agree, Accounts
<1> QED BY <1>1, <1>2, <1>3 DEF InStep

(* Who shares a user or an account: they are all running.                   *)
LEMMA Sharers ==
  ASSUME \A q \in Proc : Held(q)
  PROVE  /\ \A s : With(s) = {q \in Proc : s # None /\ ops[q].sub = s}
         /\ \A i : i # 0 => {q \in Proc : ops[q].id = i} \subseteq On(i)
BY DEF With, On, Held, Running, OnUser, OnClaim

(* A handler that comes to a user or an account: those it finds there are   *)
(* alone no more, and nor is it.                                            *)
LEMMA Joining ==
  ASSUME Shaped, \A q \in Proc : Held(q) /\ Typed(q), NEW p \in Proc, NEW op,
         DOMAIN op = Fields, op.alone \in BOOLEAN, Join(p, op)
  PROVE  /\ Bystanders(p) /\ Dimmed(op, ops'[p])
         /\ \A q \in Proc \ {p} :
              ops'[q].alone => /\ op.sub # None => ops[q].sub # op.sub
                               /\ op.id # 0 => ops[q].id # op.id
         /\ ops'[p].alone \/ (op.id # 0 /\ op.id \notin apart') =>
              \A q \in Proc \ {p} : /\ op.sub # None => ops[q].sub # op.sub
                                    /\ op.id # 0 => ops[q].id # op.id
         /\ apart \subseteq apart'
<1> DEFINE others == ((IF op.id = 0 THEN {} ELSE On(op.id)) \cup With(op.sub)) \ {p}
           mine   == [op EXCEPT !.alone = @ /\ others = {}]
           his(q) == IF q \in others THEN [ops[q] EXCEPT !.alone = FALSE] ELSE ops[q]
<1>1. /\ ops' = [q \in Proc |-> IF q = p THEN mine ELSE his(q)]
      /\ apart' = IF op.id = 0 \/ others = {} THEN apart ELSE apart \cup {op.id}
  BY DEF Join
<1>2. \A q \in Proc \ {p} : \/ op.sub # None /\ ops[q].sub = op.sub
                            \/ op.id # 0 /\ ops[q].id = op.id
                            => q \in others
  BY Sharers
<1> HIDE DEF others
<1>3. Dimmed(op, mine) /\ (mine.alone => others = {})
  BY DEF Dimmed, Fields
<1>4. ASSUME NEW q \in Proc PROVE Dimmed(ops[q], his(q)) /\ (his(q).alone => q \notin others)
  BY DEF Dimmed, Fields, Shaped, Typed
<1> HIDE DEF mine, his
<1>5. ops'[p] = mine /\ \A q \in Proc \ {p} : ops'[q] = his(q)
  BY <1>1
<1>6. Bystanders(p) /\ Dimmed(op, ops'[p])
  BY <1>3, <1>4, <1>5 DEF Bystanders
<1>7. \A q \in Proc \ {p} : ops'[q].alone => q \notin others
  BY <1>4, <1>5
<1>8. ops'[p].alone \/ (op.id # 0 /\ op.id \notin apart') => others = {}
  BY <1>1, <1>3, <1>5
<1>9. apart \subseteq apart'
  BY <1>1
<1> QED BY <1>2, <1>6, <1>7, <1>8, <1>9

(* A step of a handler that is on no user before it and on neither a user   *)
(* nor an account after it.                                                 *)
LEMMA Aside ==
  ASSUME IdentityInv, NEW p \in Proc, Bystanders(p), UNCHANGED <<users, born, idp, issued>>,
         apart \subseteq apart', ops[p].id = 0, ops'[p].id = 0, ops'[p].sub = None,
         ops'[p].pc \notin OnUser \cup {"lookup"}, Typed(p)'
  PROVE  IdentityInv'
<1>1. Stores' /\ Unique'
  BY DEF IdentityInv, Stores, Unique, Users, Accounts
<1>2. ASSUME NEW q \in Proc PROVE (Held(q) /\ Typed(q) /\ Claims(q) /\ Knows(q))'
  <2>1. CASE q = p
    <3>1. None \notin Sub
      BY NoneAssumption, BoundsAssumption DEF Sub
    <3>2. Held(p)' /\ Claims(p)' /\ Knows(p)'
      BY <3>1 DEF Held, Claims, Knows, Sure, Accounts, OnUser
    <3> QED BY <2>1, <3>2
  <2>2. CASE q # p
    <3>1. Dimmed(ops[q], ops'[q]) /\ Held(q) /\ Typed(q) /\ Claims(q) /\ Knows(q)
      BY <2>2 DEF Bystanders, IdentityInv, HandlersInv
    <3>2. Held(q)' /\ Typed(q)'
      BY <3>1, DimmedHolds DEF IdentityInv, Stores
    <3>3. Claims(q)'
      BY <3>1, DimmedClaims DEF Accounts, Users
    <3>4. Knows(q)'
      <4>1. Sure(q)' => Sure(q) /\ Trusts(q) /\ (ops[q].pc = "link" => ops[q].id # 0)
        BY <3>1 DEF Knows, Sure, Dimmed, Held, OnUser
      <4>2. Sure(q)' /\ ops[q].pc = "insert" => \A i \in Users' : users'[i].sub # ops[q].sub
        BY <4>1 DEF Trusts, Users
      <4> QED BY <2>2, <3>1, <4>1, <4>2, BystanderKnows DEF Sure
    <3> QED BY <3>1, <3>2, <3>3, <3>4
  <2> QED BY <2>1, <2>2
<1>3. ASSUME NEW i \in Users' \ apart' PROVE InStep(i)'
  <2>1. i # 0 /\ i \in Users \ apart
    BY BoundsAssumption DEF Users, Id
  <2> QED BY <2>1, UserKept DEF IdentityInv, HandlersInv
<1> QED BY <1>1, <1>2, <1>3 DEF IdentityInv, HandlersInv

(* A step of one handler's own.                                             *)
LEMMA OwnStep ==
  ASSUME Shaped, IdentityInv, NEW p \in Proc, NEW o, ops' = [ops EXCEPT ![p] = o]
  PROVE  ops'[p] = o /\ Bystanders(p)
BY DEF Shaped, Bystanders, Dimmed, IdentityInv, HandlersInv, Typed

LEMMA EndStep ==
  ASSUME Shaped, IdentityInv, NEW p \in Proc, End(p) \/ Throw(p)
  PROVE  /\ Bystanders(p) /\ ops'[p].id = 0 /\ ops'[p].sub = None /\ ops'[p].pc \in {"done", "threw"}
         /\ Held(p)' /\ Typed(p)' /\ Claims(p)' /\ Knows(p)'
<1> DEFINE o == IF End(p) THEN Idle ELSE [Idle EXCEPT !.op = ops[p].op, !.pc = "threw"]
<1>1. ops' = [ops EXCEPT ![p] = o]
  BY DEF End, Throw
<1>2. /\ o.id = 0 /\ o.sub = None /\ o.pc \in {"done", "threw"} /\ o.alone = TRUE /\ o.name = None
      /\ o.rows = {}
  BY DEF Idle
<1> HIDE DEF o
<1>3. ops'[p] = o /\ Bystanders(p)
  BY <1>1, OwnStep
<1>4. None \notin Sub
  BY NoneAssumption, BoundsAssumption DEF Sub
<1>5. Held(p)' /\ Typed(p)'
  BY <1>2, <1>3 DEF Held, Typed, OnUser, OnClaim
<1>6. Claims(p)' /\ Knows(p)'
  BY <1>2, <1>3 DEF Claims, Knows, Sure, OnClaim
<1> QED BY <1>2, <1>3, <1>5, <1>6

LEMMA EndAside ==
  ASSUME Shaped, IdentityInv, NEW p \in Proc, End(p) \/ Throw(p), ops[p].id = 0,
         UNCHANGED <<users, born, idp, issued>>, apart \subseteq apart'
  PROVE  IdentityInv'
BY EndStep, Aside DEF OnUser

(* A handler that begins on no user and no account.                         *)
LEMMA BeginAside ==
  ASSUME Shaped, IdentityInv, NEW p \in Proc, NEW op, DOMAIN op = Fields, Begin(p, op),
         op.id = 0, op.sub = None, op.alone = TRUE, op.pc \in {"find", "row", "flip"},
         op.pc = "find" => op.email \in Email /\ op.name \in Name \cup {None},
         op.rows \subseteq Email, op.pc = "row" => op.name = None
  PROVE  IdentityInv'
<1>1. Bystanders(p) /\ Dimmed(op, ops'[p]) /\ apart \subseteq apart'
  BY Joining DEF Begin, IdentityInv, HandlersInv
<1>2. ops[p].id = 0
  BY DEF Begin, Running, IdentityInv, HandlersInv, Held, OnUser
<1>3. Typed(p)'
  BY <1>1 DEF Typed, Dimmed, OnClaim
<1> QED BY <1>1, <1>2, <1>3, Aside DEF Begin, Dimmed, OnUser

LEMMA BeginningsAside ==
  ASSUME Shaped, IdentityInv, NEW p \in Proc
  PROVE  /\ \A e \in Email, n \in Name : BeginCreate(p, e, n) => IdentityInv'
         /\ \A rows \in SUBSET Email, auto \in BOOLEAN : BeginImport(p, rows, auto) => IdentityInv'
         /\ \A r \in RuleId : BeginToggle(p, r) => IdentityInv'
<1>1. ASSUME NEW e \in Email, NEW n \in Name, BeginCreate(p, e, n) PROVE IdentityInv'
  <2> DEFINE o == [Idle EXCEPT !.op = "create", !.pc = "find", !.email = e, !.name = n]
  <2>1. /\ DOMAIN o = Fields /\ o.id = 0 /\ o.sub = None /\ o.alone = TRUE /\ o.pc = "find"
        /\ o.email = e /\ o.name = n /\ o.rows = {}
    BY DEF Idle, Fields
  <2>2. Begin(p, o)
    BY <1>1 DEF BeginCreate
  <2> HIDE DEF o
  <2> QED BY <2>1, <2>2, BeginAside
<1>2. ASSUME NEW rows \in SUBSET Email, NEW auto \in BOOLEAN, BeginImport(p, rows, auto)
      PROVE  IdentityInv'
  <2> DEFINE live == {r \in Rules : r.active}
             o == [Idle EXCEPT !.op = "import", !.pc = "row", !.rows = rows, !.flag = auto,
                               !.rules = live]
  <2>1. /\ DOMAIN o = Fields /\ o.id = 0 /\ o.sub = None /\ o.alone = TRUE /\ o.pc = "row"
        /\ o.rows = rows /\ o.name = None
    BY DEF Idle, Fields
  <2>2. Begin(p, o)
    BY <1>2 DEF BeginImport
  <2> HIDE DEF o
  <2> QED BY <2>1, <2>2, BeginAside
<1>3. ASSUME NEW r \in RuleId, BeginToggle(p, r) PROVE IdentityInv'
  <2> DEFINE o == [Idle EXCEPT !.op = "toggle", !.pc = "flip", !.name = r,
                               !.flag = ~ rules[r].active]
  <2>1. /\ DOMAIN o = Fields /\ o.id = 0 /\ o.sub = None /\ o.alone = TRUE /\ o.pc = "flip"
        /\ o.rows = {}
    BY DEF Idle, Fields
  <2>2. Begin(p, o)
    BY <1>3 DEF BeginToggle
  <2> HIDE DEF o
  <2> QED BY <2>1, <2>2, BeginAside
<1> QED BY <1>1, <1>2, <1>3

------------------------------------------------------------------------------
(* A creation and an import.                                                *)

(* A handler that goes on to a step at which it is on nobody.               *)
LEMMA GoesOn ==
  ASSUME Shaped, IdentityInv, NEW p \in Proc, NEW pc \in {"provision", "insert", "remove", "idp"},
         Goto(p, pc)
  PROVE  /\ Bystanders(p) /\ ops'[p].pc = pc /\ ops'[p].id = ops[p].id /\ ops'[p].sub = ops[p].sub
         /\ ops'[p].email = ops[p].email /\ ops'[p].name = ops[p].name /\ ops'[p].op = ops[p].op
         /\ ops'[p].alone = ops[p].alone /\ ops'[p].rows = ops[p].rows
<1> DEFINE o == [ops[p] EXCEPT !.pc = pc]
<1>1. /\ o.pc = pc /\ o.id = ops[p].id /\ o.sub = ops[p].sub /\ o.email = ops[p].email
      /\ o.name = ops[p].name /\ o.op = ops[p].op /\ o.alone = ops[p].alone
      /\ o.rows = ops[p].rows
  BY DEF Shaped, Fields
<1>2. ops' = [ops EXCEPT ![p] = o]
  BY DEF Goto, Shaped
<1> HIDE DEF o
<1>3. ops'[p] = o /\ Bystanders(p)
  BY <1>2, OwnStep
<1> QED BY <1>1, <1>3

LEMMA GoesOnAside ==
  ASSUME Shaped, IdentityInv, NEW p \in Proc, NEW pc \in {"provision", "insert"}, Goto(p, pc),
         ops[p].pc \in {"find", "provision"},
         UNCHANGED <<users, born, idp, issued>>, apart \subseteq apart'
  PROVE  IdentityInv'
<1>1. Held(p) /\ Typed(p)
  BY DEF IdentityInv, HandlersInv
<1>2. Typed(p)'
  BY <1>1, GoesOn DEF Typed, OnClaim
<1> QED BY <1>1, <1>2, GoesOn, Aside DEF Held, OnUser, OnClaim

LEMMA FindNoUserAside ==
  ASSUME Shaped, IdentityInv, NEW p \in Proc, FindNoUser(p) PROVE IdentityInv'
<1>1. ops[p].id = 0
  BY DEF FindNoUser, IdentityInv, HandlersInv, Held, OnUser
<1> QED BY <1>1, EndAside, GoesOnAside DEF FindNoUser

LEMMA ToggleAside ==
  ASSUME Shaped, IdentityInv, NEW p \in Proc, ToggleRule(p) PROVE IdentityInv'
<1>1. ops[p].id = 0
  BY DEF ToggleRule, IdentityInv, HandlersInv, Held, OnUser
<1> QED BY <1>1, EndAside DEF ToggleRule

LEMMA NextRowAside ==
  ASSUME Shaped, IdentityInv, NEW p \in Proc, NextRow(p) PROVE IdentityInv'
<1>1. /\ ops[p].pc = "row" /\ ops[p].id = 0 /\ ops[p].sub = None /\ ops[p].rows \subseteq Email
      /\ ops[p].name \in Name \cup {None} /\ ops[p].alone \in BOOLEAN /\ ops[p].rows \subseteq Email
  BY DEF NextRow, IdentityInv, HandlersInv, Held, Typed, OnUser, OnClaim
<1>2. CASE ops[p].rows = {}
  BY <1>1, <1>2, EndAside DEF NextRow
<1>3. CASE ops[p].rows # {}
  <2>1. PICK e \in ops[p].rows, next \in {"row", "provision", "rule"} :
          ops' = [ops EXCEPT ![p] = [[ops[p] EXCEPT !.rows = @ \ {e}, !.email = e] EXCEPT !.pc = next]]
    BY <1>3 DEF NextRow
  <2> DEFINE o == [[ops[p] EXCEPT !.rows = @ \ {e}, !.email = e] EXCEPT !.pc = next]
  <2>2. /\ o.pc = next /\ o.id = 0 /\ o.sub = None /\ o.email = e /\ o.name = ops[p].name
        /\ o.rows = ops[p].rows \ {e} /\ o.alone = ops[p].alone
    BY <1>1 DEF Shaped, Fields
  <2>3. ops' = [ops EXCEPT ![p] = o]
    BY <2>1
  <2> HIDE DEF o
  <2>4. ops'[p] = o /\ Bystanders(p)
    BY <2>3, OwnStep
  <2>5. Typed(p)'
    BY <1>1, <2>2, <2>4 DEF Typed, OnClaim
  <2> QED BY <1>1, <2>2, <2>4, <2>5, Aside DEF NextRow, OnUser
<1> QED BY <1>2, <1>3

LEMMA AutoRuleAside ==
  ASSUME Shaped, IdentityInv, NEW p \in Proc, AutoRule(p) PROVE IdentityInv'
<1> DEFINE new == [type |-> "exact", pattern |-> ops[p].email, active |-> TRUE]
           o == [ops[p] EXCEPT !.pc = "provision", !.rules = @ \cup {new}]
<1>1. /\ ops[p].pc = "rule" /\ ops[p].id = 0 /\ ops[p].sub = None /\ ops[p].email \in Email
      /\ ops[p].name \in Name \cup {None} /\ ops[p].alone \in BOOLEAN /\ ops[p].rows \subseteq Email
  BY DEF AutoRule, IdentityInv, HandlersInv, Held, Typed, OnUser, OnClaim
<1>2. /\ o.pc = "provision" /\ o.id = 0 /\ o.sub = None /\ o.email = ops[p].email
      /\ o.name = ops[p].name /\ o.alone = ops[p].alone /\ o.rows = ops[p].rows
  BY <1>1 DEF Shaped, Fields
<1>3. ops' = [ops EXCEPT ![p] = o]
  BY DEF AutoRule, Shaped
<1> HIDE DEF o
<1>4. ops'[p] = o /\ Bystanders(p)
  BY <1>3, OwnStep
<1>5. Typed(p)'
  BY <1>1, <1>2, <1>4 DEF Typed, OnClaim
<1> QED BY <1>1, <1>2, <1>4, <1>5, Aside DEF AutoRule, OnUser

(* The new account is nobody's: its handler is alone with it.               *)
LEMMA ProvisionIdentity ==
  ASSUME Shaped, IdentityInv, NEW p \in Proc, Provision(p) PROVE IdentityInv'
<1>1. /\ ops[p].pc = "provision" /\ ops[p].id = 0 /\ ops[p].sub = None /\ ops[p].email \in Email
      /\ ops[p].name \in Name \cup {None} /\ ops[p].alone \in BOOLEAN /\ ops[p].rows \subseteq Email
  BY DEF Provision, IdentityInv, HandlersInv, Held, Typed, OnUser, OnClaim
<1>2. CASE UNCHANGED <<idp, issued>> /\ (End(p) \/ Goto(p, "insert"))
  BY <1>1, <1>2, EndAside, GoesOnAside DEF Provision
<1>3. CASE ~ UNCHANGED <<idp, issued>>
  <2> DEFINE s == issued + 1
             account == [email |-> ops[p].email, name |-> ops[p].name, suspended |-> FALSE]
             o == [ops[p] EXCEPT !.pc = "insert", !.sub = s]
  <2>1. /\ UNCHANGED <<users, born, apart>> /\ s \in Sub /\ issued' = s
        /\ idp' = [idp EXCEPT ![s] = account] /\ \A x \in Accounts : idp[x].email # ops[p].email
        /\ End(p) \/ Goto(p, "insert") \/ ops' = [ops EXCEPT ![p].pc = "insert", ![p].sub = s]
    BY <1>3 DEF Provision, Unprovisioned
  <2>2. Stores /\ Unique /\ s \in Nat /\ issued < s /\ s # None /\ idp[s] = None
    BY <2>1, NoneAssumption DEF IdentityInv, Stores, Accounts
  <2>3. /\ account \in AccountDoc /\ account # None /\ idp'[s] = account
        /\ \A x \in Sub \ {s} : idp'[x] = idp[x]
        /\ Accounts' = Accounts \cup {s}
    <3>1. account \in AccountDoc
      BY <1>1 DEF AccountDoc
    <3> HIDE DEF account
    <3>2. account \in AccountDoc /\ account # None
      BY <3>1, NoneAssumption
    <3>3. idp'[s] = account /\ \A x \in Sub \ {s} : idp'[x] = idp[x]
      BY <2>1, <2>2 DEF Stores
    <3> QED BY <2>1, <3>2, <3>3 DEF Accounts
  <2>4. /\ \A i \in Users : users[i].sub # s
        /\ \A q \in Proc : ops[q].sub # s
    BY <2>2 DEF IdentityInv, HandlersInv, Held, Stores
  <2> HIDE DEF account
  <2>5. Stores'
    <3>1. idp' \in [Sub -> AccountDoc \cup {None}]
      BY <2>1, <2>2, <2>3 DEF Stores
    <3>2. \A x \in Accounts' : x <= issued'
      BY <2>1, <2>2, <2>3, BoundsAssumption DEF Stores, Accounts, Sub
    <3>3. \A i \in Users' : users'[i].sub # None => users'[i].sub <= issued'
      <4>1. \A i \in Users : users[i].sub # None => users[i].sub \in Nat
        BY <2>2, BoundsAssumption, NoneAssumption DEF Stores, UserDoc, Sub, Users
      <4> QED BY <2>1, <2>2, <4>1 DEF Stores, Users
    <3> QED BY <2>1, <2>2, <3>1, <3>2, <3>3 DEF Stores, Users
  <2>6. Unique'
    <3>1. \A x \in Accounts : idp'[x] = idp[x] /\ idp[x].email # account.email /\ x # s
      BY <2>1, <2>2, <2>3 DEF Accounts, account
    <3>2. Users' = Users
      BY <2>1 DEF Users
    <3>3. \A x, y \in Accounts' : idp'[x].email = idp'[y].email => x = y
      BY <2>2, <2>3, <3>1 DEF Unique
    <3>4. \A i \in Users : users[i].sub \in Accounts' => idp'[users[i].sub].email = users[i].email
      BY <2>2, <2>3, <2>4, <3>1 DEF Unique
    <3> QED BY <2>1, <2>2, <3>2, <3>3, <3>4 DEF Unique
  <2>7. /\ Bystanders(p) /\ ops'[p].id = 0 /\ ops'[p].sub \in {None, s}
        /\ Held(p)' /\ Typed(p)' /\ Claims(p)'
        /\ ops'[p].sub = s => ops'[p].pc = "insert" /\ ops'[p].name = ops[p].name
    <3>1. None \notin Sub
      BY NoneAssumption, BoundsAssumption DEF Sub
    <3>2. CASE End(p)
      BY <2>2, <3>2, EndStep
    <3>3. CASE Goto(p, "insert")
      <4>1. /\ Bystanders(p) /\ ops'[p].pc = "insert" /\ ops'[p].id = 0 /\ ops'[p].sub = None
            /\ ops'[p].email = ops[p].email /\ ops'[p].name = ops[p].name
            /\ ops'[p].alone = ops[p].alone /\ ops'[p].rows = ops[p].rows
        BY <1>1, <3>3, GoesOn
      <4> QED BY <1>1, <2>2, <3>1, <4>1 DEF Held, Typed, Claims, OnUser, OnClaim, Accounts
    <3>4. CASE ops' = [ops EXCEPT ![p].pc = "insert", ![p].sub = s]
      <4>1. /\ o.pc = "insert" /\ o.id = 0 /\ o.sub = s /\ o.email = ops[p].email
            /\ o.name = ops[p].name /\ o.alone = ops[p].alone /\ o.rows = ops[p].rows
        BY <1>1 DEF Shaped, Fields
      <4>2. ops' = [ops EXCEPT ![p] = o]
        BY <3>4 DEF Shaped
      <4> HIDE DEF o
      <4>3. ops'[p] = o /\ Bystanders(p)
        BY <4>2, OwnStep
      <4>4. account.email = ops[p].email
        BY DEF account
      <4> QED BY <1>1, <2>1, <2>2, <2>3, <4>1, <4>3, <4>4
              DEF Held, Typed, Claims, OnUser, OnClaim
    <3> QED BY <2>1, <3>2, <3>3, <3>4
  <2>8. Knows(p)'
    <3>1. SUFFICES ASSUME Sure(p)' PROVE Trusts(p)' /\ ops'[p].pc = "insert"
      BY DEF Knows
    <3>2. ops'[p].sub = s /\ ops'[p].pc = "insert" /\ ops'[p].name = ops[p].name
      BY <2>7, <3>1 DEF Sure
    <3>3. Only(p)'
      BY <2>4, <2>7, <3>2 DEF Only, Bystanders, Dimmed
    <3>4. account.name = ops[p].name /\ account.suspended = FALSE
      BY DEF account
    <3> QED BY <2>1, <2>3, <2>4, <3>2, <3>3, <3>4 DEF Trusts, Users
  <2>9. ASSUME NEW q \in Proc \ {p} PROVE (Held(q) /\ Typed(q) /\ Claims(q) /\ Knows(q))'
    <3>1. Dimmed(ops[q], ops'[q]) /\ Held(q) /\ Typed(q) /\ Claims(q) /\ Knows(q)
      BY <2>7 DEF Bystanders, IdentityInv, HandlersInv
    <3>2. Held(q)' /\ Typed(q)'
      BY <2>1, <2>2, <3>1, DimmedHolds DEF Stores
    <3>3. Claims(q)'
      BY <2>1, <2>3, <2>4, <3>1, DimmedClaims DEF Users, Accounts
    <3>4. Knows(q)'
      <4>1. Sure(q)' => Sure(q) /\ Trusts(q) /\ (ops[q].pc = "link" => ops[q].id # 0)
        BY <3>1 DEF Knows, Sure, Dimmed, Held, OnUser
      <4>2. Sure(q)' /\ ops[q].pc = "insert" => \A i \in Users' : users'[i].sub # ops[q].sub
        BY <2>1, <4>1 DEF Trusts, Users
      <4>3. Sure(q)' => idp'[ops[q].sub] = idp[ops[q].sub] /\ ops'[p].sub # ops[q].sub
        BY <2>3, <2>4, <2>7, <4>1 DEF Trusts, Accounts, Sure
      <4>4. Sure(q)' /\ ops[q].pc = "link" => /\ users'[ops[q].id] = users[ops[q].id]
                                              /\ ops'[p].id # ops[q].id
        BY <2>1, <2>7, <4>1
      <4> QED BY <2>7, <3>1, <4>2, <4>3, <4>4, BystanderKnows
    <3> QED BY <3>2, <3>3, <3>4
  <2>10. ASSUME NEW i \in Users' \ apart' PROVE InStep(i)'
    <3>1. i # 0 /\ i \in Users \ apart /\ users[i].sub \in Sub \cup {None}
      BY <2>1, <2>2, NoneAssumption, BoundsAssumption DEF Users, Id, Stores, UserDoc
    <3>2. users[i].sub # None => idp'[users[i].sub] = idp[users[i].sub] /\ ops'[p].sub # users[i].sub
      BY <2>3, <2>4, <2>7, <3>1
    <3> QED BY <1>1, <2>1, <2>7, <3>1, <3>2, UserKept DEF IdentityInv, HandlersInv
  <2> QED BY <2>5, <2>6, <2>7, <2>8, <2>9, <2>10 DEF IdentityInv, HandlersInv
<1>4. UNCHANGED issued => End(p) \/ Goto(p, "insert")
  <2>1. issued + 1 # issued
    BY DEF IdentityInv, Stores
  <2> QED BY <2>1 DEF Provision, Unprovisioned
<1> QED BY <1>2, <1>3, <1>4

(* The new user is on the account that his handler was alone with, or apart.*)
LEMMA InsertIdentity ==
  ASSUME Shaped, IdentityInv, NEW p \in Proc, Insert(p) PROVE IdentityInv'
<1> DEFINE s == ops[p].sub
           user == [email |-> ops[p].email, sub |-> s, name |-> ops[p].name, status |-> "active"]
           o == [ops[p] EXCEPT !.pc = "row", !.sub = None, !.alone = TRUE]
<1>1. /\ ops[p].pc = "insert" /\ ops[p].id = 0 /\ ops[p].email \in Email
      /\ ops[p].name \in Name \cup {None} /\ s \in Sub \cup {None} /\ (s # None => s <= issued)
      /\ Claims(p) /\ Knows(p) /\ UNCHANGED <<idp, issued>>
  BY DEF Insert, IdentityInv, HandlersInv, Held, Typed, OnUser, OnClaim
<1>2. CASE Throw(p) /\ UNCHANGED <<users, born, apart>>
  BY <1>1, <1>2, EndAside
<1>3. CASE ~ (Throw(p) /\ UNCHANGED <<users, born, apart>>)
  <2>1. PICK i \in Id : i = born + 1
    BY <1>3 DEF Insert
  <2>2. /\ i \in Id /\ born' = i /\ users' = [users EXCEPT ![i] = user]
        /\ \A j \in Users : users[j].sub = s => s = None
        /\ apart' = IF ops[p].alone THEN apart ELSE apart \cup {i}
        /\ End(p) \/ ops' = [ops EXCEPT ![p].pc = "row", ![p].sub = None, ![p].alone = TRUE]
    BY <1>3, <2>1 DEF Insert
  <2>3. Stores /\ Unique /\ born \in Nat /\ i \in Nat /\ born < i
    BY <2>1 DEF IdentityInv, Stores
  <2>4. user \in UserDoc
    BY <1>1 DEF UserDoc
  <2>5. user.email = ops[p].email /\ user.sub = s /\ user.name = ops[p].name /\ user.status = "active"
    OBVIOUS
  <2> HIDE DEF user
  <2>6. /\ users'[i] = user /\ (\A j \in Id \ {i} : users'[j] = users[j]) /\ user # None
        /\ i \notin Users /\ Users' = Users \cup {i} /\ Accounts' = Accounts
    <3>1. user # None /\ i \notin Users
      BY <2>3, <2>4, NoneAssumption DEF Stores
    <3>2. users'[i] = user /\ \A j \in Id \ {i} : users'[j] = users[j]
      BY <2>2, <2>3 DEF Stores
    <3> QED BY <1>1, <2>2, <3>1, <3>2 DEF Users, Accounts
  <2>7. Stores'
    <3>1. users' \in [Id -> UserDoc \cup {None}]
      BY <2>2, <2>3, <2>4 DEF Stores
    <3>2. \A j \in Users' : j <= born' /\ (users'[j].sub # None => users'[j].sub <= issued')
      BY <1>1, <2>2, <2>3, <2>5, <2>6, BoundsAssumption DEF Stores, Users, Id
    <3> QED BY <1>1, <2>2, <2>3, <2>6, <3>1, <3>2 DEF Stores
  <2>8. Unique'
    <3>1. \A j \in Users : users'[j] = users[j]
      BY <2>6 DEF Users
    <3>2. \A j, k \in Users' : users'[j].sub = users'[k].sub /\ users'[j].sub # None => j = k
      BY <2>2, <2>3, <2>5, <2>6, <3>1 DEF Unique
    <3>3. s \in Accounts => idp[s].email = user.email
      BY <1>1, <2>5 DEF Claims, OnClaim
    <3>4. \A j \in Users' : users'[j].sub \in Accounts => idp[users'[j].sub].email = users'[j].email
      BY <2>3, <2>5, <2>6, <3>1, <3>3 DEF Unique
    <3> QED BY <1>1, <2>3, <2>6, <3>2, <3>4 DEF Unique
  <2>9. /\ Bystanders(p) /\ ops'[p].id = 0 /\ ops'[p].sub = None
        /\ Held(p)' /\ Typed(p)' /\ Claims(p)' /\ Knows(p)'
    <3>1. CASE End(p)
      BY <3>1, EndStep
    <3>2. CASE ops' = [ops EXCEPT ![p].pc = "row", ![p].sub = None, ![p].alone = TRUE]
      <4>1. /\ o.pc = "row" /\ o.id = 0 /\ o.sub = None /\ o.email = ops[p].email
            /\ o.rows = ops[p].rows /\ o.name = ops[p].name /\ o.alone = TRUE
        BY <1>1 DEF Shaped, Fields
      <4>2. ops' = [ops EXCEPT ![p] = o]
        BY <3>2 DEF Shaped
      <4> HIDE DEF o
      <4>3. ops'[p] = o /\ Bystanders(p)
        BY <4>2, OwnStep
      <4>4. Held(p)' /\ Claims(p)' /\ Knows(p)'
        BY <4>1, <4>3 DEF Held, Claims, Knows, Sure, OnUser, OnClaim
      <4>5. ops[p].rows \subseteq Email
        BY <1>1 DEF IdentityInv, HandlersInv, Typed
      <4>6. Typed(p)'
        BY <1>1, <4>1, <4>3, <4>5 DEF Typed, OnClaim
      <4> QED BY <4>1, <4>3, <4>4, <4>6
    <3> QED BY <2>2, <3>1, <3>2
  <2>10. ASSUME NEW q \in Proc \ {p} PROVE (Held(q) /\ Typed(q) /\ Claims(q) /\ Knows(q))'
    <3>1. /\ Dimmed(ops[q], ops'[q]) /\ Held(q) /\ Typed(q) /\ Claims(q) /\ Knows(q)
          /\ ops[q].id # i
      BY <2>3, <2>9 DEF Bystanders, IdentityInv, HandlersInv, Held
    <3>2. Held(q)' /\ Typed(q)'
      BY <1>1, <2>2, <2>3, <3>1, DimmedHolds DEF Stores
    <3>3. Claims(q)'
      BY <1>1, <2>6, <3>1, DimmedClaims DEF Users
    <3>4. Knows(q)'
      <4>1. Sure(q)' => Sure(q) /\ Trusts(q) /\ (ops[q].pc = "link" => KnowsUser(q) /\ ops[q].id # 0)
        BY <3>1 DEF Knows, Sure, Dimmed, Held, OnUser
      <4>2. Sure(q)' => s # ops[q].sub
        BY <1>1, <4>1 DEF Trusts, Only
      <4>3. Sure(q)' /\ ops[q].pc = "insert" => \A j \in Users' : users'[j].sub # ops[q].sub
        BY <2>5, <2>6, <4>1, <4>2 DEF Trusts, Users
      <4>4. Sure(q)' /\ ops[q].pc = "link" => /\ users'[ops[q].id] = users[ops[q].id]
                                              /\ ops'[p].id # ops[q].id
        BY <2>6, <2>9, <3>1, <4>1 DEF KnowsUser, Users
      <4>5. Sure(q)' => ops'[p].sub # ops[q].sub
        BY <2>9, <4>1 DEF Sure
      <4> QED BY <1>1, <2>9, <3>1, <4>3, <4>4, <4>5, BystanderKnows
    <3> QED BY <3>2, <3>3, <3>4
  <2>11. ASSUME NEW j \in Users' \ apart', j # i PROVE InStep(j)'
    <3>1. j # 0 /\ j \in Users \ apart /\ users'[j] = users[j]
      BY <2>2, <2>6, <2>11, BoundsAssumption DEF Users, Id
    <3> QED BY <1>1, <2>9, <3>1, UserKept DEF IdentityInv, HandlersInv
  <2>12. ASSUME i \notin apart' PROVE InStep(i)'
    <3>1. ops[p].alone /\ (s # None => Trusts(p))
      BY <1>1, <2>2, <2>12 DEF Knows, Sure, OnClaim
    <3>2. \A q \in Proc : ops'[q].id # i
      <4>1. \A q \in Proc : ops[q].id # i
        BY <1>1, <2>3 DEF IdentityInv, HandlersInv, Held
      <4> QED BY <1>1, <2>3, <2>9, <4>1 DEF Bystanders, Dimmed
    <3>3. ASSUME s # None, NEW q \in Proc, ops'[q].sub = s PROVE ops'[q].pc = "lookup"
      BY <1>1, <2>9, <3>1, <3>3 DEF Trusts, Only, Bystanders, Dimmed
    <3>4. OneOn(i)'
      BY <2>5, <2>6, <3>2, <3>3 DEF OneOn
    <3>5. Agree(i)'
      BY <1>1, <2>5, <2>6, <3>1 DEF Agree, Trusts
    <3> QED BY <3>2, <3>4, <3>5 DEF InStep
  <2> QED BY <2>7, <2>8, <2>9, <2>10, <2>11, <2>12 DEF IdentityInv, HandlersInv
<1> QED BY <1>2, <1>3

------------------------------------------------------------------------------
(* Handlers that come to a user or to an account.                           *)

LEMMA JoinIdentity ==
  ASSUME Shaped, IdentityInv, NEW p \in Proc, NEW op, DOMAIN op = Fields, op.alone \in BOOLEAN,
         Join(p, op), UNCHANGED <<users, born, idp, issued>>, ops[p].id = 0,
         (Held(p) /\ Typed(p) /\ Claims(p) /\ Knows(p))',
         op.sub # None /\ op.pc # "lookup" =>
           \A i \in Users : users[i].sub = op.sub => op.id = i,
         op.id \in Users \ apart' => InStep(op.id)'
  PROVE  IdentityInv'
<1>1. /\ Bystanders(p) /\ Dimmed(op, ops'[p]) /\ apart \subseteq apart'
      /\ \A q \in Proc \ {p} :
           ops'[q].alone => /\ op.sub # None => ops[q].sub # op.sub
                            /\ op.id # 0 => ops[q].id # op.id
  BY Joining DEF IdentityInv, HandlersInv
<1>2. ops'[p].id = op.id /\ ops'[p].sub = op.sub /\ ops'[p].pc = op.pc
  BY <1>1 DEF Dimmed
<1>3. Stores' /\ Unique'
  BY DEF IdentityInv, Stores, Unique, Users, Accounts
<1>4. ASSUME NEW q \in Proc \ {p} PROVE (Held(q) /\ Typed(q) /\ Claims(q) /\ Knows(q))'
  <2>1. /\ Dimmed(ops[q], ops'[q]) /\ Held(q) /\ Typed(q) /\ Claims(q) /\ Knows(q)
    BY <1>1 DEF Bystanders, IdentityInv, HandlersInv
  <2>2. Held(q)' /\ Typed(q)'
    BY <2>1, DimmedHolds DEF IdentityInv, Stores
  <2>3. Claims(q)'
    BY <2>1, DimmedClaims DEF Users, Accounts
  <2>4. Knows(q)'
    <3>1. Sure(q)' => /\ Sure(q) /\ Trusts(q) /\ ops'[q].alone /\ ops[q].sub # None
                      /\ ops[q].pc = "link" => ops[q].id # 0
      BY <2>1 DEF Knows, Sure, Dimmed, Held, OnUser
    <3>2. Sure(q)' /\ ops[q].pc = "insert" => \A i \in Users' : users'[i].sub # ops[q].sub
      BY <3>1 DEF Trusts, Users
    <3>3. Sure(q)' => ops'[p].sub # ops[q].sub
      BY <1>1, <1>2, <3>1
    <3>4. Sure(q)' /\ ops[q].pc = "link" => ops'[p].id # ops[q].id
      BY <1>1, <1>2, <3>1
    <3> QED BY <1>1, <2>1, <3>2, <3>3, <3>4, BystanderKnows
  <2> QED BY <2>2, <2>3, <2>4
<1>5. ASSUME NEW i \in Users' \ apart', i # op.id PROVE InStep(i)'
  <2>1. i # 0 /\ i \in Users \ apart
    BY <1>1, BoundsAssumption DEF Users, Id
  <2>2. users[i].sub # None => ops'[p].pc = "lookup" \/ ops'[p].sub # users[i].sub
    BY <1>2, <1>5, <2>1
  <2> QED BY <1>1, <1>2, <1>5, <2>1, <2>2, UserKept DEF IdentityInv, HandlersInv
<1>6. Users' = Users
  BY DEF Users
<1> QED BY <1>3, <1>4, <1>5, <1>6 DEF IdentityInv, HandlersInv

(* Whoever is found alone with his handler is as the last one left him.     *)
LEMMA FoundInStep ==
  ASSUME Shaped, IdentityInv, NEW p \in Proc, NEW op, DOMAIN op = Fields, op.alone \in BOOLEAN,
         Join(p, op), UNCHANGED <<users, idp>>, NEW i \in Users \ apart', op.id = i, ops[p].id = 0,
         op.pc \in {"write", "link"}, Owed(p, i)'
  PROVE  InStep(i)'
<1>1. i # 0
  BY BoundsAssumption DEF Users, Id
<1>2. /\ Bystanders(p) /\ Dimmed(op, ops'[p]) /\ i \notin apart
      /\ \A q \in Proc \ {p} : ops[q].id # i
  BY <1>1, Joining DEF IdentityInv, HandlersInv
<1>3. \A q \in Proc : ops[q].id # i
  BY <1>1, <1>2
<1>4. InStep(i)
  BY <1>2 DEF IdentityInv
<1>5. \A q \in Proc : ops'[q].id = i => q = p
  BY <1>2 DEF Bystanders, Dimmed
<1>6. \A q \in Proc \ {p} : users[i].sub # None /\ ops'[q].sub = users[i].sub => ops'[q].pc = "lookup"
  BY <1>2, <1>3, <1>4 DEF InStep, OneOn, Bystanders, Dimmed
<1>7. OneOn(i)'
  BY <1>2, <1>5, <1>6 DEF OneOn, Dimmed
<1>8. Agree(i)
  BY <1>3, <1>4 DEF InStep
<1>9. Agree(i)'
  BY <1>8 DEF Agree, Accounts
<1> QED BY <1>5, <1>7, <1>9 DEF InStep

LEMMA BeginOnIdentity ==
  ASSUME Provisioning, Shaped, IdentityInv, NEW p \in Proc, NEW i \in Id,
         NEW op \in {"disable", "enable", "delete", "profile"}, NEW n \in Name \cup {None},
         op = "profile" => n \in Name, BeginOn(p, op, i, n)
  PROVE  IdentityInv'
<1> DEFINE call == /\ Provisioning /\ users[i].sub # None
                   /\ op = "profile" => n # users[i].name
           o == [Idle EXCEPT !.op = op, !.pc = "write", !.id = i, !.sub = users[i].sub,
                             !.name = n, !.flag = call]
<1>1. /\ DOMAIN o = Fields /\ o.op = op /\ o.pc = "write" /\ o.id = i /\ o.sub = users[i].sub
      /\ o.name = n /\ o.flag = call /\ o.alone = TRUE /\ o.rows = {}
  BY DEF Idle, Fields
<1>2. i \in Users /\ Begin(p, o)
  BY DEF BeginOn
<1>3. users[i].sub \in Sub \cup {None} /\ (users[i].sub # None => users[i].sub <= issued) /\ i <= born
      /\ i # 0
  BY <1>2, BoundsAssumption DEF IdentityInv, Stores, UserDoc, Users, Id
<1> HIDE DEF o
<1>4. Dimmed(o, ops'[p]) /\ Bystanders(p)
  BY <1>1, <1>2, Joining DEF Begin, IdentityInv, HandlersInv
<1>5. ops[p].id = 0
  BY <1>2 DEF Begin, Running, IdentityInv, HandlersInv, Held, OnUser
<1>6. Held(p)' /\ Typed(p)'
  BY <1>1, <1>2, <1>3, <1>4 DEF Begin, Held, Typed, Dimmed, OnUser, OnClaim
<1>7. Claims(p)' /\ Knows(p)'
  BY <1>1, <1>4 DEF Claims, Knows, Sure, Dimmed, OnClaim
<1>8. \A j \in Users : users[j].sub = o.sub /\ o.sub # None => i = j
  BY <1>1, <1>2 DEF IdentityInv, Unique
<1>9. Owed(p, i)'
  BY <1>1, <1>2, <1>4 DEF Owed, Dimmed, Begin
<1>10. i \notin apart' => InStep(i)'
  BY <1>1, <1>2, <1>5, <1>9, FoundInStep DEF Begin
<1> QED BY <1>1, <1>2, <1>5, <1>6, <1>7, <1>8, <1>10, JoinIdentity DEF Begin

LEMMA BeginCallbackIdentity ==
  ASSUME Shaped, IdentityInv, NEW p \in Proc, NEW s \in Sub, BeginCallback(p, s)
  PROVE  IdentityInv'
<1> DEFINE o == [Idle EXCEPT !.op = "callback", !.pc = "lookup", !.sub = s,
                             !.email = idp[s].email, !.name = idp[s].name]
<1>1. /\ DOMAIN o = Fields /\ o.op = "callback" /\ o.pc = "lookup" /\ o.id = 0 /\ o.sub = s
      /\ o.email = idp[s].email /\ o.name = idp[s].name /\ o.alone = TRUE /\ o.rows = {}
  BY DEF Idle, Fields
<1>2. s \in Accounts /\ ~ idp[s].suspended /\ Begin(p, o)
  BY DEF BeginCallback
<1>3. /\ s # None /\ s <= issued /\ idp[s].email \in Email /\ idp[s].name \in Name \cup {None}
      /\ idp[s].suspended = FALSE
  <2>1. idp[s] \in AccountDoc /\ s <= issued
    BY <1>2 DEF IdentityInv, Stores, Accounts
  <2>2. s # None
    BY NoneAssumption, BoundsAssumption DEF Sub
  <2> QED BY <1>2, <2>1, <2>2 DEF AccountDoc
<1> HIDE DEF o
<1>4. /\ Dimmed(o, ops'[p]) /\ Bystanders(p)
      /\ ops'[p].alone => \A q \in Proc \ {p} : ops[q].sub # s
  <2>1. /\ Join(p, o) /\ DOMAIN o = Fields /\ o.alone \in BOOLEAN
        /\ \A q \in Proc : Held(q) /\ Typed(q)
    BY <1>1, <1>2 DEF Begin, IdentityInv, HandlersInv
  <2> QED BY <1>1, <1>3, <2>1, Joining
<1>5. ops[p].id = 0
  BY <1>2 DEF Begin, Running, IdentityInv, HandlersInv, Held, OnUser
<1>6. Held(p)' /\ Typed(p)'
  BY <1>1, <1>2, <1>3, <1>4 DEF Begin, Held, Typed, Dimmed, OnUser, OnClaim
<1>7. Claims(p)'
  BY <1>1, <1>2, <1>4 DEF Claims, Dimmed, Begin
<1>8. Knows(p)'
  <2>1. ops'[p].alone => Only(p)'
    BY <1>1, <1>4 DEF Only, Bystanders, Dimmed
  <2> QED BY <1>1, <1>2, <1>3, <1>4, <2>1 DEF Knows, Sure, Trusts, Dimmed, Begin, Accounts
<1>9. o.id \notin Users
  BY <1>1, BoundsAssumption DEF Users, Id
<1> QED BY <1>1, <1>2, <1>5, <1>6, <1>7, <1>8, <1>9, JoinIdentity DEF Begin

(* The first look-up of the callback may miss; the handler is as it was.    *)
LEMMA MissedIdentity ==
  ASSUME Shaped, IdentityInv, NEW p \in Proc, ops[p].pc = "lookup",
         ops' = [ops EXCEPT ![p].flag = TRUE], UNCHANGED <<users, born, idp, issued, apart>>
  PROVE  IdentityInv'
<1> DEFINE o == [ops[p] EXCEPT !.flag = TRUE]
<1>1. /\ o.pc = "lookup" /\ o.id = ops[p].id /\ o.sub = ops[p].sub /\ o.email = ops[p].email
      /\ o.name = ops[p].name /\ o.alone = ops[p].alone /\ o.rows = ops[p].rows
  BY DEF Shaped, Fields
<1>2. ops' = [ops EXCEPT ![p] = o]
  BY DEF Shaped
<1> HIDE DEF o
<1>3. ops'[p] = o /\ \A q \in Proc \ {p} : ops'[q] = ops[q]
  BY <1>2 DEF Shaped
<1>4. Users' = Users /\ Accounts' = Accounts /\ ops[p].id = 0
  BY DEF Users, Accounts, IdentityInv, HandlersInv, Held, OnUser
<1>5. Stores' /\ Unique'
  BY <1>4 DEF IdentityInv, Stores, Unique
<1>6. \A q \in Proc : Held(q) /\ Typed(q) /\ Claims(q) /\ Knows(q)
  BY DEF IdentityInv, HandlersInv
<1>7. ASSUME NEW q \in Proc PROVE (Held(q) /\ Typed(q) /\ Claims(q) /\ Knows(q))'
  <2>1. /\ ops'[q].pc = ops[q].pc /\ ops'[q].id = ops[q].id /\ ops'[q].sub = ops[q].sub
        /\ ops'[q].email = ops[q].email /\ ops'[q].name = ops[q].name
        /\ ops'[q].alone = ops[q].alone /\ ops'[q].rows = ops[q].rows
    BY <1>1, <1>3
  <2>2. \A r \in Proc : ops'[r].pc = ops[r].pc /\ ops'[r].id = ops[r].id /\ ops'[r].sub = ops[r].sub
    BY <1>1, <1>3
  <2>3. q = p \/ ops'[q] = ops[q]
    BY <1>3
  <2>4. Held(q)' /\ Typed(q)'
    BY <1>6, <2>1, <2>3 DEF Held, Typed
  <2>5. Claims(q)'
    BY <1>4, <1>6, <2>1, <2>3 DEF Claims
  <2>6. Trusts(q) => Trusts(q)'
    BY <1>4, <2>1, <2>2 DEF Trusts, Only
  <2>7. ops[q].pc = "link" /\ KnowsUser(q) => KnowsUser(q)'
    BY <1>4, <2>1, <2>2, <2>3 DEF KnowsUser
  <2>8. Knows(q)'
    BY <1>6, <2>1, <2>6, <2>7 DEF Knows, Sure
  <2> QED BY <2>4, <2>5, <2>8
<1>8. ASSUME NEW i \in Users' \ apart' PROVE InStep(i)'
  <2>1. InStep(i) /\ i # 0
    BY <1>4, BoundsAssumption DEF IdentityInv, Users, Id
  <2>2. Bystanders(p) /\ ops[p].id # i /\ ops'[p].id # i /\ ops'[p].pc = "lookup"
    BY <1>1, <1>2, <1>3, <1>4, <2>1, OwnStep
  <2> QED BY <1>6, <2>1, <2>2, UserKept
<1> QED BY <1>5, <1>7, <1>8 DEF IdentityInv, HandlersInv

(* The callback finds its user by the sub, or else by the email.            *)
LEMMA LookUpIdentity ==
  ASSUME Shaped, IdentityInv, MailInv, NEW p \in Proc, LookUp(p) PROVE IdentityInv'
<1> DEFINE s == ops[p].sub
           e == ops[p].email
           found == IF ops[p].flag THEN ByEmail(e) ELSE BySub(s)
           misses == ops' = [ops EXCEPT ![p].flag = TRUE]
<1>1. /\ ops[p].pc = "lookup" /\ ops[p].id = 0 /\ s \in Sub /\ s # None /\ e \in Email
      /\ s <= issued /\ ops[p].name \in Name \cup {None} /\ ops[p].alone \in BOOLEAN
      /\ ops[p].rows \subseteq Email /\ Claims(p) /\ Knows(p)
      /\ UNCHANGED <<users, born, idp, issued>>
  BY DEF LookUp, IdentityInv, HandlersInv, Held, Typed, OnUser, OnClaim
<1>2. CASE (End(p) \/ misses) /\ UNCHANGED apart
  BY <1>1, <1>2, EndAside, MissedIdentity
<1>3. CASE ~ ((End(p) \/ misses) /\ UNCHANGED apart)
  <2>1. PICK i : i = found
    OBVIOUS
  <2> DEFINE o == [ops[p] EXCEPT !.pc = "link", !.id = i, !.links = (users[i].sub = None), !.flag = FALSE,
                                 !.name = IF @ = users[i].name THEN None ELSE @]
  <2>2. i # 0 /\ users[i].status = "active" /\ Join(p, o)
    BY <1>3, <2>1 DEF LookUp
  <2>3. /\ \A j \in Users : users[j].sub = s => users[i].sub = s /\ i = j
        /\ i \in Users /\ (users[i].sub = s \/ users[i].email = e)
    <3>1. CASE ~ ops[p].flag
      <4>1. i = BySub(s)
        BY <2>1, <3>1
      <4>2. i \in Users /\ users[i].sub = s
        BY <2>2, <4>1 DEF BySub
      <4> QED BY <1>1, <4>2 DEF IdentityInv, Unique
    <3>2. CASE ops[p].flag
      <4>1. i = ByEmail(e)
        BY <2>1, <3>2
      <4>2. i \in Users /\ users[i].email = e
        BY <2>2, <4>1 DEF ByEmail
      <4>3. \A j \in Users : users[j].sub = s => users[j].email = e
        BY <1>1 DEF MailInv, UserMail, OnAccount, OnClaim
      <4> QED BY <4>2, <4>3 DEF MailInv, OneEmail
    <3> QED BY <3>1, <3>2
  <2>4. /\ DOMAIN o = Fields /\ o.pc = "link" /\ o.id = i /\ o.sub = s /\ o.email = e
        /\ o.links = (users[i].sub = None) /\ o.alone = ops[p].alone /\ o.rows = ops[p].rows
        /\ o.name = (IF ops[p].name = users[i].name THEN None ELSE ops[p].name)
    BY <1>1 DEF Shaped, Fields
  <2> HIDE DEF o, found
  <2>5. /\ Dimmed(o, ops'[p]) /\ Bystanders(p)
        /\ ops'[p].alone => \A q \in Proc \ {p} : ops[q].sub # s /\ ops[q].id # i
    BY <1>1, <2>2, <2>4, Joining DEF IdentityInv, HandlersInv
  <2>6. i \in Id /\ i <= born
    BY <2>3 DEF IdentityInv, Stores, Users
  <2>7. Held(p)' /\ Typed(p)'
    BY <1>1, <2>2, <2>4, <2>5, <2>6 DEF Held, Typed, Dimmed, OnUser, OnClaim
  <2>8. o.links => users[i].email = e
    BY <1>1, <2>3, <2>4
  <2>9. Claims(p)'
    BY <1>1, <2>4, <2>5, <2>8 DEF Claims, Dimmed, OnClaim, Users, Accounts
  <2>10. Knows(p)'
    <3>1. SUFFICES ASSUME ops'[p].alone PROVE Trusts(p)' /\ KnowsUser(p)'
      BY DEF Knows, Sure
    <3>2. Trusts(p) /\ ops[p].alone
      BY <1>1, <2>4, <2>5, <3>1 DEF Knows, Sure, OnClaim, Dimmed
    <3>3. Only(p)' /\ \A q \in Proc \ {p} : ops'[q].id # i
      BY <2>4, <2>5, <3>1 DEF Only, Bystanders, Dimmed
    <3>4. Trusts(p)'
      BY <1>1, <2>4, <2>5, <3>2, <3>3 DEF Trusts, Dimmed, Accounts
    <3>5. idp[s].name \in {IF o.name = None THEN users[i].name ELSE o.name, None}
      BY <1>1, <2>4, <3>2 DEF Trusts
    <3>6. KnowsUser(p)'
      BY <1>1, <2>2, <2>3, <2>4, <2>5, <3>3, <3>5 DEF KnowsUser, Dimmed, Users
    <3> QED BY <3>4, <3>6
  <2>11. Owed(p, i)'
    BY <2>4, <2>5 DEF Owed, Dimmed
  <2>12. i \notin apart' => InStep(i)'
    BY <1>1, <2>2, <2>3, <2>4, <2>11, FoundInStep
  <2> QED BY <1>1, <2>2, <2>3, <2>4, <2>7, <2>9, <2>10, <2>12, JoinIdentity
<1> QED BY <1>2, <1>3

------------------------------------------------------------------------------
(* Handlers that are on a user.                                             *)

(* What a step of the handler on user i keeps of everything else: it        *)
(* changes that user, but not his email, or his account, or neither.        *)
LEMMA OnUserStep ==
  ASSUME IdentityInv, NEW p \in Proc, NEW i, i = ops[p].id, i # 0, Bystanders(p),
         UNCHANGED <<born, issued>>, Stores', Unique',
         (Held(p) /\ Typed(p) /\ Claims(p) /\ Knows(p))',
         Users' \subseteq Users, Accounts' \subseteq Accounts,
         \A j \in Users' : users'[j].email = users[j].email,
         \A s \in Accounts' : idp'[s].email = idp[s].email,
         \A j \in Id \ {i} : users'[j] = users[j],
         \A j \in Users' : users'[j].sub # users[j].sub => users'[j].sub = ops[p].sub,
         \A s \in Sub \ {ops[p].sub} : idp'[s] = idp[s],
         ops[p].pc # "idp" => UNCHANGED idp,
         ops'[p].id \in {0, i}, ops'[p].sub \in {None, ops[p].sub},
         \A j \in (Users' \ {i}) \ apart' : j \notin apart,
         i \in Users' \ apart' => InStep(i)'
  PROVE  IdentityInv'
<1>1. /\ Held(p) /\ ops[p].pc \in OnUser /\ i \in Id
      /\ ops[p].pc = "idp" => ops[p].sub # None
  BY DEF IdentityInv, HandlersInv, Held, OnUser
<1>2. ASSUME NEW q \in Proc \ {p} PROVE (Held(q) /\ Typed(q) /\ Claims(q) /\ Knows(q))'
  <2>1. Dimmed(ops[q], ops'[q]) /\ Held(q) /\ Typed(q) /\ Claims(q) /\ Knows(q)
    BY DEF Bystanders, IdentityInv, HandlersInv
  <2>2. Held(q)' /\ Typed(q)'
    BY <2>1, DimmedHolds DEF IdentityInv, Stores
  <2>3. Claims(q)'
    BY <2>1, DimmedClaims
  <2>4. Knows(q)'
    <3>1. Sure(q)' => /\ Trusts(q) /\ ops[q].sub # None /\ ops[q].sub \in Sub
                      /\ ops[q].sub # ops[p].sub
                      /\ ops[q].pc = "link" => KnowsUser(q)
      BY <1>1, <2>1 DEF Knows, Sure, Dimmed, Trusts, Only, Accounts, OnUser
    <3>2. Sure(q)' /\ ops[q].pc = "insert" => \A j \in Users' : users'[j].sub # ops[q].sub
      BY <3>1 DEF Trusts
    <3>3. Sure(q)' => idp'[ops[q].sub] = idp[ops[q].sub] /\ ops'[p].sub # ops[q].sub
      BY <3>1
    <3>4. Sure(q)' /\ ops[q].pc = "link" => ops[q].id \in Users \ {0, i}
      BY <2>1, <3>1 DEF KnowsUser, Held, OnUser
    <3>5. Sure(q)' /\ ops[q].pc = "link" => /\ users'[ops[q].id] = users[ops[q].id]
                                            /\ ops'[p].id # ops[q].id
      BY <3>4 DEF Users
    <3> QED BY <2>1, <3>2, <3>3, <3>5, BystanderKnows
  <2> QED BY <2>2, <2>3, <2>4
<1>3. ASSUME NEW j \in Users' \ apart', j # i PROVE InStep(j)'
  <2>1. j # 0 /\ j \in Users \ apart /\ users'[j] = users[j] /\ users[j].sub \in Sub \cup {None}
    <3>1. j # 0 /\ j \in Id \ {i}
      BY <1>3, BoundsAssumption DEF Users, Id
    <3>2. users'[j] = users[j] /\ j \in Users \ apart
      BY <1>3, <3>1
    <3>3. users[j] \in UserDoc
      BY <3>2 DEF Users, IdentityInv, Stores
    <3> QED BY <3>1, <3>2, <3>3 DEF UserDoc
  <2>2. /\ InStep(j) /\ ops[p].id # j /\ ops'[p].id # j
        /\ users[j].sub # None => ops[p].sub # users[j].sub
    BY <1>1, <1>3, <2>1 DEF IdentityInv, InStep, OneOn, OnUser
  <2>3. users[j].sub # None => idp'[users[j].sub] = idp[users[j].sub] /\ ops'[p].sub # users[j].sub
    BY <2>1, <2>2
  <2> QED BY <2>1, <2>2, <2>3, UserKept DEF IdentityInv, HandlersInv
<1> QED BY <1>2, <1>3 DEF IdentityInv, HandlersInv

(* A change of a name or a status alone.                                    *)
LEMMA PatchKeepsStores ==
  ASSUME Stores, Unique, UNCHANGED <<born, issued, idp>>, NEW i \in Id, NEW user \in UserDoc,
         i \in Users => user.email = users[i].email /\ user.sub = users[i].sub, Patch(i, user)
  PROVE  /\ Stores' /\ Unique' /\ Users' = Users /\ Accounts' = Accounts
         /\ \A j \in Id \ {i} : users'[j] = users[j]
         /\ i \in Users => users'[i] = user
         /\ \A j \in Users : users'[j].email = users[j].email /\ users'[j].sub = users[j].sub
<1>1. user # None
  BY NoneAssumption
<1>2. /\ \A j \in Id \ {i} : users'[j] = users[j]
      /\ i \in Users => users'[i] = user
      /\ users' \in [Id -> UserDoc \cup {None}]
  BY DEF Stores, Patch
<1>3. Users' = Users /\ Accounts' = Accounts
  BY <1>1, <1>2 DEF Users, Accounts, Patch
<1>4. \A j \in Users : users'[j].email = users[j].email /\ users'[j].sub = users[j].sub
  BY <1>2 DEF Users
<1>5. Stores' /\ Unique'
  BY <1>2, <1>3, <1>4 DEF Stores, Unique
<1> QED BY <1>2, <1>3, <1>4, <1>5

(* The store's part of a change leaves the provider's part to be done, and  *)
(* none is called only where there is no account or nothing to tell it.     *)
LEMMA WriteIdentity ==
  ASSUME Shaped, IdentityInv, NEW p \in Proc, Write(p) PROVE IdentityInv'
<1>1. PICK i : i = ops[p].id
  OBVIOUS
<1> DEFINE o == ops[p]
           u == users[i]
           named == [u EXCEPT !.name = o.name]
           after(status) == [u EXCEPT !.status = status]
<1>2. /\ o.pc = "write" /\ i \in Id /\ i # 0 /\ o.op \in {"profile", "disable", "enable", "delete"}
      /\ o.op = "profile" => o.name \in Name
      /\ Held(p) /\ Typed(p)
      /\ UNCHANGED <<born, idp, issued, apart>>
  BY <1>1 DEF Write, IdentityInv, HandlersInv, Held, Typed, OnUser
<1>3. Stores /\ Unique
  BY DEF IdentityInv
<1>4. /\ i \in Users => u \in UserDoc
      /\ i \notin Users => u = None
  BY <1>2, <1>3 DEF Stores, Users
<1>5. i \in Users => /\ named \in UserDoc \/ o.op # "profile"
                     /\ named.email = u.email /\ named.sub = u.sub /\ named.status = u.status
                     /\ named.name = o.name
  BY <1>2, <1>4 DEF UserDoc
<1>6. \A status \in {"active", "disabled"} :
        i \in Users => /\ after(status) \in UserDoc
                       /\ after(status).email = u.email /\ after(status).sub = u.sub
                       /\ after(status).name = u.name /\ after(status).status = status
  BY <1>4 DEF UserDoc
<1>7. /\ o.op = "profile" => Patch(i, named)
      /\ o.op = "disable" => Patch(i, after("disabled"))
      /\ o.op = "enable" => Patch(i, after("active"))
      /\ o.op = "delete" => UNCHANGED users
  BY <1>1, <1>2 DEF Write
<1> HIDE DEF named, after
<1>8. /\ Stores' /\ Unique' /\ Users' = Users /\ Accounts' = Accounts
      /\ \A j \in Id \ {i} : users'[j] = users[j]
      /\ \A j \in Users : users'[j].email = users[j].email /\ users'[j].sub = users[j].sub
      /\ i \in Users => /\ o.op = "profile" => users'[i] = named
                        /\ o.op = "disable" => users'[i] = after("disabled")
                        /\ o.op = "enable" => users'[i] = after("active")
  <2>1. CASE UNCHANGED users
    <3>1. Stores' /\ Unique' /\ Users' = Users /\ Accounts' = Accounts
      BY <1>2, <1>3, <2>1 DEF Stores, Unique, Users, Accounts
    <3>2. i \in Users => /\ o.op = "profile" => users'[i] = named
                         /\ o.op = "disable" => users'[i] = after("disabled")
                         /\ o.op = "enable" => users'[i] = after("active")
      BY <1>2, <1>3, <1>7 DEF Patch, Stores
    <3> QED BY <2>1, <3>1, <3>2
  <2>2. CASE i \in Users /\ o.op = "profile"
    BY <1>2, <1>3, <1>5, <1>7, <2>2, PatchKeepsStores
  <2>3. CASE i \in Users /\ o.op = "disable"
    BY <1>2, <1>3, <1>6, <1>7, <2>3, PatchKeepsStores
  <2>4. CASE i \in Users /\ o.op = "enable"
    BY <1>2, <1>3, <1>6, <1>7, <2>4, PatchKeepsStores
  <2>5. i \notin Users => UNCHANGED users
    BY <1>2, <1>7 DEF Patch
  <2> QED BY <1>2, <1>7, <2>1, <2>2, <2>3, <2>4, <2>5
<1>9. \/ o.flag /\ Goto(p, "idp")
      \/ ~ o.flag /\ o.op = "delete" /\ Goto(p, "remove")
      \/ ~ o.flag /\ o.op # "delete" /\ End(p)
  BY DEF Write
<1>10. /\ Bystanders(p) /\ ops'[p].id \in {0, i} /\ ops'[p].sub \in {None, o.sub}
       /\ (Typed(p) /\ Claims(p) /\ Knows(p))'
       /\ ~ End(p) => ops'[p].op = o.op /\ ops'[p].name = o.name /\ ops'[p].id = i
                      /\ ops'[p].sub = o.sub /\ ops'[p].pc = IF o.flag THEN "idp" ELSE "remove"
       /\ End(p) => ops'[p].id = 0 /\ ops'[p].sub = None /\ Held(p)'
  <2>1. CASE End(p)
    BY <2>1, EndStep
  <2>2. CASE ~ End(p)
    <3>1. PICK pc \in {"idp", "remove"} : Goto(p, pc) /\ pc = IF o.flag THEN "idp" ELSE "remove"
      BY <1>9, <2>2
    <3>2. /\ Bystanders(p) /\ ops'[p].pc = pc /\ ops'[p].id = i /\ ops'[p].sub = o.sub
          /\ ops'[p].email = o.email /\ ops'[p].name = o.name /\ ops'[p].op = o.op
          /\ ops'[p].alone = o.alone /\ ops'[p].rows = o.rows
      BY <1>1, <3>1, GoesOn
    <3>3. (Typed(p) /\ Claims(p) /\ Knows(p))'
      BY <1>2, <3>2 DEF Typed, Claims, Knows, Sure, OnClaim
    <3> QED BY <2>2, <3>1, <3>2, <3>3
  <2> QED BY <2>1, <2>2
<1>11. Held(p)'
  <2>1. o.flag => o.sub # None
    BY <1>2 DEF Held
  <2> QED BY <1>1, <1>2, <1>10, <2>1 DEF Held, OnUser, OnClaim
<1>12. ASSUME i \in Users \ apart PROVE InStep(i)'
  <2>1. InStep(i) /\ Owed(p, i) /\ o.sub = u.sub /\ \A q \in Proc \ {p} : ops[q].id # i
    BY <1>1, <1>2, <1>12 DEF IdentityInv, InStep, OneOn, Owed
  <2>2. Agree(i)
    BY <1>1, <1>2, <2>1 DEF InStep
  <2>3. \A q \in Proc \ {p} : ops'[q].id # i
    BY <1>10, <2>1 DEF Bystanders, Dimmed
  <2>4. \A q \in Proc \ {p} :
          users[i].sub # None /\ ops'[q].pc # "lookup" => ops'[q].sub # users[i].sub
    BY <1>10, <2>1 DEF Bystanders, Dimmed, InStep, OneOn
  <2>5. /\ users'[i].sub = u.sub /\ Accounts' = Accounts /\ UNCHANGED idp
        /\ o.op = "profile" => users'[i].name = o.name /\ users'[i].status = u.status
        /\ o.op = "disable" => users'[i].name = u.name /\ users'[i].status = "disabled"
        /\ o.op = "enable" => users'[i].name = u.name /\ users'[i].status = "active"
    BY <1>2, <1>5, <1>6, <1>8, <1>12
  <2>6. OneOn(i)'
    BY <1>10, <2>1, <2>3, <2>4, <2>5 DEF OneOn
  <2>7. CASE End(p)
    <3>1. \A q \in Proc : ops'[q].id # i
      BY <1>2, <1>10, <2>3, <2>7
    <3>2. u.sub # None => o.op = "profile" /\ o.name = u.name
      <4>1. ~ o.flag /\ o.op # "delete"
        BY <1>1, <1>2, <1>9, <1>10, <2>7, GoesOn
      <4> QED BY <1>2, <2>1, <4>1 DEF Owed
    <3>3. Agree(i)'
      BY <2>2, <2>5, <3>2 DEF Agree
    <3> QED BY <2>6, <3>1, <3>3 DEF InStep
  <2>8. CASE ~ End(p)
    <3>1. u.sub # None => /\ u.sub \in Accounts
                          /\ idp[u.sub].suspended = (u.status = "disabled")
                          /\ idp[u.sub].name \in {u.name, None}
      BY <2>2 DEF Agree
    <3>2. ops'[p].pc = "idp" => u.sub # None
      BY <1>10, <1>11, <2>1, <2>8 DEF Held
    <3>3. /\ ops'[p].pc \in {"idp", "remove"} /\ ops'[p].id = i /\ ops'[p].sub = u.sub
          /\ ops'[p].op = o.op /\ ops'[p].name = o.name
      BY <1>10, <2>1, <2>8
    <3>4. Owed(p, i)'
      BY <1>2, <2>5, <3>1, <3>2, <3>3 DEF Owed
    <3> QED BY <2>3, <2>6, <3>3, <3>4 DEF InStep
  <2> QED BY <2>7, <2>8
<1> QED BY <1>1, <1>2, <1>8, <1>10, <1>11, <1>12, OnUserStep

(* Only the handler of a user who is not apart holds his account, so a call *)
(* to the provider brings that account to where the store is, or puts the   *)
(* user apart.                                                              *)
LEMMA CallIdpIdentity ==
  ASSUME Shaped, IdentityInv, NEW p \in Proc, CallIdp(p) PROVE IdentityInv'
<1>1. PICK i : i = ops[p].id
  OBVIOUS
<1>2. PICK s : s = ops[p].sub
  OBVIOUS
<1> DEFINE o == ops[p]
           u == users[i]
           new == Effect(o.op, idp[s], o.name)
<1>3. /\ o.pc = "idp" /\ i \in Id /\ i # 0 /\ o.op \in {"profile", "disable", "enable", "delete"}
      /\ o.op = "profile" => o.name \in Name
      /\ s \in Sub /\ s # None /\ Held(p) /\ Typed(p) /\ Stores /\ Unique
      /\ UNCHANGED <<users, born, issued>>
  BY <1>1, <1>2 DEF CallIdp, IdentityInv, HandlersInv, Held, Typed, OnUser
<1>4. ASSUME idp[s] # None
      PROVE  /\ new \in AccountDoc \cup {None}
             /\ o.op = "delete" <=> new = None
             /\ o.op # "delete" => new.email = idp[s].email
             /\ o.op = "profile" => new.name = o.name /\ new.suspended = idp[s].suspended
             /\ o.op = "disable" => new.name = idp[s].name /\ new.suspended = TRUE
             /\ o.op = "enable" => new.name = idp[s].name /\ new.suspended = FALSE
  <2>1. idp[s] \in AccountDoc
    BY <1>3, <1>4 DEF Stores
  <2>2. CASE o.op = "delete"
    BY <2>2 DEF Effect
  <2>3. CASE o.op # "delete"
    <3>1. /\ new \in AccountDoc /\ new.email = idp[s].email
          /\ o.op = "profile" => new.name = o.name /\ new.suspended = idp[s].suspended
          /\ o.op = "disable" => new.name = idp[s].name /\ new.suspended = TRUE
          /\ o.op = "enable" => new.name = idp[s].name /\ new.suspended = FALSE
      BY <1>3, <2>1, <2>3 DEF Effect, AccountDoc
    <3> HIDE DEF new
    <3> QED BY <2>3, <3>1, NoneAssumption
  <2> QED BY <2>2, <2>3
<1> DEFINE after == IF idp[s] # None THEN [idp EXCEPT ![s] = new] ELSE idp
<1>5. \/ /\ idp' = after /\ UNCHANGED apart /\ (idp[s] # None \/ o.op = "delete")
         /\ IF o.op = "delete" THEN Goto(p, "remove") ELSE End(p)
      \/ idp' \in {idp, after} /\ apart' = apart \cup {i} /\ End(p)
  BY <1>1, <1>2 DEF CallIdp
<1> HIDE DEF new
<1>6. /\ idp' \in [Sub -> AccountDoc \cup {None}]
      /\ \A t \in Sub \ {s} : idp'[t] = idp[t]
      /\ idp'[s] = idp[s] \/ (idp[s] # None /\ idp'[s] = new)
      /\ idp' = after /\ idp[s] # None => idp'[s] = new
  BY <1>3, <1>4, <1>5 DEF Stores
<1>7. Accounts' \subseteq Accounts /\ \A t \in Accounts' : idp'[t].email = idp[t].email
  BY <1>4, <1>6 DEF Accounts
<1>8. Stores' /\ Unique' /\ Users' = Users
  BY <1>3, <1>6, <1>7 DEF Stores, Unique, Users
<1>9. /\ Bystanders(p) /\ ops'[p].id \in {0, i} /\ ops'[p].sub \in {None, s}
      /\ (Held(p) /\ Typed(p) /\ Claims(p) /\ Knows(p))'
      /\ End(p) => ops'[p].id = 0 /\ ops'[p].sub = None
      /\ ~ End(p) => ops'[p].pc = "remove" /\ ops'[p].id = i /\ ops'[p].sub = s
  <2>1. CASE End(p)
    BY <2>1, EndStep
  <2>2. CASE ~ End(p)
    <3>1. /\ Bystanders(p) /\ ops'[p].pc = "remove" /\ ops'[p].id = i /\ ops'[p].sub = s
          /\ ops'[p].email = o.email /\ ops'[p].name = o.name /\ ops'[p].op = o.op
          /\ ops'[p].alone = o.alone /\ ops'[p].rows = o.rows
      BY <1>1, <1>2, <1>5, <2>2, GoesOn
    <3>2. Held(p)'
      BY <1>1, <1>2, <1>3, <3>1 DEF Held, OnUser, OnClaim
    <3>3. (Typed(p) /\ Claims(p) /\ Knows(p))'
      BY <1>3, <3>1 DEF Typed, Claims, Knows, Sure, OnClaim
    <3> QED BY <2>2, <3>1, <3>2, <3>3
  <2> QED BY <2>1, <2>2
<1>10. ASSUME i \in Users \ apart' PROVE InStep(i)'
  <2>1. /\ idp' = after /\ UNCHANGED apart
        /\ IF o.op = "delete" THEN Goto(p, "remove") ELSE End(p)
    BY <1>5, <1>10
  <2>2. /\ InStep(i) /\ Owed(p, i) /\ s = u.sub /\ s \in Accounts
        /\ \A q \in Proc \ {p} : ops[q].id # i
    BY <1>1, <1>2, <1>3, <1>10, <2>1 DEF IdentityInv, InStep, OneOn, Owed
  <2>3. \A q \in Proc \ {p} : ops'[q].id # i
    BY <1>9, <2>2 DEF Bystanders, Dimmed
  <2>4. \A q \in Proc \ {p} : ops'[q].pc # "lookup" => ops'[q].sub # s
    BY <1>3, <1>9, <2>2 DEF Bystanders, Dimmed, InStep, OneOn
  <2>5. OneOn(i)'
    BY <1>3, <1>9, <2>2, <2>3, <2>4 DEF OneOn
  <2>6. CASE o.op = "delete"
    <3>1. ~ End(p)
      BY <1>3, <1>1, <1>9, <2>1, <2>6, GoesOn
    <3>2. Owed(p, i)'
      BY <1>3, <1>9, <2>2, <3>1 DEF Owed
    <3> QED BY <1>9, <2>3, <2>5, <3>1, <3>2 DEF InStep
  <2>7. CASE o.op # "delete"
    <3>1. \A q \in Proc : ops'[q].id # i
      BY <1>3, <1>9, <2>1, <2>3, <2>7
    <3>2. idp[s] # None /\ idp'[s] = new /\ new # None
      BY <1>4, <1>6, <2>1, <2>2, <2>7 DEF Accounts
    <3>3. /\ new.suspended = (u.status = "disabled")
          /\ new.name \in {u.name, None}
      BY <1>3, <1>4, <2>2, <2>7, <3>2 DEF Owed
    <3>4. Agree(i)'
      BY <1>3, <2>2, <3>2, <3>3 DEF Agree, Accounts
    <3> QED BY <2>5, <3>1, <3>4 DEF InStep
  <2> QED BY <2>6, <2>7
<1> QED BY <1>1, <1>2, <1>3, <1>5, <1>6, <1>7, <1>8, <1>9, <1>10, OnUserStep

LEMMA RemoveIdentity ==
  ASSUME Shaped, IdentityInv, NEW p \in Proc, Remove(p) PROVE IdentityInv'
<1>1. PICK i : i = ops[p].id
  OBVIOUS
<1>2. /\ ops[p].pc = "remove" /\ i \in Id /\ i # 0 /\ Stores /\ Unique
      /\ users' = [users EXCEPT ![i] = None] /\ End(p)
      /\ UNCHANGED <<born, idp, issued, apart>>
  BY <1>1 DEF Remove, IdentityInv, HandlersInv, Held, OnUser
<1>3. /\ users' \in [Id -> UserDoc \cup {None}] /\ users'[i] = None
      /\ \A j \in Id \ {i} : users'[j] = users[j]
  BY <1>2 DEF Stores
<1>4. Users' = Users \ {i} /\ Accounts' = Accounts
  BY <1>2, <1>3 DEF Users, Accounts
<1>5. \A j \in Users' : users'[j] = users[j]
  BY <1>3, <1>4 DEF Users
<1>6. Stores' /\ Unique'
  BY <1>2, <1>3, <1>4, <1>5 DEF Stores, Unique
<1>7. /\ Bystanders(p) /\ ops'[p].id = 0 /\ ops'[p].sub = None
      /\ (Held(p) /\ Typed(p) /\ Claims(p) /\ Knows(p))'
  BY <1>2, EndStep
<1> QED BY <1>1, <1>2, <1>3, <1>4, <1>5, <1>6, <1>7, OnUserStep

(* A sign-in that is alone brings its user and its account together.        *)
LEMMA LinkIdentity ==
  ASSUME Shaped, IdentityInv, NEW p \in Proc, Link(p) PROVE IdentityInv'
<1>1. PICK i : i = ops[p].id
  OBVIOUS
<1>2. PICK s : s = ops[p].sub
  OBVIOUS
<1> DEFINE o == ops[p]
           u == users[i]
           user == [u EXCEPT !.sub = IF o.links THEN s ELSE @,
                             !.name = IF o.name = None THEN @ ELSE o.name]
           clash == i \in Users /\ o.links /\ \E j \in Users \ {i} : users[j].sub = s
           heals == o.links \/ (i \in Users /\ u.sub = s)
<1>3. /\ o.pc = "link" /\ i \in Id /\ i # 0 /\ i <= born /\ s \in Sub /\ s # None /\ s <= issued
      /\ o.name \in Name \cup {None} /\ Claims(p) /\ Knows(p) /\ Stores /\ Unique
      /\ UNCHANGED <<born, idp, issued>> /\ (End(p) \/ Throw(p))
      /\ apart' = IF ~ o.alone THEN apart \cup {i} ELSE IF heals THEN apart \ {i} ELSE apart
  BY <1>1, <1>2 DEF Link, IdentityInv, HandlersInv, Held, Typed, OnUser, OnClaim
<1>4. \/ UNCHANGED users /\ (clash \/ i \notin Users)
      \/ i \in Users /\ ~ clash /\ users' = [users EXCEPT ![i] = user]
  BY <1>1, <1>2 DEF Link, Patch
<1>5. /\ Bystanders(p) /\ ops'[p].id = 0 /\ ops'[p].sub = None
      /\ (Held(p) /\ Typed(p) /\ Claims(p) /\ Knows(p))'
  BY <1>3, EndStep
<1>6. ASSUME i \in Users
      PROVE  /\ user \in UserDoc /\ user # None /\ user.email = u.email /\ user.status = u.status
             /\ user.sub = (IF o.links THEN s ELSE u.sub)
             /\ user.name = (IF o.name = None THEN u.name ELSE o.name)
  <2>1. u \in UserDoc
    BY <1>3, <1>6 DEF Stores, Users
  <2>2. /\ user \in UserDoc /\ user.email = u.email /\ user.status = u.status
        /\ user.sub = (IF o.links THEN s ELSE u.sub)
        /\ user.name = (IF o.name = None THEN u.name ELSE o.name)
    BY <1>3, <2>1 DEF UserDoc
  <2> HIDE DEF user
  <2> QED BY <2>2, NoneAssumption
<1> HIDE DEF user
<1>7. /\ users' \in [Id -> UserDoc \cup {None}]
      /\ \A j \in Id \ {i} : users'[j] = users[j]
      /\ Users' = Users /\ Accounts' = Accounts
      /\ i \in Users => users'[i] = user \/ (clash /\ users'[i] = u)
      /\ i \in Users /\ ~ clash => users'[i] = user
  <2>1. CASE UNCHANGED users /\ (clash \/ i \notin Users)
    BY <1>3, <2>1 DEF Stores, Users, Accounts
  <2>2. CASE i \in Users /\ ~ clash /\ users' = [users EXCEPT ![i] = user]
    <3>1. /\ users' \in [Id -> UserDoc \cup {None}]
          /\ users'[i] = user /\ \A j \in Id \ {i} : users'[j] = users[j]
      BY <1>3, <1>6, <2>2 DEF Stores
    <3> HIDE DEF clash
    <3> QED BY <1>3, <1>6, <2>2, <3>1 DEF Users, Accounts
  <2> QED BY <1>4, <2>1, <2>2
<1>8. /\ \A j \in Users : users'[j].email = users[j].email
      /\ \A j \in Users : users'[j].sub # users[j].sub => users'[j].sub = s
  <2>1. \A j \in Users \ {i} : users'[j] = users[j]
    BY <1>7 DEF Users
  <2> QED BY <1>6, <1>7, <2>1
<1>9. Stores'
  <2>1. \A j \in Users' : users'[j].sub # None => users'[j].sub <= issued'
    BY <1>3, <1>7, <1>8 DEF Stores
  <2> QED BY <1>3, <1>7, <2>1 DEF Stores
<1>10. Unique'
  <2>1. CASE \A j \in Users : users'[j].sub = users[j].sub
    BY <1>3, <1>7, <1>8, <2>1 DEF Unique
  <2>2. CASE \E j \in Users : users'[j].sub # users[j].sub
    <3>1. i \in Users /\ ~ clash /\ o.links /\ users'[i].sub = s
      <4>1. i \in Users /\ users'[i].sub # u.sub
        BY <1>7, <2>2 DEF Users
      <4>2. users'[i] = user
        BY <1>7, <4>1
      <4> QED BY <1>4, <1>6, <4>1, <4>2
    <3>2. \A j \in Users \ {i} : users[j].sub # s /\ users'[j] = users[j]
      BY <1>7, <3>1 DEF Users
    <3>3. \A j, k \in Users : users'[j].sub = users'[k].sub /\ users'[j].sub # None => j = k
      BY <1>3, <3>1, <3>2 DEF Unique
    <3>4. s \in Accounts => idp[s].email = users'[i].email
      BY <1>1, <1>2, <1>3, <1>8, <3>1 DEF Claims, OnClaim
    <3>5. \A j \in Users : users'[j].sub \in Accounts => idp[users'[j].sub].email = users'[j].email
      BY <1>3, <3>1, <3>2, <3>4 DEF Unique
    <3> QED BY <1>3, <1>7, <3>3, <3>5 DEF Unique
  <2> QED BY <2>1, <2>2
<1>11. ASSUME i \in Users \ apart' PROVE InStep(i)'
  <2>1. o.alone
    BY <1>3, <1>11
  <2>2. /\ s \in Accounts /\ idp[s].suspended = FALSE /\ Only(p)
        /\ \A q \in Proc \ {p} : ops[q].id # i
        /\ u.status = "active" /\ (o.links <=> u.sub = None)
        /\ u.email = o.email \/ u.sub = s
        /\ idp[s].name \in {IF o.name = None THEN u.name ELSE o.name, None}
    BY <1>1, <1>2, <1>3, <2>1 DEF Knows, Sure, Trusts, KnowsUser, OnClaim
  <2>3. \A q \in Proc : ops'[q].id # i
    BY <1>3, <1>5, <2>2 DEF Bystanders, Dimmed
  <2>4. \A q \in Proc : ops'[q].sub = s => ops'[q].pc = "lookup"
    BY <1>2, <1>3, <1>5, <2>2 DEF Only, Bystanders, Dimmed
  <2>5. heals
    <3>1. SUFFICES ASSUME ~ heals PROVE FALSE
      OBVIOUS
    <3>2. i \notin apart /\ u.sub # None /\ u.sub # s /\ u.email = o.email
      BY <1>3, <1>11, <2>1, <2>2, <3>1
    <3>3. InStep(i) /\ \A q \in Proc : ops[q].id = i => ops[q].pc = "link"
      BY <1>3, <1>11, <2>2, <3>2 DEF IdentityInv
    <3>4. u.sub \in Accounts
      BY <3>2, <3>3 DEF InStep, Agree
    <3>5. idp[u.sub].email = u.email /\ idp[s].email = o.email
      BY <1>2, <1>3, <1>11, <2>2, <3>4 DEF Unique, Claims, OnClaim
    <3> QED BY <1>3, <2>2, <3>2, <3>4, <3>5 DEF Unique
  <2>6. CASE clash
    <3>1. users'[i] = u /\ u.sub = None
      BY <1>4, <1>11, <2>2, <2>6
    <3> QED BY <2>3, <3>1 DEF InStep, OneOn, Agree
  <2>7. CASE ~ clash
    <3>1. users'[i] = user /\ user.sub = s /\ user.status = "active"
          /\ idp[s].name \in {user.name, None}
      BY <1>6, <1>7, <1>11, <2>2, <2>5, <2>7
    <3>2. OneOn(i)'
      BY <2>3, <2>4, <3>1 DEF OneOn
    <3>3. Agree(i)'
      BY <1>3, <1>7, <2>2, <3>1 DEF Agree
    <3> QED BY <2>3, <3>2, <3>3 DEF InStep
  <2> QED BY <2>6, <2>7
<1>12. \A j \in (Users' \ {i}) \ apart' : j \notin apart
  BY <1>3
<1> HIDE DEF clash, heals
<1> QED BY <1>1, <1>2, <1>3, <1>5, <1>7, <1>8, <1>9, <1>10, <1>11, <1>12, OnUserStep

------------------------------------------------------------------------------
(* The provider and the death of the process.                               *)

(* A name changed at the provider puts its user apart, and nobody who holds *)
(* the account is sure of it any more.                                      *)
LEMMA RenameAtIdpIdentity ==
  ASSUME Shaped, IdentityInv, NEW s \in Sub, NEW n \in Name, RenameAtIdp(s, n) PROVE IdentityInv'
<1> DEFINE account == [idp[s] EXCEPT !.name = n]
           his(q) == IF q \in With(s) THEN [ops[q] EXCEPT !.alone = FALSE] ELSE ops[q]
<1>1. /\ s \in Accounts /\ idp' = [idp EXCEPT ![s] = account]
      /\ apart' = apart \cup {i \in Users : users[i].sub = s}
      /\ ops' = [q \in Proc |-> his(q)] /\ UNCHANGED <<users, born, issued>>
  BY DEF RenameAtIdp, IdentityInv, Stores
<1>2. Stores /\ Unique /\ s # None
  BY NoneAssumption, BoundsAssumption DEF IdentityInv, Sub
<1>3. /\ account \in AccountDoc /\ account.email = idp[s].email
  <2>1. idp[s] \in AccountDoc
    BY <1>1, <1>2 DEF Stores, Accounts
  <2> QED BY <2>1 DEF AccountDoc
<1> HIDE DEF account
<1>4. /\ idp' \in [Sub -> AccountDoc \cup {None}] /\ idp'[s] = account
      /\ \A t \in Sub \ {s} : idp'[t] = idp[t]
  BY <1>1, <1>2, <1>3 DEF Stores
<1>5. Accounts' = Accounts /\ Users' = Users /\ \A t \in Accounts : idp'[t].email = idp[t].email
  <2>1. account # None
    BY <1>3, NoneAssumption
  <2> QED BY <1>1, <1>3, <1>4, <2>1 DEF Accounts, Users
<1>6. Stores' /\ Unique'
  BY <1>1, <1>2, <1>4, <1>5 DEF Stores, Unique
<1>7. ASSUME NEW q \in Proc
      PROVE  Dimmed(ops[q], ops'[q]) /\ (ops'[q].alone => ops[q].sub # s)
  <2>1. Dimmed(ops[q], his(q)) /\ (his(q).alone => q \notin With(s))
    BY DEF Dimmed, Fields, Shaped, IdentityInv, HandlersInv, Typed
  <2>2. ops[q].sub = s => q \in With(s)
    BY <1>2, Sharers DEF IdentityInv, HandlersInv
  <2> HIDE DEF his
  <2> QED BY <1>1, <2>1, <2>2
<1>8. \A q \in Proc : Bystanders(q)
  BY <1>7 DEF Bystanders
<1>9. ASSUME NEW q \in Proc PROVE (Held(q) /\ Typed(q) /\ Claims(q) /\ Knows(q))'
  <2>1. /\ Dimmed(ops[q], ops'[q]) /\ Held(q) /\ Typed(q) /\ Claims(q) /\ Knows(q)
    BY <1>7 DEF IdentityInv, HandlersInv
  <2>2. Held(q)' /\ Typed(q)'
    BY <1>1, <1>2, <2>1, DimmedHolds DEF Stores
  <2>3. Claims(q)'
    BY <1>1, <1>5, <2>1, DimmedClaims
  <2>4. ASSUME Sure(q)' PROVE (Trusts(q) /\ (ops[q].pc = "link" => KnowsUser(q)))'
    <3>1. /\ Trusts(q) /\ (ops[q].pc = "link" => KnowsUser(q)) /\ ops[q].sub \in Sub \ {s}
      BY <1>7, <2>1, <2>4 DEF Knows, Sure, Dimmed, Held
    <3>2. idp'[ops[q].sub] = idp[ops[q].sub]
      BY <1>4, <3>1
    <3>3. Only(q)'
      BY <1>7, <3>1 DEF Only, Trusts, Dimmed
    <3>4. Trusts(q)'
      BY <1>1, <1>5, <2>1, <3>1, <3>2, <3>3 DEF Trusts, Dimmed
    <3>5. ops[q].pc = "link" => \A r \in Proc \ {q} : ops'[r].id # ops[q].id
      BY <1>7, <3>1 DEF KnowsUser, Dimmed
    <3>6. ops[q].pc = "link" => KnowsUser(q)'
      BY <1>1, <1>5, <2>1, <3>1, <3>2, <3>5 DEF KnowsUser, Dimmed
    <3> QED BY <2>1, <3>4, <3>6 DEF Dimmed
  <2> QED BY <2>1, <2>2, <2>3, <2>4 DEF Knows, Dimmed
<1>10. ASSUME NEW i \in Users' \ apart' PROVE InStep(i)'
  <2>1. i \in Users \ apart /\ users[i].sub # s /\ users[i].sub \in Sub \cup {None}
    <3>1. i \in Users \ apart /\ users[i].sub # s
      BY <1>1, <1>5
    <3>2. users[i] \in UserDoc
      BY <1>2, <3>1 DEF Users, Stores
    <3> QED BY <3>1, <3>2 DEF UserDoc
  <2>2. users[i].sub # None => idp'[users[i].sub] = idp[users[i].sub]
    BY <1>4, <2>1
  <2>3. InStep(i)
    BY <2>1 DEF IdentityInv
  <2>4. OneOn(i)'
    BY <1>1, <1>7, <2>3 DEF InStep, OneOn, Dimmed
  <2>5. ASSUME NEW q \in Proc, ops'[q].id = i PROVE Owed(q, i)'
    <3>1. Dimmed(ops[q], ops'[q]) /\ Owed(q, i) /\ Held(q)
      BY <1>7, <2>3, <2>5 DEF InStep, Dimmed, IdentityInv, HandlersInv
    <3> QED BY <1>1, <1>5, <2>2, <3>1 DEF Owed, Dimmed, Held
  <2>6. Agree(i) => Agree(i)'
    BY <1>1, <1>5, <2>2 DEF Agree
  <2>7. \A q \in Proc : ops'[q].id = ops[q].id /\ ops'[q].pc = ops[q].pc
    BY <1>7 DEF Dimmed
  <2> QED BY <2>3, <2>4, <2>5, <2>6, <2>7 DEF InStep
<1> QED BY <1>6, <1>9, <1>10 DEF IdentityInv, HandlersInv

(* A user whose handler dies with the process is apart.                     *)
LEMMA CrashIdentity ==
  ASSUME Shaped, IdentityInv, CrashPortal PROVE IdentityInv'
<1>1. /\ UNCHANGED <<users, born, idp, issued>> /\ \A q \in Proc : ops'[q] = Idle
      /\ apart' = apart \cup ({ops[p].id : p \in {q \in Proc : Running(q)}} \ {0})
  BY DEF CrashPortal
<1>2. Stores' /\ Unique'
  BY <1>1 DEF IdentityInv, Stores, Unique, Users, Accounts
<1>3. /\ Idle.id = 0 /\ Idle.sub = None /\ Idle.pc = "done" /\ Idle.alone = TRUE
      /\ Idle.name = None /\ Idle.rows = {}
  BY DEF Idle
<1>4. None \notin Sub
  BY NoneAssumption, BoundsAssumption DEF Sub
<1>5. ASSUME NEW q \in Proc PROVE (Held(q) /\ Typed(q) /\ Claims(q) /\ Knows(q))'
  <2>1. Held(q)' /\ Typed(q)'
    BY <1>1, <1>3 DEF Held, Typed, OnUser, OnClaim
  <2>2. Claims(q)' /\ Knows(q)'
    BY <1>1, <1>3 DEF Claims, Knows, Sure, OnClaim
  <2> QED BY <2>1, <2>2
<1>6. ASSUME NEW i \in Users' \ apart' PROVE InStep(i)'
  <2>1. i \in Users \ apart /\ i # 0
    BY <1>1, BoundsAssumption DEF Users, Id
  <2>2. \A q \in Proc : ops[q].id = i => Running(q)
    BY <2>1 DEF IdentityInv, HandlersInv, Held, Running, OnUser
  <2>3. \A q \in Proc : ops[q].id # i
    BY <1>1, <1>6, <2>1, <2>2
  <2>4. Agree(i)
    BY <2>1, <2>3 DEF IdentityInv, InStep
  <2>5. Agree(i)'
    BY <1>1, <2>4 DEF Agree, Accounts
  <2> QED BY <1>1, <1>3, <2>1, <2>5 DEF InStep, OneOn
<1> QED BY <1>2, <1>5, <1>6 DEF IdentityInv, HandlersInv

LEMMA UntouchedIdentity ==
  ASSUME IdentityInv, UNCHANGED <<users, born, idp, issued, ops, apart>> PROVE IdentityInv'
<1>1. Users' = Users /\ Accounts' = Accounts
  BY DEF Users, Accounts
<1>2. Stores' /\ Unique'
  BY <1>1 DEF IdentityInv, Stores, Unique
<1>3. ASSUME NEW q \in Proc PROVE (Held(q) /\ Typed(q) /\ Claims(q) /\ Knows(q))'
  <2>1. Held(q) /\ Typed(q) /\ Claims(q) /\ Knows(q)
    BY DEF IdentityInv, HandlersInv
  <2>2. Held(q)' /\ Typed(q)' /\ Claims(q)'
    BY <1>1, <2>1 DEF Held, Typed, Claims
  <2>3. Knows(q)'
    BY <1>1, <2>1 DEF Knows, Sure, Trusts, KnowsUser, Only
  <2> QED BY <2>2, <2>3
<1>4. ASSUME NEW i \in Users' \ apart' PROVE InStep(i)'
  <2>1. InStep(i)
    BY <1>1, <1>4 DEF IdentityInv
  <2> QED BY <1>1, <2>1 DEF InStep, OneOn, Owed, Agree
<1> QED BY <1>2, <1>3, <1>4 DEF IdentityInv, HandlersInv

------------------------------------------------------------------------------
LEMMA IdentityInitially == AccountsInit => IdentityInv
<1> SUFFICES ASSUME AccountsInit PROVE IdentityInv
  OBVIOUS
<1>1. PICK b \in Beginnings :
        /\ users = [i \in Id |-> IF i = 1 THEN b.user ELSE None]
        /\ idp = [s \in Sub |-> IF s = 1 THEN b.account ELSE None]
  BY DEF AccountsInit
<1>2. /\ born = 1 /\ issued = 1 /\ apart = {} /\ \A p \in Proc : ops[p] = Idle
  BY DEF AccountsInit
<1>3. /\ b.user \in UserDoc /\ b.account \in AccountDoc
      /\ b.user.sub # None => /\ b.user.sub = 1 /\ b.account.email = b.user.email
                              /\ b.account.suspended = (b.user.status = "disabled")
                              /\ b.account.name \in {b.user.name, None}
  BY BeginningsAssumption
<1>4. Users \subseteq {1} /\ Accounts \subseteq {1} /\ None \notin Sub /\ None # 1
  BY <1>1, NoneAssumption, BoundsAssumption DEF Users, Accounts, Sub
<1>5. /\ 1 \in Users => users[1] = b.user
      /\ 1 \in Sub => idp[1] = b.account /\ 1 \in Accounts
  BY <1>1, <1>3, NoneAssumption DEF Users, Accounts
<1>6. Stores
  BY <1>1, <1>2, <1>3, <1>4, <1>5 DEF Stores
<1>7. Unique
  BY <1>3, <1>4, <1>5 DEF Unique, Accounts
<1>8. /\ Idle.id = 0 /\ Idle.sub = None /\ Idle.pc = "done" /\ Idle.alone = TRUE
      /\ Idle.name = None /\ Idle.rows = {}
  BY DEF Idle
<1>9. ASSUME NEW p \in Proc PROVE Held(p) /\ Typed(p) /\ Claims(p) /\ Knows(p)
  <2>1. Held(p) /\ Typed(p)
    BY <1>2, <1>8 DEF Held, Typed, OnUser, OnClaim
  <2>2. Claims(p) /\ Knows(p)
    BY <1>2, <1>8 DEF Claims, Knows, Sure, OnClaim
  <2> QED BY <2>1, <2>2
<1>10. ASSUME NEW i \in Users \ apart PROVE InStep(i)
  <2>1. i = 1 /\ users[i] = b.user /\ i # 0
    BY <1>4, <1>5
  <2>2. b.user.sub # None => 1 \in Sub
    BY <1>3 DEF UserDoc
  <2>3. Agree(i)
    BY <1>3, <1>5, <2>1, <2>2 DEF Agree
  <2> QED BY <1>2, <1>8, <2>1, <2>3 DEF InStep, OneOn
<1> QED BY <1>6, <1>7, <1>9, <1>10 DEF IdentityInv, HandlersInv

LEMMA IdentityStepKeeps ==
  ASSUME Provisioning
  PROVE  AccountsInv /\ IdentityInv /\ MailInv /\ [AccountsNext]_avars => IdentityInv'
<1> SUFFICES ASSUME AccountsInv, IdentityInv, MailInv, [AccountsNext]_avars PROVE IdentityInv'
  OBVIOUS
<1>1. Shaped
  BY DEF AccountsInv
<1>2. CASE UNCHANGED avars
  BY <1>2, UntouchedIdentity DEF avars
<1>3. CASE AccountsNext
  <2>1. AccountsStep
    BY <1>3 DEF AccountsNext
  <2>2. ASSUME NEW p \in Proc,
               \/ \E e \in Email, n \in Name : BeginCreate(p, e, n)
               \/ \E rows \in (SUBSET Email) \ {{}}, auto \in BOOLEAN : BeginImport(p, rows, auto)
               \/ \E r \in RuleId : BeginToggle(p, r)
        PROVE  IdentityInv'
    BY <1>1, <2>2, BeginningsAside
  <2>3. ASSUME NEW p \in Proc,
               \/ \E i \in Id, op \in {"disable", "enable", "delete"} : BeginOn(p, op, i, None)
               \/ \E i \in Id, n \in Name : BeginOn(p, "profile", i, n)
               \/ \E s \in Sub : BeginCallback(p, s)
        PROVE  IdentityInv'
    BY <1>1, <2>3, BeginOnIdentity, BeginCallbackIdentity
  <2>4. ASSUME NEW p \in Proc,
               \/ NextRow(p) \/ AutoRule(p) \/ FindNoUser(p) \/ Provision(p) \/ Insert(p)
               \/ Write(p) \/ CallIdp(p) \/ Remove(p) \/ LookUp(p) \/ Link(p) \/ ToggleRule(p)
        PROVE  IdentityInv'
    BY <1>1, <2>4, NextRowAside, AutoRuleAside, FindNoUserAside, ProvisionIdentity, InsertIdentity,
       WriteIdentity, CallIdpIdentity, RemoveIdentity, LookUpIdentity, LinkIdentity, ToggleAside
  <2>5. CASE \/ \E type \in {"exact", "domain"}, e \in Email \cup {Domain} : CreateRule(type, e)
             \/ \E r \in RuleId : DeleteRule(r)
    BY <2>5, UntouchedIdentity DEF CreateRule, DeleteRule
  <2>6. CASE (\E s \in Sub, n \in Name : RenameAtIdp(s, n)) \/ CrashPortal
    BY <1>1, <2>6, RenameAtIdpIdentity, CrashIdentity
  <2> QED BY <2>1, <2>2, <2>3, <2>4, <2>5, <2>6 DEF AccountsStep
<1> QED BY <1>2, <1>3

------------------------------------------------------------------------------
(* One email for each account, and one user for each email.                 *)

(* On an account that is there the invariant above says it; so what counts  *)
(* are the handlers and the users of an account that is gone.               *)
Mails(p) == OnAccount(p)' => \/ ops'[p].sub \in Accounts'
                             \/ OnAccount(p) /\ ops[p].sub = ops'[p].sub /\ ops[p].email = ops'[p].email
Linked(i) == users'[i].sub # None =>
               \/ i \in Users /\ users'[i].sub = users[i].sub /\ users'[i].email = users[i].email
               \/ \E q \in Proc : /\ OnAccount(q) /\ ops[q].sub = users'[i].sub
                                  /\ ops[q].email = users'[i].email
LEMMA MailKept ==
  ASSUME MailInv, IdentityInv', OneEmail', \A p \in Proc : Mails(p), \A i \in Users' : Linked(i)
  PROVE  MailInv'
<1>1. ASSUME NEW p \in Proc, OnAccount(p)', ops'[p].sub \in Accounts'
      PROVE  ops'[p].email = idp'[ops'[p].sub].email
  BY <1>1 DEF OnAccount, IdentityInv, HandlersInv, Claims
<1>2. ASSUME NEW p \in Proc, NEW i \in Users', OnAccount(p)', users'[i].sub = ops'[p].sub
      PROVE  users'[i].email = ops'[p].email
  <2>1. CASE ops'[p].sub \in Accounts'
    BY <1>1, <1>2, <2>1 DEF IdentityInv, Unique
  <2>2. CASE ops'[p].sub \notin Accounts'
    <3>1. OnAccount(p) /\ ops[p].sub = ops'[p].sub /\ ops[p].email = ops'[p].email
      BY <1>2, <2>2 DEF Mails
    <3>2. Linked(i) /\ users'[i].sub # None
      BY <1>2 DEF OnAccount
    <3> QED BY <1>2, <3>1, <3>2 DEF Linked, MailInv, UserMail, PeerMail
  <2> QED BY <2>1, <2>2
<1>3. ASSUME NEW p \in Proc, NEW q \in Proc, OnAccount(p)', OnAccount(q)', ops'[p].sub = ops'[q].sub
      PROVE  ops'[p].email = ops'[q].email
  <2>1. CASE ops'[p].sub \in Accounts'
    BY <1>1, <1>3, <2>1
  <2>2. CASE ops'[p].sub \notin Accounts'
    BY <1>3, <2>2 DEF Mails, MailInv, PeerMail
  <2> QED BY <2>1, <2>2
<1> QED BY <1>2, <1>3 DEF MailInv, UserMail, PeerMail

(* A step that makes no user, and whose own handler holds what it held.     *)
LEMMA MailAside ==
  ASSUME MailInv, IdentityInv', NEW p \in Proc, Bystanders(p), Mails(p), Users' \subseteq Users,
         \A i \in Users' : Linked(i) /\ users'[i].email = users[i].email
  PROVE  MailInv'
<1>1. ASSUME NEW q \in Proc \ {p} PROVE Mails(q)
  BY DEF Bystanders, Dimmed, Mails, OnAccount
<1>2. OneEmail'
  BY DEF MailInv, OneEmail
<1> QED BY <1>1, <1>2, MailKept

LEMMA MailEnds ==
  ASSUME Shaped, IdentityInv, MailInv, IdentityInv', NEW p \in Proc, End(p) \/ Throw(p),
         Users' \subseteq Users, \A i \in Users' : Linked(i) /\ users'[i].email = users[i].email
  PROVE  MailInv'
<1>1. Bystanders(p) /\ ops'[p].sub = None
  BY EndStep
<1> QED BY <1>1, MailAside DEF Mails, OnAccount

(* Users of whom a step changes neither email nor sub.                      *)
LEMMA SameUsers ==
  ASSUME UNCHANGED users
  PROVE  Users' \subseteq Users /\ \A i \in Users' : Linked(i) /\ users'[i].email = users[i].email
BY DEF Users, Linked

LEMMA MailBegins ==
  ASSUME Shaped, IdentityInv, MailInv, IdentityInv', NEW p \in Proc, NEW op, DOMAIN op = Fields,
         op.alone \in BOOLEAN, Begin(p, op), op.pc \in OnClaim => op.sub \in Accounts
  PROVE  MailInv'
<1>1. Bystanders(p) /\ Dimmed(op, ops'[p]) /\ Accounts' = Accounts
  BY Joining DEF Begin, Accounts, IdentityInv, HandlersInv
<1>2. Mails(p)
  BY <1>1 DEF Mails, OnAccount, Dimmed
<1> QED BY <1>1, <1>2, SameUsers, MailAside DEF Begin

LEMMA BeginningsMail ==
  ASSUME Shaped, IdentityInv, MailInv, IdentityInv', NEW p \in Proc
  PROVE  /\ \A e \in Email, n \in Name : BeginCreate(p, e, n) => MailInv'
         /\ \A rows \in SUBSET Email, auto \in BOOLEAN : BeginImport(p, rows, auto) => MailInv'
         /\ \A r \in RuleId : BeginToggle(p, r) => MailInv'
         /\ \A i, op, n : BeginOn(p, op, i, n) => MailInv'
         /\ \A s \in Sub : BeginCallback(p, s) => MailInv'
<1>1. ASSUME NEW e \in Email, NEW n \in Name, BeginCreate(p, e, n) PROVE MailInv'
  <2> DEFINE o == [Idle EXCEPT !.op = "create", !.pc = "find", !.email = e, !.name = n]
  <2>1. DOMAIN o = Fields /\ o.alone = TRUE /\ o.pc \notin OnClaim
    BY DEF Idle, Fields, OnClaim
  <2>2. Begin(p, o)
    BY <1>1 DEF BeginCreate
  <2> HIDE DEF o
  <2> QED BY <2>1, <2>2, MailBegins
<1>2. ASSUME NEW rows \in SUBSET Email, NEW auto \in BOOLEAN, BeginImport(p, rows, auto) PROVE MailInv'
  <2> DEFINE live == {r \in Rules : r.active}
             o == [Idle EXCEPT !.op = "import", !.pc = "row", !.rows = rows, !.flag = auto,
                               !.rules = live]
  <2>1. DOMAIN o = Fields /\ o.alone = TRUE /\ o.pc \notin OnClaim
    BY DEF Idle, Fields, OnClaim
  <2>2. Begin(p, o)
    BY <1>2 DEF BeginImport
  <2> HIDE DEF o
  <2> QED BY <2>1, <2>2, MailBegins
<1>3. ASSUME NEW r \in RuleId, BeginToggle(p, r) PROVE MailInv'
  <2> DEFINE o == [Idle EXCEPT !.op = "toggle", !.pc = "flip", !.name = r,
                               !.flag = ~ rules[r].active]
  <2>1. DOMAIN o = Fields /\ o.alone = TRUE /\ o.pc \notin OnClaim
    BY DEF Idle, Fields, OnClaim
  <2>2. Begin(p, o)
    BY <1>3 DEF BeginToggle
  <2> HIDE DEF o
  <2> QED BY <2>1, <2>2, MailBegins
<1>4. ASSUME NEW i, NEW op, NEW n, BeginOn(p, op, i, n) PROVE MailInv'
  <2> DEFINE call == /\ Provisioning /\ users[i].sub # None
                     /\ op = "profile" => n # users[i].name
             o == [Idle EXCEPT !.op = op, !.pc = "write", !.id = i, !.sub = users[i].sub,
                               !.name = n, !.flag = call]
  <2>1. DOMAIN o = Fields /\ o.alone = TRUE /\ o.pc \notin OnClaim
    BY DEF Idle, Fields, OnClaim
  <2>2. Begin(p, o)
    BY <1>4 DEF BeginOn
  <2> HIDE DEF o
  <2> QED BY <2>1, <2>2, MailBegins
<1>5. ASSUME NEW s \in Sub, BeginCallback(p, s) PROVE MailInv'
  <2> DEFINE o == [Idle EXCEPT !.op = "callback", !.pc = "lookup", !.sub = s,
                               !.email = idp[s].email, !.name = idp[s].name]
  <2>1. DOMAIN o = Fields /\ o.alone = TRUE /\ o.pc = "lookup" /\ o.sub = s
    BY DEF Idle, Fields
  <2>2. Begin(p, o) /\ s \in Accounts
    BY <1>5 DEF BeginCallback
  <2> HIDE DEF o
  <2> QED BY <2>1, <2>2, MailBegins
<1> QED BY <1>1, <1>2, <1>3, <1>4, <1>5

(* The steps of a handler that change no user.                              *)
LEMMA OwnMail ==
  ASSUME Shaped, IdentityInv, MailInv, IdentityInv', NEW p \in Proc,
         NEW o, ops' = [ops EXCEPT ![p] = o], UNCHANGED users,
         \/ o.pc \notin OnClaim \/ o.sub = None \/ o.sub \in Accounts'
         \/ ops[p].pc \in OnClaim /\ o.sub = ops[p].sub /\ o.email = ops[p].email
  PROVE  MailInv'
<1>1. ops'[p] = o /\ Bystanders(p)
  BY OwnStep
<1>2. Mails(p)
  BY <1>1 DEF Mails, OnAccount
<1> QED BY <1>1, <1>2, SameUsers, MailAside

LEMMA GoesOnMail ==
  ASSUME Shaped, IdentityInv, MailInv, IdentityInv', NEW p \in Proc, UNCHANGED users,
         NEW pc \in {"provision", "insert", "remove", "idp"}, Goto(p, pc),
         pc = "insert" => ops[p].sub = None
  PROVE  MailInv'
<1>1. Bystanders(p) /\ ops'[p].pc = pc /\ ops'[p].sub = ops[p].sub
  BY GoesOn
<1>2. Mails(p)
  BY <1>1 DEF Mails, OnAccount, OnClaim
<1> QED BY <1>1, <1>2, SameUsers, MailAside

LEMMA CreationMail ==
  ASSUME Shaped, IdentityInv, MailInv, IdentityInv', NEW p \in Proc,
         NextRow(p) \/ AutoRule(p) \/ FindNoUser(p) \/ Provision(p) \/ ToggleRule(p)
  PROVE  MailInv'
<1>1. Held(p) /\ UNCHANGED users
  <2>1. ASSUME NextRow(p) PROVE UNCHANGED users
    <3>1. UNCHANGED <<users, born, idp, issued, rules, starts, apart, outside>>
      BY <2>1, Zenon DEF NextRow
    <3> QED BY <3>1
  <2>2. AutoRule(p) => UNCHANGED users
    BY DEF AutoRule
  <2>3. FindNoUser(p) => UNCHANGED users
    BY DEF FindNoUser
  <2>4. Provision(p) => UNCHANGED users
    BY DEF Provision
  <2>5. ToggleRule(p) => UNCHANGED users
    BY DEF ToggleRule
  <2> QED BY <2>1, <2>2, <2>3, <2>4, <2>5 DEF IdentityInv, HandlersInv
<1>2. CASE End(p)
  BY <1>1, <1>2, SameUsers, MailEnds
<1>3. CASE NextRow(p) /\ ~ End(p)
  <2>1. PICK e \in ops[p].rows, next \in {"row", "provision", "rule"} :
          ops' = [ops EXCEPT ![p] = [[ops[p] EXCEPT !.rows = @ \ {e}, !.email = e] EXCEPT !.pc = next]]
    BY <1>3 DEF NextRow
  <2> DEFINE o == [[ops[p] EXCEPT !.rows = @ \ {e}, !.email = e] EXCEPT !.pc = next]
  <2>2. o.pc \notin OnClaim /\ ops' = [ops EXCEPT ![p] = o]
    BY <2>1 DEF Shaped, Fields, OnClaim
  <2> HIDE DEF o
  <2> QED BY <1>1, <2>2, OwnMail
<1>4. CASE AutoRule(p)
  <2> DEFINE new == [type |-> "exact", pattern |-> ops[p].email, active |-> TRUE]
             o == [ops[p] EXCEPT !.pc = "provision", !.rules = @ \cup {new}]
  <2>1. o.pc \notin OnClaim /\ ops' = [ops EXCEPT ![p] = o]
    BY <1>4 DEF AutoRule, Shaped, Fields, OnClaim
  <2> HIDE DEF o
  <2> QED BY <1>1, <2>1, OwnMail
<1>5. CASE FindNoUser(p) /\ ~ End(p)
  BY <1>1, <1>5, GoesOnMail DEF FindNoUser
<1>6. CASE Provision(p) /\ ~ End(p)
  <2>1. ops[p].sub = None
    BY <1>1, <1>6 DEF Provision, Held, OnUser, OnClaim
  <2>2. CASE Goto(p, "insert")
    BY <1>1, <2>1, <2>2, GoesOnMail
  <2>3. CASE ~ Goto(p, "insert")
    <3> DEFINE s == issued + 1
               account == [email |-> ops[p].email, name |-> ops[p].name, suspended |-> FALSE]
               o == [ops[p] EXCEPT !.pc = "insert", !.sub = s]
    <3>1. s \in Sub /\ idp' = [idp EXCEPT ![s] = account] /\ ops' = [ops EXCEPT ![p] = o]
      BY <1>6, <2>3 DEF Provision, Unprovisioned, Shaped
    <3>2. o.sub = s
      BY DEF Shaped, Fields
    <3>3. account # None
      <4>1. idp' \in [Sub -> AccountDoc \cup {None}] /\ idp \in [Sub -> AccountDoc \cup {None}]
        BY DEF IdentityInv, Stores
      <4>2. idp'[s] = account
        BY <3>1, <4>1
      <4>3. ops[p].email \in Email /\ ops[p].name \in Name \cup {None}
        BY <1>6 DEF Provision, IdentityInv, HandlersInv, Typed, OnClaim
      <4>4. account \in AccountDoc
        BY <4>3 DEF AccountDoc
      <4> QED BY <4>4, NoneAssumption
    <3>4. idp'[s] = account
      BY <3>1 DEF IdentityInv, Stores
    <3> HIDE DEF account, s, o
    <3>5. o.sub \in Accounts'
      BY <3>1, <3>2, <3>3, <3>4 DEF Accounts
    <3> QED BY <1>1, <3>1, <3>5, OwnMail
  <2> QED BY <2>2, <2>3
<1>7. ToggleRule(p) => End(p)
  BY DEF ToggleRule
<1> QED BY <1>2, <1>3, <1>4, <1>5, <1>6, <1>7

(* The new user has the email and the account of his handler.               *)
LEMMA InsertMail ==
  ASSUME Shaped, IdentityInv, MailInv, IdentityInv', NEW p \in Proc, Insert(p) PROVE MailInv'
<1> DEFINE user == [email |-> ops[p].email, sub |-> ops[p].sub, name |-> ops[p].name,
                    status |-> "active"]
           o == [ops[p] EXCEPT !.pc = "row", !.sub = None, !.alone = TRUE]
<1>1. CASE Throw(p) /\ UNCHANGED users
  BY <1>1, SameUsers, MailEnds
<1>2. CASE ~ (Throw(p) /\ UNCHANGED users)
  <2>1. PICK i \in Id : /\ users' = [users EXCEPT ![i] = user]
                        /\ \A j \in Users : users[j].email # ops[p].email
                        /\ End(p) \/ ops' = [ops EXCEPT ![p].pc = "row", ![p].sub = None, ![p].alone = TRUE]
    BY <1>2 DEF Insert
  <2>2. user.email = ops[p].email /\ user.sub = ops[p].sub /\ ops[p].pc = "insert"
    BY DEF Insert
  <2> HIDE DEF user
  <2>3. users'[i] = user /\ \A j \in Id \ {i} : users'[j] = users[j]
    BY <2>1 DEF IdentityInv, Stores
  <2>4. ASSUME NEW j \in Users' PROVE j = i \/ (j \in Users /\ users'[j] = users[j])
    BY <2>3 DEF Users
  <2>5. OneEmail'
    BY <2>1, <2>2, <2>3, <2>4 DEF MailInv, OneEmail
  <2>6. ASSUME NEW j \in Users' PROVE Linked(j)
    BY <2>2, <2>3, <2>4 DEF Linked, OnAccount, OnClaim
  <2>7. Bystanders(p) /\ ops'[p].sub = None
    <3>1. CASE End(p)
      BY <3>1, EndStep
    <3>2. CASE ops' = [ops EXCEPT ![p].pc = "row", ![p].sub = None, ![p].alone = TRUE]
      <4>1. o.sub = None /\ ops' = [ops EXCEPT ![p] = o]
        BY <3>2 DEF Shaped, Fields
      <4> HIDE DEF o
      <4> QED BY <4>1, OwnStep
    <3> QED BY <2>1, <3>1, <3>2
  <2>8. ASSUME NEW q \in Proc PROVE Mails(q)
    BY <2>7 DEF Bystanders, Dimmed, Mails, OnAccount
  <2> QED BY <2>5, <2>6, <2>8, MailKept
<1> QED BY <1>1, <1>2

(* The handlers that are on a user, and the callback.                       *)
LEMMA WriteMail ==
  ASSUME Shaped, IdentityInv, MailInv, IdentityInv', NEW p \in Proc,
         Write(p) \/ CallIdp(p) \/ Remove(p)
  PROVE  MailInv'
<1>1. PICK i : i = ops[p].id
  OBVIOUS
<1>2. i \in Id
  BY <1>1 DEF Write, CallIdp, Remove, IdentityInv, HandlersInv, Held, OnUser
<1>3. /\ \A j \in Id \ {i} : users'[j] = users[j]
      /\ i \in Users' => /\ i \in Users
                         /\ users'[i].email = users[i].email /\ users'[i].sub = users[i].sub
  <2>1. CASE UNCHANGED users
    BY <2>1 DEF Users
  <2>2. CASE Remove(p)
    <3>1. users'[i] = None /\ \A j \in Id \ {i} : users'[j] = users[j]
      BY <1>1, <1>2, <2>2 DEF Remove, IdentityInv, Stores
    <3> QED BY <3>1 DEF Users
  <2>3. CASE Write(p) /\ ~ UNCHANGED users
    <3>1. i \in Users
      BY <1>1, <2>3 DEF Write, Patch
    <3>2. users[i] \in UserDoc
      BY <3>1 DEF Users, IdentityInv, Stores
    <3>3. PICK new : /\ users' = [users EXCEPT ![i] = new]
                     /\ new.email = users[i].email /\ new.sub = users[i].sub
      BY <1>1, <2>3, <3>1, <3>2 DEF Write, Patch, UserDoc
    <3>4. users'[i] = new /\ \A j \in Id \ {i} : users'[j] = users[j]
      BY <1>2, <3>3 DEF IdentityInv, Stores
    <3> QED BY <3>1, <3>3, <3>4
  <2> QED BY <2>1, <2>2, <2>3 DEF CallIdp
<1>4. Users' \subseteq Users /\ \A j \in Users' : Linked(j) /\ users'[j].email = users[j].email
  BY <1>3 DEF Users, Linked
<1>5. CASE End(p)
  BY <1>4, <1>5, MailEnds
<1>6. CASE ~ End(p)
  <2>1. PICK pc \in {"idp", "remove"} : Goto(p, pc)
    BY <1>6 DEF Write, CallIdp, Remove
  <2>2. Bystanders(p) /\ ops'[p].pc = pc
    BY <2>1, GoesOn
  <2>3. Mails(p)
    BY <2>2 DEF Mails, OnAccount, OnClaim
  <2> QED BY <1>4, <2>2, <2>3, MailAside
<1> QED BY <1>5, <1>6

LEMMA LookUpMail ==
  ASSUME Shaped, IdentityInv, MailInv, IdentityInv', NEW p \in Proc, LookUp(p) PROVE MailInv'
<1> DEFINE i == IF ops[p].flag THEN ByEmail(ops[p].email) ELSE BySub(ops[p].sub)
           o == [ops[p] EXCEPT !.pc = "link", !.id = i, !.links = (users[i].sub = None), !.flag = FALSE,
                               !.name = IF @ = users[i].name THEN None ELSE @]
           missed == [ops[p] EXCEPT !.flag = TRUE]
<1>1. UNCHANGED users /\ ops[p].pc \in OnClaim /\ ops[p].alone \in BOOLEAN
  BY DEF LookUp, OnClaim, IdentityInv, HandlersInv, Typed
<1>2. CASE End(p)
  BY <1>1, <1>2, SameUsers, MailEnds
<1>3. CASE Join(p, o)
  <2>1. /\ DOMAIN o = Fields /\ o.sub = ops[p].sub /\ o.email = ops[p].email
        /\ o.alone = ops[p].alone
    BY DEF Shaped, Fields
  <2> HIDE DEF o
  <2>2. Bystanders(p) /\ Dimmed(o, ops'[p])
    BY <1>1, <1>3, <2>1, Joining DEF IdentityInv, HandlersInv
  <2>3. Mails(p)
    BY <1>1, <2>1, <2>2 DEF Mails, OnAccount, Dimmed
  <2> QED BY <1>1, <2>2, <2>3, SameUsers, MailAside
<1>4. CASE ops' = [ops EXCEPT ![p].flag = TRUE]
  <2>1. missed.sub = ops[p].sub /\ missed.email = ops[p].email /\ ops' = [ops EXCEPT ![p] = missed]
    BY <1>4 DEF Shaped, Fields
  <2> HIDE DEF missed
  <2> QED BY <1>1, <2>1, OwnMail
<1> QED BY <1>2, <1>3, <1>4 DEF LookUp

LEMMA LinkMail ==
  ASSUME Shaped, IdentityInv, MailInv, IdentityInv', NEW p \in Proc, Link(p) PROVE MailInv'
<1>1. PICK i : i = ops[p].id
  OBVIOUS
<1>2. i \in Id /\ OnAccount(p) /\ Claims(p) /\ (End(p) \/ Throw(p))
  BY <1>1 DEF Link, OnAccount, OnClaim, OnUser, IdentityInv, HandlersInv, Held
<1>3. CASE UNCHANGED users
  BY <1>2, <1>3, SameUsers, MailEnds
<1>4. CASE ~ UNCHANGED users
  <2> DEFINE new == [users[i] EXCEPT !.sub = IF ops[p].links THEN ops[p].sub ELSE @,
                                     !.name = IF ops[p].name = None THEN @ ELSE ops[p].name]
  <2>1. i \in Users /\ users' = [users EXCEPT ![i] = new]
    BY <1>1, <1>4 DEF Link, Patch
  <2>2. users[i] \in UserDoc
    BY <2>1 DEF Users, IdentityInv, Stores
  <2>3. new.email = users[i].email /\ new.sub = (IF ops[p].links THEN ops[p].sub ELSE users[i].sub)
    BY <2>2 DEF UserDoc
  <2> HIDE DEF new
  <2>4. users'[i] = new /\ \A j \in Id \ {i} : users'[j] = users[j]
    BY <1>2, <2>1 DEF IdentityInv, Stores
  <2>5. ops[p].links => users[i].email = ops[p].email
    BY <1>1, <2>1 DEF Claims, Link, IdentityInv, HandlersInv
  <2>6. Linked(i)
    BY <1>2, <2>1, <2>3, <2>4, <2>5 DEF Linked
  <2>7. Users' \subseteq Users /\ \A j \in Users' : Linked(j) /\ users'[j].email = users[j].email
    BY <2>1, <2>3, <2>4, <2>6 DEF Users, Linked
  <2> QED BY <1>2, <2>7, MailEnds
<1> QED BY <1>3, <1>4

LEMMA SurroundingsMail ==
  ASSUME Shaped, MailInv, IdentityInv', UNCHANGED users,
         \/ UNCHANGED ops
         \/ \E s \in Sub, n \in Name : RenameAtIdp(s, n)
         \/ CrashPortal
  PROVE  MailInv'
<1>1. OneEmail' /\ \A i \in Users' : Linked(i)
  BY SameUsers DEF MailInv, OneEmail
<1>2. CASE UNCHANGED ops
  BY <1>1, <1>2, MailKept DEF Mails, OnAccount
<1>3. CASE \E s \in Sub, n \in Name : RenameAtIdp(s, n)
  <2>1. PICK s \in Sub :
          ops' = [q \in Proc |-> IF q \in With(s) THEN [ops[q] EXCEPT !.alone = FALSE] ELSE ops[q]]
    BY <1>3 DEF RenameAtIdp
  <2>2. ASSUME NEW q \in Proc
        PROVE  ops'[q].pc = ops[q].pc /\ ops'[q].sub = ops[q].sub /\ ops'[q].email = ops[q].email
    BY <2>1 DEF Shaped, Fields
  <2>3. \A q \in Proc : Mails(q)
    BY <2>2 DEF Mails, OnAccount
  <2> QED BY <1>1, <2>3, MailKept
<1>4. CASE CrashPortal
  <2>1. \A q \in Proc : ops'[q].sub = None
    BY <1>4 DEF CrashPortal, Idle
  <2>2. \A q \in Proc : Mails(q)
    BY <2>1 DEF Mails, OnAccount
  <2> QED BY <1>1, <2>2, MailKept
<1> QED BY <1>2, <1>3, <1>4

LEMMA MailInitially == AccountsInit => MailInv
<1> SUFFICES ASSUME AccountsInit PROVE MailInv
  OBVIOUS
<1>1. Users \subseteq {1}
  BY NoneAssumption DEF AccountsInit, Users
<1>2. \A p \in Proc : ~ OnAccount(p)
  BY DEF AccountsInit, OnAccount, Idle
<1> QED BY <1>1, <1>2 DEF MailInv, OneEmail, UserMail, PeerMail

LEMMA MailStepKeeps ==
  AccountsInv /\ IdentityInv /\ MailInv /\ IdentityInv' /\ [AccountsNext]_avars => MailInv'
<1> SUFFICES ASSUME AccountsInv, IdentityInv, MailInv, IdentityInv', [AccountsNext]_avars
             PROVE  MailInv'
  OBVIOUS
<1>1. Shaped
  BY DEF AccountsInv
<1>2. CASE UNCHANGED avars
  BY <1>1, <1>2, SurroundingsMail DEF avars
<1>3. CASE AccountsNext
  <2>1. AccountsStep
    BY <1>3 DEF AccountsNext
  <2>2. ASSUME NEW p \in Proc,
               \/ \E e \in Email, n \in Name : BeginCreate(p, e, n)
               \/ \E rows \in (SUBSET Email) \ {{}}, auto \in BOOLEAN : BeginImport(p, rows, auto)
               \/ \E r \in RuleId : BeginToggle(p, r)
               \/ \E i \in Id, op \in {"disable", "enable", "delete"} : BeginOn(p, op, i, None)
               \/ \E i \in Id, n \in Name : BeginOn(p, "profile", i, n)
               \/ \E s \in Sub : BeginCallback(p, s)
        PROVE  MailInv'
    BY <1>1, <2>2, BeginningsMail
  <2>3. ASSUME NEW p \in Proc,
               \/ NextRow(p) \/ AutoRule(p) \/ FindNoUser(p) \/ Provision(p) \/ Insert(p)
               \/ Write(p) \/ CallIdp(p) \/ Remove(p) \/ LookUp(p) \/ Link(p) \/ ToggleRule(p)
        PROVE  MailInv'
    BY <1>1, <2>3, CreationMail, InsertMail, WriteMail, LookUpMail, LinkMail
  <2>4. CASE \/ \E type \in {"exact", "domain"}, e \in Email \cup {Domain} : CreateRule(type, e)
             \/ \E r \in RuleId : DeleteRule(r)
    BY <1>1, <2>4, SurroundingsMail DEF CreateRule, DeleteRule
  <2>5. CASE (\E s \in Sub, n \in Name : RenameAtIdp(s, n)) \/ CrashPortal
    BY <1>1, <2>5, SurroundingsMail DEF RenameAtIdp, CrashPortal
  <2> QED BY <2>1, <2>2, <2>3, <2>4, <2>5 DEF AccountsStep
<1> QED BY <1>2, <1>3

(* A user at rest is as his last handler left him: linked to an account     *)
(* that exists, suspended if and only if he is disabled, and of his name or *)
(* of none.  It holds for any number of handlers that overlap, calls that   *)
(* fail or lose their answer, and crashes: whom these may have left         *)
(* otherwise is apart, until a sign-in that nothing overlaps on its user or *)
(* its account has brought the two sides together (users.ts, auth.ts).      *)
THEOREM SidesAgree == ASSUME Provisioning PROVE AccountsSpec => []IdentityAgrees
<1>1. IdentityInv => IdentityAgrees
  <2> SUFFICES ASSUME IdentityInv, NEW i \in Users \ apart, users[i].sub # None, On(i) = {}
               PROVE  Agree(i)
    BY DEF IdentityAgrees, Agree
  <2>1. i # 0
    BY BoundsAssumption DEF Users, Id
  <2>2. \A q \in Proc : ops[q].id # i
    BY <2>1, Sharers DEF IdentityInv, HandlersInv
  <2> QED BY <2>2 DEF IdentityInv, InStep
<1> QED BY AccountsInitially, AccountsStepKeeps, IdentityInitially, IdentityStepKeeps,
           MailInitially, MailStepKeeps, <1>1, PTL DEF AccountsSpec

------------------------------------------------------------------------------
(* The usage statistics, which share no state with the accounts.            *)

(* What the steps need to know of each other: the day is one of a use, the  *)
(* writes in flight are counted, and a use in the set is one of a user who  *)
(* exists or who did, and will not again.                                   *)
Counted  == day \in 1..LastDay /\ pending \in [Use -> Nat]
Known    == \A k \in seen : k \in Use /\ k[1] \in ids \cup gone
UsageInv == Counted /\ Known /\ SeenMeansWritten

(* At the start the set is empty.                                           *)
LEMMA UsageInitially == UsageInit => UsageInv
BY UsageAssumption DEF UsageInit, UsageInv, Counted, Known, SeenMeansWritten

(* A use that enters the set has a write in flight.                         *)
LEMMA RecordingKeeps ==
  ASSUME UsageInv, NEW u \in UsageUser, NEW a \in UsageApp, RecordUsage(u, a)
  PROVE  UsageInv'
<1> DEFINE key == <<u, a, day>>
<1>1. key \in Use /\ key[1] = u
  BY DEF UsageInv, Counted, Use
<1>2. Counted'
  BY <1>1 DEF RecordUsage, UsageInv, Counted
<1>3. seen' \subseteq seen \cup {key} /\ ids' = ids /\ gone' = gone /\ u \in ids \cup gone
  BY DEF RecordUsage
<1>4. Known'
  BY <1>1, <1>3 DEF UsageInv, Known
<1>5. CASE seenDay = day /\ key \in seen
  <2>1. seen' \subseteq seen /\ pending' = pending /\ rekeyed' = rekeyed /\ used' = used
    BY <1>5 DEF RecordUsage
  <2>2. SeenMeansWritten'
    BY <1>3, <2>1 DEF UsageInv, SeenMeansWritten
  <2> QED BY <1>2, <1>4, <2>2 DEF UsageInv
<1>6. CASE seenDay = day /\ key \notin seen
  <2>1. pending' = [pending EXCEPT ![key] = @ + 1] /\ seen' = seen \cup {key}
        /\ rekeyed' = rekeyed /\ used' = used
    BY <1>6 DEF RecordUsage
  <2>2. pending'[key] > 0 /\ \A k \in Use \ {key} : pending'[k] = pending[k]
    BY <1>1, <2>1 DEF UsageInv, Counted
  <2>3. SeenMeansWritten'
    BY <1>3, <2>1, <2>2 DEF UsageInv, Known, SeenMeansWritten
  <2> QED BY <1>2, <1>4, <2>3 DEF UsageInv
<1>7. CASE seenDay # day
  <2>1. pending' = [pending EXCEPT ![key] = @ + 1] /\ seen' = {key}
    BY <1>7 DEF RecordUsage
  <2>2. pending'[key] > 0
    BY <1>1, <2>1 DEF UsageInv, Counted
  <2> QED BY <1>2, <1>4, <2>1, <2>2 DEF UsageInv, SeenMeansWritten
<1> QED BY <1>2, <1>4, <1>5, <1>6, <1>7 DEF UsageInv

(* A write that arrives leaves its row; one that fails takes its use out.   *)
LEMMA WritesKeep ==
  ASSUME UsageInv, NEW k \in Use, WriteArrives(k) \/ WriteFails(k)
  PROVE  UsageInv'
<1>1. /\ pending[k] \in Nat /\ pending[k] > 0
      /\ pending' = [pending EXCEPT ![k] = @ - 1] /\ day' = day
      /\ seen' \subseteq seen /\ ids' = ids /\ gone' = gone /\ rekeyed' = rekeyed
  BY DEF WriteArrives, WriteFails, UsageInv, Counted
<1>2. Counted' /\ \A j \in Use \ {k} : pending'[j] = pending[j]
  BY <1>1 DEF UsageInv, Counted
<1>3. Known'
  BY <1>1 DEF UsageInv, Known
<1>4. used \subseteq used' /\ (k \in used' \/ k \notin seen')
  BY DEF WriteArrives, WriteFails
<1>5. SeenMeansWritten'
  BY <1>1, <1>2, <1>4 DEF UsageInv, Known, SeenMeansWritten
<1> QED BY <1>2, <1>3, <1>5 DEF UsageInv

(* Rows go with their app, whose key is remembered, or with their user.     *)
LEMMA DeletionsKeep ==
  ASSUME UsageInv,
         \/ \E a \in UsageApp : DeleteAppUsage(a) \/ \E b \in UsageApp : RenameAppUsage(a, b)
         \/ \E u \in UsageUser : DeleteUserUsage(u)
         \/ WipeUsage
  PROVE  UsageInv'
<1>1. ASSUME NEW a \in UsageApp, DeleteAppUsage(a) PROVE UsageInv'
  BY <1>1 DEF DeleteAppUsage, UsageInv, Counted, Known, SeenMeansWritten
<1>2. ASSUME NEW a \in UsageApp, NEW b \in UsageApp, RenameAppUsage(a, b) PROVE UsageInv'
  <2>1. /\ \A k \in used : k[2] # a => k \in used'
        /\ rekeyed' = rekeyed \cup {a}
        /\ UNCHANGED <<day, seen, seenDay, pending, ids, gone, wiping>>
    BY <1>2 DEF RenameAppUsage
  <2> QED BY <2>1 DEF UsageInv, Counted, Known, SeenMeansWritten
<1>3. ASSUME NEW u \in UsageUser, DeleteUserUsage(u) PROVE UsageInv'
  BY <1>3 DEF DeleteUserUsage, UsageInv, Counted, Known, SeenMeansWritten
<1>4. ASSUME WipeUsage PROVE UsageInv'
  BY <1>4 DEF WipeUsage, UsageInv, Counted, Known, SeenMeansWritten
<1> QED BY <1>1, <1>2, <1>3, <1>4

(* The set is emptied, or a user comes who was in no use.                   *)
LEMMA OtherStepsKeep ==
  ASSUME UsageInv,
         (\E u \in UsageUser : CreateUser(u)) \/ ClearUsageDedup \/ NextDay \/ RestartUsage
  PROVE  UsageInv'
<1>1. ASSUME NEW u \in UsageUser, CreateUser(u) PROVE UsageInv'
  BY <1>1 DEF CreateUser, UsageInv, Counted, Known, SeenMeansWritten
<1>2. ASSUME ClearUsageDedup PROVE UsageInv'
  BY <1>2 DEF ClearUsageDedup, UsageInv, Counted, Known, SeenMeansWritten
<1>3. ASSUME NextDay PROVE UsageInv'
  BY <1>3, UsageAssumption DEF NextDay, UsageInv, Counted, Known, SeenMeansWritten
<1>4. ASSUME RestartUsage PROVE UsageInv'
  BY <1>4 DEF RestartUsage, UsageInv, Counted, Known, SeenMeansWritten
<1> QED BY <1>1, <1>2, <1>3, <1>4

LEMMA UsageStepKeeps == UsageInv /\ [UsageNext]_usageVars => UsageInv'
<1> SUFFICES ASSUME UsageInv, [UsageNext]_usageVars PROVE UsageInv'
  OBVIOUS
<1>1. ASSUME NEW u \in UsageUser, NEW a \in UsageApp, RecordUsage(u, a) PROVE UsageInv'
  BY <1>1, RecordingKeeps
<1>2. ASSUME NEW k \in Use, WriteArrives(k) \/ WriteFails(k) PROVE UsageInv'
  BY <1>2, WritesKeep
<1>3. CASE \/ \E a \in UsageApp : DeleteAppUsage(a) \/ \E b \in UsageApp : RenameAppUsage(a, b)
           \/ \E u \in UsageUser : DeleteUserUsage(u)
           \/ WipeUsage
  BY <1>3, DeletionsKeep
<1>4. CASE (\E u \in UsageUser : CreateUser(u)) \/ ClearUsageDedup \/ NextDay \/ RestartUsage
  BY <1>4, OtherStepsKeep
<1>5. CASE UNCHANGED usageVars
  BY <1>5 DEF usageVars, UsageInv, Counted, Known, SeenMeansWritten
<1> QED BY <1>1, <1>2, <1>3, <1>4, <1>5 DEF UsageNext

(* For any number of users, apps, days and writes in flight: the set of     *)
(* recordUsage never suppresses a use that is neither written nor on its    *)
(* way, the uses of a key deleted or renamed since excepted.                *)
THEOREM SuppressedIsWritten == UsageSpec => []SeenMeansWritten
<1>1. UsageInv => SeenMeansWritten
  BY DEF UsageInv
<1> QED BY UsageInitially, UsageStepKeeps, <1>1, PTL DEF UsageSpec
==============================================================================
