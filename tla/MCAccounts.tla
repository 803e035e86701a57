------------------------------ MODULE MCAccounts ------------------------------
(***************************************************************************)
(* Two parts that share no state, in one run: a behaviour is one of the     *)
(* accounts or one of the usage statistics.                                 *)
(***************************************************************************)
EXTENDS Accounts, Usage

VARIABLE part

(* A user who is linked; one who is disabled; one who is not linked yet.    *)
MCBeginnings ==
  LET account(x)   == [email |-> "e1", name |-> "n1", suspended |-> x]
      user(s, st)  == [email |-> "e1", sub |-> s, name |-> "n1", status |-> st]
      domain(x) == [type |-> "domain", pattern |-> "d", active |-> x]
      exact(e)  == [type |-> "exact", pattern |-> e, active |-> TRUE]
  IN {[user |-> user(1, "active"), account |-> account(FALSE), rule |-> domain(TRUE)],
      [user |-> user(1, "disabled"), account |-> account(TRUE), rule |-> domain(FALSE)],
      [user |-> user(None, "active"), account |-> account(FALSE), rule |-> exact("e2")]}

MCInit == AccountsInit /\ UsageInit /\ part \in {"accounts", "usage"}
          /\ (part = "usage" => users[1].status = "disabled") \* one of them will do

MCNext ==
  /\ UNCHANGED part
  /\ \/ part = "accounts" /\ AccountsNext /\ UNCHANGED usageVars
     \/ part = "usage" /\ UsageNext /\ UNCHANGED avars

MCSpec == MCInit /\ [][MCNext]_<<avars, usageVars, part>>
==============================================================================
