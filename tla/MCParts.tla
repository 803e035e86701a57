------------------------------- MODULE MCParts -------------------------------
(***************************************************************************)
(* Three parts of the portal that share no state, in one run: a behaviour   *)
(* is one of the launcher, of the demo mode or of the document store.  The  *)
(* last call of the store tells no two states apart: no call reads it.      *)
(***************************************************************************)
EXTENDS Launcher, Demo, Store

VARIABLE part

PartsInit ==
  /\ LauncherInit /\ DemoInit /\ Init /\ part \in {"launcher", "demo", "store"}
  /\ part # "store" => name = "apiKeys"   \* none of them

PartsNext ==
  /\ UNCHANGED part
  /\ \/ part = "launcher" /\ LauncherNext /\ UNCHANGED <<demoVars, vars>>
     \/ part = "demo" /\ DemoNext /\ UNCHANGED <<launcherVars, vars>>
     \/ part = "store" /\ Next /\ UNCHANGED <<launcherVars, demoVars>>

PartsSpec ==
  /\ PartsInit /\ [][PartsNext]_<<launcherVars, demoVars, vars, part>>
  /\ part = "demo" => DemoFairness

PartsView == <<launcherVars, demoVars, name, rows, touched, part>>
==============================================================================
