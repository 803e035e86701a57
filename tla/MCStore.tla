------------------------------- MODULE MCStore -------------------------------
(***************************************************************************)
(* Instances of Store.  The last call tells no two states apart: no call    *)
(* reads it.                                                                *)
(***************************************************************************)
EXTENDS Store
MCView == <<name, rows, touched>>
==============================================================================
