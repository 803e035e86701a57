---------------------------- MODULE SessionLife -----------------------------
(***************************************************************************)
(* What src/src/sessions.ts promises of a session, without clocks,          *)
(* documents or writes in flight: it is opened once and closed once, and    *)
(* closed it stays.  A request that presents its cookie is let in only when *)
(* the session was open at some moment of the request (when the request     *)
(* arrived, as sessions do not open again), and is turned away only when it *)
(* is closed.                                                               *)
(***************************************************************************)
CONSTANTS Session, Request, Null

VARIABLES
  life,    \* new, open or closed, for each session
  asking,  \* the requests being answered, and whether the session was open then
  answer   \* the answer of the last step, if it gave one

vars == <<life, asking, answer>>

Init ==
  /\ life = [s \in Session |-> "new"]
  /\ asking = [r \in Request |-> Null]
  /\ answer = Null

Open(s) ==
  /\ life[s] = "new"
  /\ life' = [life EXCEPT ![s] = "open"]
  /\ answer' = Null /\ UNCHANGED asking

Close(closing) ==
  /\ life' = [s \in Session |-> IF s \in closing /\ life[s] = "open" THEN "closed" ELSE life[s]]
  /\ answer' = Null /\ UNCHANGED asking

Ask(r, s) ==
  /\ asking[r] = Null /\ life[s] # "new"
  /\ asking' = [asking EXCEPT ![r] = [s |-> s, open |-> life[s] = "open"]]
  /\ answer' = Null /\ UNCHANGED life

Answer(r, accepted) ==
  /\ asking[r] # Null
  /\ IF accepted THEN asking[r].open ELSE life[asking[r].s] = "closed"
  /\ asking' = [asking EXCEPT ![r] = Null]
  /\ answer' = [s |-> asking[r].s, accepted |-> accepted]
  /\ UNCHANGED life

(* The process stops: nobody is answered any more.                          *)
Drop ==
  /\ asking' = [r \in Request |-> Null]
  /\ answer' = Null /\ UNCHANGED life

Next ==
  \/ \E s \in Session : Open(s)
  \/ \E closing \in SUBSET Session : Close(closing)
  \/ \E r \in Request :
       (\E s \in Session : Ask(r, s)) \/ (\E accepted \in BOOLEAN : Answer(r, accepted))
  \/ Drop

Spec == Init /\ [][Next]_vars
==============================================================================
