------------------------------ MODULE Sessions ------------------------------
(***************************************************************************)
(* The sessions of one user (src/src/sessions.ts): their documents, the     *)
(* requests that touch them (loadUser in src/src/middleware/auth.ts), the   *)
(* idle expiry a touch slides forward with a write nobody waits for, the    *)
(* tombstone a revocation leaves, and the store's sweep of what expired.    *)
(*                                                                          *)
(* A touch is several store calls, with anything else between two of them.  *)
(* The slide is in flight from the touch that sent it until it is applied,  *)
(* or lost; it may be overtaken by later ones.                              *)
(***************************************************************************)
EXTENDS Integers

CONSTANTS
  Session,     \* session ids: random, never used twice
  Request,     \* requests that may be in flight at once
  Null,        \* "no document"
  Idle,        \* config.session.idleSeconds, in ticks
  Absolute,    \* config.session.absoluteSeconds
  Slack,       \* a slide that gains no more than this is not written (5 min)
  MaxRequest,  \* ticks a request may take
  MaxWrite,    \* ticks a slide may be in flight
  LastStart,   \* bound: no session is opened later
  MaxTime      \* bound of the clock

ASSUME SessionsAssumption ==
  /\ Idle \in Nat \ {0}
  /\ Absolute \in Nat \ {0}
  /\ Slack \in Nat
  /\ MaxRequest \in Nat
  /\ MaxWrite \in Nat
  /\ LastStart \in Nat
  /\ MaxTime \in Nat

Doc == [expires : Nat, absolute : Nat, revoked : BOOLEAN]
AnswerType == [s : Session, accepted : BOOLEAN, force : BOOLEAN, tomb : BOOLEAN,
               idle : Nat, age : Nat]
ASSUME NullAssumption ==
  Null \notin Doc \cup AnswerType \cup Nat \cup [s : Session, open : BOOLEAN]

VARIABLES
  now,      \* Date.now()
  docs,     \* the sessions collection, by id
  issued,   \* when each session was opened, Null while it was not
  reqs,     \* the requests in flight
  slides,   \* the slides in flight: session, new expiry, when they were sent
  answer,   \* the answer this step gave, if it gave one
  lastUse,  \* history: when the session was opened or last let a request in
  past      \* history: what happened to each session

vars == <<now, docs, issued, reqs, slides, answer, lastUse, past>>

------------------------------------------------------------------------------
(* Documents.                                                               *)

MinOf(m, n) == IF m <= n THEN m ELSE n

(* A mutant of Expired: the last instant of a session still counts.         *)
ExpiredLater(doc) == doc.expires < now \/ doc.absolute < now
Expired(doc) == doc.expires <= now \/ doc.absolute <= now

(* The idle expiry a touch would set: never past the absolute cap.          *)
SlideTo(doc) == MinOf(now + Idle, doc.absolute)

(* A mutant of WorthSliding: only when the expiry is near.                  *)
SlidingOnlyNearExpiry(doc) == doc.expires - now < Slack
WorthSliding(doc) == SlideTo(doc) - doc.expires > Slack

Issued == {s \in Session : issued[s] # Null}
Usable(doc) == doc # Null /\ ~ doc.revoked
Live(s) == Usable(docs[s])

(* What may happen to a session, as the properties tell it apart: it was    *)
(* destroyed, or revoked; its document was destroyed, or had expired when   *)
(* it went; a slide was lost; a slide was applied while a request held what *)
(* it had read before; a request came later after the last use than Regular.*)
Event == {"ended", "revoked", "dropped", "lost", "crossed", "lapsed"}
MaxOf(m, n) == IF m >= n THEN m ELSE n
Regular == Idle - MaxOf(Slack, MaxRequest + MaxWrite) - MaxRequest - MaxWrite - 1
Note(marked, event) ==
  past' = [s \in Session |-> IF s \in marked THEN past[s] \cup {event} ELSE past[s]]

------------------------------------------------------------------------------
(* Opening and ending sessions.                                             *)

(* createSession: the expiry of a new session is not capped.                *)
CreateSession(s) ==
  /\ issued[s] = Null /\ now <= LastStart
  /\ docs' = [docs EXCEPT ![s] = [expires |-> now + Idle, absolute |-> now + Absolute,
                                  revoked |-> FALSE]]
  /\ issued' = [issued EXCEPT ![s] = now]
  /\ lastUse' = [lastUse EXCEPT ![s] = now]
  /\ answer' = Null /\ UNCHANGED <<now, reqs, slides, past>>

(* destroySession: /logout, and the revocation of one's current session.    *)
DestroySession(s) ==
  /\ s \in Issued
  /\ docs' = [docs EXCEPT ![s] = Null]
  /\ past' = [past EXCEPT ![s] = @ \cup {"ended", "dropped"}]
  /\ answer' = Null /\ UNCHANGED <<now, issued, reqs, slides, lastUse>>

(* destroyUserSessions: the user is disabled or deleted.                    *)
DestroyUserSessions ==
  /\ docs' = [s \in Session |-> Null]
  /\ past' = [s \in Session |-> IF s \in Issued THEN past[s] \cup {"ended", "dropped"} ELSE past[s]]
  /\ answer' = Null /\ UNCHANGED <<now, issued, reqs, slides, lastUse>>

(* A mutant of RevokeSession: the document is deleted.                      *)
RevokeByDeleting(s) ==
  /\ Live(s)
  /\ docs' = [docs EXCEPT ![s] = Null]
  /\ Note({s}, "revoked")
  /\ answer' = Null /\ UNCHANGED <<now, issued, reqs, slides, lastUse>>

(* revokeSession, from another session of the user: a tombstone.            *)
RevokeSession(s) ==
  /\ Live(s)
  /\ docs' = [docs EXCEPT ![s].revoked = TRUE]
  /\ Note({s}, "revoked")
  /\ answer' = Null /\ UNCHANGED <<now, issued, reqs, slides, lastUse>>

(* A mutant of Due: tombstones are kept.                                    *)
DueUnlessRevoked == {s \in Session : Live(s) /\ docs[s].expires < now}
(* The documents the store's sweep (or its TTL index) removes.              *)
Due == {s \in Session : docs[s] # Null /\ docs[s].expires < now}

Sweep ==
  /\ Due # {}
  /\ docs' = [s \in Session |-> IF s \in Due THEN Null ELSE docs[s]]
  /\ Note(Due, "dropped")
  /\ answer' = Null /\ UNCHANGED <<now, issued, reqs, slides, lastUse>>

------------------------------------------------------------------------------
(* A request: touchSession, then sessionIsRevoked when there is no session. *)
(* open and tomb are history: the session was live, or somebody had revoked *)
(* it, when the request arrived.                                            *)

NoRequest == [pc |-> "idle", s |-> Null, doc |-> Null, started |-> 0,
              open |-> FALSE, tomb |-> FALSE]
Step(r, pc) == reqs[r].pc = pc
Become(r, req) == reqs' = [reqs EXCEPT ![r] = req]

Respond(r, accepted, force) ==
  LET s == reqs[r].s IN
  /\ answer' = [s |-> s, accepted |-> accepted, force |-> force, tomb |-> reqs[r].tomb,
                idle |-> now - lastUse[s], age |-> now - issued[s]]
  /\ Become(r, NoRequest)

(* The browser presents the cookie of a session.                            *)
Arrive(r, s) ==
  /\ Step(r, "idle") /\ s \in Issued
  /\ Become(r, [pc |-> "read", s |-> s, doc |-> Null, started |-> now,
                open |-> Live(s), tomb |-> "revoked" \in past[s]])
  /\ answer' = Null /\ UNCHANGED <<now, docs, issued, slides, lastUse, past>>

Read(r) ==
  /\ Step(r, "read")
  /\ Become(r, [reqs[r] EXCEPT !.pc = "judge", !.doc = docs[reqs[r].s]])
  /\ answer' = Null /\ UNCHANGED <<now, docs, issued, slides, lastUse, past>>

(* The rest of touchSession, up to the store's next call.                   *)
Judge(r) ==
  LET s == reqs[r].s  doc == reqs[r].doc IN
  /\ Step(r, "judge")
  /\ IF now - lastUse[s] > Regular THEN Note({s}, "lapsed") ELSE UNCHANGED past
  /\ \/ /\ ~ Usable(doc)
        /\ Become(r, [reqs[r] EXCEPT !.pc = "tombstone", !.doc = Null])
        /\ answer' = Null /\ UNCHANGED <<slides, lastUse>>
     \/ /\ Usable(doc) /\ Expired(doc)
        /\ Become(r, [reqs[r] EXCEPT !.pc = "delete", !.doc = Null])
        /\ answer' = Null /\ UNCHANGED <<slides, lastUse>>
     \/ /\ Usable(doc) /\ ~ Expired(doc)
        /\ Respond(r, TRUE, FALSE)
        /\ slides' = slides \cup IF WorthSliding(doc)
                                 THEN {[s |-> s, expires |-> SlideTo(doc), sent |-> now]} ELSE {}
        /\ lastUse' = [lastUse EXCEPT ![s] = now]
  /\ UNCHANGED <<now, docs, issued>>

(* The document read had expired: it is deleted by its id, whatever it has  *)
(* become since.                                                            *)
DeleteExpired(r) ==
  LET s == reqs[r].s IN
  /\ Step(r, "delete")
  /\ docs' = [docs EXCEPT ![s] = Null]
  /\ IF docs[s] # Null /\ docs[s].expires <= now THEN Note({s}, "dropped") ELSE UNCHANGED past
  /\ Become(r, [reqs[r] EXCEPT !.pc = "tombstone"])
  /\ answer' = Null /\ UNCHANGED <<now, issued, slides, lastUse>>

(* No session: a tombstone forces the sign-in to be interactive.            *)
LookForTombstone(r) ==
  LET s == reqs[r].s IN
  /\ Step(r, "tombstone")
  /\ Respond(r, FALSE, docs[s] # Null /\ docs[s].revoked)
  /\ UNCHANGED <<now, docs, issued, slides, lastUse, past>>

------------------------------------------------------------------------------
(* The slides, and the end of the process.                                  *)

(* Two mutants of Slide: an upsert, which sets one field of a new document; *)
(* and the document that the touch had read, saved as a whole.              *)
SlideUpsert(w) ==
  /\ docs' = [docs EXCEPT ![w.s] =
                IF @ = Null THEN [expires |-> w.expires] ELSE [@ EXCEPT !.expires = w.expires]]
  /\ slides' = slides \ {w}
  /\ answer' = Null /\ UNCHANGED <<now, issued, reqs, lastUse, past>>

SlideWholeDocument(w) ==
  /\ docs' = [docs EXCEPT ![w.s] =
                IF @ = Null THEN Null ELSE [@ EXCEPT !.expires = w.expires, !.revoked = FALSE]]
  /\ slides' = slides \ {w}
  /\ answer' = Null /\ UNCHANGED <<now, issued, reqs, lastUse, past>>

(* updateOne: a document that is gone stays gone, a tombstone a tombstone.  *)
Slide(w) ==
  /\ docs' = [docs EXCEPT ![w.s] = IF @ = Null THEN Null ELSE [@ EXCEPT !.expires = w.expires]]
  /\ slides' = slides \ {w}
  /\ IF \E r \in Request : reqs[r].s = w.s /\ reqs[r].pc \in {"judge", "delete"}
     THEN Note({w.s}, "crossed") ELSE UNCHANGED past
  /\ answer' = Null /\ UNCHANGED <<now, issued, reqs, lastUse>>

(* The write fails: it is logged, and nobody learns of it.                  *)
LoseSlide(w) ==
  /\ slides' = slides \ {w}
  /\ Note({w.s}, "lost")
  /\ answer' = Null /\ UNCHANGED <<now, docs, issued, reqs, lastUse>>

(* The process stops: its requests and the slides in flight are gone.       *)
Restart ==
  /\ reqs' = [r \in Request |-> NoRequest]
  /\ slides' = {}
  /\ Note({w.s : w \in slides}, "lost")
  /\ answer' = Null /\ UNCHANGED <<now, docs, issued, lastUse>>

Tick ==
  /\ now < MaxTime
  /\ \A r \in Request : ~ Step(r, "idle") => now - reqs[r].started < MaxRequest
  /\ \A w \in slides : now - w.sent < MaxWrite
  /\ now' = now + 1
  /\ answer' = Null /\ UNCHANGED <<docs, issued, reqs, slides, lastUse, past>>

------------------------------------------------------------------------------
Init ==
  /\ now = 0
  /\ docs = [s \in Session |-> Null]
  /\ issued = [s \in Session |-> Null]
  /\ reqs = [r \in Request |-> NoRequest]
  /\ slides = {}
  /\ answer = Null
  /\ lastUse = [s \in Session |-> 0]
  /\ past = [s \in Session |-> {}]

RequestStep(r) == Read(r) \/ Judge(r) \/ DeleteExpired(r) \/ LookForTombstone(r)

Next ==
  \/ \E s \in Session : CreateSession(s) \/ DestroySession(s) \/ RevokeSession(s)
  \/ DestroyUserSessions
  \/ Sweep
  \/ \E r \in Request : (\E s \in Session : Arrive(r, s)) \/ RequestStep(r)
  \/ \E w \in slides : Slide(w) \/ LoseSlide(w)
  \/ Restart
  \/ Tick

(* Time passes, the store sweeps every minute, and a request or a write     *)
(* that was started comes to its end.  Nothing else has to happen.          *)
Fairness ==
  /\ WF_vars(Tick)
  /\ WF_vars(Sweep)
  /\ \A r \in Request : WF_vars(RequestStep(r))
  /\ \A t \in 0..MaxTime : WF_vars(\E w \in slides : w.sent = t /\ (Slide(w) \/ LoseSlide(w)))

Spec == Init /\ [][Next]_vars
FairSpec == Spec /\ Fairness
------------------------------------------------------------------------------
(* Properties.                                                              *)

(* Types of the documents, the requests, the slides and the answers.        *)
Req == [pc : {"read", "judge", "delete", "tombstone"}, s : Session, doc : Doc \cup {Null},
        started : Nat, open : BOOLEAN, tomb : BOOLEAN]

SessionsTypeOK ==
  /\ now \in Nat
  /\ docs \in [Session -> Doc \cup {Null}]
  /\ issued \in [Session -> Nat \cup {Null}]
  /\ reqs \in [Request -> Req \cup {NoRequest}]
  /\ slides \subseteq [s : Session, expires : Nat, sent : Nat]
  /\ answer \in AnswerType \cup {Null}
  /\ lastUse \in [Session -> Nat]
  /\ past \in [Session -> SUBSET Event]

(* The idle expiry and the absolute cap: a request is let in only within    *)
(* Idle of the last use of its session and within Absolute of its opening,  *)
(* whatever slides were late, lost or overtaken.                            *)
AcceptedIsFresh ==
  answer # Null /\ answer.accepted => answer.idle < Idle /\ answer.age < Absolute

(* The other way round: a session nobody ended, whose requests never came   *)
(* later after one another than Regular and whose slides all arrived, is    *)
(* not turned away before its absolute cap, although slides are throttled   *)
(* and may overtake each other.                                             *)
ActiveKeepsSession ==
  answer # Null /\ ~ answer.accepted =>
    past[answer.s] \cap {"ended", "revoked", "lapsed", "lost"} # {} \/ answer.age >= Absolute - Slack

(* A request that arrives after its session was revoked is sent to an       *)
(* interactive sign-in, unless the tombstone expired or was destroyed       *)
(* before the answer.  The deletion of a document that was read expired     *)
(* does not take the tombstone away - but for a slide applied between that  *)
(* read and the deletion.                                                   *)
TombstoneForces ==
  answer # Null /\ answer.tomb =>
    ~ answer.accepted /\ (answer.force \/ past[answer.s] \cap {"dropped", "crossed"} # {})

(* What SessionLife promises.                                               *)
LifeOf == [s \in Session |-> IF Live(s) THEN "open" ELSE IF s \in Issued THEN "closed" ELSE "new"]
AskingOf == [r \in Request |-> IF Step(r, "idle") THEN Null
                               ELSE [s |-> reqs[r].s, open |-> reqs[r].open]]
AnswerOf == IF answer = Null THEN Null ELSE [s |-> answer.s, accepted |-> answer.accepted]
Life == INSTANCE SessionLife WITH life <- LifeOf, asking <- AskingOf, answer <- AnswerOf

(* A session is opened once and closed for good: nothing that was in flight *)
(* when it was revoked, destroyed or swept lets a later request in.         *)
ImplementsLife == Life!Spec

(* Every document goes in the end, tombstones too, however often the        *)
(* session is used: no document is kept alive past its cap.                 *)
EveryDocumentGoes == \A s \in Session : docs[s] # Null ~> docs[s] = Null
==============================================================================
