--------------------------- MODULE SessionsProofs ---------------------------
(***************************************************************************)
(* Theorems about Sessions, for any number of sessions and requests and for *)
(* any idle time, cap and slack: the types, the freshness of every session  *)
(* that lets a request in, the refinement of SessionLife, and who is turned *)
(* away.                                                                    *)
(***************************************************************************)
EXTENDS Sessions, TLAPS

(* No session was used or opened in the future.                             *)
NoFuture ==
  \A s \in Session : lastUse[s] <= now /\ (issued[s] # Null => issued[s] <= now)

(* A document, stored or held by a request, was slid by a use of its        *)
(* session, and its cap counts from the opening.                            *)
GoodDoc(s, doc) ==
  issued[s] # Null /\ doc.expires <= lastUse[s] + Idle /\ doc.absolute = issued[s] + Absolute

GoodDocs == \A s \in Session : docs[s] # Null => GoodDoc(s, docs[s])
GoodSlides == \A w \in slides : w.expires <= lastUse[w.s] + Idle

(* A request whose session was not open when it arrived finds it closed;    *)
(* one that found it closed once finds it closed again.                     *)
GoodReq(q) ==
  /\ issued[q.s] # Null
  /\ q.doc # Null => GoodDoc(q.s, q.doc)
  /\ Usable(q.doc) \/ Live(q.s) => q.open
  /\ (q.pc = "judge" /\ ~ Usable(q.doc)) \/ q.pc = "tombstone" => ~ Live(q.s)

GoodReqs == \A r \in Request : reqs[r] # NoRequest => GoodReq(reqs[r])

SInv == SessionsTypeOK /\ NoFuture /\ GoodDocs /\ GoodSlides /\ GoodReqs

USE SessionsAssumption, NullAssumption
------------------------------------------------------------------------------
(* What an active request is.                                               *)
LEMMA Asking ==
  ASSUME SessionsTypeOK, NEW r \in Request, ~ Step(r, "idle")
  PROVE  reqs[r] \in Req /\ reqs[r] # NoRequest /\ reqs[r].s \in Session
BY DEF SessionsTypeOK, Step, Req, NoRequest

(* A request stays as good as it was when its session is only used again,   *)
(* or closed.                                                               *)
LEMMA ReqStays ==
  ASSUME SInv, NEW q \in Req, GoodReq(q), now' \in Nat,
         issued'[q.s] = issued[q.s], lastUse'[q.s] >= lastUse[q.s], lastUse'[q.s] \in Nat,
         Live(q.s)' => Live(q.s)
  PROVE  GoodReq(q)'
<1>1. q.s \in Session /\ q.doc \in Doc \cup {Null} BY DEF Req
<1>2. lastUse[q.s] \in Nat BY <1>1 DEF SInv, SessionsTypeOK
<1>3. GoodDoc(q.s, q.doc) /\ q.doc # Null => GoodDoc(q.s, q.doc)'
  BY <1>1, <1>2 DEF GoodDoc, Doc
<1>4. Usable(q.doc)' = Usable(q.doc) BY DEF Usable
<1> QED BY <1>3, <1>4 DEF GoodReq

(* A step that at most closes or uses the sessions that were opened leaves  *)
(* every request good that it does not change.                              *)
LEMMA OthersStay ==
  ASSUME SInv, NEW r \in Request, reqs[r] # NoRequest, reqs'[r] = reqs[r],
         now' \in Nat, lastUse' \in [Session -> Nat],
         \A s \in Session : issued[s] # Null =>
           issued'[s] = issued[s] /\ lastUse'[s] >= lastUse[s] /\ (Live(s)' => Live(s))
  PROVE  GoodReq(reqs[r])'
<1>1. PICK q \in Req : q = reqs[r] /\ GoodReq(q) BY DEF SInv, SessionsTypeOK, GoodReqs
<1>2. q.s \in Session /\ issued[q.s] # Null BY <1>1 DEF Req, GoodReq
<1>3. lastUse'[q.s] \in Nat BY <1>2
<1>4. GoodReq(q)' BY <1>1, <1>2, <1>3, ReqStays
<1>5. reqs'[r] = q BY <1>1
<1> QED BY <1>4, <1>5 DEF GoodReq, GoodDoc, Live, Usable

LEMMA ReqsStay ==
  ASSUME SInv, UNCHANGED reqs, now' \in Nat, lastUse' \in [Session -> Nat],
         \A s \in Session : issued[s] # Null =>
           issued'[s] = issued[s] /\ lastUse'[s] >= lastUse[s] /\ (Live(s)' => Live(s))
  PROVE  GoodReqs'
BY OthersStay DEF GoodReqs

(* What the revocations, the sweep and the deletions have in common.        *)
LEMMA Closing ==
  ASSUME SInv, UNCHANGED <<now, issued, reqs, slides, lastUse>>, answer' = Null,
         past' \in [Session -> SUBSET Event],
         docs' \in [Session -> Doc \cup {Null}],
         \A s \in Session : docs'[s] # Null =>
           /\ docs[s] # Null
           /\ docs'[s].expires = docs[s].expires /\ docs'[s].absolute = docs[s].absolute
           /\ Usable(docs'[s]) => Usable(docs[s])
  PROVE  SInv'
<1>1. SessionsTypeOK' BY DEF SInv, SessionsTypeOK
<1>2. NoFuture' BY DEF SInv, NoFuture
<1>3. GoodDocs' BY DEF SInv, GoodDocs, GoodDoc
<1>4. GoodSlides' BY DEF SInv, GoodSlides
<1>5. \A s \in Session : Live(s)' => Live(s) BY DEF Live, Usable
<1>6. GoodReqs' BY <1>1, <1>5, ReqsStay DEF SInv, SessionsTypeOK
<1> QED BY <1>1, <1>2, <1>3, <1>4, <1>6 DEF SInv

LEMMA InitInv == Init => SInv
BY DEF Init, SInv, SessionsTypeOK, NoFuture, GoodDocs, GoodSlides, GoodReqs

LEMMA CreateInv == ASSUME SInv, NEW s \in Session, CreateSession(s) PROVE SInv'
<1> DEFINE new == [expires |-> now + Idle, absolute |-> now + Absolute, revoked |-> FALSE]
<1>1. new \in Doc /\ now \in Nat BY DEF SInv, SessionsTypeOK, Doc
<1>2. SessionsTypeOK' BY <1>1 DEF CreateSession, SInv, SessionsTypeOK
<1>3. NoFuture' BY DEF CreateSession, SInv, SessionsTypeOK, NoFuture
<1>4. GoodDocs'
  BY <1>1 DEF CreateSession, SInv, SessionsTypeOK, GoodDocs, GoodDoc, Doc
<1>5. \A t \in Session : lastUse'[t] >= lastUse[t] /\ lastUse'[t] \in Nat /\ lastUse[t] \in Nat
  BY DEF CreateSession, SInv, SessionsTypeOK, NoFuture
<1>6. GoodSlides'
  <2> SUFFICES ASSUME NEW w \in slides PROVE w.expires <= lastUse'[w.s] + Idle
    BY DEF CreateSession, GoodSlides
  <2>1. w.s \in Session /\ w.expires \in Nat /\ w.expires <= lastUse[w.s] + Idle
    BY DEF SInv, SessionsTypeOK, GoodSlides
  <2> QED BY <2>1, <1>5
<1>7. GoodReqs' BY <1>2, <1>5, ReqsStay DEF CreateSession, SessionsTypeOK, Live, Usable
<1> QED BY <1>2, <1>3, <1>4, <1>6, <1>7 DEF SInv

LEMMA EndInv ==
  ASSUME SInv,
         \/ \E s \in Session : DestroySession(s) \/ RevokeSession(s)
         \/ DestroyUserSessions \/ Sweep
  PROVE  SInv'
<1>1. ASSUME NEW s \in Session, DestroySession(s) PROVE SInv'
  BY <1>1, Closing DEF DestroySession, SInv, SessionsTypeOK, Event, Usable
<1>2. ASSUME NEW s \in Session, RevokeSession(s) PROVE SInv'
  BY <1>2, Closing DEF RevokeSession, SInv, SessionsTypeOK, Event, Usable, Live, Doc, Note
<1>3. CASE DestroyUserSessions
  BY <1>3, Closing DEF DestroyUserSessions, SInv, SessionsTypeOK, Event, Usable
<1>4. CASE Sweep
  BY <1>4, Closing DEF Sweep, SInv, SessionsTypeOK, Event, Usable, Note
<1> QED BY <1>1, <1>2, <1>3, <1>4

------------------------------------------------------------------------------
(* The steps of a request.                                                  *)

(* A step that changes one request and writes no document.                  *)
LEMMA ReqStep ==
  ASSUME SInv, NEW r \in Request, UNCHANGED <<now, docs, issued, slides, lastUse>>,
         answer' = Null, past' \in [Session -> SUBSET Event],
         reqs' \in [Request -> Req \cup {NoRequest}],
         \A t \in Request : t # r => reqs'[t] = reqs[t],
         reqs'[r] # NoRequest => GoodReq(reqs[r])'
  PROVE  SInv'
<1>1. SessionsTypeOK' BY DEF SInv, SessionsTypeOK
<1>2. NoFuture' /\ GoodDocs' /\ GoodSlides'
  BY DEF SInv, NoFuture, GoodDocs, GoodSlides, GoodDoc
<1>3. GoodReqs'
  <2> SUFFICES ASSUME NEW t \in Request, reqs'[t] # NoRequest PROVE GoodReq(reqs[t])'
    BY DEF GoodReqs
  <2>1. CASE t = r BY <2>1
  <2>2. CASE t # r
    BY <2>2, OthersStay DEF SInv, SessionsTypeOK, Live, Usable
  <2> QED BY <2>1, <2>2
<1> QED BY <1>1, <1>2, <1>3 DEF SInv

LEMMA ArriveInv == ASSUME SInv, NEW r \in Request, NEW s \in Session, Arrive(r, s) PROVE SInv'
<1> DEFINE q == [pc |-> "read", s |-> s, doc |-> Null, started |-> now,
                 open |-> Live(s), tomb |-> "revoked" \in past[s]]
<1>1. q \in Req BY DEF SInv, SessionsTypeOK, Req, Live, Usable, Doc
<1>2. reqs' = [reqs EXCEPT ![r] = q] BY DEF Arrive, Become
<1>3. reqs' \in [Request -> Req \cup {NoRequest}] /\ reqs'[r] = q
  BY <1>1, <1>2 DEF SInv, SessionsTypeOK
<1>4. q.s = s /\ q.doc = Null /\ q.pc = "read" /\ q.open = Live(s) OBVIOUS
<1> HIDE DEF q
<1>5. issued[s] # Null /\ UNCHANGED <<docs, issued>> BY DEF Arrive, Issued
<1>6. Live(s)' = Live(s) BY <1>5 DEF Live, Usable
<1>7. GoodReq(reqs[r])'
  BY <1>3, <1>4, <1>5, <1>6 DEF GoodReq, Usable, Live
<1> QED BY <1>2, <1>3, <1>7, ReqStep DEF Arrive, SInv, SessionsTypeOK

LEMMA ReadInv == ASSUME SInv, NEW r \in Request, Read(r) PROVE SInv'
<1> DEFINE s == reqs[r].s
           q == [reqs[r] EXCEPT !.pc = "judge", !.doc = docs[s]]
<1>1. reqs[r] \in Req /\ s \in Session /\ GoodReq(reqs[r])
  BY Asking DEF Read, Step, SInv, GoodReqs
<1>2. docs[s] \in Doc \cup {Null} BY <1>1 DEF SInv, SessionsTypeOK
<1>3. q \in Req BY <1>1, <1>2 DEF Req
<1>4. reqs' = [reqs EXCEPT ![r] = q] BY DEF Read, Become
<1>5. reqs' \in [Request -> Req \cup {NoRequest}] /\ reqs'[r] = q
  BY <1>3, <1>4 DEF SInv, SessionsTypeOK
<1>6. q.s = s /\ q.doc = docs[s] /\ q.pc = "judge" /\ q.open = reqs[r].open BY <1>1 DEF Req
<1>7. docs[s] # Null => GoodDoc(s, docs[s]) BY <1>1 DEF SInv, GoodDocs
<1>8. GoodReq(reqs[r])'
  BY <1>1, <1>5, <1>6, <1>7 DEF Read, GoodReq, GoodDoc, Live
<1> QED BY <1>4, <1>5, <1>8, ReqStep DEF Read, SInv, SessionsTypeOK

LEMMA DeleteInv == ASSUME SInv, NEW r \in Request, DeleteExpired(r) PROVE SInv'
<1> DEFINE s == reqs[r].s
           q == [reqs[r] EXCEPT !.pc = "tombstone"]
<1>1. reqs[r] \in Req /\ s \in Session /\ GoodReq(reqs[r])
  BY Asking DEF DeleteExpired, Step, SInv, GoodReqs
<1>2. q \in Req /\ q.s = s /\ q.doc = reqs[r].doc /\ q.pc = "tombstone" /\ q.open = reqs[r].open
  BY <1>1 DEF Req
<1>3. /\ reqs' = [reqs EXCEPT ![r] = q] /\ docs' = [docs EXCEPT ![s] = Null]
      /\ UNCHANGED <<now, issued, slides, lastUse>> /\ answer' = Null
  BY DEF DeleteExpired, Become
<1> HIDE DEF s, q
<1>4. /\ reqs' \in [Request -> Req \cup {NoRequest}] /\ reqs'[r] = q
      /\ docs' \in [Session -> Doc \cup {Null}] /\ docs'[s] = Null
  BY <1>1, <1>2, <1>3 DEF SInv, SessionsTypeOK
<1>5. past' \in [Session -> SUBSET Event]
  BY DEF DeleteExpired, Note, Event, SInv, SessionsTypeOK
<1>6. \A t \in Session : docs'[t] = docs[t] \/ docs'[t] = Null
  BY <1>3 DEF SInv, SessionsTypeOK
<1>7. \A t \in Session : Live(t)' => Live(t) BY <1>6 DEF Live, Usable
<1>8. SessionsTypeOK' BY <1>3, <1>4, <1>5 DEF SInv, SessionsTypeOK
<1>9. NoFuture' /\ GoodSlides' BY <1>3 DEF SInv, NoFuture, GoodSlides
<1>10. GoodDocs' BY <1>3, <1>6 DEF SInv, GoodDocs, GoodDoc
<1>11. GoodReq(reqs[r])'
  <2>1. ~ Usable(docs'[s]) BY <1>4 DEF Usable
  <2>2. issued[s] # Null /\ (q.doc # Null => GoodDoc(s, q.doc)) /\ (Usable(q.doc) => q.open)
    BY <1>1, <1>2 DEF GoodReq, s
  <2> QED BY <1>2, <1>3, <1>4, <2>1, <2>2 DEF GoodReq, GoodDoc, Usable, Live
<1>12. GoodReqs'
  <2> SUFFICES ASSUME NEW t \in Request, reqs'[t] # NoRequest PROVE GoodReq(reqs[t])'
    BY DEF GoodReqs
  <2>1. CASE t = r BY <2>1, <1>11
  <2>2. CASE t # r
    <3>1. reqs'[t] = reqs[t] BY <1>3, <2>2 DEF SInv, SessionsTypeOK
    <3> QED BY <3>1, <1>3, <1>7, OthersStay DEF SInv, SessionsTypeOK
  <2> QED BY <2>1, <2>2
<1> QED BY <1>8, <1>9, <1>10, <1>12 DEF SInv

(* A request that is let in uses its session; nothing is written yet.       *)
LEMMA AcceptInv ==
  ASSUME SInv, NEW r \in Request, Judge(r), Usable(reqs[r].doc), ~ Expired(reqs[r].doc)
  PROVE  SInv'
<1> DEFINE s == reqs[r].s
           doc == reqs[r].doc
           w == [s |-> s, expires |-> SlideTo(doc), sent |-> now]
<1>1. reqs[r] \in Req /\ s \in Session /\ GoodReq(reqs[r])
  BY Asking DEF Judge, Step, SInv, GoodReqs
<1>2. doc \in Doc /\ issued[s] # Null BY <1>1 DEF Req, GoodReq, Usable
<1>3. /\ Respond(r, TRUE, FALSE) /\ slides' \subseteq slides \cup {w}
      /\ lastUse' = [lastUse EXCEPT ![s] = now] /\ UNCHANGED <<now, docs, issued>>
  BY DEF Judge
<1>4. now \in Nat /\ issued[s] \in Nat /\ lastUse[s] \in Nat /\ issued[s] <= now /\ lastUse[s] <= now
  BY <1>1, <1>2 DEF SInv, SessionsTypeOK, NoFuture
<1>5. SlideTo(doc) \in Nat /\ SlideTo(doc) <= now + Idle
  BY <1>2, <1>4 DEF SlideTo, MinOf, Doc
<1>6. w \in [s : Session, expires : Nat, sent : Nat] BY <1>1, <1>4, <1>5
<1>7. past' \in [Session -> SUBSET Event] BY DEF Judge, Note, Event, SInv, SessionsTypeOK
<1>8. answer' \in AnswerType
  <2>1. answer' = [s |-> s, accepted |-> TRUE, force |-> FALSE, tomb |-> reqs[r].tomb,
                   idle |-> now - lastUse[s], age |-> now - issued[s]]
    BY <1>3 DEF Respond
  <2>2. now - lastUse[s] \in Nat /\ now - issued[s] \in Nat BY <1>4
  <2>3. reqs[r].tomb \in BOOLEAN BY <1>1 DEF Req
  <2> QED BY <1>1, <2>1, <2>2, <2>3 DEF AnswerType
<1>9. reqs' = [reqs EXCEPT ![r] = NoRequest] BY <1>3 DEF Respond, Become
<1>10. lastUse' \in [Session -> Nat] /\ \A t \in Session : lastUse'[t] >= lastUse[t]
  BY <1>1, <1>3, <1>4 DEF SInv, SessionsTypeOK
<1> HIDE DEF s, doc, w
<1>11. SessionsTypeOK'
  BY <1>3, <1>6, <1>7, <1>8, <1>9, <1>10 DEF SInv, SessionsTypeOK
<1>12. NoFuture' BY <1>3, <1>4 DEF SInv, SessionsTypeOK, NoFuture
<1>13. GoodDocs' BY <1>3, <1>10, <1>4 DEF SInv, SessionsTypeOK, GoodDocs, GoodDoc, Doc
<1>14. GoodSlides'
  <2> SUFFICES ASSUME NEW v \in slides' PROVE v.expires <= lastUse'[v.s] + Idle
    BY DEF GoodSlides
  <2>1. CASE v = w BY <2>1, <1>1, <1>3, <1>5 DEF w, SInv, SessionsTypeOK
  <2>2. CASE v \in slides
    <3>1. v.s \in Session /\ v.expires \in Nat /\ v.expires <= lastUse[v.s] + Idle
      BY <2>2 DEF SInv, SessionsTypeOK, GoodSlides
    <3> QED BY <3>1, <1>10 DEF SInv, SessionsTypeOK
  <2> QED BY <2>1, <2>2, <1>3
<1>15. GoodReqs'
  <2> SUFFICES ASSUME NEW t \in Request, reqs'[t] # NoRequest PROVE GoodReq(reqs[t])'
    BY DEF GoodReqs
  <2>1. t # r /\ reqs'[t] = reqs[t] BY <1>9 DEF SInv, SessionsTypeOK
  <2> QED BY <2>1, <1>3, <1>4, <1>10, OthersStay DEF SInv, SessionsTypeOK, Live, Usable
<1> QED BY <1>11, <1>12, <1>13, <1>14, <1>15 DEF SInv

LEMMA JudgeInv == ASSUME SInv, NEW r \in Request, Judge(r) PROVE SInv'
<1> DEFINE next(pc) == [reqs[r] EXCEPT !.pc = pc, !.doc = Null]
<1>1. reqs[r] \in Req /\ GoodReq(reqs[r]) BY Asking DEF Judge, Step, SInv, GoodReqs
<1>2. CASE Usable(reqs[r].doc) /\ ~ Expired(reqs[r].doc) BY <1>2, AcceptInv
<1>3. ASSUME NEW pc \in {"tombstone", "delete"}, reqs' = [reqs EXCEPT ![r] = next(pc)],
             answer' = Null, UNCHANGED <<now, docs, issued, slides, lastUse>>,
             pc = "tombstone" => ~ Usable(reqs[r].doc)
      PROVE  SInv'
  <2>1. /\ next(pc) \in Req /\ next(pc).s = reqs[r].s /\ next(pc).doc = Null
        /\ next(pc).pc = pc /\ next(pc).open = reqs[r].open
    BY <1>1 DEF Req
  <2>2. reqs' \in [Request -> Req \cup {NoRequest}] /\ reqs'[r] = next(pc)
    BY <1>3, <2>1 DEF SInv, SessionsTypeOK
  <2>3. past' \in [Session -> SUBSET Event] BY DEF Judge, Note, Event, SInv, SessionsTypeOK
  <2> HIDE DEF next
  <2>4. Live(reqs[r].s) => reqs[r].open /\ pc # "tombstone"
    BY <1>1, <1>3 DEF GoodReq, Judge, Step
  <2>5. GoodReq(reqs[r])'
    BY <1>1, <1>3, <2>1, <2>2, <2>4 DEF GoodReq, Usable, Live
  <2> QED BY <1>3, <2>2, <2>3, <2>5, ReqStep DEF SInv, SessionsTypeOK
<1>4. CASE ~ Usable(reqs[r].doc)
  BY <1>4, <1>3 DEF Judge, Become
<1>5. CASE Usable(reqs[r].doc) /\ Expired(reqs[r].doc)
  BY <1>5, <1>3 DEF Judge, Become
<1> QED BY <1>2, <1>4, <1>5

LEMMA LookInv == ASSUME SInv, NEW r \in Request, LookForTombstone(r) PROVE SInv'
<1> DEFINE s == reqs[r].s
           force == docs[s] # Null /\ docs[s].revoked
<1>1. reqs[r] \in Req /\ s \in Session /\ GoodReq(reqs[r])
  BY Asking DEF LookForTombstone, Step, SInv, GoodReqs
<1>2. /\ Respond(r, FALSE, force) /\ UNCHANGED <<now, docs, issued, slides, lastUse, past>>
  BY DEF LookForTombstone
<1>3. force \in BOOLEAN BY <1>1 DEF SInv, SessionsTypeOK, Doc
<1>4. now - lastUse[s] \in Nat /\ now - issued[s] \in Nat
  BY <1>1 DEF SInv, SessionsTypeOK, NoFuture, GoodReq
<1>5. reqs[r].tomb \in BOOLEAN BY <1>1 DEF Req
<1> HIDE DEF force
<1>6. answer' \in AnswerType
  BY <1>1, <1>2, <1>3, <1>4, <1>5 DEF Respond, AnswerType
<1>7. reqs' = [reqs EXCEPT ![r] = NoRequest] BY <1>2 DEF Respond, Become
<1>8. SessionsTypeOK' BY <1>2, <1>6, <1>7 DEF SInv, SessionsTypeOK
<1>9. NoFuture' /\ GoodDocs' /\ GoodSlides'
  BY <1>2 DEF SInv, NoFuture, GoodDocs, GoodSlides, GoodDoc
<1>10. GoodReqs'
  <2> SUFFICES ASSUME NEW t \in Request, reqs'[t] # NoRequest PROVE GoodReq(reqs[t])'
    BY DEF GoodReqs
  <2>1. t # r /\ reqs'[t] = reqs[t] BY <1>7 DEF SInv, SessionsTypeOK
  <2> QED BY <2>1, <1>2, OthersStay DEF SInv, SessionsTypeOK, Live, Usable
<1> QED BY <1>8, <1>9, <1>10 DEF SInv

------------------------------------------------------------------------------
(* The slides, the restart and the clock.                                   *)

LEMMA SlideInv == ASSUME SInv, NEW w \in slides, Slide(w) PROVE SInv'
<1>1. w.s \in Session /\ w.expires \in Nat /\ w.expires <= lastUse[w.s] + Idle
  BY DEF SInv, SessionsTypeOK, GoodSlides
<1>2. docs[w.s] \in Doc \cup {Null} BY <1>1 DEF SInv, SessionsTypeOK
<1>3. /\ slides' = slides \ {w} /\ answer' = Null /\ UNCHANGED <<now, issued, reqs, lastUse>>
      /\ \A t \in Session : t # w.s => docs'[t] = docs[t]
      /\ docs'[w.s] = IF docs[w.s] = Null THEN Null ELSE [docs[w.s] EXCEPT !.expires = w.expires]
      /\ docs' = [docs EXCEPT ![w.s] = docs'[w.s]]
  BY <1>1 DEF Slide, SInv, SessionsTypeOK
<1>4. docs[w.s] # Null => /\ docs'[w.s] \in Doc /\ docs'[w.s].expires = w.expires
                          /\ docs'[w.s].absolute = docs[w.s].absolute
                          /\ docs'[w.s].revoked = docs[w.s].revoked
  BY <1>1, <1>2, <1>3 DEF Doc
<1>5. docs' \in [Session -> Doc \cup {Null}] BY <1>3, <1>4 DEF SInv, SessionsTypeOK
<1>6. past' \in [Session -> SUBSET Event] BY DEF Slide, Note, Event, SInv, SessionsTypeOK
<1>7. SessionsTypeOK' BY <1>3, <1>5, <1>6 DEF SInv, SessionsTypeOK
<1>8. NoFuture' /\ GoodSlides' BY <1>3 DEF SInv, NoFuture, GoodSlides
<1>9. GoodDocs'
  <2> SUFFICES ASSUME NEW t \in Session, docs'[t] # Null PROVE GoodDoc(t, docs[t])'
    BY DEF GoodDocs
  <2>1. docs[t] # Null /\ GoodDoc(t, docs[t]) BY <1>3 DEF SInv, GoodDocs
  <2> QED BY <2>1, <1>1, <1>3, <1>4 DEF GoodDoc
<1>10. \A t \in Session : Live(t)' => Live(t) BY <1>3, <1>4 DEF Live, Usable
<1>11. GoodReqs' BY <1>3, <1>7, <1>10, ReqsStay DEF SInv, SessionsTypeOK
<1> QED BY <1>7, <1>8, <1>9, <1>11 DEF SInv

LEMMA LoseInv == ASSUME SInv, NEW w \in slides, LoseSlide(w) PROVE SInv'
<1>1. /\ slides' \subseteq slides /\ answer' = Null
      /\ UNCHANGED <<now, docs, issued, reqs, lastUse>>
      /\ past' \in [Session -> SUBSET Event]
  BY DEF LoseSlide, Note, Event, SInv, SessionsTypeOK
<1>2. SessionsTypeOK' BY <1>1 DEF SInv, SessionsTypeOK
<1>3. NoFuture' /\ GoodDocs' /\ GoodSlides'
  BY <1>1 DEF SInv, NoFuture, GoodDocs, GoodSlides, GoodDoc
<1>4. GoodReqs' BY <1>1, ReqsStay DEF SInv, SessionsTypeOK, Live, Usable
<1> QED BY <1>2, <1>3, <1>4 DEF SInv

LEMMA RestartInv == ASSUME SInv, Restart PROVE SInv'
<1>1. /\ reqs' = [r \in Request |-> NoRequest] /\ slides' = {} /\ answer' = Null
      /\ UNCHANGED <<now, docs, issued, lastUse>>
      /\ past' \in [Session -> SUBSET Event]
  BY DEF Restart, Note, Event, SInv, SessionsTypeOK
<1> QED BY <1>1 DEF SInv, SessionsTypeOK, NoFuture, GoodDocs, GoodSlides, GoodDoc, GoodReqs

LEMMA TickInv == ASSUME SInv, Tick PROVE SInv'
<1>1. /\ now' = now + 1 /\ answer' = Null
      /\ UNCHANGED <<docs, issued, reqs, slides, lastUse, past>> /\ now \in Nat
  BY DEF Tick, SInv, SessionsTypeOK
<1>2. SessionsTypeOK' BY <1>1 DEF SInv, SessionsTypeOK
<1>3. NoFuture' BY <1>1 DEF SInv, SessionsTypeOK, NoFuture
<1>4. GoodDocs' /\ GoodSlides' BY <1>1 DEF SInv, GoodDocs, GoodSlides, GoodDoc
<1>5. GoodReqs' BY <1>1, ReqsStay DEF SInv, SessionsTypeOK, Live, Usable
<1> QED BY <1>2, <1>3, <1>4, <1>5 DEF SInv

LEMMA StutterInv == ASSUME SInv, UNCHANGED vars PROVE SInv'
<1>1. UNCHANGED <<now, docs, issued, reqs, slides, answer, lastUse, past>> BY DEF vars
<1>2. SessionsTypeOK' /\ NoFuture' /\ GoodDocs' /\ GoodSlides'
  BY <1>1 DEF SInv, SessionsTypeOK, NoFuture, GoodDocs, GoodSlides, GoodDoc
<1>3. GoodReqs' BY <1>1, ReqsStay DEF SInv, SessionsTypeOK, Live, Usable
<1> QED BY <1>2, <1>3 DEF SInv

LEMMA NextInv == ASSUME SInv, [Next]_vars PROVE SInv'
<1>1. CASE \E s \in Session : CreateSession(s) BY <1>1, CreateInv
<1>2. CASE \/ \E s \in Session : DestroySession(s) \/ RevokeSession(s)
           \/ DestroyUserSessions \/ Sweep
  BY <1>2, EndInv
<1>3. CASE \E r \in Request : \E s \in Session : Arrive(r, s) BY <1>3, ArriveInv
<1>4. CASE \E r \in Request : RequestStep(r)
  BY <1>4, ReadInv, JudgeInv, DeleteInv, LookInv DEF RequestStep
<1>5. CASE \E w \in slides : Slide(w) \/ LoseSlide(w) BY <1>5, SlideInv, LoseInv
<1>6. CASE Restart \/ Tick BY <1>6, RestartInv, TickInv
<1>7. CASE UNCHANGED vars BY <1>7, StutterInv
<1> QED BY <1>1, <1>2, <1>3, <1>4, <1>5, <1>6, <1>7 DEF Next

(* The invariant of the sessions: no use in the future, no document slid    *)
(* further than its last use allows, no request that was answered what its  *)
(* session was not.                                                         *)
THEOREM SessionsInvariant == Spec => []SInv
<1>1. SInv /\ [Next]_vars => SInv' BY NextInv
<1> QED BY InitInv, <1>1, PTL DEF Spec

(* Documents, requests, slides and answers keep their types.                *)
THEOREM SessionsTypeCorrect == Spec => []SessionsTypeOK
BY SessionsInvariant, PTL DEF SInv

------------------------------------------------------------------------------
(* Freshness.                                                               *)

(* A step that lets a request in has judged a document that has not         *)
(* expired; the document's expiry is bounded by the last use, its cap by    *)
(* the opening.                                                             *)
LEMMA FreshStep ==
  ASSUME SInv, NEW r \in Request, Judge(r), Usable(reqs[r].doc), ~ Expired(reqs[r].doc)
  PROVE  AcceptedIsFresh'
<1> DEFINE s == reqs[r].s
           doc == reqs[r].doc
<1>1. reqs[r] \in Req /\ s \in Session /\ GoodReq(reqs[r])
  BY Asking DEF Judge, Step, SInv, GoodReqs
<1>2. doc \in Doc /\ GoodDoc(s, doc) BY <1>1 DEF Req, GoodReq, Usable
<1>3. now \in Nat /\ issued[s] \in Nat /\ lastUse[s] \in Nat
  BY <1>1, <1>2 DEF SInv, SessionsTypeOK, GoodDoc
<1>4. doc.expires > now /\ doc.absolute > now BY <1>2, <1>3 DEF Expired, Doc
<1>5. now - lastUse[s] < Idle /\ now - issued[s] < Absolute
  BY <1>2, <1>3, <1>4 DEF GoodDoc, Doc
<1>6. answer' = [s |-> s, accepted |-> TRUE, force |-> FALSE, tomb |-> reqs[r].tomb,
                 idle |-> now - lastUse[s], age |-> now - issued[s]]
  BY DEF Judge, Respond
<1> QED BY <1>5, <1>6 DEF AcceptedIsFresh

LEMMA FreshNext == ASSUME SInv, AcceptedIsFresh, [Next]_vars PROVE AcceptedIsFresh'
<1>1. ASSUME answer' = Null PROVE AcceptedIsFresh' BY <1>1 DEF AcceptedIsFresh
<1>2. ASSUME NEW r \in Request, Judge(r) PROVE AcceptedIsFresh'
  BY <1>1, <1>2, FreshStep DEF Judge
<1>3. ASSUME NEW r \in Request, LookForTombstone(r) PROVE AcceptedIsFresh'
  BY <1>3 DEF LookForTombstone, Respond, AcceptedIsFresh
<1>4. ASSUME NEW s \in Session, CreateSession(s) \/ DestroySession(s) \/ RevokeSession(s)
      PROVE  answer' = Null
  BY <1>4 DEF CreateSession, DestroySession, RevokeSession
<1>5. ASSUME NEW r \in Request,
             (\E s \in Session : Arrive(r, s)) \/ Read(r) \/ DeleteExpired(r)
      PROVE  answer' = Null
  BY <1>5 DEF Arrive, Read, DeleteExpired
<1>6. ASSUME NEW w \in slides, Slide(w) \/ LoseSlide(w) PROVE answer' = Null
  BY <1>6 DEF Slide, LoseSlide
<1>7. ASSUME DestroyUserSessions \/ Sweep \/ Restart \/ Tick PROVE answer' = Null
  BY <1>7 DEF DestroyUserSessions, Sweep, Restart, Tick
<1>8. CASE UNCHANGED vars BY <1>8 DEF vars, AcceptedIsFresh
<1> QED BY <1>1, <1>2, <1>3, <1>4, <1>5, <1>6, <1>7, <1>8 DEF Next, RequestStep

(* A request is let in only within Idle of the last use of its session and  *)
(* within Absolute of its opening, whatever slides were late, lost or       *)
(* overtaken.                                                               *)
THEOREM AcceptingIsFresh == Spec => []AcceptedIsFresh
<1>1. Init => AcceptedIsFresh BY DEF Init, AcceptedIsFresh
<1>2. SInv /\ AcceptedIsFresh /\ [Next]_vars => AcceptedIsFresh' BY FreshNext
<1> QED BY SessionsInvariant, <1>1, <1>2, PTL DEF Spec

------------------------------------------------------------------------------
(* The refinement of SessionLife.                                           *)

(* A step that gives no answer, changes no request as SessionLife sees it,  *)
(* and opens no session closes those that were open and no longer are.      *)
LEMMA ClosingStep ==
  ASSUME SInv, answer' = Null, AskingOf' = AskingOf, issued' = issued,
         \A s \in Session : Live(s)' => Live(s)
  PROVE  Life!Next
<1> DEFINE closing == {s \in Session : Live(s) /\ ~ Live(s)'}
<1>1. \A s \in Session : Live(s) => s \in Issued
  BY DEF Live, Usable, Issued, SInv, GoodDocs, GoodDoc
<1>2. LifeOf' = [s \in Session |-> IF s \in closing /\ LifeOf[s] = "open" THEN "closed"
                                                                          ELSE LifeOf[s]]
  BY <1>1 DEF LifeOf, Issued
<1>3. AnswerOf' = Null BY DEF AnswerOf
<1> HIDE DEF closing
<1>4. Life!Close(closing) BY <1>2, <1>3 DEF Life!Close
<1>5. closing \in SUBSET Session BY DEF closing
<1> QED BY <1>4, <1>5 DEF Life!Next

(* The same, when the requests are left alone.                              *)
LEMMA QuietStep ==
  ASSUME SInv, answer' = Null, UNCHANGED <<reqs, issued>>,
         \A s \in Session : Live(s)' => Live(s)
  PROVE  Life!Next
<1>1. AskingOf' = AskingOf BY DEF AskingOf, Step
<1> QED BY <1>1, ClosingStep

LEMMA OpenStep == ASSUME SInv, NEW s \in Session, CreateSession(s) PROVE Life!Next
<1>1. /\ issued[s] = Null /\ issued' = [issued EXCEPT ![s] = now] /\ now \in Nat
      /\ docs' = [docs EXCEPT ![s] = docs'[s]] /\ Usable(docs'[s])
      /\ UNCHANGED reqs /\ answer' = Null
  <2>1. [expires |-> now + Idle, absolute |-> now + Absolute, revoked |-> FALSE] \in Doc
    BY DEF SInv, SessionsTypeOK, Doc
  <2> QED BY <2>1 DEF CreateSession, SInv, SessionsTypeOK, Usable
<1>2. LifeOf[s] = "new" BY <1>1 DEF LifeOf, Issued, Live, Usable, SInv, GoodDocs, GoodDoc
<1>3. LifeOf' = [LifeOf EXCEPT ![s] = "open"]
  <2>1. Live(s)' BY <1>1 DEF Live, Usable
  <2>2. \A t \in Session : t # s => /\ Live(t)' = Live(t)
                                    /\ issued'[t] = issued[t]
    BY <1>1 DEF Live, Usable, SInv, SessionsTypeOK
  <2>3. \A t \in Session : LifeOf'[t] = IF t = s THEN "open" ELSE LifeOf[t]
    BY <2>1, <2>2 DEF LifeOf, Issued
  <2> QED BY <2>3 DEF LifeOf
<1>4. AskingOf' = AskingOf /\ AnswerOf' = Null BY <1>1 DEF AskingOf, AnswerOf, Step
<1>5. Life!Open(s) BY <1>2, <1>3, <1>4 DEF Life!Open
<1> QED BY <1>5 DEF Life!Next

LEMMA AskStep ==
  ASSUME SInv, NEW r \in Request, NEW s \in Session, Arrive(r, s) PROVE Life!Next
<1> DEFINE q == [pc |-> "read", s |-> s, doc |-> Null, started |-> now,
                 open |-> Live(s), tomb |-> "revoked" \in past[s]]
<1>1. /\ Step(r, "idle") /\ s \in Issued /\ reqs' = [reqs EXCEPT ![r] = q]
      /\ UNCHANGED <<docs, issued>> /\ answer' = Null
  BY DEF Arrive, Become
<1>2. q.s = s /\ q.open = Live(s) /\ q.pc = "read" OBVIOUS
<1> HIDE DEF q
<1>3. LifeOf' = LifeOf /\ AnswerOf' = Null BY <1>1 DEF LifeOf, Live, Usable, Issued, AnswerOf
<1>4. AskingOf[r] = Null /\ LifeOf[s] # "new" BY <1>1 DEF AskingOf, LifeOf
<1>5. Live(s) <=> LifeOf[s] = "open" BY DEF LifeOf
<1>6. Live(s) \in BOOLEAN BY DEF Live, Usable, SInv, SessionsTypeOK, Doc
<1>7. \A t \in Request :
        AskingOf'[t] = IF t = r THEN [s |-> s, open |-> LifeOf[s] = "open"] ELSE AskingOf[t]
  BY <1>1, <1>2, <1>5, <1>6 DEF AskingOf, Step, SInv, SessionsTypeOK
<1>8. AskingOf' = [AskingOf EXCEPT ![r] = [s |-> s, open |-> LifeOf[s] = "open"]]
  BY <1>7 DEF AskingOf
<1>9. Life!Ask(r, s) BY <1>3, <1>4, <1>8 DEF Life!Ask
<1> QED BY <1>9 DEF Life!Next

(* An answer: TRUE only if the session was open, FALSE only if it is        *)
(* closed.                                                                  *)
LEMMA AnswerStep ==
  ASSUME SInv, NEW r \in Request, NEW accepted \in BOOLEAN, NEW force \in BOOLEAN,
         ~ Step(r, "idle"), Respond(r, accepted, force), UNCHANGED <<docs, issued>>,
         IF accepted THEN reqs[r].open ELSE ~ Live(reqs[r].s)
  PROVE  Life!Next
<1> DEFINE s == reqs[r].s
<1>1. reqs[r] \in Req /\ s \in Session /\ issued[s] # Null
  BY Asking DEF SInv, GoodReqs, GoodReq
<1>2. AskingOf[r] = [s |-> s, open |-> reqs[r].open] /\ AskingOf[r] # Null
  <2>1. AskingOf[r] = [s |-> s, open |-> reqs[r].open] BY DEF AskingOf
  <2>2. reqs[r].open \in BOOLEAN BY <1>1 DEF Req
  <2> QED BY <2>1, <2>2, <1>1
<1>3. IF accepted THEN AskingOf[r].open ELSE LifeOf[AskingOf[r].s] = "closed"
  BY <1>1, <1>2 DEF LifeOf, Issued
<1>4. reqs' = [reqs EXCEPT ![r] = NoRequest] BY DEF Respond, Become
<1>5. AskingOf' = [AskingOf EXCEPT ![r] = Null]
  <2>1. \A t \in Request : AskingOf'[t] = IF t = r THEN Null ELSE AskingOf[t]
    BY <1>4 DEF AskingOf, Step, NoRequest, SInv, SessionsTypeOK
  <2> QED BY <2>1 DEF AskingOf
<1>6. AnswerOf' = [s |-> s, accepted |-> accepted]
  <2>1. answer' = [s |-> s, accepted |-> accepted, force |-> force, tomb |-> reqs[r].tomb,
                   idle |-> now - lastUse[s], age |-> now - issued[s]]
    BY DEF Respond
  <2> DEFINE a == [s |-> s, accepted |-> accepted, force |-> force, tomb |-> reqs[r].tomb,
                   idle |-> now - lastUse[s], age |-> now - issued[s]]
  <2>2. a.s = s /\ a.accepted = accepted OBVIOUS
  <2>3. a \in AnswerType
    <3>1. now - lastUse[s] \in Nat /\ now - issued[s] \in Nat
      BY <1>1 DEF SInv, SessionsTypeOK, NoFuture
    <3>2. reqs[r].tomb \in BOOLEAN BY <1>1 DEF Req
    <3> QED BY <1>1, <3>1, <3>2 DEF AnswerType
  <2> QED BY <2>1, <2>2, <2>3 DEF AnswerOf
<1>7. LifeOf' = LifeOf BY DEF LifeOf, Live, Usable, Issued
<1>8. Life!Answer(r, accepted) BY <1>2, <1>3, <1>5, <1>6, <1>7 DEF Life!Answer
<1> QED BY <1>8 DEF Life!Next

LEMMA RequestRefines == ASSUME SInv, NEW r \in Request, RequestStep(r) PROVE Life!Next
<1>1. ~ Step(r, "idle") BY DEF RequestStep, Read, Judge, DeleteExpired, LookForTombstone, Step
<1>2. reqs[r] \in Req /\ reqs[r].s \in Session /\ GoodReq(reqs[r])
  BY <1>1, Asking DEF SInv, GoodReqs
<1>3. ASSUME NEW q \in Req, q.s = reqs[r].s, q.open = reqs[r].open, q.pc # "idle",
             reqs' = [reqs EXCEPT ![r] = q]
      PROVE  AskingOf' = AskingOf
  <2>1. \A t \in Request : AskingOf'[t] = AskingOf[t]
    BY <1>1, <1>3 DEF AskingOf, Step, SInv, SessionsTypeOK
  <2> QED BY <2>1 DEF AskingOf
<1>4. CASE Read(r)
  <2> DEFINE q == [reqs[r] EXCEPT !.pc = "judge", !.doc = docs[reqs[r].s]]
  <2>1. q \in Req /\ q.s = reqs[r].s /\ q.open = reqs[r].open /\ q.pc # "idle"
    BY <1>2 DEF SInv, SessionsTypeOK, Req
  <2>2. reqs' = [reqs EXCEPT ![r] = q] BY <1>4 DEF Read, Become
  <2> HIDE DEF q
  <2>3. AskingOf' = AskingOf BY <1>3, <2>1, <2>2
  <2> QED BY <1>4, <2>3, ClosingStep DEF Read, Live, Usable
<1>5. CASE Judge(r) /\ Usable(reqs[r].doc) /\ ~ Expired(reqs[r].doc)
  <2>1. reqs[r].open BY <1>2, <1>5 DEF GoodReq
  <2> QED BY <1>1, <1>5, <2>1, AnswerStep DEF Judge
<1>6. CASE Judge(r) /\ ~ (Usable(reqs[r].doc) /\ ~ Expired(reqs[r].doc))
  <2> DEFINE q(pc) == [reqs[r] EXCEPT !.pc = pc, !.doc = Null]
  <2>1. /\ reqs' = [reqs EXCEPT ![r] = q("tombstone")] \/ reqs' = [reqs EXCEPT ![r] = q("delete")]
        /\ answer' = Null /\ UNCHANGED <<docs, issued>>
    BY <1>6 DEF Judge, Become
  <2>2. ASSUME NEW pc \in {"tombstone", "delete"}
        PROVE  q(pc) \in Req /\ q(pc).s = reqs[r].s /\ q(pc).open = reqs[r].open /\ q(pc).pc # "idle"
    BY <1>2 DEF Req
  <2> HIDE DEF q
  <2>3. AskingOf' = AskingOf BY <1>3, <2>1, <2>2
  <2> QED BY <2>1, <2>3, ClosingStep DEF Live, Usable
<1>7. CASE DeleteExpired(r)
  <2> DEFINE q == [reqs[r] EXCEPT !.pc = "tombstone"]
  <2>1. q \in Req /\ q.s = reqs[r].s /\ q.open = reqs[r].open /\ q.pc # "idle" BY <1>2 DEF Req
  <2>2. reqs' = [reqs EXCEPT ![r] = q] BY <1>7 DEF DeleteExpired, Become
  <2> HIDE DEF q
  <2>3. AskingOf' = AskingOf BY <1>3, <2>1, <2>2
  <2>4. \A s \in Session : Live(s)' => Live(s)
    BY <1>7 DEF DeleteExpired, Live, Usable, SInv, SessionsTypeOK
  <2> QED BY <1>7, <2>3, <2>4, ClosingStep DEF DeleteExpired
<1>8. CASE LookForTombstone(r)
  <2> DEFINE force == docs[reqs[r].s] # Null /\ docs[reqs[r].s].revoked
  <2>1. ~ Live(reqs[r].s) BY <1>2, <1>8 DEF LookForTombstone, Step, GoodReq
  <2>2. force \in BOOLEAN BY <1>2 DEF SInv, SessionsTypeOK, Doc
  <2>3. Respond(r, FALSE, force) /\ UNCHANGED <<docs, issued>> BY <1>8 DEF LookForTombstone
  <2> HIDE DEF force
  <2> QED BY <1>1, <2>1, <2>2, <2>3, AnswerStep
<1> QED BY <1>4, <1>5, <1>6, <1>7, <1>8 DEF RequestStep

LEMMA EndRefines ==
  ASSUME SInv,
         \/ \E s \in Session : DestroySession(s) \/ RevokeSession(s)
         \/ DestroyUserSessions \/ Sweep
  PROVE  Life!Next
<1>1. ASSUME NEW s \in Session, DestroySession(s) PROVE Life!Next
  BY <1>1, QuietStep DEF DestroySession, SInv, SessionsTypeOK, Live, Usable
<1>2. ASSUME NEW s \in Session, RevokeSession(s) PROVE Life!Next
  BY <1>2, QuietStep DEF RevokeSession, SInv, SessionsTypeOK, Live, Usable, Doc
<1>3. CASE DestroyUserSessions
  BY <1>3, QuietStep DEF DestroyUserSessions, Live, Usable
<1>4. CASE Sweep
  BY <1>4, QuietStep DEF Sweep, SInv, SessionsTypeOK, Live, Usable
<1> QED BY <1>1, <1>2, <1>3, <1>4

LEMMA SlideRefines ==
  ASSUME SInv, NEW w \in slides, Slide(w) \/ LoseSlide(w) PROVE Life!Next
<1>1. w.s \in Session BY DEF SInv, SessionsTypeOK
<1>2. CASE Slide(w)
  <2>1. \A s \in Session : docs'[s] =
          IF s = w.s /\ docs[s] # Null THEN [docs[s] EXCEPT !.expires = w.expires] ELSE docs[s]
    BY <1>1, <1>2 DEF Slide, SInv, SessionsTypeOK
  <2>2. \A s \in Session : docs[s] # Null =>
          [docs[s] EXCEPT !.expires = w.expires].revoked = docs[s].revoked
    BY DEF SInv, SessionsTypeOK, Doc
  <2>3. \A s \in Session : Live(s)' => Live(s) BY <2>1, <2>2 DEF Live, Usable
  <2> QED BY <1>2, <2>3, QuietStep DEF Slide
<1>3. CASE LoseSlide(w) BY <1>3, QuietStep DEF LoseSlide, Live, Usable
<1> QED BY <1>2, <1>3

LEMMA RestartRefines == ASSUME SInv, Restart PROVE Life!Next
<1>1. AskingOf' = [r \in Request |-> Null] BY DEF Restart, AskingOf, Step, NoRequest
<1>2. LifeOf' = LifeOf /\ AnswerOf' = Null
  BY DEF Restart, LifeOf, AnswerOf, Live, Usable, Issued
<1> QED BY <1>1, <1>2 DEF Life!Next, Life!Drop

LEMMA StepRefines == ASSUME SInv, [Next]_vars PROVE [Life!Next]_(Life!vars)
<1>1. CASE \E s \in Session : CreateSession(s) BY <1>1, OpenStep
<1>2. CASE \/ \E s \in Session : DestroySession(s) \/ RevokeSession(s)
           \/ DestroyUserSessions \/ Sweep
  BY <1>2, EndRefines
<1>3. CASE \E r \in Request : \E s \in Session : Arrive(r, s) BY <1>3, AskStep
<1>4. CASE \E r \in Request : RequestStep(r) BY <1>4, RequestRefines
<1>5. CASE \E w \in slides : Slide(w) \/ LoseSlide(w) BY <1>5, SlideRefines
<1>6. CASE Restart BY <1>6, RestartRefines
<1>7. CASE Tick BY <1>7, QuietStep DEF Tick, Live, Usable
<1>8. CASE UNCHANGED vars
  BY <1>8 DEF vars, Life!vars, LifeOf, AskingOf, AnswerOf, Live, Usable, Issued, Step
<1> QED BY <1>1, <1>2, <1>3, <1>4, <1>5, <1>6, <1>7, <1>8 DEF Next

(* A session is opened once and closed for good, and a request is let in    *)
(* only if its session was open when it arrived: nothing that was in flight *)
(* when a session was revoked, destroyed or swept lets a later request in.  *)
THEOREM SessionsRefineLife == Spec => ImplementsLife
<1>1. Init => Life!Init
  BY DEF Init, Life!Init, LifeOf, AskingOf, AnswerOf, Live, Usable, Issued, Step, NoRequest
<1>2. SInv /\ [Next]_vars => [Life!Next]_(Life!vars) BY StepRefines
<1> QED BY SessionsInvariant, <1>1, <1>2, PTL DEF Spec, ImplementsLife, Life!Spec

------------------------------------------------------------------------------
(* Whom the sessions turn away: revoked ones, to an interactive sign-in,    *)
(* and of those that are in use none before the cap.                        *)
(*                                                                          *)
(* For the first, a revocation leaves a tombstone, which goes only in the   *)
(* sweep, in a destruction, or by a request that had read the document      *)
(* expired; and unless a slide crossed that request, the tombstone it       *)
(* deletes expires when the document it read did.  For the second, what a   *)
(* slide that is late or overtaken can take off an expiry is bounded by the *)
(* time a request and a write may take.                                     *)

USE SessionsAssumption, NullAssumption

Gone(s) == past[s] \cap {"dropped", "crossed"} # {}

(* What was revoked is closed, and a tombstone unless that went.            *)
Revoked == \A s \in Session :
  "revoked" \in past[s] => issued[s] # Null /\ ~ Live(s) /\ (docs[s] # Null \/ Gone(s))

(* No expiry is past the cap.                                               *)
UnderCap(s, expires) == expires <= issued[s] + Absolute
Capped ==
  /\ \A s \in Session : docs[s] # Null => UnderCap(s, docs[s].expires)
  /\ \A w \in slides : issued[w.s] # Null /\ UnderCap(w.s, w.expires)

(* A document that a request read, and may delete, expires as it did then.  *)
(* A request that came after a revocation found its session closed.         *)
Rereads(q) ==
  /\ q.doc # Null => UnderCap(q.s, q.doc.expires)
  /\ q.pc = "judge" /\ q.doc # Null /\ docs[q.s] # Null =>
       "crossed" \in past[q.s] \/ docs[q.s].expires = q.doc.expires
  /\ q.pc = "delete" /\ docs[q.s] # Null => "crossed" \in past[q.s] \/ docs[q.s].expires <= now
  /\ q.tomb => "revoked" \in past[q.s] /\ ~ q.open
ReqsReread == \A r \in Request : reqs[r] # NoRequest => Rereads(reqs[r])

TInv == Revoked /\ Capped /\ ReqsReread

------------------------------------------------------------------------------
(* What steps that open no session leave alone.                             *)

LEMMA RevokedStays ==
  ASSUME SInv, SInv', TInv, issued' = issued,
         \A s \in Session : past[s] \subseteq past'[s] /\ (Live(s)' => Live(s)),
         \A s \in Session : docs[s] # Null /\ docs'[s] = Null =>
           "revoked" \notin past'[s] \/ Gone(s)',
         \A s \in Session : "revoked" \in past'[s] /\ "revoked" \notin past[s] =>
           docs'[s] # Null /\ docs'[s].revoked
  PROVE  Revoked'
<1> SUFFICES ASSUME NEW s \in Session, "revoked" \in past'[s]
             PROVE  issued'[s] # Null /\ ~ Live(s)' /\ (docs'[s] # Null \/ Gone(s)')
  BY DEF Revoked
<1>1. CASE "revoked" \in past[s]
  <2>1. issued[s] # Null /\ ~ Live(s) /\ (docs[s] # Null \/ Gone(s))
    BY <1>1 DEF TInv, Revoked
  <2>2. Gone(s) => Gone(s)'
    BY DEF Gone
  <2> QED BY <2>1, <2>2
<1>2. CASE "revoked" \notin past[s]
  <2>1. docs'[s] # Null /\ docs'[s].revoked
    BY <1>2
  <2>2. issued'[s] # Null
    BY <2>1 DEF SInv, GoodDocs, GoodDoc
  <2> QED BY <2>1, <2>2 DEF Live, Usable
<1> QED BY <1>1, <1>2

(* A request in flight: its session has been opened, and is not again.      *)
LEMMA RereadsStay ==
  ASSUME SInv, NEW q \in Req, GoodReq(q), Rereads(q), now' \in Nat, now' >= now,
         docs' \in [Session -> Doc \cup {Null}],
         issued'[q.s] = issued[q.s], past[q.s] \subseteq past'[q.s],
         q.pc \in {"judge", "delete"} /\ docs'[q.s] # Null =>
           docs[q.s] # Null /\ (docs'[q.s].expires = docs[q.s].expires \/ "crossed" \in past'[q.s])
  PROVE  Rereads(q)'
<1>1. q.s \in Session /\ now \in Nat
  BY DEF Req, SInv, SessionsTypeOK
<1>2. docs[q.s] # Null => docs[q.s].expires \in Nat
  BY <1>1 DEF SInv, SessionsTypeOK, Doc
<1> QED BY <1>1, <1>2 DEF Rereads, UnderCap

LEMMA OthersReread ==
  ASSUME SInv, TInv, NEW r \in Request, reqs[r] # NoRequest, reqs'[r] = reqs[r],
         now' \in Nat, now' >= now, docs' \in [Session -> Doc \cup {Null}],
         \A s \in Session : past[s] \subseteq past'[s] /\ (issued[s] # Null => issued'[s] = issued[s]),
         \A s \in Session : docs'[s] # Null /\ issued[s] # Null =>
           docs[s] # Null
           /\ (\/ docs'[s].expires = docs[s].expires \/ "crossed" \in past'[s]
               \/ ~ \E t \in Request : reqs[t].s = s /\ reqs[t].pc \in {"judge", "delete"})
  PROVE  Rereads(reqs[r])'
<1>1. PICK q \in Req : q = reqs[r] /\ GoodReq(q) /\ Rereads(q)
  BY DEF SInv, SessionsTypeOK, GoodReqs, TInv, ReqsReread
<1>2. q.s \in Session /\ issued[q.s] # Null
  BY <1>1 DEF Req, GoodReq
<1>3. Rereads(q)'
  BY <1>1, <1>2, RereadsStay
<1>4. reqs'[r] = q
  BY <1>1
<1> QED BY <1>3, <1>4 DEF Rereads, UnderCap

(* A request that the step does not move, or ends, stays.                   *)
LEMMA ReqsRereadStay ==
  ASSUME SInv, SInv', TInv, now' >= now,
         \A t \in Request : \/ reqs'[t] \in {reqs[t], NoRequest}
                           \/ Rereads(reqs[t])',
         \A s \in Session : past[s] \subseteq past'[s] /\ (issued[s] # Null => issued'[s] = issued[s]),
         \A s \in Session : docs'[s] # Null /\ issued[s] # Null =>
           docs[s] # Null
           /\ (\/ docs'[s].expires = docs[s].expires \/ "crossed" \in past'[s]
               \/ ~ \E t \in Request : reqs[t].s = s /\ reqs[t].pc \in {"judge", "delete"})
  PROVE  ReqsReread'
<1> SUFFICES ASSUME NEW t \in Request, reqs'[t] # NoRequest PROVE Rereads(reqs[t])'
  BY DEF ReqsReread
<1>1. CASE Rereads(reqs[t])'
  BY <1>1
<1>2. CASE reqs'[t] = reqs[t]
  <2>1. reqs'[t] = reqs[t] /\ reqs[t] # NoRequest
    BY <1>2
  <2>2. now' \in Nat /\ docs' \in [Session -> Doc \cup {Null}]
    BY DEF SInv, SessionsTypeOK
  <2> QED BY <2>1, <2>2, OthersReread
<1> QED BY <1>1, <1>2

(* A step that moves one request, if any, and neither opens nor slides.     *)
LEMMA MoveKeeps ==
  ASSUME SInv, SInv', TInv, now' >= now, issued' = issued,
         \A w \in slides' : w \in slides \/ (UnderCap(w.s, w.expires) /\ issued[w.s] # Null),
         \A t \in Request : \/ reqs'[t] \in {reqs[t], NoRequest}
                           \/ Rereads(reqs[t])',
         \A s \in Session : past[s] \subseteq past'[s],
         \A s \in Session : docs'[s] # Null =>
           docs[s] # Null /\ docs'[s].expires = docs[s].expires /\ (docs[s].revoked => docs'[s].revoked),
         \A s \in Session : docs[s] # Null /\ docs'[s] = Null =>
           "revoked" \notin past'[s] \/ Gone(s)',
         \A s \in Session : "revoked" \in past'[s] /\ "revoked" \notin past[s] =>
           docs'[s] # Null /\ docs'[s].revoked
  PROVE  TInv'
<1>1. \A s \in Session : Live(s)' => Live(s)
  BY DEF Live, Usable
<1>2. Revoked'
  BY <1>1, RevokedStays
<1>3. Capped'
  BY DEF TInv, Capped, UnderCap
<1>4. ReqsReread'
  BY ReqsRereadStay
<1> QED BY <1>2, <1>3, <1>4 DEF TInv

------------------------------------------------------------------------------
(* The steps.                                                               *)

LEMMA TInitially == Init => TInv
BY DEF Init, TInv, Revoked, Capped, ReqsReread

(* The idle expiry of a new session is under its cap.                       *)
LEMMA CreateT ==
  ASSUME Idle <= Absolute, SInv, SInv', TInv, NEW s \in Session, CreateSession(s) PROVE TInv'
<1> DEFINE new == [expires |-> now + Idle, absolute |-> now + Absolute, revoked |-> FALSE]
<1>1. /\ issued[s] = Null /\ docs' = [docs EXCEPT ![s] = new]
      /\ issued' = [issued EXCEPT ![s] = now] /\ UNCHANGED <<now, reqs, slides, past>>
  BY DEF CreateSession
<1>2. docs'[s] = new /\ issued'[s] = now /\ now \in Nat
      /\ \A t \in Session \ {s} : docs'[t] = docs[t] /\ issued'[t] = issued[t]
  BY <1>1 DEF SInv, SessionsTypeOK
<1>3. new.expires = now + Idle
  OBVIOUS
<1> HIDE DEF new
<1>4. Revoked'
  <2> SUFFICES ASSUME NEW t \in Session, "revoked" \in past[t]
               PROVE  issued'[t] # Null /\ ~ Live(t)' /\ (docs'[t] # Null \/ Gone(t)')
    BY <1>1 DEF Revoked
  <2>1. issued[t] # Null /\ ~ Live(t) /\ (docs[t] # Null \/ Gone(t))
    BY DEF TInv, Revoked
  <2>2. docs'[t] = docs[t] /\ issued'[t] = issued[t]
    BY <1>1, <1>2, <2>1
  <2> QED BY <1>1, <2>1, <2>2 DEF Live, Usable, Gone
<1>5. Capped'
  <2>1. UnderCap(s, docs[s].expires)'
    BY <1>2, <1>3 DEF UnderCap
  <2>2. \A t \in Session \ {s} : docs'[t] # Null => UnderCap(t, docs[t].expires)'
    BY <1>2 DEF TInv, Capped, UnderCap
  <2>3. \A w \in slides : issued'[w.s] # Null /\ UnderCap(w.s, w.expires)'
    BY <1>1, <1>2 DEF TInv, Capped, UnderCap, SInv, SessionsTypeOK
  <2> QED BY <1>1, <2>1, <2>2, <2>3 DEF Capped
<1>6. ReqsReread'
  BY <1>1, <1>2, ReqsRereadStay
<1> QED BY <1>4, <1>5, <1>6 DEF TInv

LEMMA EndT ==
  ASSUME SInv, SInv', TInv,
         \/ \E s \in Session : DestroySession(s) \/ RevokeSession(s)
         \/ DestroyUserSessions \/ Sweep
  PROVE  TInv'
<1>1. now \in Nat /\ UNCHANGED <<now, issued, reqs, slides>>
  BY DEF DestroySession, RevokeSession, DestroyUserSessions, Sweep, SInv, SessionsTypeOK
<1>2. ASSUME NEW s \in Session, DestroySession(s) PROVE TInv'
  <2>1. \A t \in Session : IF t = s THEN docs'[t] = Null /\ past'[t] = past[t] \cup {"ended", "dropped"}
                           ELSE docs'[t] = docs[t] /\ past'[t] = past[t]
    BY <1>2 DEF DestroySession, SInv, SessionsTypeOK
  <2> QED BY <1>1, <2>1, MoveKeeps DEF Gone
<1>3. ASSUME NEW s \in Session, RevokeSession(s) PROVE TInv'
  <2>1. docs[s] \in Doc
    BY <1>3 DEF RevokeSession, Live, Usable, SInv, SessionsTypeOK
  <2>2. \A t \in Session : IF t = s THEN /\ docs'[t] = [docs[t] EXCEPT !.revoked = TRUE]
                                         /\ past'[t] = past[t] \cup {"revoked"}
                           ELSE docs'[t] = docs[t] /\ past'[t] = past[t]
    BY <1>3 DEF RevokeSession, Note, SInv, SessionsTypeOK
  <2>3. docs'[s] # Null /\ docs'[s].revoked /\ docs'[s].expires = docs[s].expires
    BY <2>1, <2>2 DEF Doc
  <2>4. \A t \in Session :
          /\ docs'[t] # Null => /\ docs[t] # Null /\ docs'[t].expires = docs[t].expires
                                /\ docs[t].revoked => docs'[t].revoked
          /\ docs[t] # Null => docs'[t] # Null
          /\ past[t] \subseteq past'[t]
          /\ "revoked" \in past'[t] /\ "revoked" \notin past[t] => t = s
    BY <2>1, <2>2, <2>3
  <2> QED BY <1>1, <2>3, <2>4, MoveKeeps
<1>4. CASE DestroyUserSessions
  <2>1. \A t \in Session :
          docs'[t] = Null /\ IF t \in Issued THEN past'[t] = past[t] \cup {"ended", "dropped"}
                             ELSE past'[t] = past[t]
    BY <1>4 DEF DestroyUserSessions
  <2>2. \A t \in Session : docs[t] # Null => t \in Issued
    BY DEF SInv, GoodDocs, GoodDoc, Issued
  <2>3. \A t \in Session : past[t] \subseteq past'[t]
    BY <2>1
  <2>4. \A t \in Session : "revoked" \in past'[t] => "revoked" \in past[t]
    BY <2>1
  <2>5. \A t \in Session : docs[t] # Null => Gone(t)'
    BY <2>1, <2>2 DEF Gone
  <2>6. \A t \in Session : docs'[t] = Null
    BY <2>1
  <2>7. \A t \in Request : reqs'[t] = reqs[t]
    BY <1>1
  <2> QED BY <1>1, <2>3, <2>4, <2>5, <2>6, <2>7, MoveKeeps
<1>5. CASE Sweep
  <2>1. \A t \in Session : IF t \in Due THEN docs'[t] = Null /\ past'[t] = past[t] \cup {"dropped"}
                           ELSE docs'[t] = docs[t] /\ past'[t] = past[t]
    BY <1>5 DEF Sweep, Note
  <2> QED BY <1>1, <2>1, MoveKeeps DEF Gone
<1> QED BY <1>2, <1>3, <1>4, <1>5

(* A request that comes after a revocation has found the session closed.    *)
LEMMA ArriveT ==
  ASSUME SInv, SInv', TInv, NEW r \in Request, NEW s \in Session, Arrive(r, s) PROVE TInv'
<1> DEFINE q == [pc |-> "read", s |-> s, doc |-> Null, started |-> now,
                 open |-> Live(s), tomb |-> "revoked" \in past[s]]
<1>1. reqs' = [reqs EXCEPT ![r] = q] /\ UNCHANGED <<now, docs, issued, slides, past>>
      /\ now \in Nat
  BY DEF Arrive, Become, SInv, SessionsTypeOK
<1>2. reqs'[r] = q /\ \A t \in Request \ {r} : reqs'[t] = reqs[t]
  BY <1>1 DEF SInv, SessionsTypeOK
<1>3. q.tomb => "revoked" \in past[s] /\ ~ q.open
  BY DEF TInv, Revoked
<1>4. q.s = s /\ q.doc = Null /\ q.pc = "read"
  OBVIOUS
<1> HIDE DEF q
<1>5. Rereads(reqs[r])'
  BY <1>1, <1>2, <1>3, <1>4 DEF Rereads
<1> QED BY <1>1, <1>2, <1>5, MoveKeeps

LEMMA ReadT == ASSUME SInv, SInv', TInv, NEW r \in Request, Read(r) PROVE TInv'
<1> DEFINE s == reqs[r].s
           q == [reqs[r] EXCEPT !.pc = "judge", !.doc = docs[s]]
<1>1. reqs[r] \in Req /\ s \in Session /\ Rereads(reqs[r])
  BY Asking DEF Read, Step, SInv, TInv, ReqsReread
<1>2. reqs' = [reqs EXCEPT ![r] = q] /\ UNCHANGED <<now, docs, issued, slides, past>>
      /\ now \in Nat
  BY DEF Read, Become, SInv, SessionsTypeOK
<1>3. reqs'[r] = q /\ \A t \in Request \ {r} : reqs'[t] = reqs[t]
  BY <1>2 DEF SInv, SessionsTypeOK
<1>4. q.s = s /\ q.doc = docs[s] /\ q.pc = "judge" /\ q.open = reqs[r].open /\ q.tomb = reqs[r].tomb
  BY <1>1 DEF Req
<1>5. docs[s] # Null => UnderCap(s, docs[s].expires)
  BY <1>1 DEF TInv, Capped
<1> HIDE DEF q
<1>6. Rereads(reqs[r])'
  BY <1>1, <1>2, <1>3, <1>4, <1>5 DEF Rereads, UnderCap
<1> QED BY <1>2, <1>3, <1>6, MoveKeeps

(* A document read expired still has that expiry, or a slide crossed; one   *)
(* that is good is slid no further than to the cap.                         *)
LEMMA JudgeT == ASSUME SInv, SInv', TInv, NEW r \in Request, Judge(r) PROVE TInv'
<1> DEFINE s == reqs[r].s
           doc == reqs[r].doc
           w == [s |-> s, expires |-> SlideTo(doc), sent |-> now]
           next(pc) == [reqs[r] EXCEPT !.pc = pc, !.doc = Null]
<1>1. reqs[r] \in Req /\ s \in Session /\ Rereads(reqs[r]) /\ GoodReq(reqs[r]) /\ reqs[r].pc = "judge"
  BY Asking DEF Judge, Step, SInv, TInv, ReqsReread, GoodReqs
<1>2. UNCHANGED <<now, docs, issued>> /\ now \in Nat
  BY DEF Judge, SInv, SessionsTypeOK
<1>3. \A t \in Session : past[t] \subseteq past'[t] /\ ("revoked" \in past'[t] => "revoked" \in past[t])
  BY DEF Judge, Note, SInv, SessionsTypeOK
<1>4. doc # Null => doc \in Doc /\ doc.absolute = issued[s] + Absolute /\ issued[s] \in Nat
  BY <1>1 DEF Req, GoodReq, GoodDoc, SInv, SessionsTypeOK
<1>5. ASSUME NEW pc \in {"tombstone", "delete"}, reqs' = [reqs EXCEPT ![r] = next(pc)],
             slides' = slides, pc = "delete" => Usable(doc) /\ Expired(doc)
      PROVE  TInv'
  <2>1. reqs'[r] = next(pc) /\ \A t \in Request \ {r} : reqs'[t] = reqs[t]
    BY <1>5 DEF SInv, SessionsTypeOK
  <2>2. /\ next(pc).s = s /\ next(pc).doc = Null /\ next(pc).pc = pc
        /\ next(pc).open = reqs[r].open /\ next(pc).tomb = reqs[r].tomb
    BY <1>1 DEF Req
  <2>3. pc = "delete" => doc # Null /\ doc.expires <= now
    BY <1>1, <1>2, <1>4, <1>5 DEF Usable, Expired, Rereads, UnderCap, Doc
  <2>4. pc = "delete" /\ docs[s] # Null => "crossed" \in past[s] \/ docs[s].expires <= now
    BY <1>1, <2>3 DEF Rereads
  <2> HIDE DEF next
  <2>5. Rereads(reqs[r])'
    BY <1>1, <1>2, <1>3, <2>1, <2>2, <2>4 DEF Rereads
  <2> QED BY <1>2, <1>3, <1>5, <2>1, <2>5, MoveKeeps
<1>6. CASE ~ Usable(doc)
  BY <1>5, <1>6 DEF Judge, Become
<1>7. CASE Usable(doc) /\ Expired(doc)
  BY <1>5, <1>7 DEF Judge, Become
<1>8. CASE Usable(doc) /\ ~ Expired(doc)
  <2>1. reqs' = [reqs EXCEPT ![r] = NoRequest] /\ slides' \subseteq slides \cup {w}
    BY <1>8 DEF Judge, Respond, Become
  <2>2. reqs'[r] = NoRequest /\ \A t \in Request \ {r} : reqs'[t] = reqs[t]
    BY <2>1 DEF SInv, SessionsTypeOK
  <2>3. UnderCap(s, SlideTo(doc)) /\ issued[s] # Null
    BY <1>1, <1>2, <1>4, <1>8 DEF Usable, UnderCap, SlideTo, MinOf, GoodReq, Doc
  <2>4. \A v \in slides' : v \in slides \/ (UnderCap(v.s, v.expires) /\ issued[v.s] # Null)
    BY <2>1, <2>3
  <2> QED BY <1>2, <1>3, <2>2, <2>4, MoveKeeps
<1> QED BY <1>6, <1>7, <1>8

(* What goes had expired, or a slide had crossed.                           *)
LEMMA DeleteT == ASSUME SInv, SInv', TInv, NEW r \in Request, DeleteExpired(r) PROVE TInv'
<1> DEFINE s == reqs[r].s
           q == [reqs[r] EXCEPT !.pc = "tombstone"]
<1>1. reqs[r] \in Req /\ s \in Session /\ Rereads(reqs[r]) /\ reqs[r].pc = "delete"
  BY Asking DEF DeleteExpired, Step, SInv, TInv, ReqsReread
<1>2. /\ reqs' = [reqs EXCEPT ![r] = q] /\ docs' = [docs EXCEPT ![s] = Null]
      /\ UNCHANGED <<now, issued, slides>> /\ now \in Nat
  BY DEF DeleteExpired, Become, SInv, SessionsTypeOK
<1>3. reqs'[r] = q /\ \A t \in Request \ {r} : reqs'[t] = reqs[t]
  BY <1>2 DEF SInv, SessionsTypeOK
<1>4. q.s = s /\ q.doc = reqs[r].doc /\ q.pc = "tombstone" /\ q.open = reqs[r].open
      /\ q.tomb = reqs[r].tomb
  BY <1>1 DEF Req
<1>5. docs'[s] = Null /\ \A t \in Session \ {s} : docs'[t] = docs[t]
  BY <1>1, <1>2 DEF SInv, SessionsTypeOK
<1>6. \A t \in Session : past[t] \subseteq past'[t] /\ ("revoked" \in past'[t] => "revoked" \in past[t])
  BY DEF DeleteExpired, Note, SInv, SessionsTypeOK
<1>7. docs[s] # Null => past'[s] \cap {"dropped", "crossed"} # {}
  <2>1. CASE docs[s] # Null /\ docs[s].expires <= now
    BY <1>1, <2>1 DEF DeleteExpired, Note
  <2>2. CASE docs[s] # Null /\ "crossed" \in past[s]
    BY <1>1, <1>6, <2>2
  <2> QED BY <1>1, <2>1, <2>2 DEF Rereads
<1> HIDE DEF q
<1>8. Rereads(reqs[r])'
  BY <1>1, <1>2, <1>3, <1>4, <1>6 DEF Rereads, UnderCap
<1>9. \A t \in Session : docs[t] # Null /\ docs'[t] = Null => Gone(t)'
  BY <1>5, <1>7 DEF Gone
<1>11. \A t \in Session : docs'[t] # Null =>
         docs[t] # Null /\ docs'[t].expires = docs[t].expires /\ (docs[t].revoked => docs'[t].revoked)
  BY <1>5
<1>10. \A t \in Request : reqs'[t] = reqs[t] \/ Rereads(reqs[t])'
  BY <1>3, <1>8
<1> HIDE DEF s
<1> QED BY <1>2, <1>6, <1>9, <1>10, <1>11, MoveKeeps

LEMMA LookT == ASSUME SInv, SInv', TInv, NEW r \in Request, LookForTombstone(r) PROVE TInv'
<1>1. reqs' = [reqs EXCEPT ![r] = NoRequest] /\ UNCHANGED <<now, docs, issued, slides, past>>
      /\ now \in Nat
  BY DEF LookForTombstone, Respond, Become, SInv, SessionsTypeOK
<1>2. reqs'[r] = NoRequest /\ \A t \in Request \ {r} : reqs'[t] = reqs[t]
  BY <1>1 DEF SInv, SessionsTypeOK
<1> QED BY <1>1, <1>2, MoveKeeps

(* The slide that is applied changes an expiry under a request's hands.     *)
LEMMA SlideT == ASSUME SInv, SInv', TInv, NEW w \in slides, Slide(w) PROVE TInv'
<1>1. w.s \in Session /\ w.expires \in Nat /\ UnderCap(w.s, w.expires)
  BY DEF SInv, SessionsTypeOK, TInv, Capped
<1>2. docs[w.s] \in Doc \cup {Null}
  BY <1>1 DEF SInv, SessionsTypeOK
<1>3. /\ slides' = slides \ {w} /\ UNCHANGED <<now, issued, reqs>> /\ now \in Nat
      /\ \A t \in Session \ {w.s} : docs'[t] = docs[t]
      /\ docs'[w.s] = IF docs[w.s] = Null THEN Null ELSE [docs[w.s] EXCEPT !.expires = w.expires]
  BY <1>1 DEF Slide, SInv, SessionsTypeOK
<1>4. docs[w.s] # Null => /\ docs'[w.s] # Null /\ docs'[w.s].expires = w.expires
                          /\ docs'[w.s].revoked = docs[w.s].revoked
  BY <1>1, <1>2, <1>3 DEF Doc
<1>5. \A t \in Session : past[t] \subseteq past'[t] /\ ("revoked" \in past'[t] => "revoked" \in past[t])
  BY DEF Slide, Note, SInv, SessionsTypeOK
<1>6. \/ "crossed" \in past'[w.s]
      \/ ~ \E t \in Request : reqs[t].s = w.s /\ reqs[t].pc \in {"judge", "delete"}
  BY <1>1 DEF Slide, Note
<1>7. \A t \in Session : Live(t)' => Live(t)
  BY <1>3, <1>4 DEF Live, Usable
<1>8. Revoked'
  BY <1>3, <1>4, <1>5, <1>7, RevokedStays
<1>9. Capped'
  BY <1>1, <1>3, <1>4 DEF TInv, Capped, UnderCap
<1>10. ReqsReread'
  BY <1>3, <1>4, <1>5, <1>6, ReqsRereadStay
<1> QED BY <1>8, <1>9, <1>10 DEF TInv

LEMMA SurroundingsT ==
  ASSUME SInv, SInv', TInv, (\E w \in slides : LoseSlide(w)) \/ Restart \/ Tick PROVE TInv'
<1>1. /\ UNCHANGED <<docs, issued>> /\ now' >= now /\ slides' \subseteq slides
      /\ \A t \in Request : reqs'[t] \in {reqs[t], NoRequest}
  <2>1. now \in Nat
    BY DEF SInv, SessionsTypeOK
  <2>2. CASE \E w \in slides : LoseSlide(w)
    BY <2>1, <2>2 DEF LoseSlide
  <2>3. CASE Restart
    BY <2>1, <2>3 DEF Restart
  <2>4. CASE Tick
    BY <2>1, <2>4 DEF Tick
  <2> QED BY <2>2, <2>3, <2>4
<1>2. \A t \in Session : past[t] \subseteq past'[t] /\ ("revoked" \in past'[t] => "revoked" \in past[t])
  BY DEF LoseSlide, Restart, Tick, Note, SInv, SessionsTypeOK
<1> QED BY <1>1, <1>2, MoveKeeps

LEMMA TNext == ASSUME Idle <= Absolute, SInv, SInv', TInv, [Next]_vars PROVE TInv'
<1>1. CASE UNCHANGED vars
  BY <1>1 DEF vars, TInv, Revoked, Gone, Live, Usable, Capped, UnderCap, ReqsReread, Rereads
<1>2. CASE \E w \in slides : Slide(w) \/ LoseSlide(w)
  BY <1>2, SlideT, SurroundingsT
<1>3. CASE \E r \in Request : (\E s \in Session : Arrive(r, s)) \/ RequestStep(r)
  BY <1>3, ArriveT, ReadT, JudgeT, DeleteT, LookT DEF RequestStep
<1> QED BY <1>1, <1>2, <1>3, CreateT, EndT, SurroundingsT DEF Next

------------------------------------------------------------------------------
(* The answers.                                                             *)

LEMMA OnlyRequestsAnswer ==
  ASSUME Next PROVE answer' = Null \/ \E r \in Request : Judge(r) \/ LookForTombstone(r)
<1>1. ASSUME NEW s \in Session, CreateSession(s) \/ DestroySession(s) \/ RevokeSession(s)
      PROVE  answer' = Null
  BY <1>1 DEF CreateSession, DestroySession, RevokeSession
<1>2. ASSUME NEW r \in Request, (\E s \in Session : Arrive(r, s)) \/ Read(r) \/ DeleteExpired(r)
      PROVE  answer' = Null
  BY <1>2 DEF Arrive, Read, DeleteExpired
<1>3. ASSUME NEW w \in slides, Slide(w) \/ LoseSlide(w) PROVE answer' = Null
  BY <1>3 DEF Slide, LoseSlide
<1>4. ASSUME DestroyUserSessions \/ Sweep \/ Restart \/ Tick PROVE answer' = Null
  BY <1>4 DEF DestroyUserSessions, Sweep, Restart, Tick
<1> QED BY <1>1, <1>2, <1>3, <1>4 DEF Next, RequestStep

LEMMA ForcedNext ==
  ASSUME SInv, TInv, TombstoneForces, [Next]_vars PROVE TombstoneForces'
<1>1. ASSUME answer' = Null PROVE TombstoneForces'
  BY <1>1 DEF TombstoneForces
<1>2. ASSUME NEW r \in Request, Judge(r) PROVE TombstoneForces'
  <2>1. reqs[r] \in Req /\ Rereads(reqs[r]) /\ GoodReq(reqs[r])
    BY <1>2, Asking DEF Judge, Step, SInv, TInv, ReqsReread, GoodReqs
  <2>2. CASE Usable(reqs[r].doc) /\ ~ Expired(reqs[r].doc)
    <3>1. answer'.tomb = reqs[r].tomb /\ ~ reqs[r].tomb
      BY <1>2, <2>1, <2>2 DEF Judge, Respond, GoodReq, Rereads
    <3> QED BY <3>1 DEF TombstoneForces
  <2> QED BY <1>1, <1>2, <2>2 DEF Judge
<1>3. ASSUME NEW r \in Request, LookForTombstone(r) PROVE TombstoneForces'
  <2> DEFINE s == reqs[r].s
             force == docs[s] # Null /\ docs[s].revoked
  <2>1. reqs[r] \in Req /\ s \in Session /\ Rereads(reqs[r])
    BY <1>3, Asking DEF LookForTombstone, Step, SInv, TInv, ReqsReread
  <2>2. /\ answer' = [s |-> s, accepted |-> FALSE, force |-> force, tomb |-> reqs[r].tomb,
                      idle |-> now - lastUse[s], age |-> now - issued[s]]
        /\ past' = past
    BY <1>3 DEF LookForTombstone, Respond
  <2>3. reqs[r].tomb => ~ Live(s) /\ (docs[s] # Null \/ Gone(s))
    BY <2>1 DEF Rereads, TInv, Revoked
  <2>4. reqs[r].tomb => force \/ Gone(s)
    BY <2>3 DEF Live, Usable
  <2> HIDE DEF force
  <2> QED BY <2>2, <2>4 DEF TombstoneForces, Gone
<1>4. CASE UNCHANGED vars
  BY <1>4 DEF vars, TombstoneForces
<1> QED BY <1>1, <1>2, <1>3, <1>4, OnlyRequestsAnswer DEF Next

(* For any sessions and requests, and wherever the idle time is at most the *)
(* cap: a request that arrives after its session was revoked is not let in, *)
(* and is sent to an interactive sign-in, unless the tombstone had expired  *)
(* or been destroyed, or a slide crossed the deletion that took it.         *)
THEOREM RevokedSignsInAgain ==
  ASSUME Idle <= Absolute PROVE Spec => []TombstoneForces
<1>1. Init => TombstoneForces
  BY DEF Init, TombstoneForces
<1>2. SInv /\ SInv' /\ TInv /\ [Next]_vars => TInv'
  BY TNext
<1>3. SInv /\ TInv /\ TombstoneForces /\ [Next]_vars => TombstoneForces'
  BY ForcedNext
<1> QED BY SessionsInvariant, TInitially, <1>1, <1>2, <1>3, PTL DEF Spec

------------------------------------------------------------------------------
(* Sessions in use.                                                         *)

Margin == MaxOf(Slack, MaxRequest + MaxWrite)
Clean(s) == past[s] \cap {"ended", "revoked", "lapsed", "lost"} = {}
Over(s)  == now >= issued[s] + Absolute - Slack
Late(s)  == now - lastUse[s] > Regular

(* An expiry that does for a use at x: it is short of what that use would   *)
(* set by the margin, or of the cap by the slack.                           *)
Long(s, e, x) == e >= x + Idle - Margin \/ e >= issued[s] + Absolute - Slack

(* The stored expiry does for the last use; or the slide of a use after the *)
(* one it does for is still in flight, and uses are Regular at most apart.  *)
Lasting(s) ==
  /\ docs[s] # Null /\ ~ docs[s].revoked
  /\ \/ Long(s, docs[s].expires, lastUse[s])
     \/ \E w \in slides : w.s = s /\ Long(s, docs[s].expires, w.sent - Regular)
Last == \A s \in Session : issued[s] # Null /\ Clean(s) => Over(s) \/ Late(s) \/ Lasting(s)

InTime == \A w \in slides :
  /\ issued[w.s] # Null /\ w.sent <= now /\ now <= w.sent + MaxWrite
  /\ w.expires = MinOf(w.sent + Idle, issued[w.s] + Absolute)

(* A document in a request's hands does for the last use, or for one before *)
(* it that was Regular at most before the read; and the stored one is that, *)
(* or was slid since.                                                       *)
HasRead(q) ==
  /\ q.doc # Null /\ ~ q.doc.revoked /\ docs[q.s] # Null
  /\ \/ Long(q.s, q.doc.expires, lastUse[q.s])
     \/ Long(q.s, q.doc.expires, q.started - MaxWrite - Regular)
  /\ \/ docs[q.s].expires = q.doc.expires
     \/ docs[q.s].expires >= q.started - MaxWrite + Idle
     \/ docs[q.s].expires >= issued[q.s] + Absolute
Serves(q) ==
  /\ q.started <= now /\ now <= q.started + MaxRequest
  /\ Clean(q.s) =>
       /\ q.pc = "judge" => Over(q.s) \/ Late(q.s) \/ HasRead(q)
       /\ q.pc \in {"delete", "tombstone"} => Over(q.s)
ReqsServe == \A r \in Request : reqs[r] # NoRequest => Serves(reqs[r])

LInv == Last /\ InTime /\ ReqsServe

LEMMA Margins ==
  /\ Margin \in Nat /\ Margin >= Slack /\ Margin >= MaxRequest + MaxWrite
  /\ Regular \in Int /\ Regular = Idle - Margin - MaxRequest - MaxWrite - 1
BY DEF Margin, Regular, MaxOf

LEMMA Numbers ==
  ASSUME SInv
  PROVE  /\ now \in Nat
         /\ \A s \in Session : /\ lastUse[s] \in Nat /\ lastUse[s] <= now
                               /\ issued[s] # Null => issued[s] \in Nat
                               /\ docs[s] # Null => docs[s] \in Doc /\ docs[s].expires \in Nat
                                    /\ issued[s] # Null /\ docs[s].absolute = issued[s] + Absolute
         /\ \A w \in slides : w.s \in Session /\ w.expires \in Nat /\ w.sent \in Nat
         /\ \A q \in Req : q.s \in Session /\ q.started \in Nat
                            /\ (q.doc # Null => q.doc \in Doc /\ q.doc.expires \in Nat)
BY DEF SInv, SessionsTypeOK, NoFuture, GoodDocs, GoodDoc, Doc, Req

(* A document that has expired is of a session that is over, or late.       *)
LEMMA ExpiredIsLate ==
  ASSUME SInv, LInv, NEW s \in Session, Clean(s), docs[s] # Null, docs[s].expires <= now
  PROVE  Over(s) \/ Late(s)
<1>1. issued[s] \in Nat /\ docs[s].expires \in Nat /\ lastUse[s] \in Nat /\ now \in Nat
  BY Numbers
<1>2. CASE Lasting(s)
  <2>1. CASE Long(s, docs[s].expires, lastUse[s])
    BY <1>1, <2>1, Margins DEF Long, Over, Late
  <2>2. ASSUME NEW w \in slides, w.s = s, Long(s, docs[s].expires, w.sent - Regular)
        PROVE  Over(s)
    <3>1. w.sent \in Nat /\ now <= w.sent + MaxWrite
      BY Numbers DEF LInv, InTime
    <3> QED BY <1>1, <2>2, <3>1, Margins DEF Long, Over
  <2> QED BY <1>2, <2>1, <2>2 DEF Lasting
<1> QED BY <1>1, <1>2 DEF LInv, Last

(* What steps do to a session that was opened.                              *)
Course(s) ==
  /\ issued'[s] = issued[s] /\ past[s] \subseteq past'[s]
  /\ \/ lastUse'[s] = lastUse[s]
     \/ lastUse'[s] = now /\ now' = now /\ (Clean(s)' => now - lastUse[s] <= Regular)
  /\ \/ docs'[s] = docs[s]
     \/ Clean(s)' => Over(s)' \/ Late(s)'
     \/ /\ docs[s] # Null => docs'[s] # Null
        /\ docs'[s].expires >= now - MaxWrite + Idle \/ docs'[s].expires >= issued[s] + Absolute

LEMMA ServesStays ==
  ASSUME SInv, SInv', NEW q \in Req, GoodReq(q), Serves(q), Course(q.s),
         now' >= now, now' <= q.started + MaxRequest
  PROVE  Serves(q)'
<1> DEFINE s == q.s
<1>1. /\ s \in Session /\ issued[s] \in Nat /\ lastUse[s] \in Nat /\ lastUse[s] <= now
      /\ now \in Nat /\ q.started \in Nat /\ q.started <= now
  BY Numbers DEF GoodReq, Serves
<1>2. now' \in Nat /\ lastUse'[s] \in Nat /\ (docs'[s] # Null => docs'[s].expires \in Nat)
  BY <1>1 DEF SInv, SessionsTypeOK, Doc
<1>3. Clean(s)' => Clean(s)
  BY <1>1 DEF Course, Clean
<1>4. Over(s) => Over(s)'
  BY <1>1, <1>2 DEF Course, Over
<1>5. Clean(s)' /\ Late(s) => Late(s)'
  BY <1>1, <1>2, Margins DEF Course, Late
<1>6. ASSUME Clean(s)', HasRead(q) PROVE Over(s)' \/ Late(s)' \/ HasRead(q)'
  <2>1. q.doc.expires \in Nat
    BY <1>6, Numbers DEF HasRead
  <2>2. \/ Long(s, q.doc.expires, lastUse[s])'
        \/ Long(s, q.doc.expires, q.started - MaxWrite - Regular)'
    BY <1>1, <1>2, <1>6, <2>1, Margins DEF HasRead, Long, Course
  <2>3. CASE docs'[s] = docs[s]
    BY <1>6, <2>2, <2>3 DEF HasRead, Course
  <2>4. CASE /\ docs[s] # Null => docs'[s] # Null
             /\ docs'[s].expires >= now - MaxWrite + Idle \/ docs'[s].expires >= issued[s] + Absolute
    <3>1. docs'[s] # Null
      BY <1>6, <2>4 DEF HasRead
    <3>2. \/ docs'[s].expires >= q.started - MaxWrite + Idle
          \/ docs'[s].expires >= issued'[s] + Absolute
      BY <1>1, <1>2, <2>4, <3>1 DEF Course
    <3> QED BY <1>6, <2>2, <3>1, <3>2 DEF HasRead
  <2> QED BY <1>6, <2>3, <2>4 DEF Course
<1>7. q.started <= now'
  BY <1>1, <1>2
<1> QED BY <1>3, <1>4, <1>5, <1>6, <1>7 DEF Serves

LEMMA ReqsServeStay ==
  ASSUME SInv, SInv', LInv, now' >= now, \A s \in Session : issued[s] # Null => Course(s),
         \A t \in Request : reqs'[t] # NoRequest =>
           \/ Serves(reqs[t])'
           \/ (reqs'[t] = reqs[t] /\ now' <= reqs[t].started + MaxRequest)
  PROVE  ReqsServe'
<1> SUFFICES ASSUME NEW t \in Request, reqs'[t] # NoRequest PROVE Serves(reqs[t])'
  BY DEF ReqsServe
<1>1. CASE Serves(reqs[t])'
  BY <1>1
<1>2. CASE reqs'[t] = reqs[t] /\ now' <= reqs[t].started + MaxRequest
  <2>1. PICK q \in Req : q = reqs[t] /\ GoodReq(q) /\ Serves(q)
    BY <1>2 DEF SInv, SessionsTypeOK, GoodReqs, LInv, ReqsServe
  <2>2. Course(q.s)
    BY <2>1, Numbers DEF GoodReq
  <2>3. Serves(q)'
    BY <1>2, <2>1, <2>2, ServesStays
  <2>4. reqs'[t] = q
    BY <1>2, <2>1
  <2> QED BY <2>3, <2>4 DEF Serves, Clean, Over, Late, HasRead, Long
<1> QED BY <1>1, <1>2

(* Steps that use, open and slide nothing.                                  *)
LEMMA LastStays ==
  ASSUME SInv, SInv', LInv, now' >= now, issued' = issued, lastUse' = lastUse,
         \A s \in Session : past[s] \subseteq past'[s],
         \A s \in Session : docs'[s] = docs[s] \/ (Clean(s)' => Over(s)' \/ Late(s)'),
         \A w \in slides : w \in slides' \/ ~ Clean(w.s)'
  PROVE  Last'
<1> SUFFICES ASSUME NEW s \in Session, issued'[s] # Null, Clean(s)'
             PROVE  Over(s)' \/ Late(s)' \/ Lasting(s)'
  BY DEF Last
<1>1. now \in Nat /\ now' \in Nat /\ issued[s] \in Nat /\ lastUse[s] \in Nat
  BY Numbers DEF SInv, SessionsTypeOK
<1>2. Clean(s)
  BY DEF Clean
<1>3. CASE Over(s) \/ Late(s)
  BY <1>1, <1>3, Margins DEF Over, Late
<1>4. CASE docs'[s] = docs[s] /\ Lasting(s)
  <2>1. CASE Long(s, docs[s].expires, lastUse[s])
    BY <1>4, <2>1 DEF Lasting, Long
  <2>2. ASSUME NEW w \in slides, w.s = s, Long(s, docs[s].expires, w.sent - Regular)
        PROVE  Lasting(s)'
    <3>1. w \in slides'
      BY <2>2
    <3> QED BY <1>4, <2>2, <3>1 DEF Lasting, Long
  <2> QED BY <1>4, <2>1, <2>2 DEF Lasting
<1> QED BY <1>2, <1>3, <1>4 DEF LInv, Last

------------------------------------------------------------------------------
(* The steps.                                                               *)

LEMMA LInitially == Init => LInv
BY DEF Init, LInv, Last, InTime, ReqsServe

LEMMA CreateL ==
  ASSUME SInv, SInv', LInv, NEW s \in Session, CreateSession(s) PROVE LInv'
<1> DEFINE new == [expires |-> now + Idle, absolute |-> now + Absolute, revoked |-> FALSE]
<1>1. /\ issued[s] = Null /\ docs' = [docs EXCEPT ![s] = new] /\ issued' = [issued EXCEPT ![s] = now]
      /\ lastUse' = [lastUse EXCEPT ![s] = now] /\ UNCHANGED <<now, reqs, slides, past>>
  BY DEF CreateSession
<1>2. /\ docs'[s] = new /\ issued'[s] = now /\ lastUse'[s] = now /\ now \in Nat
      /\ \A t \in Session \ {s} : docs'[t] = docs[t] /\ issued'[t] = issued[t] /\ lastUse'[t] = lastUse[t]
  BY <1>1 DEF SInv, SessionsTypeOK
<1>3. new # Null /\ ~ new.revoked /\ new.expires = now + Idle
  <2>1. now + Idle \in Nat /\ now + Absolute \in Nat
    BY <1>2
  <2>2. new \in Doc
    BY <2>1 DEF Doc
  <2> QED BY <2>2
<1> HIDE DEF new
<1>4. Last'
  <2>1. Lasting(s)'
    BY <1>2, <1>3, Margins DEF Lasting, Long
  <2>2. ASSUME NEW t \in Session \ {s}, issued'[t] # Null, Clean(t)'
        PROVE  Over(t)' \/ Late(t)' \/ Lasting(t)'
    <3>1. Over(t) \/ Late(t) \/ Lasting(t)
      BY <1>1, <1>2, <2>2 DEF LInv, Last, Clean
    <3>2. Lasting(t) => Lasting(t)'
      BY <1>1, <1>2 DEF Lasting, Long
    <3> QED BY <1>1, <1>2, <3>1, <3>2 DEF Over, Late
  <2> QED BY <2>1, <2>2 DEF Last
<1>5. InTime'
  BY <1>1, <1>2, Numbers DEF LInv, InTime
<1>6. \A t \in Session : issued[t] # Null => Course(t)
  BY <1>1, <1>2 DEF Course
<1>7. \A t \in Request : reqs'[t] # NoRequest =>
        reqs'[t] = reqs[t] /\ now' <= reqs[t].started + MaxRequest
  BY <1>1 DEF LInv, ReqsServe, Serves
<1>8. ReqsServe'
  BY <1>1, <1>2, <1>6, <1>7, ReqsServeStay
<1> QED BY <1>4, <1>5, <1>8 DEF LInv

(* Steps that use, open and slide nothing, and move one request at most.    *)
LEMMA MoveKeepsL ==
  ASSUME SInv, SInv', LInv, UNCHANGED <<now, issued, lastUse>>, slides' \subseteq slides,
         \A s \in Session : past[s] \subseteq past'[s],
         \A s \in Session : docs'[s] = docs[s] \/ (Clean(s)' => Over(s)' \/ Late(s)'),
         \A w \in slides : w \in slides' \/ ~ Clean(w.s)',
         \A t \in Request : reqs'[t] \in {reqs[t], NoRequest} \/ Serves(reqs[t])'
  PROVE  LInv'
<1>1. now \in Nat
  BY Numbers
<1>2. Last'
  BY <1>1, LastStays
<1>3. InTime'
  BY DEF LInv, InTime
<1>4. \A s \in Session : Course(s)
  BY DEF Course
<1>5. \A t \in Request : reqs'[t] # NoRequest =>
        \/ Serves(reqs[t])'
        \/ (reqs'[t] = reqs[t] /\ now' <= reqs[t].started + MaxRequest)
  <2> SUFFICES ASSUME NEW t \in Request, reqs'[t] = reqs[t], reqs[t] # NoRequest
               PROVE  now' <= reqs[t].started + MaxRequest
    OBVIOUS
  <2> QED BY DEF LInv, ReqsServe, Serves
<1>6. now' >= now
  BY <1>1
<1>7. ReqsServe'
  BY <1>4, <1>5, <1>6, ReqsServeStay
<1> QED BY <1>2, <1>3, <1>7 DEF LInv

LEMMA EndL ==
  ASSUME SInv, SInv', LInv,
         \/ \E s \in Session : DestroySession(s) \/ RevokeSession(s)
         \/ DestroyUserSessions \/ Sweep
  PROVE  LInv'
<1>1. UNCHANGED <<now, issued, lastUse, reqs, slides>>
  BY DEF DestroySession, RevokeSession, DestroyUserSessions, Sweep
<1>2. \A t \in Session : past[t] \subseteq past'[t]
  BY DEF DestroySession, RevokeSession, DestroyUserSessions, Sweep, Note, SInv, SessionsTypeOK
<1>3. \A t \in Session : docs'[t] = docs[t] \/ (Clean(t)' => Over(t)' \/ Late(t)')
  <2>1. ASSUME NEW s \in Session, DestroySession(s)
        PROVE  \A t \in Session : docs'[t] = docs[t] \/ ~ Clean(t)'
    BY <2>1 DEF DestroySession, Clean, SInv, SessionsTypeOK
  <2>2. ASSUME NEW s \in Session, RevokeSession(s)
        PROVE  \A t \in Session : docs'[t] = docs[t] \/ ~ Clean(t)'
    BY <2>2 DEF RevokeSession, Note, Clean, SInv, SessionsTypeOK
  <2>3. ASSUME DestroyUserSessions
        PROVE  \A t \in Session : docs'[t] = docs[t] \/ ~ Clean(t)'
    <3>1. \A t \in Session :
            docs'[t] = Null /\ (t \in Issued => past'[t] = past[t] \cup {"ended", "dropped"})
      BY <2>3 DEF DestroyUserSessions
    <3>2. \A t \in Session : docs[t] # Null => t \in Issued
      BY Numbers DEF Issued
    <3> QED BY <3>1, <3>2 DEF Clean
  <2>4. ASSUME Sweep
        PROVE  \A t \in Session : docs'[t] = docs[t] \/ (Clean(t)' => Over(t)' \/ Late(t)')
    <3> SUFFICES ASSUME NEW t \in Session, docs'[t] # docs[t], Clean(t)' PROVE Over(t) \/ Late(t)
      BY <1>1 DEF Over, Late
    <3>1. docs[t] # Null /\ docs[t].expires < now
      BY <2>4 DEF Sweep, Due
    <3>2. Clean(t)
      BY <1>2 DEF Clean
    <3> QED BY <3>1, <3>2, ExpiredIsLate, Numbers
  <2> QED BY <2>1, <2>2, <2>3, <2>4
<1> QED BY <1>1, <1>2, <1>3, MoveKeepsL

LEMMA ArriveL ==
  ASSUME SInv, SInv', LInv, NEW r \in Request, NEW s \in Session, Arrive(r, s) PROVE LInv'
<1> DEFINE q == [pc |-> "read", s |-> s, doc |-> Null, started |-> now,
                 open |-> Live(s), tomb |-> "revoked" \in past[s]]
<1>1. reqs' = [reqs EXCEPT ![r] = q] /\ UNCHANGED <<now, docs, issued, slides, lastUse, past>>
      /\ now \in Nat
  BY DEF Arrive, Become, SInv, SessionsTypeOK
<1>2. reqs'[r] = q /\ \A t \in Request \ {r} : reqs'[t] = reqs[t]
  BY <1>1 DEF SInv, SessionsTypeOK
<1>3. q.pc = "read" /\ q.started = now
  OBVIOUS
<1> HIDE DEF q
<1>4. Serves(reqs[r])'
  BY <1>1, <1>2, <1>3 DEF Serves
<1> QED BY <1>1, <1>2, <1>4, MoveKeepsL

(* What a request reads is what is stored; a slide in flight was sent after *)
(* the request began, or not long before.                                   *)
LEMMA ReadL == ASSUME SInv, SInv', LInv, NEW r \in Request, Read(r) PROVE LInv'
<1> DEFINE s == reqs[r].s
           q == [reqs[r] EXCEPT !.pc = "judge", !.doc = docs[s]]
<1>1. reqs[r] \in Req /\ s \in Session /\ Serves(reqs[r]) /\ GoodReq(reqs[r])
  BY Asking DEF Read, Step, SInv, LInv, ReqsServe, GoodReqs
<1>2. reqs' = [reqs EXCEPT ![r] = q] /\ UNCHANGED <<now, docs, issued, slides, lastUse, past>>
  BY DEF Read, Become
<1>3. reqs'[r] = q /\ \A t \in Request \ {r} : reqs'[t] = reqs[t]
  BY <1>2 DEF SInv, SessionsTypeOK
<1>4. q.s = s /\ q.doc = docs[s] /\ q.pc = "judge" /\ q.started = reqs[r].started
  BY <1>1 DEF Req
<1>5. /\ now \in Nat /\ issued[s] \in Nat /\ lastUse[s] \in Nat /\ q.started \in Nat
      /\ docs[s] # Null => docs[s].expires \in Nat
  BY <1>1, <1>4, Numbers DEF GoodReq
<1> HIDE DEF q
<1>6. ASSUME Lasting(s) PROVE HasRead(q)
  <2>1. CASE Long(s, docs[s].expires, lastUse[s])
    BY <1>4, <1>6, <2>1 DEF Lasting, HasRead
  <2>2. ASSUME NEW w \in slides, w.s = s, Long(s, docs[s].expires, w.sent - Regular)
        PROVE  Long(s, docs[s].expires, q.started - MaxWrite - Regular)
    <3>1. w.sent \in Nat /\ w.sent >= q.started - MaxWrite
      BY <1>1, <1>4, <1>5, Numbers DEF LInv, InTime, Serves
    <3> QED BY <1>5, <1>6, <2>2, <3>1, Margins DEF Long, Lasting
  <2> QED BY <1>4, <1>6, <2>1, <2>2 DEF Lasting, HasRead
<1>7. Clean(s) => Over(s) \/ Late(s) \/ HasRead(q)
  BY <1>1, <1>6 DEF LInv, Last, GoodReq
<1>8. Serves(reqs[r])'
  BY <1>1, <1>2, <1>3, <1>4, <1>7 DEF Serves, Clean, Over, Late, HasRead, Long
<1> QED BY <1>2, <1>3, <1>8, MoveKeepsL

(* A request that turns a clean session away comes at its end.              *)
LEMMA RejectedIsOver ==
  ASSUME SInv, LInv, NEW r \in Request, Judge(r), Clean(reqs[r].s), ~ Late(reqs[r].s),
         ~ Usable(reqs[r].doc) \/ Expired(reqs[r].doc)
  PROVE  Over(reqs[r].s)
<1> DEFINE s == reqs[r].s
           doc == reqs[r].doc
<1>1. reqs[r] \in Req /\ s \in Session /\ Serves(reqs[r]) /\ GoodReq(reqs[r]) /\ reqs[r].pc = "judge"
  BY Asking DEF Judge, Step, SInv, LInv, ReqsServe, GoodReqs
<1>2. now \in Nat /\ issued[s] \in Nat /\ lastUse[s] \in Nat /\ reqs[r].started \in Nat
  BY <1>1, Numbers DEF GoodReq
<1>3. ASSUME HasRead(reqs[r]) PROVE Over(s)
  <2>1. doc # Null /\ Usable(doc) /\ doc.expires \in Nat /\ doc.absolute = issued[s] + Absolute
    BY <1>1, <1>3, Numbers DEF HasRead, Usable, GoodReq, GoodDoc
  <2>2. doc.expires <= now \/ doc.absolute <= now
    BY <2>1 DEF Expired
  <2>3. now <= reqs[r].started + MaxRequest /\ now - lastUse[s] <= Regular
    BY <1>1, <1>2, Margins DEF Serves, Late
  <2>4. CASE doc.expires <= now
    BY <1>2, <1>3, <2>1, <2>3, <2>4, Margins DEF HasRead, Long, Over
  <2> QED BY <1>2, <2>1, <2>2, <2>4 DEF Over
<1> QED BY <1>1, <1>3 DEF Serves

(* A use that sends a slide may rest on it; one that does not has an expiry *)
(* that does.                                                               *)
LEMMA AcceptL ==
  ASSUME SInv, SInv', LInv, NEW r \in Request, Judge(r),
         Usable(reqs[r].doc), ~ Expired(reqs[r].doc)
  PROVE  LInv'
<1>0. PICK s, doc : s = reqs[r].s /\ doc = reqs[r].doc
  OBVIOUS
<1> USE <1>0
<1> DEFINE w == [s |-> s, expires |-> SlideTo(doc), sent |-> now]
<1>1. reqs[r] \in Req /\ s \in Session /\ Serves(reqs[r]) /\ GoodReq(reqs[r]) /\ reqs[r].pc = "judge"
  BY Asking DEF Judge, Step, SInv, LInv, ReqsServe, GoodReqs
<1>2. /\ now \in Nat /\ issued[s] \in Nat /\ lastUse[s] \in Nat /\ lastUse[s] <= now
      /\ reqs[r].started \in Nat
  BY <1>1, Numbers DEF GoodReq
<1>3. doc.expires \in Nat /\ doc.absolute = issued[s] + Absolute
  BY <1>1, Numbers DEF Usable, GoodReq, GoodDoc
<1>4. /\ UNCHANGED <<now, docs, issued>> /\ lastUse' = [lastUse EXCEPT ![s] = now]
      /\ slides' = slides \cup (IF WorthSliding(doc) THEN {w} ELSE {})
      /\ reqs' = [reqs EXCEPT ![r] = NoRequest]
      /\ IF now - lastUse[s] > Regular THEN Note({s}, "lapsed") ELSE UNCHANGED past
  BY DEF Judge, Respond, Become
<1>5. /\ reqs'[r] = NoRequest /\ \A t \in Request \ {r} : reqs'[t] = reqs[t]
      /\ lastUse'[s] = now /\ \A t \in Session \ {s} : lastUse'[t] = lastUse[t]
  BY <1>1, <1>4 DEF SInv, SessionsTypeOK
<1>6. \A t \in Session : past[t] \subseteq past'[t]
  BY <1>4 DEF Note, SInv, SessionsTypeOK
<1>7. Clean(s)' => Clean(s) /\ now - lastUse[s] <= Regular
  BY <1>1, <1>2, <1>4, <1>6, Margins DEF Note, Clean
<1>8. SlideTo(doc) = MinOf(now + Idle, issued[s] + Absolute)
  BY <1>3 DEF SlideTo
<1> HIDE DEF w
<1>9. InTime'
  <2>1. \A v \in slides : v \in slides' /\ v.s \in Session
    BY <1>4, Numbers
  <2>2. w.s = s /\ w.sent = now /\ w.expires = SlideTo(doc)
    BY DEF w
  <2>3. \A v \in slides' : v \in slides \/ v = w
    BY <1>4
  <2> QED BY <1>2, <1>4, <1>8, <2>1, <2>2, <2>3 DEF LInv, InTime
<1>10. ASSUME Clean(s)' PROVE Over(s)' \/ Late(s)' \/ Lasting(s)'
  <2>1. Over(s) => Over(s)'
    BY <1>4 DEF Over
  <2>2. ~ Late(s)
    BY <1>2, <1>7, <1>10, Margins DEF Late
  <2>3. ASSUME Lasting(s), HasRead(reqs[r]), WorthSliding(doc) PROVE Lasting(s)'
    <3>1. w \in slides' /\ w.s = s /\ w.sent = now /\ slides \subseteq slides'
      BY <1>4, <2>3 DEF w
    <3>2. docs[s].expires \in Nat
      BY <1>1, <2>3, Numbers DEF Lasting
    <3>3. CASE Long(s, docs[s].expires, lastUse[s])
      <4>1. Long(s, docs[s].expires, now - Regular)
        BY <1>2, <1>7, <1>10, <3>2, <3>3, Margins DEF Long
      <4> QED BY <1>4, <2>3, <3>1, <4>1 DEF Lasting, Long
    <3>4. ASSUME NEW v \in slides, v.s = s, Long(s, docs[s].expires, v.sent - Regular)
          PROVE  Lasting(s)'
      BY <1>4, <2>3, <3>1, <3>4 DEF Lasting, Long
    <3> QED BY <2>3, <3>3, <3>4 DEF Lasting
  <2>4. ASSUME Lasting(s), HasRead(reqs[r]), ~ WorthSliding(doc) PROVE Lasting(s)'
    <3>1. docs[s].expires \in Nat
      BY <1>1, <2>4, Numbers DEF Lasting
    <3>2. now <= reqs[r].started + MaxRequest
      BY <1>1 DEF Serves
    <3>3. MinOf(now + Idle, issued[s] + Absolute) - doc.expires <= Slack
      BY <1>2, <1>3, <1>8, <2>4 DEF WorthSliding, MinOf
    <3>4. doc.expires >= now + Idle - Slack \/ doc.expires >= issued[s] + Absolute - Slack
      BY <1>2, <1>3, <3>3 DEF MinOf
    <3>5. Long(s, docs[s].expires, now)
      BY <1>2, <1>3, <2>4, <3>1, <3>2, <3>4, Margins DEF HasRead, Long
    <3> QED BY <1>4, <1>5, <2>4, <3>5 DEF Lasting, Long
  <2> QED BY <1>1, <1>2, <1>7, <1>10, <2>1, <2>2, <2>3, <2>4 DEF LInv, Last, Serves
<1>11. Last'
  <2> SUFFICES ASSUME NEW t \in Session, t # s, issued'[t] # Null, Clean(t)'
               PROVE  Over(t)' \/ Late(t)' \/ Lasting(t)'
    BY <1>10 DEF Last
  <2>1. Over(t) \/ Late(t) \/ Lasting(t)
    BY <1>4, <1>6 DEF LInv, Last, Clean
  <2>2. slides \subseteq slides' /\ lastUse'[t] = lastUse[t] /\ UNCHANGED <<now, docs, issued>>
    BY <1>4, <1>5
  <2> QED BY <2>1, <2>2 DEF Over, Late, Lasting, Long
<1>12. \A t \in Session : issued[t] # Null => Course(t)
  BY <1>4, <1>5, <1>6, <1>7 DEF Course
<1>13. \A t \in Request : reqs'[t] # NoRequest =>
        reqs'[t] = reqs[t] /\ now' <= reqs[t].started + MaxRequest
  BY <1>4, <1>5 DEF LInv, ReqsServe, Serves
<1>14. ReqsServe'
  BY <1>2, <1>4, <1>12, <1>13, ReqsServeStay
<1> QED BY <1>9, <1>11, <1>14 DEF LInv

LEMMA JudgeL == ASSUME SInv, SInv', LInv, NEW r \in Request, Judge(r) PROVE LInv'
<1> DEFINE s == reqs[r].s
           next(pc) == [reqs[r] EXCEPT !.pc = pc, !.doc = Null]
<1>1. reqs[r] \in Req /\ s \in Session /\ Serves(reqs[r])
  BY Asking DEF Judge, Step, SInv, LInv, ReqsServe
<1>2. now \in Nat /\ lastUse[s] \in Nat /\ UNCHANGED <<now, docs, issued>>
  BY <1>1, Numbers DEF Judge
<1>3. \A t \in Session : past[t] \subseteq past'[t]
  BY DEF Judge, Note, SInv, SessionsTypeOK
<1>4. past'[s] \cap {"ended", "revoked", "lapsed", "lost"} = {} => Clean(s) /\ ~ Late(s)
  BY <1>1, <1>3 DEF Judge, Note, Clean, Late
<1>5. ASSUME NEW pc \in {"tombstone", "delete"}, reqs' = [reqs EXCEPT ![r] = next(pc)],
             UNCHANGED <<slides, lastUse>>,
             ~ Usable(reqs[r].doc) \/ Expired(reqs[r].doc)
      PROVE  LInv'
  <2>1. reqs'[r] = next(pc) /\ \A t \in Request \ {r} : reqs'[t] = reqs[t]
    BY <1>5 DEF SInv, SessionsTypeOK
  <2>2. next(pc).s = s /\ next(pc).pc = pc /\ next(pc).started = reqs[r].started
    BY <1>1 DEF Req
  <2> HIDE DEF next
  <2>3. past'[s] \cap {"ended", "revoked", "lapsed", "lost"} = {} => Over(s)
    BY <1>4, <1>5, RejectedIsOver
  <2>4. Serves(reqs[r])'
    BY <1>1, <1>2, <2>1, <2>2, <2>3 DEF Serves, Clean, Over
  <2>5. \A t \in Request : reqs'[t] = reqs[t] \/ Serves(reqs[t])'
    BY <2>1, <2>4
  <2> QED BY <1>2, <1>3, <1>5, <2>5, MoveKeepsL
<1>6. CASE ~ Usable(reqs[r].doc)
  BY <1>5, <1>6 DEF Judge, Become
<1>7. CASE Usable(reqs[r].doc) /\ Expired(reqs[r].doc)
  BY <1>5, <1>7 DEF Judge, Become
<1>8. CASE Usable(reqs[r].doc) /\ ~ Expired(reqs[r].doc)
  BY <1>8, AcceptL
<1> QED BY <1>6, <1>7, <1>8

LEMMA DeleteL == ASSUME SInv, SInv', LInv, NEW r \in Request, DeleteExpired(r) PROVE LInv'
<1> DEFINE s == reqs[r].s
           q == [reqs[r] EXCEPT !.pc = "tombstone"]
<1>1. reqs[r] \in Req /\ s \in Session /\ Serves(reqs[r]) /\ reqs[r].pc = "delete"
  BY Asking DEF DeleteExpired, Step, SInv, LInv, ReqsServe
<1>2. /\ reqs' = [reqs EXCEPT ![r] = q] /\ docs' = [docs EXCEPT ![s] = Null]
      /\ UNCHANGED <<now, issued, slides, lastUse>>
  BY DEF DeleteExpired, Become
<1>3. reqs'[r] = q /\ \A t \in Request \ {r} : reqs'[t] = reqs[t]
  BY <1>2 DEF SInv, SessionsTypeOK
<1>4. q.s = s /\ q.pc = "tombstone" /\ q.started = reqs[r].started
  BY <1>1 DEF Req
<1>5. \A t \in Session \ {s} : docs'[t] = docs[t]
  BY <1>1, <1>2 DEF SInv, SessionsTypeOK
<1>6. \A t \in Session : past[t] \subseteq past'[t]
  BY DEF DeleteExpired, Note, SInv, SessionsTypeOK
<1>7. past'[s] \cap {"ended", "revoked", "lapsed", "lost"} = {} => Over(s)
  BY <1>1, <1>6 DEF Serves, Clean
<1> HIDE DEF q
<1>8. Serves(reqs[r])'
  BY <1>1, <1>2, <1>3, <1>4, <1>7 DEF Serves, Clean, Over
<1>9. \A t \in Request : reqs'[t] = reqs[t] \/ Serves(reqs[t])'
  BY <1>3, <1>8
<1>10. \A t \in Session : docs'[t] = docs[t] \/ (Clean(t)' => Over(t)' \/ Late(t)')
  BY <1>2, <1>5, <1>7 DEF Clean, Over
<1> HIDE DEF s
<1> QED BY <1>2, <1>6, <1>9, <1>10, MoveKeepsL

LEMMA LookL == ASSUME SInv, SInv', LInv, NEW r \in Request, LookForTombstone(r) PROVE LInv'
<1>1. reqs' = [reqs EXCEPT ![r] = NoRequest] /\ UNCHANGED <<now, docs, issued, slides, lastUse, past>>
  BY DEF LookForTombstone, Respond, Become
<1>2. \A t \in Request : reqs'[t] \in {reqs[t], NoRequest}
  BY <1>1 DEF SInv, SessionsTypeOK
<1> QED BY <1>1, <1>2, MoveKeepsL

(* A slide is at most MaxWrite old when it is applied, whatever it is that  *)
(* it overwrites.                                                           *)
LEMMA SlideL == ASSUME SInv, SInv', LInv, NEW w \in slides, Slide(w) PROVE LInv'
<1> DEFINE s == w.s
<1>1. s \in Session /\ w.expires \in Nat /\ w.sent \in Nat
  BY Numbers
<1>2. /\ now \in Nat /\ issued[s] \in Nat /\ lastUse[s] \in Nat /\ lastUse[s] <= now
      /\ now <= w.sent + MaxWrite /\ w.expires = MinOf(w.sent + Idle, issued[s] + Absolute)
  BY <1>1, Numbers DEF LInv, InTime
<1>3. docs[s] \in Doc \cup {Null}
  BY <1>1 DEF SInv, SessionsTypeOK
<1>4. /\ slides' = slides \ {w} /\ UNCHANGED <<now, issued, lastUse, reqs>>
      /\ \A t \in Session \ {s} : docs'[t] = docs[t]
      /\ docs'[s] = IF docs[s] = Null THEN Null ELSE [docs[s] EXCEPT !.expires = w.expires]
  BY <1>1 DEF Slide, SInv, SessionsTypeOK
<1>5. docs[s] # Null => /\ docs'[s] # Null /\ docs'[s].expires = w.expires
                        /\ docs'[s].revoked = docs[s].revoked
  BY <1>1, <1>3, <1>4 DEF Doc
<1>6. \A t \in Session : past[t] \subseteq past'[t]
  BY DEF Slide, Note, SInv, SessionsTypeOK
<1>7. w.expires >= now - MaxWrite + Idle \/ w.expires >= issued[s] + Absolute
  BY <1>1, <1>2 DEF MinOf
<1>8. Last'
  <2> SUFFICES ASSUME NEW t \in Session, issued'[t] # Null, Clean(t)'
               PROVE  Over(t)' \/ Late(t)' \/ Lasting(t)'
    BY DEF Last
  <2>1. Over(t) \/ Late(t) \/ Lasting(t)
    BY <1>4, <1>6 DEF LInv, Last, Clean
  <2>2. CASE t = s /\ Lasting(t)
    <3>1. Long(s, w.expires, lastUse[s])
      BY <1>1, <1>2, <1>7, Margins DEF Long
    <3> QED BY <1>4, <1>5, <2>2, <3>1 DEF Lasting, Long
  <2>3. CASE t # s /\ Lasting(t)
    <3>1. \A v \in slides : v.s = t => v \in slides'
      BY <1>4, <2>3
    <3> QED BY <1>4, <2>3, <3>1 DEF Lasting, Long
  <2> QED BY <1>4, <2>1, <2>2, <2>3 DEF Over, Late
<1>9. InTime'
  BY <1>4 DEF LInv, InTime
<1>10. \A t \in Session : issued[t] # Null => Course(t)
  <2>1. docs[s] = Null => docs'[s] = docs[s]
    BY <1>4
  <2> QED BY <1>4, <1>5, <1>6, <1>7, <2>1 DEF Course
<1>11. \A t \in Request : reqs'[t] # NoRequest =>
        reqs'[t] = reqs[t] /\ now' <= reqs[t].started + MaxRequest
  BY <1>4 DEF LInv, ReqsServe, Serves
<1>12. ReqsServe'
  BY <1>2, <1>4, <1>10, <1>11, ReqsServeStay
<1> QED BY <1>8, <1>9, <1>12 DEF LInv

LEMMA SurroundingsL ==
  ASSUME SInv, SInv', LInv, (\E w \in slides : LoseSlide(w)) \/ Restart PROVE LInv'
<1>1. /\ UNCHANGED <<now, docs, issued, lastUse>> /\ slides' \subseteq slides
      /\ \A t \in Request : reqs'[t] \in {reqs[t], NoRequest}
  BY DEF LoseSlide, Restart
<1>2. \A t \in Session : past[t] \subseteq past'[t]
  BY DEF LoseSlide, Restart, Note, SInv, SessionsTypeOK
<1>3. \A v \in slides : v \in slides' \/ ~ Clean(v.s)'
  <2> SUFFICES ASSUME NEW v \in slides, v \notin slides' PROVE "lost" \in past'[v.s]
    BY DEF Clean
  <2>1. v.s \in Session
    BY Numbers
  <2> QED BY <2>1 DEF LoseSlide, Restart, Note
<1> QED BY <1>1, <1>2, <1>3, MoveKeepsL

LEMMA TickL == ASSUME SInv, SInv', LInv, Tick PROVE LInv'
<1>1. /\ now' = now + 1 /\ now \in Nat /\ UNCHANGED <<docs, issued, reqs, slides, lastUse, past>>
  BY DEF Tick, SInv, SessionsTypeOK
<1>2. Last'
  BY <1>1, LastStays
<1>3. InTime'
  <2>1. \A w \in slides : w.sent \in Nat /\ now - w.sent < MaxWrite
    BY Numbers DEF Tick
  <2> QED BY <1>1, <2>1 DEF LInv, InTime
<1>4. \A t \in Request : reqs'[t] # NoRequest =>
        reqs'[t] = reqs[t] /\ now' <= reqs[t].started + MaxRequest
  <2> SUFFICES ASSUME NEW t \in Request, reqs[t] # NoRequest
               PROVE  now + 1 <= reqs[t].started + MaxRequest
    BY <1>1
  <2>1. reqs[t] \in Req
    BY DEF SInv, SessionsTypeOK
  <2>2. reqs[t].started \in Nat /\ reqs[t].pc # "idle"
    BY <2>1 DEF Req
  <2>3. now - reqs[t].started < MaxRequest
    BY <2>2 DEF Tick, Step
  <2> QED BY <1>1, <2>2, <2>3
<1>5. \A s \in Session : Course(s)
  BY <1>1 DEF Course
<1>6. ReqsServe'
  BY <1>1, <1>4, <1>5, ReqsServeStay
<1> QED BY <1>2, <1>3, <1>6 DEF LInv

LEMMA LNext == ASSUME SInv, SInv', LInv, [Next]_vars PROVE LInv'
<1>1. CASE UNCHANGED vars
  BY <1>1 DEF vars, LInv, Last, Clean, Over, Late, Lasting, Long, InTime, ReqsServe, Serves, HasRead
<1>2. CASE \E w \in slides : Slide(w) \/ LoseSlide(w)
  BY <1>2, SlideL, SurroundingsL
<1>3. CASE \E r \in Request : (\E s \in Session : Arrive(r, s)) \/ RequestStep(r)
  BY <1>3, ArriveL, ReadL, JudgeL, DeleteL, LookL DEF RequestStep
<1> QED BY <1>1, <1>2, <1>3, CreateL, EndL, SurroundingsL, TickL DEF Next

LEMMA KeptNext ==
  ASSUME SInv, LInv, ActiveKeepsSession, [Next]_vars PROVE ActiveKeepsSession'
<1>1. ASSUME NEW r \in Request, LookForTombstone(r) PROVE ActiveKeepsSession'
  <2> DEFINE s == reqs[r].s
  <2>1. reqs[r] \in Req /\ s \in Session /\ Serves(reqs[r]) /\ GoodReq(reqs[r])
        /\ reqs[r].pc = "tombstone"
    BY <1>1, Asking DEF LookForTombstone, Step, SInv, LInv, ReqsServe, GoodReqs
  <2>2. answer'.s = s /\ answer'.age = now - issued[s] /\ past' = past
    BY <1>1 DEF LookForTombstone, Respond
  <2>3. Clean(s) => now - issued[s] >= Absolute - Slack
    BY <2>1, Numbers DEF Serves, Over, GoodReq
  <2> QED BY <2>2, <2>3 DEF ActiveKeepsSession, Clean
<1>2. ASSUME NEW r \in Request, Judge(r) PROVE answer' = Null \/ answer'.accepted
  BY <1>2 DEF Judge, Respond
<1>3. CASE UNCHANGED vars
  BY <1>3 DEF vars, ActiveKeepsSession
<1> QED BY <1>1, <1>2, <1>3, OnlyRequestsAnswer DEF ActiveKeepsSession, Next, RequestStep

(* For any sessions, requests, idle time and cap: a session that nobody     *)
(* ended, whose requests came Regular at most after one another and whose   *)
(* slides all arrived, in whatever order, turns nobody away before the last *)
(* Slack of its time.                                                       *)
THEOREM InUseIsKept == Spec => []ActiveKeepsSession
<1>1. Init => ActiveKeepsSession
  BY DEF Init, ActiveKeepsSession
<1>2. SInv /\ SInv' /\ LInv /\ [Next]_vars => LInv'
  BY LNext
<1>3. SInv /\ LInv /\ ActiveKeepsSession /\ [Next]_vars => ActiveKeepsSession'
  BY KeptNext
<1> QED BY SessionsInvariant, LInitially, <1>1, <1>2, <1>3, PTL DEF Spec
=============================================================================
