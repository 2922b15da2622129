-------------------------- MODULE TokenSessionProofs --------------------------
(***************************************************************************)
(* Proofs about TokenSession, for any number of threads or tasks, tokens,  *)
(* attempts and permits, and every combination of faults.                  *)
(***************************************************************************)
EXTENDS TokenSession, TLAPS

USE ThreadAssumption, FlavourAssumption, TokenAssumption
USE DEF tokenVars, threadVars, apicVars, pastVars

\* The token lock is held exactly while a renewal is under way.
Renewing(t) == pc[t] \in {"refresh", "login", "adopt", "save"}
LockHeld == \A t \in Threads : lock = t <=> Renewing(t)

\* The APIC numbers its tokens: every one the session knows was issued, what a
\* thread noted is never newer than the token, and the answer a renewal holds
\* is the latest token, newer than the one it replaces and never rejected.
Numbered ==
    /\ token <= issued /\ cookie <= issued
    /\ rejected \subseteq 1..issued /\ alive \subseteq 1..issued
    /\ \A t \in Threads :
          /\ sent[t] <= issued /\ stale[t] <= token
          /\ pc[t] = "adopt" => got[t] = issued /\ token < issued
                                /\ issued \notin rejected
          /\ pc[t] = "save"  => token = issued /\ token \notin rejected

\* A write that may have been applied is never sent again.
Pending(t) == pc[t] \notin {"done", "failed"}
NotYetApplied ==
    \A t \in Writers : applied[t] <= 1 /\ (Pending(t) => applied[t] = 0)

Inv == TypeOK /\ LockHeld /\ Numbered /\ RejectedNotCached /\ NotYetApplied

\* What follows when the APIC's answers set the cookie, and no other write of
\* the jar lags behind.  The cookie is always the latest token.
CookieIsLatest == cookie = issued

\* The jar is one token ahead only while the renewal that holds the lock has
\* the answer, or after one was cancelled with it.
Ahead(t) == pc[t] \in {"adopt", "save"}
JarAgrees == (\A t \in Threads : ~Ahead(t)) => cookie = token \/ cookie \in cut

\* What a refused request carried is dead; unless the session has renewed
\* since, it was the session's token, one left in the jar, or one that a
\* renewal under way is about to take over.
Refused ==
    \A t \in Threads : pc[t] = "refused" =>
        /\ sent[t] \notin alive
        /\ token = stale[t] =>
              \/ sent[t] = token \/ sent[t] \in cut
              \/ \E u \in Threads : pc[u] = "adopt" /\ got[u] = sent[t]

\* A replay comes after a renewal.
Renewed ==
    \A t \in Threads :
        \/ pc[t] = "replay"
        \/ resume[t] = "replay" /\ Ahead(t)
        => stale[t] < issued

\* Only the proactive renewal of _ensure_token() begins with a refresh.
RefreshIsProactive == \A t \in Threads : pc[t] = "refresh" => resume[t] = "stale"

CookieInv == /\ CookieIsLatest /\ JarAgrees /\ Refused /\ ReloginOnlyIfDead
             /\ Renewed /\ RefreshIsProactive

-------------------------------------------------------------------------------
(* Type correctness.                                                       *)

\* A new token is one of the tokens, and the one the answer brings.
LEMMA IssueTypes ==
    ASSUME TypeOK, NEW t \in Threads, Issue(t)
    PROVE  /\ issued' \in Tokens /\ alive' \subseteq Tokens /\ cookie' \in Tokens
           /\ got' \in [Threads -> Tokens \cup {NoToken}]
  BY DEF TypeOK, Issue, Tokens

LEMMA InitTypeOK == Init => TypeOK
<1> SUFFICES ASSUME Init PROVE TypeOK
  OBVIOUS
<1>1. tasks \in BOOLEAN
  BY Zenon DEF Init
<1> QED
  BY <1>1 DEF Init, TypeOK, Tokens, NoToken

\* The flavour of the session never changes.
LEMMA SameFlavour == TypeOK /\ [Next]_vars => tasks' \in BOOLEAN
<1> SUFFICES ASSUME TypeOK, [Next]_vars PROVE tasks' = tasks
  BY Zenon DEF TypeOK
<1>1. ASSUME NEW t \in Threads, ThreadStep(t) PROVE tasks' = tasks
  BY <1>1, Zenon DEF ThreadStep, Ensure, Refresh, Login, Adopt, Save, ReadStale,
         Send, React, Replay
<1> QED
  BY <1>1, Zenon DEF Next, Cancel, Grow, Revoke, vars

\* The step needs Numbered: what a renewal takes over, or leaves behind when
\* it is cancelled, is a token and not the initial NoToken.
LEMMA NextTypeOK == TypeOK /\ Numbered /\ [Next]_vars => TypeOK'
<1> SUFFICES ASSUME TypeOK, Numbered, [Next]_vars PROVE TypeOK'
  OBVIOUS
<1>0. tasks' \in BOOLEAN
  BY SameFlavour
<1> USE DEF TypeOK, Goto, Release
<1>1. ASSUME NEW t \in Threads, Ensure(t) PROVE TypeOK'
  BY <1>0, <1>1 DEF Ensure, NoToken
<1>2. ASSUME NEW t \in Threads, Refresh(t) PROVE TypeOK'
  BY <1>0, <1>2, IssueTypes DEF Refresh, NoToken
<1>3. ASSUME NEW t \in Threads, Login(t) PROVE TypeOK'
  BY <1>0, <1>3, IssueTypes DEF Login
<1>4. ASSUME NEW t \in Threads, Adopt(t) PROVE TypeOK'
  BY <1>0, <1>4 DEF Adopt, Numbered
<1>5. ASSUME NEW t \in Threads, Save(t) PROVE TypeOK'
  BY <1>0, <1>5 DEF Save
<1>6. ASSUME NEW t \in Threads, ReadStale(t) PROVE TypeOK'
  BY <1>0, <1>6 DEF ReadStale
<1>7. ASSUME NEW t \in Threads, Send(t) PROVE TypeOK'
  BY <1>0, <1>7 DEF Send, TakesEffect, Trouble
<1>8. ASSUME NEW t \in Threads, React(t) PROVE TypeOK'
  BY <1>0, <1>8 DEF React, Relogin, NoToken
<1>9. ASSUME NEW t \in Threads, Replay(t) PROVE TypeOK'
  BY <1>0, <1>9 DEF Replay, TakesEffect, Trouble
<1>10. ASSUME NEW t \in Threads, Cancel(t) PROVE TypeOK'
  <2>1. cut' \subseteq Tokens
    BY <1>10, ZenonT(60) DEF Cancel, Numbered
  <2> QED
    BY <1>0, <1>10, <2>1 DEF Cancel, TakesEffect
<1>11. CASE Grow
  BY <1>0, <1>11 DEF Grow
<1>12. ASSUME NEW k \in Tokens, Revoke(k) PROVE TypeOK'
  BY <1>0, <1>12 DEF Revoke
<1>13. CASE UNCHANGED vars
  BY <1>0, <1>13 DEF vars
<1> QED
  BY <1>1, <1>2, <1>3, <1>4, <1>5, <1>6, <1>7, <1>8, <1>9, <1>10, <1>11, <1>12,
      <1>13
  DEF Next, ThreadStep

-------------------------------------------------------------------------------
(* What holds whoever sets the cookie.                                     *)

LEMMA InitInv == Init => Inv
<1> SUFFICES ASSUME Init PROVE Inv
  OBVIOUS
<1>1. TypeOK
  BY InitTypeOK
<1>2. LockHeld /\ Numbered
  BY DEF Init, LockHeld, Renewing, Numbered, NoToken
<1>3. RejectedNotCached /\ NotYetApplied
  BY DEF Init, RejectedNotCached, NotYetApplied
<1> QED
  BY <1>1, <1>2, <1>3 DEF Inv

\* A renewal starts by taking the free lock and ends by releasing it.
LEMMA NextLockHeld == TypeOK /\ LockHeld /\ [Next]_vars => LockHeld'
<1> SUFFICES ASSUME TypeOK, LockHeld, [Next]_vars PROVE LockHeld'
  OBVIOUS
<1> USE DEF TypeOK, LockHeld, Renewing, Goto, Release
<1>1. ASSUME NEW t \in Threads, Ensure(t) PROVE LockHeld'
  BY <1>1 DEF Ensure
<1>2. ASSUME NEW t \in Threads, Refresh(t) PROVE LockHeld'
  BY <1>2 DEF Refresh
<1>3. ASSUME NEW t \in Threads, Login(t) PROVE LockHeld'
  BY <1>3 DEF Login
<1>4. ASSUME NEW t \in Threads, Adopt(t) PROVE LockHeld'
  BY <1>4 DEF Adopt
<1>5. ASSUME NEW t \in Threads, Save(t) PROVE LockHeld'
  BY <1>5 DEF Save
<1>6. ASSUME NEW t \in Threads, ReadStale(t) PROVE LockHeld'
  BY <1>6 DEF ReadStale
<1>7. ASSUME NEW t \in Threads, Send(t) PROVE LockHeld'
  BY <1>7 DEF Send
<1>8. ASSUME NEW t \in Threads, React(t) PROVE LockHeld'
  BY <1>8 DEF React, Relogin
<1>9. ASSUME NEW t \in Threads, Replay(t) PROVE LockHeld'
  BY <1>9 DEF Replay
<1>10. ASSUME NEW t \in Threads, Cancel(t) PROVE LockHeld'
  BY <1>10 DEF Cancel
<1>11. CASE Grow
  BY <1>11 DEF Grow
<1>12. ASSUME NEW k \in Tokens, Revoke(k) PROVE LockHeld'
  BY <1>12 DEF Revoke
<1>13. CASE UNCHANGED vars
  BY <1>13 DEF vars
<1> QED
  BY <1>1, <1>2, <1>3, <1>4, <1>5, <1>6, <1>7,
     <1>8, <1>9, <1>10, <1>11, <1>12, <1>13
  DEF Next, ThreadStep

LEMMA IssueNumbered ==
    ASSUME TypeOK, LockHeld, Numbered, NEW t \in Threads, Renewing(t),
           Issue(t), Goto(t, "adopt"), UNCHANGED <<token, stale, sent, rejected>>
    PROVE  Numbered'
<1> USE DEF TypeOK, Numbered, Issue, Tokens
<1>1. token' <= issued' /\ cookie' <= issued'
  OBVIOUS
<1>2. rejected' \subseteq 1..issued' /\ issued' \notin rejected'
  OBVIOUS
<1>3. alive' \subseteq 1..issued'
  OBVIOUS
<1>4. ASSUME NEW u \in Threads
      PROVE  sent'[u] <= issued' /\ stale'[u] <= token'
  BY DEF NoToken
<1>5. ASSUME NEW u \in Threads, u # t PROVE pc'[u] = pc[u] /\ ~Renewing(u)
  BY <1>5 DEF LockHeld, Renewing, Goto
<1>6. pc'[t] = "adopt" /\ got'[t] = issued' /\ token' < issued'
  BY DEF Goto
<1> QED
  BY <1>1, <1>2, <1>3, <1>4, <1>5, <1>6 DEF Renewing

\* Only the lock's holder renews, so the answer it holds stays the latest.
LEMMA NextNumbered == TypeOK /\ LockHeld /\ Numbered /\ [Next]_vars => Numbered'
<1> SUFFICES ASSUME TypeOK, LockHeld, Numbered, [Next]_vars PROVE Numbered'
  OBVIOUS
<1> USE DEF TypeOK, LockHeld, Renewing, Numbered, Goto, Release, Tokens, NoToken
<1>1. ASSUME NEW t \in Threads, Ensure(t) PROVE Numbered'
  BY <1>1 DEF Ensure
<1>2. ASSUME NEW t \in Threads, Refresh(t) PROVE Numbered'
  <2>1. CASE Issue(t) /\ Goto(t, "adopt")
    BY <1>2, <2>1, IssueNumbered DEF Refresh
  <2>2. CASE UNCHANGED <<got, cookie, apicVars>>
    <3>1. \A u \in Threads : pc'[u] \in {"adopt", "save"} => pc'[u] = pc[u]
      BY <1>2, <2>2 DEF Refresh, Issue
    <3> QED
      BY <1>2, <2>2, <3>1 DEF Refresh
  <2> QED
    BY <1>2, <2>1, <2>2 DEF Refresh
<1>3. ASSUME NEW t \in Threads, Login(t) PROVE Numbered'
  <2>1. CASE Issue(t) /\ Goto(t, "adopt")
    BY <1>3, <2>1, IssueNumbered DEF Login
  <2>2. CASE UNCHANGED <<got, cookie, apicVars>>
    <3>1. \A u \in Threads : pc'[u] \in {"adopt", "save"} => pc'[u] = pc[u]
      BY <1>3, <2>2 DEF Login, Issue
    <3> QED
      BY <1>3, <2>2, <3>1 DEF Login
  <2> QED
    BY <1>3, <2>1, <2>2 DEF Login
<1>4. ASSUME NEW t \in Threads, Adopt(t) PROVE Numbered'
  BY <1>4 DEF Adopt
<1>5. ASSUME NEW t \in Threads, Save(t) PROVE Numbered'
  BY <1>5 DEF Save
<1>6. ASSUME NEW t \in Threads, ReadStale(t) PROVE Numbered'
  BY <1>6 DEF ReadStale
<1>7. ASSUME NEW t \in Threads, Send(t) PROVE Numbered'
  BY <1>7 DEF Send
<1>8. ASSUME NEW t \in Threads, React(t) PROVE Numbered'
  <2>1. \A u \in Threads : pc'[u] \notin {"adopt", "save"}
    <3>1. \A u \in Threads : pc[u] \notin {"adopt", "save"}
      BY <1>8 DEF React
    <3>2. Goto(t, "replay") \/ Goto(t, "login")
      BY <1>8 DEF React, Relogin
    <3> QED
      BY <3>1, <3>2
  <2>2. rejected' \subseteq 1..issued
    <3>1. token \in 1..issued
      OBVIOUS
    <3>2. rejected' = rejected \/ rejected' = rejected \cup {token}
      BY <1>8, Zenon DEF React, Relogin
    <3> QED
      BY <3>1, <3>2, ZenonT(60)
  <2> QED
    BY <1>8, <2>1, <2>2 DEF React
<1>9. ASSUME NEW t \in Threads, Replay(t) PROVE Numbered'
  BY <1>9 DEF Replay
<1>10. ASSUME NEW t \in Threads, Cancel(t) PROVE Numbered'
  BY <1>10 DEF Cancel
<1>11. CASE Grow
  BY <1>11 DEF Grow
<1>12. ASSUME NEW k \in Tokens, Revoke(k) PROVE Numbered'
  BY <1>12 DEF Revoke
<1>13. CASE UNCHANGED vars
  BY <1>13 DEF vars
<1> QED
  BY <1>1, <1>2, <1>3, <1>4, <1>5, <1>6, <1>7,
     <1>8, <1>9, <1>10, <1>11, <1>12, <1>13
  DEF Next, ThreadStep

\* Giving a token up empties the cache, and what is saved is newer.
LEMMA NextRejected ==
    TypeOK /\ LockHeld /\ Numbered /\ RejectedNotCached /\ [Next]_vars
    => RejectedNotCached'
<1> SUFFICES ASSUME TypeOK, LockHeld, Numbered, RejectedNotCached, [Next]_vars
        PROVE RejectedNotCached'
  OBVIOUS
<1> USE DEF TypeOK, LockHeld, Renewing, Numbered, RejectedNotCached, Goto,
        Release, Tokens, NoToken
<1>1. ASSUME NEW t \in Threads, Ensure(t) PROVE RejectedNotCached'
  BY <1>1 DEF Ensure
<1>2. ASSUME NEW t \in Threads, Refresh(t) PROVE RejectedNotCached'
  BY <1>2 DEF Refresh
<1>3. ASSUME NEW t \in Threads, Login(t) PROVE RejectedNotCached'
  BY <1>3 DEF Login
<1>4. ASSUME NEW t \in Threads, Adopt(t) PROVE RejectedNotCached'
  BY <1>4 DEF Adopt
<1>5. ASSUME NEW t \in Threads, Save(t) PROVE RejectedNotCached'
  BY <1>5 DEF Save
<1>6. ASSUME NEW t \in Threads, ReadStale(t) PROVE RejectedNotCached'
  BY <1>6 DEF ReadStale
<1>7. ASSUME NEW t \in Threads, Send(t) PROVE RejectedNotCached'
  BY <1>7 DEF Send
<1>8. ASSUME NEW t \in Threads, React(t) PROVE RejectedNotCached'
  BY <1>8 DEF React, Relogin
<1>9. ASSUME NEW t \in Threads, Replay(t) PROVE RejectedNotCached'
  BY <1>9 DEF Replay
<1>10. ASSUME NEW t \in Threads, Cancel(t) PROVE RejectedNotCached'
  BY <1>10 DEF Cancel
<1>11. CASE Grow
  BY <1>11 DEF Grow
<1>12. ASSUME NEW k \in Tokens, Revoke(k) PROVE RejectedNotCached'
  BY <1>12 DEF Revoke
<1>13. CASE UNCHANGED vars
  BY <1>13 DEF vars
<1> QED
  BY <1>1, <1>2, <1>3, <1>4, <1>5, <1>6, <1>7,
     <1>8, <1>9, <1>10, <1>11, <1>12, <1>13
  DEF Next, ThreadStep

\* A write is repeated only after a failure that left it unapplied.
LEMMA NextNotYetApplied == TypeOK /\ NotYetApplied /\ [Next]_vars => NotYetApplied'
<1> SUFFICES ASSUME TypeOK, NotYetApplied, [Next]_vars PROVE NotYetApplied'
  OBVIOUS
<1> USE DEF TypeOK, NotYetApplied, Pending, Goto, Release
<1>1. ASSUME NEW t \in Threads, Ensure(t) PROVE NotYetApplied'
  BY <1>1 DEF Ensure
<1>2. ASSUME NEW t \in Threads, Refresh(t) PROVE NotYetApplied'
  BY <1>2 DEF Refresh
<1>3. ASSUME NEW t \in Threads, Login(t) PROVE NotYetApplied'
  BY <1>3 DEF Login
<1>4. ASSUME NEW t \in Threads, Adopt(t) PROVE NotYetApplied'
  BY <1>4 DEF Adopt
<1>5. ASSUME NEW t \in Threads, Save(t) PROVE NotYetApplied'
  BY <1>5 DEF Save
<1>6. ASSUME NEW t \in Threads, ReadStale(t) PROVE NotYetApplied'
  BY <1>6 DEF ReadStale
<1>7. ASSUME NEW t \in Threads, Send(t) PROVE NotYetApplied'
  BY <1>7 DEF Send, TakesEffect, Trouble, Repeatable, Troubles
<1>8. ASSUME NEW t \in Threads, React(t) PROVE NotYetApplied'
  BY <1>8 DEF React, Relogin
<1>9. ASSUME NEW t \in Threads, Replay(t) PROVE NotYetApplied'
  BY <1>9 DEF Replay, TakesEffect, Trouble
<1>10. ASSUME NEW t \in Threads, Cancel(t) PROVE NotYetApplied'
  BY <1>10 DEF Cancel, TakesEffect
<1>11. CASE Grow
  BY <1>11 DEF Grow
<1>12. ASSUME NEW k \in Tokens, Revoke(k) PROVE NotYetApplied'
  BY <1>12 DEF Revoke
<1>13. CASE UNCHANGED vars
  BY <1>13 DEF vars
<1> QED
  BY <1>1, <1>2, <1>3, <1>4, <1>5, <1>6, <1>7,
     <1>8, <1>9, <1>10, <1>11, <1>12, <1>13
  DEF Next, ThreadStep

LEMMA NextInv == Inv /\ [Next]_vars => Inv'
  BY NextTypeOK, NextLockHeld, NextNumbered, NextRejected, NextNotYetApplied
  DEF Inv

LEMMA SpecInv == Spec => []Inv
  BY InitInv, NextInv, PTL DEF Spec

\* Every variable keeps its type: no request is sent more often than configured
\* (request(), transport/session.py).
THEOREM TypeCorrect == Spec => []TypeOK
<1>1. Inv => TypeOK
  BY DEF Inv
<1> QED
  BY <1>1, SpecInv, PTL

\* A token a 401 made the session give up never stays in the cache file
\* (_relogin() invalidates it first), whatever fails or is cancelled afterwards.
THEOREM RejectedLeavesCache == Spec => []RejectedNotCached
<1>1. Inv => RejectedNotCached
  BY DEF Inv
<1> QED
  BY <1>1, SpecInv, PTL

\* A POST or a DELETE takes effect at most once, through every retry, replay
\* and cancellation (_raw_write() repeats only what the APIC did not process).
THEOREM WritesOnce == Spec => []WriteAtMostOnce
<1>1. Inv => WriteAtMostOnce
  BY DEF Inv, NotYetApplied, WriteAtMostOnce
<1> QED
  BY <1>1, SpecInv, PTL

-------------------------------------------------------------------------------
(* What holds when the APIC's answers set the cookie, as session.py:164-168 *)
(* says they do: the jar has a new token before the session believes in it. *)

LEMMA InitCookieInv == Init => CookieInv
  BY DEF Init, CookieInv, CookieIsLatest, JarAgrees, Refused, ReloginOnlyIfDead,
         Renewed, RefreshIsProactive, Ahead

\* The jar takes every new token with its answer, and is saved only the latest.
LEMMA NextCookieIsLatest ==
    SetsCookie /\ TypeOK /\ LockHeld /\ Numbered /\ CookieIsLatest /\ [Next]_vars
    => CookieIsLatest'
<1> SUFFICES ASSUME SetsCookie, TypeOK, LockHeld, Numbered, CookieIsLatest,
        [Next]_vars PROVE CookieIsLatest'
  OBVIOUS
<1> USE DEF TypeOK, LockHeld, Renewing, Numbered, Goto, Release, Tokens, NoToken,
        CookieIsLatest
<1>1. ASSUME NEW t \in Threads, Ensure(t) PROVE CookieIsLatest'
  BY <1>1 DEF Ensure
<1>2. ASSUME NEW t \in Threads, Refresh(t) PROVE CookieIsLatest'
  BY <1>2 DEF Refresh, Issue
<1>3. ASSUME NEW t \in Threads, Login(t) PROVE CookieIsLatest'
  BY <1>3 DEF Login, Issue
<1>4. ASSUME NEW t \in Threads, Adopt(t) PROVE CookieIsLatest'
  BY <1>4 DEF Adopt
<1>5. ASSUME NEW t \in Threads, Save(t) PROVE CookieIsLatest'
  BY <1>5 DEF Save
<1>6. ASSUME NEW t \in Threads, ReadStale(t) PROVE CookieIsLatest'
  BY <1>6 DEF ReadStale
<1>7. ASSUME NEW t \in Threads, Send(t) PROVE CookieIsLatest'
  BY <1>7 DEF Send
<1>8. ASSUME NEW t \in Threads, React(t) PROVE CookieIsLatest'
  BY <1>8 DEF React, Relogin
<1>9. ASSUME NEW t \in Threads, Replay(t) PROVE CookieIsLatest'
  BY <1>9 DEF Replay
<1>10. ASSUME NEW t \in Threads, Cancel(t) PROVE CookieIsLatest'
  BY <1>10 DEF Cancel
<1>11. CASE Grow
  BY <1>11 DEF Grow
<1>12. ASSUME NEW k \in Tokens, Revoke(k) PROVE CookieIsLatest'
  BY <1>12 DEF Revoke
<1>13. CASE UNCHANGED vars
  BY <1>13 DEF vars
<1> QED
  BY <1>1, <1>2, <1>3, <1>4, <1>5, <1>6, <1>7,
     <1>8, <1>9, <1>10, <1>11, <1>12, <1>13
  DEF Next, ThreadStep

\* A renewal that got its answer takes it over, or is cancelled.
LEMMA NextJarAgrees ==
    SetsCookie /\ TypeOK /\ LockHeld /\ Numbered /\ CookieIsLatest /\ JarAgrees
    /\ [Next]_vars => JarAgrees'
<1> SUFFICES ASSUME SetsCookie, TypeOK, LockHeld, Numbered, CookieIsLatest,
        JarAgrees, [Next]_vars PROVE JarAgrees'
  OBVIOUS
<1> USE DEF TypeOK, LockHeld, Renewing, Numbered, Goto, Release, Tokens, NoToken,
        CookieIsLatest, JarAgrees, Ahead
<1>1. ASSUME NEW t \in Threads, Ensure(t) PROVE JarAgrees'
  BY <1>1 DEF Ensure
<1>2. ASSUME NEW t \in Threads, Refresh(t) PROVE JarAgrees'
  BY <1>2 DEF Refresh, Issue
<1>3. ASSUME NEW t \in Threads, Login(t) PROVE JarAgrees'
  BY <1>3 DEF Login, Issue
<1>4. ASSUME NEW t \in Threads, Adopt(t) PROVE JarAgrees'
  BY <1>4 DEF Adopt
<1>5. ASSUME NEW t \in Threads, Save(t) PROVE JarAgrees'
  BY <1>5 DEF Save
<1>6. ASSUME NEW t \in Threads, ReadStale(t) PROVE JarAgrees'
  BY <1>6 DEF ReadStale
<1>7. ASSUME NEW t \in Threads, Send(t) PROVE JarAgrees'
  BY <1>7 DEF Send
<1>8. ASSUME NEW t \in Threads, React(t) PROVE JarAgrees'
  BY <1>8 DEF React, Relogin
<1>9. ASSUME NEW t \in Threads, Replay(t) PROVE JarAgrees'
  BY <1>9 DEF Replay
<1>10. ASSUME NEW t \in Threads, Cancel(t) PROVE JarAgrees'
  BY <1>10 DEF Cancel
<1>11. CASE Grow
  BY <1>11 DEF Grow
<1>12. ASSUME NEW k \in Tokens, Revoke(k) PROVE JarAgrees'
  BY <1>12 DEF Revoke
<1>13. CASE UNCHANGED vars
  BY <1>13 DEF vars
<1> QED
  BY <1>1, <1>2, <1>3, <1>4, <1>5, <1>6, <1>7,
     <1>8, <1>9, <1>10, <1>11, <1>12, <1>13
  DEF Next, ThreadStep

\* A dead token stays dead, and a newer session token is nobody's stale one.
LEMMA NextRefused ==
    SetsCookie /\ TypeOK /\ LockHeld /\ Numbered /\ CookieIsLatest /\ JarAgrees
    /\ Refused /\ [Next]_vars => Refused'
<1> SUFFICES ASSUME SetsCookie, TypeOK, LockHeld, Numbered, CookieIsLatest,
        JarAgrees, Refused, [Next]_vars PROVE Refused'
  OBVIOUS
<1> USE DEF TypeOK, LockHeld, Renewing, Numbered, Goto, Release, Tokens, NoToken,
        CookieIsLatest, JarAgrees, Ahead, Refused
<1>1. ASSUME NEW t \in Threads, Ensure(t) PROVE Refused'
  BY <1>1 DEF Ensure
<1>2. ASSUME NEW t \in Threads, Refresh(t) PROVE Refused'
  BY <1>2 DEF Refresh, Issue
<1>3. ASSUME NEW t \in Threads, Login(t) PROVE Refused'
  BY <1>3 DEF Login, Issue
<1>4. ASSUME NEW t \in Threads, Adopt(t) PROVE Refused'
  BY <1>4 DEF Adopt
<1>5. ASSUME NEW t \in Threads, Save(t) PROVE Refused'
  BY <1>5 DEF Save
<1>6. ASSUME NEW t \in Threads, ReadStale(t) PROVE Refused'
  BY <1>6 DEF ReadStale
<1>7. ASSUME NEW t \in Threads, Send(t) PROVE Refused'
  BY <1>7 DEF Send
<1>8. ASSUME NEW t \in Threads, React(t) PROVE Refused'
  BY <1>8 DEF React, Relogin
<1>9. ASSUME NEW t \in Threads, Replay(t) PROVE Refused'
  BY <1>9 DEF Replay
<1>10. ASSUME NEW t \in Threads, Cancel(t) PROVE Refused'
  BY <1>10 DEF Cancel
<1>11. CASE Grow
  BY <1>11 DEF Grow
<1>12. ASSUME NEW k \in Tokens, Revoke(k) PROVE Refused'
  BY <1>12 DEF Revoke
<1>13. CASE UNCHANGED vars
  BY <1>13 DEF vars
<1> QED
  BY <1>1, <1>2, <1>3, <1>4, <1>5, <1>6, <1>7,
     <1>8, <1>9, <1>10, <1>11, <1>12, <1>13
  DEF Next, ThreadStep

\* The re-login after a 401 asks for a login at once.
LEMMA NextRefreshIsProactive ==
    TypeOK /\ RefreshIsProactive /\ [Next]_vars => RefreshIsProactive'
<1> SUFFICES ASSUME TypeOK, RefreshIsProactive, [Next]_vars
        PROVE RefreshIsProactive'
  OBVIOUS
<1> USE DEF TypeOK, RefreshIsProactive, Goto, Release
<1>1. ASSUME NEW t \in Threads, Ensure(t) PROVE RefreshIsProactive'
  BY <1>1 DEF Ensure
<1>2. ASSUME NEW t \in Threads, Refresh(t) PROVE RefreshIsProactive'
  BY <1>2 DEF Refresh
<1>3. ASSUME NEW t \in Threads, Login(t) PROVE RefreshIsProactive'
  BY <1>3 DEF Login
<1>4. ASSUME NEW t \in Threads, Adopt(t) PROVE RefreshIsProactive'
  BY <1>4 DEF Adopt
<1>5. ASSUME NEW t \in Threads, Save(t) PROVE RefreshIsProactive'
  BY <1>5 DEF Save
<1>6. ASSUME NEW t \in Threads, ReadStale(t) PROVE RefreshIsProactive'
  BY <1>6 DEF ReadStale
<1>7. ASSUME NEW t \in Threads, Send(t) PROVE RefreshIsProactive'
  BY <1>7 DEF Send
<1>8. ASSUME NEW t \in Threads, React(t) PROVE RefreshIsProactive'
  BY <1>8 DEF React, Relogin
<1>9. ASSUME NEW t \in Threads, Replay(t) PROVE RefreshIsProactive'
  BY <1>9 DEF Replay
<1>10. ASSUME NEW t \in Threads, Cancel(t) PROVE RefreshIsProactive'
  BY <1>10 DEF Cancel
<1>11. CASE Grow
  BY <1>11 DEF Grow
<1>12. ASSUME NEW k \in Tokens, Revoke(k) PROVE RefreshIsProactive'
  BY <1>12 DEF Revoke
<1>13. CASE UNCHANGED vars
  BY <1>13 DEF vars
<1> QED
  BY <1>1, <1>2, <1>3, <1>4, <1>5, <1>6, <1>7,
     <1>8, <1>9, <1>10, <1>11, <1>12, <1>13
  DEF Next, ThreadStep

\* Nobody takes a token over while the lock is held by the one that logs in.
LEMMA NextReloginOnlyIfDead ==
    SetsCookie /\ TypeOK /\ LockHeld /\ Numbered /\ Refused /\ RefreshIsProactive
    /\ ReloginOnlyIfDead /\ [Next]_vars => ReloginOnlyIfDead'
<1> SUFFICES ASSUME SetsCookie, TypeOK, LockHeld, Numbered, Refused,
        RefreshIsProactive, ReloginOnlyIfDead, [Next]_vars
        PROVE ReloginOnlyIfDead'
  OBVIOUS
<1> USE DEF TypeOK, LockHeld, Renewing, Numbered, Goto, Release, Tokens, NoToken,
        Refused, RefreshIsProactive, ReloginOnlyIfDead
<1>1. ASSUME NEW t \in Threads, Ensure(t) PROVE ReloginOnlyIfDead'
  BY <1>1 DEF Ensure
<1>2. ASSUME NEW t \in Threads, Refresh(t) PROVE ReloginOnlyIfDead'
  BY <1>2 DEF Refresh, Issue
<1>3. ASSUME NEW t \in Threads, Login(t) PROVE ReloginOnlyIfDead'
  BY <1>3 DEF Login, Issue
<1>4. ASSUME NEW t \in Threads, Adopt(t) PROVE ReloginOnlyIfDead'
  BY <1>4 DEF Adopt
<1>5. ASSUME NEW t \in Threads, Save(t) PROVE ReloginOnlyIfDead'
  BY <1>5 DEF Save
<1>6. ASSUME NEW t \in Threads, ReadStale(t) PROVE ReloginOnlyIfDead'
  BY <1>6 DEF ReadStale
<1>7. ASSUME NEW t \in Threads, Send(t) PROVE ReloginOnlyIfDead'
  BY <1>7 DEF Send
<1>8. ASSUME NEW t \in Threads, React(t) PROVE ReloginOnlyIfDead'
  BY <1>8 DEF React, Relogin
<1>9. ASSUME NEW t \in Threads, Replay(t) PROVE ReloginOnlyIfDead'
  BY <1>9 DEF Replay
<1>10. ASSUME NEW t \in Threads, Cancel(t) PROVE ReloginOnlyIfDead'
  BY <1>10 DEF Cancel
<1>11. CASE Grow
  BY <1>11 DEF Grow
<1>12. ASSUME NEW k \in Tokens, Revoke(k) PROVE ReloginOnlyIfDead'
  BY <1>12 DEF Revoke
<1>13. CASE UNCHANGED vars
  BY <1>13 DEF vars
<1> QED
  BY <1>1, <1>2, <1>3, <1>4, <1>5, <1>6, <1>7,
     <1>8, <1>9, <1>10, <1>11, <1>12, <1>13
  DEF Next, ThreadStep

\* A thread replays once somebody has renewed the token it noted.
LEMMA NextRenewed ==
    SetsCookie /\ TypeOK /\ LockHeld /\ Numbered /\ Renewed /\ [Next]_vars
    => Renewed'
<1> SUFFICES ASSUME SetsCookie, TypeOK, LockHeld, Numbered, Renewed, [Next]_vars
        PROVE Renewed'
  OBVIOUS
<1> USE DEF TypeOK, LockHeld, Renewing, Numbered, Goto, Release, Tokens, NoToken,
        Ahead, Renewed
<1>1. ASSUME NEW t \in Threads, Ensure(t) PROVE Renewed'
  BY <1>1 DEF Ensure
<1>2. ASSUME NEW t \in Threads, Refresh(t) PROVE Renewed'
  BY <1>2 DEF Refresh, Issue
<1>3. ASSUME NEW t \in Threads, Login(t) PROVE Renewed'
  BY <1>3 DEF Login, Issue
<1>4. ASSUME NEW t \in Threads, Adopt(t) PROVE Renewed'
  BY <1>4 DEF Adopt
<1>5. ASSUME NEW t \in Threads, Save(t) PROVE Renewed'
  BY <1>5 DEF Save
<1>6. ASSUME NEW t \in Threads, ReadStale(t) PROVE Renewed'
  BY <1>6 DEF ReadStale
<1>7. ASSUME NEW t \in Threads, Send(t) PROVE Renewed'
  BY <1>7 DEF Send
<1>8. ASSUME NEW t \in Threads, React(t) PROVE Renewed'
  BY <1>8 DEF React, Relogin
<1>9. ASSUME NEW t \in Threads, Replay(t) PROVE Renewed'
  BY <1>9 DEF Replay
<1>10. ASSUME NEW t \in Threads, Cancel(t) PROVE Renewed'
  BY <1>10 DEF Cancel
<1>11. CASE Grow
  BY <1>11 DEF Grow
<1>12. ASSUME NEW k \in Tokens, Revoke(k) PROVE Renewed'
  BY <1>12 DEF Revoke
<1>13. CASE UNCHANGED vars
  BY <1>13 DEF vars
<1> QED
  BY <1>1, <1>2, <1>3, <1>4, <1>5, <1>6, <1>7,
     <1>8, <1>9, <1>10, <1>11, <1>12, <1>13
  DEF Next, ThreadStep

LEMMA NextCookieInv == SetsCookie /\ Inv /\ CookieInv /\ [Next]_vars => CookieInv'
  BY NextCookieIsLatest, NextJarAgrees, NextRefused, NextReloginOnlyIfDead,
      NextRenewed,
     NextRefreshIsProactive
  DEF Inv, CookieInv

LEMMA SpecCookieInv == ASSUME SetsCookie PROVE Spec => [](Inv /\ CookieInv)
<1>1. Init => Inv /\ CookieInv
  BY InitInv, InitCookieInv
<1>2. Inv /\ CookieInv /\ [Next]_vars => (Inv /\ CookieInv)'
  BY NextInv, NextCookieInv
<1> QED
  BY <1>1, <1>2, PTL DEF Spec

\* Outside a renewal the cookie the requests carry is the token the session
\* believes in, or one a cancelled task left in the jar: _token_lock keeps the
\* renewals of any number of threads apart.
THEOREM RenewalsKeepApart == ASSUME SetsCookie PROVE Spec => []CookieIsToken
<1>1. Inv /\ CookieInv => CookieIsToken
  BY DEF Inv, CookieInv, TypeOK, LockHeld, Renewing, JarAgrees, Ahead, CookieIsToken
<1> QED
  BY <1>1, SpecCookieInv, PTL

\* However many threads a dead token refuses together, _reactive_relogin() logs
\* in for that token only: never for one that still lives.
THEOREM NoNeedlessRelogin == ASSUME SetsCookie PROVE Spec => []ReloginOnlyIfDead
<1>1. Inv /\ CookieInv => ReloginOnlyIfDead
  BY DEF CookieInv
<1> QED
  BY <1>1, SpecCookieInv, PTL

\* The one replay after a 401 carries a newer token than the refused request,
\* whichever thread renewed it, provided that the request carried the token its
\* thread had noted before sending it.  Without that it need not: a renewal
\* between the noting and the sending makes EveryReplayRenews false.
THEOREM ReplaysRenew == ASSUME SetsCookie PROVE Spec => []ReplayRenews
<1>1. Inv /\ CookieInv => ReplayRenews
  BY DEF Inv, CookieInv, TypeOK, Tokens, NoToken, CookieIsLatest, Renewed,
      ReplayRenews
<1> QED
  BY <1>1, SpecCookieInv, PTL
===============================================================================
