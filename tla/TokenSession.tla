----------------------------- MODULE TokenSession -----------------------------
(***************************************************************************)
(* One session shared by threads (ApicSession, transport/session.py) or by *)
(* tasks (AsyncApicSession, session_async.py): the token, the cookie jar   *)
(* and the on-disk token cache, the proactive refresh and the reactive     *)
(* re-login under _token_lock, and the retries of a request.  Each thread  *)
(* makes one request, a read or a write.  Code between two points where    *)
(* another may run is one action: an HTTP exchange, a file write, a lock   *)
(* acquisition, a read of shared state.  Tasks run until they await (Turn), *)
(* their requests share a semaphore (Room), and may be cancelled.          *)
(***************************************************************************)
EXTENDS Naturals, FiniteSets

CONSTANTS
    Threads,       \* threads or tasks
    NoThread,
    Flavours,      \* may be tasks (TRUE), threads (FALSE) or either
    MaxConcurrent, \* the semaphore's permits
    Writers,       \* the threads whose request is a POST or a DELETE
    MaxTokens,     \* bound: tokens the APIC ever issues, and recalls
    Attempts,      \* RetryConfig.attempts
    SetsCookie,    \* the APIC's answers set the cookie themselves (Set-Cookie)
    Faults         \* which misbehaviours of the environment may happen

\* "network": an exchange may fail, or end in an error status; "login": a login
\* may be rejected; "disk": the cache file may not be writable; "cancel": a task may
\* be cancelled.
ASSUME ThreadAssumption == Writers \subseteq Threads /\ NoThread \notin Threads
ASSUME FlavourAssumption == Flavours \subseteq BOOLEAN /\ MaxConcurrent \in Nat \ {0}
ASSUME TokenAssumption  == /\ MaxTokens \in Nat \ {0} /\ Attempts \in Nat \ {0}
                           /\ SetsCookie \in BOOLEAN
                           /\ Faults \subseteq {"network", "login", "disk", "cancel"}

NoToken == 0
Tokens  == 1..MaxTokens

VARIABLES
    tasks,     \* the callers are tasks of one event loop; never changes
    token,     \* _token_state.token
    age,       \* _token_state against the clock: "fresh", "due" or "expired"
    cookie,    \* the APIC-cookie in the HTTP client's jar
    cache,     \* the token in the cache file, or NoToken
    lock,      \* who holds _token_lock
    pc,        \* where each request stands
    resume,    \* and where it continues after renewing the token
    got,       \* the token in the answer a thread is handling
    stale,     \* its local variable of that name
    tries,     \* its failed attempts
    alive,     \* the tokens the APIC accepts
    issued     \* how many it has issued

\* What happened, for the properties.
VARIABLES
    sent,      \* the token each thread's latest request carried
    applied,   \* how often its request may have taken effect
    rejected,  \* the tokens a thread is replacing, or replaced, after a 401
    cut        \* the tokens whose task was cancelled before it took them over,
               \* when the jar had them already

tokenVars  == <<tasks, token, age, cookie, cache, lock>>
threadVars == <<pc, resume, got, stale, tries>>
apicVars   == <<alive, issued>>
pastVars   == <<sent, applied, rejected, cut>>
vars == <<tokenVars, threadVars, apicVars, pastVars>>

\* A task gives way only where it awaits: not between noting the token and
\* building the request's first attempt, nor between taking a token over and
\* saving it.
Turn(t) ==
    tasks => \A u \in Threads \ {t} :
                /\ pc[u] # "save"
                /\ pc[u] = "send" => tries[u] > 0

\* Mutant: the permit is kept while a refused request renews the token.
HoldsOn(t) ==
    /\ tasks
    /\ \/ pc[t] \in {"send", "refused", "replay"}
       \/ resume[t] = "replay" /\ pc[t] \in {"login", "adopt", "save"}

\* A request holds a permit of the semaphore during its exchanges and the
\* pauses between them, and not while it waits for the token lock.
Holds(t) == tasks /\ pc[t] = "send"
Room == Cardinality({t \in Threads : Holds(t)}) < MaxConcurrent

Goto(t, p) == pc' = [pc EXCEPT ![t] = p]
Release(t, p) == lock' = NoThread /\ Goto(t, p)

\* The APIC answers with a new token; the client's jar may take the cookie.
Issue(t) == /\ issued < MaxTokens
            /\ issued' = issued + 1
            /\ alive' = alive \cup {issued + 1}
            /\ got' = [got EXCEPT ![t] = issued + 1]
            /\ cookie' = IF SetsCookie THEN issued + 1 ELSE cookie

-------------------------------------------------------------------------------
(* _ensure_token(): check, refresh or re-login under the lock.             *)

Ensure(t) ==
    /\ pc[t] = "ensure" /\ lock = NoThread
    /\ \/ /\ age = "fresh"
          /\ Goto(t, "stale")
          /\ UNCHANGED <<lock, cache, resume>>
       \/ /\ age = "due"
          /\ lock' = t
          /\ Goto(t, "refresh")
          /\ resume' = [resume EXCEPT ![t] = "stale"]
          /\ UNCHANGED cache
       \/ /\ age = "expired"
          /\ lock' = t
          /\ Goto(t, "login")
          /\ resume' = [resume EXCEPT ![t] = "stale"]
          /\ cache' = NoToken
    /\ UNCHANGED <<tasks, token, age, cookie, got, stale, tries, apicVars, pastVars>>

\* _refresh_token()'s exchange.  Any error status, a gateway's too, falls back
\* to _relogin(); an exchange that fails outright is the caller's error.
Refresh(t) ==
    /\ pc[t] = "refresh"
    /\ \/ /\ cookie \in alive
          /\ Issue(t)
          /\ Goto(t, "adopt")
          /\ UNCHANGED <<cache, lock>>
       \/ /\ cookie \notin alive \/ "network" \in Faults
          /\ cache' = NoToken
          /\ Goto(t, "login")
          /\ UNCHANGED <<got, cookie, lock, apicVars>>
       \/ /\ "network" \in Faults \/ issued = MaxTokens
          /\ Release(t, "failed")
          /\ UNCHANGED <<got, cookie, cache, apicVars>>
    /\ UNCHANGED <<tasks, token, age, resume, stale, tries, pastVars>>

\* login(use_cache=False)'s exchange.
Login(t) ==
    /\ pc[t] = "login"
    /\ \/ /\ Issue(t)
          /\ Goto(t, "adopt")
          /\ UNCHANGED lock
       \/ /\ {"network", "login"} \cap Faults # {} \/ issued = MaxTokens
          /\ Release(t, "failed")
          /\ UNCHANGED <<got, cookie, apicVars>>
    /\ UNCHANGED <<tasks, token, age, cache, resume, stale, tries, pastVars>>

Adopt(t) ==
    /\ pc[t] = "adopt"
    /\ token' = got[t]
    /\ age' = "fresh"
    /\ Goto(t, "save")
    /\ UNCHANGED <<tasks, cookie, cache, lock, resume, got, stale, tries, apicVars, pastVars>>

\* The cache file, then the cookie jar; an OSError skips the latter.
Save(t) ==
    /\ pc[t] = "save"
    /\ \/ /\ cache' = token
          /\ cookie' = token
          /\ Release(t, resume[t])
       \/ /\ "disk" \in Faults
          /\ Release(t, "failed")
          /\ UNCHANGED <<cache, cookie>>
    /\ UNCHANGED <<tasks, token, age, resume, got, stale, tries, apicVars, pastVars>>

-------------------------------------------------------------------------------
(* _request_checked() and _raw_write(): the request with its retries, the  *)
(* reaction to a 401, and the one replay.                                  *)

ReadStale(t) ==
    /\ pc[t] = "stale" /\ Room
    /\ stale' = [stale EXCEPT ![t] = token]
    /\ Goto(t, "send")
    /\ UNCHANGED <<tokenVars, resume, got, tries, apicVars, pastVars>>

\* How an exchange fails: not sent at all (connect error, pool timeout), 503,
\* 502 or 504, or an answer that never comes.
Troubles    == {"unsent", "busy", "gateway", "lost"}
Repeatable(t) == IF t \in Writers THEN {"unsent", "busy"} ELSE Troubles
TakesEffect(t) == applied' = [applied EXCEPT ![t] = @ + 1]

\* The exchange fails with r, after which the request may have been applied.
Trouble(t, r) ==
    /\ "network" \in Faults
    /\ \/ UNCHANGED applied
       \/ r \in {"gateway", "lost"} /\ cookie \in alive /\ TakesEffect(t)

\* Mutant: one attempt more than configured.
SendOnceMore(t) ==
    /\ pc[t] = "send"
    /\ sent' = [sent EXCEPT ![t] = cookie]
    /\ \E r \in Troubles :
          /\ Trouble(t, r)
          /\ IF r \in Repeatable(t) /\ tries[t] < Attempts
             THEN tries' = [tries EXCEPT ![t] = @ + 1] /\ UNCHANGED pc
             ELSE Goto(t, "failed") /\ UNCHANGED tries
    /\ UNCHANGED <<tokenVars, resume, got, stale, apicVars, rejected, cut>>

\* Mutant: a write is retried like a read.
SendAsRead(t) ==
    /\ pc[t] = "send"
    /\ sent' = [sent EXCEPT ![t] = cookie]
    /\ \/ /\ cookie \in alive
          /\ TakesEffect(t)
          /\ Goto(t, "done")
          /\ UNCHANGED tries
       \/ \E r \in Troubles :
             /\ Trouble(t, r)
             /\ IF tries[t] + 1 < Attempts
                THEN tries' = [tries EXCEPT ![t] = @ + 1] /\ UNCHANGED pc
                ELSE Goto(t, "failed") /\ UNCHANGED tries
    /\ UNCHANGED <<tokenVars, resume, got, stale, apicVars, rejected, cut>>

Send(t) ==
    /\ pc[t] = "send"
    /\ sent' = [sent EXCEPT ![t] = cookie]
    /\ \/ /\ cookie \in alive
          /\ TakesEffect(t)
          /\ Goto(t, "done")
          /\ UNCHANGED tries
       \/ /\ cookie \notin alive
          /\ Goto(t, "refused")
          /\ UNCHANGED <<applied, tries>>
       \/ \E r \in Troubles :
             /\ Trouble(t, r)
             /\ IF r \in Repeatable(t) /\ tries[t] + 1 < Attempts
                THEN tries' = [tries EXCEPT ![t] = @ + 1] /\ UNCHANGED pc
                ELSE Goto(t, "failed") /\ UNCHANGED tries
    /\ UNCHANGED <<tokenVars, resume, got, stale, apicVars, rejected, cut>>

\* Mutants: re-login whoever renewed meanwhile; re-login outside the lock;
\* never re-login; re-login with the old token left in the cache.
Relogin(t) ==
    /\ cache' = NoToken
    /\ rejected' = rejected \cup {token}
    /\ resume' = [resume EXCEPT ![t] = "replay"]
    /\ Goto(t, "login")

ReactAlways(t) ==
    /\ pc[t] = "refused" /\ lock = NoThread
    /\ lock' = t
    /\ Relogin(t)
    /\ UNCHANGED <<tasks, token, age, cookie, got, stale, tries, apicVars, sent, applied, cut>>

ReactUnlocked(t) ==
    /\ pc[t] = "refused"
    /\ token = stale[t]
    /\ Relogin(t)
    /\ UNCHANGED <<tasks, token, age, cookie, lock, got, stale, tries, apicVars, sent, applied, cut>>

ReactNever(t) ==
    /\ pc[t] = "refused" /\ lock = NoThread
    /\ Goto(t, "replay")
    /\ UNCHANGED <<tokenVars, resume, got, stale, tries, apicVars, pastVars>>

ReactKeepingCache(t) ==
    /\ pc[t] = "refused" /\ lock = NoThread
    /\ token = stale[t]
    /\ lock' = t
    /\ rejected' = rejected \cup {token}
    /\ resume' = [resume EXCEPT ![t] = "replay"]
    /\ Goto(t, "login")
    /\ UNCHANGED <<tasks, token, age, cookie, cache, got, stale, tries, apicVars, sent, applied, cut>>

\* _reactive_relogin(stale): only while the live token is the stale one.
React(t) ==
    /\ pc[t] = "refused" /\ lock = NoThread
    /\ \/ /\ token # stale[t]
          /\ Goto(t, "replay")
          /\ UNCHANGED <<lock, cache, resume, rejected>>
       \/ /\ token = stale[t]
          /\ lock' = t
          /\ Relogin(t)
    /\ UNCHANGED <<tasks, token, age, cookie, got, stale, tries, apicVars, sent, applied, cut>>

Replay(t) ==
    /\ pc[t] = "replay" /\ Room
    /\ sent' = [sent EXCEPT ![t] = cookie]
    /\ \/ /\ cookie \in alive
          /\ TakesEffect(t)
          /\ Goto(t, "done")
       \/ /\ cookie \notin alive
          /\ Goto(t, "failed")
          /\ UNCHANGED applied
       \/ /\ \E r \in Troubles : Trouble(t, r)
          /\ Goto(t, "failed")
    /\ UNCHANGED <<tokenVars, resume, got, stale, tries, apicVars, rejected, cut>>

-------------------------------------------------------------------------------
(* A task is cancelled where it awaits: the locks are left, its request may *)
(* have had its effect, and an answer whose cookie the jar took (httpx     *)
(* does when the headers are in) is not taken over.                        *)

Cancel(t) ==
    /\ tasks /\ "cancel" \in Faults
    /\ pc[t] \in {"ensure", "refresh", "login", "adopt", "stale", "send", "refused",
                  "replay"}
    /\ Goto(t, "failed")
    /\ lock' = IF lock = t THEN NoThread ELSE lock
    /\ \/ UNCHANGED applied
       \/ pc[t] \in {"send", "replay"} /\ cookie \in alive /\ TakesEffect(t)
    /\ cut' = IF pc[t] = "adopt" /\ SetsCookie THEN cut \cup {got[t]} ELSE cut
    /\ UNCHANGED <<tasks, token, age, cookie, cache, resume, got, stale, tries,
                   apicVars, sent, rejected>>

-------------------------------------------------------------------------------
(* The clock, and an administrator or a failover ending APIC sessions.     *)

Grow ==
    /\ age # "expired"
    /\ age' = IF age = "fresh" THEN "due" ELSE "expired"
    /\ UNCHANGED <<tasks, token, cookie, cache, lock, threadVars, apicVars, pastVars>>

Revoke(k) ==
    /\ k \in alive
    /\ alive' = alive \ {k}
    /\ UNCHANGED <<tokenVars, threadVars, issued, pastVars>>

-------------------------------------------------------------------------------
\* After login(): the token came from the APIC or from the cache, which does
\* not know whether it still lives.
Init ==
    /\ tasks \in Flavours
    /\ token = 1 /\ age \in {"fresh", "due"} /\ cookie = 1 /\ cache = 1
    /\ lock = NoThread
    /\ pc = [t \in Threads |-> "ensure"]
    /\ resume = [t \in Threads |-> "stale"]
    /\ got = [t \in Threads |-> NoToken]
    /\ stale = [t \in Threads |-> NoToken]
    /\ tries = [t \in Threads |-> 0]
    /\ issued = 1 /\ alive \in {{}, {1}}
    /\ sent = [t \in Threads |-> NoToken]
    /\ applied = [t \in Threads |-> 0]
    /\ rejected = {} /\ cut = {}

ThreadStep(t) ==
    /\ Turn(t)
    /\ \/ Ensure(t) \/ Refresh(t) \/ Login(t) \/ Adopt(t) \/ Save(t)
       \/ ReadStale(t) \/ Send(t) \/ React(t) \/ Replay(t)

Next ==
    \/ \E t \in Threads : ThreadStep(t) \/ (Turn(t) /\ Cancel(t))
    \/ Grow
    \/ \E k \in Tokens : Revoke(k)

Spec == Init /\ [][Next]_vars

\* Every thread runs, and every exchange ends: the HTTP client has a timeout.
Fairness == \A t \in Threads : WF_vars(ThreadStep(t))

FairSpec == Spec /\ Fairness

-------------------------------------------------------------------------------
(* Properties.                                                             *)

Over(t) == pc[t] \in {"done", "failed"}

\* Every variable stays within its type; in particular no request makes more
\* than the configured number of attempts.
TypeOK ==
    /\ tasks \in BOOLEAN /\ cut \subseteq Tokens
    /\ token \in Tokens /\ cookie \in Tokens /\ cache \in Tokens \cup {NoToken}
    /\ age \in {"fresh", "due", "expired"} /\ lock \in Threads \cup {NoThread}
    /\ pc \in [Threads -> {"ensure", "refresh", "login", "adopt", "save", "stale",
                           "send", "refused", "replay", "done", "failed"}]
    /\ resume \in [Threads -> {"stale", "replay"}]
    /\ got \in [Threads -> Tokens \cup {NoToken}]
    /\ stale \in [Threads -> Tokens \cup {NoToken}]
    /\ sent \in [Threads -> Tokens \cup {NoToken}]
    /\ tries \in [Threads -> 0..(Attempts - 1)] /\ applied \in [Threads -> Nat]
    /\ issued \in Tokens /\ alive \subseteq Tokens /\ rejected \subseteq Tokens

\* However many threads are refused together, the session logs in again only
\* for a token the APIC no longer accepts: the first thread renews it, and the
\* others find a newer one and leave it alone.  The dead token is the session's
\* own, or one that a cancelled renewal left in the jar.
ReloginOnlyIfDead ==
    \A t \in Threads : pc[t] = "login" /\ resume[t] = "replay" =>
        sent[t] \notin alive /\ (sent[t] = token \/ sent[t] \in cut)

\* Whenever nobody is renewing, the cookie the requests carry is the token
\* the session believes in: no two renewals interleave.  Only a task cancelled
\* while it receives a renewal's answer leaves the jar one token ahead.
CookieIsToken == lock = NoThread => cookie = token \/ cookie \in cut

\* A token a 401 made the session give up never stays in the cache, where the
\* next process would pick it up, even when its replacement cannot be saved.
RejectedNotCached == cache \notin rejected

\* A replay carries another token than the refused request did, if that
\* request carried the token its thread had noted.
ReplayRenews ==
    \A t \in Threads : pc[t] = "replay" /\ sent[t] = stale[t] => cookie # sent[t]

\* Retried or replayed, a write takes effect at most once.
WriteAtMostOnce == \A t \in Writers : applied[t] <= 1

\* Every request ends: nobody keeps the token lock or a permit, or waits for
\* either for ever, whoever is cancelled.
RequestsEnd == \A t \in Threads : pc[t] = "ensure" ~> Over(t)

\* The documented form of ReplayRenews: "every thread replays on the renewed
\* token", whatever happened before its request was refused.
EveryReplayRenews == \A t \in Threads : pc[t] = "replay" => cookie # sent[t]
===============================================================================
