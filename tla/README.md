# Niwaki in TLA+

Niwaki is a Python client for Cisco ACI's APIC controllers: a session that
authenticates, queries and subscribes, and a design engine that compiles a
declared tree of objects and pushes it.  Most of the repository is generated
vocabulary and pure functions.  The part that is hard to test is small: a
WebSocket shared by every subscription and served by background threads, a
token renewed under a lock by whichever thread meets its end, a bounded queue
between two threads, and a push engine that sends operations concurrently and
must still behave like the sequential one.  Most of it exists twice, for threads
and for asyncio.  These modules model that part.

Source paths below are relative to `src/niwaki/`.

## 1. Inventory

| component | state | operations | modelled |
|---|---|---|---|
| threaded subscription socket, `transport/_subscription_socket.py` | `_closed`, `_dead`, `_generation`, `_ws`, `_registrations`, `_wire_to_local`, `_doomed`, per-registration `wire_id` and failure counter; one reader and one refresh thread per generation | `subscribe`, `unsubscribe`, manual refreshes, `close_all_subscriptions`, `close`, reader loop with reconnect, sweep with escalation, crash net, finalizer | yes, `SubscriptionSocket` |
| subscription queue, same file | the queue, `dropped_total`, `overflow_open`, `RawSubscription._closed` | `_offer`, `__next__`, control puts, `close` | yes, `SubscriptionQueue` |
| asyncio subscription socket, `transport/_subscription_socket_async.py` | as above, with tasks | as above, and `aclose`, cancellation, the lock's queue; connects outside its lock | yes, `AsyncSubscriptionSocket` |
| session, `transport/session.py`, `_token.py`, `_token_cache.py`, `_retry.py` | `_token_state`, cookie jar, cache file, `_token_lock`, lazily created subscription socket | `login`, `_ensure_token`, `_refresh_token`, `_relogin`, `_reactive_relogin`, requests with retries, pagination, `close` | partly, `TokenSession`, `SessionSockets`, `Pagination` |
| asyncio session, `transport/session_async.py` | as above, and a request semaphore | as above | partly, `TokenSession`, `SessionSockets`, `Pagination` |
| signing, credentials, error mapping | none | conversions, cryptography | no |
| staged push engine, `design/_engine.py`, `_push.py` | wave, iterator, result slots, outcome | `_run_waves`, `_run_waves_sync`, `_staged_report`, plan | partly, `StagedPush`, `PlanMode`, `Push` |
| compiler and collision check, `design/_compiler.py`, `_resolver.py` | none (pure) | `compile_ops`, `build_desired_tree`, `_check_rn_collisions`, reference resolution | partly, `DesignOps`, `PlanMode` |
| design surface (`_cursor`, `_node`, `_compose`, `_view`, `_emit`, `_import` ...) | a tree built by one thread | construction, merge, slice, diff, rendering | no |
| reference verification, `design/_verify.py` | none | independent reads, gathered | no |
| reads, snapshots, diffs, DNs | none (pure) | `read_subtree`, `build_tree`, `mo_diff`, DN splitting | partly, `PlanMode` |
| query builders, facades | immutable builders | URL assembly, delegation | no |
| models, navigation, vocabulary, schema, generator, tools | generated data | none | no |

How they interact.  The session owns the socket: every subscribe, resubscribe
and refresh is a REST request of the session (so it may renew the token, retry,
and fail with any `NiwakiError`), and opening the WebSocket puts the session's
token into its URL.  The socket's reader thread and the user's consumer share a
queue per subscription.  The socket's two threads and all callers share one
lock, `_state_lock`; REST calls and queue puts happen outside it, which is where
the interleavings come from.  The design engine sends each operation of a wave
as a write of the session, and sees only its success or error.

Hard behaviours and what correctness means there:

* **socket**: a call in flight (subscribe, reconnect, escalation, refresh) is
  overtaken by a close, a failure of the whole socket, or another resubscribe.
  Correct: each stream ends exactly once and its consumer is told; the demux
  table is the inverse of the registrations; nothing is reopened after
  `close()`; no connection is left behind; an open socket always has its threads.
* **asyncio socket**: every `await` is a point where anything else may run, and
  where the task may be cancelled.  A connection is made before the lock is
  taken, so two callers may make one each; the lock is held across the await that
  closes the spare one.  Correct: as above, and the lock is always let go, no
  reader stays parked, each stream is heard after a reconnect.
* **queue**: length read before the put, markers put by other threads,
  consumer blocked when the stream ends.  Correct: the bound holds, every loss
  is counted and announced at its place, a blocked consumer is released.
* **session**: several threads meet an expired or refused token; a renewal has
  three steps; a retry may repeat what already took effect.  Correct: one login
  per dead token, token and cookie agree, a dead token is not kept on disk, a
  write takes effect at most once, no thread keeps the lock.
* **session's socket**: nothing guards the attribute that holds it.  Correct:
  `close()` ends every stream and connection; only calls that race a `close()`
  may fail for it.
* **pagination**: the controller cuts pages by position, and may claim any total.
  Correct: a walk ends within the guard, and returns whatever nobody moved, or, if
  the total was claimed too low, at least that many objects.
* **push**: answers in any order, any operation failing.  Correct: nothing is
  sent below an unfinished or failed parent, a failure skips its subtree and
  nothing else, the report is the sequential one.
* **plan**: the fabric is read in pieces while others write, and a scoped read
  may miss objects.  Correct: every declared object that a plan covers is reported
  once, as it was at some moment of the plan.

The complete list, with the line each hazard bites at, is `PROJECT.json`
"hazards".

## 2. Modules

### SubscriptionSocket

One action per critical section of `_state_lock`, or per call made out of it.
`Subs` are the local ids, one `subscribe()` call each.

| code | actions |
|---|---|
| `subscribe` | `OpenRefused`, `OpenShared`, `OpenFresh` (`_ensure_open`, which bumps the generation and starts both threads), `RestSubscribe` (the GET, outside the lock), `Insert` (second critical section) |
| `unsubscribe`, `RawSubscription.close`, finalizer | `CloseOne`, `Abandon`; `Unsubscribe` is the shared body |
| `refresh_one_now`, `refresh_all_subscriptions` | `ManualRefresh`; a refresh that fails changes nothing, one that finds the counter at 0 neither |
| `close_all_subscriptions`, `close` | `CloseAllSubscriptions`, `Close` |
| `_reader_loop`, `_dispatch` | `ReaderTop`, `ReaderRecv`, `ReaderLost` |
| `_reconnect_and_resubscribe_all` | `ReaderAttempt` (per attempt), `ReaderGiveUp`, `ReaderSnapshot`, then for each registration `ReaderResub` (the GET) and `ReaderAdopt` (the critical section), `ReaderResume` |
| `_refresh_loop`, `_refresh_one`, `_escalate` | `SweepTick`, `SweepRefresh`, `SweepEscalate` (the GET), `SweepAdopt`, `SweepReap` (`_doomed`) |
| `_fail_all`, `_fail_from_crash` | `FailAll` in `ReaderFailAll` and `SweepFailAll`, reached from `ReaderCrash` and `SweepCrash` too |

`_escalate` and the reconnect loop treat a finished resubscribe with the same
guarded update; `Settle` is that update.  A `put_nowait` that follows a critical
section is a separate step: the section adds the item to `owed` and `Put`
performs it.  The thread that owes an item does not go on before it is put
(`Busy`), so a thread's own puts keep their order while those of two threads do
not.  Likewise `closing` holds the `ws.close()` calls a thread has committed to.

`ReaderCrash` and `SweepCrash` stand for an exception anywhere in a thread's loop,
which is what the nets of `_reader_entry` and `_refresh_entry` cover.  `SweepReap`
tests `_doomed` and pops it in one step, though nothing locks them together: when
two sweeps meet there, the second one's `pop(0)` raises, which is a `SweepCrash`.

Abstracted: frame parsing, timeouts and dates (`SweepTick` lets any subset of
the registrations be due), the content of items, the weak references (the
finalizer of the socket itself).  The failure counter saturates at the
escalation threshold, beyond which no code distinguishes values.  External are
the network (`Connect`, `Disconnect`) and the APIC, which binds a wire id to the
connection open when it granted it, may push on any bound id, and may reject.

`epoch`, `ends` and `told` record history for the properties and guard nothing.

### Subscriptions

The abstract promise: a subscribe is refused or opens a stream, a stream ends
at most once and its consumer is then always woken, `close()` ends all streams
in one step and none opens later.  `SubscriptionSocket!KeepsPromise` is its
fair specification under the refinement mapping `Phase` (a stream is *open*
while registered, *ending* while its terminal item is owed, *ended* when its
queue has it).

### AsyncSubscriptionSocket

The asyncio twin has the same parts and the same handlers, with other steps: one
event loop runs all coroutines, so an action is what runs between two awaits.  A
critical section and the queue puts after it, two steps in the threaded module,
are one here.  What the threaded socket does not have:

| code | actions |
|---|---|
| `_ensure_open`: connect outside the lock, then re-check | `CheckOpen`, `ConnectFailed`, then `SettleConnection` (refused if closed meanwhile, the spare connection closed if another is open, else adopted and both tasks started), reached by `Connected` or, after a wait for the lock, `ConnectedResumes`; `RedundantClosed` lets the lock go |
| `subscribe` | `RestSubscribe`, `Insert` |
| `_drop_registration_nowait`, the consumer's finalizer | `Abandon` and, on the loop, `DropRegistration`, neither of them under the lock |
| `_reconnect_and_resubscribe_all` | `ReaderConnectFailed`, `ReaderConnected` or `ReaderConnectedResumes` (which adopt, and take the snapshot), `ReaderDiscarded`, `ReaderGiveUp`, `ReaderResub`, `ReaderAdopt` |
| `aclose` | `AClose`: its section, the `_STOP` items, and the cancellation of the latest pair of tasks |
| cancellation of a task that awaits `subscribe()` | `Cancel` |

A reader/sweep pair is named by the connection it was started on, which makes its
generation (`genOf`) data rather than a name; `latest` is the pair the fields
`_reader_task` and `_refresh_task` name.  `asyncio.Lock` is modelled as it
behaves: `holder` is the coroutine that awaits *inside* the lock, `waiting` the
first-come-first-served queue; `Section` is a critical section without an await,
`Acquire` and `Release` one with an await in it, `Wait` the suspension of a
coroutine that finds the lock held.  A cancelled task leaves the queue.

`case` picks, for a whole behaviour, the faults that may happen and its share
of the bounds, so that one run covers several small instances.  `ends`, `late`
and `strays` record history for the properties and guard nothing.  The module
implements `Subscriptions` too.

### SubscriptionQueue

One registration's queue with its two ends.  `_offer` is split where another
thread may run: `OfferCheck` reads the length, `OfferDrop` or `OfferSettle`
(the hysteresis) and `OfferPut` act on it.  `Arrive` from `idle` needs the
registration tracked, while a frame already being dispatched (`frame`) goes on
offering to a registration removed meanwhile, as `_dispatch` does with its
captured targets.  `PutControl` is any gap or refresh-failure item of another
thread.  `EnterNext` is the test of `_closed`, `Get` the blocking `get()`.

### TokenSession

Threads sharing a session, one request each.  `Ensure`, `Refresh`, `Login`,
`Adopt`, `Save` are `_ensure_token` and the two exchanges, split at the HTTP
call, the assignment of `_token_state` and the cache write; `ReadStale`, `Send`,
`React`, `Replay` are a request with its retries, `_reactive_relogin` and the
one replay.  `age` is the token's remaining time as `is_expired` and
`needs_refresh` tell it apart.  `Troubles` are the failures the retry policies
distinguish; a write is repeated only after those that prove it was not applied.

The module stands for both sessions.  With `tasks` set it is the asyncio one:
`Turn` lets a task give way only where it awaits (noting the token and building
the first attempt are one step, and so are taking a token over and saving it),
`Room` is the request semaphore (a permit is held through a request's attempts
and pauses, not while the token is renewed), and `Cancel` ends a task at any of
its awaits.  `cut` records the tokens a cancelled task left in the jar only.

Assumptions: a token cache is configured (without one `Save` writes nothing and
cannot fail); the APIC's answer sets the cookie itself (`SetsCookie = TRUE`),
as `transport/session.py:164-168` says it does.  Without that, a cache file that
cannot be written leaves the old cookie next to the new token, because `login`
writes the cache before the jar.

### SessionSockets, Pagination

`SessionSockets` is `_subscription_socket`, the attribute of a session, between
`subscribe()` (`SubscribeCheck`, `SubscribeCreate`, `SubscribeUse`, then the
socket's own `Open`, `Rest`, `Insert`), the calls on all subscriptions
(`BatchCheck`, `BatchUse`, `BatchRun`) and `close()` (`CloseCheck` to
`CloseClient`): each read and write of the attribute is a step.  The socket's
inside is reduced to what these calls see of it: it connects, is shut, ends its
streams.  One module stands for both sessions: when `tasks` is false the steps
of all callers interleave; when it is true, `loop` names the task that runs, and
only a step that awaits gives it away.  `lost`, `before`, `overlaps` and
`crashed` record history.

`Pagination` extends it with `_iter_pages`, a call that reads a collection page
by page (`FirstPage`, `NextPage`, `EndOfPages`, `PageError`) while other clients
insert and remove objects and while the session may be closed.  The first answer
claims any total of `Totals`, 0 for none; `astray` records what may mislead the
walk: a total too low, or a write that moves what was not read yet.  Its `Spec` is the session with
its calls and, if some of them read pages, one walk.

### DesignOps, StagedPush, PlanMode, Push

`DesignOps` holds pure operators: `CompileOps` is `compile_ops` (atomic
envelopes stop the walk, carrier prefixes emit nothing, an object's relations
come before its children), `Kept` and `Contradicts` are the collision check.
`StagedPush` is `_run_waves`: waves by DN depth, workers (`Pull`, `Answer`)
bounded by `max_concurrent` on one iterator, results kept by position and folded
when the wave ends.  `RunWavesSync` is the sequential engine as an operator, the
reference for `SameAsSync`: `RunOne` is the body of its loop, `RunWave` one wave,
`RunUpTo` the waves up to a depth.  `Only(s, T)` is what every selection of the two
modules is written with: the elements of a sequence that are in a set, in their
order.

`PlanMode` is `push(mode="plan")`.  It covers (`Declared`) the roots and what is
below them: `_plan_roots` descends into carriers, so a carrier and its own
relations are in no plan, although `compile_ops` posts those relations.  For each
root it reads the objects in pieces (`ReadObject`, one object a step, which
is finer than any sharding or page), drops classes the APIC refuses
(`DropUnqueryable`), rebuilds the tree and compares (`Diff`), then probes the
creates whose parent is none, level after level (`NextFrontier`, `Probe`), and
merges the root's result (`RootDone`).  `OtherWrites` is another client, which
may write or delete a subtree at any moment; `seen` records what each object was.

`Push` composes the two: a push has one of the two modes, and others write
meanwhile.  `MCStagedPush` builds a family of designs with `DesignOps` and pushes
what it compiles, or plans one against fabrics in every state of its bridge domain.

## 3. Runs

| run | instance | what it shows |
|---|---|---|
| `socket_faults` | 1 subscription, 1 generation of threads, 2 connections, 3 wire ids, all faults, fair | a stream ends exactly once whoever races to end it (`OneTerminal`); the demux table is the inverse of the registrations (`RouteIsInverse`); `close()` is final (`ClosedForGood`); a reconnect reaches every registration (`ReconnectCoversAll`); threads stop after `close()` (`ThreadsStop`); the socket implements `Subscriptions` (`KeepsPromise`) |
| `socket_pair` | 2 subscriptions, 3 generations, 1 frame, outages and rejections | no WebSocket is left behind (`NoLeakedConnection`); an open socket has its threads (`OpenSocketIsServed`); a registration is served, and by the sweep of its own generation only, unless a `_fail_all` overtook its `subscribe()` (`ServedUnlessOvertaken`); a gap marker precedes the events of its wire id (`GapPrecedesItsEvents`) |
| `queue_bound` | bound 2, 5 events, 2 control items | bound, exact loss count, place of the overflow marker, release of the consumer |
| `token_threads` | 2 threads or 2 tasks (a reader, a writer), 1 permit, 4 tokens, 2 attempts, network, login and disk failures, cancellation | one login per dead token (`ReloginOnlyIfDead`), token and cookie agree (`CookieIsToken`), a refused token leaves the disk (`RejectedNotCached`), a replay carries another (`ReplayRenews`), no write twice (`WriteAtMostOnce`), every request ends (`RequestsEnd`) |
| `async_socket` | 2 subscriptions, 3 connections, 3 wire ids, 2 places in the lock's queue, in three cases: crashes and vanished consumers; refused refreshes and subscribes; cancellation and outages | the properties of the threaded socket hold with every `await` a point of interleaving: the demux table (`RouteIsInverse`), no connection left but the strays (`NoLeakedConnection`), every stream heard after a reconnect but the late ones (`SurvivorsHeard`), the lock let go (`LockIsReleased`), no reader parked after `aclose()` (`NobodyParked`), the socket implements `Subscriptions` (`KeepsPromise`) |
| `session_calls` | 4 callers, threads or tasks, up to two `close()` calls; or a page walk over 6 collections with any total claimed, 2 writes of others and a `close()` | `close()` releases all it promises to (`CloseReleases`); only a race with it makes a call fail, and none between tasks (`OnlyRacesHurt`); a page walk is complete unless the total was too low or positions moved under it (`PagesComplete`), and ends within the guard (`TypeOK`) |
| `staged_push` | 24 designs less the contradictory ones, 1 to 3 workers, every set of failures, every order of answers; 40 plans (10 fabrics, 4 kinds of unreadable objects) with 2 writes of others | `ParentsFirst`, `OnlySubtreesSkipped`, `SameAsSync`, `PlanHeld`, `PushEnds` |
| `socket_overtaken`, `socket_superseded`, `queue_episode`, `token_carried`, `staged_wave` | the smallest that show it | what a docstring or guide promises and the code does not do (section 6) |

Why the bounds are enough.  The races are between *one* call and *one* event
that overtakes it, so one or two subscriptions suffice; what needs room is the
number of socket generations, connections and wire ids.  The three generations of
`socket_pair` admit a socket that opens, fails, reopens and fails again; in
`socket_faults`, which has every fault, its liveness and a refinement to check,
the second connection is the reader's reconnection, and three wire ids admit
a reconnect and an escalation that resubscribe one stream at once.  There an
escalation follows the first refused refresh: a higher threshold adds only the
markers of the refusals before.  The safety properties of the
passing runs are proved for any bound too (section 4); the runs are what finds out
cheaply whether they hold, and what checks liveness.  A run that reaches a bound
behaves as under an outage or a rejection (`MayFailToConnect`, `MayReject`), so
a bound adds no behaviour the code could not meet.  One subscription suffices
for `OneTerminal` and for the first half of `RouteIsInverse`, since every action
changes the registrations one by one or all together.  For the queue, `max_pending = 2` is
the smallest value at which `// 2` leaves a half to drain to, and five arrivals
admit two overload episodes.  For the session, four tokens admit a refresh and
two re-logins.

For the asyncio socket, three connections admit a failed generation that is
replaced while its reader still reconnects, or a third that is spare; three wire
ids admit an escalation and a reconnect that resubscribe one subscription at
once; two places in the lock's queue admit a task cancelled behind another.  The
faults are split into cases because their product is out of reach; each pair that
is together is one whose recoveries meet (a crash and a finalizer both remove
registrations; a refused refresh and a refused subscribe both end a stream; a
cancelled task and a failed connect both leave a connection half made).  One
reconnect attempt and a threshold of one suffice, since no property counts either.
Four callers of the session admit two first subscriptions and two closes; a page
of two objects with a guard of two pages admits an empty, a short and an
overlong collection; two writes of others admit a removal that one of an
insertion hides.  For the plan, the five declared objects have every kind of
parent (root, relation's source, carrier), and two writes suffice to delete an
object and create it again between its two reads.

Deadlock is not checked where the program may stop: all calls made, the
push over, the threads done.

`socket_pair` excludes refused refreshes, and so escalations:
`GapPrecedesItsEvents` is about the reader, which puts its gap marker before it
receives again.  The sweep puts the marker of an escalation after leaving the
lock, and the reader may deliver an event of the new id first; no doc promises
otherwise.  It excludes crashes too, which `socket_superseded` is about:
a reader that reconnects for a dead generation may even replace, and so leak,
the connection of the new one.

### Fairness

`SubscriptionSocket`: weak fairness of each background thread, of each
`subscribe()` call, of committed puts and of committed `ws.close()` calls; the
interpreter schedules every started thread and none of these steps can be
disabled for ever by another.  Receiving a frame, network failures, user calls
and the choice of crashing are not fair.  `SubscriptionQueue`: the thread that
popped a registration puts its terminal item, and a `get()` that finds an item
returns; nobody has to read.  `TokenSession`: every thread runs and every
exchange ends (the HTTP client has a timeout).  Weak fairness suffices there
although threads compete for the lock and tasks for the semaphore, because a
request takes each finitely often.  `Push`: the event loop runs the push and every
operation or read is answered or times out (weak fairness of `PushStep`); writes of
others are not fair.

`AsyncSubscriptionSocket`, `SessionSockets` and `Pagination` are checked for
safety only.  In their place of liveness stand `LockIsReleased` (whoever holds
the lock awaits only the close of its own spare connection) and `NobodyParked`;
the asyncio `Subscriptions` is checked without its fairness.

## 4. Proofs

Seven modules prove every invariant of the passing runs for every value of the
constants, where the runs check small instances: any number of subscriptions,
threads, tasks, callers or workers, any design, fabric or collection, any bound,
and, where the statement names no fault, any set of faults.  An eighth,
`StagedPushProofs`, holds the lemmas and the inductive invariant of the staged push.

| module | theorem | says | given |
|---|---|---|---|
| `SubscriptionSocketProofs` | `TypeCorrect` | `Spec => []TypeOK` | |
| | `ClosedIsFinal` | `Spec => []ClosedForGood` | |
| | `EndsExactlyOnce` | `Spec => []OneTerminal` | |
| | `RouteIsAlwaysInverse` | `Spec => []RouteIsInverse` | |
| | `ImplementsPromise` | `Spec => Promise!Spec` | |
| `SubscriptionServiceProofs` | `OpenIsServed` | `Spec => []OpenSocketIsServed` | `NoCrash` |
| | `NothingLeaks` | `Spec => []NoLeakedConnection` | `NoCrash` |
| | `JoinedIsServed` | `Spec => []ServedUnlessOvertaken` | `NoCrash` |
| | `MarkersComeFirst` | `Spec => []GapPrecedesItsEvents` | `NoCrash`, `NoRefusal` |
| `SubscriptionQueueProofs` | `TypeCorrect` | `Spec => []TypeOK` | |
| | `BoundKept` | `Spec => []EventsBounded` | |
| | `LossesCounted` | `Spec => []EveryEventCounted` | |
| | `MarkerStands` | `Spec => []MarkerInPlace` | |
| `TokenSessionProofs` | `TypeCorrect` | `Spec => []TypeOK` | |
| | `RejectedLeavesCache` | `Spec => []RejectedNotCached` | |
| | `WritesOnce` | `Spec => []WriteAtMostOnce` | |
| | `RenewalsKeepApart` | `Spec => []CookieIsToken` | `SetsCookie` |
| | `NoNeedlessRelogin` | `Spec => []ReloginOnlyIfDead` | `SetsCookie` |
| | `ReplaysRenew` | `Spec => []ReplayRenews` | `SetsCookie` |
| `AsyncSubscriptionProofs` | `TypeCorrect` | `Spec => []TypeOK` | |
| | `LockAlwaysReleased` | `Spec => []LockIsReleased` | |
| | `ImplementsPromise` | `Spec => KeepsPromise` | |
| | `RouteIsAlwaysInverse` | `Spec => []RouteIsInverse` | |
| | `NothingLeaks` | `Spec => []NoLeakedConnection` | |
| | `NoneParked` | `Spec => []NobodyParked` | |
| | `SurvivorsAreHeard` | `Spec => []SurvivorsHeard` | |
| `SessionProofs` | `TypeCorrect` | `Spec => []TypeOK` | |
| | `CloseAlwaysReleases` | `Spec => []CloseReleases` | |
| | `RacesOnlyHurt` | `Spec => []OnlyRacesHurt` | |
| | `PagesAreComplete` | `Spec => []PagesComplete` | |
| `PushProofs` | `PushTypes` | `PushSpec => []PushTypeOK` | |
| | `ParentsAlwaysFirst` | `PushSpec => []ParentsFirst` | |
| | `FailuresAreIsolated` | `PushSpec => []OnlySubtreesSkipped` | |
| | `AnyOrderSameReport` | `PushSpec => []SameAsSync` | |
| | `PlansAreTrue` | `PushSpec => []PlanHeld` | |

### Assumptions

All proofs use the named assumptions of the modules they are about (`SubAssumption`,
`BoundAssumption`, ...), which say of what kind the constants are and which TLC
evaluates in every run.  Three are more than a kind:

* `CallerAssumption`: the callers of a session are finitely many, because the
  sockets they make are counted.
* `OpListAssumption`: the operations of a push have distinct DNs.  A declaration
  that repeats an RN under one parent is refused (`DuplicateDeclarationError`,
  `_cursor.py`), and of relations that share one the collision check leaves one
  (`_resolver.py`, `Kept` and `Contradicts` in `DesignOps`).  The run's lists are
  what `CompileOps` makes of its designs, so TLC tests that this is so for them.
* `PlanCaseAssumption`: a design that is planned has a root, each declared object
  is below exactly one (for the same two reasons: a root is not below another,
  because the descent stops at it), and what is between two declared objects is
  declared, because a node's DN is its parent's and its RN; the fabric is a tree,
  an absent object having nothing below it, which is what `_boundary` relies on
  ("MIT containment guarantees a child cannot exist without its parent").

Three theorems' hypotheses are about the environment, and each is needed:

* `NoCrash` (`"crash" \notin Faults`): the reader and the sweep end only where
  their code returns.  `socket_superseded` shows the leak and the unserved socket
  that follow when the crash net ends a generation whose reader is reconnecting.
  It excludes with them the exception of the second of two sweeps that reap at once.
* `NoRefusal` (`"refresh" \notin Faults`): no refresh fails, so the sweep never
  escalates.  The gap marker of an escalation is put after the lock is left, and
  the reader may deliver an event of the new id before it (section 3).
* `SetsCookie`: the APIC's answers carry `Set-Cookie`, as
  `transport/session.py:164-168` says (section 2, TokenSession).  It is a constant
  of the model; the other theorems of that module hold for both its values.

### Arguments

**Threaded socket.**  `TypeOK` is inductive as it stands, with one conjunct that
looks odd for a type: a sweep at `escalate` names a subscription.  `OneTerminal`
is inductive together with it: every action that removes a registration finds it
in `regs` and adds one terminal item for it.  The argument never looks at the
threads' program counters, so it covers any number of sweeps and readers of old
generations racing; the refinement of `Subscriptions` follows from it, action by
action, since a stream is popped with no terminal item yet and given one last.

`RouteIsInverse` is *not* inductive: `Insert` maps the id an earlier step
obtained, and `ReaderAdopt` and `SweepAdopt` the answer they hold.  The
strengthening, `WiresOwnedOnce`, says that a wire id has at most one owner (a
caller on its way to `Insert`, a registration, or a thread with the answer of a
pending resubscribe) and was given out by the APIC.

What serves a socket is `ServiceInv`, and it does look at the program counters:
readers of superseded generations are gone (`Quiet`); until `close()`, `_ws` is
set exactly while the reader and sweep of the current generation run (`Served`);
that reader receives on `_ws`, and replaces it only when it is down (`Attached`);
a `subscribe()` call of this generation finds it still set (`Joining`).  That no
other sweep meddles is `OwnHands`: a stream in the hands of a sweep has been
returned, so it is not registered again once it is removed; while the sweep of the
current generation runs `_ws` is set, so no newer generation starts, and what ends
one (`_fail_all`) empties the registrations.
`GapPrecedesItsEvents` adds that at most one gap marker is owed, by the reader that
has just adopted its id (`OneGap`), and that a consumer was told the id its
registration has unless that marker is owed (`Told`, `Newer`).

**Queue.**  The bound holds although the length is read before the put because
nobody else puts events: once the reader found room there is room until it puts
(`RoomLeft`).  The count needs to know which event is in its hand (`Latest`).  For
the marker's place, the stream is read as one sequence, what the consumer took
followed by what is buffered; events in it stay below the ones still to come
(`Upto`, `Dealt`), so what is appended after the marker is newer than what was
lost.  The lemmas on counting positions in `Append` and `Tail` are stated once.

**Session.**  `LockHeld` ties the lock to the renewal's places; `Numbered` orders
tokens: what a thread noted is never newer than the session's token, the answer a
renewal holds is the APIC's latest and newer than the one it replaces.  That gives
the cache property, and with it no write is sent again once it may have been
applied.  `CookieInv` adds what `Set-Cookie` guarantees: the jar has the latest
token (`CookieIsLatest`), and is ahead of the session only while a renewal holds
its answer or after one was cancelled with it (`JarAgrees`).  `Refused` is the heart
of `ReloginOnlyIfDead`: the token a refused request carried is dead and, unless
the session has renewed since, is its own, one in `cut`, or one that a renewal
under way is about to take over.

**Asyncio socket.**  `LockInv`: who is in the lock's queue is suspended there once
and at a place that wants it (in `TypeOK`); connections are numbered in the order
they are opened, and the one in a caller's hand has no tasks (`Numbered`); a
coroutine that closes a spare one holds the lock (`LockIsReleased`, `SparesHold`).
`RouteInv` is the argument of the threaded socket with three kinds of coroutines.
`ConnInv`: no two pairs of tasks share a generation (`Generations`); the reader of
the current one receives on `_ws`, and what it replaces is down, strays excepted
(`Replaceable`, `Parked`).  `Heard`: every registration not `late` is bound to the
open connection, or some reader has still to resubscribe it (`Awaits`).  Unlike in
the threaded module, nothing excludes crashes: what they and cancellations
leave behind is what `strays` and `late` name.

**Session's socket.**  No socket is forgotten: it is shut, overwritten, or the
attribute's (`Named`); one still open although shut is in the hands of the
`close()` that shut it (`Shutting`); after a `close()` the attribute names no
socket there was before (`Replaced`).  For `OnlyRacesHurt`, a call past its test
finds the attribute cleared only if it overlapped a `close()` (`Overlapping`,
`Cleared`), and between tasks nothing runs between the test and the use (`OneTask`,
`OneCloses`, `TasksLose`).  A page walk leaves `sessionVars` alone, so `Spec` implies
`SessionSpec`.

**Pages.**  The walk has read the first `ReadUpTo` positions or, after writes of
others, has what stayed there, unless a removal moved something among them
(`ReadSoFar`): an insertion pushes objects out of that part, never into it.  That
settles a walk that ends at an empty page, beyond which there is nothing.  One that
ends at the total needs `CountedUpTo`: unless the claimed total was below the true
one, nothing that stayed is past it, since removals only move objects forward
and insertions before the end are the exception.  With a total too low, what was
read is still the first part of the collection if nobody wrote, and as long as the
total.  `PagesComplete` is in the
invariant because others stop mattering once the walk is done.

**Staged push.**  `PushInv`: between waves the outcome *is* the sequential one of
the waves so far (`AtRest`); in a wave it is that of the waves above, with what was
skipped, and the answers stand at the positions of their operations (`InWave`).  The
step that matters is the end of a wave.  `RunWave`, which looks at each failure
before the next operation, has a closed form on operations of one depth
(`AfterWave`): no operation descends from another of its wave, so all decisions can be
taken at its start, as `_run_waves` does.  The wave's results, folded by position,
are that closed form for the failures among them (`WaveFolds`), and the failures of a
wave change nothing that was decided above it.  `Isolated` gives the subtrees: what was
not run is below a failure, and nothing that was run is, since a failure is never
deeper than what it might skip.  Proving it needed a repair of the model: the arms of
a `CASE` in `RunOne` overlapped, and only TLC's habit of taking the first made it the
loop's `if` with its `continue`.

**Plan.**  At every moment the root's three lists have each of its objects once, with
what was true of it (`Lists`, `RootSoFar`), and the merged ones those of the roots
before (`PlanSoFar`).  The gap is the creates: a scoped read that finds nothing proves
nothing, and only the topmost creates are probed.  What closes it is that every
moment of the fabric is a tree, so that an object seen absent had everything below it
absent then (`Fabric`), and that every create has a boundary create above it: when no
boundary create is left to verify, each was absent with its topmost ancestor
(`CreatesWereAbsent`).

Selections and folds over sequences are recursive functions, and a fact about what
they compute for every input is an induction.  It is stated with sets, not with a
predicate as a parameter: a set of sequences that has the empty one and is closed
under `Append` has all (`SequencesByAppend`), as a set of numbers with 0 and each
successor has (`NumbersFrom0`); both follow from the library's well-founded order of
the numbers.

### Model-checked only

* All liveness (`ReconnectCoversAll`, `ThreadsStop`, `ConsumerReleased`,
  `RequestsEnd`, `PushEnds`) and the fair half of the threaded `KeepsPromise`:
  liveness under fairness, and `ENABLED`, are out of the prover's reach.
* That what `CompileOps` makes of a design has distinct DNs, and that the objects of
  a design are those of `PlanTree`: inductions over the tree of a design, which TLC
  evaluates on the run's designs as the assumptions above.
* The five disagreements of section 6, each a counterexample.

## 5. Not modelled, and why

Stateless conversions (signing, credentials, error mapping, frame parsing,
query building), generated code, facades that delegate, and tooling have no
behaviour to interleave.  The finalizer of an abandoned *socket* depends on
the garbage collector's reachability, which the model does not have.
Certificate sessions hold no token.  Strict pushes are a single request.  The
resolution of references, merge, slice, snapshots and attribute diffs are pure
functions of one tree, without a step in them; they are tested as such.

Of the asyncio socket: cancellation of `aclose()` itself or inside a
`ws.close()`.  Of both sessions: the version probe.  Of the plan: the report of attributes that differ.

## 6. Disagreements found

* `socket_overtaken`: `subscribe()` re-checks only `_closed` when it inserts its
  registration (`_subscription_socket.py:859`).  If both threads' `_fail_all`
  ran in between, the stream is registered with no thread to feed, refresh or
  fail it, and its consumer blocks until somebody else subscribes.
* `socket_superseded`: the retry loop of a reconnect (line 1262) does not look
  at the generation.  If the sweep crashes meanwhile, the superseded reader
  assigns `_ws` and exits; the next `subscribe()` finds a socket that looks open
  and has no threads.
* `queue_episode`: an overload episode ends when an *event* arrives at a
  half-empty buffer, not when the buffer drains (lines 311-313 and
  `docs/guide/subscribing.md:72-76` say the latter); a drained small buffer
  refilled by control items drops events with no new marker.
* `token_carried`: the token a thread notes before sending need not be the one
  its request carries (`session.py:758`); a revoked newer token is then replayed
  without a login (`session.py:130-132` promises one).
* `staged_wave`: after a wave with a failure, a staged push sends what the later
  waves have outside the failed subtrees (`_engine.py:194`; its docstrings say so,
  and `OnlySubtreesSkipped` is that promise), while the docstring of
  `Cursor.push()` says "a failing wave stops the remaining ones"
  (`design/_cursor.py:934`).

### Exceptions the properties name

Some properties hold but for cases they name.  TLC reaches each of them, except the
one of `PlanHeld`, which is outside the model, and of `NobodyParked`, which a proof that did not go through brought to light.
These are what a maintainer may want to look at first.

* `NoLeakedConnection`, `strays`: a `subscribe()` cancelled while it queues for
  the lock with a connection just made, or a reader that `aclose()` cancels
  there, closes nothing (the comment at `_subscription_socket_async.py:757-759`
  shows the care taken on the other paths).  A reader whose generation was ended
  meanwhile adopts its reconnection over the newer generation's.
* `NobodyParked`, `strays`: the newer generation's own reader, if that happened to
  it, receives on a connection `_ws` no longer names.  `aclose()` closes `_ws` only
  and cancels the latest pair of tasks only, so once a later `subscribe()` has
  started another pair, nobody wakes this reader.  It takes four connections, one
  more than the run has; the proof of `NoneParked` needs the exception.
* `SurvivorsHeard`, `late`: a wire id granted for one connection and adopted when
  another is open is pushed on the dead one until its next escalation: an
  insertion after the reconnect took its snapshot (nothing in the code finds it
  later but a refused refresh), an escalation answered before
  a drop, a redundant connection that was the newest one when the id was granted.
* `CloseReleases`, `lost`: two first `subscribe()` calls of two threads each make
  a socket (`session.py:693`), and the one overwritten is nobody's to close; two
  `close()` calls of two tasks, with a `subscribe()` between, drop one unclosed
  (`session_async.py:247`).  A second `close()` may return while the first still
  ends the streams.  A `subscribe()` after `close()` opens a fresh WebSocket
  before its REST call fails.
* `OnlyRacesHurt`, `crashed`: between threads, a call that raced `close()` meets
  `None` (`session.py:244`, `695` and the calls on all subscriptions); a
  `close()` that does goes on to no `_client.close()`.
* `CookieIsToken`, `cut`: a task cancelled while it receives the answer to a
  login or a refresh leaves the jar with the new cookie and the session with the
  old token.  The requests that follow carry a live cookie, so it heals with the
  next renewal; but when that cookie is revoked first, the session logs in anew
  although the APIC still accepts the token it names.  (`token_carried`, too, is
  possible between tasks, if the request is refused on a later attempt.)
* `PagesComplete`, `astray`: an object removed from the part already read hides
  another, and while a total is counted up to, an inserted one displaces the last.
  A total claimed too low is believed (`session.py:837`), and the rest is never read.
* `PlanHeld`, `Declared`: a carrier's own relations are posted by a push
  (`_compiler.py:79-85`) and missing in its plan (`_push.py:120-137`).
* `ReplayRenews`: the replay of a request that carried another token than the one
  its thread had noted; `token_carried` is about those.

## 7. Plan

Modelled: the two sockets, the queue, the session's token, its socket and its
pagination, the staged push and the plan.  Proved: every safety property of theirs
that a passing run checks.  Left, in this order:

1. Pure algorithms as operators checked against reference definitions:
   resolution of references, merge, slice and diff.
2. Proofs that `CompileOps` and `Desired` meet `OpListAssumption` and
   `PlanCaseAssumption` for every design.
