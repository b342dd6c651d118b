# A TLA+ development of QtChatting

QtChatting is a Qt client and two servers. The client's dialogs send HTTP
requests to the *gate server* (C++, Boost.Beast), which stores accounts in
MariaDB, checks verification codes in Redis, and asks the *verification server*
(Node) over gRPC to draw and mail such codes. This directory models the client's
dialogs and the servers, checks the models with TLC and proves what matters most
of them with TLAPS.

Paths below are relative to `src/`; `gate/` stands for
`server/gate_server/src/`, `inc/` for `server/gate_server/include/` and `varify/`
for `server/varify_server/`.

## The system

    client dialogs --HTTP--> HttpConnection --> LogicSystem handlers
                             (io threads)         |        |       |
                                          VarifyGrpcClient RedisMgr SqlMgr
                                                  |gRPC     |       |SqlPool
                                           varify server -> Redis  MariaDB
                                                  |
                                                mail

| Component | State it keeps | Operations | Module |
|---|---|---|---|
| Acceptor (`gate/CServer.cpp`) and io contexts (`gate/IOcontextPool.cpp`) | the one connection being accepted; `next_iocontext`; a thread for each context | accept, arm the next accept, round robin, stop | `HttpServer` |
| Process (`gate/main.cpp`, `inc/Singleton.hpp`) | the singletons constructed and destroyed so far | construct on first use, signal, exit | `GateProcess` |
| Connection (`gate/HttpConnection.cpp`) | socket, timer, pending operations | read, handle, write, time out | `HttpServer` |
| Request handlers (`gate/LogicSystem.cpp`, `SqlMgr.cpp`) | none of their own: Redis, `user_info` | get a code, get a reset code, register, reset a password | `GateServer`, `AccountService` |
| gRPC stub pool (`gate/VarifyGrpcClient.cpp`, `inc/RingBuffer.hpp`) | ring of idle stubs, `current_size_`, waiters | getConnection, releaseConnection | `RpcConnectionPool`, `RingIndex`, `FifoPool` |
| MariaDB pool and queries (`gate/SqlPool.cpp`, `SqlDao.cpp`) | `pool_`, sessions, the statements in them | getConnection, the deleter, prepare, execute, close | `SqlPool`, `FifoPool` |
| Verification server (`varify/`) | the Redis client; calls in flight | GetVarifyCode, setRedisExpire, SendMail | `VarifyServer` |
| Redis client (`gate/RedisMgr.cpp`) | a library's pool | init, get, ping | part of `GateServer`, `GateProcess` |
| Configuration, debug output, protocol | read once, or none | | not modelled |
| Client dialogs (`app/src/*Widget.cpp`, `app/detail/source/httpmgr.cpp`) | the buttons and countdown of each window; requests under way | open, close, send, confirm, tick, answer | `ClientDialogs` |

How they interact: a connection's callbacks run on the thread of its context and
call the handler synchronously, so a handler that waits in a pool or for an RPC
holds up every connection of its context. The handlers of different threads meet
in the two pools, in Redis and in `user_info`. The verification server writes
the codes to Redis that the gate server reads; nothing but Redis relates the two.

What is hard here, and therefore what the properties are about:

* two pools with the same purpose and different mechanics, one of which indexes
  its ring through a member that is never initialised;
* statements closed after their connection is back in its pool;
* code, expiry and mail as three separate steps, in calls that overlap and fail;
* checks (`emailExists`, the code) that are old when the step they guard is taken;
* the life of a connection as a race between a write, a timer and errors;
* singletons that the first requests construct, on threads that run on while `main`
  destroys them;
* answers that one `HttpMgr` gives to every window of a kind, in any order, next to
  countdowns that they restart.

`PROJECT.json` lists each such hazard at its line with the properties for it.

## The modules

**`RpcConnectionPool`** — `getConnection` and `releaseConnection` hold `mutex_`
throughout and give it up only inside `cond_.wait`, so each is one action
(`Take`/`Block`, `ReleaseConnection`), and the return of a waiter, notified or
spurious, is a step of its own. The ring is modelled slot by slot, with its
ignored results: `Enqueue` drops a stub when the ring is full, `Dequeue` may give
nothing. `CircularQueueMPMC::Capacity` is hidden by a constructor parameter of
that name and stays uninitialised; every mask it can hold makes the index wrap
at some power of two, so `Init` chooses `ring \in RingSizes`. `RingIndex` holds
the machine-word arithmetic and `MCRpcConnectionPool` checks that it agrees with
the model's `Advance` for every content of the word (`AdvanceIsMasked`). A write
beyond the buffer (`overrun`) ends a behaviour: what follows is undefined. `RingInv` says
that only a ring larger than the buffer comes to that; a smaller one costs stubs.

**`SqlPool`** — `getConnection` is one action, under its mutex. A query goes
through *get, prepare, execute*, then *close*, or *catch* where something
was thrown. The deleter returns the connection when the `try` scope ends, and
`CloseStmt` comes after it. Another thread may have been lent the connection by then: `Collide`
is the two threads inside one `MYSQL`. The process may die of it; if not, the connection is
`tangled`, and from then on any exchange on it may fail, a close may be refused as out of sync
or never reach the server, a statement may be prepared whose answer went to the other thread,
a thread may wait for ever for an answer that was read by another (`MayHang`), and the
server may drop the session (`DropSession`). `regUser` declares its statement twice and so
never closes the one it prepares; those are counted in `leaked`. `DbRestart` kills all sessions.
`current_conn_` never moves, so `max_conn_` limits nothing: `created` is bounded by the number of
threads alone (`TypeOK`, `ImplementsPool`), and no thread ever waits in the pool.

**`FifoPool`** — what the two pools promise their threads, seen from outside: a thread has at most
one resource and no two have the same, the one that was idle longest is lent first, a new one
is made only when none is idle, and one that is given back is kept, unless the pool is `lossy`. It has
no mutex, waiters, ring, sessions or errors. Both pools implement it under a mapping
`Pool`: in `RpcConnectionPool` the idle resources are the slots from `head` to `tail` in that order
(`IdleStubs`), and a pool is lossy whose ring is not the intended one; in `SqlPool` they are
`pool_` as it is, and no connection is ever lost.

**`VarifyServer`** — `GetVarifyCode` cut at its awaits: SET, EXPIRE, mail. Each
of these may fail before or after it took effect, `RedisError` closes the client
for good, `Restart` loses the calls in flight. `mails` holds what was mailed and
is less than thirty minutes old. A key may expire under a call that has not yet set it; a call that did
ends before its thirty minutes are over. `broken` is a history variable, the keys that a
failed call may have left half done.

**`GateServer`** — extends `VarifyServer` and composes it with the four POST
handlers: each call to Redis, MariaDB or the verification server is a step, and
the reply of the RPC is the reply of a call in `VarifyServer`. The two pools are
abstracted away here; their own modules show that calls return. The order of
each handler's checks is the source's: register looks at the code first, reset
at the account first. `user_info` is external, with or without a unique index
(`UniqueEmail`), since the repository does not contain its schema. A body that is
JSON but not an object makes `asString` throw: such a request is dropped without an
answer (`BadJson`).

**`AccountService`** — what the two servers do together, seen from outside: codes are
made, come into force, are posted and expire; a client asks for a step on an account and
shows a code with it (`asked`); if that is the very code in force for this purpose and address
(`ShowsCodeInForce`), the client may be `granted` the step, and an account changes only as a
grant is used, to the password that was asked for. It has no threads, calls, errors or restarts.
`GateServer` implements it under the mapping `Service`: a client is a thread, it has asked with the
request it sent, and it is granted once its handler is past the comparison of the codes (`Passed`).
Answers are left out of it, but for `confirmed`, the addresses whose
registration was confirmed. Its action `Reset` is never taken: with the parameters of the
UPDATE swapped (see below) every reset of the program is a `Decline`.

**`HttpServer`** — a connection object lives exactly as long as an operation holds
a reference to it, so its state is its set of pending operations. `Accept`
includes the construction of the next connection and the next `async_accept`, as
`CServer::start` does. The wait of the timer may end at any moment, since its 30
seconds run from the construction of the object, before there is a client. `Signal` ends
the acceptor with `main`'s own `io_context`; `StopContexts` and `JoinThreads` are
`IOcontextPool::stop`. The contexts are stopped in one step: the program stops them one
after the other, but a context that is stopped already looks like a slow one until the
last is. `Terminate` is the end of the process, by `std::terminate` or by undefined
behaviour.

**`GateProcess`** — extends `HttpServer` with the singletons, which are statics inside
functions: the first thread that needs one constructs it, others that need it meanwhile wait,
and a constructor that throws leaves what was completed (`After` gives that order) to the
next request. `made` is the list that `exit()` works through from its end, on the thread
of `main`, while the io threads run until the destructor of `IOcontextPool` has joined
them. A handler may thus construct a singleton during the exit, which is then destroyed
before those that are left, and may use one that was destroyed (`Misuse`). The latter is
undefined and ends the behaviour; `misused` keeps which it was.

**`ClientDialogs`** — the GUI is one thread, so a slot with all it calls is one
action: `HttpFinish` takes an answer through `sig_http_finish`, `slotHttpFinish`
and the slots of all windows of its module. A window is a record of its two
buttons, its countdown and the kind of its last message; the handlers are
operators from such a record to the next. Closed windows are hidden, not
destroyed, and go on receiving; the last one that is closed ends the application.
Whether the fields of a form are acceptable is a choice at the click. What the
gate server may answer (`Answers`), and whether the request was carried out
(`Outcome`), is taken from the gate server's handlers: a reset that is answered SUCCESS is not
carried out, since `SqlDao::updatePwd` changes no row. `told` keeps what the servers reported and
`happened` what they did. `DoneIsTrue` relates success in a window to the first, and in a register
window to the second as well; that a reset window passes on an untrue report is what
`gate_reset` shows of its source. A request need not be answered.

**`*_proofs`** — the theorems about the module of that name.

Abstractions they share: a verification code is the number of its draw, so two
draws never coincide (in the program they do once in a million); a password stands for all
its salted hashes; texts, logging and JSON are left out, a body that does not
parse being one outcome (`BadJson`).

## The runs

| Run | Bounds | What it shows |
|---|---|---|
| `pool_any_ring` | 4 threads, 4 slots, words of 3 bits | `RpcConnectionPool` implements `FifoPool`, for the intended ring and for each other one; stubs are never shared or null and the ring's invariant holds. With the intended ring no stub is lost, threads wait only when stubs are short, no wakeup is lost, a burst of calls drains. |
| `pool_stub_kept` | 3 threads, rings 1, 2, 4, 8 | *Violated*: with the uninitialised `Capacity` a stub that is given back can be destroyed. |
| `sql_pool` | 2 threads, `max_conn` 1, 3 open statements, faults | `SqlPool` implements `FifoPool`. Exclusive connections, statements accounted for unless a late close ran into another thread, every call returns but on a connection tangled in that way. |
| `sql_pool_errors` | 3 threads, no faults | *Violated*: a query fails although the server did not. |
| `varify` | 2 calls, 1 address, 4 codes, faults | Mailed codes expire, keys without expiry or mail come from failed calls only, each call is answered. |
| `varify_promise` | the same, 3 codes | *Violated*: a failed call voids the code mailed before. |
| `gate` | 2 threads, 1 address, 2 codes, 1 call, faults, no unique index | `GateServer` implements `AccountService`. Codes serve their own purpose; reset codes go to accounts only; what a registration was told stays true; racing registrations add at most one row per thread; each request is answered. |
| `gate_reset` | 1 thread, 2 passwords | *Violated*: SUCCESS with the old password in place. |
| `http_server` (`GateProcess`) | 3 connections, 5 contexts | Always accepting until a signal, responses timed, answered connections end. After a signal `main` gets through all destructors; the configuration outlives every use of it; with no request under way nothing destroyed is used. |
| `http_reads` | 2 connections | *Violated*: a read is never timed. |
| `client` | 2 register windows, 1 reset window, 3 requests, countdown of 3 | Buttons and timers agree, a button comes back, forms are enabled by mailed codes, success is shown only where the servers reported it. |
| `client_reset` | 1 window of each kind, 2 requests | *Violated*: "code sent" with no mail. |

Why these bounds suffice. Pool: four threads and three stubs give a waiter, a
newcomer that overtakes it and a releasing thread at once; 3-bit words produce
rings smaller than, equal to and larger than the buffer. `SqlPool`: two threads
are a late closer and the thread that was lent its connection, or two late closers of one;
`max_conn` below the number of threads shows that it limits nothing, and three statements let
both the server's limit and several statements of one session occur. A third thread only adds
more of either role; its states exceed what TLC finishes, and the theorems hold for any number.
`VarifyServer`: two
calls for one key overlap in all orders, and four codes let a third and fourth
call find what the first two left. `GateServer`: two codes are one to
register and one to reset, two threads race; with one address the codes of two
purposes can still be confused, and the theorems below hold for any number of
addresses. `HttpServer`, `GateProcess`: three objects are one being accepted and two in
use, which is what it takes for one handler to wait while another constructs `LogicSystem`, or
to run on while it is destroyed; five contexts are the program's default, which the literal 4 of the
round robin is made for. `ClientDialogs`: two windows of a kind share an answer,
three requests are two clicks before the first answer and one after a countdown,
and a countdown of 3 has a first, a middle and a last second, of 60.
`MaxCodes`, `MaxConn`, `StmtLimit`, `Conns`, `Width` and `MaxPosts` are the only
bounds in guards. `MaxPosts` also bounds what the user does, and `SendComesBack`
speaks of a user who stops clicking: each further answer may restart a countdown.

Deadlock is checked in `varify` and `gate`. It is not
elsewhere, where a behaviour may rightly stop: after undefined behaviour or
`std::terminate`, or with every stub lost.

### Fairness

* Pool: a thread inside the pool keeps running and its RPC ends. New calls and
  spurious wakeups need not come. A newcomer may overtake a woken waiter for
  ever, so `BurstDrains` speaks of the time when no more calls come.
* `SqlPool`: each thread inside a query takes its next step, one outcome or another, unless its
  connection is tangled: nothing is assumed to wake a thread whose answer another has read.
* `VarifyServer`: each call's next step is taken, by success or failure.
* `GateServer`: handlers and the calls of the verification server proceed. RPC
  failure is not fair: a reply is what ends the wait.
* `HttpServer`, `GateProcess`: a handler takes a step (weak fairness of `Handle`; that
  handlers end is what the runs of their own modules show), and so does `main` once it
  returned. Callbacks that are ready (`Ready`: a cancelled wait, a write on a closed socket)
  are run in the order they came, hence strong fairness (`InTurn`): the context's thread is busy now
  and then. `AnsweredCloses` names this assumption itself, since `StopEnds` does without it. A handler that waits for `LogicSystem` is not assumed to get it. Clients are under
  no obligation to send or to read, and nobody need send a signal. Only `http_reads`, in
  `TimedSpec`, assumes that time passes, so that its counterexample does not
  rest on a clock that stands still.
* `ClientDialogs`: a running timer fires while the application runs. Answers are
  not fair: the requests have no time limit.

## What is proved

All for every value of the constants that the modules' `ASSUME`s admit: finite
sets of threads, at least one slot or connection, any set of positive rings, more than four
contexts. The module of each `ASSUME` is extended by a run, so TLC evaluates it.

* `RpcConnectionPool_proofs`: `Inv` is `TypeOK /\ RingInv /\ StubInv /\
  StubExclusive`. Exclusive stubs alone are not inductive: one must know that the
  slots in use are exactly those from head to tail (`RingInv`), for an enqueue not to overwrite a
  stub and a dequeue not to find an empty slot, and that stubs in use were
  created (`StubInv`), for a new one to be new. From it: `StubsExclusive`,
  `StubsNeverNull`, `TypeCorrect`, `RingsIntact`, `StubsCreated`. With further invariants that
  count stubs and threads, `StubsNotLost`, `WakeupsNotLost`, `WaitsAreShortages` and from these
  `NeverStranded`.
* `SqlPool_proofs`: `PoolInv` adds `WhereInv` to exclusiveness: every opened connection is in
  the pool or with a thread (`ConnsNotLost`). A thread that finds the pool empty thus faces fewer
  connections than threads (pigeonhole), which bounds `created` in `TypeCorrect`. `StmtInv`
  counts the statements of a live session: at least those that calls will close
  and those `regUser` gave up, and no more unless the connection is tangled. It is needed for
  `TypeCorrect` too: no count goes below zero. `AloneUntangled` and `AloneCloses` say what one io
  thread is spared: nothing is tangled, and every statement but `regUser`'s is closed.
* `PoolIsFifo`, in both of these: `Spec` implements `FifoPool`, step by step. For the ring this means
  to follow a sequence through the indices. An enqueue lengthens it by the stub at its end, a dequeue
  shortens it by its head, and where `tail` or `head` wraps the others keep their places. `RingInv` is
  what makes `IdleStubs` change nowhere else. A waiter, a notification, a statement
  closed late or a restart of the database is a stutter.
* `VarifyServer_proofs`: three facts make the expiry of codes inductive. A code is unknown to
  Redis and to the mails until its own call has set it (`FreshInv`); a call that is about to mail
  finds its code expiring, if Redis still has it (`MailInv`); and the code in Redis is
  mailed already or belongs to a call that is still to mail it (`OwnerInv`). From them:
  `MailedCodesExpire`, `AllKeysExpire`, `AcceptedCodesWereMailed`, `VarifyTypeCorrect`.
* `HttpServer_proofs`: `AlwaysAccepting`, `WritesAreTimed`, `TypeCorrect`. The last
  shows that the literal 4 of the round robin keeps it inside `contexts_` for
  every number of contexts above four. `EndsInSight` is the safety part of `AnsweredCloses`: a
  connection always has a callback to come or a handler at work, and one that was answered or whose
  time was up is left only with a callback that needs nothing of its client.
* `GateProcess_proofs`: `ImplementsHttp`, that a step of the process is one of
  `HttpServer` or leaves its variables alone, carries over the theorems above (`HttpHolds`). The
  order of `made` is the invariant for `ConfigHolds`: `ConfigMgr` comes first in it, so it is destroyed
  last, when no thread is left. `QuietHolds` needs that no handler runs once the
  signal found none: nothing is read any more, since no accept is under way. `SingletonsInOrder` says
  that no singleton is constructed twice and none outlives what it was constructed from, even where a late
  request constructs one during the exit. Its invariant `OrderInv` is that in `made` each stands
  above those. `SingletonsBuiltOnce` is the same of each step: no constructor completes twice and
  nothing destroyed comes back. `WorkInv` says that the thread which constructs `LogicSystem` is in its
  handler (it lets go of the guard when it throws), so the others do not wait in vain.
* `GateServer_proofs`: `PurposeRespected` is inductive only with the whole path of a
  code: a code under a key of Redis, and a code that a call is about to store,
  was drawn for that key (`CodeInv`), and each thread's request has the form its
  handler parsed (`ReqInv`). `AccountInv` adds that the address of a reset in
  progress, at any stage from the check to the mail, has an account; it rests on
  rows never being removed. `RowInv` bounds the rows of an address *together with*
  the threads that are past the check and have not inserted yet: once there is a
  row no thread joins these, so the sum cannot grow. From it: `PurposeHolds`,
  `ResetMailsHold`, `RegisteredHolds`, `RowsHold`, `TypeCorrect`. For the type
  of an RPC's reply it carries the types of `VarifyServer` through every step.
* `GateService_proofs`: `Refinement`, that `GateSpec` implies `AccountService`, for both values of
  `UniqueEmail`. The invariant above is what the mapping rests on: a code stored or mailed was drawn for
  its key, and whoever is mailed a code to reset has an account. A thread between two requests asks for nothing
  (`IdleInv`), which makes each request a new client. `ImplementsVarify` shows that the
  gate server keeps to what `VarifyServer` expects of its callers, so that the theorems about
  the one hold under the other: `VarifyHolds` states them for the composed system.
* `ClientDialogs_proofs`: the handlers are shown to take a good window to a good
  window (`FinishState`, `UpdateState`), which gives `ButtonsHaveTimers`,
  `ConfirmsAfterMail` and `DonesAreTrue` for any number of windows and requests; of a reset window
  the last says what the server reported, not what it did.

### How far the violated properties hold

A counterexample says that a property fails, not how much of it. Theorems about the same
specifications say what is left:

* `ReleasedStubKept` holds of every step with the intended ring (`KeptByIntendedRing`): the
  uninitialised `Capacity` is all that breaks it.
* `ErrorsAreServerErrors` fails through two threads. With one it holds as it stands where nothing
  fails (`AloneErrors`): no connection is ever used by two threads at once (`AloneUntangled`), no session dies,
  and a query that was caught found no room on the server, where it leaves none.
* `MailPromise` holds of all keys but those that a failed call has left half done (`PromisesKept`), and of
  all keys where nothing fails (`PromiseWithoutFaults`). Both rest on `StoredInv`: a key does
  not vanish under a call that has set it, nor under a mail that is not yet thirty minutes old.
* `ResetTakesEffect` fails without harm to other accounts: no step of the system, `/reset_passwd` included,
  changes or removes a row, and each row comes from a registration whose code was drawn for its address
  (`PasswordsNeverChange`, an action property).
* `SentIsTrue` holds of register windows (`RegisterSaysSent`).

### What the liveness properties rest on

That something happens in the end is left to TLC. What it takes beside fairness, that nobody
is stuck and that each step brings it nearer, is proved, for every number of threads, calls,
connections and windows:

| Property | Theorem | What it says |
|---|---|---|
| `BurstDrains` | `NeverStranded` | While threads wait in `getConnection`, one that is awake has a stub or takes one, as long as a stub is left or can be made. It follows from `NoLostWakeup` and `NoStubLost`. |
| `CallsReturn` | `QueriesGoForward`, `ConnsNotLost` | A query takes its steps once each, on one connection, and gives it back; where it may hang (`MayHang`) is part of the property. |
| `Answered` | `CallsGoForward` | So does a call of the verification server, with one key and one code; none waits for a client that was closed. |
| `RequestsAnswered` | `RequestsGoForward`, `RepliesAreTheirOwn` | A request is answered once and within three steps of its handler; a handler in an RPC waits for its own call or has its reply. |
| `AnsweredCloses` | `EndsInSight`, `ConnectionsGoForward` | A connection always has a callback or a handler to come, and each lowers its `Stage`, of which there are five. |
| `StopEnds` | `MainNotStuck`, `ExitInSight`, `ConstructionManned` | There is always a destructor to call, or a handler to wait for that does not wait itself. `Left` counts what main has to do, including singletons that may still be constructed; it is at most sixteen and every construction or destruction lowers it. |
| `SendComesBack` | `ButtonsHaveTimers`, `CountdownsRun` | A button that is off has a running timer, each timeout takes a second off, and only an answer to a code asked for adds any. |

`RepliesAreTheirOwn` needs that no call is given to two threads, although a thread may give up
its wait and leave the call behind (`WaitInv`). With it, `SuccessIsMailed` relates the two servers: the
step that ends a call with Success is the one that mailed the code of the very request that waits.

Only model-checked: every liveness property (the prover treats neither fairness
nor ENABLED) and `AdvanceIsMasked` (bitwise operators are outside the prover). Every
other invariant of a run that passes is a theorem, and so are the three refinements.

## What the violated runs say

1. `pool_stub_kept` — the uninitialised `Capacity` (`inc/RingBuffer.hpp:19`, `:24`).
2. `sql_pool_errors` — statements closed late (`gate/SqlDao.cpp:131`).
3. `varify_promise` — the code replaced before its mail is sent (`varify/server.js:16`).
4. `gate_reset` — the parameters of the UPDATE in the wrong order, and zero rows
   taken for success (`gate/SqlDao.cpp:150`).
5. `http_reads` — the timer starts after the request was handled (`gate/HttpConnection.cpp:28`).
6. `client_reset` — errors that are not named are taken for success (`app/src/ResetWidget.cpp:57`).

## Not modelled

* What a handler does after it used a destroyed singleton: it is undefined, so `GateProcess`
  stops there. That a signal with a request under way can lead there is part of the model; no
  document of the repository promises otherwise, so no property says it.
* That `SqlPool::~SqlPool` compares its index with a size that shrinks and closes every other
  connection: the process, and its sessions with it, ends just after.
* `CircularQueueMPMC` without the mutex of its only user: no thread of the program ever
  takes part in its lock-free protocol, and `RpcConnectionPool` relies on it as a sequential ring.
* That a connection whose response is never read ends when its 30 seconds are over, as a
  liveness property: `WritesTimed` says that the timer for it runs, which is the part that
  the code decides.
* `verifyPwd` as a request (nothing calls it; its statement handling is in `SqlPool`),
  and the GET handler, which writes a text.
* `ConfigMgr` beyond its place among the singletons: it reads its file once, before any thread
  is started. Debug output, generated protocol code, window painting, `node_modules`.
* The handlers composed with the two pools, so that a thread holds a stub while it waits for a
  call that the verification server has lost: the states of `gate` would multiply beyond
  what TLC finishes. Each module instead shows what the other assumes of it.
