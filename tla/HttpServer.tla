----------------------------- MODULE HttpServer -----------------------------
(***************************************************************************)
(* The HTTP side of the gate server: the acceptor (CServer.cpp), the io    *)
(* contexts with one thread each (IOcontextPool.cpp), and the life of a    *)
(* connection (HttpConnection.cpp), until a signal stops it (main.cpp).    *)
(* The handler itself is one step here and a module of its own             *)
(* (GateServer); what it uses is destroyed in GateProcess.                 *)
(*                                                                         *)
(* A connection is a shared object that lives as long as an asynchronous   *)
(* operation holds it, so it is what its pending operations are: when the  *)
(* last one ends the object and its socket go.  Callbacks of connections   *)
(* on one context run one at a time, on the thread of that context.        *)
(***************************************************************************)
EXTENDS Integers, FiniteSets

CONSTANTS
  Conns,        \* bound: connection objects alive together
  NumContexts   \* the size of IOcontextPool

ASSUME HttpAssumption ==
  /\ IsFiniteSet(Conns)
  /\ NumContexts \in Nat /\ NumContexts > 4

VARIABLES
  con,     \* the connection objects
  next,    \* next_iocontext
  logic,   \* whether the singleton LogicSystem has been constructed
  phase    \* how far the process is from its end

vars == <<con, next, logic, phase>>

Up == phase # "terminated"

Operations == {"accept", "read", "write", "timer"}
Contexts == 0 .. NumContexts - 1

Gone == [alive |-> FALSE, ctx |-> 0, running |-> FALSE, pending |-> {},
         cancelled |-> FALSE, closed |-> FALSE,
         sent |-> FALSE]

\* A new HttpConnection being accepted.  Its timer is set to 30 seconds from now.
Fresh(x) == [Gone EXCEPT !.alive = TRUE, !.ctx = x, !.pending = {"accept"}]

\* The callback of operation o has run: without another one the object goes.
Ended(r, o) ==
  IF r.pending \subseteq {o} THEN Gone ELSE [r EXCEPT !.pending = @ \ {o}]

Free == {c \in Conns : ~con[c].alive}
Pending(c, o) == o \in con[c].pending
ThreadFree(x) == \A c \in Conns : ~(con[c].running /\ con[c].ctx = x)

Init ==
  /\ \E c \in Conns : con = [d \in Conns |-> IF d = c THEN Fresh(0) ELSE Gone]
  /\ next = 1
  /\ logic = "unbuilt"
  /\ phase = "serving"

-----------------------------------------------------------------------------
AdvancePastEnd(x) == IF x <= 4 THEN x + 1 ELSE 0

\* next_iocontext < 4 ? next_iocontext + 1 : 0
Advance(x) == IF x < 4 THEN x + 1 ELSE 0

\* CServer::start: c has been dealt with and becomes r, and the next connection
\* is constructed before there is anybody to accept.
StartNext(c, r) ==
  \E d \in Free :
    /\ con' = [con EXCEPT ![c] = r, ![d] = Fresh(next)]
    /\ next' = Advance(next)
    /\ UNCHANGED <<logic, phase>>

\* async_accept ends well: HttpConnection::start, then CServer::start again.
Accept(c) ==
  /\ Pending(c, "accept")
  /\ StartNext(c, [con[c] EXCEPT !.pending = {"read"}])

AcceptFailsForGood(c) ==
  /\ Pending(c, "accept")
  /\ con' = [con EXCEPT ![c] = Gone]
  /\ UNCHANGED <<next, logic, phase>>

AcceptFails(c) ==
  /\ Pending(c, "accept")
  /\ StartNext(c, Gone)

-----------------------------------------------------------------------------
\* A step of connection c alone, which becomes r.
Becomes(c, r) ==
  /\ con' = [con EXCEPT ![c] = r]
  /\ UNCHANGED <<next, phase>>

\* The callback of an operation of c runs on the thread of its context, until
\* the context is stopped.
Callback(c, o) ==
  /\ phase \in {"serving", "leaving"}
  /\ Pending(c, o) /\ ThreadFree(con[c].ctx)

\* A whole request has been read: handleReq begins.
ReadCompletes(c) ==
  /\ Callback(c, "read")
  /\ Becomes(c, [con[c] EXCEPT !.pending = {}, !.running = TRUE])
  /\ UNCHANGED logic

\* The client went away or sent what is not HTTP: the socket is closed.
ReadFails(c) ==
  /\ Callback(c, "read")
  /\ Becomes(c, Ended(con[c], "read"))
  /\ UNCHANGED logic

\* The first GET or POST constructs LogicSystem, which needs Redis.
BuildLogic(c) ==
  /\ con[c].running /\ logic = "unbuilt"
  /\ logic' = "built"
  /\ UNCHANGED <<con, next, phase>>

\* Five pings without an answer: std::terminate.  Or main has returned, and the
\* handler uses what was destroyed: what it does then is undefined.
Terminate(c) ==
  /\ con[c].running /\ (logic = "unbuilt" \/ phase # "serving")
  /\ phase' = "terminated"
  /\ con' = [d \in Conns |-> Gone]
  /\ UNCHANGED <<next, logic>>

HandlerReturnsUntimed(c) ==
  /\ con[c].running /\ logic = "built"
  /\ Becomes(c, [con[c] EXCEPT !.running = FALSE, !.pending = {"write"}])
  /\ UNCHANGED logic

\* The handler ran, or the url is unknown: writeResponse, then checkDeadline.
HandlerReturns(c) ==
  /\ con[c].running /\ logic = "built"
  /\ Becomes(c, [con[c] EXCEPT !.running = FALSE, !.pending = {"write", "timer"}])
  /\ UNCHANGED logic

\* Neither GET nor POST: handleReq writes nothing, checkDeadline still runs.
OtherMethod(c) ==
  /\ con[c].running
  /\ Becomes(c, [con[c] EXCEPT !.running = FALSE, !.pending = {"timer"}])
  /\ UNCHANGED logic

\* An exception leaves the handler, or the construction of LogicSystem: it is
\* caught around handleReq and checkDeadline, and nothing holds the object.
HandlerThrows(c) ==
  /\ con[c].running
  /\ Becomes(c, Gone)
  /\ UNCHANGED logic

WriteCompletesUncancelled(c) ==
  /\ Callback(c, "write") /\ ~con[c].closed
  /\ Becomes(c, Ended([con[c] EXCEPT !.sent = TRUE], "write"))
  /\ UNCHANGED logic

\* The response is out and shutdown(send) works: the timer is cancelled.
WriteCompletes(c) ==
  /\ Callback(c, "write") /\ ~con[c].closed
  /\ Becomes(c, Ended([con[c] EXCEPT !.sent = TRUE, !.cancelled = TRUE], "write"))
  /\ UNCHANGED logic

\* async_write fails, or shutdown does after it: the timer is left to close the
\* socket.  A write on a socket closed before ends here too.
WriteFails(c) ==
  /\ Callback(c, "write")
  /\ Becomes(c, Ended(con[c], "write"))
  /\ UNCHANGED logic

\* The wait on the timer ends, cancelled or thirty seconds after the object was
\* constructed, which may be any moment of the wait: either way the socket is
\* closed.
DeadlineFires(c) ==
  /\ Callback(c, "timer")
  /\ Becomes(c, Ended([con[c] EXCEPT !.closed = TRUE], "timer"))
  /\ UNCHANGED logic

-----------------------------------------------------------------------------
SignalKeepsAccept ==
  /\ phase = "serving"
  /\ phase' = "leaving"
  /\ UNCHANGED <<con, next, logic>>

\* SIGINT or SIGTERM: main stops its own io_context and destroys it, with the
\* acceptor and the connection that was to be accepted, and returns.
Signal ==
  /\ phase = "serving"
  /\ phase' = "leaving"
  /\ con' = [c \in Conns |-> IF Pending(c, "accept") THEN Gone ELSE con[c]]
  /\ next' = 0   \* of no more use
  /\ UNCHANGED logic

\* ~IOcontextPool: the contexts are stopped.  They are one after the other, but
\* before the last is, any of them may as well just be slow.
StopContexts ==
  /\ phase = "leaving"
  /\ phase' = "stopping"
  /\ UNCHANGED <<con, next, logic>>

JoinThreadsWhenIdle ==
  /\ phase = "stopping" /\ \A c \in Conns : ~con[c].alive
  /\ phase' = "stopped"
  /\ UNCHANGED <<con, next, logic>>

\* The threads are joined, each after the handler it was in, and contexts_ is
\* destroyed with every operation pending there.
JoinThreads ==
  /\ phase = "stopping" /\ \A c \in Conns : ~con[c].running
  /\ phase' = "stopped"
  /\ con' = [c \in Conns |-> Gone]
  /\ UNCHANGED <<next, logic>>

Handle(c) == BuildLogic(c) \/ Terminate(c) \/ HandlerReturns(c) \/ OtherMethod(c) \/ HandlerThrows(c)

\* A step of connection c other than those of its handler.
Operate(c) ==
  \/ Accept(c) \/ AcceptFails(c)
  \/ ReadCompletes(c) \/ ReadFails(c)
  \/ WriteCompletes(c) \/ WriteFails(c)
  \/ DeadlineFires(c)

Next ==
  /\ Up
  /\ \/ \E c \in Conns : Operate(c) \/ Handle(c)
     \/ Signal \/ StopContexts \/ JoinThreads

\* The callbacks that need nobody outside: that of a cancelled wait, and that of
\* a write on a closed socket.
Ready(c) ==
  \/ con[c].cancelled /\ DeadlineFires(c)
  \/ con[c].closed /\ WriteFails(c)

\* A context runs what is ready in the order it came, so that each callback has
\* its turn although the thread is busy now and then.
InTurn(c) == SF_vars(Up /\ Ready(c))

\* A handler ends (its own module says when), and main goes on once it was sent
\* a signal.  Clients may never send a request, nor read an answer.
Fairness ==
  /\ \A c \in Conns : WF_vars(Up /\ Handle(c)) /\ InTurn(c)
  /\ WF_vars(Up /\ (StopContexts \/ JoinThreads))

\* The clock of the timers runs.
TimePasses == \A c \in Conns : SF_vars(Up /\ DeadlineFires(c))

Spec == Init /\ [][Next]_vars
FairSpec == Spec /\ Fairness
TimedSpec == FairSpec /\ TimePasses

-----------------------------------------------------------------------------
TypeOK ==
  /\ con \in [Conns -> [alive : BOOLEAN, ctx : Contexts, running : BOOLEAN,
                        pending : SUBSET Operations, cancelled : BOOLEAN,
                        closed : BOOLEAN, sent : BOOLEAN]]
  /\ next \in Contexts
  /\ logic \in {"unbuilt", "built"}
  /\ phase \in {"serving", "leaving", "stopping", "stopped", "terminated"}

\* The gate server goes on accepting: until it is told to stop there is always
\* one async_accept under way, whatever became of the connection before
\* (CServer::start).
AcceptorArmed ==
  phase = "serving" =>
    \E c \in Conns : \A d \in Conns : Pending(d, "accept") <=> d = c

\* The timer runs as long as a response is being written, or has closed the
\* socket: a client that does not read its answer cannot keep the connection.
WritesTimed ==
  \A c \in Conns : Pending(c, "write") => Pending(c, "timer") \/ con[c].closed

\* A connection that was answered ends at once, without waiting for its 30
\* seconds: cancel() ends the wait of the timer, and that closes the socket as
\* soon as it is its turn on its context.
AnsweredCloses ==
  \A c \in Conns : InTurn(c) => (con[c].sent ~> ~con[c].alive \/ ~Up)

\* The timer judges whether the request has timed out (HttpConnection.h:26): a
\* connection whose request does not come ends as well.
ReadsTimeOut ==
  \A c \in Conns : Pending(c, "read") ~> ~Pending(c, "read") \/ ~Up
=============================================================================
