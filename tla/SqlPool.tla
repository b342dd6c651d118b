------------------------------ MODULE SqlPool ------------------------------
(***************************************************************************)
(* The pool of MariaDB connections (SqlPool.cpp) and the way every query   *)
(* of SqlDao.cpp uses it: take a connection, prepare a statement, execute  *)
(* it, give the connection back, and only then close the statement, which  *)
(* still works on the connection that another thread may have by then.  The*)
(* two threads are then inside one MYSQL, which is not made for it.        *)
(*                                                                         *)
(* The queries differ here in one thing.  regUser declares its statement   *)
(* twice, so the one it closes is always null and the one it prepared      *)
(* stays open in the server session.                                       *)
(***************************************************************************)
EXTENDS Integers, Sequences, FiniteSets, Functions

CONSTANTS
  Threads,    \* the io threads, one query at a time each
  MaxConn,    \* max_conn of SqlPool::init
  Ops,        \* the queries the threads run
  StmtLimit,  \* the server's limit on prepared statements (external)
  Faults      \* whether the database fails and restarts (external)

ASSUME SqlAssumption ==
  /\ IsFiniteSet(Threads)
  /\ MaxConn \in Nat \ {0}
  /\ Ops \subseteq {"regUser", "emailExists", "updatePwd", "verifyPwd"}
  /\ StmtLimit \in Nat
  /\ Faults \in BOOLEAN

VARIABLES
  pool,       \* pool_: the connections nobody has
  created,    \* connections opened so far, numbered 1..created
  dead,       \* those whose server session is gone
  stmts,      \* statements open in the session of each connection
  leaked,     \* history: those among them that no call is going to close
  pc, op,     \* where each thread is, and in which query
  conn,       \* the connection it has, or its statement still points to
  prepared,   \* whether the server knows its statement
  tangled,    \* live connections that two threads have used at the same time
  crashed     \* undefined behaviour has stopped the process

vars == <<pool, created, dead, stmts, leaked, pc, op, conn, prepared, tangled,
          crashed>>

NoConn == 0
MaxConnId == Cardinality(Threads)
At(l) == {t \in Threads : pc[t] = l}
Holders == At("prepare") \cup At("execute")
Owners(c) == {t \in Threads : prepared[t] /\ conn[t] = c}
OpenStmts == SumFunction(stmts)
HasRoom == OpenStmts < StmtLimit

-----------------------------------------------------------------------------
Init ==
  /\ pool = <<>> /\ created = 0 /\ dead = {}
  /\ stmts = [c \in 1 .. MaxConnId |-> 0]
  /\ leaked = [c \in 1 .. MaxConnId |-> 0]
  /\ pc = [t \in Threads |-> "idle"]
  /\ op = [t \in Threads |-> "none"]
  /\ conn = [t \in Threads |-> NoConn]
  /\ prepared = [t \in Threads |-> FALSE]
  /\ tangled = {}
  /\ crashed = FALSE

\* The query is over for its caller.
Return(t) ==
  /\ pc' = [pc EXCEPT ![t] = "idle"]
  /\ op' = [op EXCEPT ![t] = "none"]

Call(t, o) ==
  /\ pc[t] = "idle"
  /\ pc' = [pc EXCEPT ![t] = "get"]
  /\ op' = [op EXCEPT ![t] = o]
  /\ UNCHANGED <<pool, created, dead, stmts, leaked, conn, prepared, tangled, crashed>>

\* current_conn_ is compared with max_conn_ and never changed.
CurrentConn == 0

CanGetIdleOnly == pool # <<>>
CanGet == pool # <<>> \/ CurrentConn < MaxConn

TakeConn(t, c) ==
  /\ conn' = [conn EXCEPT ![t] = c]
  /\ pc' = [pc EXCEPT ![t] = "prepare"]
  /\ UNCHANGED <<dead, stmts, leaked, op, prepared, tangled, crashed>>

GetConnectionKeeps(t) ==
  /\ pc[t] = "get" /\ CanGet /\ UNCHANGED pool
  /\ \/ pool # <<>> /\ TakeConn(t, Head(pool)) /\ UNCHANGED created
     \/ pool = <<>> /\ TakeConn(t, created + 1) /\ created' = created + 1

AlwaysAddConnection(t) ==
  /\ pc[t] = "get"
  /\ created' = created + 1
  /\ TakeConn(t, created + 1) /\ UNCHANGED pool

\* getConnection, under mutex_ from end to end.
GetConnection(t) ==
  /\ pc[t] = "get" /\ CanGet
  /\ \/ /\ pool # <<>>
        /\ TakeConn(t, Head(pool))
        /\ pool' = Tail(pool)
        /\ UNCHANGED created
     \/ /\ pool = <<>>
        /\ created' = created + 1
        /\ TakeConn(t, created + 1)
        /\ UNCHANGED pool

\* addConnection cannot connect.  It reads the connection it has just closed:
\* the process dies there, or goes on to throw.
AddConnectionFails(t) ==
  /\ pc[t] = "get" /\ CanGet /\ pool = <<>> /\ Faults
  /\ Return(t)
  /\ crashed' \in BOOLEAN
  /\ UNCHANGED <<pool, created, dead, stmts, leaked, conn, prepared, tangled>>

-----------------------------------------------------------------------------
PushFront(c) == pool' = <<c>> \o pool

\* The deleter of the shared_ptr, which runs when conn goes out of scope, at
\* the end of the try block or while an exception leaves it.
ReturnConn(c) == pool' = Append(pool, c)

\* The statement is closed after its connection was given back, at the end of
\* the query or in the handler of what it threw.  The one of regUser never is.
AfterReturn(t, l) ==
  IF op[t] = "regUser"
  THEN /\ Return(t)
       /\ conn' = [conn EXCEPT ![t] = NoConn]
       /\ prepared' = [prepared EXCEPT ![t] = FALSE]
  ELSE /\ pc' = [pc EXCEPT ![t] = l]
       /\ UNCHANGED <<op, conn, prepared>>

\* A statement of regUser that the server knows outlives the call.
Abandons(t) == op[t] = "regUser" /\ prepared[t] /\ conn[t] \notin dead

EndQuery(t, l) ==
  /\ ReturnConn(conn[t])
  /\ AfterReturn(t, l)
  /\ leaked' = IF Abandons(t) THEN [leaked EXCEPT ![conn[t]] = @ + 1] ELSE leaked
  /\ UNCHANGED <<created, dead, tangled, crashed>>

\* A query fails when its connection is dead or tangled, and may fail for
\* reasons of the server's own.
MayFail(t) == conn[t] \in dead \cup tangled \/ Faults

\* mysql_stmt_init and mysql_stmt_prepare, binding included.
Prepare(t) ==
  /\ pc[t] = "prepare" /\ conn[t] \notin dead /\ HasRoom
  /\ stmts' = [stmts EXCEPT ![conn[t]] = @ + 1]
  /\ prepared' = [prepared EXCEPT ![t] = TRUE]
  /\ pc' = [pc EXCEPT ![t] = "execute"]
  /\ UNCHANGED <<pool, created, dead, leaked, op, conn, tangled, crashed>>

\* The server refuses the statement or cannot be reached; or it has prepared it,
\* and the answer goes to another thread, so that nothing will ever close it.
PrepareThrows(t) ==
  /\ pc[t] = "prepare" /\ (MayFail(t) \/ ~HasRoom)
  /\ EndQuery(t, "catch")
  /\ \/ UNCHANGED stmts
     \/ /\ conn[t] \in tangled /\ HasRoom
        /\ stmts' = [stmts EXCEPT ![conn[t]] = @ + 1]

\* mysql_stmt_execute and, for a SELECT, the fetch of its result.
Execute(t) ==
  /\ pc[t] = "execute" /\ conn[t] \notin dead
  /\ EndQuery(t, "close")
  /\ UNCHANGED stmts

ExecuteThrows(t) ==
  /\ pc[t] = "execute" /\ MayFail(t)
  /\ EndQuery(t, "catch")
  /\ UNCHANGED stmts

CloseStmtForgets(t) ==
  /\ pc[t] \in {"close", "catch"}
  /\ Return(t)
  /\ conn' = [conn EXCEPT ![t] = NoConn]
  /\ prepared' = [prepared EXCEPT ![t] = FALSE]
  /\ UNCHANGED <<pool, created, dead, stmts, leaked, tangled, crashed>>

\* mysql_stmt_close.  On a tangled connection it may be refused, as out of sync,
\* or not reach the server: the statement stays open, and no one looks.
CloseStmt(t) ==
  LET c == conn[t]
  IN  /\ pc[t] \in {"close", "catch"}
      /\ \/ /\ prepared[t] /\ c \notin dead
            /\ stmts' = [stmts EXCEPT ![c] = @ - 1]
         \/ /\ ~prepared[t] \/ c \in dead \cup tangled
            /\ UNCHANGED stmts
      /\ Return(t)
      /\ conn' = [conn EXCEPT ![t] = NoConn]
      /\ prepared' = [prepared EXCEPT ![t] = FALSE]
      /\ UNCHANGED <<pool, created, dead, leaked, tangled, crashed>>

\* mysql_stmt_close runs while another thread, which was lent the connection in
\* the meantime or closes a statement late itself, is inside the same MYSQL.
\* The process may die of it.  If not, requests and answers are mixed up from
\* then on: any exchange on this connection may fail, or wait for an answer that
\* another thread has read.
Collide(t, u) ==
  /\ t # u /\ conn[t] = conn[u] /\ pc[t] \in {"close", "catch"}
  /\ tangled' = tangled \cup ({conn[t]} \ dead)
  /\ crashed' \in BOOLEAN
  /\ UNCHANGED <<pool, created, dead, stmts, leaked, pc, op, conn, prepared>>

\* Sessions end, and their statements with them.  Nothing in the pool notices:
\* dead connections go round in it like the others.
EndSessions(cs) ==
  /\ dead' = dead \cup cs
  /\ tangled' = tangled \ cs
  /\ stmts' = [c \in 1 .. MaxConnId |-> IF c \in cs THEN 0 ELSE stmts[c]]
  /\ leaked' = [c \in 1 .. MaxConnId |-> IF c \in cs THEN 0 ELSE leaked[c]]
  /\ UNCHANGED <<pool, created, pc, op, conn, prepared, crashed>>

\* The server drops a client whose packets make no sense to it.
DropSession(c) == EndSessions({c})

DbRestart == Faults /\ EndSessions(1 .. created)

Step(t) ==
  \/ GetConnection(t) \/ AddConnectionFails(t)
  \/ Prepare(t) \/ PrepareThrows(t)
  \/ Execute(t) \/ ExecuteThrows(t)
  \/ CloseStmt(t)

Next ==
  /\ ~crashed
  /\ \/ \E t \in Threads : Step(t) \/ \E o \in Ops : Call(t, o)
     \/ \E t, u \in Threads : Collide(t, u)
     \/ \E c \in tangled : DropSession(c)
     \/ DbRestart

\* The answer a thread waits for on its connection may have gone to another.
MayHang(t) == conn[t] \in tangled

\* A thread inside a query keeps running; the server answers or the socket fails,
\* but on a tangled connection one may wait for ever.
Fairness == \A t \in Threads : WF_vars(~crashed /\ ~MayHang(t) /\ Step(t))

Spec == Init /\ [][Next]_vars
FairSpec == Spec /\ Fairness

-----------------------------------------------------------------------------
TypeOK ==
  /\ pool \in Seq(1 .. MaxConnId)
  /\ created \in 0 .. MaxConnId
  /\ dead \subseteq 1 .. MaxConnId
  /\ stmts \in [1 .. MaxConnId -> Nat]
  /\ leaked \in [1 .. MaxConnId -> Nat]
  /\ pc \in [Threads -> {"idle", "get", "prepare", "execute", "close", "catch"}]
  /\ op \in [Threads -> Ops \cup {"none"}]
  /\ conn \in [Threads -> 0 .. MaxConnId]
  /\ prepared \in [Threads -> BOOLEAN]
  /\ tangled \subseteq 1 .. MaxConnId
  /\ crashed \in BOOLEAN

\* A connection is in pool_ once or with one thread between getConnection and
\* the deleter, never both: two threads never run queries on the same MYSQL.
ConnExclusive ==
  /\ \A i, j \in DOMAIN pool : pool[i] = pool[j] => i = j
  /\ \A t, u \in Holders : conn[t] = conn[u] => t = u
  /\ \A i \in DOMAIN pool, t \in Holders : pool[i] # conn[t]

\* Each statement open in a live session belongs to a call that is still going
\* to close it, whichever way its query ends, but for those that regUser has left
\* behind.  Only where a late close met another thread on its connection may
\* more be open; never fewer, so that no call's statement is closed for it.
StmtsClosed ==
  \A c \in (1 .. created) \ dead :
    LET accounted == Cardinality(Owners(c)) + leaked[c]
    IN  stmts[c] = accounted \/ (c \in tangled /\ stmts[c] > accounted)

\* No call hangs in the pool, where getConnection's predicate can always be met,
\* nor anywhere after it: a thread is between two queries again and again, except
\* one whose connection a late close has run into.
CallsReturn == \A t \in Threads : []<>(pc[t] = "idle" \/ crashed \/ MayHang(t))

Pool == INSTANCE FifoPool WITH
  Clients <- Threads,
  Limit <- MaxConnId,
  idle <- pool,
  held <- [t \in Threads |-> IF t \in Holders THEN conn[t] ELSE NoConn],
  made <- created,
  lossy <- FALSE

\* Whatever fails and however late a statement is closed, a connection is lent
\* to one thread at a time, the longest idle first, comes back to the pool on
\* every way out of a query, and is only opened when the pool has none.
ImplementsPool == Pool!Spec

\* A failed query is an error of the MySQL server, as the register handler says
\* of it (LogicSystem.cpp:116): it does not come from the calls themselves.
ErrorsAreServerErrors ==
  ~Faults /\ HasRoom => At("catch") = {}
=============================================================================
