--------------------------- MODULE SqlPool_proofs ---------------------------
(***************************************************************************)
(* What holds of the connection pool and of the statements prepared on its *)
(* connections, for every number of threads and with every fault of the    *)
(* database.                                                               *)
(***************************************************************************)
EXTENDS SqlPool, FiniteSetTheorems, TLAPS

\* Where the connections are: each opened one is in the pool or with a thread,
\* and no number beyond the opened ones is in use.
WhereInv ==
  /\ \A i \in DOMAIN pool : pool[i] \in 1 .. created
  /\ \A t \in Threads : conn[t] \in 0 .. created
  /\ \A t \in Holders : conn[t] # NoConn
  /\ \A c \in 1 .. created :
       (\E i \in DOMAIN pool : pool[i] = c) \/ (\E t \in Holders : conn[t] = c)

PoolInv == TypeOK /\ ConnExclusive /\ WhereInv

\* What is known of the statements open in the session of a connection: they
\* are those that some thread will close and those that regUser left behind, and
\* more only if the connection is tangled.
Accounted(c) == Cardinality(Owners(c)) + leaked[c]
StmtCount(c) ==
  /\ stmts[c] >= Accounted(c)
  /\ c \notin tangled => stmts[c] = Accounted(c)

\* Where the statements are, and what a thread that closes one late points to.
StmtInv ==
  /\ dead \subseteq 1 .. created
  /\ tangled \subseteq (1 .. created) \ dead
  /\ \A t \in Threads : pc[t] \in {"close", "catch"} => conn[t] # NoConn
  /\ \A t \in Threads : prepared[t] => pc[t] \in {"execute", "close", "catch"}
  /\ \A t \in Threads : pc[t] # "idle" => op[t] \in Ops
  /\ \A c \in 1 .. MaxConnId : c > created => stmts[c] = 0 /\ leaked[c] = 0
  /\ \A c \in (1 .. MaxConnId) \ dead : StmtCount(c)

Inv == PoolInv /\ StmtInv

-----------------------------------------------------------------------------
LEMMA ThreadCount == MaxConnId \in Nat
  BY SqlAssumption, FS_CardinalityType DEF MaxConnId

\* A thread that finds the pool empty is not the holder of any connection, so
\* fewer connections than threads are open.
LEMMA RoomToOpen ==
  ASSUME PoolInv, NEW t \in Threads, t \notin Holders, pool = <<>>
  PROVE  created + 1 \in 1 .. MaxConnId
  <1> DEFINE holder == [c \in 1 .. created |-> CHOOSE u \in Holders : conn[u] = c]
             Others == Threads \ {t}
  <1>1. created \in Nat /\ created \in Int /\ 1 \in Int
    BY ThreadCount DEF PoolInv, TypeOK
  <1>2. \A c \in 1 .. created : \E u \in Holders : conn[u] = c
    BY DEF PoolInv, WhereInv
  <1>3. \A c \in 1 .. created : holder[c] \in Holders /\ conn[holder[c]] = c
    BY <1>2
  <1>4. Holders \subseteq Others
    BY DEF Holders, At
  <1>5. holder \in [1 .. created -> Others]
    BY <1>3, <1>4
  <1>6. IsFiniteSet(Others) /\ Cardinality(Others) = MaxConnId - 1
    BY SqlAssumption, FS_RemoveElement DEF MaxConnId
  <1>7. IsFiniteSet(1 .. created) /\ Cardinality(1 .. created) = created
    BY <1>1, FS_Interval
  <1>8. ~(Cardinality(Others) < Cardinality(1 .. created))
    <2>1. ~ \E c, d \in 1 .. created : c # d /\ holder[c] = holder[d]
      BY <1>3
    <2> HIDE DEF holder, Others
    <2> QED
      BY <1>5, <1>6, <1>7, <2>1, FS_PigeonHole
  <1> QED
    BY <1>1, <1>6, <1>7, <1>8, ThreadCount

LEMMA InitPool == Init => PoolInv
  <1> SUFFICES ASSUME Init PROVE PoolInv
    OBVIOUS
  <1>1. MaxConnId \in Nat
    BY ThreadCount
  <1>2. TypeOK
    <2>1. pool \in Seq(1 .. MaxConnId) /\ created \in 0 .. MaxConnId
      BY <1>1 DEF Init
    <2>2. stmts \in [1 .. MaxConnId -> Nat]
      BY DEF Init
    <2>3. conn \in [Threads -> 0 .. MaxConnId]
      <3>1. NoConn \in 0 .. MaxConnId
        BY <1>1 DEF NoConn
      <3> QED
        BY <3>1, Zenon DEF Init
    <2> QED
      BY <2>1, <2>2, <2>3 DEF Init, TypeOK
  <1>3. ConnExclusive /\ WhereInv
    BY DEF Init, ConnExclusive, WhereInv, Holders, At, NoConn
  <1> QED
    BY <1>2, <1>3 DEF PoolInv

\* A step that leaves the pool, the holders and their connections alone.
LEMMA QuietStep ==
  ASSUME PoolInv, TypeOK', UNCHANGED <<pool, created>>, Holders' = Holders,
         \A u \in Threads : conn'[u] = conn[u] \/ (u \notin Holders /\ conn'[u] = NoConn)
  PROVE  PoolInv'
  <1>1. \A u \in Holders : conn'[u] = conn[u]
    BY DEF Holders, At
  <1>2. ConnExclusive'
    BY <1>1 DEF PoolInv, ConnExclusive
  <1>3. created \in Nat
    BY ThreadCount DEF PoolInv, TypeOK
  <1>4. WhereInv'
    BY <1>1, <1>3 DEF PoolInv, WhereInv, NoConn
  <1> QED
    BY <1>2, <1>4 DEF PoolInv

LEMMA GetConnectionInv ==
  ASSUME PoolInv, NEW t \in Threads, GetConnection(t)
  PROVE  PoolInv'
  <1>1. pc[t] = "get" /\ t \notin Holders
    BY DEF GetConnection, Holders, At
  <1>2. created \in Nat
    BY ThreadCount DEF PoolInv, TypeOK
  <1>3. ASSUME NEW c, TakeConn(t, c)
        PROVE  /\ Holders' = Holders \cup {t}
               /\ conn' = [conn EXCEPT ![t] = c]
               /\ pc' \in [Threads -> {"idle", "get", "prepare", "execute", "close", "catch"}]
               /\ UNCHANGED <<dead, stmts, leaked, op, prepared, tangled, crashed>>
    BY <1>3 DEF TakeConn, Holders, At, PoolInv, TypeOK
  <1>4. CASE pool # <<>>
    <2>1. TakeConn(t, Head(pool)) /\ pool' = Tail(pool) /\ created' = created
      BY <1>4 DEF GetConnection
    <2>2. Head(pool) = pool[1] /\ 1 \in DOMAIN pool /\ pool[1] \in 1 .. created
      BY <1>4 DEF PoolInv, TypeOK, WhereInv
    <2>3. /\ Len(pool') = Len(pool) - 1
          /\ \A i \in DOMAIN pool' : pool'[i] = pool[i + 1] /\ i + 1 \in DOMAIN pool
          /\ \A i \in DOMAIN pool : i # 1 => i - 1 \in DOMAIN pool' /\ pool'[i - 1] = pool[i]
      BY <1>4, <2>1 DEF PoolInv, TypeOK
    <2>4. conn' = [conn EXCEPT ![t] = pool[1]] /\ Holders' = Holders \cup {t}
      BY <1>3, <2>1, <2>2
    <2>5. TypeOK'
      <3>1. pool' \in Seq(1 .. MaxConnId)
        BY <1>4, <2>1 DEF PoolInv, TypeOK
      <3>2. pool[1] \in 0 .. MaxConnId
        BY <2>2, ThreadCount DEF PoolInv, TypeOK
      <3>3. conn' \in [Threads -> 0 .. MaxConnId]
        BY <2>4, <3>2, Zenon DEF PoolInv, TypeOK
      <3> QED
        BY <1>3, <2>1, <3>1, <3>3 DEF PoolInv, TypeOK
    <2>6. \A u \in Threads : conn'[u] = IF u = t THEN pool[1] ELSE conn[u]
      BY <2>4 DEF PoolInv, TypeOK
    <2>7. Holders \subseteq Threads
      BY DEF Holders, At
    <2>8. ConnExclusive'
      <3>1. \A i, j \in DOMAIN pool' : pool'[i] = pool'[j] => i = j
        <4> SUFFICES ASSUME NEW i \in DOMAIN pool', NEW j \in DOMAIN pool', pool'[i] = pool'[j]
                     PROVE  i = j
          OBVIOUS
        <4>1. i + 1 = j + 1
          BY <2>3 DEF PoolInv, ConnExclusive
        <4>2. i \in Int /\ j \in Int
          BY <1>4, <2>1 DEF PoolInv, TypeOK
        <4> QED
          BY <4>1, <4>2
      <3>2. \A u, v \in Holders' : conn'[u] = conn'[v] => u = v
        BY <2>2, <2>4, <2>6, <2>7 DEF PoolInv, ConnExclusive
      <3>3. \A i \in DOMAIN pool', u \in Holders' : pool'[i] # conn'[u]
        <4> SUFFICES ASSUME NEW i \in DOMAIN pool', NEW u \in Holders'
                     PROVE  pool'[i] # conn'[u]
          OBVIOUS
        <4>1. pool'[i] = pool[i + 1] /\ i + 1 \in DOMAIN pool
          BY <2>3
        <4>2. i + 1 # 1
          BY <1>4, <2>1 DEF PoolInv, TypeOK
        <4> QED
          BY <2>2, <2>4, <2>6, <2>7, <4>1, <4>2 DEF PoolInv, ConnExclusive
      <3> QED
        BY <3>1, <3>2, <3>3 DEF ConnExclusive
    <2>9. WhereInv'
      <3>1. \A i \in DOMAIN pool' : pool'[i] \in 1 .. created
        BY <2>3 DEF PoolInv, WhereInv
      <3>2. \A u \in Threads : conn'[u] \in 0 .. created
        BY <1>2, <2>2, <2>6 DEF PoolInv, WhereInv
      <3>3. \A u \in Holders' : conn'[u] # NoConn
        BY <1>2, <2>2, <2>4, <2>6, <2>7 DEF PoolInv, WhereInv, NoConn
      <3>4. ASSUME NEW c \in 1 .. created
            PROVE  \/ \E i \in DOMAIN pool' : pool'[i] = c
                   \/ \E u \in Holders' : conn'[u] = c
        <4>1. CASE c = pool[1]
          BY <2>4, <2>6, <4>1
        <4>2. CASE c # pool[1] /\ \E i \in DOMAIN pool : pool[i] = c
          BY <2>3, <4>2
        <4>3. CASE \E u \in Holders : conn[u] = c
          BY <1>1, <2>4, <2>6, <2>7, <4>3
        <4> QED
          BY <4>1, <4>2, <4>3 DEF PoolInv, WhereInv
      <3> QED
        BY <2>1, <3>1, <3>2, <3>3, <3>4 DEF WhereInv
    <2> QED
      BY <2>5, <2>8, <2>9 DEF PoolInv
  <1>5. CASE pool = <<>>
    <2>1. TakeConn(t, created + 1) /\ pool' = pool /\ created' = created + 1
      BY <1>5 DEF GetConnection
    <2>2. created + 1 \in 1 .. MaxConnId
      BY <1>1, <1>5, RoomToOpen
    <2>3. conn' = [conn EXCEPT ![t] = created + 1] /\ Holders' = Holders \cup {t}
      BY <1>3, <2>1
    <2>4. TypeOK'
      <3>1. created + 1 \in 0 .. MaxConnId
        BY <2>2
      <3>2. conn' \in [Threads -> 0 .. MaxConnId]
        BY <2>3, <3>1, Zenon DEF PoolInv, TypeOK
      <3>3. /\ pc' \in [Threads -> {"idle", "get", "prepare", "execute", "close", "catch"}]
            /\ UNCHANGED <<dead, stmts, leaked, op, prepared, tangled, crashed>>
        BY <1>3, <2>1
      <3> QED
        BY <2>1, <3>1, <3>2, <3>3 DEF PoolInv, TypeOK
    <2>5. \A u \in Threads : conn'[u] = IF u = t THEN created + 1 ELSE conn[u]
      BY <2>3 DEF PoolInv, TypeOK
    <2>6. Holders \subseteq Threads /\ DOMAIN pool = {} /\ DOMAIN pool' = {}
      BY <1>5, <2>1 DEF Holders, At
    <2>7. \A u \in Holders : conn[u] # created + 1
      BY <1>2, <2>6 DEF PoolInv, WhereInv
    <2>8. ConnExclusive'
      BY <2>3, <2>5, <2>6, <2>7 DEF PoolInv, ConnExclusive
    <2>9. WhereInv'
      <3>1. \A u \in Threads : conn'[u] \in 0 .. created + 1
        BY <1>2, <2>5 DEF PoolInv, WhereInv
      <3>2. \A u \in Holders' : conn'[u] # NoConn
        BY <1>2, <2>3, <2>5, <2>6 DEF PoolInv, WhereInv, NoConn
      <3>3. \A c \in 1 .. created : \E u \in Holders' : conn'[u] = c
        BY <1>1, <2>3, <2>5, <2>6 DEF PoolInv, WhereInv
      <3>4. t \in Holders' /\ conn'[t] = created + 1
        BY <2>3, <2>5
      <3>5. \A c \in 1 .. created + 1 : c \in 1 .. created \/ c = created + 1
        BY <1>2
      <3> QED
        BY <2>1, <2>6, <3>1, <3>2, <3>3, <3>4, <3>5 DEF WhereInv
    <2> QED
      BY <2>4, <2>8, <2>9 DEF PoolInv
  <1> QED
    BY <1>4, <1>5

\* The end of a query moves its connection from the thread to the pool.
LEMMA EndQueryInv ==
  ASSUME PoolInv, NEW t \in Holders, NEW l \in {"close", "catch"}, EndQuery(t, l),
         stmts' \in [1 .. MaxConnId -> Nat]
  PROVE  PoolInv'
  <1> DEFINE c == conn[t]
  <1>1. /\ pool' = Append(pool, c)
        /\ UNCHANGED <<created, dead, tangled, crashed>> /\ AfterReturn(t, l)
        /\ leaked' = leaked \/ leaked' = [leaked EXCEPT ![c] = leaked[c] + 1]
    BY DEF EndQuery, ReturnConn
  <1>2. t \in Threads /\ Holders \subseteq Threads /\ created \in Nat
    BY ThreadCount DEF Holders, At, PoolInv, TypeOK
  <1>3. c \in 1 .. created /\ c \in 1 .. MaxConnId
    BY <1>2, ThreadCount DEF PoolInv, TypeOK, WhereInv, NoConn
  <1>4. /\ Holders' = Holders \ {t}
        /\ pc' \in [Threads -> {"idle", "get", "prepare", "execute", "close", "catch"}]
    BY <1>1, <1>2 DEF AfterReturn, Return, Holders, At, PoolInv, TypeOK
  <1>5. \A u \in Threads : u # t => conn'[u] = conn[u]
    BY <1>1, <1>2 DEF AfterReturn, PoolInv, TypeOK
  <1>6. conn'[t] \in {c, NoConn}
    BY <1>1, <1>2 DEF AfterReturn, PoolInv, TypeOK
  <1>7. conn' \in [Threads -> 0 .. MaxConnId] /\ prepared' \in [Threads -> BOOLEAN]
    <2>1. NoConn \in 0 .. MaxConnId
      BY ThreadCount DEF NoConn
    <2>2. conn' = conn \/ conn' = [conn EXCEPT ![t] = NoConn]
      BY <1>1 DEF AfterReturn
    <2>3. prepared' \in [Threads -> BOOLEAN]
      BY <1>1 DEF AfterReturn, PoolInv, TypeOK
    <2> QED
      BY <2>1, <2>2, <2>3, Zenon DEF PoolInv, TypeOK
  <1>8. /\ Len(pool') = Len(pool) + 1
        /\ DOMAIN pool' = DOMAIN pool \cup {Len(pool) + 1}
        /\ pool'[Len(pool) + 1] = c /\ Len(pool) + 1 \notin DOMAIN pool
        /\ \A i \in DOMAIN pool : pool'[i] = pool[i]
    BY <1>1, <1>3 DEF PoolInv, TypeOK
  <1>9. TypeOK'
    <2>1. pool' \in Seq(1 .. MaxConnId)
      BY <1>1, <1>3 DEF PoolInv, TypeOK
    <2>2. leaked' \in [1 .. MaxConnId -> Nat]
      <3>1. leaked[c] + 1 \in Nat
        BY <1>3 DEF PoolInv, TypeOK
      <3> QED
        BY <1>1, <3>1, Zenon DEF PoolInv, TypeOK
    <2>3. op' \in [Threads -> Ops \cup {"none"}]
      BY <1>1 DEF AfterReturn, Return, PoolInv, TypeOK
    <2> QED
      BY <1>1, <1>4, <1>7, <2>1, <2>2, <2>3 DEF PoolInv, TypeOK
  <1>10. ConnExclusive'
    <2>1. \A i \in DOMAIN pool : pool[i] # c
      BY DEF PoolInv, ConnExclusive
    <2>2. \A u \in Holders : u # t => conn[u] # c
      BY DEF PoolInv, ConnExclusive
    <2>3. \A i, j \in DOMAIN pool' : pool'[i] = pool'[j] => i = j
      BY <1>8, <2>1 DEF PoolInv, ConnExclusive
    <2>4. \A u, v \in Holders' : conn'[u] = conn'[v] => u = v
      BY <1>2, <1>4, <1>5 DEF PoolInv, ConnExclusive
    <2>5. \A i \in DOMAIN pool', u \in Holders' : pool'[i] # conn'[u]
      BY <1>2, <1>4, <1>5, <1>8, <2>2 DEF PoolInv, ConnExclusive
    <2> QED
      BY <2>3, <2>4, <2>5 DEF ConnExclusive
  <1>11. WhereInv'
    <2>1. \A i \in DOMAIN pool' : pool'[i] \in 1 .. created
      BY <1>3, <1>8 DEF PoolInv, WhereInv
    <2>2. \A u \in Threads : conn'[u] \in 0 .. created
      BY <1>2, <1>3, <1>5, <1>6 DEF PoolInv, WhereInv, NoConn
    <2>3. \A u \in Holders' : conn'[u] # NoConn
      BY <1>2, <1>4, <1>5 DEF PoolInv, WhereInv
    <2>4. ASSUME NEW d \in 1 .. created
          PROVE  \/ \E i \in DOMAIN pool' : pool'[i] = d
                 \/ \E u \in Holders' : conn'[u] = d
      <3>1. CASE d = c
        BY <1>8, <3>1
      <3>2. CASE d # c
        BY <1>2, <1>4, <1>5, <1>8, <3>2 DEF PoolInv, WhereInv
      <3> QED
        BY <3>1, <3>2
    <2> QED
      BY <1>1, <2>1, <2>2, <2>3, <2>4 DEF WhereInv
  <1> QED
    BY <1>9, <1>10, <1>11 DEF PoolInv

\* mysql_stmt_close finds the statement it closes in the session.
LEMMA CloseStmtPool ==
  ASSUME Inv, NEW t \in Threads, CloseStmt(t)
  PROVE  PoolInv'
  <1> DEFINE c == conn[t]
  <1>1. pc[t] \in {"close", "catch"} /\ t \notin Holders
    BY DEF CloseStmt, Holders, At
  <1>2. /\ UNCHANGED <<pool, created, dead, leaked, tangled, crashed>>
        /\ pc' = [pc EXCEPT ![t] = "idle"] /\ op' = [op EXCEPT ![t] = "none"]
        /\ conn' = [conn EXCEPT ![t] = NoConn]
        /\ prepared' = [prepared EXCEPT ![t] = FALSE]
    BY DEF CloseStmt, Return
  <1>3. stmts' \in [1 .. MaxConnId -> Nat]
    <2>1. CASE prepared[t] /\ c \notin dead /\ c \in 1 .. MaxConnId
      <3>. leaked[c] \in Nat
        BY <2>1 DEF Inv, PoolInv, TypeOK
      <3>1. t \in Owners(c)
        BY <2>1 DEF Owners
      <3>2. IsFiniteSet(Owners(c))
        BY SqlAssumption, FS_Subset DEF Owners
      <3>3. Cardinality(Owners(c)) \in Nat /\ Cardinality(Owners(c)) # 0
        BY <3>1, <3>2, FS_CardinalityType, FS_EmptySet
      <3>4. stmts[c] - 1 \in Nat
        BY <2>1, <3>3 DEF Inv, PoolInv, TypeOK, StmtInv, StmtCount, Accounted
      <3>5. stmts' = stmts \/ stmts' = [stmts EXCEPT ![c] = stmts[c] - 1]
        BY <2>1 DEF CloseStmt
      <3> QED
        BY <3>4, <3>5, Zenon DEF Inv, PoolInv, TypeOK
    <2>2. CASE ~(prepared[t] /\ c \notin dead)
      BY <2>2 DEF CloseStmt, Inv, PoolInv, TypeOK
    <2>3. CASE c \notin 1 .. MaxConnId
      BY <2>3 DEF CloseStmt, Inv, PoolInv, TypeOK
    <2> QED
      BY <2>1, <2>2, <2>3
  <1>4. TypeOK'
    <2>1. conn' \in [Threads -> 0 .. MaxConnId]
      <3>1. NoConn \in 0 .. MaxConnId
        BY ThreadCount DEF NoConn
      <3> QED
        BY <1>2, <3>1, Zenon DEF Inv, PoolInv, TypeOK
    <2> QED
      BY <1>2, <1>3, <2>1 DEF Inv, PoolInv, TypeOK
  <1>5. Holders' = Holders
    BY <1>1, <1>2 DEF Holders, At, Inv, PoolInv, TypeOK
  <1>6. \A u \in Threads : conn'[u] = conn[u] \/ (u \notin Holders /\ conn'[u] = NoConn)
    BY <1>1, <1>2 DEF Inv, PoolInv, TypeOK
  <1> QED
    BY <1>2, <1>4, <1>5, <1>6, QuietStep DEF Inv

\* Only sessions of connections that were opened end.
LEMMA SessionsEnd ==
  ASSUME Inv, Next
  PROVE  \/ \E t \in Threads : Step(t) \/ \E o \in Ops : Call(t, o)
         \/ \E t, u \in Threads : Collide(t, u)
         \/ \E cs \in SUBSET (1 .. created) : EndSessions(cs)
  <1>1. ASSUME NEW c \in tangled, DropSession(c)
        PROVE  \E cs \in SUBSET (1 .. created) : EndSessions(cs)
    <2>1. {c} \in SUBSET (1 .. created)
      BY DEF Inv, StmtInv
    <2> QED
      BY <1>1, <2>1 DEF DropSession
  <1>2. ASSUME DbRestart
        PROVE  \E cs \in SUBSET (1 .. created) : EndSessions(cs)
    BY <1>2 DEF DbRestart
  <1> QED
    BY <1>1, <1>2 DEF Next

LEMMA NextPool == Inv /\ [Next]_vars => PoolInv'
  <1> SUFFICES ASSUME Inv, PoolInv, [Next]_vars PROVE PoolInv'
    BY DEF Inv
  <1>1. CASE UNCHANGED vars
    BY <1>1 DEF vars, PoolInv, TypeOK, ConnExclusive, WhereInv, Holders, At
  <1>2. ASSUME NEW t \in Threads, NEW o \in Ops, Call(t, o) PROVE PoolInv'
    <2>1. TypeOK'
      BY <1>2 DEF Call, PoolInv, TypeOK
    <2>2. Holders' = Holders
      BY <1>2 DEF Call, Holders, At, PoolInv, TypeOK
    <2> QED
      BY <1>2, <2>1, <2>2, QuietStep DEF Call
  <1>3. ASSUME NEW t \in Threads, GetConnection(t) PROVE PoolInv'
    BY <1>3, GetConnectionInv
  <1>4. ASSUME NEW t \in Threads, AddConnectionFails(t) PROVE PoolInv'
    <2>1. TypeOK'
      BY <1>4 DEF AddConnectionFails, Return, PoolInv, TypeOK
    <2>2. Holders' = Holders
      BY <1>4 DEF AddConnectionFails, Return, Holders, At, PoolInv, TypeOK
    <2> QED
      BY <1>4, <2>1, <2>2, QuietStep DEF AddConnectionFails
  <1>5. ASSUME NEW t \in Threads, Prepare(t) PROVE PoolInv'
    <2>1. stmts' \in [1 .. MaxConnId -> Nat]
      <3>1. conn[t] \in 1 .. MaxConnId
        BY <1>5, ThreadCount DEF Prepare, PoolInv, TypeOK, WhereInv, Holders, At, NoConn
      <3>2. stmts[conn[t]] + 1 \in Nat
        BY <3>1 DEF PoolInv, TypeOK
      <3> QED
        BY <1>5, <3>2, Zenon DEF Prepare, PoolInv, TypeOK
    <2>2. TypeOK'
      BY <1>5, <2>1 DEF Prepare, PoolInv, TypeOK
    <2>3. Holders' = Holders
      BY <1>5 DEF Prepare, Holders, At, PoolInv, TypeOK
    <2> QED
      BY <1>5, <2>2, <2>3, QuietStep DEF Prepare
  <1>6. ASSUME NEW t \in Threads, PrepareThrows(t) \/ Execute(t) \/ ExecuteThrows(t)
        PROVE  PoolInv'
    <2>1. t \in Holders
      BY <1>6 DEF PrepareThrows, Execute, ExecuteThrows, Holders, At
    <2>2. EndQuery(t, "close") \/ EndQuery(t, "catch")
      BY <1>6 DEF PrepareThrows, Execute, ExecuteThrows
    <2>3. stmts[conn[t]] + 1 \in Nat
      BY <2>1, ThreadCount DEF PoolInv, TypeOK, WhereInv, Holders, At, NoConn
    <2>4. stmts' = stmts \/ stmts' = [stmts EXCEPT ![conn[t]] = stmts[conn[t]] + 1]
      BY <1>6 DEF PrepareThrows, Execute, ExecuteThrows
    <2>5. stmts' \in [1 .. MaxConnId -> Nat]
      BY <2>3, <2>4, Zenon DEF PoolInv, TypeOK
    <2> QED
      BY <2>1, <2>2, <2>5, EndQueryInv
  <1>7. ASSUME NEW t \in Threads, CloseStmt(t) PROVE PoolInv'
    BY <1>7, CloseStmtPool
  <1>8. ASSUME NEW t \in Threads, NEW u \in Threads, Collide(t, u) PROVE PoolInv'
    <2>1. tangled' \subseteq 1 .. MaxConnId
      <3>1. conn[t] \in 1 .. MaxConnId
        BY <1>8, ThreadCount DEF Collide, Inv, StmtInv, PoolInv, TypeOK, NoConn
      <3> QED
        BY <1>8, <3>1 DEF Collide, PoolInv, TypeOK
    <2>2. TypeOK'
      BY <1>8, <2>1 DEF Collide, PoolInv, TypeOK
    <2>3. Holders' = Holders
      BY <1>8 DEF Collide, Holders, At
    <2> QED
      BY <1>8, <2>2, <2>3, QuietStep DEF Collide
  <1>9. ASSUME NEW cs \in SUBSET (1 .. MaxConnId), EndSessions(cs) PROVE PoolInv'
    <2>1. dead' \subseteq 1 .. MaxConnId /\ tangled' \subseteq 1 .. MaxConnId
      BY <1>9 DEF EndSessions, PoolInv, TypeOK
    <2>2. stmts' \in [1 .. MaxConnId -> Nat] /\ leaked' \in [1 .. MaxConnId -> Nat]
      BY <1>9 DEF EndSessions, PoolInv, TypeOK
    <2>3. TypeOK'
      BY <1>9, <2>1, <2>2 DEF EndSessions, PoolInv, TypeOK
    <2>4. Holders' = Holders
      BY <1>9 DEF EndSessions, Holders, At
    <2> QED
      BY <1>9, <2>3, <2>4, QuietStep DEF EndSessions
  <1>10. 1 .. created \subseteq 1 .. MaxConnId
    BY ThreadCount DEF PoolInv, TypeOK
  <1> QED
    BY <1>1, <1>2, <1>3, <1>4, <1>5, <1>6, <1>7, <1>8, <1>9, <1>10, SessionsEnd DEF Step

-----------------------------------------------------------------------------
\* The statements.

LEMMA OwnersFinite ==
  \A c : IsFiniteSet(Owners(c)) /\ Cardinality(Owners(c)) \in Nat
  <1> SUFFICES ASSUME NEW c
               PROVE  IsFiniteSet(Owners(c)) /\ Cardinality(Owners(c)) \in Nat
    OBVIOUS
  <1>1. Owners(c) \subseteq Threads
    BY DEF Owners
  <1>2. IsFiniteSet(Owners(c))
    BY <1>1, SqlAssumption, FS_Subset
  <1> QED
    BY <1>2, FS_CardinalityType

\* A step that changes neither the statements nor who owns them.
LEMMA SameStmts ==
  ASSUME Inv, PoolInv', UNCHANGED <<dead, stmts, leaked, prepared>>,
         tangled \subseteq tangled', tangled' \subseteq (1 .. created) \ dead,
         created' \in {created, created + 1},
         \A u \in Threads : prepared[u] => conn'[u] = conn[u] /\ pc'[u] \in {"execute", "close", "catch"},
         \A u \in Threads : pc'[u] # "idle" => op'[u] \in Ops,
         \A u \in Threads : pc'[u] \in {"close", "catch"} => conn'[u] # NoConn
  PROVE  StmtInv'
  <1>1. created \in Nat /\ MaxConnId \in Nat
    BY ThreadCount DEF Inv, PoolInv, TypeOK
  <1>2. ASSUME NEW c PROVE Owners(c)' = Owners(c)
    BY DEF Owners
  <1>3. dead' \subseteq 1 .. created'
    BY <1>1 DEF Inv, StmtInv
  <1>4. \A c \in 1 .. MaxConnId : c > created' => stmts'[c] = 0 /\ leaked'[c] = 0
    BY <1>1 DEF Inv, StmtInv
  <1>5. \A c \in (1 .. MaxConnId) \ dead' : StmtCount(c)'
    BY <1>2 DEF Inv, StmtInv, StmtCount, Accounted
  <1>6. tangled' \subseteq (1 .. created') \ dead'
    BY <1>1
  <1> QED
    BY <1>2, <1>3, <1>4, <1>5, <1>6 DEF Inv, StmtInv

LEMMA PrepareStmt ==
  ASSUME Inv, NEW t \in Threads, Prepare(t)
  PROVE  StmtInv'
  <1> DEFINE c == conn[t]
  <1>1. /\ pc[t] = "prepare" /\ c \notin dead /\ stmts' = [stmts EXCEPT ![c] = @ + 1]
        /\ prepared' = [prepared EXCEPT ![t] = TRUE]
        /\ pc' = [pc EXCEPT ![t] = "execute"]
        /\ UNCHANGED <<created, dead, leaked, op, conn, tangled>>
    BY DEF Prepare
  <1>2. ~prepared[t]
    BY <1>1 DEF Inv, StmtInv
  <1>3. c \in 1 .. created /\ c \in 1 .. MaxConnId /\ created \in Nat
    BY <1>1, ThreadCount DEF Inv, PoolInv, TypeOK, WhereInv, Holders, At, NoConn
  <1>4. \A d : d = c => Owners(d)' = Owners(d) \cup {t} /\ t \notin Owners(d)
    BY <1>1, <1>2 DEF Owners, Inv, PoolInv, TypeOK
  <1>5. \A d : d # c => Owners(d)' = Owners(d)
    BY <1>1 DEF Owners, Inv, PoolInv, TypeOK
  <1>6. ASSUME NEW d, d = c
        PROVE  Cardinality(Owners(d)') = Cardinality(Owners(d)) + 1
    BY <1>4, <1>6, OwnersFinite, FS_AddElement
  <1>7. \A d \in 1 .. MaxConnId : stmts'[d] = IF d = c THEN stmts[d] + 1 ELSE stmts[d]
    BY <1>1 DEF Inv, PoolInv, TypeOK
  <1>8. ASSUME NEW d \in (1 .. MaxConnId) \ dead PROVE StmtCount(d)'
    <2>1. /\ stmts[d] \in Nat /\ leaked[d] \in Nat /\ Cardinality(Owners(d)) \in Nat
          /\ StmtCount(d)
      BY OwnersFinite DEF Inv, PoolInv, TypeOK, StmtInv
    <2>2. CASE d = c
      <3>1. stmts'[d] = stmts[d] + 1
        BY <1>7, <2>2
      <3>2. Cardinality(Owners(d)') = Cardinality(Owners(d)) + 1
        BY <1>6, <2>2
      <3> QED
        BY <1>1, <2>1, <3>1, <3>2 DEF StmtCount, Accounted
    <2>3. CASE d # c
      <3>1. stmts'[d] = stmts[d] /\ Owners(d)' = Owners(d)
        BY <1>5, <1>7, <2>3
      <3> QED
        BY <1>1, <2>1, <3>1 DEF StmtCount, Accounted
    <2> QED
      BY <2>2, <2>3
  <1>9. \A d \in 1 .. MaxConnId : d > created => stmts'[d] = 0 /\ leaked[d] = 0
    BY <1>3, <1>7 DEF Inv, StmtInv
  <1>10. \A u \in Threads : /\ prepared'[u] => pc'[u] \in {"execute", "close", "catch"}
                            /\ pc'[u] # "idle" => op'[u] \in Ops
                            /\ pc'[u] \in {"close", "catch"} => conn'[u] # NoConn
    BY <1>1 DEF Inv, PoolInv, TypeOK, StmtInv
  <1> QED
    BY <1>1, <1>8, <1>9, <1>10 DEF Inv, StmtInv

\* regUser gives its statement up here; the others carry theirs to the close.
LEMMA EndQueryStmt ==
  ASSUME Inv, NEW t \in Holders, NEW l \in {"close", "catch"}, EndQuery(t, l),
         \/ stmts' = stmts
         \/ conn[t] \in tangled /\ stmts' = [stmts EXCEPT ![conn[t]] = @ + 1]
  PROVE  StmtInv'
  <1> DEFINE c == conn[t]
  <1>1. t \in Threads /\ pc[t] # "idle" /\ op[t] \in Ops
    BY DEF Holders, At, Inv, StmtInv
  <1>2. UNCHANGED <<created, dead, tangled>> /\ AfterReturn(t, l)
    BY DEF EndQuery
  <1>3. c \in 1 .. created /\ c \in 1 .. MaxConnId /\ created \in Nat
    BY <1>1, ThreadCount DEF Inv, PoolInv, TypeOK, WhereInv, Holders, At, NoConn
  <1>4. \A u \in Threads : /\ prepared'[u] => pc'[u] \in {"execute", "close", "catch"}
                           /\ pc'[u] # "idle" => op'[u] \in Ops
                           /\ pc'[u] \in {"close", "catch"} => conn'[u] # NoConn
    BY <1>1, <1>2, <1>3 DEF AfterReturn, Return, Inv, PoolInv, TypeOK, StmtInv, NoConn
  <1>5. leaked' = IF Abandons(t) THEN [leaked EXCEPT ![c] = @ + 1] ELSE leaked
    BY DEF EndQuery
  <1>6. ASSUME NEW d \in (1 .. MaxConnId) \ dead
        PROVE  Accounted(d)' = Accounted(d)
    <2>1. leaked[d] \in Nat /\ Cardinality(Owners(d)) \in Nat
      BY OwnersFinite DEF Inv, PoolInv, TypeOK
    <2>2. CASE ~(op[t] = "regUser" /\ prepared[t])
      <3>1. Owners(d)' = Owners(d)
        BY <1>1, <1>2, <2>2 DEF AfterReturn, Owners, Inv, PoolInv, TypeOK
      <3>2. leaked' = leaked
        BY <1>5, <2>2 DEF Abandons
      <3> QED
        BY <3>1, <3>2 DEF Accounted
    <2>3. CASE op[t] = "regUser" /\ prepared[t]
      <3>1. Owners(d)' = Owners(d) \ {t}
        BY <1>2, <2>3 DEF AfterReturn, Owners, Inv, PoolInv, TypeOK
      <3>2. t \in Owners(d) <=> d = c
        BY <1>1, <2>3 DEF Owners
      <3>3. Cardinality(Owners(d)') = IF d = c THEN Cardinality(Owners(d)) - 1
                                      ELSE Cardinality(Owners(d))
        BY <3>1, <3>2, OwnersFinite, FS_RemoveElement
      <3>4. leaked'[d] = IF d = c THEN leaked[d] + 1 ELSE leaked[d]
        BY <1>5, <2>3 DEF Abandons, Inv, PoolInv, TypeOK
      <3> QED
        BY <2>1, <3>3, <3>4 DEF Accounted
    <2> QED
      BY <2>2, <2>3
  <1>7. ASSUME NEW d \in (1 .. MaxConnId) \ dead PROVE StmtCount(d)'
    <2>1. stmts[d] \in Nat /\ leaked[d] \in Nat /\ Cardinality(Owners(d)) \in Nat /\ StmtCount(d)
      BY OwnersFinite DEF Inv, PoolInv, TypeOK, StmtInv
    <2>2. stmts'[d] = stmts[d] \/ (d \in tangled /\ stmts'[d] = stmts[d] + 1)
      BY DEF Inv, PoolInv, TypeOK
    <2>3. Accounted(d) \in Nat
      BY <2>1 DEF Accounted
    <2> QED
      BY <1>2, <1>6, <2>1, <2>2, <2>3 DEF StmtCount
  <1>8. \A d \in 1 .. MaxConnId : d > created => stmts'[d] = 0 /\ leaked'[d] = 0
    <2>1. \A d \in 1 .. MaxConnId : d > created => d # c
      BY <1>3
    <2>2. \A d \in 1 .. MaxConnId : d # c => stmts'[d] = stmts[d] /\ leaked'[d] = leaked[d]
      BY <1>5 DEF Inv, PoolInv, TypeOK
    <2> QED
      BY <2>1, <2>2 DEF Inv, StmtInv
  <1> QED
    BY <1>2, <1>4, <1>7, <1>8 DEF Inv, StmtInv

\* A close takes away the statement of its thread; a lost one leaves it to nobody.
LEMMA CloseStmtStmt ==
  ASSUME Inv, NEW t \in Threads, CloseStmt(t)
  PROVE  StmtInv'
  <1> DEFINE c == conn[t]
  <1>1. /\ UNCHANGED <<created, dead, leaked, tangled>>
        /\ pc' = [pc EXCEPT ![t] = "idle"] /\ op' = [op EXCEPT ![t] = "none"]
        /\ conn' = [conn EXCEPT ![t] = NoConn]
        /\ prepared' = [prepared EXCEPT ![t] = FALSE]
    BY DEF CloseStmt, Return
  <1>2. \A d : Owners(d)' = Owners(d) \ {t}
    BY <1>1 DEF Owners, Inv, PoolInv, TypeOK
  <1>3. created \in Nat /\ c \in 0 .. created
    BY ThreadCount DEF Inv, PoolInv, TypeOK, WhereInv
  <1>4. \A d \in 1 .. MaxConnId :
          \/ d # c /\ stmts'[d] = stmts[d]
          \/ d = c /\ prepared[t] /\ stmts'[d] = stmts[d] - 1
          \/ /\ d = c /\ stmts'[d] = stmts[d]
             /\ ~prepared[t] \/ d \in dead \cup tangled
    BY DEF CloseStmt, Inv, PoolInv, TypeOK
  <1>5. ASSUME NEW d \in (1 .. MaxConnId) \ dead PROVE StmtCount(d)'
    <2>1. t \in Owners(d) <=> prepared[t] /\ d = c
      BY DEF Owners
    <2>2. Cardinality(Owners(d)') = IF t \in Owners(d) THEN Cardinality(Owners(d)) - 1
                                    ELSE Cardinality(Owners(d))
      BY <1>2, OwnersFinite, FS_RemoveElement
    <2>3. /\ stmts[d] \in Nat /\ leaked[d] \in Nat /\ Cardinality(Owners(d)) \in Nat
          /\ StmtCount(d)
      BY OwnersFinite DEF Inv, PoolInv, TypeOK, StmtInv
    <2>4. Accounted(d)' = IF prepared[t] /\ d = c THEN Accounted(d) - 1 ELSE Accounted(d)
      BY <1>1, <2>1, <2>2, <2>3 DEF Accounted
    <2>5. Accounted(d) \in Int
      BY <2>3 DEF Accounted
    <2> QED
      BY <1>1, <1>4, <2>3, <2>4, <2>5 DEF StmtCount
  <1>6. \A d \in 1 .. MaxConnId : d > created => stmts'[d] = 0 /\ leaked[d] = 0
    BY <1>3, <1>4 DEF Inv, StmtInv
  <1>7. \A u \in Threads : /\ prepared'[u] => pc'[u] \in {"execute", "close", "catch"}
                           /\ pc'[u] # "idle" => op'[u] \in Ops
                           /\ pc'[u] \in {"close", "catch"} => conn'[u] # NoConn
    BY <1>1 DEF Inv, PoolInv, TypeOK, StmtInv
  <1> QED
    BY <1>1, <1>5, <1>6, <1>7 DEF Inv, StmtInv

\* The end of sessions forgets their statements and touches no other's.
LEMMA EndSessionsStmt ==
  ASSUME Inv, NEW cs \in SUBSET (1 .. created), EndSessions(cs)
  PROVE  StmtInv'
  <1>1. /\ dead' = dead \cup cs /\ tangled' = tangled \ cs
        /\ \A c \in 1 .. MaxConnId :
             /\ stmts'[c] = IF c \in cs THEN 0 ELSE stmts[c]
             /\ leaked'[c] = IF c \in cs THEN 0 ELSE leaked[c]
        /\ UNCHANGED <<created, pc, op, conn, prepared>>
    BY DEF EndSessions
  <1>2. ASSUME NEW c \in (1 .. MaxConnId) \ dead' PROVE StmtCount(c)'
    <2>1. Owners(c)' = Owners(c)
      BY <1>1 DEF Owners
    <2> QED
      BY <1>1, <2>1 DEF StmtCount, Accounted, Inv, StmtInv
  <1> QED
    BY <1>1, <1>2 DEF Inv, StmtInv

LEMMA NextStmt == Inv /\ [Next]_vars => StmtInv'
  <1> SUFFICES ASSUME Inv, [Next]_vars PROVE StmtInv'
    OBVIOUS
  <1>1. PoolInv'
    BY NextPool
  <1>2. CASE UNCHANGED vars
    BY <1>2 DEF vars, Inv, StmtInv, StmtCount, Accounted, Owners
  <1>3. ASSUME NEW t \in Threads, NEW o \in Ops, Call(t, o) PROVE StmtInv'
    BY <1>1, <1>3, SameStmts DEF Call, Inv, PoolInv, TypeOK, StmtInv
  <1>4. ASSUME NEW t \in Threads, GetConnection(t) PROVE StmtInv'
    <2>1. PICK c : TakeConn(t, c)
      BY <1>4 DEF GetConnection
    <2>2. /\ UNCHANGED <<dead, stmts, leaked, op, prepared, tangled>>
          /\ pc' = [pc EXCEPT ![t] = "prepare"] /\ conn' = [conn EXCEPT ![t] = c]
      BY <2>1 DEF TakeConn
    <2>3. pc[t] = "get" /\ created' \in {created, created + 1}
      BY <1>4 DEF GetConnection
    <2>4. ~prepared[t] /\ op[t] \in Ops
      BY <2>3 DEF Inv, StmtInv
    <2>5. \A u \in Threads : prepared[u] => conn'[u] = conn[u] /\ pc'[u] \in {"execute", "close", "catch"}
      BY <2>2, <2>4 DEF Inv, PoolInv, TypeOK, StmtInv
    <2>6. \A u \in Threads : pc'[u] # "idle" => op'[u] \in Ops
      BY <2>2, <2>4 DEF Inv, PoolInv, TypeOK, StmtInv
    <2>7. \A u \in Threads : pc'[u] \in {"close", "catch"} => conn'[u] # NoConn
      BY <2>2 DEF Inv, PoolInv, TypeOK, StmtInv
    <2>8. tangled \subseteq (1 .. created) \ dead
      BY DEF Inv, StmtInv
    <2> QED
      BY <1>1, <2>2, <2>3, <2>5, <2>6, <2>7, <2>8, SameStmts
  <1>5. ASSUME NEW t \in Threads, AddConnectionFails(t) PROVE StmtInv'
    BY <1>1, <1>5, SameStmts DEF AddConnectionFails, Return, Inv, PoolInv, TypeOK, StmtInv
  <1>6. ASSUME NEW t \in Threads, Prepare(t) PROVE StmtInv'
    BY <1>6, PrepareStmt
  <1>7. ASSUME NEW t \in Threads, PrepareThrows(t) \/ Execute(t) \/ ExecuteThrows(t)
        PROVE  StmtInv'
    <2>1. t \in Holders
      BY <1>7 DEF PrepareThrows, Execute, ExecuteThrows, Holders, At
    <2>2. EndQuery(t, "close") \/ EndQuery(t, "catch")
      BY <1>7 DEF PrepareThrows, Execute, ExecuteThrows
    <2>3. \/ stmts' = stmts
          \/ conn[t] \in tangled /\ stmts' = [stmts EXCEPT ![conn[t]] = @ + 1]
      BY <1>7 DEF PrepareThrows, Execute, ExecuteThrows
    <2> QED
      BY <2>1, <2>2, <2>3, EndQueryStmt
  <1>8. ASSUME NEW t \in Threads, CloseStmt(t) PROVE StmtInv'
    BY <1>8, CloseStmtStmt
  <1>9. ASSUME NEW t \in Threads, NEW u \in Threads, Collide(t, u) PROVE StmtInv'
    <2>1. conn[t] \in 1 .. created
      BY <1>9, ThreadCount DEF Collide, Inv, StmtInv, PoolInv, TypeOK, WhereInv, NoConn
    <2>2. tangled \subseteq tangled' /\ tangled' \subseteq (1 .. created) \ dead
      BY <1>9, <2>1 DEF Collide, Inv, StmtInv
    <2> QED
      BY <1>1, <1>9, <2>2, SameStmts DEF Collide, Inv, StmtInv
  <1>10. ASSUME NEW cs \in SUBSET (1 .. created), EndSessions(cs) PROVE StmtInv'
    BY <1>10, EndSessionsStmt
  <1> QED
    BY <1>2, <1>3, <1>4, <1>5, <1>6, <1>7, <1>8, <1>9, <1>10, SessionsEnd DEF Step

LEMMA InitStmt == Init => StmtInv
  <1> SUFFICES ASSUME Init PROVE StmtInv
    OBVIOUS
  <1>1. \A c : Owners(c) = {}
    BY DEF Init, Owners
  <1>2. \A c : Cardinality(Owners(c)) = 0
    BY <1>1, FS_EmptySet
  <1> QED
    BY <1>2 DEF Init, StmtInv, StmtCount, Accounted

-----------------------------------------------------------------------------
\* Connections and statements are where SqlPool and SqlDao expect them.
THEOREM InvHolds == Spec => []Inv
  <1>1. Init => Inv
    BY InitPool, InitStmt DEF Inv
  <1>2. Inv /\ [Next]_vars => Inv'
    BY NextPool, NextStmt DEF Inv
  <1> QED
    BY <1>1, <1>2, PTL DEF Spec

\* The variables keep their types; above all, no session is asked to close a
\* statement that it does not have.
THEOREM TypeCorrect == Spec => []TypeOK
  <1>1. Inv => TypeOK
    BY DEF Inv, PoolInv
  <1> QED
    BY <1>1, InvHolds, PTL

\* getConnection and the deleter never give one MYSQL to two threads.
THEOREM ConnsExclusive == Spec => []ConnExclusive
  <1>1. Inv => ConnExclusive
    BY DEF Inv, PoolInv
  <1> QED
    BY <1>1, InvHolds, PTL

\* What is open in a session is what its calls will close and what regUser left
\* there, however each query ends and whatever the database does; what a lost
\* close or answer leaves open besides is on tangled connections only.
THEOREM StmtsAreClosed == Spec => []StmtsClosed
  <1>1. Inv => StmtsClosed
    <2> SUFFICES ASSUME Inv, NEW c \in (1 .. created) \ dead
                 PROVE  stmts[c] = Accounted(c) \/ (c \in tangled /\ stmts[c] > Accounted(c))
      BY DEF StmtsClosed, Accounted
    <2>1. c \in (1 .. MaxConnId) \ dead
      BY ThreadCount DEF Inv, PoolInv, TypeOK
    <2>2. stmts[c] \in Nat /\ Accounted(c) \in Int
      BY <2>1, OwnersFinite DEF Inv, PoolInv, TypeOK, Accounted
    <2> QED
      BY <2>1, <2>2 DEF Inv, StmtInv, StmtCount
  <1> QED
    BY <1>1, InvHolds, PTL

-----------------------------------------------------------------------------
\* The pool implements FifoPool.

\* The connection of each thread that is between getConnection and the deleter.
Held == [t \in Threads |-> IF t \in Holders THEN conn[t] ELSE NoConn]

\* A step that leaves the pool, the holders and their connections alone.
LEMMA PoolStutters ==
  ASSUME UNCHANGED <<pool, created>>, Holders' = Holders,
         \A u \in Holders : conn'[u] = conn[u]
  PROVE  UNCHANGED Pool!vars
  BY DEF Pool!vars

\* getConnection takes the front of pool_, or opens what nobody has.
LEMMA GetConnectionLends ==
  ASSUME Inv, NEW t \in Threads, GetConnection(t)
  PROVE  Pool!Take(t) \/ Pool!Make(t)
  <1>1. pc[t] = "get" /\ t \notin Holders
    BY DEF GetConnection, Holders, At
  <1>2. ASSUME NEW c, TakeConn(t, c)
        PROVE  Held' = [Held EXCEPT ![t] = c] /\ Held[t] = NoConn
    <2>1. Holders' = Holders \cup {t} /\ conn' = [conn EXCEPT ![t] = c]
      BY <1>2 DEF TakeConn, Holders, At, Inv, PoolInv, TypeOK
    <2> QED
      BY <1>1, <2>1 DEF Held, Inv, PoolInv, TypeOK
  <1>3. CASE pool # <<>>
    <2>1. TakeConn(t, Head(pool)) /\ pool' = Tail(pool) /\ created' = created
      BY <1>3 DEF GetConnection
    <2>2. Held' = [Held EXCEPT ![t] = Head(pool)] /\ Held[t] = NoConn
      BY <1>2, <2>1
    <2> QED
      BY <1>3, <2>1, <2>2 DEF Pool!Take, Pool!Lend, Pool!None, NoConn, Held
  <1>4. CASE pool = <<>>
    <2>1. TakeConn(t, created + 1) /\ pool' = pool /\ created' = created + 1
      BY <1>4 DEF GetConnection
    <2>2. Held' = [Held EXCEPT ![t] = created + 1] /\ Held[t] = NoConn
      BY <1>2, <2>1
    <2>3. created < MaxConnId
      <3>1. created + 1 \in 1 .. MaxConnId
        BY <1>1, <1>4, RoomToOpen DEF Inv
      <3> QED
        BY <3>1, ThreadCount DEF Inv, PoolInv, TypeOK
    <2> QED
      BY <1>4, <2>1, <2>2, <2>3 DEF Pool!Make, Pool!Lend, Pool!None, NoConn, Held
  <1> QED
    BY <1>3, <1>4

\* The deleter gives the connection back, on each way out of a query.
LEMMA EndQueryGives ==
  ASSUME Inv, NEW t \in Holders, NEW l \in {"close", "catch"}, EndQuery(t, l)
  PROVE  Pool!Give(t)
  <1>1. /\ pool' = Append(pool, conn[t]) /\ created' = created /\ AfterReturn(t, l)
        /\ t \in Threads
    BY DEF EndQuery, ReturnConn, Holders, At
  <1>2. Holders' = Holders \ {t}
    BY <1>1 DEF AfterReturn, Return, Holders, At, Inv, PoolInv, TypeOK
  <1>3. \A u \in Threads : u # t => conn'[u] = conn[u]
    BY <1>1 DEF AfterReturn, Inv, PoolInv, TypeOK
  <1>4. Held' = [Held EXCEPT ![t] = NoConn]
    BY <1>1, <1>2, <1>3 DEF Held
  <1>5. Held[t] = conn[t] /\ conn[t] # NoConn
    BY <1>1 DEF Held, Inv, PoolInv, WhereInv
  <1> QED
    BY <1>1, <1>4, <1>5 DEF Pool!Give, Pool!None, NoConn, Held

LEMMA PoolNext == Inv /\ [Next]_vars => [Pool!Next]_(Pool!vars)
  <1> SUFFICES ASSUME Inv, [Next]_vars PROVE Pool!Next \/ UNCHANGED Pool!vars
    OBVIOUS
  <1>1. CASE UNCHANGED vars
    BY <1>1, PoolStutters DEF vars, Holders, At
  <1>2. ASSUME NEW t \in Threads, NEW o \in Ops, Call(t, o) PROVE UNCHANGED Pool!vars
    <2>1. Holders' = Holders
      BY <1>2 DEF Call, Holders, At, Inv, PoolInv, TypeOK
    <2> QED
      BY <1>2, <2>1, PoolStutters DEF Call
  <1>3. ASSUME NEW t \in Threads, GetConnection(t) PROVE Pool!Next
    BY <1>3, GetConnectionLends DEF Pool!Next
  <1>4. ASSUME NEW t \in Threads, AddConnectionFails(t) PROVE UNCHANGED Pool!vars
    <2>1. Holders' = Holders
      BY <1>4 DEF AddConnectionFails, Return, Holders, At, Inv, PoolInv, TypeOK
    <2> QED
      BY <1>4, <2>1, PoolStutters DEF AddConnectionFails
  <1>5. ASSUME NEW t \in Threads, Prepare(t) PROVE UNCHANGED Pool!vars
    <2>1. Holders' = Holders
      BY <1>5 DEF Prepare, Holders, At, Inv, PoolInv, TypeOK
    <2> QED
      BY <1>5, <2>1, PoolStutters DEF Prepare
  <1>6. ASSUME NEW t \in Threads, PrepareThrows(t) \/ Execute(t) \/ ExecuteThrows(t)
        PROVE  Pool!Next
    <2>1. t \in Holders
      BY <1>6 DEF PrepareThrows, Execute, ExecuteThrows, Holders, At
    <2>2. EndQuery(t, "close") \/ EndQuery(t, "catch")
      BY <1>6 DEF PrepareThrows, Execute, ExecuteThrows
    <2> QED
      BY <1>6, <2>1, <2>2, EndQueryGives DEF Pool!Next
  <1>7. ASSUME NEW t \in Threads, CloseStmt(t) PROVE UNCHANGED Pool!vars
    <2>1. t \notin Holders
      BY <1>7 DEF CloseStmt, Holders, At
    <2>2. Holders' = Holders
      BY <1>7 DEF CloseStmt, Return, Holders, At, Inv, PoolInv, TypeOK
    <2>3. \A u \in Holders : conn'[u] = conn[u]
      BY <1>7, <2>1 DEF CloseStmt, Holders, At, Inv, PoolInv, TypeOK
    <2> QED
      BY <1>7, <2>2, <2>3, PoolStutters DEF CloseStmt
  <1>8. ASSUME NEW t \in Threads, NEW u \in Threads, Collide(t, u) PROVE UNCHANGED Pool!vars
    BY <1>8, PoolStutters DEF Collide, Holders, At
  <1>9. ASSUME NEW cs, EndSessions(cs) PROVE UNCHANGED Pool!vars
    BY <1>9, PoolStutters DEF EndSessions, Holders, At
  <1> QED
    BY <1>1, <1>2, <1>3, <1>4, <1>5, <1>6, <1>7, <1>8, <1>9, SessionsEnd DEF Step

\* Whatever the database does, the connections go round as FifoPool says, with
\* a statement that is closed late being none of the pool's business.
THEOREM PoolIsFifo == Spec => ImplementsPool
  <1>1. Init => Pool!Init
    BY DEF Init, Pool!Init, Holders, At, Pool!None, NoConn
  <1> QED
    BY <1>1, InvHolds, PoolNext, PTL DEF Spec, ImplementsPool, Pool!Spec

-----------------------------------------------------------------------------
\* How far ErrorsAreServerErrors fails.

\* A thread on its own that closes its statement late meets nobody.
LEMMA AloneNext ==
  ASSUME \A t, u \in Threads : t = u, [Next]_vars, tangled = {}
  PROVE  tangled' = {} /\ (~Faults /\ ~crashed => ~crashed')
  <1>1. ASSUME NEW t \in Threads, Step(t)
        PROVE  tangled' = tangled /\ (~Faults => crashed' = crashed)
    BY <1>1 DEF Step, GetConnection, TakeConn, AddConnectionFails, Prepare, PrepareThrows,
       Execute, ExecuteThrows, EndQuery, CloseStmt
  <1>2. ~\E t, u \in Threads : Collide(t, u)
    BY DEF Collide
  <1>3. CASE DbRestart \/ UNCHANGED vars \/ \E t \in Threads, o \in Ops : Call(t, o)
    BY <1>3 DEF DbRestart, EndSessions, vars, Call
  <1> QED
    BY <1>1, <1>2, <1>3 DEF Next

\* With one io thread no exchange is ever interfered with, and without faults
\* the process does not die: what breaks ErrorsAreServerErrors takes a second
\* thread that is given the connection before the statement is closed.
THEOREM AloneUntangled ==
  ASSUME \A t, u \in Threads : t = u
  PROVE  Spec => [](tangled = {} /\ (~Faults => ~crashed))
  <1>1. Init => tangled = {} /\ ~crashed
    BY DEF Init
  <1>2. (tangled = {} /\ (~Faults => ~crashed)) /\ [Next]_vars
          => (tangled = {} /\ (~Faults => ~crashed))'
    BY AloneNext
  <1> QED
    BY <1>1, <1>2, PTL DEF Spec

\* Nothing that could close its statement is left in the pool's idle time.
NothingLeftOpen ==
  At("idle") = Threads => \A c \in (1 .. created) \ dead : stmts[c] = 0

\* With one io thread and no registration every statement is closed, whatever
\* fails: what stays open between the queries is regUser's, or was lost where a
\* late close ran into a second thread.
THEOREM AloneCloses ==
  ASSUME \A t, u \in Threads : t = u, "regUser" \notin Ops
  PROVE  Spec => []NothingLeftOpen
  <1> DEFINE NoneLeaked == \A c \in 1 .. MaxConnId : leaked[c] = 0
  <1>1. Init => NoneLeaked
    BY DEF Init
  <1>2. Inv /\ NoneLeaked /\ [Next]_vars => NoneLeaked'
    <2> SUFFICES ASSUME Inv, NoneLeaked, [Next]_vars PROVE NoneLeaked'
      OBVIOUS
    <2>1. ASSUME NEW t \in Threads, Step(t) PROVE leaked' = leaked
      <3>1. pc[t] # "idle" => op[t] # "regUser"
        BY DEF Inv, StmtInv
      <3> QED
        BY <2>1, <3>1 DEF Step, GetConnection, TakeConn, AddConnectionFails, Prepare,
           PrepareThrows, Execute, ExecuteThrows, EndQuery, Abandons, CloseStmt
    <2>2. CASE UNCHANGED leaked
      BY <2>2
    <2>3. ASSUME NEW cs, EndSessions(cs) PROVE NoneLeaked'
      BY <2>3 DEF EndSessions
    <2> QED
      BY <2>1, <2>2, <2>3, SessionsEnd DEF Call, Collide, vars
  <1>3. Inv /\ tangled = {} /\ NoneLeaked => NothingLeftOpen
    <2> SUFFICES ASSUME Inv, tangled = {}, NoneLeaked, At("idle") = Threads,
                        NEW c \in (1 .. created) \ dead
                 PROVE  stmts[c] = 0
      BY DEF NothingLeftOpen
    <2>1. c \in (1 .. MaxConnId) \ dead
      BY ThreadCount DEF Inv, PoolInv, TypeOK
    <2>2. Owners(c) = {}
      BY DEF Owners, At, Inv, StmtInv
    <2>3. Accounted(c) = 0
      BY <2>1, <2>2, FS_EmptySet DEF Accounted
    <2> QED
      BY <2>1, <2>3 DEF Inv, StmtInv, StmtCount
  <1>4. Spec => []Inv /\ [](tangled = {})
    BY InvHolds, AloneUntangled, PTL
  <1> HIDE DEF NoneLeaked
  <1> QED
    BY <1>1, <1>2, <1>3, <1>4, PTL DEF Spec

\* And then a query fails only because the server has no room for its statement:
\* neither a dead session nor another thread's close can be behind it.
LEMMA AloneErrorsNext ==
  ASSUME \A t, u \in Threads : t = u, ~Faults, Inv, [Next]_vars,
         tangled = {}, dead = {}, ErrorsAreServerErrors
  PROVE  dead' = {} /\ ErrorsAreServerErrors'
  <1>1. ASSUME NEW t \in Threads, Step(t) \/ \E o \in Ops : Call(t, o) PROVE dead' = {}
    BY <1>1 DEF Step, GetConnection, TakeConn, AddConnectionFails, Prepare, PrepareThrows,
       Execute, ExecuteThrows, EndQuery, CloseStmt, Call
  <1>2. ASSUME NEW t \in Threads, PrepareThrows(t) PROVE ErrorsAreServerErrors'
    <2>1. ~HasRoom /\ stmts' = stmts
      BY <1>2 DEF PrepareThrows, MayFail
    <2>2. HasRoom' = HasRoom
      BY <2>1 DEF HasRoom, OpenStmts
    <2> QED
      BY <2>1, <2>2 DEF ErrorsAreServerErrors
  <1>3. ASSUME NEW t \in Threads, Step(t), ~PrepareThrows(t) PROVE At("catch")' = {}
    <2>1. pc'[t] # "catch"
      BY <1>3 DEF Step, GetConnection, TakeConn, AddConnectionFails, Prepare, Execute,
         ExecuteThrows, MayFail, EndQuery, AfterReturn, CloseStmt, Return, Inv, PoolInv, TypeOK
    <2> QED
      BY <2>1 DEF At
  <1>4. ASSUME NEW t \in Threads, NEW o \in Ops, Call(t, o) PROVE At("catch")' = {}
    BY <1>4 DEF Call, At, Inv, PoolInv, TypeOK
  <1>5. CASE UNCHANGED vars
    <2>1. stmts' = stmts /\ pc' = pc /\ dead' = dead
      BY <1>5 DEF vars
    <2>2. HasRoom' = HasRoom
      BY <2>1 DEF HasRoom, OpenStmts
    <2> QED
      BY <2>1, <2>2 DEF ErrorsAreServerErrors, At
  <1>6. ~DbRestart /\ ~(\E t, u \in Threads : Collide(t, u))
    BY DEF DbRestart, Collide
  <1> QED
    BY <1>1, <1>2, <1>3, <1>4, <1>5, <1>6 DEF Next, ErrorsAreServerErrors

\* With one io thread, what the register handler says of a failed query is true
\* (LogicSystem.cpp:116).
THEOREM AloneErrors ==
  ASSUME \A t, u \in Threads : t = u, ~Faults
  PROVE  Spec => []ErrorsAreServerErrors
  <1>1. Init => dead = {} /\ ErrorsAreServerErrors
    BY DEF Init, ErrorsAreServerErrors, At
  <1>2. Inv /\ tangled = {} /\ (dead = {} /\ ErrorsAreServerErrors) /\ [Next]_vars
          => (dead = {} /\ ErrorsAreServerErrors)'
    BY AloneErrorsNext
  <1>3. Spec => []Inv /\ [](tangled = {})
    BY InvHolds, AloneUntangled, PTL
  <1> QED
    BY <1>1, <1>2, <1>3, PTL DEF Spec

-----------------------------------------------------------------------------
\* No connection is lost: on every way out of a query, with or without an error
\* of the database, the deleter brings it back.
ConnsKept == Range(pool) \cup {conn[t] : t \in Holders} = 1 .. created

THEOREM ConnsNotLost == Spec => []ConnsKept
  <1>1. Inv => ConnsKept
    <2> SUFFICES ASSUME Inv PROVE ConnsKept
      OBVIOUS
    <2>1. \A t \in Holders : conn[t] \in 1 .. created
      BY DEF Inv, PoolInv, TypeOK, WhereInv, NoConn, Holders, At
    <2>2. Range(pool) \subseteq 1 .. created
      BY DEF Inv, PoolInv, WhereInv, Range
    <2>3. \A c \in 1 .. created : c \in Range(pool) \/ \E t \in Holders : conn[t] = c
      BY DEF Inv, PoolInv, WhereInv, Range
    <2> QED
      BY <2>1, <2>2, <2>3 DEF ConnsKept
  <1> QED
    BY <1>1, InvHolds, PTL

-----------------------------------------------------------------------------
\* The steps a query has before it.
StepsLeft(l) ==
  CASE l = "get" -> 4 [] l = "prepare" -> 3 [] l = "execute" -> 2
    [] l \in {"close", "catch"} -> 1 [] OTHER -> 0

\* A query goes through its steps once each and is over: it is not tried again
\* when the database has restarted, and until it is over its thread keeps the
\* one connection and the one statement it has, whatever others do to them
\* (SqlDao.cpp, SqlPool.cpp:38).
QueriesForward ==
  \A t \in Threads : pc[t] # "idle" =>
    \/ pc'[t] = pc[t] /\ conn'[t] = conn[t] /\ op'[t] = op[t] /\ prepared'[t] = prepared[t]
    \/ /\ StepsLeft(pc'[t]) < StepsLeft(pc[t])
       /\ \/ pc[t] = "get"
          \/ conn'[t] = conn[t]
          \/ pc'[t] = "idle" /\ conn'[t] = NoConn

THEOREM QueriesGoForward == Spec => [][QueriesForward]_vars
  <1>1. TypeOK /\ [Next]_vars => [QueriesForward]_vars
    <2> SUFFICES ASSUME TypeOK, [Next]_vars, NEW t \in Threads, pc[t] # "idle"
                 PROVE  \/ /\ pc'[t] = pc[t] /\ conn'[t] = conn[t] /\ op'[t] = op[t]
                           /\ prepared'[t] = prepared[t]
                        \/ /\ StepsLeft(pc'[t]) < StepsLeft(pc[t])
                           /\ \/ pc[t] = "get"
                              \/ conn'[t] = conn[t]
                              \/ pc'[t] = "idle" /\ conn'[t] = NoConn
      BY DEF QueriesForward
    <2>1. /\ DOMAIN pc = Threads /\ DOMAIN conn = Threads /\ DOMAIN op = Threads
          /\ DOMAIN prepared = Threads
          /\ pc[t] \in {"get", "prepare", "execute", "close", "catch"}
      BY DEF TypeOK
    <2>2. ASSUME NEW u \in Threads, u # t, Step(u) \/ \E o \in Ops : Call(u, o)
          PROVE  /\ pc'[t] = pc[t] /\ conn'[t] = conn[t] /\ op'[t] = op[t]
                 /\ prepared'[t] = prepared[t]
      BY <2>1, <2>2 DEF Step, GetConnection, TakeConn, AddConnectionFails, Prepare, PrepareThrows,
         Execute, ExecuteThrows, EndQuery, AfterReturn, CloseStmt, Return, Call
    <2>3. CASE GetConnection(t) \/ AddConnectionFails(t)
      BY <2>1, <2>3 DEF GetConnection, TakeConn, AddConnectionFails, Return, StepsLeft
    <2>4. CASE Prepare(t)
      BY <2>1, <2>4 DEF Prepare, StepsLeft
    <2>5. ASSUME NEW l \in {"close", "catch"}, EndQuery(t, l), pc[t] \in {"prepare", "execute"}
          PROVE  /\ StepsLeft(pc'[t]) < StepsLeft(pc[t])
                 /\ conn'[t] = conn[t] \/ (pc'[t] = "idle" /\ conn'[t] = NoConn)
      BY <2>1, <2>5 DEF EndQuery, AfterReturn, Return, StepsLeft
    <2>6. CASE PrepareThrows(t) \/ Execute(t) \/ ExecuteThrows(t)
      BY <2>5, <2>6 DEF PrepareThrows, Execute, ExecuteThrows
    <2>7. CASE CloseStmt(t)
      BY <2>1, <2>7 DEF CloseStmt, Return, StepsLeft
    <2>8. ~\E o \in Ops : Call(t, o)
      BY DEF Call
    <2>9. CASE \/ UNCHANGED vars
               \/ \E u, v \in Threads : Collide(u, v)
               \/ \E cs : EndSessions(cs)
      BY <2>9 DEF Collide, EndSessions, vars
    <2> QED BY <2>2, <2>3, <2>4, <2>6, <2>7, <2>8, <2>9 DEF Next, DropSession, DbRestart, Step
  <1> QED BY <1>1, TypeCorrect, PTL DEF Spec
=============================================================================
