-------------------------- MODULE HttpServer_proofs --------------------------
(***************************************************************************)
(* Proofs about HttpServer, for any number of connections and contexts.    *)
(* Type correctness, the acceptor and the timer follow from one inductive  *)
(* invariant, which adds what the pending operations of a connection may   *)
(* be (a dead one has none, and one being accepted has nothing else), and  *)
(* that nothing is accepted after the signal.                              *)
(***************************************************************************)
EXTENDS HttpServer, TLAPS

Connection == [alive : BOOLEAN, ctx : Contexts, running : BOOLEAN,
               pending : SUBSET Operations, cancelled : BOOLEAN,
               closed : BOOLEAN, sent : BOOLEAN]

\* What a connection may be waiting for.
Shape(r) ==
  /\ r.pending # {} => r.alive
  /\ r.running => r.alive /\ r.pending = {}
  /\ "accept" \in r.pending => r.pending = {"accept"} /\ ~r.closed
  /\ "read" \in r.pending => r.pending = {"read"}
  /\ "write" \in r.pending => "timer" \in r.pending \/ r.closed

Inv ==
  /\ TypeOK
  /\ AcceptorArmed
  /\ \A c \in Conns : Shape(con[c])
  /\ phase # "serving" => \A c \in Conns : ~Pending(c, "accept")

-----------------------------------------------------------------------------
\* Round robin stays inside contexts_: its 4 is the index of the last of the 5.
LEMMA AdvanceStays ==
  ASSUME NEW x \in Contexts
  PROVE  Advance(x) \in Contexts
  BY HttpAssumption DEF Advance, Contexts

LEMMA GoneType == Gone \in Connection /\ Shape(Gone)
  BY HttpAssumption DEF Gone, Connection, Contexts, Operations, Shape

LEMMA FreshType ==
  ASSUME NEW x \in Contexts
  PROVE  /\ Fresh(x) \in Connection
         /\ Shape(Fresh(x))
         /\ Fresh(x).pending = {"accept"}
  BY HttpAssumption DEF Fresh, Gone, Connection, Operations, Shape

\* A callback that ends leaves a connection of the right shape, if it was one.
LEMMA EndedType ==
  ASSUME NEW r \in Connection, NEW o \in Operations, Shape(r),
         o = "timer" => r.closed
  PROVE  Ended(r, o) \in Connection /\ Shape(Ended(r, o))
<1>1. CASE r.pending \subseteq {o}
  BY <1>1, GoneType DEF Ended
<1>2. CASE ~(r.pending \subseteq {o})
  <2> DEFINE q == [r EXCEPT !.pending = @ \ {o}]
  <2>1. Ended(r, o) = q
    BY <1>2 DEF Ended
  <2>2. q \in Connection
    BY DEF Connection
  <2>3. Shape(q)
    BY <1>2 DEF Connection, Shape, Operations
  <2> QED BY <2>1, <2>2, <2>3
<1> QED BY <1>1, <1>2

\* Only accept can be pending for the connection being accepted.
LEMMA EndedNotAccepting ==
  ASSUME NEW r \in Connection, NEW o \in Operations
  PROVE  "accept" \in Ended(r, o).pending => "accept" \in r.pending /\ o # "accept"
  BY DEF Ended, Gone, Connection

\* A step of one connection that was not being accepted, and is not after it.
LEMMA OneChanges ==
  ASSUME Inv, NEW c \in Conns, NEW r \in Connection, Shape(r),
         Becomes(c, r), Pending(c, "accept") <=> "accept" \in r.pending,
         logic' \in {"unbuilt", "built"}
  PROVE  Inv'
<1> USE DEF Inv, TypeOK
<1>1. con \in [Conns -> Connection]
  BY DEF Connection
<1>2. con' = [con EXCEPT ![c] = r] /\ next' = next /\ phase' = phase
  BY DEF Becomes
<1>3. con' \in [Conns -> Connection]
  BY <1>1, <1>2
<1>4. TypeOK'
  BY <1>2, <1>3 DEF Connection, Contexts
<1>5. \A d \in Conns : Pending(d, "accept")' <=> Pending(d, "accept")
  BY <1>1, <1>2 DEF Pending
<1>6. AcceptorArmed'
  BY <1>2, <1>5 DEF AcceptorArmed
<1>7. \A d \in Conns : Shape(con'[d])
  BY <1>1, <1>2
<1> QED BY <1>2, <1>4, <1>5, <1>6, <1>7

\* The acceptor goes from c to a new connection.
LEMMA AcceptorMoves ==
  ASSUME Inv, NEW c \in Conns, Pending(c, "accept"),
         NEW r \in Connection, Shape(r), "accept" \notin r.pending,
         StartNext(c, r)
  PROVE  Inv'
<1> USE DEF Inv, TypeOK
<1>1. con \in [Conns -> Connection]
  BY DEF Connection
<1>2. PICK d \in Free : /\ con' = [con EXCEPT ![c] = r, ![d] = Fresh(next)]
                        /\ next' = Advance(next)
                        /\ UNCHANGED <<logic, phase>>
  BY DEF StartNext
<1>3. d \in Conns /\ d # c
  BY DEF Free, Pending, Shape
<1>4. Fresh(next) \in Connection /\ Shape(Fresh(next)) /\ "accept" \in Fresh(next).pending
  BY FreshType
<1>5. con' \in [Conns -> Connection]
  BY <1>1, <1>2, <1>3, <1>4
<1>6. TypeOK'
  BY <1>2, <1>5, AdvanceStays DEF Connection, Contexts
<1>7. phase = "serving" /\ \A e \in Conns : Pending(e, "accept") => e = c
  BY DEF AcceptorArmed
<1>8. \A e \in Conns : Pending(e, "accept")' <=> e = d
  BY <1>1, <1>2, <1>3, <1>4, <1>7 DEF Pending
<1>9. AcceptorArmed'
  BY <1>3, <1>8 DEF AcceptorArmed
<1>10. \A e \in Conns : Shape(con'[e])
  BY <1>1, <1>2, <1>3, <1>4
<1> QED BY <1>2, <1>6, <1>7, <1>9, <1>10

-----------------------------------------------------------------------------
LEMMA InitInv == Init => Inv
<1> SUFFICES ASSUME Init PROVE Inv
  OBVIOUS
<1>1. PICK c \in Conns : con = [d \in Conns |-> IF d = c THEN Fresh(0) ELSE Gone]
  BY DEF Init
<1>2. 0 \in Contexts /\ 1 \in Contexts
  BY HttpAssumption DEF Contexts
<1>3. Fresh(0) \in Connection /\ Shape(Fresh(0)) /\ Fresh(0).pending = {"accept"}
  BY <1>2, FreshType
<1>4. con \in [Conns -> Connection]
  BY <1>1, <1>3, GoneType
<1>5. TypeOK
  BY <1>2, <1>4 DEF TypeOK, Init, Connection
<1>6. \A d \in Conns : Pending(d, "accept") <=> d = c
  BY <1>1, <1>3 DEF Pending, Gone
<1>7. \A d \in Conns : Shape(con[d])
  BY <1>1, <1>3, GoneType
<1> QED BY <1>5, <1>6, <1>7 DEF Inv, AcceptorArmed, Init

LEMMA NextInv == Inv /\ [Next]_vars => Inv'
<1> SUFFICES ASSUME Inv, [Next]_vars PROVE Inv'
  OBVIOUS
<1>1. con \in [Conns -> Connection] /\ logic \in {"unbuilt", "built"}
  BY DEF Inv, TypeOK, Connection
<1>2. \A c \in Conns : con[c] \in Connection /\ Shape(con[c])
  BY <1>1 DEF Inv
<1>3. ASSUME NEW c \in Conns, Accept(c) PROVE Inv'
  <2> DEFINE r == [con[c] EXCEPT !.pending = {"read"}]
  <2>1. Pending(c, "accept") /\ StartNext(c, r)
    BY <1>3 DEF Accept
  <2>2. r \in Connection
    BY <1>2 DEF Connection, Operations
  <2>3. Shape(r) /\ "accept" \notin r.pending
    BY <1>2, <2>1 DEF Connection, Shape, Pending
  <2> QED BY <2>1, <2>2, <2>3, AcceptorMoves
<1>4. ASSUME NEW c \in Conns, AcceptFails(c) PROVE Inv'
  <2>1. "accept" \notin Gone.pending
    BY DEF Gone
  <2> QED BY <1>4, <2>1, GoneType, AcceptorMoves DEF AcceptFails
<1>5. ASSUME NEW c \in Conns, ReadCompletes(c) PROVE Inv'
  <2> DEFINE r == [con[c] EXCEPT !.pending = {}, !.running = TRUE]
  <2>1. Pending(c, "read") /\ Becomes(c, r) /\ logic' = logic
    BY <1>5 DEF ReadCompletes, Callback
  <2>2. r \in Connection
    BY <1>2 DEF Connection
  <2>3. Shape(r) /\ ~Pending(c, "accept") /\ "accept" \notin r.pending
    BY <1>2, <2>1 DEF Connection, Shape, Pending
  <2> QED BY <1>1, <2>1, <2>2, <2>3, OneChanges
<1>6. ASSUME NEW c \in Conns, ReadFails(c) PROVE Inv'
  <2>1. Pending(c, "read") /\ Becomes(c, Ended(con[c], "read")) /\ logic' = logic
    BY <1>6 DEF ReadFails, Callback
  <2>2. Ended(con[c], "read") \in Connection /\ Shape(Ended(con[c], "read"))
    BY <1>2, EndedType DEF Operations
  <2>3. ~Pending(c, "accept")
    BY <1>2, <2>1 DEF Shape, Pending
  <2>4. "accept" \notin Ended(con[c], "read").pending
    BY <1>2, <2>3, EndedNotAccepting DEF Operations, Pending
  <2> QED BY <1>1, <2>1, <2>2, <2>3, <2>4, OneChanges
<1>7. ASSUME NEW c \in Conns, BuildLogic(c) PROVE Inv'
  BY <1>7 DEF BuildLogic, Inv, TypeOK, AcceptorArmed, Pending, Contexts
<1>8. ASSUME con' = [c \in Conns |-> Gone], UNCHANGED <<next, logic>>,
              phase' \in {"stopped", "terminated"}
      PROVE  Inv'
  <2>1. \A c \in Conns : con'[c] \in Connection /\ Shape(con'[c]) /\ ~Pending(c, "accept")'
    BY <1>8, GoneType DEF Pending, Gone
  <2>2. con' \in [Conns -> Connection]
    BY <1>8, GoneType
  <2>3. TypeOK'
    BY <1>8, <2>2 DEF Inv, TypeOK, Connection, Contexts
  <2> QED BY <1>8, <2>1, <2>3 DEF Inv, AcceptorArmed
<1>9. ASSUME NEW c \in Conns, HandlerReturns(c) PROVE Inv'
  <2> DEFINE r == [con[c] EXCEPT !.running = FALSE, !.pending = {"write", "timer"}]
  <2>1. con[c].running /\ Becomes(c, r) /\ logic' = logic
    BY <1>9 DEF HandlerReturns
  <2>2. r \in Connection
    BY <1>2 DEF Connection, Operations
  <2>3. Shape(r) /\ ~Pending(c, "accept") /\ "accept" \notin r.pending
    BY <1>2, <2>1 DEF Connection, Shape, Pending
  <2> QED BY <1>1, <2>1, <2>2, <2>3, OneChanges
<1>10. ASSUME NEW c \in Conns, OtherMethod(c) PROVE Inv'
  <2> DEFINE r == [con[c] EXCEPT !.running = FALSE, !.pending = {"timer"}]
  <2>1. con[c].running /\ Becomes(c, r) /\ logic' = logic
    BY <1>10 DEF OtherMethod
  <2>2. r \in Connection
    BY <1>2 DEF Connection, Operations
  <2>3. Shape(r) /\ ~Pending(c, "accept") /\ "accept" \notin r.pending
    BY <1>2, <2>1 DEF Connection, Shape, Pending
  <2> QED BY <1>1, <2>1, <2>2, <2>3, OneChanges
<1>11. ASSUME NEW c \in Conns, HandlerThrows(c) PROVE Inv'
  <2>1. con[c].running /\ Becomes(c, Gone) /\ logic' = logic
    BY <1>11 DEF HandlerThrows
  <2>2. ~Pending(c, "accept") /\ "accept" \notin Gone.pending
    BY <1>2, <2>1 DEF Shape, Pending, Gone
  <2> QED BY <1>1, <2>1, <2>2, GoneType, OneChanges
<1>12. ASSUME NEW c \in Conns, WriteCompletes(c) \/ WriteFails(c) PROVE Inv'
  <2>1. PICK r \in Connection :
          /\ r.pending = con[c].pending /\ r.closed = con[c].closed
          /\ r.alive = con[c].alive /\ r.running = con[c].running
          /\ Becomes(c, Ended(r, "write")) /\ logic' = logic /\ Pending(c, "write")
    <3>1. CASE WriteCompletes(c)
      <4> DEFINE w == [con[c] EXCEPT !.sent = TRUE, !.cancelled = TRUE]
      <4>1. w \in Connection /\ w.pending = con[c].pending /\ w.closed = con[c].closed
            /\ w.alive = con[c].alive /\ w.running = con[c].running
        BY <1>2 DEF Connection
      <4> QED BY <4>1, <3>1 DEF WriteCompletes, Callback
    <3>2. CASE WriteFails(c)
      BY <1>2, <3>2 DEF WriteFails, Callback
    <3> QED BY <1>12, <3>1, <3>2
  <2>2. Shape(r)
    BY <1>2, <2>1 DEF Shape
  <2>3. Ended(r, "write") \in Connection /\ Shape(Ended(r, "write"))
    BY <2>2, EndedType DEF Operations
  <2>4. ~Pending(c, "accept")
    BY <1>2, <2>1 DEF Shape, Pending
  <2>5. "accept" \notin Ended(r, "write").pending
    BY <2>1, <2>4, EndedNotAccepting DEF Operations, Pending
  <2> QED BY <1>1, <2>1, <2>3, <2>4, <2>5, OneChanges
<1>13. ASSUME NEW c \in Conns, DeadlineFires(c) PROVE Inv'
  <2> DEFINE r == [con[c] EXCEPT !.closed = TRUE]
  <2>1. Pending(c, "timer") /\ Becomes(c, Ended(r, "timer")) /\ logic' = logic
    BY <1>13 DEF DeadlineFires, Callback
  <2>2. r \in Connection /\ r.closed
    BY <1>2 DEF Connection
  <2>3. ~Pending(c, "accept")
    BY <1>2, <2>1 DEF Shape, Pending
  <2>4. /\ r.pending = con[c].pending /\ r.alive = con[c].alive
        /\ r.running = con[c].running
    BY <1>2 DEF Connection
  <2> HIDE DEF r
  <2>5. Shape(r)
    BY <1>2, <2>2, <2>3, <2>4 DEF Shape, Pending
  <2>6. Ended(r, "timer") \in Connection /\ Shape(Ended(r, "timer"))
    BY <2>2, <2>5, EndedType DEF Operations
  <2>7. "accept" \notin Ended(r, "timer").pending
    BY <2>2, <2>3, <2>4, EndedNotAccepting DEF Operations, Pending
  <2> QED BY <1>1, <2>1, <2>3, <2>6, <2>7, OneChanges
<1>14. CASE Signal
  <2>1. con' = [c \in Conns |-> IF Pending(c, "accept") THEN Gone ELSE con[c]]
        /\ phase' = "leaving" /\ next' = 0 /\ logic' = logic
    BY <1>14 DEF Signal
  <2>2. con' \in [Conns -> Connection]
    BY <1>1, <2>1, GoneType
  <2>3. \A c \in Conns : Shape(con'[c]) /\ ~Pending(c, "accept")'
    BY <1>2, <2>1, GoneType DEF Pending, Gone
  <2>4. 0 \in Contexts
    BY HttpAssumption DEF Contexts
  <2>5. TypeOK'
    BY <1>1, <2>1, <2>2, <2>4 DEF TypeOK, Connection, Contexts
  <2> QED BY <2>1, <2>3, <2>5 DEF Inv, AcceptorArmed
<1>15. CASE StopContexts
  BY <1>15 DEF StopContexts, Inv, TypeOK, AcceptorArmed, Pending, Contexts
<1>16. CASE UNCHANGED vars
  BY <1>16 DEF vars, Inv, TypeOK, AcceptorArmed, Pending, Contexts
<1>17. CASE JoinThreads \/ \E c \in Conns : Terminate(c)
  BY <1>8, <1>17 DEF JoinThreads, Terminate
<1> QED
  BY <1>3, <1>4, <1>5, <1>6, <1>7, <1>9, <1>10, <1>11, <1>12, <1>13, <1>14, <1>15, <1>16, <1>17
  DEF Next, Operate, Handle

\* The inductive invariant: the acceptor, the timers and the shape together.
THEOREM InvHolds == Spec => []Inv
  BY InitInv, NextInv, PTL DEF Spec

\* Type correctness; with it, getIOcontext never leaves contexts_.
THEOREM TypeCorrect == Spec => []TypeOK
<1>1. Inv => TypeOK
  BY DEF Inv
<1> QED BY <1>1, InvHolds, PTL

\* The gate server goes on accepting until it is stopped, with any number of
\* connections.
THEOREM AlwaysAccepting == Spec => []AcceptorArmed
<1>1. Inv => AcceptorArmed
  BY DEF Inv
<1> QED BY <1>1, InvHolds, PTL

\* No response is ever written without a timer that will close the socket.
THEOREM WritesAreTimed == Spec => []WritesTimed
<1>1. Inv => WritesTimed
  BY DEF Inv, Shape, WritesTimed, Pending
<1> QED BY <1>1, InvHolds, PTL

-----------------------------------------------------------------------------
\* What keeps a connection alive, and what will end it.

Life(r) ==
  /\ r.alive => r.running \/ r.pending # {}
  /\ r.sent => r.pending = {"timer"} /\ r.cancelled
  /\ r.closed => r.pending = {"write"}

\* The HttpConnection lives in its callbacks (shared_from_this): each has one to
\* come, or a handler at work.  One that sent its response has but the wait it
\* has cancelled, one whose time was up but the write that will find its socket
\* closed, so that neither depends on its client any more.
EndInSight == \A c \in Conns : Life(con[c])

LEMMA GoneLife == Life(Gone)
  BY DEF Life, Gone

LEMMA BecomesLife ==
  ASSUME Inv, EndInSight, NEW c \in Conns, NEW r, Life(r), Becomes(c, r)
  PROVE  EndInSight'
<1>1. con' = [con EXCEPT ![c] = r] /\ con \in [Conns -> Connection]
  BY DEF Becomes, Inv, TypeOK, Connection
<1>2. \A d \in Conns : con'[d] = IF d = c THEN r ELSE con[d]
  BY <1>1
<1> QED BY <1>2 DEF EndInSight

LEMMA StartLife ==
  ASSUME Inv, EndInSight, NEW c \in Conns, NEW r, Life(r), StartNext(c, r)
  PROVE  EndInSight'
<1>1. PICK d \in Free : con' = [con EXCEPT ![c] = r, ![d] = Fresh(next)]
  BY DEF StartNext
<1>2. con \in [Conns -> Connection] /\ d \in Conns
  BY <1>1 DEF Inv, TypeOK, Connection, Free
<1>3. Life(Fresh(next))
  BY DEF Life, Fresh, Gone
<1>4. \A e \in Conns : con'[e] \in {r, Fresh(next), con[e]}
  BY <1>1, <1>2
<1> QED BY <1>3, <1>4 DEF EndInSight

\* A connection with one operation under way, or none, goes with its callback.
LEMMA LastEnds ==
  ASSUME NEW r \in Connection, NEW o, r.pending \subseteq {o}
  PROVE  Life(Ended(r, o))
BY GoneLife DEF Ended

LEMMA LifeNext == Inv /\ EndInSight /\ [Next]_vars => EndInSight'
<1> SUFFICES ASSUME Inv, EndInSight, [Next]_vars PROVE EndInSight'
  OBVIOUS
<1>1. \A c \in Conns : con[c] \in Connection /\ Shape(con[c]) /\ Life(con[c])
  BY DEF Inv, TypeOK, Connection, EndInSight
<1>2. ASSUME NEW c \in Conns, Accept(c) PROVE EndInSight'
  <2> DEFINE r == [con[c] EXCEPT !.pending = {"read"}]
  <2>1. Pending(c, "accept") /\ StartNext(c, r)
    BY <1>2 DEF Accept
  <2>2. Life(r)
    BY <1>1, <2>1 DEF Connection, Shape, Life, Pending
  <2> QED BY <2>1, <2>2, StartLife
<1>3. ASSUME NEW c \in Conns, AcceptFails(c) PROVE EndInSight'
  BY <1>3, GoneLife, StartLife DEF AcceptFails
<1>4. ASSUME NEW c \in Conns, ReadCompletes(c) PROVE EndInSight'
  <2> DEFINE r == [con[c] EXCEPT !.pending = {}, !.running = TRUE]
  <2>1. Pending(c, "read") /\ Becomes(c, r)
    BY <1>4 DEF ReadCompletes, Callback
  <2>2. Life(r)
    BY <1>1, <2>1 DEF Connection, Shape, Life, Pending
  <2> QED BY <2>1, <2>2, BecomesLife
<1>5. ASSUME NEW c \in Conns, ReadFails(c) PROVE EndInSight'
  <2>1. Pending(c, "read") /\ Becomes(c, Ended(con[c], "read"))
    BY <1>5 DEF ReadFails, Callback
  <2>2. con[c].pending \subseteq {"read"}
    BY <1>1, <2>1 DEF Shape, Pending
  <2> QED BY <1>1, <2>1, <2>2, LastEnds, BecomesLife
<1>6. ASSUME NEW c \in Conns, HandlerReturns(c) \/ OtherMethod(c) PROVE EndInSight'
  <2>1. PICK ops \in {{"write", "timer"}, {"timer"}} :
          con[c].running /\ Becomes(c, [con[c] EXCEPT !.running = FALSE, !.pending = ops])
    BY <1>6 DEF HandlerReturns, OtherMethod
  <2>2. ~con[c].sent /\ ~con[c].closed
    BY <1>1, <2>1 DEF Shape, Life
  <2>3. Life([con[c] EXCEPT !.running = FALSE, !.pending = ops])
    BY <1>1, <2>1, <2>2 DEF Connection, Life
  <2> QED BY <2>1, <2>3, BecomesLife
<1>7. ASSUME NEW c \in Conns, HandlerThrows(c) PROVE EndInSight'
  BY <1>7, GoneLife, BecomesLife DEF HandlerThrows
<1>8. ASSUME NEW c \in Conns, Pending(c, "write")
      PROVE  con[c].pending \subseteq {"write", "timer"} /\ ~con[c].sent
  BY <1>1, <1>8 DEF Connection, Operations, Shape, Life, Pending
<1>9. ASSUME NEW c \in Conns, WriteCompletes(c) PROVE EndInSight'
  <2> DEFINE w == [con[c] EXCEPT !.sent = TRUE, !.cancelled = TRUE]
  <2>1. Pending(c, "write") /\ ~con[c].closed /\ Becomes(c, Ended(w, "write"))
    BY <1>9 DEF WriteCompletes, Callback
  <2>2. con[c].pending = {"write", "timer"}
    BY <1>1, <1>8, <2>1 DEF Shape, Pending
  <2>3. w \in Connection /\ w.pending = {"write", "timer"} /\ w.cancelled /\ ~w.closed
    BY <1>1, <2>1, <2>2 DEF Connection
  <2> HIDE DEF w
  <2>4. Ended(w, "write") = [w EXCEPT !.pending = @ \ {"write"}]
    BY <2>3 DEF Ended
  <2>5. Life(Ended(w, "write"))
    BY <2>3, <2>4 DEF Connection, Life
  <2> QED BY <2>1, <2>5, BecomesLife
<1>10. ASSUME NEW c \in Conns, WriteFails(c) PROVE EndInSight'
  <2>1. Pending(c, "write") /\ Becomes(c, Ended(con[c], "write"))
    BY <1>10 DEF WriteFails, Callback
  <2>2. CASE con[c].pending \subseteq {"write"}
    BY <1>1, <2>1, <2>2, LastEnds, BecomesLife
  <2>3. CASE ~(con[c].pending \subseteq {"write"})
    <3>1. con[c].pending = {"write", "timer"} /\ ~con[c].sent /\ ~con[c].closed
      BY <1>1, <1>8, <2>1, <2>3 DEF Life, Pending
    <3>2. Life(Ended(con[c], "write"))
      BY <1>1, <3>1 DEF Ended, Connection, Life
    <3> QED BY <2>1, <3>2, BecomesLife
  <2> QED BY <2>2, <2>3
<1>11. ASSUME NEW c \in Conns, DeadlineFires(c) PROVE EndInSight'
  <2> DEFINE r == [con[c] EXCEPT !.closed = TRUE]
  <2>1. Pending(c, "timer") /\ Becomes(c, Ended(r, "timer"))
    BY <1>11 DEF DeadlineFires, Callback
  <2>2. r \in Connection /\ r.pending = con[c].pending /\ r.sent = con[c].sent
    BY <1>1 DEF Connection
  <2>3. con[c].pending \subseteq {"write", "timer"}
    BY <1>1, <2>1 DEF Connection, Operations, Shape, Pending
  <2> HIDE DEF r
  <2>4. CASE "write" \notin con[c].pending
    BY <2>1, <2>2, <2>3, <2>4, LastEnds, BecomesLife
  <2>5. CASE "write" \in con[c].pending
    <3>1. con[c].pending = {"write", "timer"} /\ ~con[c].sent
      BY <1>8, <2>1, <2>3, <2>5 DEF Pending
    <3>2. Life(Ended(r, "timer"))
      BY <2>2, <3>1 DEF Ended, Connection, Life
    <3> QED BY <2>1, <3>2, BecomesLife
  <2> QED BY <2>4, <2>5
<1>12. CASE JoinThreads \/ Signal \/ \E c \in Conns : Terminate(c)
  <2>1. \A c \in Conns : con'[c] \in {con[c], Gone}
    BY <1>12 DEF JoinThreads, Signal, Terminate
  <2> QED BY <1>1, <2>1, GoneLife DEF EndInSight
<1>13. CASE UNCHANGED con
  BY <1>13 DEF EndInSight
<1> QED
  BY <1>2, <1>3, <1>4, <1>5, <1>6, <1>7, <1>9, <1>10, <1>11, <1>12, <1>13
  DEF Next, Operate, Handle, BuildLogic, StopContexts, vars

\* No connection outlives what is to end it, whatever fails; AnsweredCloses rests
\* on this: all that is left to an answered connection is a callback that comes.
THEOREM EndsInSight == Spec => []EndInSight
<1>1. Init => EndInSight
  <2> SUFFICES ASSUME Init PROVE EndInSight
    OBVIOUS
  <2>1. \A d \in Conns : con[d] \in {Fresh(0), Gone}
    BY DEF Init
  <2>2. Life(Fresh(0))
    BY DEF Life, Fresh, Gone
  <2> QED BY <2>1, <2>2, GoneLife DEF EndInSight
<1> QED BY <1>1, InvHolds, LifeNext, PTL DEF Spec

-----------------------------------------------------------------------------
\* A connection takes one way through its life.

\* How many steps a connection has left at most: it is accepted, reads one
\* request, handles it, and has two callbacks to come.
Stage(r) ==
  IF "accept" \in r.pending THEN 5
  ELSE IF "read" \in r.pending THEN 4
  ELSE IF r.running THEN 3
  ELSE IF {"write", "timer"} \subseteq r.pending THEN 2
  ELSE IF r.pending \in {{"write"}, {"timer"}} THEN 1 ELSE 0

\* What becomes of a connection in a step, of its own or of others.
GoesOn(r, q) ==
  \/ q = r
  \/ Stage(q) < Stage(r)
  \/ ~r.alive /\ q \in {Gone} \cup {Fresh(x) : x \in Contexts}

LivesForward == \A c \in Conns : GoesOn(con[c], con'[c])

LEMMA StageLeft ==
  ASSUME NEW r \in Connection, Shape(r), Life(r), r.alive
  PROVE  Stage(r) \in 1 .. 5
<1>1. r.pending \subseteq Operations
  BY DEF Connection
<1>2. CASE r.running
  BY <1>2 DEF Stage, Shape
<1>3. CASE "accept" \in r.pending \/ "read" \in r.pending
  BY <1>3 DEF Stage
<1>4. CASE r.pending \subseteq {"write", "timer"} /\ ~r.running
  <2>1. r.pending \in {{"write"}, {"timer"}, {"write", "timer"}}
    BY <1>4 DEF Life
  <2> QED BY <2>1, <1>4 DEF Stage
<1> QED BY <1>1, <1>2, <1>3, <1>4 DEF Operations

LEMMA GoneStage == Stage(Gone) = 0
  BY DEF Stage, Gone

LEMMA ToGone ==
  ASSUME NEW r \in Connection, Shape(r), Life(r)
  PROVE  GoesOn(r, Gone)
BY GoneStage, StageLeft DEF GoesOn, Connection

LEMMA OneForward ==
  ASSUME Inv, NEW c \in Conns, NEW r, GoesOn(con[c], r), con' = [con EXCEPT ![c] = r]
  PROVE  LivesForward
BY DEF LivesForward, GoesOn, Inv, TypeOK

LEMMA StartForward ==
  ASSUME Inv, NEW c \in Conns, NEW r, GoesOn(con[c], r), StartNext(c, r)
  PROVE  LivesForward
<1>1. PICK d \in Free : con' = [con EXCEPT ![c] = r, ![d] = Fresh(next)]
  BY DEF StartNext
<1>2. d \in Conns /\ ~con[d].alive /\ next \in Contexts /\ con \in [Conns -> Connection]
  BY <1>1 DEF Free, Inv, TypeOK, Connection
<1>3. \A e \in Conns : con'[e] = IF e = d THEN Fresh(next) ELSE IF e = c THEN r ELSE con[e]
  BY <1>1, <1>2
<1>4. GoesOn(con[d], Fresh(next))
  BY <1>2 DEF GoesOn
<1>5. \A e \in Conns : GoesOn(con[e], con[e])
  BY DEF GoesOn
<1> QED BY <1>3, <1>4, <1>5 DEF LivesForward

\* The callback of a write or of the timer leaves at most the other one.
LEMMA EndedForward ==
  ASSUME NEW r \in Connection, NEW o \in r.pending, ~r.running,
         r.pending \subseteq {"write", "timer"}
  PROVE  Stage(Ended(r, o)) < Stage(r)
<1>1. r.pending \in {{"write"}, {"timer"}, {"write", "timer"}} /\ o \in {"write", "timer"}
  OBVIOUS
<1>2. CASE r.pending = {"write", "timer"}
  <2>1. Stage(r) = 2
    BY <1>2 DEF Stage
  <2>2. Ended(r, o) = [r EXCEPT !.pending = @ \ {o}]
    BY <1>1, <1>2 DEF Ended
  <2>3. Ended(r, o).pending \in {{"write"}, {"timer"}} /\ ~Ended(r, o).running
    BY <1>1, <1>2, <2>2 DEF Connection
  <2>4. Stage(Ended(r, o)) = 1
    BY <2>3 DEF Stage
  <2> QED BY <2>1, <2>4
<1>3. CASE r.pending \in {{"write"}, {"timer"}}
  <2>1. Stage(r) = 1
    BY <1>3 DEF Stage
  <2>2. Ended(r, o) = Gone
    BY <1>3 DEF Ended
  <2> QED BY <2>1, <2>2, GoneStage
<1> QED BY <1>1, <1>2, <1>3

LEMMA ForwardNext == Inv /\ EndInSight /\ [Next]_vars => [LivesForward]_vars
<1> SUFFICES ASSUME Inv, EndInSight, [Next]_vars PROVE LivesForward
  OBVIOUS
<1>1. \A c \in Conns : con[c] \in Connection /\ Shape(con[c]) /\ Life(con[c])
  BY DEF Inv, TypeOK, Connection, EndInSight
<1>2. ASSUME NEW c \in Conns PROVE GoesOn(con[c], Gone)
  BY <1>1, ToGone
<1>3. ASSUME NEW c \in Conns, Accept(c) PROVE LivesForward
  <2> DEFINE r == [con[c] EXCEPT !.pending = {"read"}]
  <2>1. Pending(c, "accept") /\ StartNext(c, r)
    BY <1>3 DEF Accept
  <2>2. r.pending = {"read"}
    BY <1>1 DEF Connection
  <2>3. Stage(con[c]) = 5
    BY <2>1 DEF Stage, Pending
  <2> HIDE DEF r
  <2>4. Stage(r) = 4
    BY <2>2 DEF Stage
  <2>5. GoesOn(con[c], r)
    BY <2>3, <2>4 DEF GoesOn
  <2> QED BY <2>1, <2>5, StartForward
<1>4. ASSUME NEW c \in Conns, AcceptFails(c) PROVE LivesForward
  BY <1>2, <1>4, StartForward DEF AcceptFails
<1>5. ASSUME NEW c \in Conns, ReadCompletes(c) PROVE LivesForward
  <2> DEFINE r == [con[c] EXCEPT !.pending = {}, !.running = TRUE]
  <2>1. Pending(c, "read") /\ con' = [con EXCEPT ![c] = r]
    BY <1>5 DEF ReadCompletes, Callback, Becomes
  <2>2. con[c].pending = {"read"} /\ r.pending = {} /\ r.running
    BY <1>1, <2>1 DEF Shape, Pending, Connection
  <2> HIDE DEF r
  <2>3. Stage(con[c]) = 4 /\ Stage(r) = 3
    BY <2>2 DEF Stage
  <2>4. GoesOn(con[c], r)
    BY <2>3 DEF GoesOn
  <2> QED BY <2>1, <2>4, OneForward
<1>6. ASSUME NEW c \in Conns, HandlerReturns(c) \/ OtherMethod(c) PROVE LivesForward
  <2>1. PICK ops \in {{"write", "timer"}, {"timer"}} :
          con[c].running
            /\ con' = [con EXCEPT ![c] = [con[c] EXCEPT !.running = FALSE, !.pending = ops]]
    BY <1>6 DEF HandlerReturns, OtherMethod, Becomes
  <2> DEFINE r == [con[c] EXCEPT !.running = FALSE, !.pending = ops]
  <2>2. Stage(con[c]) = 3
    BY <1>1, <2>1 DEF Stage, Shape
  <2>3. ~r.running /\ r.pending = ops
    BY <1>1 DEF Connection
  <2>4. Stage(r) \in {1, 2}
    BY <2>3 DEF Stage
  <2>5. GoesOn(con[c], r)
    BY <2>2, <2>4 DEF GoesOn
  <2> QED BY <2>1, <2>5, OneForward
<1>7. ASSUME NEW c \in Conns, ReadFails(c) PROVE LivesForward
  <2>1. con[c].pending = {"read"} /\ con' = [con EXCEPT ![c] = Ended(con[c], "read")]
    BY <1>1, <1>7 DEF ReadFails, Callback, Becomes, Shape, Pending
  <2>2. Ended(con[c], "read") = Gone
    BY <2>1 DEF Ended
  <2> QED BY <1>2, <2>1, <2>2, OneForward
<1>8. ASSUME NEW c \in Conns, NEW o \in {"write", "timer"}, Pending(c, o),
             NEW r \in Connection, r.pending = con[c].pending, r.running = con[c].running,
             con' = [con EXCEPT ![c] = Ended(r, o)]
      PROVE  LivesForward
  <2>1. ~r.running /\ r.pending \subseteq {"write", "timer"} /\ o \in r.pending
    BY <1>1, <1>8 DEF Shape, Pending, Connection, Operations
  <2>2. Stage(Ended(r, o)) < Stage(r)
    BY <2>1, EndedForward
  <2>3. Stage(r) = Stage(con[c])
    BY <1>8 DEF Stage
  <2> QED BY <1>8, <2>2, <2>3, OneForward DEF GoesOn
<1>9. ASSUME NEW c \in Conns, WriteCompletes(c) \/ WriteFails(c) PROVE LivesForward
  <2> DEFINE w == [con[c] EXCEPT !.sent = TRUE, !.cancelled = TRUE]
  <2>1. /\ Pending(c, "write")
        /\ \/ con' = [con EXCEPT ![c] = Ended(w, "write")]
           \/ con' = [con EXCEPT ![c] = Ended(con[c], "write")]
    BY <1>9 DEF WriteCompletes, WriteFails, Callback, Becomes
  <2>2. w \in Connection /\ w.pending = con[c].pending /\ w.running = con[c].running
    BY <1>1 DEF Connection
  <2> HIDE DEF w
  <2> QED BY <1>1, <1>8, <2>1, <2>2
<1>10. ASSUME NEW c \in Conns, DeadlineFires(c) PROVE LivesForward
  <2> DEFINE r == [con[c] EXCEPT !.closed = TRUE]
  <2>1. Pending(c, "timer") /\ con' = [con EXCEPT ![c] = Ended(r, "timer")]
    BY <1>10 DEF DeadlineFires, Callback, Becomes
  <2>2. r \in Connection /\ r.pending = con[c].pending /\ r.running = con[c].running
    BY <1>1 DEF Connection
  <2> HIDE DEF r
  <2> QED BY <1>8, <2>1, <2>2
<1>11. CASE \A c \in Conns : con'[c] \in {con[c], Gone}
  BY <1>2, <1>11 DEF LivesForward, GoesOn
<1>12. JoinThreads \/ Signal \/ (\E c \in Conns : Terminate(c) \/ HandlerThrows(c))
          => \A c \in Conns : con'[c] \in {con[c], Gone}
  BY DEF JoinThreads, Signal, Terminate, HandlerThrows, Becomes, Inv, TypeOK
<1> QED
  BY <1>3, <1>4, <1>5, <1>6, <1>7, <1>9, <1>10, <1>11, <1>12
  DEF Next, Operate, Handle, BuildLogic, StopContexts, vars

\* Each connection is accepted, reads one request, has it handled once, answers
\* at most once and is over, in five steps or fewer (HttpConnection.cpp): no
\* callback takes it back to where it was, whatever fails and in whatever order
\* the write and the timer end.
THEOREM ConnectionsGoForward == Spec => [][LivesForward]_vars
BY InvHolds, EndsInSight, ForwardNext, PTL DEF Spec
=============================================================================
