------------------------- MODULE GateProcess_proofs -------------------------
(***************************************************************************)
(* Proofs about GateProcess, for any number of connections and contexts.   *)
(* It takes no step that HttpServer does not, so all that is proved there  *)
(* holds here.  What it adds follows from where the singletons are: until  *)
(* the threads are joined, ConfigMgr and then IOcontextPool are at the     *)
(* bottom of what main has to destroy.                                     *)
(***************************************************************************)
EXTENDS GateProcess, HttpServer_proofs, FiniteSetTheorems

\* What main made first is still there, below all that handlers made.
BottomKept ==
  /\ Len(made) >= 2 /\ made[1] = "ConfigMgr" /\ made[2] = "IOcontextPool"
  /\ \A i \in 3 .. Len(made) : made[i] \notin {"ConfigMgr", "IOcontextPool"}

\* No request is being read, and no handler runs.
NoRequest == \A c \in Conns : ~con[c].running /\ ~Pending(c, "read")

ProcInv ==
  /\ ProcTypeOK
  /\ phase \in {"serving", "leaving"} => BottomKept
  /\ phase # "stopped" => "ConfigMgr" \notin dead
  /\ phase = "stopped" => NoRequest
  /\ quiet => phase # "serving" /\ NoRequest
  /\ misused # None => phase = "terminated"
  /\ ConfigOutlives
  /\ QuietStop

-----------------------------------------------------------------------------
\* Every step is one of HttpServer, or leaves what it speaks of alone.
LEMMA StepImplements == [ProcNext]_procVars => [Next]_vars
<1> SUFFICES ASSUME [ProcNext]_procVars PROVE [Next]_vars
  OBVIOUS
<1>1. ASSUME NEW c \in Conns, ProcHandle(c) PROVE Handle(c) \/ UNCHANGED vars
  BY <1>1 DEF ProcHandle, Finish, Throw, Misuse, MakePart, MakeLogic, MakeVarifyClient,
     PingsFail, Handle
<1>2. CASE UNCHANGED procVars
  BY <1>2 DEF procVars
<1>3. CASE Stop \/ Exit
  BY <1>3 DEF ProcNext, Stop, Exit, Destroy, DestroyPool, PoolDestroyed, Next, procVars, Up, Signal,
     StopContexts, JoinThreads
<1> QED BY <1>1, <1>2, <1>3 DEF ProcNext, Next

\* GateProcess implements HttpServer: constructing and destroying singletons,
\* and what a handler may do with them, changes nothing of how connections are
\* accepted, answered and closed.
THEOREM ImplementsHttp == ProcSpec => Spec
<1>1. ProcInit => Init
  BY DEF ProcInit
<1> QED BY <1>1, StepImplements, PTL DEF ProcSpec, Spec

-----------------------------------------------------------------------------
\* After the signal nothing is accepted, so no further request is read.
LEMMA NoRequestKept ==
  ASSUME Inv, [Next]_vars, phase # "serving", NoRequest
  PROVE  NoRequest'
<1>1. con \in [Conns -> Connection] /\ \A c \in Conns : ~Pending(c, "accept")
  BY DEF Inv, TypeOK, Connection
<1>2. ASSUME NEW c \in Conns, NEW r \in Connection, NEW o, Becomes(c, Ended(r, o)),
             ~r.running, "read" \notin r.pending
      PROVE  NoRequest'
  <2>1. ~Ended(r, o).running /\ "read" \notin Ended(r, o).pending
    BY <1>2 DEF Ended, Gone, Connection
  <2> QED BY <1>1, <1>2, <2>1 DEF Becomes, NoRequest, Pending
<1>3. ASSUME NEW c \in Conns, Operate(c) PROVE NoRequest'
  <2>1. con[c] \in Connection /\ ~con[c].running /\ "read" \notin con[c].pending
    BY <1>1 DEF NoRequest, Pending
  <2>2. CASE WriteCompletes(c)
    <3> DEFINE w == [con[c] EXCEPT !.sent = TRUE, !.cancelled = TRUE]
    <3>1. w \in Connection /\ ~w.running /\ "read" \notin w.pending
      BY <2>1 DEF Connection
    <3> QED BY <1>2, <2>2, <3>1 DEF WriteCompletes
  <2>3. CASE WriteFails(c)
    BY <1>2, <2>1, <2>3 DEF WriteFails
  <2>4. CASE DeadlineFires(c)
    <3> DEFINE w == [con[c] EXCEPT !.closed = TRUE]
    <3>1. w \in Connection /\ ~w.running /\ "read" \notin w.pending
      BY <2>1 DEF Connection
    <3> QED BY <1>2, <2>4, <3>1 DEF DeadlineFires
  <2> QED
    BY <1>1, <1>3, <2>2, <2>3, <2>4 DEF Operate, Accept, AcceptFails, ReadCompletes, ReadFails,
       Callback, NoRequest
<1>4. CASE UNCHANGED con
  BY <1>4 DEF NoRequest, Pending
<1>5. CASE JoinThreads
  BY <1>5 DEF JoinThreads, Gone, NoRequest, Pending
<1>6. ASSUME NEW c \in Conns, Handle(c) PROVE FALSE
  BY <1>6 DEF Handle, BuildLogic, Terminate, HandlerReturns, OtherMethod, HandlerThrows, NoRequest
<1> QED
  BY <1>3, <1>4, <1>5, <1>6 DEF Next, Signal, StopContexts, vars

\* What a step of a connection does to the phase: nothing, but end it.
LEMMA PhaseKept ==
  ASSUME NEW c \in Conns, Operate(c) \/ Handle(c)
  PROVE  phase' = phase \/ (phase' = "terminated" /\ con[c].running)
BY DEF Operate, Accept, AcceptFails, StartNext, ReadCompletes, ReadFails, WriteCompletes,
   WriteFails, DeadlineFires, Becomes, Handle, BuildLogic, Terminate, HandlerReturns,
   OtherMethod, HandlerThrows

\* A singleton that a handler makes comes to lie on top.
LEMMA MadeOnTop ==
  ASSUME made \in Seq(Statics), NEW x \in Statics \ {"ConfigMgr", "IOcontextPool"},
         made' = Append(made, x)
  PROVE  made' \in Seq(Statics) /\ (BottomKept => BottomKept')
<1>1. /\ made' \in Seq(Statics) /\ Len(made) \in Nat /\ Len(made') = Len(made) + 1
      /\ \A i \in 1 .. Len(made) : made'[i] = made[i]
      /\ made'[Len(made) + 1] = x
  OBVIOUS
<1> QED BY <1>1 DEF BottomKept

\* Main takes the one on top.
LEMMA TakenFromTop ==
  ASSUME made \in Seq(Statics), made # <<>>, made' = Front(made)
  PROVE  /\ made' \in Seq(Statics) /\ Last(made) \in Statics
         /\ BottomKept /\ Last(made) # "IOcontextPool" =>
              BottomKept' /\ Last(made) # "ConfigMgr"
<1>1. /\ Len(made) \in Nat /\ Len(made) > 0 /\ made' = SubSeq(made, 1, Len(made) - 1)
      /\ Last(made) = made[Len(made)] /\ made[Len(made)] \in Statics
  BY DEF Front, Last
<1>2. /\ made' \in Seq(Statics) /\ Len(made') = Len(made) - 1
      /\ \A i \in 1 .. Len(made) - 1 : made'[i] = made[i]
  <2> DEFINE t == [i \in 1 .. Len(made) - 1 |-> made[i]]
  <2>1. made' = t
    BY <1>1
  <2>2. t \in Seq(Statics) /\ Len(t) = Len(made) - 1
    BY <1>1
  <2> QED BY <2>1, <2>2
<1>3. ASSUME BottomKept, Last(made) # "IOcontextPool" PROVE BottomKept' /\ Last(made) # "ConfigMgr"
  <2>1. Len(made) >= 3
    BY <1>1, <1>3 DEF BottomKept
  <2> QED BY <1>1, <1>2, <1>3, <2>1 DEF BottomKept
<1> QED BY <1>1, <1>2, <1>3

-----------------------------------------------------------------------------
LEMMA ProcInitInv == ProcInit => ProcInv
<1> SUFFICES ASSUME ProcInit PROVE ProcInv
  OBVIOUS
<1>1. TypeOK /\ phase = "serving"
  BY InitInv DEF ProcInit, Init, Inv
<1>2. made \in Seq(Statics) /\ BottomKept
  BY DEF ProcInit, MadeByMain, Statics, BottomKept
<1> QED
  BY <1>1, <1>2 DEF ProcInit, ProcInv, ProcTypeOK, ConfigOutlives, QuietStop, None

LEMMA ProcNextInv == Inv /\ Inv' /\ ProcInv /\ [ProcNext]_procVars => ProcInv'
<1> SUFFICES ASSUME Inv, Inv', ProcInv, [ProcNext]_procVars PROVE ProcInv'
  OBVIOUS
<1>1. TypeOK' /\ made \in Seq(Statics) /\ dead \subseteq Statics
  BY DEF Inv, ProcInv, ProcTypeOK
<1>2. phase # "serving" /\ NoRequest => NoRequest'
  BY NoRequestKept, StepImplements
<1>3. CASE UNCHANGED procVars
  BY <1>1, <1>2, <1>3 DEF procVars, vars, statics, ProcInv, ProcTypeOK, BottomKept, ConfigOutlives,
     QuietStop
<1>4. ASSUME Up PROVE misused = None
  BY <1>4 DEF Up, ProcInv
<1>5. ASSUME NEW c \in Conns, Operate(c), UNCHANGED <<statics, quiet>> PROVE ProcInv'
  <2>1. phase' = phase
    BY <1>5 DEF Operate, Accept, AcceptFails, StartNext, ReadCompletes, ReadFails,
       WriteCompletes, WriteFails, DeadlineFires, Becomes
  <2> QED
    BY <1>1, <1>2, <1>5, <2>1 DEF statics, ProcInv, ProcTypeOK, BottomKept, ConfigOutlives, QuietStop
<1>6. ASSUME NEW c \in Conns, ProcHandle(c), Up PROVE ProcInv'
  <2>1. con[c].running /\ phase # "stopped" /\ ~quiet /\ "ConfigMgr" \notin dead
    BY <1>6 DEF ProcHandle, ProcInv, NoRequest
  <2>2. phase' = phase \/ phase' = "terminated"
    <3>1. Handle(c) \/ UNCHANGED vars
      BY <1>6 DEF ProcHandle, Finish, Throw, Misuse, MakePart, MakeLogic, MakeVarifyClient,
         PingsFail, Handle
    <3> QED BY <3>1, PhaseKept DEF vars
  <2>3. ASSUME NEW x \in Statics \ {"ConfigMgr", "IOcontextPool"}, Make(c, x),
               builder' \in Conns \cup {None}
        PROVE  ProcInv'
    <3>1. made' = Append(made, x) /\ UNCHANGED <<dead, misused, quiet>>
      BY <2>3 DEF Make
    <3>2. made' \in Seq(Statics) /\ (BottomKept => BottomKept')
      BY <1>1, <3>1, MadeOnTop
    <3> QED
      BY <1>1, <1>4, <1>6, <2>1, <2>2, <2>3, <3>1, <3>2 DEF ProcInv, ProcTypeOK, ConfigOutlives, QuietStop
  <2>4. CASE MakePart(c)
    <3>1. PICK x \in DOMAIN After \ {"LogicSystem"} : Make(c, x)
      BY <2>4 DEF MakePart
    <3>2. x \in Statics \ {"ConfigMgr", "IOcontextPool"} /\ builder' = c
      BY <2>4 DEF MakePart, After, Statics
    <3> QED BY <2>3, <3>1, <3>2
  <2>5. CASE MakeLogic(c) \/ MakeVarifyClient(c)
    <3>1. builder' \in Conns \cup {None}
      BY <2>5 DEF MakeLogic, MakeVarifyClient, ProcInv, ProcTypeOK
    <3> QED BY <2>3, <2>5, <3>1 DEF MakeLogic, MakeVarifyClient, Statics
  <2>6. CASE Misuse(c)
    <3>1. PICK x \in dead : misused' = x
      BY <2>6 DEF Misuse
    <3>2. phase' = "terminated" /\ UNCHANGED <<made, dead, builder, quiet>>
      BY <2>6 DEF Misuse, Terminate
    <3>3. x # "ConfigMgr" /\ x \in Statics
      BY <1>1, <2>1
    <3> QED BY <1>1, <2>1, <3>1, <3>2, <3>3 DEF ProcInv, ProcTypeOK, ConfigOutlives, QuietStop
  <2>7. CASE Throw(c) \/ PingsFail(c) \/ Finish(c)
    <3>1. UNCHANGED <<made, dead, misused, quiet>> /\ builder' \in {builder, None}
      BY <2>7 DEF Throw, PingsFail, Finish, statics
    <3> QED
      BY <1>1, <1>4, <1>6, <2>1, <2>2, <3>1 DEF ProcInv, ProcTypeOK, BottomKept, ConfigOutlives, QuietStop
  <2> QED BY <1>6, <2>4, <2>5, <2>6, <2>7 DEF ProcHandle
<1>7. ASSUME Stop, Up PROVE ProcInv'
  <2>1. phase = "serving" /\ phase' = "leaving" /\ UNCHANGED statics /\ quiet' = NoRequest
    BY <1>7 DEF Stop, Signal, NoRequest
  <2>2. NoRequest => NoRequest'
    BY <1>7 DEF Stop, Signal, NoRequest, Pending, Gone
  <2>3. quiet' \in BOOLEAN
    BY <1>7 DEF Stop
  <2> QED
    BY <1>1, <1>4, <1>7, <2>1, <2>2, <2>3 DEF statics, ProcInv, ProcTypeOK, BottomKept, ConfigOutlives,
       QuietStop
<1>8. ASSUME Destroy, Up PROVE ProcInv'
  <2>1. /\ phase \in {"leaving", "stopped"} /\ made # <<>> /\ Last(made) # "IOcontextPool"
        /\ made' = Front(made) /\ dead' = dead \cup {Last(made)}
        /\ UNCHANGED <<vars, builder, misused, quiet>>
    BY <1>8 DEF Destroy
  <2>2. /\ made' \in Seq(Statics) /\ Last(made) \in Statics
        /\ BottomKept => BottomKept' /\ Last(made) # "ConfigMgr"
    BY <1>1, <2>1, TakenFromTop
  <2> QED
    BY <1>1, <1>2, <1>4, <1>8, <2>1, <2>2 DEF vars, ProcInv, ProcTypeOK, ConfigOutlives, QuietStop
<1>9. ASSUME DestroyPool \/ PoolDestroyed, Up PROVE ProcInv'
  <2>1. /\ phase \in {"leaving", "stopping"} /\ phase' \in {"stopping", "stopped"}
        /\ made' \in Seq(Statics) /\ UNCHANGED <<builder, misused, quiet>>
        /\ dead' \in {dead, dead \cup {"IOcontextPool"}}
    BY <1>1, <1>9, TakenFromTop DEF DestroyPool, PoolDestroyed, StopContexts, JoinThreads
  <2>2. phase' = "stopped" => NoRequest'
    BY <1>9 DEF DestroyPool, PoolDestroyed, StopContexts, JoinThreads, Gone, NoRequest, Pending
  <2>3. "IOcontextPool" \in Statics
    BY DEF Statics
  <2> QED
    BY <1>1, <1>2, <1>4, <1>9, <2>1, <2>2, <2>3 DEF ProcInv, ProcTypeOK, ConfigOutlives, QuietStop
<1> QED
  BY <1>3, <1>5, <1>6, <1>7, <1>8, <1>9 DEF ProcNext, Exit

\* The inductive invariant, on top of that of HttpServer.
THEOREM ProcInvariant == ProcSpec => []ProcInv
<1>1. ProcSpec => []Inv
  BY ImplementsHttp, InvHolds, PTL
<1> QED BY <1>1, ProcInitInv, ProcNextInv, PTL DEF ProcSpec

\* Type correctness: every singleton is where it should be, and the round robin
\* stays inside contexts_.
THEOREM ProcTypeCorrect == ProcSpec => []ProcTypeOK
<1>1. ProcInv => ProcTypeOK
  BY DEF ProcInv
<1> QED BY <1>1, ProcInvariant, PTL

\* The configuration outlives every thread that may still construct something.
THEOREM ConfigHolds == ProcSpec => []ConfigOutlives
<1>1. ProcInv => ConfigOutlives
  BY DEF ProcInv
<1> QED BY <1>1, ProcInvariant, PTL

\* A server without requests stops cleanly, with any number of connections.
THEOREM QuietHolds == ProcSpec => []QuietStop
<1>1. ProcInv => QuietStop
  BY DEF ProcInv
<1> QED BY <1>1, ProcInvariant, PTL

\* What holds of connections in HttpServer holds in the process: singletons that
\* are constructed, destroyed or misused under the handlers change neither the
\* accept loop (CServer.cpp) nor the timers (HttpConnection.cpp).
THEOREM HttpHolds == ProcSpec => [](AcceptorArmed /\ WritesTimed /\ EndInSight)
BY ImplementsHttp, AlwaysAccepting, WritesAreTimed, EndsInSight, PTL

-----------------------------------------------------------------------------
\* The order of construction and destruction.

\* What a singleton was constructed from lies below it.
NeedsBelow(s) ==
  \A i \in 1 .. Len(s) : \A x \in NeededToMake(s[i]) : \E j \in 1 .. i - 1 : s[j] = x

OrderInv ==
  /\ \A i, j \in 1 .. Len(made) : made[i] = made[j] => i = j
  /\ \A i \in 1 .. Len(made) : made[i] \notin dead
  /\ NeedsBelow(made)
  /\ phase # "stopped" => made # <<>> /\ made[1] = "ConfigMgr"
  /\ phase = "stopping" => \A i \in 1 .. Len(made) : made[i] # "IOcontextPool"

\* A singleton on top of what it needs.
LEMMA MadeInOrder ==
  ASSUME ProcInv, OrderInv, NEW x \in Statics \ {"IOcontextPool"},
         made' = Append(made, x), UNCHANGED dead, x \notin Constructed,
         NeededToMake(x) \subseteq Range(made),
         phase # "stopped", phase' \in {phase, "terminated"}
  PROVE  OrderInv'
<1>1. made \in Seq(Statics)
  BY DEF ProcInv, ProcTypeOK
<1>2. /\ Len(made) \in Nat /\ Len(made') = Len(made) + 1 /\ made'[Len(made) + 1] = x
      /\ \A i \in 1 .. Len(made) : made'[i] = made[i]
  BY <1>1
<1>3. x \notin dead /\ \A i \in 1 .. Len(made) : made[i] # x
  BY <1>1 DEF Constructed, Range
<1>4. \A y \in NeededToMake(x) : \E j \in 1 .. Len(made) : made[j] = y
  BY <1>1 DEF Range
<1>5. NeedsBelow(made')
  <2>1. ASSUME NEW i \in 1 .. Len(made), NEW y \in NeededToMake(made[i])
        PROVE  \E j \in 1 .. i - 1 : made'[j] = y
    <3>1. PICK j \in 1 .. i - 1 : made[j] = y
      BY <2>1 DEF OrderInv, NeedsBelow
    <3> QED BY <1>2, <3>1
  <2>2. ASSUME NEW i \in 1 .. Len(made'), NEW y \in NeededToMake(made'[i])
        PROVE  \E j \in 1 .. i - 1 : made'[j] = y
    <3>1. CASE i \in 1 .. Len(made)
      BY <1>2, <2>1, <2>2, <3>1
    <3>2. CASE i = Len(made) + 1
      <4>1. PICK j \in 1 .. Len(made) : made[j] = y
        BY <1>2, <1>4, <2>2, <3>2
      <4> QED BY <1>2, <3>2, <4>1
    <3> QED BY <1>2, <3>1, <3>2
  <2> QED BY <2>2 DEF NeedsBelow
<1>6. made # <<>> /\ made[1] = "ConfigMgr" => made' # <<>> /\ made'[1] = "ConfigMgr"
  <2>1. made # <<>> => 1 \in 1 .. Len(made)
    BY <1>1, <1>2
  <2> QED BY <1>1, <1>2, <2>1
<1>7. /\ \A i, j \in 1 .. Len(made') : made'[i] = made'[j] => i = j
      /\ \A i \in 1 .. Len(made') : made'[i] \notin dead'
  BY <1>2, <1>3 DEF OrderInv
<1>8. phase' = "stopping" => \A i \in 1 .. Len(made') : made'[i] # "IOcontextPool"
  BY <1>2 DEF OrderInv
<1> QED BY <1>5, <1>6, <1>7, <1>8 DEF OrderInv

\* And taken from there: nothing that is left needs it.
LEMMA TakenInOrder ==
  ASSUME OrderInv, made \in Seq(Statics), made # <<>>, made' = Front(made)
  PROVE  /\ \A i, j \in 1 .. Len(made') : made'[i] = made'[j] => i = j
         /\ \A i \in 1 .. Len(made') : made'[i] \notin dead \cup {Last(made)}
         /\ NeedsBelow(made')
         /\ Len(made') = Len(made) - 1 /\ \A i \in 1 .. Len(made') : made'[i] = made[i]
<1>1. /\ Len(made) \in Nat /\ Len(made) > 0 /\ made' = SubSeq(made, 1, Len(made) - 1)
      /\ Last(made) = made[Len(made)]
  BY DEF Front, Last
<1>2. Len(made') = Len(made) - 1 /\ \A i \in 1 .. Len(made') : made'[i] = made[i]
  <2> DEFINE t == [i \in 1 .. Len(made) - 1 |-> made[i]]
  <2>1. made' = t /\ Len(made) - 1 \in Nat
    BY <1>1
  <2>2. t \in Seq(Statics) /\ Len(t) = Len(made) - 1
    BY <1>1
  <2> QED BY <2>1, <2>2
<1>3. NeedsBelow(made')
  <2>1. ASSUME NEW i \in 1 .. Len(made'), NEW y \in NeededToMake(made'[i])
        PROVE  \E j \in 1 .. i - 1 : made'[j] = y
    <3>1. made'[i] = made[i] /\ i \in 1 .. Len(made)
      BY <1>1, <1>2
    <3>2. y \in NeededToMake(made[i])
      BY <3>1, <2>1
    <3>3. PICK j \in 1 .. i - 1 : made[j] = y
      BY <3>1, <3>2 DEF OrderInv, NeedsBelow
    <3> QED BY <1>1, <1>2, <3>3
  <2> QED BY <2>1 DEF NeedsBelow
<1>4. \A i \in 1 .. Len(made') : made'[i] \notin dead \cup {Last(made)}
  BY <1>1, <1>2 DEF OrderInv
<1>5. \A i, j \in 1 .. Len(made') : made'[i] = made'[j] => i = j
  BY <1>1, <1>2 DEF OrderInv
<1> QED BY <1>2, <1>3, <1>4, <1>5

LEMMA OrderInit == ProcInit => OrderInv
<1> SUFFICES ASSUME ProcInit PROVE OrderInv
  OBVIOUS
<1>1. made = <<"ConfigMgr", "IOcontextPool">> /\ dead = {} /\ phase = "serving"
  BY DEF ProcInit, MadeByMain, Init
<1>2. NeedsBelow(made)
  BY <1>1 DEF NeedsBelow, NeededToMake
<1> QED BY <1>1, <1>2 DEF OrderInv

LEMMA OrderNext == ProcInv /\ OrderInv /\ [ProcNext]_procVars => OrderInv'
<1> SUFFICES ASSUME ProcInv, OrderInv, [ProcNext]_procVars PROVE OrderInv'
  OBVIOUS
<1>1. made \in Seq(Statics)
  BY DEF ProcInv, ProcTypeOK
<1>2. ASSUME UNCHANGED <<made, dead>>, phase' \in {phase, "leaving", "terminated"},
             phase' = phase \/ phase # "stopped"
      PROVE  OrderInv'
  BY <1>2 DEF OrderInv, NeedsBelow
<1>3. ASSUME NEW c \in Conns, ProcHandle(c) PROVE OrderInv'
  <2>1. con[c].running /\ phase # "stopped"
    BY <1>3 DEF ProcHandle, ProcInv, NoRequest
  <2>2. phase' \in {phase, "terminated"}
    <3>1. Handle(c) \/ UNCHANGED vars
      BY <1>3 DEF ProcHandle, Finish, Throw, Misuse, MakePart, MakeLogic, MakeVarifyClient,
         PingsFail, Handle
    <3> QED BY <3>1, PhaseKept DEF vars
  <2>3. "ConfigMgr" \in Range(made)
    <3>1. Len(made) \in Nat /\ (made # <<>> => 1 \in 1 .. Len(made))
      BY <1>1
    <3> QED BY <1>1, <2>1, <3>1 DEF OrderInv, Range
  <2>4. ASSUME NEW x \in Statics \ {"IOcontextPool"}, Make(c, x), x \notin Constructed,
               NeededToMake(x) \subseteq Constructed
        PROVE  OrderInv'
    <3>1. /\ made' = Append(made, x) /\ UNCHANGED dead
          /\ NeededToMake(x) \subseteq Range(made)
      BY <2>4 DEF Make, Constructed
    <3> QED BY <2>1, <2>2, <2>4, <3>1, MadeInOrder
  <2>5. CASE MakePart(c)
    <3>1. PICK x \in DOMAIN After \ {"LogicSystem"} : IsNext(x) /\ Make(c, x)
      BY <2>5 DEF MakePart
    <3>2. x \in {"SqlPool", "SqlDao", "SqlMgr", "RedisMgr"} /\ x \notin Constructed
      BY <3>1 DEF After, IsNext
    <3>3. x = "SqlDao" => "SqlPool" \in Constructed
      BY <3>1 DEF After, IsNext
    <3>4. NeededToMake(x) \subseteq Constructed
      BY <2>3, <3>2, <3>3 DEF NeededToMake, Constructed
    <3> QED BY <2>4, <3>1, <3>2, <3>4 DEF Statics
  <2>6. CASE MakeLogic(c)
    <3>1. /\ Make(c, "LogicSystem") /\ "LogicSystem" \notin Constructed
          /\ "RedisMgr" \in Constructed
      BY <2>6 DEF MakeLogic, After, IsNext
    <3>2. NeededToMake("LogicSystem") \subseteq Constructed
      BY <2>3, <3>1 DEF NeededToMake, Constructed
    <3> QED BY <2>4, <3>1, <3>2 DEF Statics
  <2>7. CASE MakeVarifyClient(c)
    <3>1. Make(c, "VarifyGrpcClient") /\ "VarifyGrpcClient" \notin Constructed
      BY <2>7 DEF MakeVarifyClient
    <3>2. NeededToMake("VarifyGrpcClient") \subseteq Constructed
      BY <2>3 DEF NeededToMake, Constructed
    <3> QED BY <2>4, <3>1, <3>2 DEF Statics
  <2>8. CASE Finish(c) \/ Throw(c) \/ Misuse(c) \/ PingsFail(c)
    <3>1. UNCHANGED <<made, dead>>
      BY <2>8 DEF Finish, Throw, Misuse, PingsFail, statics
    <3> QED BY <1>2, <2>1, <2>2, <3>1
  <2> QED BY <1>3, <2>5, <2>6, <2>7, <2>8 DEF ProcHandle
<1>4. ASSUME NEW c \in Conns, Operate(c), UNCHANGED <<statics, quiet>> PROVE OrderInv'
  <2>1. phase' = phase /\ UNCHANGED <<made, dead>>
    BY <1>4 DEF statics, Operate, Accept, AcceptFails, StartNext, ReadCompletes, ReadFails,
       WriteCompletes, WriteFails, DeadlineFires, Becomes
  <2> QED BY <1>2, <2>1
<1>5. CASE Stop
  BY <1>2, <1>5 DEF Stop, Signal, statics
<1>6. CASE Destroy
  <2>1. /\ phase \in {"leaving", "stopped"} /\ made # <<>> /\ Last(made) # "IOcontextPool"
        /\ made' = Front(made) /\ dead' = dead \cup {Last(made)} /\ phase' = phase
    BY <1>6 DEF Destroy, vars
  <2>2. phase' # "stopped" => Len(made) >= 3
    <3>1. phase' # "stopped" => Len(made) >= 2 /\ made[2] = "IOcontextPool"
      BY <2>1 DEF ProcInv, BottomKept
    <3>2. Last(made) = made[Len(made)] /\ Len(made) \in Nat
      BY <1>1 DEF Last
    <3> QED BY <2>1, <3>1, <3>2
  <2>3. phase' # "stopped" => made' # <<>> /\ made'[1] = "ConfigMgr"
    <3>1. Len(made') = Len(made) - 1 /\ \A i \in 1 .. Len(made') : made'[i] = made[i]
      BY <1>1, <2>1, TakenInOrder
    <3>2. Len(made) \in Nat
      BY <1>1
    <3> QED BY <2>1, <2>2, <3>1, <3>2 DEF OrderInv
  <2> QED BY <1>1, <2>1, <2>3, TakenInOrder DEF OrderInv
<1>7. CASE DestroyPool
  <2>1. /\ phase = "leaving" /\ phase' = "stopping" /\ made # <<>>
        /\ Last(made) = "IOcontextPool" /\ made' = Front(made) /\ dead' = dead
    BY <1>7 DEF DestroyPool, StopContexts
  <2>2. /\ Len(made') = Len(made) - 1 /\ \A i \in 1 .. Len(made') : made'[i] = made[i]
        /\ Len(made) \in Nat
    BY <1>1, <2>1, TakenInOrder
  <2>3. made' # <<>> /\ made'[1] = "ConfigMgr"
    <3>1. Len(made) >= 2
      BY <2>1 DEF ProcInv, BottomKept
    <3> QED BY <2>1, <2>2, <3>1 DEF OrderInv
  <2> QED BY <1>1, <2>1, <2>3, TakenInOrder DEF OrderInv
<1>8. CASE PoolDestroyed
  <2>1. /\ phase = "stopping" /\ phase' = "stopped" /\ made' = made
        /\ dead' = dead \cup {"IOcontextPool"}
    BY <1>8 DEF PoolDestroyed, JoinThreads
  <2> QED BY <2>1 DEF OrderInv, NeedsBelow
<1>9. CASE UNCHANGED procVars
  BY <1>2, <1>9 DEF procVars, vars, statics
<1> QED
  BY <1>3, <1>4, <1>5, <1>6, <1>7, <1>8, <1>9 DEF ProcNext, Exit

\* Each singleton is constructed once and destroyed once, and while one exists
\* nothing it was constructed from is destroyed: not even when a late request
\* constructs SqlDao, LogicSystem or VarifyGrpcClient after main has begun to
\* take the singletons down (Singleton.hpp:8).
DestroyedInOrder ==
  /\ \A i, j \in 1 .. Len(made) : made[i] = made[j] => i = j
  /\ \A i \in 1 .. Len(made) :
       made[i] \notin dead /\ NeededToMake(made[i]) \cap dead = {}

THEOREM SingletonsInOrder == ProcSpec => []DestroyedInOrder
<1>1. OrderInv => DestroyedInOrder
  <2> SUFFICES ASSUME OrderInv PROVE DestroyedInOrder
    OBVIOUS
  <2>1. ASSUME NEW i \in 1 .. Len(made), NEW x \in NeededToMake(made[i]) PROVE x \notin dead
    <3>1. PICK j \in 1 .. i - 1 : made[j] = x
      BY <2>1 DEF OrderInv, NeedsBelow
    <3>2. CASE j \in 1 .. Len(made)
      BY <3>1, <3>2 DEF OrderInv
    <3>3. j \in 1 .. Len(made)
      BY <3>1
    <3> QED BY <3>2, <3>3
  <2> QED BY <2>1 DEF OrderInv, DestroyedInOrder
<1> QED BY <1>1, OrderInit, OrderNext, ProcInvariant, PTL DEF ProcSpec

-----------------------------------------------------------------------------
\* Who constructs LogicSystem, and how main gets through its destructors.

\* A handler is at work on LogicSystem as long as the others wait for it.
BuilderAtWork ==
  Up /\ builder # None => con[builder].running /\ logic = "unbuilt"

WorkInv ==
  /\ BuilderAtWork
  /\ phase = "stopped" => "IOcontextPool" \in dead

\* A connection that is not c runs its handler on, whatever c does.
LEMMA OthersRunOn ==
  ASSUME Inv, NEW c \in Conns, NEW d \in Conns, con[d].running,
         Operate(c) \/ (c # d /\ (HandlerReturns(c) \/ OtherMethod(c) \/ HandlerThrows(c)))
  PROVE  con'[d].running
<1>1. con \in [Conns -> Connection] /\ con[d].alive /\ con[d].pending = {}
  BY DEF Inv, TypeOK, Connection, Shape
<1>2. ASSUME NEW r, StartNext(c, r), c # d PROVE con'[d].running
  <2>1. PICK e \in Free : con' = [con EXCEPT ![c] = r, ![e] = Fresh(next)]
    BY <1>2 DEF StartNext
  <2>2. e # d
    BY <1>1, <2>1 DEF Free
  <2> QED BY <1>1, <1>2, <2>1, <2>2
<1>3. ASSUME NEW r, Becomes(c, r), c # d PROVE con'[d].running
  BY <1>1, <1>3 DEF Becomes
<1>4. Operate(c) => c # d
  BY <1>1 DEF Operate, Accept, AcceptFails, ReadCompletes, ReadFails, WriteCompletes, WriteFails,
     DeadlineFires, Callback, Pending
<1> QED
  BY <1>2, <1>3, <1>4 DEF Operate, Accept, AcceptFails, ReadCompletes, ReadFails, WriteCompletes,
     WriteFails, DeadlineFires, HandlerReturns, OtherMethod, HandlerThrows

LEMMA WorkNext ==
  Inv /\ Inv' /\ ProcInv /\ WorkInv /\ [ProcNext]_procVars => WorkInv'
<1> SUFFICES ASSUME Inv, Inv', ProcInv, WorkInv, [ProcNext]_procVars PROVE WorkInv'
  OBVIOUS
<1>1. builder \in Conns \cup {None} /\ builder' \in Conns \cup {None}
  BY ProcNextInv DEF ProcInv, ProcTypeOK
<1>2. con \in [Conns -> Connection]
  BY DEF Inv, TypeOK, Connection
<1>3. CASE UNCHANGED procVars
  BY <1>3 DEF procVars, vars, statics, WorkInv, BuilderAtWork, Up
<1>4. ASSUME NEW c \in Conns, Operate(c), UNCHANGED <<statics, quiet>>, Up PROVE WorkInv'
  <2>1. UNCHANGED <<dead, builder, logic, phase>>
    BY <1>4 DEF statics, Operate, Accept, AcceptFails, StartNext, ReadCompletes, ReadFails,
       WriteCompletes, WriteFails, DeadlineFires, Becomes
  <2> QED BY <1>1, <1>4, <2>1, OthersRunOn DEF WorkInv, BuilderAtWork, Up
<1>5. ASSUME NEW c \in Conns, ProcHandle(c), Up PROVE WorkInv'
  <2>1. con[c].running /\ phase # "stopped"
    BY <1>5 DEF ProcHandle, ProcInv, NoRequest
  <2>2. CASE MakePart(c)
    <3>1. UNCHANGED <<con, logic, phase, dead>> /\ builder' = c /\ logic = "unbuilt"
      BY <2>2 DEF MakePart, Make, vars
    <3> QED BY <2>1, <3>1 DEF WorkInv, BuilderAtWork, Up
  <2>3. CASE MakeLogic(c)
    BY <2>1, <2>3 DEF MakeLogic, BuildLogic, WorkInv, BuilderAtWork
  <2>4. CASE MakeVarifyClient(c)
    BY <2>1, <2>4 DEF MakeVarifyClient, Make, vars, WorkInv, BuilderAtWork, Up
  <2>5. CASE PingsFail(c) \/ Misuse(c)
    BY <2>5 DEF PingsFail, Misuse, Terminate, WorkInv, BuilderAtWork, Up
  <2>6. CASE Throw(c)
    <3>1. /\ HandlerThrows(c) /\ UNCHANGED <<dead, logic, phase>>
          /\ builder' # None => builder' = builder /\ builder # c
      BY <2>6 DEF Throw, HandlerThrows, Becomes
    <3> QED BY <1>1, <1>5, <2>1, <3>1, OthersRunOn DEF WorkInv, BuilderAtWork, Up
  <2>7. CASE Finish(c)
    <3>1. UNCHANGED <<dead, builder, logic, phase>>
      BY <2>7 DEF Finish, statics, HandlerReturns, OtherMethod, Becomes
    <3>2. (HandlerReturns(c) /\ logic = "built") \/ (builder # c /\ OtherMethod(c))
      BY <2>7 DEF Finish, HandlerReturns
    <3> QED BY <1>1, <1>5, <2>1, <3>1, <3>2, OthersRunOn DEF WorkInv, BuilderAtWork, Up
  <2> QED BY <1>5, <2>2, <2>3, <2>4, <2>5, <2>6, <2>7 DEF ProcHandle
<1>6. CASE Stop
  <2>1. /\ UNCHANGED <<builder, logic>> /\ phase' = "leaving" /\ Up
        /\ con' = [c \in Conns |-> IF Pending(c, "accept") THEN Gone ELSE con[c]]
    BY <1>6 DEF Stop, Signal, statics, Up
  <2>2. \A c \in Conns : con[c].running => con'[c].running
    BY <1>2, <2>1 DEF Inv, Shape, Pending
  <2> QED BY <1>1, <2>1, <2>2 DEF WorkInv, BuilderAtWork
<1>7. CASE Destroy \/ DestroyPool
  BY <1>7 DEF Destroy, DestroyPool, StopContexts, vars, WorkInv, BuilderAtWork, Up
<1>8. CASE PoolDestroyed
  <2>1. /\ UNCHANGED builder /\ phase = "stopping" /\ "IOcontextPool" \in dead'
        /\ \A c \in Conns : ~con[c].running
    BY <1>8 DEF PoolDestroyed, JoinThreads
  <2> QED BY <1>1, <2>1 DEF WorkInv, BuilderAtWork, Up
<1> QED BY <1>3, <1>4, <1>5, <1>6, <1>7, <1>8 DEF ProcNext, Exit

LEMMA WorkHolds == ProcSpec => []WorkInv
<1>1. ProcInit => WorkInv
  BY DEF ProcInit, Init, WorkInv, BuilderAtWork
<1>2. ProcSpec => []Inv
  BY ImplementsHttp, InvHolds, PTL
<1> QED BY <1>1, <1>2, WorkNext, ProcInvariant, PTL DEF ProcSpec

\* No handler waits for a construction of LogicSystem that was given up: the
\* thread that holds the guard of the static (Singleton.hpp:8) is running, also
\* after an exception took one that held it before, and while main leaves.
THEOREM ConstructionManned == ProcSpec => []BuilderAtWork
<1>1. WorkInv => BuilderAtWork
  BY DEF WorkInv
<1> QED BY <1>1, WorkHolds, PTL

\* Main is never stuck in its destructors (main.cpp:9, Singleton.hpp:8): there
\* is always one to call, until ~IOcontextPool waits for the handlers (one of
\* which does not wait in turn), and after that none has a pool to destroy again.
MainGoesOn ==
  /\ phase = "leaving" => made # <<>>
  /\ phase = "stopping" /\ (\E c \in Conns : con[c].running) =>
       \E c \in Conns : con[c].running /\ MayEnter(c)
  /\ phase = "stopped" /\ made # <<>> => Last(made) # "IOcontextPool"

LEMMA OrderHolds == ProcSpec => []OrderInv
BY OrderInit, OrderNext, ProcInvariant, PTL DEF ProcSpec

THEOREM MainNotStuck == ProcSpec => []MainGoesOn
<1>1. ProcInv /\ OrderInv /\ WorkInv => MainGoesOn
  <2> SUFFICES ASSUME ProcInv, OrderInv, WorkInv PROVE MainGoesOn
    OBVIOUS
  <2>1. builder \in Conns \cup {None} /\ made \in Seq(Statics)
    BY DEF ProcInv, ProcTypeOK
  <2>2. ASSUME phase = "stopping", NEW c \in Conns, con[c].running
        PROVE  \E d \in Conns : con[d].running /\ MayEnter(d)
    BY <2>1, <2>2 DEF WorkInv, BuilderAtWork, MayEnter, Up
  <2>3. ASSUME phase = "stopped", made # <<>> PROVE Last(made) # "IOcontextPool"
    <3>1. Last(made) = made[Len(made)] /\ Len(made) \in 1 .. Len(made)
      BY <2>1, <2>3 DEF Last
    <3>2. made[Len(made)] \notin dead
      BY <3>1 DEF OrderInv
    <3> QED BY <2>3, <3>1, <3>2 DEF WorkInv
  <2>4. phase = "leaving" => made # <<>>
    BY DEF OrderInv
  <2> QED BY <2>2, <2>3, <2>4 DEF MainGoesOn
<1> QED BY <1>1, ProcInvariant, OrderHolds, WorkHolds, PTL

-----------------------------------------------------------------------------
\* How much main has left to do.

\* What getInstance takes to exist, or will: the pool is one of them until its
\* destructor has returned.
Built == Constructed \cup {"IOcontextPool"}

PhasesLeft(p) == CASE p = "leaving" -> 2 [] p = "stopping" -> 1 [] OTHER -> 0

\* A singleton that handlers may still construct has to be destroyed as well.
Left ==
  2 * Cardinality(Statics \ Built) + Len(made) + PhasesLeft(phase)

\* The six that handlers construct.
LEMMA SixLazy ==
  LET L == {"SqlPool", "SqlDao", "SqlMgr", "RedisMgr", "LogicSystem", "VarifyGrpcClient"}
  IN  IsFiniteSet(L) /\ Cardinality(L) = 6
<1>1. IsFiniteSet({"SqlPool"}) /\ Cardinality({"SqlPool"}) = 1
  BY FS_Singleton
<1> DEFINE A == {"SqlPool"} \cup {"SqlDao"}
           B == A \cup {"SqlMgr"}
           C == B \cup {"RedisMgr"}
           D == C \cup {"LogicSystem"}
           E == D \cup {"VarifyGrpcClient"}
<1>2. "SqlDao" \notin {"SqlPool"}
  OBVIOUS
<1>3. /\ "SqlMgr" \notin A
      /\ "RedisMgr" \notin B
      /\ "LogicSystem" \notin C
      /\ "VarifyGrpcClient" \notin D
  OBVIOUS
<1>4. E = {"SqlPool", "SqlDao", "SqlMgr", "RedisMgr", "LogicSystem", "VarifyGrpcClient"}
  OBVIOUS
<1>5. IsFiniteSet(A) /\ Cardinality(A) = 2
  BY <1>1, <1>2, FS_AddElement
<1> HIDE DEF A
<1>6. IsFiniteSet(B) /\ Cardinality(B) = 3
  BY <1>3, <1>5, FS_AddElement
<1> HIDE DEF B
<1>7. IsFiniteSet(C) /\ Cardinality(C) = 4
  BY <1>3, <1>6, FS_AddElement
<1> HIDE DEF C
<1>8. IsFiniteSet(D) /\ Cardinality(D) = 5
  BY <1>3, <1>7, FS_AddElement
<1> HIDE DEF D
<1>9. IsFiniteSet(E) /\ Cardinality(E) = 6
  BY <1>3, <1>8, FS_AddElement
<1> HIDE DEF E
<1> QED BY <1>4, <1>9

LEMMA StaticsFinite == IsFiniteSet(Statics)
<1> DEFINE L == {"SqlPool", "SqlDao", "SqlMgr", "RedisMgr", "LogicSystem", "VarifyGrpcClient"}
<1>1. Statics = (L \cup {"ConfigMgr"}) \cup {"IOcontextPool"}
  BY DEF Statics
<1>2. IsFiniteSet(L)
  BY SixLazy
<1> HIDE DEF L
<1> QED BY <1>1, <1>2, FS_AddElement

LEMMA LeftType ==
  ASSUME ProcTypeOK
  PROVE  Left \in Nat /\ Cardinality(Statics \ Built) \in Nat
<1>1. IsFiniteSet(Statics \ Built)
  BY StaticsFinite, FS_Subset
<1>2. Cardinality(Statics \ Built) \in Nat /\ Len(made) \in Nat
  BY <1>1, FS_CardinalityType DEF ProcTypeOK
<1> QED BY <1>2 DEF Left, PhasesLeft

\* What a step does to the singletons: nothing; a handler constructs one that
\* was not yet; main destroys the last, or begins or ends the destructor of
\* the pool.
LEMMA StaticsStep ==
  ASSUME ProcInv, [ProcNext]_procVars
  PROVE  \/ /\ UNCHANGED <<made, dead>>
            /\ \/ phase' = phase
               \/ phase = "serving" /\ phase' \in {"leaving", "terminated"}
               \/ phase \in {"leaving", "stopping"} /\ phase' = "terminated"
         \/ \E x \in Statics \ Built : made' = Append(made, x) /\ UNCHANGED <<dead, phase>>
         \/ /\ made # <<>> /\ made' = Front(made)
            /\ dead' = dead \cup {Last(made)} /\ UNCHANGED phase
         \/ /\ made # <<>> /\ made' = Front(made) /\ UNCHANGED dead
            /\ Last(made) = "IOcontextPool" /\ phase = "leaving" /\ phase' = "stopping"
         \/ /\ UNCHANGED made /\ dead' = dead \cup {"IOcontextPool"}
            /\ phase = "stopping" /\ phase' = "stopped"
<1>1. ASSUME NEW c \in Conns, ProcHandle(c), Up
      PROVE  \/ /\ UNCHANGED <<made, dead>>
                /\ \/ phase' = phase
                   \/ phase # "stopped" /\ phase' = "terminated"
             \/ \E x \in Statics \ Built :
                  made' = Append(made, x) /\ UNCHANGED <<dead, phase>>
  <2>1. con[c].running /\ phase # "stopped"
    BY <1>1 DEF ProcHandle, ProcInv, NoRequest
  <2>2. CASE MakePart(c)
    <3>1. PICK x \in DOMAIN After \ {"LogicSystem"} : IsNext(x) /\ Make(c, x)
      BY <2>2 DEF MakePart
    <3>2. x \in Statics \ Built
      BY <3>1 DEF After, IsNext, Built, Statics
    <3> QED BY <2>2, <3>1, <3>2 DEF MakePart, Make, vars
  <2>3. CASE MakeLogic(c)
    BY <2>3 DEF MakeLogic, Make, BuildLogic, IsNext, Built, Statics
  <2>4. CASE MakeVarifyClient(c)
    BY <2>4 DEF MakeVarifyClient, Make, vars, Built, Statics
  <2>5. CASE Finish(c) \/ Throw(c) \/ Misuse(c) \/ PingsFail(c)
    BY <2>1, <2>5 DEF Finish, Throw, Misuse, PingsFail, statics, HandlerReturns, OtherMethod,
       HandlerThrows, Becomes, Terminate
  <2> QED BY <1>1, <2>2, <2>3, <2>4, <2>5 DEF ProcHandle
<1>2. ASSUME NEW c \in Conns, Operate(c), UNCHANGED <<statics, quiet>>
      PROVE  UNCHANGED <<made, dead, phase>>
  BY <1>2 DEF statics, Operate, Accept, AcceptFails, StartNext, ReadCompletes, ReadFails,
     WriteCompletes, WriteFails, DeadlineFires, Becomes
<1>3. CASE Stop \/ UNCHANGED procVars
  BY <1>3 DEF Stop, Signal, statics, procVars, vars
<1>4. CASE Exit
  BY <1>4 DEF Exit, Destroy, DestroyPool, PoolDestroyed, StopContexts, JoinThreads, vars
<1>5. Up => phase \in {"serving", "leaving", "stopping", "stopped"}
  BY DEF Up, ProcInv, ProcTypeOK, TypeOK
<1> QED BY <1>1, <1>2, <1>3, <1>4, <1>5 DEF ProcNext

LEMMA TakenFrom ==
  ASSUME made \in Seq(Statics), made # <<>>, made' = Front(made)
  PROVE  Range(made) = Range(made') \cup {Last(made)} /\ Len(made') = Len(made) - 1
<1>1. /\ Len(made) \in Nat /\ Len(made) > 0 /\ made' = SubSeq(made, 1, Len(made) - 1)
      /\ Last(made) = made[Len(made)]
  BY DEF Front, Last
<1>2. made' = [i \in 1 .. Len(made) - 1 |-> made[i]]
  BY <1>1
<1>3. Len(made') = Len(made) - 1
  <2> DEFINE t == [i \in 1 .. Len(made) - 1 |-> made[i]]
  <2>1. t \in Seq(Statics) /\ Len(t) = Len(made) - 1
    BY <1>1
  <2> QED BY <1>2, <2>1
<1>4. DOMAIN made = 1 .. Len(made) /\ DOMAIN made' = 1 .. Len(made) - 1
  BY <1>1, <1>2
<1>5. \A i \in DOMAIN made : i \in DOMAIN made' \/ i = Len(made)
  BY <1>1, <1>4
<1>6. DOMAIN made' \subseteq DOMAIN made /\ Len(made) \in DOMAIN made
  BY <1>1, <1>4
<1> QED BY <1>1, <1>2, <1>3, <1>4, <1>5, <1>6 DEF Range

LEMMA PutOn ==
  ASSUME made \in Seq(Statics), NEW x \in Statics, made' = Append(made, x)
  PROVE  Range(made') = Range(made) \cup {x} /\ Len(made') = Len(made) + 1
<1>1. /\ Len(made) \in Nat /\ Len(made') = Len(made) + 1
      /\ DOMAIN made = 1 .. Len(made) /\ DOMAIN made' = 1 .. Len(made) + 1
      /\ made'[Len(made) + 1] = x /\ \A i \in 1 .. Len(made) : made'[i] = made[i]
  OBVIOUS
<1>2. /\ \A i \in DOMAIN made' : i \in DOMAIN made \/ i = Len(made) + 1
      /\ DOMAIN made \subseteq DOMAIN made' /\ Len(made) + 1 \in DOMAIN made'
  BY <1>1
<1> QED BY <1>1, <1>2 DEF Range

\* What was constructed stays constructed, and what was destroyed destroyed: no
\* constructor runs a second time, however often one that was begun has thrown
\* (Singleton.hpp:8, SqlPool.cpp:10).
BuiltOnce ==
  /\ Built \subseteq Built' /\ dead \subseteq dead'
  /\ \A x \in Range(made') : x \in Range(made) \/ x \notin Built

\* Once the signal has come, each step that touches the singletons or the phase
\* brings main nearer to its end: a handler that constructs one more, too.
ExitLessens ==
  phase # "serving" =>
    /\ Left' <= Left
    /\ <<made, phase>>' # <<made, phase>> => Left' < Left

LEMMA StepBuilds ==
  ASSUME ProcInv, [ProcNext]_procVars
  PROVE  BuiltOnce /\ ExitLessens /\ Left' - PhasesLeft(phase') <= Left - PhasesLeft(phase)
<1> DEFINE n == Cardinality(Statics \ Built)
<1>1. /\ made \in Seq(Statics) /\ n \in Nat /\ Len(made) \in Nat
      /\ Left = 2 * n + Len(made) + PhasesLeft(phase)
  BY LeftType DEF ProcInv, ProcTypeOK, Left
<1>2. Left' = 2 * Cardinality(Statics \ Built') + Len(made') + PhasesLeft(phase')
  BY DEF Left
<1>3. IsFiniteSet(Statics \ Built)
  BY StaticsFinite, FS_Subset
<1> HIDE DEF n
<1>4. CASE /\ UNCHANGED <<made, dead>>
           /\ \/ phase' = phase
              \/ phase = "serving" /\ phase' \in {"leaving", "terminated"}
              \/ phase \in {"leaving", "stopping"} /\ phase' = "terminated"
  <2>1. Built' = Built /\ Range(made') = Range(made)
    BY <1>4 DEF Built, Constructed
  <2>2. Left' = 2 * n + Len(made) + PhasesLeft(phase')
    BY <1>2, <1>4, <2>1 DEF n
  <2>3. /\ PhasesLeft(phase) \in Nat /\ PhasesLeft(phase') \in Nat
        /\ phase # "serving" => phase' = phase \/ PhasesLeft(phase') < PhasesLeft(phase)
    BY <1>4 DEF PhasesLeft
  <2>4. ExitLessens /\ Left' - PhasesLeft(phase') <= Left - PhasesLeft(phase)
    BY <1>1, <1>4, <2>2, <2>3 DEF ExitLessens
  <2> QED BY <1>4, <2>1, <2>4 DEF BuiltOnce
<1>5. ASSUME NEW x \in Statics \ Built, made' = Append(made, x), UNCHANGED <<dead, phase>>
      PROVE  BuiltOnce /\ ExitLessens /\ Left' - PhasesLeft(phase') <= Left - PhasesLeft(phase)
  <2>1. Range(made') = Range(made) \cup {x} /\ Len(made') = Len(made) + 1
    BY <1>1, <1>5, PutOn
  <2>2. Built' = Built \cup {x}
    BY <1>5, <2>1 DEF Built, Constructed
  <2>3. Statics \ Built' = (Statics \ Built) \ {x}
    BY <2>2
  <2>4. Cardinality(Statics \ Built') = n - 1
    BY <1>3, <1>5, <2>3, FS_RemoveElement DEF n
  <2>5. Left' = Left - 1 /\ PhasesLeft(phase) \in Nat
    <3>1. PhasesLeft(phase) \in Nat /\ phase' = phase
      BY <1>5 DEF PhasesLeft
    <3>2. Left' = 2 * (n - 1) + (Len(made) + 1) + PhasesLeft(phase)
      BY <1>2, <2>1, <2>4, <3>1
    <3> QED BY <1>1, <3>1, <3>2
  <2>6. ExitLessens /\ Left' - PhasesLeft(phase') <= Left - PhasesLeft(phase)
    BY <1>1, <1>5, <2>5 DEF ExitLessens
  <2> QED BY <1>5, <2>1, <2>2, <2>6 DEF BuiltOnce
<1>6. ASSUME made # <<>>, made' = Front(made),
             \/ dead' = dead \cup {Last(made)} /\ phase' = phase
             \/ UNCHANGED dead /\ Last(made) = "IOcontextPool" /\ phase = "leaving" /\ phase' = "stopping"
      PROVE  BuiltOnce /\ ExitLessens /\ Left' - PhasesLeft(phase') <= Left - PhasesLeft(phase)
  <2>1. Range(made) = Range(made') \cup {Last(made)} /\ Len(made') = Len(made) - 1
    BY <1>1, <1>6, TakenFrom
  <2>2. Built' = Built
    BY <1>6, <2>1 DEF Built, Constructed
  <2>3. Left' = 2 * n + (Len(made) - 1) + PhasesLeft(phase')
    BY <1>2, <2>1, <2>2 DEF n
  <2>4. /\ PhasesLeft(phase) \in Nat /\ PhasesLeft(phase') \in Nat
        /\ PhasesLeft(phase') <= PhasesLeft(phase)
    BY <1>6 DEF PhasesLeft
  <2>5. ExitLessens /\ Left' - PhasesLeft(phase') <= Left - PhasesLeft(phase)
    BY <1>1, <2>3, <2>4 DEF ExitLessens
  <2> QED BY <1>6, <2>1, <2>2, <2>5 DEF BuiltOnce
<1>7. CASE /\ UNCHANGED made /\ dead' = dead \cup {"IOcontextPool"}
           /\ phase = "stopping" /\ phase' = "stopped"
  <2>1. Built' = Built /\ Range(made') = Range(made)
    BY <1>7 DEF Built, Constructed
  <2>2. Left' = 2 * n + Len(made)
    BY <1>1, <1>2, <1>7, <2>1 DEF n, PhasesLeft
  <2>3. Left = 2 * n + Len(made) + 1
    BY <1>1, <1>7 DEF PhasesLeft
  <2>4. ExitLessens /\ Left' - PhasesLeft(phase') <= Left - PhasesLeft(phase)
    BY <1>1, <1>7, <2>2, <2>3 DEF ExitLessens, PhasesLeft
  <2> QED BY <1>7, <2>1, <2>4 DEF BuiltOnce
<1> QED BY <1>4, <1>5, <1>6, <1>7, StaticsStep

THEOREM SingletonsBuiltOnce == ProcSpec => [][BuiltOnce]_procVars
BY ProcInvariant, StepBuilds, PTL DEF ProcSpec

\* A signal ends the process in sixteen steps of main and of getInstance or
\* fewer, whatever the handlers construct meanwhile (main.cpp:9): the measure
\* never grows and each of those steps lowers it.
ExitBounded == Left \in Nat /\ Left <= 14 + PhasesLeft(phase)

THEOREM ExitInSight == ProcSpec => []ExitBounded /\ [][ExitLessens]_procVars
<1>1. ProcInit => ExitBounded
  <2> SUFFICES ASSUME ProcInit PROVE ExitBounded
    OBVIOUS
  <2>1. made = <<"ConfigMgr", "IOcontextPool">> /\ dead = {} /\ phase = "serving"
    BY DEF ProcInit, MadeByMain, Init
  <2>2. Range(made) = {"ConfigMgr", "IOcontextPool"}
    BY <2>1 DEF Range
  <2>3. Statics \ Built
          = {"SqlPool", "SqlDao", "SqlMgr", "RedisMgr", "LogicSystem", "VarifyGrpcClient"}
    BY <2>1, <2>2 DEF Statics, Built, Constructed
  <2>4. Cardinality(Statics \ Built) = 6
    BY <2>3, SixLazy
  <2>5. Left = 14
    BY <2>1, <2>4 DEF Left, PhasesLeft
  <2> QED BY <2>1, <2>5 DEF ExitBounded, PhasesLeft
<1>2. ProcInv /\ (Left \in Nat)' /\ ExitBounded /\ [ProcNext]_procVars => ExitBounded'
  <2> SUFFICES ASSUME ProcInv, Left' \in Nat, ExitBounded, [ProcNext]_procVars PROVE ExitBounded'
    OBVIOUS
  <2>1. Left' - PhasesLeft(phase') <= Left - PhasesLeft(phase)
    BY StepBuilds
  <2>2. PhasesLeft(phase) \in Nat /\ PhasesLeft(phase') \in Nat
    BY DEF PhasesLeft
  <2> QED BY <2>1, <2>2 DEF ExitBounded
<1>3. ProcInv /\ [ProcNext]_procVars => [ExitLessens]_procVars
  BY StepBuilds
<1>4. ProcInv => Left \in Nat
  BY LeftType DEF ProcInv
<1> QED BY <1>1, <1>2, <1>3, <1>4, ProcInvariant, PTL DEF ProcSpec

\* What holds of every step of a connection in HttpServer, holds in the process.
THEOREM ProcConnectionsGoForward == ProcSpec => [][LivesForward]_vars
BY ImplementsHttp, ConnectionsGoForward, PTL
=============================================================================
