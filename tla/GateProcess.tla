---------------------------- MODULE GateProcess ----------------------------
(***************************************************************************)
(* The singletons of the gate server and the threads that use them.  Each  *)
(* is a static object (Singleton.hpp, SqlPool.cpp) that is constructed by  *)
(* the first thread to need it, and destroyed by main after it returned,   *)
(* the last constructed first.  The io threads run until the destructor of *)
(* IOcontextPool has joined them, so handlers may construct singletons,    *)
(* and use destroyed ones, while the process exits.                        *)
(*                                                                         *)
(* exit() calls what was registered while it runs before what it still has *)
(* to call (the C++ runtime is external).  Using a destroyed object is     *)
(* undefined behaviour, and ends a behaviour of the model.                 *)
(***************************************************************************)
EXTENDS HttpServer, SequencesExt

VARIABLES
  made,     \* the singletons that exist, in the order of their construction
  dead,     \* those that were destroyed
  builder,  \* the connection whose handler is constructing LogicSystem
  misused,  \* the destroyed singleton that a handler used
  quiet     \* history: the signal found no request under way

statics == <<made, dead, builder, misused>>
procVars == <<vars, statics, quiet>>

None == "none"

MadePoolFirst == <<"IOcontextPool", "ConfigMgr">>

\* main reads the port from ConfigMgr; the first CServer::start needs a context.
MadeByMain == <<"ConfigMgr", "IOcontextPool">>

\* The order in which LogicSystem and what it needs are completed: what comes
\* before each.
After == [SqlPool |-> {}, SqlDao |-> {"SqlPool"}, SqlMgr |-> {"SqlDao"},
          RedisMgr |-> {"SqlMgr"}, LogicSystem |-> {"RedisMgr"}]

Statics ==
  {"ConfigMgr", "IOcontextPool", "SqlPool", "SqlDao", "SqlMgr", "RedisMgr",
   "LogicSystem", "VarifyGrpcClient"}

\* What a constructor uses: SqlMgr and LogicSystem only keep the address of the
\* singleton they are given for their SQL.
NeededToMake(x) ==
  CASE x = "SqlDao" -> {"SqlPool", "ConfigMgr"}
    [] x = "LogicSystem" -> {"RedisMgr", "ConfigMgr"}
    [] x = "VarifyGrpcClient" -> {"ConfigMgr"}
    [] OTHER -> {}

\* What a handler uses.  It has a share of redis_ of its own from LogicSystem.
NeededToHandle == {"LogicSystem", "SqlMgr", "SqlDao", "SqlPool", "VarifyGrpcClient"}

\* getInstance returns these at once, whether they still exist or not.
Constructed == Range(made) \cup dead

\* x is the next to be made for LogicSystem.
IsNext(x) == x \notin Constructed /\ After[x] \subseteq Constructed

ProcInit ==
  /\ Init
  /\ made = MadeByMain
  /\ dead = {}
  /\ builder = None
  /\ misused = None
  /\ quiet = FALSE

-----------------------------------------------------------------------------
\* One thread constructs LogicSystem; the others that need it wait.
MayEnter(c) == logic = "built" \/ builder \in {None, c}

\* The handler of c constructs x, which comes to an end.
Make(c, x) ==
  /\ con[c].running /\ MayEnter(c)
  /\ NeededToMake(x) \cap dead = {}
  /\ made' = Append(made, x)
  /\ UNCHANGED <<dead, misused, quiet>>

\* A singleton that LogicSystem needs.
MakePart(c) ==
  /\ logic = "unbuilt"
  /\ \E x \in DOMAIN After \ {"LogicSystem"} : IsNext(x) /\ Make(c, x)
  /\ builder' = c
  /\ UNCHANGED vars

MakeLogic(c) ==
  /\ IsNext("LogicSystem") /\ Make(c, "LogicSystem")
  /\ BuildLogic(c)
  /\ builder' = None

\* Redis does not answer: std::terminate.
PingsFail(c) ==
  /\ IsNext("LogicSystem") /\ MayEnter(c)
  /\ logic = "unbuilt" /\ Terminate(c)
  /\ UNCHANGED <<statics, quiet>>

\* The first request for a code.
MakeVarifyClient(c) ==
  /\ logic = "built" /\ "VarifyGrpcClient" \notin Constructed
  /\ Make(c, "VarifyGrpcClient")
  /\ UNCHANGED <<vars, builder>>

\* SqlDao or RedisMgr::init throws, or the handler does.  What was completed
\* stays, and the next request constructs the rest.
Throw(c) ==
  /\ MayEnter(c) /\ HandlerThrows(c)
  /\ builder' = IF builder = c THEN None ELSE builder
  /\ UNCHANGED <<made, dead, misused, quiet>>

\* What the handler of c may be about to use.
InUse(c) ==
  IF logic = "built"
  THEN NeededToHandle \cup (IF "VarifyGrpcClient" \in Constructed THEN {}
                            ELSE NeededToMake("VarifyGrpcClient"))
  ELSE UNION {NeededToMake(x) : x \in {y \in DOMAIN After : IsNext(y)}}

Misuse(c) ==
  /\ dead # {} /\ MayEnter(c)
  /\ \E x \in InUse(c) \cap dead : misused' = x
  /\ Terminate(c)
  /\ UNCHANGED <<made, dead, builder, quiet>>

Finish(c) ==
  /\ HandlerReturns(c) \/ (builder # c /\ OtherMethod(c))
  /\ UNCHANGED <<statics, quiet>>

ProcHandle(c) ==
  /\ con[c].running
  /\ \/ Finish(c) \/ Throw(c) \/ Misuse(c)
     \/ MakePart(c) \/ MakeLogic(c) \/ MakeVarifyClient(c) \/ PingsFail(c)

-----------------------------------------------------------------------------
Stop ==
  /\ Signal
  /\ quiet' = \A c \in Conns : ~Pending(c, "read") /\ ~con[c].running
  /\ UNCHANGED statics

\* exit() on the thread of main destroys the singleton made last.
Destroy ==
  /\ phase \in {"leaving", "stopped"}
  /\ made # <<>> /\ Last(made) # "IOcontextPool"
  /\ made' = Front(made)
  /\ dead' = dead \cup {Last(made)}
  /\ UNCHANGED <<vars, builder, misused, quiet>>

DestroyPool ==
  /\ made # <<>> /\ Last(made) = "IOcontextPool"
  /\ StopContexts
  /\ made' = Front(made)
  /\ UNCHANGED <<dead, builder, misused, quiet>>

PoolDestroyed ==
  /\ JoinThreads
  /\ dead' = dead \cup {"IOcontextPool"}
  /\ UNCHANGED <<made, builder, misused, quiet>>

Exit == Destroy \/ DestroyPool \/ PoolDestroyed

ProcNext ==
  /\ Up
  /\ \/ \E c \in Conns :
          \/ Operate(c) /\ UNCHANGED <<statics, quiet>>
          \/ ProcHandle(c)
     \/ Stop \/ Exit

\* As in HttpServer; a handler may wait for LogicSystem as long as those that
\* construct it fail.  Main gets through its destructors whatever the contexts
\* run in the meantime.
ProcFairness ==
  /\ \A c \in Conns : WF_procVars(Up /\ MayEnter(c) /\ ProcHandle(c))
  /\ WF_procVars(Up /\ Exit)

ProcSpec == ProcInit /\ [][ProcNext]_procVars
ProcFairSpec == ProcSpec /\ ProcFairness

-----------------------------------------------------------------------------
ProcTypeOK ==
  /\ TypeOK
  /\ made \in Seq(Statics) /\ dead \subseteq Statics
  /\ builder \in Conns \cup {None}
  /\ misused \in Statics \cup {None}
  /\ quiet \in BOOLEAN

\* Whatever a late request constructs while the process exits, the
\* configuration it is constructed from is still there (main.cpp:9).
ConfigOutlives == misused # "ConfigMgr"

\* A server that no client is waiting for stops cleanly: when the signal finds
\* no request being read or handled, nothing destroyed is ever used, although
\* responses and timers are still under way and the threads run on.
QuietStop == quiet => misused = None

\* A signal ends the process: main gets through the destructors, however many
\* clients are connected and whatever their handlers construct meanwhile.
StopEnds == phase = "leaving" ~> (phase = "stopped" /\ made = <<>>) \/ ~Up
=============================================================================
