------------------------- MODULE RpcConnectionPool -------------------------
(***************************************************************************)
(* The pool of gRPC stubs that the io threads of the gate server share     *)
(* (VarifyGrpcClient.cpp), with the ring buffer that stores the idle stubs *)
(* (CircularQueueMPMC, RingBuffer.hpp).  Both operations of the pool hold  *)
(* mutex_ from end to end, and release it only inside cond_.wait, so each  *)
(* is one step here.                                                       *)
(*                                                                         *)
(* The member Capacity that the ring masks its indices with is never       *)
(* assigned: the constructor's parameter of that name hides it.  Starting  *)
(* at 0, the masked indices run through 0 .. ring-1 and back to 0, where   *)
(* ring is the lowest bit set in Capacity (RingIndex, and the invariant    *)
(* AdvanceIsMasked of MCRpcConnectionPool).  So reading the uninitialised  *)
(* member is a choice of ring, made in Init.                               *)
(***************************************************************************)
EXTENDS Integers, FiniteSets, Sequences

CONSTANTS
  Threads,    \* the io threads of IOcontextPool, one request at a time each
  PoolSize,   \* pool_size of config.ini: slots of buffer_, a power of two
  RingSizes   \* the rings that the value found in Capacity can produce

ASSUME PoolAssumption ==
  /\ IsFiniteSet(Threads)
  /\ PoolSize \in Nat \ {0}
  /\ RingSizes \subseteq Nat \ {0}

VARIABLES
  ring,          \* where the masked index wraps
  head, tail,    \* head_ and tail_ of the ring
  slots,         \* buffer_: the stub stored in each slot whose flag is set
  current_size,  \* stubs created so far; they are numbered 1..current_size
  stub,          \* the stub each thread holds
  pc,            \* where each thread is in getVarifyCode
  overrun        \* a slot beyond the end of buffer_ has been written

ringVars == <<ring, head, tail, slots>>
vars == <<ringVars, current_size, stub, pc, overrun>>

NoStub == 0          \* nullptr, with flag = false in a slot
MaxSizeOneShort == PoolSize - 2
MaxSize == PoolSize - 1
Slots == 0 .. PoolSize - 1

At(l) == {t \in Threads : pc[t] = l}
Idle == {slots[i] : i \in Slots} \ {NoStub}
Lent == {stub[t] : t \in Threads} \ {NoStub}

-----------------------------------------------------------------------------
AdvanceOneShort(i) == IF i + 2 = ring THEN 0 ELSE i + 1
AdvanceUnmasked(i) == i + 1

\* (i + 1) & (Capacity - 1)
Advance(i) == IF i + 1 = ring THEN 0 ELSE i + 1

IsEmpty == head = tail
IsFull == Advance(tail) = head

DequeueKeepsHead ==
  /\ slots' = slots
  /\ UNCHANGED <<ring, head, tail>>

\* A head slot whose flag is not set stays where it is: the caller gets nullptr.
Dequeue ==
  /\ slots' = [slots EXCEPT ![head] = NoStub]
  /\ head' = IF slots[head] = NoStub THEN head ELSE Advance(head)
  /\ UNCHANGED <<ring, tail>>

EnqueueAtNext(s) ==
  IF IsFull THEN UNCHANGED <<ringVars, overrun>>
  ELSE /\ slots' = [slots EXCEPT ![Advance(tail)] = s]
       /\ tail' = Advance(tail)
       /\ UNCHANGED <<ring, head, overrun>>

\* The result of enqueue is ignored by its caller: a refused stub is destroyed
\* with the argument that owns it.
Enqueue(s) ==
  \/ /\ IsFull
     /\ UNCHANGED <<ringVars, overrun>>
  \/ /\ ~IsFull /\ tail \in Slots
     /\ slots' = [slots EXCEPT ![tail] = s]
     /\ tail' = Advance(tail)
     /\ UNCHANGED <<ring, head, overrun>>
  \/ /\ ~IsFull /\ tail \notin Slots
     /\ overrun' = TRUE
     /\ UNCHANGED ringVars

-----------------------------------------------------------------------------
Init ==
  /\ ring \in RingSizes
  /\ head = 0 /\ tail = 0
  /\ slots = [i \in Slots |-> NoStub]
  /\ current_size = 0
  /\ stub = [t \in Threads |-> NoStub]
  /\ pc = [t \in Threads |-> "idle"]
  /\ overrun = FALSE

\* A handler asks for a verification code and is about to lock mutex_.
Call(t) ==
  /\ pc[t] = "idle"
  /\ pc' = [pc EXCEPT ![t] = "lock"]
  /\ UNCHANGED <<ringVars, current_size, stub, overrun>>

CanTake == ~IsEmpty \/ current_size < MaxSize

TakeNewFirst(t) ==
  /\ pc[t] = "lock" /\ CanTake
  /\ \/ /\ current_size = MaxSize
        /\ stub' = [stub EXCEPT ![t] = slots[head]]
        /\ Dequeue
        /\ UNCHANGED current_size
     \/ /\ current_size < MaxSize
        /\ current_size' = current_size + 1
        /\ stub' = [stub EXCEPT ![t] = current_size + 1]
        /\ UNCHANGED ringVars
  /\ pc' = [pc EXCEPT ![t] = "rpc"]
  /\ UNCHANGED overrun

\* getConnection with its predicate true: an idle stub first, else a new one.
Take(t) ==
  /\ pc[t] = "lock" /\ CanTake
  /\ \/ /\ ~IsEmpty
        /\ stub' = [stub EXCEPT ![t] = slots[head]]
        /\ Dequeue
        /\ UNCHANGED current_size
     \/ /\ IsEmpty
        /\ current_size' = current_size + 1
        /\ stub' = [stub EXCEPT ![t] = current_size + 1]
        /\ UNCHANGED ringVars
  /\ pc' = [pc EXCEPT ![t] = "rpc"]
  /\ UNCHANGED overrun

\* getConnection with its predicate false: cond_.wait releases mutex_.
Block(t) ==
  /\ pc[t] = "lock" /\ ~CanTake
  /\ pc' = [pc EXCEPT ![t] = "wait"]
  /\ UNCHANGED <<ringVars, current_size, stub, overrun>>

GetConnection(t) == Take(t) \/ Block(t)

\* A condition variable may wake a waiter that nobody notified.
SpuriousWakeup(t) ==
  /\ pc[t] = "wait"
  /\ pc' = [pc EXCEPT ![t] = "lock"]
  /\ UNCHANGED <<ringVars, current_size, stub, overrun>>

\* The RPC ends, well or with ERR_RPC_FAILED: both branches give the stub back.
RpcReturns(t) ==
  /\ pc[t] = "rpc"
  /\ pc' = [pc EXCEPT ![t] = "release"]
  /\ UNCHANGED <<ringVars, current_size, stub, overrun>>

NotifyNobody(t) == pc' = [pc EXCEPT ![t] = "idle"]

\* cond_.notify_one(), by the thread t that then returns to its handler.
NotifyOne(t) ==
  LET returned == [pc EXCEPT ![t] = "idle"]
  IN  IF At("wait") = {} THEN pc' = returned
      ELSE \E w \in At("wait") : pc' = [returned EXCEPT ![w] = "lock"]

ReleaseConnection(t) ==
  /\ pc[t] = "release"
  /\ Enqueue(stub[t])
  /\ stub' = [stub EXCEPT ![t] = NoStub]
  /\ NotifyOne(t)
  /\ UNCHANGED current_size

\* Writing past buffer_ is undefined: nothing is said of what comes after it.
Next ==
  /\ ~overrun
  /\ \E t \in Threads :
       \/ Call(t)
       \/ GetConnection(t)
       \/ SpuriousWakeup(t)
       \/ RpcReturns(t)
       \/ ReleaseConnection(t)

\* A thread in the pool keeps running and the RPC ends; new requests and
\* spurious wakeups may never come.
Fairness ==
  \A t \in Threads :
    /\ WF_vars(~overrun /\ GetConnection(t))
    /\ WF_vars(~overrun /\ RpcReturns(t))
    /\ WF_vars(~overrun /\ ReleaseConnection(t))

Spec == Init /\ [][Next]_vars
FairSpec == Spec /\ Fairness

-----------------------------------------------------------------------------
TypeOK ==
  /\ ring \in RingSizes
  /\ head \in 0 .. ring - 1 /\ tail \in 0 .. ring - 1
  /\ slots \in [Slots -> 0 .. MaxSize]
  /\ current_size \in 0 .. MaxSize
  /\ stub \in [Threads -> 0 .. MaxSize]
  /\ pc \in [Threads -> {"idle", "lock", "wait", "rpc", "release"}]
  /\ overrun \in BOOLEAN

\* A stub is in one place: in one slot, or with one thread, never in both, so
\* that no two io threads ever share one (getConnection, releaseConnection).
StubExclusive ==
  /\ \A i, j \in Slots : slots[i] = slots[j] /\ slots[i] # NoStub => i = j
  /\ \A t, u \in Threads : stub[t] = stub[u] /\ stub[t] # NoStub => t = u
  /\ Idle \cap Lent = {}

\* getVarifyCode dereferences what getConnection gave it without a test: it is
\* never nullptr, although dequeue's result is ignored and may be FALSE.
NeverNullStub ==
  \A t \in Threads : pc[t] \in {"rpc", "release"} => stub[t] # NoStub

\* The slots whose flag is set are those from head_ up to tail_, around the ring,
\* and dequeue reads inside buffer_; enqueue writes past its end, one slot after
\* the last, only with a ring larger than the buffer: one that is smaller wraps
\* too early, which costs stubs (NoStubLost) but never memory.
Filled(i) ==
  IF head <= tail THEN head <= i /\ i < tail
  ELSE (head <= i /\ i < ring) \/ i < tail

RingInv ==
  /\ tail <= PoolSize
  /\ head <= tail \/ ring <= PoolSize
  /\ \A i \in Slots : slots[i] # NoStub <=> Filled(i)
  /\ ~IsEmpty => head \in Slots
  /\ overrun => ring > PoolSize

\* A stub in a slot or in a thread was created, and only a thread between
\* getConnection and releaseConnection holds one.
StubInv ==
  /\ \A i \in Slots : slots[i] <= current_size
  /\ \A t \in Threads : stub[t] <= current_size
  /\ \A t \in Threads : stub[t] # NoStub <=> pc[t] \in {"rpc", "release"}

\* With the ring the pool is meant to have, the stub given to
\* releaseConnection is never destroyed because the ring is full: all those
\* counted in current_size_ are still there, idle or lent.
NoStubLost == ring = PoolSize => Idle \cup Lent = 1 .. current_size

\* notify_one wakes one waiter for each stub given back: when a thread waits,
\* every stub exists and each idle one has a thread that is on its way to it.
NoLostWakeup ==
  At("wait") # {} =>
    /\ current_size = MaxSize
    /\ Cardinality(Idle) <= Cardinality(At("lock"))

\* A thread waits only while more threads are in the pool than it may have
\* stubs.  config.ini gives it more stubs than IOcontextPool has threads, so
\* that no io thread ever blocks in getConnection, with the sockets it serves.
WaitsOnlyWhenShort ==
  ring = PoolSize /\ At("wait") # {} => Cardinality(Threads \ At("idle")) >= PoolSize

\* Newcomers can overtake a woken waiter for ever, but once no new call comes
\* every thread in getConnection gets a stub.
BurstDrains ==
  (ring = PoolSize /\ <>[][\A t \in Threads : ~Call(t)]_vars)
    => \A t \in Threads : pc[t] \in {"lock", "wait"} ~> pc[t] = "rpc"

\* The ring as a queue: its stubs from the head on.
SlotAt(i) == IF i < ring THEN i ELSE i - ring
IdleCount == IF head <= tail THEN tail - head ELSE ring - head + tail
IdleStubs == [i \in 1 .. IdleCount |-> slots[SlotAt(head + i - 1)]]

Pool == INSTANCE FifoPool WITH
  Clients <- Threads,
  Limit <- MaxSize,
  idle <- IdleStubs,
  held <- stub,
  made <- current_size,
  lossy <- ring # PoolSize

\* Through blocked threads, wakeups and indices that wrap around, the pool lends
\* its stubs in the order in which they came back and makes one only when none
\* is idle; it destroys one only if Capacity made another ring than intended.
ImplementsPool == Pool!Spec

\* releaseConnection gives the stub back to the ring, for the next caller, as
\* the size asserted at RingBuffer.hpp:27 and max_size_ = size - 1 promise.
ReleasedStubKept ==
  [][\A t \in Threads : ReleaseConnection(t) /\ ~overrun' => stub[t] \in Idle']_vars
=============================================================================
