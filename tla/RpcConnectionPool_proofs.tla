---------------------- MODULE RpcConnectionPool_proofs ----------------------
(***************************************************************************)
(* What holds of the stub pool for every number of threads, every pool     *)
(* size and every ring that the uninitialised Capacity can produce.        *)
(***************************************************************************)
EXTENDS RpcConnectionPool, FiniteSetTheorems, SequenceTheorems, TLAPS

\* The inductive invariant: the type, the shape of the ring, where stubs are.
Inv == TypeOK /\ RingInv /\ StubInv /\ StubExclusive

-----------------------------------------------------------------------------
\* The ring, one operation at a time.

\* A masked index stays in the ring.
LEMMA AdvanceInRing ==
  ASSUME TypeOK, NEW i \in 0 .. ring - 1
  PROVE  Advance(i) \in 0 .. ring - 1
  BY PoolAssumption DEF TypeOK, Advance

\* When the ring is not empty its head is a slot of buffer_ that holds a stub.
LEMMA HeadFilled ==
  ASSUME TypeOK, RingInv, ~IsEmpty
  PROVE  head \in Slots /\ slots[head] # NoStub
  <1>1. ring \in Nat \ {0} /\ PoolSize \in Nat \ {0}
    BY PoolAssumption DEF TypeOK
  <1>2. head \in Slots
    BY <1>1 DEF TypeOK, RingInv, IsEmpty, Slots
  <1>3. Filled(head)
    BY <1>1 DEF TypeOK, IsEmpty, Filled
  <1> QED
    BY <1>2, <1>3 DEF RingInv

\* dequeue on a ring that is not empty keeps its shape and empties one slot.
LEMMA DequeueRing ==
  ASSUME TypeOK, RingInv, ~IsEmpty, Dequeue, overrun' = overrun
  PROVE  /\ RingInv'
         /\ head' \in 0 .. ring - 1
         /\ slots' \in [Slots -> 0 .. MaxSize]
  <1>1. ring \in Nat \ {0} /\ PoolSize \in Nat \ {0}
    BY PoolAssumption DEF TypeOK
  <1>2. head \in Slots /\ slots[head] # NoStub
    BY HeadFilled
  <1>3. head' = Advance(head) /\ tail' = tail /\ ring' = ring
    BY <1>2 DEF Dequeue
  <1>4. slots' = [slots EXCEPT ![head] = NoStub]
    BY DEF Dequeue
  <1>5. head' \in 0 .. ring - 1
    BY <1>3, AdvanceInRing DEF TypeOK
  <1>6. slots' \in [Slots -> 0 .. MaxSize]
    <2>1. NoStub \in 0 .. MaxSize
      BY <1>1 DEF MaxSize, NoStub
    <2> QED
      BY <1>2, <1>4, <2>1, Zenon DEF TypeOK
  <1>7. ASSUME NEW i \in Slots
        PROVE  Filled(i)' <=> Filled(i) /\ i # head
    BY <1>1, <1>3, <1>2 DEF TypeOK, RingInv, IsEmpty, Filled, Advance, Slots
  <1>8. \A i \in Slots : slots'[i] # NoStub <=> Filled(i)'
    BY <1>4, <1>7 DEF TypeOK, RingInv
  <1>9. head' <= tail' \/ ring' <= PoolSize
    BY <1>1, <1>3 DEF TypeOK, RingInv, IsEmpty, Advance
  <1>10. tail' <= PoolSize /\ (overrun' => ring' > PoolSize)
    BY <1>3 DEF RingInv
  <1>11. ~IsEmpty' => head' \in Slots
    BY <1>1, <1>3, <1>5, <1>9, <1>10 DEF TypeOK, IsEmpty, Slots
  <1> QED
    BY <1>5, <1>6, <1>8, <1>9, <1>10, <1>11 DEF RingInv

\* enqueue keeps the shape of the ring, whether it accepts, refuses or overruns.
LEMMA EnqueueRing ==
  ASSUME TypeOK, RingInv, NEW s \in 1 .. MaxSize, Enqueue(s)
  PROVE  /\ RingInv'
         /\ ring' = ring /\ head' = head
         /\ tail' \in 0 .. ring - 1
         /\ slots' \in [Slots -> 0 .. MaxSize]
         /\ overrun' \in BOOLEAN
  <1>1. ring \in Nat \ {0} /\ PoolSize \in Nat \ {0}
    BY PoolAssumption DEF TypeOK
  <1>2. CASE UNCHANGED ringVars
    <2>1. ring' = ring /\ head' = head /\ tail' = tail /\ slots' = slots
      BY <1>2 DEF ringVars
    <2>2. overrun' \in BOOLEAN
      BY DEF Enqueue, TypeOK
    <2>3. overrun' => ring > PoolSize
      <3>1. CASE overrun
        BY <3>1 DEF RingInv
      <3>2. CASE ~overrun /\ overrun'
        <4>1. tail \notin Slots
          BY <3>2 DEF Enqueue, ringVars
        <4> QED
          BY <1>1, <4>1 DEF TypeOK, Slots
      <3> QED
        BY <3>1, <3>2
    <2> QED
      BY <2>1, <2>2, <2>3 DEF RingInv, Filled, IsEmpty, TypeOK
  <1>3. CASE ~UNCHANGED ringVars
    <2>1. /\ ~IsFull /\ tail \in Slots
          /\ slots' = [slots EXCEPT ![tail] = s] /\ tail' = Advance(tail)
          /\ ring' = ring /\ head' = head /\ overrun' = overrun
      BY <1>3 DEF Enqueue
    <2>2. tail' \in 0 .. ring - 1
      BY <2>1, AdvanceInRing DEF TypeOK
    <2>3. slots' \in [Slots -> 0 .. MaxSize]
      <3>1. s \in 0 .. MaxSize
        OBVIOUS
      <3> QED
        BY <2>1, <3>1, Zenon DEF TypeOK
    <2>4. ASSUME NEW i \in Slots
          PROVE  Filled(i)' <=> Filled(i) \/ i = tail
      BY <1>1, <2>1 DEF TypeOK, RingInv, IsFull, Filled, Advance, Slots
    <2>5. \A i \in Slots : slots'[i] # NoStub <=> Filled(i)'
      BY <1>1, <2>1, <2>4 DEF TypeOK, RingInv, MaxSize, NoStub
    <2>6. tail' <= PoolSize /\ (head' <= tail' \/ ring' <= PoolSize)
      BY <1>1, <2>1 DEF TypeOK, RingInv, IsFull, Advance, Slots
    <2>7. ~IsEmpty' => head' \in Slots
      BY <1>1, <2>1, <2>2, <2>6 DEF TypeOK, IsEmpty, Slots
    <2> QED
      BY <2>1, <2>2, <2>3, <2>5, <2>6, <2>7 DEF RingInv, TypeOK
  <1> QED
    BY <1>2, <1>3

-----------------------------------------------------------------------------
\* The invariant, one action at a time.

LEMMA InitInv == Init => Inv
  <1> SUFFICES ASSUME Init PROVE Inv
    OBVIOUS
  <1>1. ring \in Nat \ {0} /\ PoolSize \in Nat \ {0}
    BY PoolAssumption DEF Init
  <1>2. TypeOK
    <2>1. NoStub \in 0 .. MaxSize /\ 0 \in 0 .. ring - 1
      BY <1>1 DEF NoStub, MaxSize
    <2>2. current_size \in 0 .. MaxSize
      BY <2>1 DEF Init, NoStub
    <2> QED
      BY <2>1, <2>2, Zenon DEF Init, TypeOK
  <1>3. RingInv
    BY <1>1 DEF Init, RingInv, IsEmpty, Filled, Slots
  <1>4. StubInv
    BY DEF Init, StubInv, NoStub
  <1>5. StubExclusive
    BY DEF Init, StubExclusive, Idle, Lent
  <1> QED
    BY <1>2, <1>3, <1>4, <1>5 DEF Inv

\* A step that moves no stub keeps the invariant.
LEMMA PcStepInv ==
  ASSUME Inv,
         UNCHANGED <<ringVars, current_size, stub, overrun>>,
         pc' \in [Threads -> {"idle", "lock", "wait", "rpc", "release"}],
         \A t \in Threads : pc'[t] \in {"rpc", "release"}
                              <=> pc[t] \in {"rpc", "release"}
  PROVE  Inv'
  <1>1. TypeOK'
    BY DEF Inv, TypeOK, ringVars
  <1>2. RingInv'
    BY DEF Inv, RingInv, IsEmpty, Filled, ringVars
  <1>3. StubInv'
    BY DEF Inv, StubInv, ringVars
  <1>4. StubExclusive'
    BY DEF Inv, StubExclusive, Idle, Lent, ringVars
  <1> QED
    BY <1>1, <1>2, <1>3, <1>4 DEF Inv

\* getConnection hands out a stub that nobody else has.
LEMMA TakeInv ==
  ASSUME Inv, NEW t \in Threads, Take(t)
  PROVE  Inv'
  <1>1. ring \in Nat \ {0} /\ PoolSize \in Nat \ {0}
    BY PoolAssumption DEF Inv, TypeOK
  <1>2. /\ pc[t] = "lock" /\ pc' = [pc EXCEPT ![t] = "rpc"]
        /\ overrun' = overrun
    BY DEF Take
  <1>3. pc' \in [Threads -> {"idle", "lock", "wait", "rpc", "release"}]
    BY <1>2 DEF Inv, TypeOK
  <1>4. CASE ~IsEmpty
    <2>1. Dequeue /\ stub' = [stub EXCEPT ![t] = slots[head]]
          /\ current_size' = current_size
      BY <1>4 DEF Take
    <2>2. head \in Slots /\ slots[head] # NoStub
      BY <1>4, HeadFilled DEF Inv
    <2>3. slots' = [slots EXCEPT ![head] = NoStub] /\ ring' = ring /\ tail' = tail
      BY <2>1 DEF Dequeue
    <2>4. /\ RingInv' /\ head' \in 0 .. ring - 1
          /\ slots' \in [Slots -> 0 .. MaxSize]
      BY <1>2, <1>4, <2>1, DequeueRing DEF Inv
    <2>5. slots[head] \in 0 .. MaxSize
      BY <2>2 DEF Inv, TypeOK
    <2>6. stub' \in [Threads -> 0 .. MaxSize]
      BY <2>1, <2>5, Zenon DEF Inv, TypeOK
    <2>7. TypeOK'
      BY <1>2, <1>3, <2>1, <2>3, <2>4, <2>6 DEF Inv, TypeOK
    <2>8. StubInv'
      BY <1>2, <2>1, <2>2, <2>3 DEF Inv, TypeOK, StubInv, MaxSize, NoStub
    <2>9. StubExclusive'
      BY <2>1, <2>2, <2>3 DEF Inv, TypeOK, StubExclusive, Idle, Lent
    <2> QED
      BY <2>4, <2>7, <2>8, <2>9 DEF Inv
  <1>5. CASE IsEmpty
    <2>1. /\ current_size < MaxSize
          /\ current_size' = current_size + 1
          /\ stub' = [stub EXCEPT ![t] = current_size + 1]
          /\ UNCHANGED ringVars
      BY <1>5 DEF Take, CanTake
    <2>2. ring' = ring /\ head' = head /\ tail' = tail /\ slots' = slots
      BY <2>1 DEF ringVars
    <2>3. current_size + 1 \in 0 .. MaxSize
      BY <1>1, <2>1 DEF Inv, TypeOK, MaxSize
    <2>4. stub' \in [Threads -> 0 .. MaxSize]
      BY <2>1, <2>3, Zenon DEF Inv, TypeOK
    <2>5. TypeOK'
      BY <1>2, <1>3, <2>1, <2>2, <2>3, <2>4 DEF Inv, TypeOK
    <2>6. RingInv'
      BY <1>2, <2>2 DEF Inv, RingInv, IsEmpty, Filled
    <2>7. StubInv'
      BY <1>1, <1>2, <2>1, <2>2, <2>4 DEF Inv, TypeOK, StubInv, MaxSize, NoStub
    <2>8. StubExclusive'
      <3>1. \A i \in Slots : slots[i] # current_size + 1
        BY <1>1 DEF Inv, TypeOK, StubInv, MaxSize
      <3>2. \A u \in Threads : stub[u] # current_size + 1
        BY <1>1 DEF Inv, TypeOK, StubInv, MaxSize
      <3> QED
        BY <2>1, <2>2, <3>1, <3>2 DEF Inv, TypeOK, StubExclusive, Idle, Lent
    <2> QED
      BY <2>5, <2>6, <2>7, <2>8 DEF Inv
  <1> QED
    BY <1>4, <1>5

\* releaseConnection moves a stub from its thread to the ring, or to nowhere.
LEMMA ReleaseInv ==
  ASSUME Inv, NEW t \in Threads, ReleaseConnection(t)
  PROVE  Inv'
  <1>1. ring \in Nat \ {0} /\ PoolSize \in Nat \ {0}
    BY PoolAssumption DEF Inv, TypeOK
  <1>2. /\ pc[t] = "release" /\ Enqueue(stub[t]) /\ NotifyOne(t)
        /\ stub' = [stub EXCEPT ![t] = NoStub]
        /\ current_size' = current_size
    BY DEF ReleaseConnection
  <1>3. stub[t] \in 1 .. MaxSize
    BY <1>1, <1>2 DEF Inv, TypeOK, StubInv, MaxSize, NoStub
  <1>4. /\ RingInv' /\ ring' = ring /\ head' = head /\ tail' \in 0 .. ring - 1
        /\ slots' \in [Slots -> 0 .. MaxSize] /\ overrun' \in BOOLEAN
    BY <1>2, <1>3, EnqueueRing DEF Inv
  <1>5. /\ pc' \in [Threads -> {"idle", "lock", "wait", "rpc", "release"}]
        /\ pc'[t] \notin {"rpc", "release"}
        /\ \A u \in Threads \ {t} : pc'[u] \in {"rpc", "release"}
                                   <=> pc[u] \in {"rpc", "release"}
    BY <1>2 DEF NotifyOne, At, Inv, TypeOK
  <1>6. stub' \in [Threads -> 0 .. MaxSize]
    <2>1. NoStub \in 0 .. MaxSize
      BY <1>1 DEF NoStub, MaxSize
    <2> QED
      BY <1>2, <2>1, Zenon DEF Inv, TypeOK
  <1>7. \/ slots' = slots
        \/ tail \in Slots /\ slots' = [slots EXCEPT ![tail] = stub[t]]
    BY <1>2 DEF Enqueue, ringVars
  <1>8. TypeOK'
    BY <1>2, <1>4, <1>5, <1>6 DEF Inv, TypeOK
  <1>9. StubInv'
    <2>1. \A i \in Slots : slots'[i] <= current_size'
      BY <1>2, <1>7 DEF Inv, TypeOK, StubInv
    <2>2. \A u \in Threads : stub'[u] <= current_size'
      BY <1>1, <1>2 DEF Inv, TypeOK, StubInv, NoStub, MaxSize
    <2>3. \A u \in Threads : stub'[u] # NoStub <=> pc'[u] \in {"rpc", "release"}
      BY <1>2, <1>5 DEF Inv, TypeOK, StubInv
    <2> QED
      BY <2>1, <2>2, <2>3 DEF StubInv
  <1>10. StubExclusive'
    <2>1. \A u \in Threads : stub[u] = stub[t] => u = t
      BY <1>3 DEF Inv, StubExclusive, NoStub
    <2>2. \A i \in Slots : slots[i] # stub[t]
      BY <1>3 DEF Inv, StubExclusive, Idle, Lent, NoStub
    <2> QED
      BY <1>2, <1>7, <2>1, <2>2 DEF Inv, TypeOK, StubExclusive, Idle, Lent
  <1> QED
    BY <1>4, <1>8, <1>9, <1>10 DEF Inv

LEMMA NextInv == Inv /\ [Next]_vars => Inv'
  <1> SUFFICES ASSUME Inv, [Next]_vars PROVE Inv'
    OBVIOUS
  <1>1. CASE UNCHANGED vars
    BY <1>1, PcStepInv DEF vars, Inv, TypeOK
  <1>2. ASSUME NEW t \in Threads, Call(t) PROVE Inv'
    BY <1>2, PcStepInv DEF Call, Inv, TypeOK
  <1>3. ASSUME NEW t \in Threads, Take(t) PROVE Inv'
    BY <1>3, TakeInv
  <1>4. ASSUME NEW t \in Threads, Block(t) PROVE Inv'
    BY <1>4, PcStepInv DEF Block, Inv, TypeOK
  <1>5. ASSUME NEW t \in Threads, SpuriousWakeup(t) PROVE Inv'
    BY <1>5, PcStepInv DEF SpuriousWakeup, Inv, TypeOK
  <1>6. ASSUME NEW t \in Threads, RpcReturns(t) PROVE Inv'
    BY <1>6, PcStepInv DEF RpcReturns, Inv, TypeOK
  <1>7. ASSUME NEW t \in Threads, ReleaseConnection(t) PROVE Inv'
    BY <1>7, ReleaseInv
  <1> QED
    BY <1>1, <1>2, <1>3, <1>4, <1>5, <1>6, <1>7 DEF Next, GetConnection

\* Inv holds of the pool: the ring and the stubs are where the code expects.
THEOREM InvHolds == Spec => []Inv
  BY InitInv, NextInv, PTL DEF Spec

\* The variables of the pool keep their types.
THEOREM TypeCorrect == Spec => []TypeOK
  <1>1. Inv => TypeOK
    BY DEF Inv
  <1> QED
    BY <1>1, InvHolds, PTL

\* Two io threads never use the same stub: getConnection gives each stub away
\* once, whatever the uninitialised Capacity makes of the ring.
THEOREM StubsExclusive == Spec => []StubExclusive
  <1>1. Inv => StubExclusive
    BY DEF Inv
  <1> QED
    BY <1>1, InvHolds, PTL

\* getVarifyCode never calls through the nullptr that dequeue could leave.
THEOREM StubsNeverNull == Spec => []NeverNullStub
  <1>1. Inv => NeverNullStub
    BY DEF Inv, StubInv, NeverNullStub
  <1> QED
    BY <1>1, InvHolds, PTL

\* Whatever ring the uninitialised Capacity makes, the slots that are set are
\* those from head_ up to tail_, and memory outside buffer_ is written only with
\* a ring larger than buffer_.
THEOREM RingsIntact == Spec => []RingInv
  <1>1. Inv => RingInv
    BY DEF Inv
  <1> QED
    BY <1>1, InvHolds, PTL

\* Every stub about was created, and a thread has one exactly between
\* getConnection and releaseConnection.
THEOREM StubsCreated == Spec => []StubInv
  <1>1. Inv => StubInv
    BY DEF Inv
  <1> QED
    BY <1>1, InvHolds, PTL

-----------------------------------------------------------------------------
\* No wakeup is lost.

LEMMA SetsFinite ==
  ASSUME Inv
  PROVE  IsFiniteSet(Idle) /\ \A l : IsFiniteSet(At(l))
  <1>1. MaxSize \in Int
    BY PoolAssumption DEF MaxSize
  <1>2. IsFiniteSet(0 .. MaxSize)
    BY <1>1, FS_Interval
  <1>3. Idle \subseteq 0 .. MaxSize
    BY DEF Inv, TypeOK, Idle
  <1>4. IsFiniteSet(Idle)
    BY <1>2, <1>3, FS_Subset
  <1>5. ASSUME NEW l PROVE IsFiniteSet(At(l))
    <2>1. At(l) \subseteq Threads
      BY DEF At
    <2> QED
      BY <2>1, PoolAssumption, FS_Subset
  <1> QED
    BY <1>4, <1>5

\* A stub taken from the ring leaves the set of idle ones, and no other does.
LEMMA DequeueIdle ==
  ASSUME Inv, ~IsEmpty, Dequeue
  PROVE  slots[head] \in Idle /\ Idle' = Idle \ {slots[head]}
  <1>1. head \in Slots /\ slots[head] # NoStub
    BY HeadFilled DEF Inv
  <1>2. slots' = [slots EXCEPT ![head] = NoStub]
    BY DEF Dequeue
  <1>3. slots[head] \in Idle
    BY <1>1 DEF Idle
  <1>4. \A i \in Slots : i # head => slots[i] # slots[head]
    BY <1>1 DEF Inv, StubExclusive
  <1>5. slots'[head] = NoStub /\ \A i \in Slots : i # head => slots'[i] = slots[i]
    BY <1>1, <1>2 DEF Inv, TypeOK
  <1> QED
    BY <1>1, <1>3, <1>4, <1>5 DEF Idle

\* A pool with nothing to take has no idle stub and may create none.
LEMMA NothingToTake ==
  ASSUME Inv, ~CanTake
  PROVE  Idle = {} /\ current_size = MaxSize
  <1>1. ring \in Nat \ {0} /\ PoolSize \in Nat \ {0}
    BY PoolAssumption DEF Inv, TypeOK
  <1>2. head = tail
    BY DEF CanTake, IsEmpty
  <1>3. \A i \in Slots : ~Filled(i)
    BY <1>1, <1>2 DEF Filled, Slots, Inv, TypeOK
  <1>4. Idle = {}
    BY <1>3 DEF Idle, Inv, RingInv
  <1>5. current_size = MaxSize
    BY <1>1 DEF CanTake, MaxSize, Inv, TypeOK
  <1> QED
    BY <1>4, <1>5

\* A thread that joins those on their way to the pool does no harm.
LEMMA MoreLockers ==
  ASSUME Inv, NoLostWakeup, At("wait") # {},
         Idle' = Idle, current_size' = current_size,
         IsFiniteSet(At("lock")'), At("lock") \subseteq At("lock")'
  PROVE  NoLostWakeup'
  <1>1. Cardinality(At("lock")) <= Cardinality(At("lock")')
    BY FS_Subset
  <1>2. /\ Cardinality(Idle) \in Nat /\ Cardinality(At("lock")) \in Nat
        /\ Cardinality(At("lock")') \in Nat
    BY SetsFinite, FS_CardinalityType
  <1>3. Cardinality(Idle') <= Cardinality(At("lock")')
    BY <1>1, <1>2 DEF NoLostWakeup
  <1> QED
    BY <1>3 DEF NoLostWakeup, MaxSize

LEMMA TakeWakeup ==
  ASSUME Inv, NoLostWakeup, NEW t \in Threads, Take(t)
  PROVE  NoLostWakeup'
  <1> SUFFICES ASSUME At("wait")' # {}
               PROVE  /\ current_size' = MaxSize
                      /\ Cardinality(Idle') <= Cardinality(At("lock")')
    BY DEF NoLostWakeup, MaxSize
  <1>1. pc[t] = "lock" /\ pc' = [pc EXCEPT ![t] = "rpc"] /\ CanTake
    BY DEF Take
  <1>2. At("wait")' = At("wait") /\ At("lock")' = At("lock") \ {t}
    BY <1>1 DEF At, Inv, TypeOK
  <1>3. current_size = MaxSize /\ Cardinality(Idle) <= Cardinality(At("lock"))
    BY <1>2 DEF NoLostWakeup
  <1>4. ~(current_size < MaxSize)
    BY <1>3, PoolAssumption DEF MaxSize
  <1>5. ~IsEmpty /\ Dequeue /\ current_size' = current_size
    BY <1>1, <1>4 DEF Take, CanTake
  <1>6. slots[head] \in Idle /\ Idle' = Idle \ {slots[head]}
    BY <1>5, DequeueIdle
  <1>7. t \in At("lock") /\ IsFiniteSet(Idle) /\ IsFiniteSet(At("lock"))
    BY <1>1, SetsFinite DEF At
  <1>8. /\ Cardinality(Idle') = Cardinality(Idle) - 1
        /\ Cardinality(At("lock")') = Cardinality(At("lock")) - 1
    BY <1>2, <1>6, <1>7, FS_RemoveElement
  <1>9. Cardinality(Idle) \in Nat /\ Cardinality(At("lock")) \in Nat
    BY <1>7, FS_CardinalityType
  <1> QED
    BY <1>3, <1>5, <1>8, <1>9

LEMMA BlockWakeup ==
  ASSUME Inv, NEW t \in Threads, Block(t), Inv'
  PROVE  NoLostWakeup'
  <1>1. Idle = {} /\ current_size = MaxSize
    BY NothingToTake DEF Block
  <1>2. Idle' = Idle /\ current_size' = current_size
    BY DEF Block, ringVars, Idle
  <1>3. At("lock")' \subseteq Threads
    BY DEF At
  <1>4. Cardinality(At("lock")') \in Nat
    BY <1>3, PoolAssumption, FS_Subset, FS_CardinalityType
  <1>5. Cardinality(Idle') = 0
    BY <1>1, <1>2, FS_EmptySet
  <1> QED
    BY <1>1, <1>2, <1>4, <1>5 DEF NoLostWakeup, MaxSize

LEMMA ReleaseWakeup ==
  ASSUME Inv, NoLostWakeup, NEW t \in Threads, ReleaseConnection(t)
  PROVE  NoLostWakeup'
  <1> SUFFICES ASSUME At("wait")' # {}
               PROVE  /\ current_size' = MaxSize
                      /\ Cardinality(Idle') <= Cardinality(At("lock")')
    BY DEF NoLostWakeup, MaxSize
  <1>1. /\ pc[t] = "release" /\ Enqueue(stub[t]) /\ NotifyOne(t)
        /\ current_size' = current_size
    BY DEF ReleaseConnection
  <1>2. At("wait") # {}
    BY <1>1 DEF At, NotifyOne, Inv, TypeOK
  <1>3. PICK w \in At("wait") :
          pc' = [[pc EXCEPT ![t] = "idle"] EXCEPT ![w] = "lock"]
    BY <1>1, <1>2 DEF NotifyOne
  <1>4. At("lock")' = At("lock") \cup {w} /\ w \notin At("lock")
    BY <1>1, <1>3 DEF At, Inv, TypeOK
  <1>5. current_size = MaxSize /\ Cardinality(Idle) <= Cardinality(At("lock"))
    BY <1>2 DEF NoLostWakeup
  <1>6. Idle' \subseteq Idle \cup {stub[t]}
    <2>1. \/ slots' = slots
          \/ tail \in Slots /\ slots' = [slots EXCEPT ![tail] = stub[t]]
      BY <1>1 DEF Enqueue, ringVars
    <2> QED
      BY <2>1 DEF Idle, Inv, TypeOK
  <1>7. IsFiniteSet(Idle) /\ IsFiniteSet(At("lock"))
    BY SetsFinite
  <1>8. Cardinality(At("lock")') = Cardinality(At("lock")) + 1
    BY <1>4, <1>7, FS_AddElement
  <1>9. /\ IsFiniteSet(Idle \cup {stub[t]})
        /\ Cardinality(Idle \cup {stub[t]}) \in {Cardinality(Idle), Cardinality(Idle) + 1}
    BY <1>7, FS_AddElement
  <1>10. /\ IsFiniteSet(Idle')
         /\ Cardinality(Idle') <= Cardinality(Idle \cup {stub[t]})
    BY <1>6, <1>9, FS_Subset
  <1>11. /\ Cardinality(Idle) \in Nat /\ Cardinality(At("lock")) \in Nat
         /\ Cardinality(Idle') \in Nat
    BY <1>7, <1>10, FS_CardinalityType
  <1> QED
    BY <1>1, <1>5, <1>8, <1>9, <1>10, <1>11

LEMMA WakeupNext == Inv /\ NoLostWakeup /\ [Next]_vars => NoLostWakeup'
  <1> SUFFICES ASSUME Inv, NoLostWakeup, [Next]_vars PROVE NoLostWakeup'
    OBVIOUS
  <1>1. Inv'
    BY NextInv
  <1>2. \A l : IsFiniteSet(At(l)')
    <2>1. ASSUME NEW l PROVE At(l)' \subseteq Threads
      BY DEF At
    <2> QED
      BY <2>1, PoolAssumption, FS_Subset
  <1>3. CASE UNCHANGED vars
    BY <1>3 DEF vars, ringVars, NoLostWakeup, At, Idle, MaxSize
  <1>4. ASSUME NEW t \in Threads, Call(t) PROVE NoLostWakeup'
    <2>1. At("wait")' = At("wait") /\ At("lock") \subseteq At("lock")'
      BY <1>4 DEF Call, At, Inv, TypeOK
    <2>2. Idle' = Idle /\ current_size' = current_size
      BY <1>4 DEF Call, ringVars, Idle
    <2>3. CASE At("wait") = {}
      BY <2>1, <2>3 DEF NoLostWakeup
    <2>4. CASE At("wait") # {}
      BY <1>2, <2>1, <2>2, <2>4, MoreLockers
    <2> QED
      BY <2>3, <2>4
  <1>5. ASSUME NEW t \in Threads, Take(t) PROVE NoLostWakeup'
    BY <1>5, TakeWakeup
  <1>6. ASSUME NEW t \in Threads, Block(t) PROVE NoLostWakeup'
    BY <1>1, <1>6, BlockWakeup
  <1>7. ASSUME NEW t \in Threads, SpuriousWakeup(t) PROVE NoLostWakeup'
    <2>1. t \in At("wait") /\ At("lock") \subseteq At("lock")'
      BY <1>7 DEF SpuriousWakeup, At, Inv, TypeOK
    <2>2. Idle' = Idle /\ current_size' = current_size
      BY <1>7 DEF SpuriousWakeup, ringVars, Idle
    <2> QED
      BY <1>2, <2>1, <2>2, MoreLockers
  <1>8. ASSUME NEW t \in Threads, RpcReturns(t) PROVE NoLostWakeup'
    <2>1. At("wait")' = At("wait") /\ At("lock")' = At("lock")
      BY <1>8 DEF RpcReturns, At, Inv, TypeOK
    <2>2. Idle' = Idle /\ current_size' = current_size
      BY <1>8 DEF RpcReturns, ringVars, Idle
    <2> QED
      BY <2>1, <2>2 DEF NoLostWakeup, MaxSize
  <1>9. ASSUME NEW t \in Threads, ReleaseConnection(t) PROVE NoLostWakeup'
    BY <1>9, ReleaseWakeup
  <1> QED
    BY <1>3, <1>4, <1>5, <1>6, <1>7, <1>8, <1>9 DEF Next, GetConnection

\* The single notify_one of releaseConnection is enough: while a thread waits,
\* no idle stub is left without a thread that is about to take it.
THEOREM WakeupsNotLost == Spec => []NoLostWakeup
  <1>1. Init => NoLostWakeup
    BY DEF Init, NoLostWakeup, At
  <1> QED
    BY <1>1, InvHolds, WakeupNext, PTL DEF Spec

-----------------------------------------------------------------------------
\* No stub is lost, and no thread waits, when the ring is what it should be.

\* A ring of PoolSize slots is not full while a thread holds a stub: its
\* PoolSize - 1 usable slots would need as many stubs besides that one.
LEMMA NotFull ==
  ASSUME Inv, ring = PoolSize, NEW s \in 1 .. MaxSize, s \in Lent
  PROVE  ~IsFull /\ tail \in Slots
  <1>1. PoolSize \in Nat \ {0} /\ head \in Slots /\ tail \in Slots
    BY PoolAssumption DEF Inv, TypeOK, Slots
  <1> SUFFICES ASSUME IsFull PROVE FALSE
    BY <1>1
  <1> DEFINE Used == Slots \ {tail}
             Others == (1 .. MaxSize) \ {s}
             f == [i \in Used |-> slots[i]]
  <1>2. \A i \in Used : Filled(i)
    BY <1>1 DEF IsFull, Advance, Filled, Slots
  <1>3. \A i \in Used : slots[i] \in Others
    <2>1. \A i \in Used : slots[i] # NoStub
      BY <1>2 DEF Inv, RingInv
    <2>2. \A i \in Used : slots[i] # s
      BY <2>1 DEF Inv, StubExclusive, Idle
    <2>3. \A i \in Used : slots[i] \in 1 .. MaxSize
      BY <1>1, <2>1 DEF Inv, TypeOK, MaxSize, NoStub
    <2> QED
      BY <2>2, <2>3
  <1>4. f \in [Used -> Others]
    BY <1>3
  <1>5. IsFiniteSet(Used) /\ Cardinality(Used) = PoolSize - 1
    <2>1. 0 \in Int /\ PoolSize - 1 \in Int
      BY <1>1
    <2>2. IsFiniteSet(Slots) /\ Cardinality(Slots) = PoolSize
      BY <1>1, <2>1, FS_Interval DEF Slots
    <2> QED
      BY <1>1, <2>2, FS_RemoveElement
  <1>6. IsFiniteSet(Others) /\ Cardinality(Others) = PoolSize - 2
    <2>1. MaxSize = PoolSize - 1
      BY DEF MaxSize
    <2>2. IsFiniteSet(1 .. MaxSize) /\ Cardinality(1 .. MaxSize) = PoolSize - 1
      BY <1>1, <2>1, FS_Interval
    <2>3. IsFiniteSet(Others) /\ Cardinality(Others) = Cardinality(1 .. MaxSize) - 1
      BY <2>2, FS_RemoveElement
    <2> QED
      BY <1>1, <2>2, <2>3
  <1>7. PICK i, j \in Used : i # j /\ f[i] = f[j]
    <2>1. Cardinality(Others) < Cardinality(Used)
      BY <1>1, <1>5, <1>6
    <2> HIDE DEF Used, Others, f
    <2> QED
      BY <1>4, <1>5, <1>6, <2>1, FS_PigeonHole
  <1>8. slots[i] = slots[j] /\ slots[i] # NoStub
    BY <1>3, <1>7 DEF NoStub
  <1> QED
    BY <1>7, <1>8 DEF Inv, StubExclusive

LEMMA NoStubLostNext ==
  ASSUME Inv, NoStubLost, [Next]_vars
  PROVE  NoStubLost'
  <1>1. CASE UNCHANGED <<ringVars, current_size, stub>>
    BY <1>1 DEF ringVars, NoStubLost, Idle, Lent
  <1>2. ASSUME NEW t \in Threads, Take(t), ring' = PoolSize
        PROVE  Idle' \cup Lent' = 1 .. current_size'
    <2>1. pc[t] = "lock" /\ stub[t] = NoStub
      BY <1>2 DEF Take, Inv, StubInv
    <2>2. CASE ~IsEmpty
      <3>1. /\ Dequeue /\ stub' = [stub EXCEPT ![t] = slots[head]]
            /\ current_size' = current_size
        BY <1>2, <2>2 DEF Take
      <3>2. slots[head] \in Idle /\ Idle' = Idle \ {slots[head]}
        BY <2>2, <3>1, DequeueIdle
      <3>3. Lent' = Lent \cup {slots[head]}
        BY <2>1, <3>1, <3>2 DEF Lent, Idle, Inv, TypeOK
      <3>4. Idle \cup Lent = 1 .. current_size
        BY <1>2, <3>1 DEF Dequeue, NoStubLost
      <3> QED
        BY <3>1, <3>2, <3>3, <3>4
    <2>3. CASE IsEmpty
      <3>1. /\ UNCHANGED ringVars /\ current_size' = current_size + 1
            /\ stub' = [stub EXCEPT ![t] = current_size + 1]
        BY <1>2, <2>3 DEF Take
      <3>2. current_size \in Nat
        BY DEF Inv, TypeOK
      <3>3. Lent' = Lent \cup {current_size + 1}
        BY <2>1, <3>1, <3>2 DEF Lent, NoStub, Inv, TypeOK
      <3>4. Idle' = Idle /\ ring' = ring
        BY <3>1 DEF Idle, ringVars
      <3>5. Idle \cup Lent = 1 .. current_size
        BY <1>2, <3>4 DEF NoStubLost
      <3>6. 1 .. current_size + 1 = (1 .. current_size) \cup {current_size + 1}
        BY <3>2
      <3> QED
        BY <3>1, <3>3, <3>4, <3>5, <3>6
    <2> QED
      BY <2>2, <2>3
  <1>3. ASSUME NEW t \in Threads, ReleaseConnection(t), ring' = PoolSize
        PROVE  Idle' \cup Lent' = 1 .. current_size'
    <2>1. /\ pc[t] = "release" /\ Enqueue(stub[t])
          /\ stub' = [stub EXCEPT ![t] = NoStub]
          /\ current_size' = current_size
      BY <1>3 DEF ReleaseConnection
    <2>2. ring = PoolSize
      BY <1>3, <2>1 DEF Enqueue, ringVars
    <2>3. stub[t] \in 1 .. MaxSize /\ stub[t] \in Lent
      BY <2>1, PoolAssumption DEF Inv, TypeOK, StubInv, MaxSize, NoStub, Lent
    <2>4. ~IsFull /\ tail \in Slots
      BY <2>2, <2>3, NotFull
    <2>5. slots' = [slots EXCEPT ![tail] = stub[t]]
      BY <2>1, <2>4 DEF Enqueue
    <2>6. slots[tail] = NoStub
      BY <2>4 DEF Inv, TypeOK, RingInv, Filled
    <2>7. Idle' = Idle \cup {stub[t]}
      BY <2>3, <2>4, <2>5, <2>6 DEF Idle, Inv, TypeOK, NoStub
    <2>8. Lent' = Lent \ {stub[t]}
      BY <2>1, <2>3 DEF Lent, Inv, TypeOK, StubExclusive
    <2>9. Idle \cup Lent = 1 .. current_size
      BY <2>2 DEF NoStubLost
    <2> QED
      BY <2>1, <2>3, <2>7, <2>8, <2>9
  <1>4. \/ UNCHANGED <<ringVars, current_size, stub>>
        \/ \E t \in Threads : Take(t)
        \/ \E t \in Threads : ReleaseConnection(t)
    BY DEF Next, vars, GetConnection, Call, Block, SpuriousWakeup, RpcReturns
  <1> QED
    BY <1>1, <1>2, <1>3, <1>4 DEF NoStubLost

\* With a ring of pool_size slots, no stub is ever destroyed: enqueue, whose
\* answer releaseConnection ignores, never refuses one.
THEOREM StubsNotLost == Spec => []NoStubLost
  <1>1. Init => NoStubLost
    BY DEF Init, NoStubLost, Idle, Lent
  <1> QED
    BY <1>1, InvHolds, NoStubLostNext, PTL DEF Spec

\* The threads in the pool: a waiter, those that hold a stub, and one that is
\* about to take each idle stub.
LEMMA ShortOfStubs ==
  ASSUME Inv, NoStubLost, NoLostWakeup
  PROVE  WaitsOnlyWhenShort
  <1> SUFFICES ASSUME ring = PoolSize, NEW w \in Threads, pc[w] = "wait"
               PROVE  Cardinality(Threads \ At("idle")) >= PoolSize
    BY DEF WaitsOnlyWhenShort, At
  <1> DEFINE Holding == {t \in Threads : stub[t] # NoStub}
             Lockers == At("lock")
             Busy == Threads \ At("idle")
             holder == [s \in Lent |-> CHOOSE u \in Threads : stub[u] = s]
  <1>1. /\ current_size = MaxSize /\ Cardinality(Idle) <= Cardinality(Lockers)
        /\ Idle \cup Lent = 1 .. MaxSize
    BY DEF NoLostWakeup, NoStubLost, At
  <1>2. /\ IsFiniteSet(Holding) /\ IsFiniteSet(Lockers) /\ IsFiniteSet(Busy)
        /\ IsFiniteSet(Busy \ {w})
    BY PoolAssumption, FS_Subset DEF At
  <1>3. \A s \in Lent : holder[s] \in Holding /\ stub[holder[s]] = s
    BY DEF Lent
  <1>4. IsFiniteSet(Lent) /\ Cardinality(Lent) <= Cardinality(Holding)
    <2>1. holder \in Injection(Lent, Holding)
      BY <1>3 DEF Injection, IsInjective
    <2> HIDE DEF holder, Holding
    <2> QED
      BY <1>2, <2>1, FS_Injection
  <1>5. MaxSize \in Nat /\ PoolSize = MaxSize + 1
    BY PoolAssumption DEF MaxSize
  <1>6. IsFiniteSet(1 .. MaxSize) /\ Cardinality(1 .. MaxSize) = MaxSize
    BY <1>5, FS_Interval
  <1>7. IsFiniteSet(Idle)
    BY <1>1, <1>6, FS_Subset
  <1>8. MaxSize <= Cardinality(Idle) + Cardinality(Lent)
    <2>1. IsFiniteSet(Idle \cap Lent)
      BY <1>7, FS_Subset
    <2>2. Cardinality(Idle \cup Lent)
            = Cardinality(Idle) + Cardinality(Lent) - Cardinality(Idle \cap Lent)
      BY <1>4, <1>7, FS_Union
    <2>3. /\ Cardinality(Idle) \in Nat /\ Cardinality(Lent) \in Nat
          /\ Cardinality(Idle \cap Lent) \in Nat
      BY <1>4, <1>7, <2>1, FS_CardinalityType
    <2>4. Cardinality(Idle \cup Lent) = MaxSize
      BY <1>1, <1>6
    <2> QED
      BY <1>5, <2>2, <2>3, <2>4
  <1>9. Cardinality(Lockers) + Cardinality(Holding) <= Cardinality(Busy \ {w})
    <2>1. Lockers \cap Holding = {}
      BY DEF At, Inv, StubInv
    <2>2. Lockers \cup Holding \subseteq Busy \ {w}
      BY DEF At, Inv, StubInv
    <2> HIDE DEF Lockers, Holding, Busy
    <2>3. /\ Cardinality(Lockers \cup Holding)
               = Cardinality(Lockers) + Cardinality(Holding) - Cardinality({})
      BY <1>2, <2>1, FS_Union
    <2>4. Cardinality(Lockers \cup Holding) <= Cardinality(Busy \ {w})
      BY <1>2, <2>2, FS_Subset
    <2> QED
      BY <1>2, <2>3, <2>4, FS_EmptySet, FS_CardinalityType
  <1>10. Cardinality(Busy \ {w}) = Cardinality(Busy) - 1
    <2>1. w \in Busy
      BY DEF At
    <2> HIDE DEF Busy
    <2> QED
      BY <1>2, <2>1, FS_RemoveElement
  <1> HIDE DEF Lockers, Holding, Busy
  <1>11. Cardinality(Busy) >= PoolSize
    BY <1>1, <1>2, <1>4, <1>5, <1>7, <1>8, <1>9, <1>10, FS_CardinalityType
  <1> QED
    BY <1>11 DEF Busy

\* A thread blocks in getConnection only while as many threads as the ring has
\* slots are in the pool: with pool_size of config.ini, none ever does.
THEOREM WaitsAreShortages == Spec => []WaitsOnlyWhenShort
  BY InvHolds, StubsNotLost, WakeupsNotLost, ShortOfStubs, PTL

\* No thread waits for one that waits as well: as long as a stub is left, idle or
\* with a thread, somebody who is not asleep in cond_.wait has one or takes one.
Moves(t) == pc[t] \in {"rpc", "release"} \/ (pc[t] = "lock" /\ ~IsEmpty)

NoDeadlock ==
  At("wait") # {} /\ (Idle \cup Lent # {} \/ (ring = PoolSize /\ MaxSize > 0))
    => \E t \in Threads : Moves(t)

LEMMA StubMoves ==
  ASSUME Inv, NoLostWakeup, At("wait") # {}, Idle \cup Lent # {}
  PROVE  \E t \in Threads : Moves(t)
  <1>1. CASE Lent # {}
    <2>1. PICK t \in Threads : stub[t] # NoStub
      BY <1>1 DEF Lent
    <2> QED
      BY <2>1 DEF Inv, StubInv, Moves
  <1>2. CASE Idle # {}
    <2>1. IsFiniteSet(Idle) /\ Cardinality(Idle) # 0 /\ Cardinality(Idle) \in Nat
      BY <1>2, SetsFinite, FS_EmptySet, FS_CardinalityType
    <2>2. Cardinality(Idle) <= Cardinality(At("lock")) /\ current_size = MaxSize
      BY DEF NoLostWakeup
    <2>3. At("lock") # {}
      BY <2>1, <2>2, FS_EmptySet
    <2>4. PICK t \in Threads : pc[t] = "lock"
      BY <2>3 DEF At
    <2>5. CanTake
      BY <1>2, NothingToTake
    <2>6. ~(current_size < MaxSize)
      BY <2>2, PoolAssumption DEF MaxSize
    <2> QED
      BY <2>4, <2>5, <2>6 DEF CanTake, Moves
  <1> QED
    BY <1>1, <1>2

\* For every number of threads and every ring: getConnection can come to a stand
\* only by the loss of every stub, and with the intended ring never.
THEOREM NeverStranded == Spec => []NoDeadlock
  <1>1. Inv /\ NoLostWakeup /\ NoStubLost => NoDeadlock
    <2> SUFFICES ASSUME Inv, NoLostWakeup, NoStubLost, At("wait") # {},
                        ring = PoolSize /\ MaxSize > 0
                 PROVE  Idle \cup Lent # {}
      BY StubMoves DEF NoDeadlock
    <2>1. current_size = MaxSize /\ Idle \cup Lent = 1 .. current_size
      BY DEF NoLostWakeup, NoStubLost
    <2>2. 1 \in 1 .. MaxSize
      BY PoolAssumption DEF MaxSize
    <2> QED
      BY <2>1, <2>2
  <1> QED
    BY <1>1, InvHolds, WakeupsNotLost, StubsNotLost, PTL

-----------------------------------------------------------------------------
\* The pool implements FifoPool, the ring being its queue.

\* The places of the queue are filled slots of buffer_, each of them once.
LEMMA QueueSlots ==
  ASSUME TypeOK, RingInv
  PROVE  /\ IdleCount \in 0 .. ring - 1
         /\ IsEmpty <=> IdleCount = 0
         /\ \A i \in 1 .. IdleCount :
              /\ SlotAt(head + i - 1) \in Slots
              /\ Filled(SlotAt(head + i - 1))
              /\ SlotAt(head + i - 1) = head <=> i = 1
  <1>1. ring \in Nat \ {0} /\ PoolSize \in Nat \ {0}
    BY PoolAssumption DEF TypeOK
  <1>2. head \in 0 .. ring - 1 /\ tail \in 0 .. ring - 1
    BY DEF TypeOK
  <1>3. CASE head <= tail
    BY <1>1, <1>2, <1>3 DEF RingInv, IdleCount, SlotAt, IsEmpty, Slots, Filled
  <1>4. CASE ~(head <= tail)
    BY <1>1, <1>2, <1>4 DEF RingInv, IdleCount, SlotAt, IsEmpty, Slots, Filled
  <1> QED
    BY <1>3, <1>4

\* The queue is a sequence of stubs, empty when head_ is tail_.
LEMMA QueueType ==
  ASSUME TypeOK, RingInv
  PROVE  /\ IdleStubs \in Seq(0 .. MaxSize)
         /\ Len(IdleStubs) = IdleCount
         /\ IsEmpty <=> IdleStubs = <<>>
  <1>1. IdleCount \in Nat
    BY QueueSlots, PoolAssumption DEF TypeOK
  <1>2. \A i \in 1 .. IdleCount : slots[SlotAt(head + i - 1)] \in 0 .. MaxSize
    BY QueueSlots DEF TypeOK
  <1>3. IdleStubs \in [1 .. IdleCount -> 0 .. MaxSize]
    BY <1>2 DEF IdleStubs
  <1>4. IdleStubs \in Seq(0 .. MaxSize)
    BY <1>1, <1>3, SeqDef
  <1>5. Len(IdleStubs) = IdleCount
    <2>1. 1 .. Len(IdleStubs) = 1 .. IdleCount /\ Len(IdleStubs) \in Nat
      BY <1>3, <1>4, LenProperties
    <2> QED
      BY <1>1, <2>1
  <1>6. IdleStubs = <<>> <=> IdleCount = 0
    BY <1>4, <1>5, EmptySeq
  <1> QED
    BY <1>4, <1>5, <1>6, QueueSlots

\* dequeue takes the front of the queue.
LEMMA DequeueFront ==
  ASSUME TypeOK, RingInv, ~IsEmpty, Dequeue
  PROVE  /\ Head(IdleStubs) = slots[head]
         /\ IdleStubs' = Tail(IdleStubs)
  <1>1. ring \in Nat \ {0} /\ PoolSize \in Nat \ {0}
    BY PoolAssumption DEF TypeOK
  <1>2. head \in 0 .. ring - 1 /\ tail \in 0 .. ring - 1
    BY DEF TypeOK
  <1>3. head \in Slots /\ slots[head] # NoStub
    BY HeadFilled
  <1>4. /\ slots' = [slots EXCEPT ![head] = NoStub]
        /\ head' = Advance(head) /\ ring' = ring /\ tail' = tail
    BY <1>3 DEF Dequeue
  <1>5. IdleCount' = IdleCount - 1
    BY <1>1, <1>2, <1>4 DEF IdleCount, IsEmpty, Advance
  <1>6. ASSUME NEW i \in 1 .. IdleCount - 1
        PROVE  SlotAt(head + i - 1)' = SlotAt(head + i)
    <2>1. i \in 1 .. ring - 2
      BY <1>1, <1>6, QueueSlots
    <2>2. CASE head + 1 = ring
      BY <1>1, <1>2, <1>4, <2>1, <2>2 DEF SlotAt, Advance
    <2>3. CASE head + 1 # ring
      BY <1>1, <1>2, <1>4, <2>1, <2>3 DEF SlotAt, Advance
    <2> QED
      BY <2>2, <2>3
  <1>7. ASSUME NEW i \in 1 .. IdleCount - 1
        PROVE  slots'[SlotAt(head + i - 1)'] = slots[SlotAt(head + (i + 1) - 1)]
    <2>1. i + 1 \in 1 .. IdleCount /\ i + 1 # 1 /\ head + (i + 1) - 1 = head + i
      BY <1>1, <1>2, QueueSlots
    <2>2. SlotAt(head + i) \in Slots /\ SlotAt(head + i) # head
      BY <2>1, QueueSlots
    <2>3. slots'[SlotAt(head + i)] = slots[SlotAt(head + i)]
      BY <1>4, <2>2 DEF TypeOK
    <2> QED
      BY <1>6, <2>1, <2>3
  <1>8. IdleStubs' = [i \in 1 .. IdleCount - 1 |-> IdleStubs[i + 1]]
    <2>1. IdleStubs' = [i \in 1 .. IdleCount - 1 |-> slots'[SlotAt(head + i - 1)']]
      BY <1>5 DEF IdleStubs
    <2>2. ASSUME NEW i \in 1 .. IdleCount - 1
          PROVE  slots'[SlotAt(head + i - 1)'] = IdleStubs[i + 1]
      <3>1. i + 1 \in 1 .. IdleCount
        BY QueueSlots
      <3> QED
        BY <1>7, <3>1 DEF IdleStubs
    <2> QED
      BY <2>1, <2>2
  <1>9. IdleStubs # <<>> /\ IdleStubs \in Seq(0 .. MaxSize) /\ Len(IdleStubs) = IdleCount
    BY QueueType
  <1>10. Tail(IdleStubs) = [i \in 1 .. IdleCount - 1 |-> IdleStubs[i + 1]]
    <2>1. /\ Tail(IdleStubs) \in Seq(0 .. MaxSize) /\ Len(Tail(IdleStubs)) = IdleCount - 1
          /\ \A i \in 1 .. Len(Tail(IdleStubs)) : Tail(IdleStubs)[i] = IdleStubs[i + 1]
      BY <1>9, HeadTailProperties
    <2>2. Tail(IdleStubs) \in [1 .. IdleCount - 1 -> 0 .. MaxSize]
      BY <2>1, LenProperties
    <2> QED
      BY <2>1, <2>2
  <1>11. Head(IdleStubs) = slots[head]
    <2>1. 1 \in 1 .. IdleCount /\ head + 1 - 1 = head
      BY <1>2, QueueSlots
    <2>2. SlotAt(head + 1 - 1) = head
      BY <2>1, QueueSlots
    <2>3. IdleStubs[1] = slots[head]
      BY <2>1, <2>2 DEF IdleStubs
    <2> QED
      BY <1>9, <2>3
  <1> QED
    BY <1>8, <1>10, <1>11

\* An enqueue that is accepted puts the stub behind all the others.
LEMMA EnqueueBack ==
  ASSUME TypeOK, RingInv, NEW s \in 1 .. MaxSize, ~IsFull, tail \in Slots,
         slots' = [slots EXCEPT ![tail] = s], tail' = Advance(tail),
         ring' = ring, head' = head
  PROVE  IdleStubs' = Append(IdleStubs, s)
  <1>1. ring \in Nat \ {0} /\ PoolSize \in Nat \ {0}
    BY PoolAssumption DEF TypeOK
  <1>2. head \in 0 .. ring - 1 /\ tail \in 0 .. ring - 1
    BY DEF TypeOK
  <1>3. IdleCount \in Nat /\ IdleCount' = IdleCount + 1
    BY <1>1, <1>2 DEF IdleCount, IsFull, Advance
  <1>4. \A i \in Int : SlotAt(i)' = SlotAt(i)
    BY DEF SlotAt
  <1>5. SlotAt(head + IdleCount) = tail
    BY <1>1, <1>2 DEF IdleCount, SlotAt
  <1>6. ASSUME NEW i \in 1 .. IdleCount
        PROVE  slots'[SlotAt(head + i - 1)] = slots[SlotAt(head + i - 1)]
    <2>1. SlotAt(head + i - 1) \in Slots /\ Filled(SlotAt(head + i - 1))
      BY QueueSlots
    <2>2. ~Filled(tail)
      BY <1>1, <1>2 DEF Filled
    <2>3. SlotAt(head + i - 1) # tail
      BY <2>1, <2>2
    <2> QED
      BY <2>1, <2>3 DEF TypeOK
  <1>7. slots'[tail] = s
    BY DEF TypeOK
  <1>8. IdleStubs' = [i \in 1 .. IdleCount + 1 |->
                        IF i = IdleCount + 1 THEN s ELSE IdleStubs[i]]
    <2>1. IdleStubs' = [i \in 1 .. IdleCount + 1 |-> slots'[SlotAt(head + i - 1)]]
      BY <1>2, <1>3, <1>4 DEF IdleStubs
    <2>2. ASSUME NEW i \in 1 .. IdleCount + 1
          PROVE  slots'[SlotAt(head + i - 1)]
                   = IF i = IdleCount + 1 THEN s ELSE IdleStubs[i]
      <3>1. CASE i = IdleCount + 1
        <4>1. head + i - 1 = head + IdleCount
          BY <1>2, <1>3, <3>1
        <4> QED
          BY <1>5, <1>7, <3>1, <4>1
      <3>2. CASE i # IdleCount + 1
        <4>1. i \in 1 .. IdleCount
          BY <1>3, <3>2
        <4> QED
          BY <1>6, <3>2, <4>1 DEF IdleStubs
      <3> QED
        BY <3>1, <3>2
    <2> QED
      BY <2>1, <2>2
  <1>9. IdleStubs \in Seq(0 .. MaxSize) /\ Len(IdleStubs) = IdleCount
    BY QueueType
  <1>10. Append(IdleStubs, s) = [i \in 1 .. IdleCount + 1 |->
                                  IF i = IdleCount + 1 THEN s ELSE IdleStubs[i]]
    <2>1. s \in 0 .. MaxSize
      OBVIOUS
    <2>2. /\ Append(IdleStubs, s) \in Seq(0 .. MaxSize)
          /\ Len(Append(IdleStubs, s)) = IdleCount + 1
          /\ \A i \in 1 .. IdleCount : Append(IdleStubs, s)[i] = IdleStubs[i]
          /\ Append(IdleStubs, s)[IdleCount + 1] = s
      BY <1>9, <2>1, AppendProperties
    <2>3. Append(IdleStubs, s) \in [1 .. IdleCount + 1 -> 0 .. MaxSize]
      BY <2>2, LenProperties
    <2>4. \A i \in 1 .. IdleCount + 1 : i # IdleCount + 1 => i \in 1 .. IdleCount
      BY <1>3
    <2> QED
      BY <2>2, <2>3, <2>4
  <1> QED
    BY <1>8, <1>10

LEMMA PoolStutters ==
  ASSUME UNCHANGED <<ringVars, current_size, stub>>
  PROVE  UNCHANGED Pool!vars
  BY DEF ringVars, Pool!vars, IdleStubs, IdleCount, SlotAt

LEMMA TakeLends ==
  ASSUME Inv, NEW t \in Threads, Take(t)
  PROVE  Pool!Take(t) \/ Pool!Make(t)
  <1>1. stub[t] = NoStub
    BY DEF Take, Inv, StubInv
  <1>2. CASE ~IsEmpty
    <2>1. /\ Dequeue /\ stub' = [stub EXCEPT ![t] = slots[head]]
          /\ current_size' = current_size
      BY <1>2 DEF Take
    <2>2. Head(IdleStubs) = slots[head] /\ IdleStubs' = Tail(IdleStubs)
      BY <1>2, <2>1, DequeueFront DEF Inv
    <2>3. IdleStubs # <<>>
      BY <1>2, QueueType DEF Inv
    <2>4. ring' = ring
      BY <2>1 DEF Dequeue
    <2> QED
      BY <1>1, <2>1, <2>2, <2>3, <2>4 DEF Pool!Take, Pool!Lend, Pool!None, NoStub
  <1>3. CASE IsEmpty
    <2>1. /\ current_size < MaxSize /\ current_size' = current_size + 1
          /\ stub' = [stub EXCEPT ![t] = current_size + 1]
          /\ UNCHANGED ringVars
      BY <1>3 DEF Take, CanTake
    <2>2. IdleStubs' = IdleStubs /\ ring' = ring
      BY <2>1 DEF ringVars, IdleStubs, IdleCount, SlotAt
    <2>3. IdleStubs = <<>>
      BY <1>3, QueueType DEF Inv
    <2> QED
      BY <1>1, <2>1, <2>2, <2>3 DEF Pool!Make, Pool!Lend, Pool!None, NoStub
  <1> QED
    BY <1>2, <1>3

\* A stub is refused or written past the end only with a ring that is not the
\* intended one.
LEMMA ReleaseGives ==
  ASSUME Inv, NEW t \in Threads, ReleaseConnection(t)
  PROVE  Pool!Give(t)
  <1>1. /\ pc[t] = "release" /\ Enqueue(stub[t])
        /\ stub' = [stub EXCEPT ![t] = NoStub] /\ current_size' = current_size
    BY DEF ReleaseConnection
  <1>2. stub[t] \in 1 .. MaxSize /\ stub[t] \in Lent
    BY <1>1, PoolAssumption DEF Inv, TypeOK, StubInv, MaxSize, NoStub, Lent
  <1>3. stub[t] # NoStub
    BY <1>2 DEF NoStub
  <1>4. CASE UNCHANGED ringVars
    <2>1. IsFull \/ tail \notin Slots
      <3>1. ASSUME tail \in Slots, slots' = [slots EXCEPT ![tail] = stub[t]]
            PROVE  slots'[tail] # NoStub
        BY <1>3, <3>1 DEF Inv, TypeOK
      <3>2. tail \in Slots => slots[tail] = NoStub
        BY DEF Inv, TypeOK, RingInv, Filled
      <3> QED
        BY <1>1, <1>4, <3>1, <3>2 DEF Enqueue, ringVars
    <2>2. ring # PoolSize
      BY <1>2, <2>1, NotFull
    <2>3. IdleStubs' = IdleStubs /\ ring' = ring
      BY <1>4 DEF ringVars, IdleStubs, IdleCount, SlotAt
    <2> QED
      BY <1>1, <1>3, <2>2, <2>3 DEF Pool!Give, Pool!None, NoStub
  <1>5. CASE ~UNCHANGED ringVars
    <2>1. /\ ~IsFull /\ tail \in Slots /\ slots' = [slots EXCEPT ![tail] = stub[t]]
          /\ tail' = Advance(tail) /\ ring' = ring /\ head' = head
      BY <1>1, <1>5 DEF Enqueue
    <2>2. IdleStubs' = Append(IdleStubs, stub[t])
      BY <1>2, <2>1, EnqueueBack DEF Inv
    <2> QED
      BY <1>1, <1>3, <2>1, <2>2 DEF Pool!Give, Pool!None, NoStub
  <1> QED
    BY <1>4, <1>5

LEMMA PoolNext == Inv /\ [Next]_vars => [Pool!Next]_(Pool!vars)
  <1> SUFFICES ASSUME Inv, [Next]_vars PROVE Pool!Next \/ UNCHANGED Pool!vars
    OBVIOUS
  <1>1. \/ UNCHANGED <<ringVars, current_size, stub>>
        \/ \E t \in Threads : Take(t)
        \/ \E t \in Threads : ReleaseConnection(t)
    BY DEF Next, vars, GetConnection, Call, Block, SpuriousWakeup, RpcReturns
  <1>2. ASSUME NEW t \in Threads, Take(t) PROVE Pool!Next
    BY <1>2, TakeLends DEF Pool!Next
  <1>3. ASSUME NEW t \in Threads, ReleaseConnection(t) PROVE Pool!Next
    BY <1>3, ReleaseGives DEF Pool!Next
  <1> QED
    BY <1>1, <1>2, <1>3, PoolStutters

\* The ring under its mutex is a queue that lends the stub that was idle
\* longest, for every pool size, every number of threads and every content of
\* the uninitialised Capacity; with the intended ring it loses none.
THEOREM PoolIsFifo == Spec => ImplementsPool
  <1>1. Init => Pool!Init
    <2> SUFFICES ASSUME Init PROVE Pool!Init
      OBVIOUS
    <2>1. IdleCount = 0
      BY DEF Init, IdleCount
    <2>2. IdleStubs = <<>>
      BY <2>1 DEF IdleStubs
    <2> QED
      BY <2>2 DEF Init, Pool!Init, Pool!None, NoStub
  <1> QED
    BY <1>1, InvHolds, PoolNext, PTL DEF Spec, ImplementsPool, Pool!Spec

\* The ring has its intended size and a stub is given back: it is kept.
KeepsStub ==
  ring = PoolSize => \A t \in Threads :
    ReleaseConnection(t) => stub[t] \in Idle' /\ ~overrun'

LEMMA KeepsNext == Inv /\ [Next]_vars => [KeepsStub]_vars
  <1> SUFFICES ASSUME Inv, Next, ring = PoolSize, NEW t \in Threads, ReleaseConnection(t)
               PROVE  stub[t] \in Idle' /\ ~overrun'
    BY DEF KeepsStub
  <1>1. pc[t] = "release" /\ Enqueue(stub[t])
    BY DEF ReleaseConnection
  <1>2. stub[t] \in 1 .. MaxSize /\ stub[t] \in Lent
    BY <1>1, PoolAssumption DEF Inv, TypeOK, StubInv, MaxSize, NoStub, Lent
  <1>3. ~IsFull /\ tail \in Slots
    BY <1>2, NotFull
  <1>4. slots' = [slots EXCEPT ![tail] = stub[t]] /\ overrun' = overrun /\ ~overrun
    BY <1>1, <1>3 DEF Enqueue, Next
  <1>5. stub[t] \in Idle'
    BY <1>2, <1>3, <1>4 DEF Idle, Inv, TypeOK, NoStub
  <1> QED
    BY <1>4, <1>5

\* With the intended ring releaseConnection keeps every stub it is given, as
\* ReleasedStubKept says of all rings: only the uninitialised Capacity breaks it.
THEOREM KeptByIntendedRing == Spec => [][KeepsStub]_vars
  BY InvHolds, KeepsNext, PTL DEF Spec
=============================================================================
