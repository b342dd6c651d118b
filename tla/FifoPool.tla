------------------------------ MODULE FifoPool ------------------------------
(***************************************************************************)
(* What the two pools of the gate server promise the threads that share    *)
(* them: each thread has at most one resource and no two have the same, the*)
(* one that was idle longest is lent first, a new one is only made when    *)
(* none is idle, and one that is given back is kept, unless the pool is    *)
(* lossy, which it is from the start or never.  RpcConnectionPool and      *)
(* SqlPool implement this specification.                                   *)
(***************************************************************************)
EXTENDS Naturals, Sequences

CONSTANTS
  Clients,
  Limit       \* on the resources that are ever made

VARIABLES
  idle,       \* the resources that nobody has, the next one to lend first
  held,       \* the resource each client has
  made,       \* resources made so far, numbered 1..made
  lossy       \* whether a resource given back may be destroyed

vars == <<idle, held, made, lossy>>

None == 0

Init ==
  /\ idle = <<>>
  /\ held = [c \in Clients |-> None]
  /\ made = 0
  /\ lossy \in BOOLEAN

Lend(c, r) ==
  /\ held[c] = None
  /\ held' = [held EXCEPT ![c] = r]

Take(c) ==
  /\ idle # <<>>
  /\ Lend(c, Head(idle))
  /\ idle' = Tail(idle)
  /\ UNCHANGED <<made, lossy>>

Make(c) ==
  /\ idle = <<>> /\ made < Limit
  /\ Lend(c, made + 1)
  /\ made' = made + 1
  /\ UNCHANGED <<idle, lossy>>

Give(c) ==
  /\ held[c] # None
  /\ held' = [held EXCEPT ![c] = None]
  /\ \/ idle' = Append(idle, held[c])
     \/ lossy /\ idle' = idle
  /\ UNCHANGED <<made, lossy>>

Next == \E c \in Clients : Take(c) \/ Make(c) \/ Give(c)

Spec == Init /\ [][Next]_vars
=============================================================================
