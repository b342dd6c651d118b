-------------------------- MODULE GateServer_proofs --------------------------
(***************************************************************************)
(* What the request handlers keep true for every number of io threads,     *)
(* addresses, codes and calls, with or without faults: which code passes   *)
(* which check, who is mailed, and the rows of user_info.                  *)
(***************************************************************************)
EXTENDS GateServer, FiniteSetTheorems, SequenceTheorems, TLAPS

CodeRequests == [op : {"code"}, module : Modules, email : Emails]
PasswordRequests == [op : {"register", "reset"}, email : Emails,
                     code : 0 .. MaxCodes, passwd : Passwords]

Registering == {"regGet", "regExists", "regInsert"}
Resetting == {"resetExists", "resetGet", "resetUpdate"}

\* What a thread in a handler knows of its request.
ReqInv ==
  /\ req \in [Threads -> CodeRequests \cup PasswordRequests \cup {NoReq}]
  /\ \A t \in Threads :
       /\ hpc[t] \in {"issueExists", "issue", "rpc"} => req[t] \in CodeRequests
       /\ hpc[t] = "issueExists" => req[t].module = "ResetPwd"
       /\ hpc[t] \in Registering => req[t] \in PasswordRequests /\ req[t].op = "register"
       /\ hpc[t] \in Resetting => req[t] \in PasswordRequests /\ req[t].op = "reset"

\* A code that Redis holds under a key, or that a call is about to store there,
\* was drawn for that key.
CodeInv ==
  /\ \A k \in Keys : redis[k] # NoCode =>
       redis[k] \in 1 .. codes /\ drawnFor[redis[k]] = k
  /\ \A c \in Calls : pc[c] # "idle" =>
       key[c] \in Keys /\ code[c] \in 1 .. codes /\ drawnFor[code[c]] = key[c]

\* And so was the code of a request that passed the check.
PassedInv ==
  /\ \A t \in Threads :
       hpc[t] \in {"regExists", "regInsert", "resetUpdate"} => req[t].code \in 1 .. codes
  /\ PurposeRespected

TypeInv == GateTypeOK /\ ReqInv /\ CodeInv /\ PassedInv

\* Rows are only added, so that an account found by a check is still there when
\* the code is drawn, stored and mailed.
HasAccount(e) == accounts[e] # <<>>
AccountInv ==
  /\ RegisteredStays
  /\ ResetMailsHaveAccounts
  /\ \A t \in Threads :
       hpc[t] = "issue" /\ req[t].module = "ResetPwd" => HasAccount(req[t].email)
  /\ \A c \in Calls :
       pc[c] # "idle" /\ key[c][1] = "ResetPwd" => HasAccount(key[c][2])

\* Once an address has a row, every further one comes from a thread that had
\* already passed the check.
Inserting(e) == {t \in Threads : hpc[t] = "regInsert" /\ req[t].email = e}
RowInv ==
  \A e \in Emails : HasAccount(e) =>
    Len(accounts[e]) + Cardinality(Inserting(e)) <= Cardinality(Threads)

Inv == TypeInv /\ AccountInv /\ RowInv

-----------------------------------------------------------------------------
\* The verification server on its own.

LEMMA VarifyTypes ==
  ASSUME TypeInv, VarifyStep
  PROVE  TypeOK' /\ CodeInv'
  <1>1. /\ TypeOK /\ CodeInv /\ codes \in Nat /\ MaxCodes \in Nat
        /\ UNCHANGED drawnFor /\ NoCode \in 0 .. MaxCodes
    BY VarifyAssumption DEF TypeInv, GateTypeOK, TypeOK, VarifyStep, handlers, NoCode
  <1>2. ASSUME NEW c \in Calls, NEW r \in {"Success", "RedisErr", "Exception"}, Reply(c, r)
        PROVE  /\ pc' \in [Calls -> {"idle", "set", "expire", "mail"}]
               /\ key' \in [Calls -> Keys \cup {NoKey}]
               /\ code' \in [Calls -> 0 .. MaxCodes]
               /\ reply' \in [Calls -> {"none", "Success", "RedisErr", "Exception", "RpcFailed"}]
               /\ \A d \in Calls : pc'[d] # "idle" =>
                    pc[d] # "idle" /\ key'[d] = key[d] /\ code'[d] = code[d]
    <2>1. code' \in [Calls -> 0 .. MaxCodes]
      BY <1>1, <1>2, Zenon DEF Reply, TypeOK
    <2> QED
      BY <1>1, <1>2, <2>1 DEF Reply, Goto, TypeOK
  <1>3. ASSUME NEW c \in Calls, Set(c) PROVE TypeOK' /\ CodeInv'
    <2>1. /\ pc[c] = "set" /\ key[c] \in Keys /\ code[c] \in 1 .. codes
          /\ drawnFor[code[c]] = key[c]
      BY <1>1, <1>3 DEF Set, CodeInv
    <2>2. code[c] \in 0 .. MaxCodes
      BY <1>1, <2>1 DEF TypeOK
    <2>3. /\ redis' = [redis EXCEPT ![key[c]] = code[c]]
          /\ ttl' = [ttl EXCEPT ![key[c]] = FALSE]
          /\ broken' \in {broken, broken \ {key[c]}}
          /\ pc' = [pc EXCEPT ![c] = "expire"]
          /\ UNCHANGED <<client, mails, codes, key, code, reply>>
      BY <1>3 DEF Set, SetValue, Goto
    <2>4. redis' \in [Keys -> 0 .. MaxCodes]
      BY <1>1, <2>2, <2>3, Zenon DEF TypeOK
    <2>5. ttl' \in [Keys -> BOOLEAN]
      BY <1>1, <2>3, Zenon DEF TypeOK
    <2>6. TypeOK'
      BY <1>1, <2>3, <2>4, <2>5 DEF TypeOK
    <2>7. CodeInv'
      BY <1>1, <2>1, <2>3 DEF TypeOK, CodeInv
    <2> QED
      BY <2>6, <2>7
  <1>4. ASSUME NEW c \in Calls, Expire(c) PROVE TypeOK' /\ CodeInv'
    <2>1. /\ pc' = [pc EXCEPT ![c] = "mail"] /\ pc[c] = "expire"
          /\ UNCHANGED <<redis, client, mails, codes, broken, key, code, reply>>
      BY <1>4 DEF Expire, Goto
    <2>2. (redis[key[c]] # NoCode) \in BOOLEAN
      OBVIOUS
    <2>3. ttl' \in [Keys -> BOOLEAN]
      BY <1>1, <1>4, <2>2, Zenon DEF Expire, TypeOK
    <2>4. TypeOK'
      BY <1>1, <2>1, <2>3 DEF TypeOK
    <2>5. CodeInv'
      BY <1>1, <2>1 DEF TypeOK, CodeInv
    <2> QED
      BY <2>4, <2>5
  <1>5. ASSUME NEW c \in Calls, SetFails(c) \/ ExpireFails(c) PROVE TypeOK' /\ CodeInv'
    <2>1. /\ Reply(c, "RedisErr") /\ pc[c] # "idle"
          /\ broken' \in {broken, broken \cup {key[c]}}
          /\ UNCHANGED <<redis, ttl, client, mails, codes>>
      BY <1>5 DEF SetFails, ExpireFails, store
    <2>2. key[c] \in Keys
      BY <1>1, <2>1 DEF CodeInv
    <2>3. TypeOK'
      BY <1>1, <1>2, <2>1, <2>2 DEF TypeOK
    <2>4. CodeInv'
      BY <1>1, <1>2, <2>1 DEF CodeInv
    <2> QED
      BY <2>3, <2>4
  <1>6. ASSUME NEW c \in Calls, SendMail(c) \/ SendMailFails(c) PROVE TypeOK' /\ CodeInv'
    <2>1. /\ Reply(c, "Success") \/ Reply(c, "Exception")
          /\ pc[c] # "idle"
          /\ mails' \in {mails, mails \cup {<<key[c], code[c]>>}}
          /\ broken' \in {broken, broken \cup {key[c]}}
          /\ UNCHANGED <<redis, ttl, client, codes>>
      BY <1>6 DEF SendMail, SendMailFails, store
    <2>2. key[c] \in Keys /\ code[c] \in 1 .. MaxCodes
      BY <1>1, <2>1 DEF CodeInv, TypeOK
    <2>3. mails' \subseteq Keys \X (1 .. MaxCodes)
      BY <1>1, <2>1, <2>2 DEF TypeOK
    <2>4. broken' \subseteq Keys
      BY <1>1, <2>1, <2>2 DEF TypeOK
    <2>5. TypeOK'
      BY <1>1, <1>2, <2>1, <2>3, <2>4 DEF TypeOK
    <2>6. CodeInv'
      BY <1>1, <1>2, <2>1 DEF CodeInv
    <2> QED
      BY <2>5, <2>6
  <1>7. CASE RedisError
    <2>1. client' = "closed" /\ UNCHANGED <<store, mails, codes, broken, pc, key, code, reply>>
      BY <1>7 DEF RedisError
    <2> QED
      BY <1>1, <2>1 DEF TypeOK, CodeInv, store
  <1>8. CASE Restart
    <2>1. /\ client' = "open" /\ pc' = [c \in Calls |-> "idle"]
          /\ key' = [c \in Calls |-> NoKey] /\ code' = [c \in Calls |-> NoCode]
          /\ reply' = [c \in Calls |-> IF pc[c] = "idle" THEN reply[c] ELSE "RpcFailed"]
          /\ UNCHANGED <<redis, ttl, mails, codes>>
      BY <1>8 DEF Restart, store
    <2>2. broken' \subseteq Keys
      BY <1>1, <1>8 DEF Restart, TypeOK, CodeInv
    <2>3. code' \in [Calls -> 0 .. MaxCodes]
      BY <1>1, <2>1, Zenon
    <2>4. reply' \in [Calls -> {"none", "Success", "RedisErr", "Exception", "RpcFailed"}]
      BY <1>1, <2>1 DEF TypeOK
    <2>5. key' \in [Calls -> Keys \cup {NoKey}] /\ \A c \in Calls : pc'[c] = "idle"
      BY <2>1
    <2>6. TypeOK'
      BY <1>1, <2>1, <2>2, <2>3, <2>4, <2>5 DEF TypeOK
    <2>7. CodeInv'
      BY <1>1, <2>1, <2>5 DEF CodeInv
    <2> QED
      BY <2>6, <2>7
  <1>9. ASSUME NEW k \in Keys, KeyExpires(k) PROVE TypeOK' /\ CodeInv'
    <2>1. /\ redis' = [redis EXCEPT ![k] = NoCode] /\ ttl' = [ttl EXCEPT ![k] = FALSE]
          /\ mails' \subseteq mails /\ broken' = broken \ {k}
          /\ UNCHANGED <<client, codes, pc, key, code, reply>>
      BY <1>9 DEF KeyExpires
    <2>2. redis' \in [Keys -> 0 .. MaxCodes]
      BY <1>1, <2>1, Zenon DEF TypeOK
    <2>3. TypeOK'
      BY <1>1, <2>1, <2>2 DEF TypeOK
    <2>4. CodeInv'
      BY <1>1, <2>1 DEF TypeOK, CodeInv
    <2> QED
      BY <2>3, <2>4
  <1> QED
    BY <1>3, <1>4, <1>5, <1>6, <1>7, <1>8, <1>9 DEF VarifyStep, Step, Environment

-----------------------------------------------------------------------------
\* The handlers.

Places == {"idle", "issueExists", "issue", "rpc", "regGet", "regExists", "regInsert",
           "resetExists", "resetGet", "resetUpdate"}

\* A step of a handler leaves the codes alone, unless it draws one.
LEMMA CodesKept ==
  ASSUME TypeInv, UNCHANGED <<vars, drawnFor>>
  PROVE  /\ TypeOK' /\ CodeInv'
         /\ drawnFor' \in Seq(Modules \X Emails) /\ Len(drawnFor') = codes'
  BY DEF TypeInv, GateTypeOK, TypeOK, CodeInv, vars, store

\* An answer ends the request of its thread, and changes no other.
LEMMA Answering ==
  ASSUME TypeInv, NEW t \in Threads, NEW a, AnswerWith(t, a), hpc[t] # "idle"
  PROVE  /\ hpc' \in [Threads -> Places] /\ told' \subseteq Emails /\ ReqInv'
         /\ \A u \in Threads : u # t => hpc'[u] = hpc[u] /\ req'[u] = req[u]
         /\ hpc'[t] = "idle"
  <1>1. /\ hpc' = [hpc EXCEPT ![t] = "idle"] /\ req' = [req EXCEPT ![t] = NoReq]
        /\ told' \in {told, told \cup {req[t].email}}
        /\ told' # told => req[t].op = "register"
    BY DEF AnswerWith
  <1>2. hpc \in [Threads -> Places] /\ ReqInv /\ told \subseteq Emails
    BY DEF TypeInv, GateTypeOK, Places
  <1>3. hpc' \in [Threads -> Places] /\ hpc'[t] = "idle"
    BY <1>1, <1>2 DEF Places
  <1>4. req' \in [Threads -> CodeRequests \cup PasswordRequests \cup {NoReq}]
    BY <1>1, <1>2, Zenon DEF ReqInv
  <1>5. \A u \in Threads : u # t => hpc'[u] = hpc[u] /\ req'[u] = req[u]
    BY <1>1, <1>2 DEF ReqInv
  <1>6. ReqInv'
    BY <1>2, <1>3, <1>4, <1>5 DEF ReqInv, Registering, Resetting
  <1>7. req[t].op = "register" => req[t].email \in Emails
    <2>1. req[t] \in CodeRequests \cup PasswordRequests \cup {NoReq}
      BY <1>2 DEF ReqInv
    <2>2. req[t] \in CodeRequests => req[t].op # "register"
      BY DEF CodeRequests
    <2>3. req[t] \in PasswordRequests => req[t].email \in Emails
      BY DEF PasswordRequests
    <2>4. req[t] = NoReq => req[t].op # "register"
      BY DEF NoReq
    <2> QED
      BY <2>1, <2>2, <2>3, <2>4
  <1> QED
    BY <1>1, <1>2, <1>3, <1>5, <1>6, <1>7

\* A thread that goes on keeps its request.
LEMMA Continuing ==
  ASSUME TypeInv, NEW t \in Threads, NEW l \in Places, Continue(t, l), hpc[t] # l,
         \/ hpc[t] = "issueExists" /\ l = "issue"
         \/ hpc[t] = "issue" /\ l = "rpc"
         \/ hpc[t] \in Registering /\ l \in Registering
         \/ hpc[t] \in Resetting /\ l \in Resetting
  PROVE  /\ hpc' \in [Threads -> Places] /\ told' = told /\ ReqInv' /\ req' = req
         /\ \A u \in Threads : u # t => hpc'[u] = hpc[u]
         /\ hpc'[t] = l
  <1>1. hpc' = [hpc EXCEPT ![t] = l] /\ UNCHANGED <<req, told>>
    BY DEF Continue
  <1>2. hpc \in [Threads -> Places] /\ ReqInv
    BY DEF TypeInv, GateTypeOK, Places
  <1>3. /\ hpc' \in [Threads -> Places] /\ hpc'[t] = l
        /\ \A u \in Threads : u # t => hpc'[u] = hpc[u]
    BY <1>1, <1>2
  <1>4. ReqInv'
    BY <1>1, <1>2, <1>3 DEF ReqInv, Registering, Resetting
  <1> QED
    BY <1>1, <1>3, <1>4

\* What remains to be shown of such a step.
LEMMA HandlerTypes ==
  ASSUME TypeInv, UNCHANGED <<vars, drawnFor>>, ReqInv',
         hpc' \in [Threads -> Places], told' \subseteq Emails,
         accounts' \in [Emails -> Seq(Passwords)],
         rpc' \in [Threads -> Calls \cup {NoCall}],
         \A u \in Threads :
           \/ hpc'[u] \notin {"regExists", "regInsert", "resetUpdate"}
           \/ hpc'[u] = hpc[u] /\ req'[u] = req[u]
           \/ hpc[u] = "regExists" /\ hpc'[u] = "regInsert" /\ req'[u] = req[u]
           \/ /\ hpc'[u] \in {"regExists", "regInsert"} /\ req'[u] \in PasswordRequests
              /\ Accepts("Register", req'[u].email, req'[u].code)
           \/ /\ hpc'[u] = "resetUpdate" /\ req'[u] \in PasswordRequests
              /\ Accepts("ResetPwd", req'[u].email, req'[u].code)
  PROVE  TypeInv'
  <1>1. /\ TypeOK' /\ CodeInv'
        /\ drawnFor' \in Seq(Modules \X Emails) /\ Len(drawnFor') = codes'
    BY CodesKept
  <1>2. GateTypeOK'
    BY <1>1 DEF GateTypeOK, Places
  <1>3. ASSUME NEW m \in Modules, NEW r \in PasswordRequests, Accepts(m, r.email, r.code)
        PROVE  r.code \in 1 .. codes /\ drawnFor[r.code] = <<m, r.email>>
    <2>1. r.email \in Emails /\ <<m, r.email>> \in Keys
      BY DEF PasswordRequests, Keys
    <2> QED
      BY <1>3, <2>1 DEF Accepts, TypeInv, CodeInv
  <1>4. "Register" \in Modules /\ "ResetPwd" \in Modules
    BY DEF Modules
  <1>5. codes' = codes /\ drawnFor' = drawnFor
    BY DEF vars
  <1>6. ASSUME NEW u \in Threads
        PROVE  /\ hpc'[u] \in {"regExists", "regInsert", "resetUpdate"} => req'[u].code \in 1 .. codes
               /\ hpc'[u] \in {"regExists", "regInsert"} =>
                    drawnFor[req'[u].code] = <<"Register", req'[u].email>>
               /\ hpc'[u] = "resetUpdate" =>
                    drawnFor[req'[u].code] = <<"ResetPwd", req'[u].email>>
    BY <1>3, <1>4 DEF TypeInv, PassedInv, PurposeRespected
  <1>7. PassedInv'
    BY <1>5, <1>6 DEF PassedInv, PurposeRespected
  <1> QED
    BY <1>1, <1>2, <1>7 DEF TypeInv
\* Every answer of a handler, its failed RPC included.
LEMMA AnswerTypes ==
  ASSUME TypeInv, NEW t \in Threads, NEW a, AnswerWith(t, a), hpc[t] # "idle",
         UNCHANGED <<vars, drawnFor>>,
         accounts' \in [Emails -> Seq(Passwords)],
         rpc' \in [Threads -> Calls \cup {NoCall}]
  PROVE  TypeInv'
  <1>1. /\ hpc' \in [Threads -> Places] /\ told' \subseteq Emails /\ ReqInv'
        /\ \A u \in Threads : u # t => hpc'[u] = hpc[u] /\ req'[u] = req[u]
        /\ hpc'[t] = "idle"
    BY Answering
  <1> QED
    BY <1>1, HandlerTypes

\* A thread that goes on to a place that asks nothing of its code.
LEMMA ContinueTypes ==
  ASSUME TypeInv, NEW t \in Threads, NEW l \in Places, Continue(t, l), hpc[t] # l,
         \/ hpc[t] = "issueExists" /\ l = "issue"
         \/ hpc[t] \in Registering /\ l \in Registering
         \/ hpc[t] \in Resetting /\ l \in Resetting,
         \/ l \notin {"regExists", "regInsert", "resetUpdate"}
         \/ hpc[t] = "regExists" /\ l = "regInsert"
         \/ l = "regExists" /\ Accepts("Register", req[t].email, req[t].code)
         \/ l = "resetUpdate" /\ Accepts("ResetPwd", req[t].email, req[t].code),
         UNCHANGED <<vars, drawnFor, accounts, rpc>>
  PROVE  TypeInv'
  <1>1. /\ hpc' \in [Threads -> Places] /\ told' = told /\ ReqInv' /\ req' = req
        /\ \A u \in Threads : u # t => hpc'[u] = hpc[u]
        /\ hpc'[t] = l
    BY Continuing
  <1>2. /\ accounts' \in [Emails -> Seq(Passwords)] /\ told' \subseteq Emails
        /\ rpc' \in [Threads -> Calls \cup {NoCall}]
    BY <1>1 DEF TypeInv, GateTypeOK
  <1>3. l \in {"regExists", "resetUpdate"} => req'[t] \in PasswordRequests
    BY <1>1 DEF ReqInv, Registering, Resetting
  <1>4. ASSUME NEW u \in Threads
        PROVE  \/ hpc'[u] \notin {"regExists", "regInsert", "resetUpdate"}
               \/ hpc'[u] = hpc[u] /\ req'[u] = req[u]
               \/ hpc[u] = "regExists" /\ hpc'[u] = "regInsert" /\ req'[u] = req[u]
               \/ /\ hpc'[u] \in {"regExists", "regInsert"} /\ req'[u] \in PasswordRequests
                  /\ Accepts("Register", req'[u].email, req'[u].code)
               \/ /\ hpc'[u] = "resetUpdate" /\ req'[u] \in PasswordRequests
                  /\ Accepts("ResetPwd", req'[u].email, req'[u].code)
    BY <1>1, <1>3
  <1> QED
    BY <1>1, <1>2, <1>4, HandlerTypes

\* A request comes to a thread that is free, at a place without a code check.
LEMMA BeginTypes ==
  ASSUME TypeInv, NEW t \in Threads, NEW r, NEW l, Begin(t, r, l),
         \/ r \in CodeRequests /\ l = "issue"
         \/ r \in CodeRequests /\ r.module = "ResetPwd" /\ l = "issueExists"
         \/ r \in PasswordRequests /\ r.op = "register" /\ l = "regGet"
         \/ r \in PasswordRequests /\ r.op = "reset" /\ l = "resetExists"
  PROVE  TypeInv'
  <1>1. /\ req' = [req EXCEPT ![t] = r] /\ hpc' = [hpc EXCEPT ![t] = l]
        /\ UNCHANGED <<vars, accounts, rpc, told, drawnFor>>
    BY DEF Begin
  <1>2. hpc \in [Threads -> Places] /\ ReqInv
    BY DEF TypeInv, GateTypeOK, Places
  <1>3. hpc' \in [Threads -> Places]
    BY <1>1, <1>2 DEF Places
  <1>4. req' \in [Threads -> CodeRequests \cup PasswordRequests \cup {NoReq}]
    BY <1>1, <1>2, Zenon DEF ReqInv
  <1>5. \A u \in Threads : IF u = t THEN req'[u] = r /\ hpc'[u] = l
                           ELSE req'[u] = req[u] /\ hpc'[u] = hpc[u]
    BY <1>1, <1>2 DEF ReqInv
  <1>6. ReqInv'
    BY <1>2, <1>4, <1>5 DEF ReqInv, Registering, Resetting
  <1>7. /\ accounts' \in [Emails -> Seq(Passwords)] /\ told' \subseteq Emails
        /\ rpc' \in [Threads -> Calls \cup {NoCall}]
    BY <1>1 DEF TypeInv, GateTypeOK
  <1> QED
    BY <1>1, <1>3, <1>5, <1>6, <1>7, HandlerTypes

LEMMA ArriveTypes ==
  ASSUME TypeInv, NEW t \in Threads, Arrive(t)
  PROVE  TypeInv'
  <1>1. CASE RequestCode(t)
    <2>1. PICK e \in Emails :
            Begin(t, [op |-> "code", module |-> "Register", email |-> e], "issue")
      BY <1>1 DEF RequestCode
    <2>2. [op |-> "code", module |-> "Register", email |-> e] \in CodeRequests
      BY DEF CodeRequests, Modules
    <2> QED
      BY <2>1, <2>2, BeginTypes
  <1>2. CASE RequestResetCode(t)
    <2>1. PICK e \in Emails :
            Begin(t, [op |-> "code", module |-> "ResetPwd", email |-> e], "issueExists")
      BY <1>2 DEF RequestResetCode
    <2>2. [op |-> "code", module |-> "ResetPwd", email |-> e] \in CodeRequests
      BY DEF CodeRequests, Modules
    <2> QED
      BY <2>1, <2>2, BeginTypes
  <1>3. Drawn \cup {NoCode} \subseteq 0 .. MaxCodes
    BY VarifyAssumption DEF Drawn, NoCode, TypeInv, GateTypeOK, TypeOK
  <1>4. CASE RequestRegister(t)
    <2>1. PICK e \in Emails, n \in Drawn \cup {NoCode}, p \in Passwords :
            Begin(t, [op |-> "register", email |-> e, code |-> n, passwd |-> p], "regGet")
      BY <1>4 DEF RequestRegister
    <2>2. [op |-> "register", email |-> e, code |-> n, passwd |-> p] \in PasswordRequests
      BY <1>3 DEF PasswordRequests
    <2> QED
      BY <2>1, <2>2, BeginTypes
  <1>5. CASE RequestReset(t)
    <2>1. PICK e \in Emails, n \in Drawn \cup {NoCode}, p \in Passwords :
            Begin(t, [op |-> "reset", email |-> e, code |-> n, passwd |-> p], "resetExists")
      BY <1>5 DEF RequestReset
    <2>2. [op |-> "reset", email |-> e, code |-> n, passwd |-> p] \in PasswordRequests
      BY <1>3 DEF PasswordRequests
    <2> QED
      BY <2>1, <2>2, BeginTypes
  <1>6. CASE BadJson(t)
    BY <1>6, HandlerTypes DEF BadJson, TypeInv, GateTypeOK, ReqInv, Places
  <1> QED
    BY <1>1, <1>2, <1>4, <1>5, <1>6 DEF Arrive
\* The call draws a code, the last one so far: those drawn before stay as they are.
LEMMA SendRpcTypes ==
  ASSUME TypeInv, NEW t \in Threads, SendRpc(t)
  PROVE  TypeInv'
  <1> DEFINE m == req[t].module
             e == req[t].email
  <1>1. PICK c \in Calls : /\ GetVarifyCode(c, m, e)
                           /\ rpc' = [rpc EXCEPT ![t] = c]
    BY DEF SendRpc
  <1>2. /\ hpc[t] = "issue" /\ Continue(t, "rpc") /\ UNCHANGED accounts
        /\ drawnFor' = Append(drawnFor, <<m, e>>)
    BY DEF SendRpc
  <1>3. /\ codes' = codes + 1 /\ codes < MaxCodes
        /\ key' = [key EXCEPT ![c] = <<m, e>>] /\ code' = [code EXCEPT ![c] = codes + 1]
        /\ reply' = [reply EXCEPT ![c] = "none"] /\ pc' = [pc EXCEPT ![c] = "set"]
        /\ UNCHANGED <<redis, ttl, client, mails, broken>>
    BY <1>1 DEF GetVarifyCode, KeyOf, Goto, store
  <1>4. <<m, e>> \in Keys
    <2>1. req[t] \in CodeRequests
      BY <1>2 DEF TypeInv, ReqInv
    <2> QED
      BY <2>1 DEF CodeRequests, Keys
  <1>5. /\ TypeOK /\ codes \in Nat /\ MaxCodes \in Nat
        /\ drawnFor \in Seq(Keys) /\ Len(drawnFor) = codes
    BY VarifyAssumption DEF TypeInv, GateTypeOK, TypeOK, Keys
  <1>6. /\ drawnFor' \in Seq(Keys) /\ Len(drawnFor') = codes'
        /\ drawnFor'[codes + 1] = <<m, e>>
        /\ \A n \in 1 .. codes : n \in 1 .. codes' /\ drawnFor'[n] = drawnFor[n]
    BY <1>2, <1>3, <1>4, <1>5
  <1>7. TypeOK'
    <2>1. codes + 1 \in 0 .. MaxCodes
      BY <1>3, <1>5
    <2>2. code' \in [Calls -> 0 .. MaxCodes]
      BY <1>3, <1>5, <2>1, Zenon DEF TypeOK
    <2>3. key' \in [Calls -> Keys \cup {NoKey}]
      BY <1>3, <1>4, <1>5, Zenon DEF TypeOK
    <2> QED
      BY <1>3, <1>5, <2>1, <2>2, <2>3 DEF TypeOK
  <1>8. CodeInv'
    <2>1. \A k \in Keys : redis'[k] # NoCode =>
            redis'[k] \in 1 .. codes' /\ drawnFor'[redis'[k]] = k
      BY <1>3, <1>6 DEF TypeInv, CodeInv
    <2>2. ASSUME NEW d \in Calls, pc'[d] # "idle"
          PROVE  key'[d] \in Keys /\ code'[d] \in 1 .. codes' /\ drawnFor'[code'[d]] = key'[d]
      <3>1. CASE d = c
        BY <1>3, <1>4, <1>5, <1>6, <3>1 DEF TypeOK
      <3>2. CASE d # c
        <4>1. pc'[d] = pc[d] /\ key'[d] = key[d] /\ code'[d] = code[d]
          BY <1>3, <1>5, <3>2 DEF TypeOK
        <4> QED
          BY <1>6, <2>2, <4>1 DEF TypeInv, CodeInv
      <3> QED
        BY <3>1, <3>2
    <2> QED
      BY <2>1, <2>2 DEF CodeInv
  <1>9. /\ hpc' \in [Threads -> Places] /\ told' = told /\ ReqInv' /\ req' = req
        /\ \A u \in Threads : u # t => hpc'[u] = hpc[u]
        /\ hpc'[t] = "rpc"
    BY <1>2, Continuing DEF Places
  <1>10. GateTypeOK'
    <2>1. rpc' \in [Threads -> Calls \cup {NoCall}]
      BY <1>1 DEF TypeInv, GateTypeOK
    <2> QED
      BY <1>2, <1>6, <1>7, <1>9, <2>1 DEF TypeInv, GateTypeOK, Places, Keys
  <1>11. PassedInv'
    <2>1. \A u \in Threads : hpc'[u] \in {"regExists", "regInsert", "resetUpdate"} =>
                              hpc'[u] = hpc[u]
      BY <1>9
    <2> QED
      BY <1>6, <1>9, <2>1 DEF TypeInv, PassedInv, PurposeRespected
  <1> QED
    BY <1>8, <1>9, <1>10, <1>11 DEF TypeInv

\* What a thread may write to user_info.
LEMMA AccountTypes ==
  ASSUME TypeInv, NEW t \in Threads, hpc[t] = "regInsert",
         Insert(req[t].email, req[t].passwd)
  PROVE  accounts' \in [Emails -> Seq(Passwords)]
  <1> DEFINE e == req[t].email
             p == req[t].passwd
  <1>1. e \in Emails /\ p \in Passwords
    <2>1. req[t] \in PasswordRequests
      BY DEF TypeInv, ReqInv, Registering
    <2> QED
      BY <2>1 DEF PasswordRequests
  <1>2. accounts \in [Emails -> Seq(Passwords)]
    BY DEF TypeInv, GateTypeOK
  <1>3. Append(accounts[e], p) \in Seq(Passwords)
    BY <1>1, <1>2
  <1>4. accounts' = [accounts EXCEPT ![e] = Append(accounts[e], p)]
    BY DEF Insert
  <1> QED
    BY <1>2, <1>3, <1>4, Zenon

LEMMA HandleTypes ==
  ASSUME TypeInv, NEW t \in Threads, Handle(t) \/ RpcFails(t)
  PROVE  TypeInv'
  <1>1. /\ accounts \in [Emails -> Seq(Passwords)]
        /\ rpc \in [Threads -> Calls \cup {NoCall}]
    BY DEF TypeInv, GateTypeOK
  <1>2. \A u \in Threads : [rpc EXCEPT ![u] = NoCall] \in [Threads -> Calls \cup {NoCall}]
    BY <1>1
  <1>3. CASE IssueExists(t)
    <2>1. \/ Continue(t, "issue")
          \/ AnswerWith(t, "ERR_USER_NON") \/ AnswerWith(t, "ERR_SERVER")
      BY <1>3 DEF IssueExists
    <2> QED
      BY <1>1, <1>3, <2>1, AnswerTypes, ContinueTypes DEF IssueExists, Places
  <1>4. CASE SendRpc(t)
    BY <1>4, SendRpcTypes
  <1>5. CASE ReceiveReply(t) \/ RpcFails(t)
    <2>1. PICK a : AnswerWith(t, a)
      BY <1>5 DEF ReceiveReply, RpcFails
    <2> QED
      BY <1>1, <1>2, <1>5, <2>1, AnswerTypes DEF ReceiveReply, RpcFails
  <1>6. CASE RegGet(t)
    <2>1. \/ /\ Accepts("Register", req[t].email, req[t].code)
             /\ Continue(t, "regExists")
          \/ AnswerWith(t, "ERR_VARIFYCODE") \/ AnswerWith(t, "ERR_SERVER")
      BY <1>6 DEF RegGet
    <2> QED
      BY <1>1, <1>6, <2>1, AnswerTypes, ContinueTypes DEF RegGet, Places, Registering
  <1>7. CASE RegExists(t)
    <2>1. \/ Continue(t, "regInsert")
          \/ AnswerWith(t, "ERR_EMAIL_REGISTERED") \/ AnswerWith(t, "ERR_SERVER")
      BY <1>7 DEF RegExists
    <2> QED
      BY <1>1, <1>7, <2>1, AnswerTypes, ContinueTypes DEF RegExists, Places, Registering
  <1>8. CASE RegInsert(t)
    <2>1. accounts' \in [Emails -> Seq(Passwords)]
      BY <1>1, <1>8, AccountTypes DEF RegInsert
    <2>2. PICK a : AnswerWith(t, a)
      BY <1>8 DEF RegInsert
    <2> QED
      BY <1>1, <1>8, <2>1, <2>2, AnswerTypes DEF RegInsert
  <1>9. CASE ResetExists(t)
    <2>1. \/ Continue(t, "resetGet")
          \/ AnswerWith(t, "ERR_USER_NON") \/ AnswerWith(t, "ERR_SERVER")
      BY <1>9 DEF ResetExists
    <2> QED
      BY <1>1, <1>9, <2>1, AnswerTypes, ContinueTypes DEF ResetExists, Places, Resetting
  <1>10. CASE ResetGet(t)
    <2>1. \/ /\ Accepts("ResetPwd", req[t].email, req[t].code)
             /\ Continue(t, "resetUpdate")
          \/ AnswerWith(t, "ERR_VARIFYCODE") \/ AnswerWith(t, "ERR_SERVER")
      BY <1>10 DEF ResetGet
    <2> QED
      BY <1>1, <1>10, <2>1, AnswerTypes, ContinueTypes DEF ResetGet, Places, Resetting
  <1>11. CASE ResetUpdate(t)
    <2>1. PICK a : AnswerWith(t, a)
      BY <1>11 DEF ResetUpdate
    <2> QED
      BY <1>1, <1>11, <2>1, AnswerTypes DEF ResetUpdate, UpdatePwd
  <1> QED
    BY <1>3, <1>4, <1>5, <1>6, <1>7, <1>8, <1>9, <1>10, <1>11 DEF Handle

LEMMA NextTypes == TypeInv /\ [GateNext]_allVars => TypeInv'
  <1> SUFFICES ASSUME TypeInv, [GateNext]_allVars PROVE TypeInv'
    OBVIOUS
  <1>1. CASE VarifyStep
    <2>1. TypeOK' /\ CodeInv' /\ UNCHANGED <<handlers, codes>>
      BY <1>1, VarifyTypes DEF VarifyStep, Step, Environment, Set, Expire, SetFails,
         ExpireFails, SendMail, SendMailFails, RedisError, Restart, KeyExpires
    <2> QED
      BY <2>1 DEF TypeInv, GateTypeOK, ReqInv, PassedInv, PurposeRespected, handlers
  <1>2. CASE UNCHANGED allVars
    BY <1>2, CodesKept DEF allVars, handlers, vars, TypeInv, GateTypeOK, ReqInv, PassedInv,
       PurposeRespected
  <1> QED
    BY <1>1, <1>2, HandleTypes, ArriveTypes DEF GateNext

LEMMA InitTypes == GateInit => TypeInv
  <1> SUFFICES ASSUME GateInit PROVE TypeInv
    OBVIOUS
  <1>1. MaxCodes \in Nat /\ NoCode \in 0 .. MaxCodes
    BY VarifyAssumption DEF NoCode
  <1>2. TypeOK
    <2>1. redis \in [Keys -> 0 .. MaxCodes] /\ code \in [Calls -> 0 .. MaxCodes]
      BY <1>1, Zenon DEF GateInit, Init
    <2> QED
      BY <1>1, <2>1 DEF GateInit, Init, TypeOK
  <1>3. GateTypeOK
    BY <1>2 DEF GateInit, Init, GateTypeOK
  <1>4. ReqInv
    BY DEF GateInit, ReqInv, Registering, Resetting
  <1>5. CodeInv /\ PassedInv
    BY DEF GateInit, Init, CodeInv, PassedInv, PurposeRespected
  <1> QED
    BY <1>3, <1>4, <1>5 DEF TypeInv

-----------------------------------------------------------------------------
LEMMA Appending ==
  ASSUME NEW S, NEW s \in Seq(S), NEW x \in S
  PROVE  Append(s, x) # <<>> /\ Len(Append(s, x)) = Len(s) + 1
  <1>1. Len(Append(s, x)) = Len(s) + 1 /\ Len(s) \in Nat /\ Len(<<>>) = 0
    OBVIOUS
  <1> QED
    BY <1>1

\* No step takes the last row of an address away.

LEMMA AccountsKept ==
  ASSUME TypeInv, [GateNext]_allVars, NEW e \in Emails, HasAccount(e)
  PROVE  HasAccount(e)'
  <1>1. accounts \in [Emails -> Seq(Passwords)]
    BY DEF TypeInv, GateTypeOK
  <1>2. ASSUME NEW t \in Threads, RegInsert(t) PROVE HasAccount(e)'
    <2>1. CASE UNCHANGED accounts
      BY <2>1 DEF HasAccount
    <2>2. CASE Insert(req[t].email, req[t].passwd)
      <3>1. hpc[t] = "regInsert"
        BY <1>2 DEF RegInsert
      <3>2. req[t].email \in Emails /\ req[t].passwd \in Passwords
        BY <3>1 DEF TypeInv, ReqInv, Registering, PasswordRequests
      <3>3. accounts[req[t].email] \in Seq(Passwords)
        BY <1>1, <3>2
      <3>4. Append(accounts[req[t].email], req[t].passwd) # <<>>
        BY <3>2, <3>3, Appending
      <3> QED
        BY <1>1, <2>2, <3>2, <3>4 DEF Insert, HasAccount
    <2> QED
      BY <1>2, <2>1, <2>2 DEF RegInsert
  <1>3. CASE VarifyStep \/ UNCHANGED allVars
    BY <1>3 DEF VarifyStep, allVars, handlers, HasAccount
  <1>4. ASSUME NEW t \in Threads, Arrive(t) PROVE HasAccount(e)'
    BY <1>4 DEF Arrive, RequestCode, RequestResetCode, RequestRegister, RequestReset,
       BadJson, Begin, HasAccount
  <1>5. ASSUME NEW t \in Threads, Handle(t) \/ RpcFails(t) PROVE HasAccount(e)'
    BY <1>2, <1>5 DEF Handle, RpcFails, IssueExists, SendRpc, ReceiveReply, RegGet, RegExists,
       ResetExists, ResetGet, ResetUpdate, UpdatePwd, HasAccount
  <1> QED
    BY <1>3, <1>4, <1>5 DEF GateNext

\* An address said to be registered has a row when it is said.
LEMMA ToldTruly ==
  ASSUME TypeInv, AccountInv, [GateNext]_allVars
  PROVE  RegisteredStays'
  <1>1. told \subseteq Emails /\ told' \subseteq Emails /\ accounts \in [Emails -> Seq(Passwords)]
    BY NextTypes DEF TypeInv, GateTypeOK
  <1>2. \A e \in told : HasAccount(e)'
    BY <1>1, AccountsKept DEF AccountInv, RegisteredStays, HasAccount
  <1>3. ASSUME NEW t \in Threads, Handle(t) \/ RpcFails(t), NEW e \in told', e \notin told
        PROVE  HasAccount(e)'
    <2>1. ASSUME NEW a, AnswerWith(t, a)
          PROVE  a \in {"SUCCESS", "ERR_EMAIL_REGISTERED"} /\ req[t].op = "register" /\ e = req[t].email
      BY <1>3, <2>1 DEF AnswerWith
    <2>2. ~ \E l : Continue(t, l)
      BY <1>3 DEF Continue
    <2>3. ~IssueExists(t) /\ ~RpcFails(t) /\ ~RegGet(t) /\ ~ResetExists(t) /\ ~SendRpc(t)
      BY <2>1, <2>2 DEF IssueExists, RpcFails, RegGet, ResetExists, SendRpc
    <2>4. ~ResetGet(t)
      BY <2>1, <2>2 DEF ResetGet
    <2>5. ~ResetUpdate(t)
      <3>1. ResetUpdate(t) => hpc[t] \in Resetting
        BY DEF ResetUpdate, Resetting
      <3>2. hpc[t] \in Resetting => req[t].op = "reset"
        BY DEF TypeInv, ReqInv
      <3> QED
        BY <2>1, <3>1, <3>2 DEF ResetUpdate
    <2>6. ~ReceiveReply(t)
      <3>1. ReceiveReply(t) => req[t] \in CodeRequests
        BY DEF ReceiveReply, TypeInv, ReqInv
      <3>2. req[t] \in CodeRequests => req[t].op # "register"
        BY DEF CodeRequests
      <3> QED
        BY <2>1, <3>1, <3>2 DEF ReceiveReply
    <2>7. CASE RegExists(t)
      <3>1. PICK x \in EmailExists(req[t].email) : x = 1
        BY <2>1, <2>2, <2>7 DEF RegExists
      <3>2. accounts[req[t].email] # <<>> /\ e = req[t].email /\ accounts' = accounts
        BY <2>1, <2>2, <2>7, <3>1 DEF RegExists, EmailExists
      <3> QED
        BY <3>2 DEF HasAccount
    <2>8. CASE RegInsert(t)
      <3>1. Insert(req[t].email, req[t].passwd) /\ e = req[t].email
        BY <2>1, <2>8 DEF RegInsert
      <3>2. req[t].email \in Emails /\ req[t].passwd \in Passwords
        <4>1. hpc[t] = "regInsert"
          BY <2>8 DEF RegInsert
        <4> QED
          BY <4>1 DEF TypeInv, ReqInv, Registering, PasswordRequests
      <3>3. accounts[e] \in Seq(Passwords)
        BY <1>1, <3>1, <3>2
      <3>4. Append(accounts[e], req[t].passwd) # <<>>
        BY <3>2, <3>3, Appending
      <3> QED
        BY <1>1, <3>1, <3>2, <3>4 DEF Insert, HasAccount
    <2> QED
      BY <1>3, <2>3, <2>4, <2>5, <2>6, <2>7, <2>8 DEF Handle
  <1>4. ASSUME NEW t \in Threads, Arrive(t) PROVE told' = told
    BY <1>4 DEF Arrive, RequestCode, RequestResetCode, RequestRegister, RequestReset,
       BadJson, Begin
  <1>5. CASE VarifyStep \/ UNCHANGED allVars
    BY <1>2, <1>5 DEF VarifyStep, allVars, handlers, RegisteredStays, HasAccount
  <1> QED
    BY <1>2, <1>3, <1>4, <1>5 DEF GateNext, RegisteredStays, HasAccount

\* The calls of the verification server keep the address they were made for.
LEMMA CallsKept ==
  ASSUME TypeInv, VarifyStep
  PROVE  /\ \A c \in Calls : pc'[c] # "idle" => pc[c] # "idle" /\ key'[c] = key[c]
         /\ \A m \in mails' : m \in mails \/ \E c \in Calls : pc[c] # "idle" /\ m[1] = key[c]
  <1>1. pc \in [Calls -> {"idle", "set", "expire", "mail"}] /\ key \in [Calls -> Keys \cup {NoKey}]
    BY DEF TypeInv, GateTypeOK, TypeOK
  <1>2. ASSUME NEW d \in Calls, Step(d)
        PROVE  /\ pc[d] # "idle"
               /\ \A c \in Calls : pc'[c] # "idle" => pc[c] # "idle" /\ key'[c] = key[c]
    <2>1. pc[d] # "idle"
      BY <1>2 DEF Step, Set, Expire, SetFails, ExpireFails, SendMail, SendMailFails
    <2>2. CASE Set(d) \/ Expire(d)
      BY <1>1, <2>1, <2>2 DEF Set, Expire, Goto
    <2>3. CASE SetFails(d) \/ ExpireFails(d) \/ SendMail(d) \/ SendMailFails(d)
      BY <1>1, <2>1, <2>3 DEF SetFails, ExpireFails, SendMail, SendMailFails, Reply, Goto
    <2> QED
      BY <1>2, <2>1, <2>2, <2>3 DEF Step
  <1>3. ASSUME NEW d \in Calls, Step(d), NEW m \in mails', m \notin mails
        PROVE  m[1] = key[d]
    BY <1>3 DEF Step, Set, Expire, SetFails, ExpireFails, SendMail, SendMailFails
  <1>4. ASSUME Environment
        PROVE  /\ mails' \subseteq mails
               /\ \A c \in Calls : pc'[c] # "idle" => pc[c] # "idle" /\ key'[c] = key[c]
    BY <1>1, <1>4 DEF Environment, RedisError, Restart, KeyExpires
  <1> QED
    BY <1>2, <1>3, <1>4 DEF VarifyStep

LEMMA NextAccounts == TypeInv /\ AccountInv /\ [GateNext]_allVars => AccountInv'
  <1> SUFFICES ASSUME TypeInv, AccountInv, [GateNext]_allVars PROVE AccountInv'
    OBVIOUS
  <1> USE DEF HasAccount
  <1>1. TypeInv' /\ RegisteredStays'
    BY NextTypes, ToldTruly
  <1>2. /\ \A k \in Keys : k[2] \in Emails
        /\ \A m \in mails : m[1] \in Keys
        /\ \A c \in Calls : pc[c] # "idle" => key[c] \in Keys
        /\ \A t \in Threads : hpc[t] = "issue" => req[t].email \in Emails
    <2>1. \A t \in Threads : hpc[t] = "issue" => req[t].email \in Emails
      BY DEF TypeInv, ReqInv, CodeRequests
    <2> QED
      BY <2>1 DEF TypeInv, GateTypeOK, TypeOK, CodeInv, Keys
  <1>3. \A e \in Emails : HasAccount(e) => HasAccount(e)'
    BY AccountsKept
  <1>4. CASE VarifyStep
    <2>1. UNCHANGED <<accounts, hpc, req>>
      BY <1>4 DEF VarifyStep, handlers
    <2>2. ResetMailsHaveAccounts'
      BY <1>2, <1>4, <2>1, CallsKept DEF AccountInv, ResetMailsHaveAccounts
    <2>3. \A c \in Calls : pc'[c] # "idle" /\ key'[c][1] = "ResetPwd" => HasAccount(key'[c][2])
      BY <1>4, CallsKept DEF AccountInv
    <2> QED
      BY <1>1, <2>1, <2>2, <2>3 DEF AccountInv
  <1>5. CASE UNCHANGED allVars
    BY <1>1, <1>5 DEF allVars, vars, handlers, AccountInv, ResetMailsHaveAccounts
  <1>6. ASSUME UNCHANGED vars,
               \A t \in Threads : hpc'[t] = "issue" /\ req'[t].module = "ResetPwd" =>
                 HasAccount(req'[t].email) /\ req'[t].email \in Emails
        PROVE  AccountInv'
    <2>1. ResetMailsHaveAccounts'
      BY <1>2, <1>3, <1>6 DEF vars, AccountInv, ResetMailsHaveAccounts
    <2>2. UNCHANGED <<pc, key>>
      BY <1>6 DEF vars
    <2>3. \A c \in Calls : pc[c] # "idle" /\ key[c][1] = "ResetPwd" => accounts'[key[c][2]] # <<>>
      BY <1>2, <1>3 DEF AccountInv
    <2>4. \A t \in Threads : hpc'[t] = "issue" /\ req'[t].module = "ResetPwd" =>
            accounts'[req'[t].email] # <<>>
      BY <1>3, <1>6
    <2> QED
      BY <1>1, <2>1, <2>2, <2>3, <2>4 DEF AccountInv
  <1>7. ASSUME NEW t \in Threads, Arrive(t) PROVE AccountInv'
    <2>1. CASE BadJson(t)
      BY <1>2, <1>6, <2>1 DEF BadJson, AccountInv
    <2>2. ASSUME NEW r, NEW l, Begin(t, r, l),
                 l = "issue" => r.module = "Register"
          PROVE  AccountInv'
      <3>1. /\ UNCHANGED <<vars, accounts>>
            /\ \A u \in Threads : \/ hpc'[u] = hpc[u] /\ req'[u] = req[u]
                                  \/ hpc'[u] = l /\ req'[u] = r
        BY <2>2 DEF Begin, TypeInv, GateTypeOK, ReqInv
      <3>2. "Register" # "ResetPwd"
        OBVIOUS
      <3> QED
        BY <1>2, <1>6, <2>2, <3>1, <3>2 DEF AccountInv
    <2>3. CASE RequestCode(t)
      BY <2>2, <2>3 DEF RequestCode
    <2>4. CASE RequestResetCode(t) \/ RequestRegister(t) \/ RequestReset(t)
      BY <2>2, <2>4 DEF RequestResetCode, RequestRegister, RequestReset
    <2> QED
      BY <1>7, <2>1, <2>3, <2>4 DEF Arrive
  <1>8. ASSUME NEW t \in Threads, Handle(t) \/ RpcFails(t) PROVE AccountInv'
    <2>1. hpc \in [Threads -> Places] /\ ReqInv
      BY DEF TypeInv, GateTypeOK, Places
    <2>2. ASSUME NEW a, AnswerWith(t, a), UNCHANGED vars PROVE AccountInv'
      <3>1. \A u \in Threads : hpc'[u] = "issue" => hpc[u] = "issue" /\ req'[u] = req[u]
        BY <2>1, <2>2 DEF AnswerWith, ReqInv
      <3> QED
        BY <1>2, <1>3, <1>6, <2>2, <3>1 DEF AccountInv
    <2>3. ASSUME NEW l, Continue(t, l), l # "issue", UNCHANGED vars PROVE AccountInv'
      <3>1. \A u \in Threads : hpc'[u] = "issue" => hpc[u] = "issue" /\ req'[u] = req[u]
        BY <2>1, <2>3 DEF Continue
      <3> QED
        BY <1>2, <1>3, <1>6, <2>3, <3>1 DEF AccountInv
    <2>4. CASE IssueExists(t)
      <3>1. CASE \E a : AnswerWith(t, a)
        BY <2>2, <2>4, <3>1 DEF IssueExists
      <3>2. CASE Continue(t, "issue") /\ 1 \in EmailExists(req[t].email)
        <4>1. accounts[req[t].email] # <<>> /\ UNCHANGED <<vars, accounts, req>>
          BY <2>4, <3>2 DEF IssueExists, EmailExists, Continue
        <4>2. req[t].email \in Emails
          BY <2>1, <2>4 DEF IssueExists, ReqInv, CodeRequests
        <4>3. \A u \in Threads : u # t => hpc'[u] = hpc[u]
          BY <2>1, <3>2 DEF Continue
        <4> QED
          BY <1>2, <1>6, <4>1, <4>2, <4>3 DEF AccountInv
      <3> QED
        BY <2>4, <3>1, <3>2 DEF IssueExists
    <2>5. CASE SendRpc(t)
      <3>1. PICK c \in Calls : GetVarifyCode(c, req[t].module, req[t].email)
        BY <2>5 DEF SendRpc
      <3>2. /\ pc' = [pc EXCEPT ![c] = "set"]
            /\ key' = [key EXCEPT ![c] = <<req[t].module, req[t].email>>]
            /\ UNCHANGED <<mails, accounts, req>> /\ hpc[t] = "issue"
            /\ hpc' = [hpc EXCEPT ![t] = "rpc"]
        BY <2>5, <3>1 DEF SendRpc, GetVarifyCode, KeyOf, Goto, Continue
      <3>3. pc \in [Calls -> {"idle", "set", "expire", "mail"}] /\ key \in [Calls -> Keys \cup {NoKey}]
        BY DEF TypeInv, GateTypeOK, TypeOK
      <3>4. \A d \in Calls : pc'[d] # "idle" /\ key'[d][1] = "ResetPwd" => HasAccount(key'[d][2])
        BY <3>2, <3>3 DEF AccountInv
      <3>5. \A u \in Threads : hpc'[u] = "issue" => hpc[u] = "issue"
        BY <2>1, <3>2
      <3> QED
        BY <1>1, <3>2, <3>4, <3>5 DEF AccountInv, ResetMailsHaveAccounts
    <2>6. CASE ReceiveReply(t) \/ RpcFails(t)
      BY <2>2, <2>6 DEF ReceiveReply, RpcFails
    <2>7. CASE RegGet(t) \/ RegExists(t) \/ RegInsert(t)
      BY <2>2, <2>3, <2>7 DEF RegGet, RegExists, RegInsert
    <2>8. CASE ResetExists(t) \/ ResetGet(t) \/ ResetUpdate(t)
      BY <2>2, <2>3, <2>8 DEF ResetExists, ResetGet, ResetUpdate
    <2> QED
      BY <1>8, <2>4, <2>5, <2>6, <2>7, <2>8 DEF Handle
  <1> QED
    BY <1>4, <1>5, <1>7, <1>8 DEF GateNext

-----------------------------------------------------------------------------
\* The rows of an address.

LEMMA FewerInserting ==
  ASSUME NEW A, NEW B \in SUBSET Threads, A \subseteq B
  PROVE  /\ IsFiniteSet(A) /\ Cardinality(A) \in Nat /\ Cardinality(B) \in Nat
         /\ Cardinality(A) <= Cardinality(B)
  <1>1. IsFiniteSet(B)
    BY GateAssumption, FS_Subset
  <1> QED
    BY <1>1, FS_Subset, FS_CardinalityType

\* A step that adds no row, and lets no thread on to the INSERT for an address
\* that has one.
LEMMA RowsKept ==
  ASSUME TypeInv, RowInv, UNCHANGED accounts,
         \A e \in Emails : HasAccount(e) => Inserting(e)' \subseteq Inserting(e)
  PROVE  RowInv'
  <1>1. ASSUME NEW e \in Emails, HasAccount(e)
        PROVE  Len(accounts[e]) + Cardinality(Inserting(e)') <= Cardinality(Threads)
    <2>1. accounts[e] \in Seq(Passwords)
      BY DEF TypeInv, GateTypeOK
    <2>2. /\ Len(accounts[e]) \in Nat
          /\ Len(accounts[e]) + Cardinality(Inserting(e)) <= Cardinality(Threads)
      BY <1>1, <2>1 DEF RowInv
    <2>3. Inserting(e) \subseteq Threads /\ Inserting(e)' \subseteq Inserting(e)
      BY <1>1 DEF Inserting
    <2>4. /\ Cardinality(Inserting(e)') \in Nat /\ Cardinality(Inserting(e)) \in Nat
          /\ Cardinality(Inserting(e)') <= Cardinality(Inserting(e))
          /\ Cardinality(Threads) \in Nat
      BY <2>3, FewerInserting, FS_CardinalityType, GateAssumption
    <2> QED
      BY <2>2, <2>4
  <1> QED
    BY <1>1 DEF RowInv, HasAccount

LEMMA NextRows == TypeInv /\ RowInv /\ [GateNext]_allVars => RowInv'
  <1> SUFFICES ASSUME TypeInv, RowInv, [GateNext]_allVars PROVE RowInv'
    OBVIOUS
  <1>1. /\ hpc \in [Threads -> Places] /\ ReqInv /\ accounts \in [Emails -> Seq(Passwords)]
    BY DEF TypeInv, GateTypeOK, Places
  <1>2. CASE VarifyStep \/ UNCHANGED allVars
    BY <1>2, RowsKept DEF VarifyStep, allVars, handlers, Inserting
  <1>3. ASSUME NEW t \in Threads, Arrive(t) PROVE RowInv'
    <2>1. ASSUME NEW r, NEW l, Begin(t, r, l), l # "regInsert" PROVE RowInv'
      <3>1. /\ UNCHANGED accounts
            /\ \A u \in Threads : hpc'[u] = "regInsert" => hpc[u] = "regInsert" /\ req'[u] = req[u]
        BY <1>1, <2>1 DEF Begin, ReqInv
      <3> QED
        BY <3>1, RowsKept DEF Inserting
    <2>2. CASE BadJson(t)
      BY <2>2, RowsKept DEF BadJson, Inserting
    <2> QED
      BY <1>3, <2>1, <2>2 DEF Arrive, RequestCode, RequestResetCode, RequestRegister, RequestReset
  <1>4. ASSUME NEW t \in Threads, Handle(t) \/ RpcFails(t) PROVE RowInv'
    <2>1. ASSUME NEW a, AnswerWith(t, a)
          PROVE  /\ \A u \in Threads : hpc'[u] = "regInsert" =>
                      u # t /\ hpc[u] = "regInsert" /\ req'[u] = req[u]
                 /\ \A e \in Emails : Inserting(e)' \subseteq Inserting(e) \ {t}
      <3>1. \A u \in Threads : hpc'[u] = "regInsert" =>
              u # t /\ hpc[u] = "regInsert" /\ req'[u] = req[u]
        BY <1>1, <2>1 DEF AnswerWith, ReqInv
      <3> QED
        BY <3>1 DEF Inserting
    <2>2. ASSUME NEW l, Continue(t, l), l # "regInsert"
          PROVE  \A e \in Emails : Inserting(e)' \subseteq Inserting(e)
      <3>1. \A u \in Threads : hpc'[u] = "regInsert" => hpc[u] = "regInsert" /\ req'[u] = req[u]
        BY <1>1, <2>2 DEF Continue
      <3> QED
        BY <3>1 DEF Inserting
    <2>3. CASE UNCHANGED accounts /\ \E a : AnswerWith(t, a)
      BY <2>1, <2>3, RowsKept
    <2>4. CASE UNCHANGED accounts /\ \E l : l # "regInsert" /\ Continue(t, l)
      BY <2>2, <2>4, RowsKept
    <2>5. CASE RegExists(t)
      <3>1. CASE 0 \in EmailExists(req[t].email) /\ Continue(t, "regInsert")
        <4>1. accounts[req[t].email] = <<>> /\ UNCHANGED <<accounts, req>>
          BY <2>5, <3>1 DEF RegExists, EmailExists, Continue
        <4>2. \A u \in Threads : u # t => hpc'[u] = hpc[u]
          BY <1>1, <3>1 DEF Continue
        <4> QED
          BY <4>1, <4>2, RowsKept DEF Inserting, HasAccount
      <3> QED
        BY <2>3, <2>5, <3>1 DEF RegExists
    <2>6. CASE RegInsert(t) /\ Insert(req[t].email, req[t].passwd)
      <3>1. hpc[t] = "regInsert"
        BY <2>6 DEF RegInsert
      <3>2. PICK e \in Emails, p \in Passwords : e = req[t].email /\ p = req[t].passwd
        BY <3>1 DEF TypeInv, ReqInv, Registering, PasswordRequests
      <3>3. PICK a : AnswerWith(t, a)
        BY <2>6 DEF RegInsert
      <3>4. \A d \in Emails : Inserting(d)' \subseteq Inserting(d) \ {t}
        BY <2>1, <3>3
      <3>5. ASSUME NEW d \in Emails, d # e, HasAccount(d)'
            PROVE  Len(accounts'[d]) + Cardinality(Inserting(d)') <= Cardinality(Threads)
        <4>1. accounts'[d] = accounts[d] /\ HasAccount(d)
          BY <1>1, <2>6, <3>2, <3>5 DEF Insert, HasAccount
        <4>2. Len(accounts[d]) \in Nat
          BY <1>1
        <4>3. Inserting(d)' \subseteq Inserting(d) /\ Inserting(d) \subseteq Threads
          BY <3>4 DEF Inserting
        <4>4. /\ Cardinality(Inserting(d)') \in Nat /\ Cardinality(Inserting(d)) \in Nat
              /\ Cardinality(Inserting(d)') <= Cardinality(Inserting(d))
              /\ Cardinality(Threads) \in Nat
          BY <4>3, FewerInserting, FS_CardinalityType, GateAssumption
        <4> QED
          BY <4>1, <4>2, <4>4 DEF RowInv
      <3>6. accounts[e] \in Seq(Passwords) /\ Len(accounts[e]) \in Nat
        BY <1>1, <3>2
      <3>7. accounts'[e] = Append(accounts[e], p)
        BY <1>1, <2>6, <3>2 DEF Insert
      <3>8. Len(accounts'[e]) = Len(accounts[e]) + 1
        BY <3>2, <3>6, <3>7, Appending
      <3>9. CASE HasAccount(e)
        <4>1. t \in Inserting(e) /\ Inserting(e) \subseteq Threads
          BY <3>1, <3>2 DEF Inserting
        <4>2. IsFiniteSet(Inserting(e)) /\ Cardinality(Inserting(e)) \in Nat
          BY <4>1, FewerInserting
        <4>3. Cardinality(Inserting(e) \ {t}) = Cardinality(Inserting(e)) - 1
          BY <4>1, <4>2, FS_RemoveElement
        <4>4. /\ Cardinality(Inserting(e)') \in Nat
              /\ Cardinality(Inserting(e)') <= Cardinality(Inserting(e) \ {t})
          <5>1. Inserting(e) \ {t} \in SUBSET Threads /\ Inserting(e)' \subseteq Inserting(e) \ {t}
            BY <3>2, <3>4, <4>1
          <5> QED
            BY <5>1, FewerInserting
        <4>5. Len(accounts[e]) + Cardinality(Inserting(e)) <= Cardinality(Threads)
          BY <3>2, <3>9 DEF RowInv
        <4>6. Cardinality(Threads) \in Nat
          BY FS_CardinalityType, GateAssumption
        <4>7. Len(accounts'[e]) + Cardinality(Inserting(e)') <= Cardinality(Threads)
          BY <3>6, <3>8, <4>2, <4>3, <4>4, <4>5, <4>6
        <4> QED
          BY <3>5, <4>7 DEF RowInv
      <3>10. CASE ~HasAccount(e)
        <4>1. Len(accounts'[e]) = 1
          BY <3>8, <3>10 DEF HasAccount
        <4>2. Inserting(e)' \subseteq Threads \ {t}
          BY <3>2, <3>4 DEF Inserting
        <4>3. Cardinality(Threads \ {t}) = Cardinality(Threads) - 1 /\ Cardinality(Threads) \in Nat
          BY GateAssumption, FS_RemoveElement, FS_CardinalityType
        <4>4. /\ Cardinality(Inserting(e)') \in Nat
              /\ Cardinality(Inserting(e)') <= Cardinality(Threads \ {t})
          BY <4>2, FewerInserting
        <4>5. Len(accounts'[e]) + Cardinality(Inserting(e)') <= Cardinality(Threads)
          BY <4>1, <4>3, <4>4
        <4> QED
          BY <3>5, <4>5 DEF RowInv
      <3> QED
        BY <3>9, <3>10
    <2> QED
      BY <1>4, <2>3, <2>4, <2>5, <2>6 DEF Handle, RpcFails, IssueExists, SendRpc, ReceiveReply, RegGet,
         RegInsert, ResetExists, ResetGet, ResetUpdate, UpdatePwd
  <1> QED
    BY <1>2, <1>3, <1>4 DEF GateNext

-----------------------------------------------------------------------------
\* Inv is an inductive invariant of the handlers and the verification server,
\* whatever the number of io threads, addresses, codes and calls.
THEOREM Invariant == GateSpec => []Inv
  <1>1. GateInit => Inv
    <2>1. GateInit => AccountInv /\ RowInv
      BY DEF GateInit, Init, AccountInv, RowInv, HasAccount, RegisteredStays, ResetMailsHaveAccounts
    <2> QED
      BY <2>1, InitTypes DEF Inv
  <1>2. Inv /\ [GateNext]_allVars => Inv'
    BY NextTypes, NextAccounts, NextRows DEF Inv
  <1> QED
    BY <1>1, <1>2, PTL DEF GateSpec

\* Every variable has its type in every state the gate server can reach.
THEOREM TypeCorrect == GateSpec => []GateTypeOK
  <1>1. Inv => GateTypeOK
    BY DEF Inv, TypeInv
  <1> QED
    BY <1>1, Invariant, PTL

\* /user_register and /reset_passwd go on past their check (LogicSystem.cpp)
\* only with a code drawn for that purpose and that address, although codes of
\* all purposes and addresses live in one Redis.
THEOREM PurposeHolds == GateSpec => []PurposeRespected
  <1>1. Inv => PurposeRespected
    BY DEF Inv, TypeInv, PassedInv
  <1> QED
    BY <1>1, Invariant, PTL

\* A code to reset a password is mailed only to an address that has an account,
\* however much happened between emailExists and the mail.
THEOREM ResetMailsHold == GateSpec => []ResetMailsHaveAccounts
  <1>1. Inv => ResetMailsHaveAccounts
    BY DEF Inv, AccountInv
  <1> QED
    BY <1>1, Invariant, PTL

\* Who was told that an address is registered was told the truth, for good.
THEOREM RegisteredHolds == GateSpec => []RegisteredStays
  <1>1. Inv => RegisteredStays
    BY DEF Inv, AccountInv
  <1> QED
    BY <1>1, Invariant, PTL

\* The check and the INSERT of a registration are two statements, so that an
\* address can get several rows when user_info does not forbid it, but never
\* more than the server has io threads.
THEOREM RowsHold == GateSpec => []RowsBounded
  <1>1. Inv => RowsBounded
    <2>1. SUFFICES ASSUME Inv, NEW e \in Emails PROVE Len(accounts[e]) <= Cardinality(Threads)
      BY DEF RowsBounded
    <2>2. accounts[e] \in Seq(Passwords)
      BY <2>1 DEF Inv, TypeInv, GateTypeOK
    <2>3. Len(accounts[e]) \in Nat /\ Cardinality(Threads) \in Nat
      BY <2>2, GateAssumption, FS_CardinalityType
    <2>4. CASE HasAccount(e)
      <3>1. Cardinality(Inserting(e)) \in Nat
        BY FewerInserting DEF Inserting
      <3> QED
        BY <2>1, <2>3, <2>4, <3>1 DEF Inv, RowInv
    <2>5. CASE ~HasAccount(e)
      BY <2>3, <2>5 DEF HasAccount
    <2> QED
      BY <2>4, <2>5
  <1> QED
    BY <1>1, Invariant, PTL

-----------------------------------------------------------------------------
\* A step never takes a row of user_info away and never changes one; it adds at
\* most one row, and that for a registration whose code was drawn for the address.
RowAdded(e) ==
  \E t \in Threads :
    /\ hpc[t] = "regInsert" /\ req[t].email = e
    /\ drawnFor[req[t].code] = <<"Register", e>>
    /\ accounts'[e] = Append(accounts[e], req[t].passwd)

RowsOnlyAdded ==
  \A e \in Emails : accounts'[e] = accounts[e] \/ RowAdded(e)

LEMMA RowsOnlyAddedNext == Inv /\ [GateNext]_allVars => [RowsOnlyAdded]_allVars
  <1> SUFFICES ASSUME Inv, [GateNext]_allVars PROVE RowsOnlyAdded
    OBVIOUS
  <1>1. accounts \in [Emails -> Seq(Passwords)] /\ ReqInv /\ PurposeRespected
    BY DEF Inv, TypeInv, GateTypeOK, PassedInv
  <1>2. ASSUME NEW t \in Threads, RegInsert(t) PROVE RowsOnlyAdded
    <2>1. CASE UNCHANGED accounts
      BY <2>1 DEF RowsOnlyAdded
    <2>2. CASE Insert(req[t].email, req[t].passwd)
      <3>1. /\ hpc[t] = "regInsert"
            /\ drawnFor[req[t].code] = <<"Register", req[t].email>>
        BY <1>1, <1>2 DEF RegInsert, PurposeRespected
      <3>2. accounts' = [accounts EXCEPT ![req[t].email] = Append(@, req[t].passwd)]
        BY <2>2 DEF Insert
      <3>3. ASSUME NEW e \in Emails, e # req[t].email PROVE accounts'[e] = accounts[e]
        BY <1>1, <3>2, <3>3
      <3>4. ASSUME NEW e \in Emails, e = req[t].email PROVE RowAdded(e)
        <4>1. accounts'[e] = Append(accounts[e], req[t].passwd)
          BY <1>1, <3>2, <3>4
        <4> QED
          BY <3>1, <3>4, <4>1 DEF RowAdded
      <3> QED
        BY <3>3, <3>4 DEF RowsOnlyAdded
    <2> QED
      BY <1>2, <2>1, <2>2 DEF RegInsert
  <1>3. CASE VarifyStep \/ UNCHANGED allVars
    BY <1>3 DEF VarifyStep, allVars, handlers, RowsOnlyAdded
  <1>4. ASSUME NEW t \in Threads, Arrive(t) PROVE RowsOnlyAdded
    BY <1>4 DEF Arrive, RequestCode, RequestResetCode, RequestRegister, RequestReset,
       BadJson, Begin, RowsOnlyAdded
  <1>5. ASSUME NEW t \in Threads, Handle(t) \/ RpcFails(t) PROVE RowsOnlyAdded
    BY <1>2, <1>5 DEF Handle, RpcFails, IssueExists, SendRpc, ReceiveReply, RegGet, RegExists,
       ResetExists, ResetGet, ResetUpdate, UpdatePwd, RowsOnlyAdded
  <1> QED
    BY <1>3, <1>4, <1>5 DEF GateNext

\* The other side of ResetTakesEffect, and why it fails: whatever requests do,
\* /reset_passwd included, a row keeps the password it was registered with, and
\* every row comes from a registration with a code drawn for its address.
THEOREM PasswordsNeverChange == GateSpec => [][RowsOnlyAdded]_allVars
  BY RowsOnlyAddedNext, Invariant, PTL DEF GateSpec

-----------------------------------------------------------------------------
\* The wait for the verification server, and the way of a request to its answer.

Answers ==
  {"none", "ERR_JSON", "ERR_SERVER", "ERR_RPC_FAILED", "ERR_USER_NON", "ERR_VARIFYCODE",
   "ERR_EMAIL_REGISTERED", "SUCCESS", "Success", "RedisErr", "Exception"}

\* The steps a handler has before it, at most.
Remaining(l) ==
  CASE l \in {"issueExists", "regGet", "resetExists"} -> 3
    [] l \in {"issue", "regExists", "resetGet"} -> 2
    [] l \in {"rpc", "regInsert", "resetUpdate"} -> 1
    [] OTHER -> 0

\* What t waits for: its own call, with its own purpose and address, or the
\* reply to it.
Waiting(t) ==
  hpc[t] = "rpc" =>
    /\ rpc[t] \in Calls
    /\ pc[rpc[t]] = "idle" => reply[rpc[t]] # "none"
    /\ pc[rpc[t]] # "idle" =>
         reply[rpc[t]] = "none" /\ key[rpc[t]] = <<req[t].module, req[t].email>>

\* No reply goes to a handler that did not make the call, also when others gave
\* up theirs and left the calls behind (VarifyGrpcClient.cpp:20).
WaitsForItsOwn ==
  \A t \in Threads :
    /\ Waiting(t)
    /\ \A u \in Threads : hpc[t] = "rpc" /\ hpc[u] = "rpc" /\ rpc[t] = rpc[u] => t = u

WaitInv ==
  /\ answer \in [Threads -> Answers]
  /\ \A t \in Threads : hpc[t] # "idle" => answer[t] = "none"
  /\ WaitsForItsOwn

\* Each step of a handler answers the request, or goes on with it towards the answer.
LEMMA HandlerStep ==
  ASSUME TypeInv, WaitInv, NEW t \in Threads, Handle(t) \/ RpcFails(t)
  PROVE  /\ hpc[t] # "idle"
         /\ \/ /\ \E a \in Answers \ {"none"} : AnswerWith(t, a)
               /\ UNCHANGED vars /\ rpc' \in {rpc, [rpc EXCEPT ![t] = NoCall]}
            \/ /\ \E l \in Places \ {"idle", "rpc"} :
                    Continue(t, l) /\ Remaining(l) < Remaining(hpc[t])
               /\ UNCHANGED <<vars, rpc>>
            \/ SendRpc(t)
  <1>1. CASE ReceiveReply(t)
    <2>1. hpc[t] = "rpc" /\ rpc[t] \in Calls /\ reply[rpc[t]] # "none"
      BY <1>1 DEF ReceiveReply, WaitInv, WaitsForItsOwn, Waiting
    <2>2. reply[rpc[t]] \in {"none", "Success", "RedisErr", "Exception", "RpcFailed"}
      BY <2>1 DEF TypeInv, GateTypeOK, TypeOK
    <2> DEFINE a == IF reply[rpc[t]] = "RpcFailed" THEN "ERR_RPC_FAILED" ELSE reply[rpc[t]]
    <2>3. a \in Answers \ {"none"}
      BY <2>1, <2>2 DEF Answers
    <2>4. /\ AnswerWith(t, a) /\ UNCHANGED vars
          /\ rpc' = [rpc EXCEPT ![t] = NoCall]
      BY <1>1 DEF ReceiveReply
    <2> QED BY <2>1, <2>3, <2>4
  <1>2. CASE RpcFails(t)
    BY <1>2 DEF RpcFails, Answers
  <1>3. CASE IssueExists(t)
    BY <1>3 DEF IssueExists, EmailExists, Answers, Places, Remaining
  <1>4. CASE RegGet(t)
    BY <1>4 DEF RegGet, Answers, Places, Remaining
  <1>5. CASE RegExists(t)
    BY <1>5 DEF RegExists, Answers, Places, Remaining
  <1>6. CASE RegInsert(t)
    BY <1>6 DEF RegInsert, Answers
  <1>7. CASE ResetExists(t)
    BY <1>7 DEF ResetExists, Answers, Places, Remaining
  <1>8. CASE ResetGet(t)
    BY <1>8 DEF ResetGet, Answers, Places, Remaining
  <1>9. CASE ResetUpdate(t)
    BY <1>9 DEF ResetUpdate, Answers
  <1>10. CASE SendRpc(t)
    BY <1>10 DEF SendRpc
  <1> QED
    BY <1>1, <1>2, <1>3, <1>4, <1>5, <1>6, <1>7, <1>8, <1>9, <1>10 DEF Handle

\* What the other threads see of it.
LEMMA OthersAlone ==
  ASSUME TypeInv, WaitInv, NEW t \in Threads, Handle(t) \/ RpcFails(t) \/ Arrive(t),
         NEW u \in Threads, u # t
  PROVE  hpc'[u] = hpc[u] /\ req'[u] = req[u] /\ answer'[u] = answer[u] /\ rpc'[u] = rpc[u]
  <1>1. /\ DOMAIN hpc = Threads /\ DOMAIN req = Threads /\ DOMAIN answer = Threads
        /\ DOMAIN rpc = Threads
    BY DEF TypeInv, GateTypeOK, ReqInv, WaitInv
  <1> DEFINE Same == hpc'[u] = hpc[u] /\ req'[u] = req[u] /\ answer'[u] = answer[u]
  <1>2. ASSUME NEW a, AnswerWith(t, a) PROVE Same
    BY <1>1, <1>2 DEF AnswerWith
  <1>3. ASSUME NEW l, Continue(t, l) PROVE Same
    BY <1>1, <1>3 DEF Continue
  <1>4. ASSUME NEW r, NEW l, Begin(t, r, l) PROVE Same /\ rpc' = rpc
    BY <1>1, <1>4 DEF Begin
  <1>5. BadJson(t) => Same /\ rpc' = rpc
    BY <1>1 DEF BadJson
  <1>6. SendRpc(t) => Same /\ rpc'[u] = rpc[u]
    BY <1>1, <1>3 DEF SendRpc
  <1> HIDE DEF Same
  <1>7. Arrive(t) => Same /\ rpc' = rpc
    BY <1>4, <1>5 DEF Arrive, RequestCode, RequestResetCode, RequestRegister, RequestReset
  <1>8. Handle(t) \/ RpcFails(t) => Same /\ rpc'[u] = rpc[u]
    BY <1>1, <1>2, <1>3, <1>6, HandlerStep
  <1> QED
    BY <1>7, <1>8 DEF Same

\* A call that ends has a reply, and one that ends well has mailed its code.
LEMMA CallsEnd ==
  ASSUME TypeInv, VarifyStep, NEW c \in Calls
  PROVE  /\ pc[c] = "idle" => pc'[c] = "idle" /\ reply'[c] = reply[c]
         /\ pc[c] # "idle" /\ pc'[c] # "idle" => reply'[c] = reply[c]
         /\ pc[c] # "idle" /\ pc'[c] = "idle" =>
              \/ reply'[c] \in {"RedisErr", "Exception", "RpcFailed"}
              \/ reply'[c] = "Success" /\ <<key[c], code[c]>> \in mails'
  <1>1. DOMAIN pc = Calls /\ DOMAIN reply = Calls
    BY DEF TypeInv, GateTypeOK, TypeOK
  <1>2. ASSUME NEW d \in Calls, NEW r, Reply(d, r)
        PROVE  /\ pc'[d] = "idle" /\ reply'[d] = r
               /\ c # d => pc'[c] = pc[c] /\ reply'[c] = reply[c]
    BY <1>1, <1>2 DEF Reply, Goto
  <1>3. ASSUME NEW d \in Calls, Set(d) \/ Expire(d)
        PROVE  reply' = reply /\ (pc'[c] = "idle" <=> pc[c] = "idle")
    BY <1>1, <1>3 DEF Set, Expire, Goto
  <1>4. ASSUME NEW d \in Calls, SetFails(d) \/ ExpireFails(d) \/ SendMail(d) \/ SendMailFails(d)
        PROVE  /\ pc[d] # "idle"
               /\ \/ \E r \in {"RedisErr", "Exception"} : Reply(d, r)
                  \/ Reply(d, "Success") /\ <<key[d], code[d]>> \in mails'
    BY <1>4 DEF SetFails, ExpireFails, SendMail, SendMailFails
  <1>5. CASE Environment
    BY <1>1, <1>5 DEF Environment, RedisError, Restart, KeyExpires
  <1> QED
    BY <1>2, <1>3, <1>4, <1>5 DEF VarifyStep, Step

LEMMA WaitNext == TypeInv /\ TypeInv' /\ WaitInv /\ [GateNext]_allVars => WaitInv'
  <1> SUFFICES ASSUME TypeInv, TypeInv', WaitInv, [GateNext]_allVars PROVE WaitInv'
    OBVIOUS
  <1>1. /\ DOMAIN hpc = Threads /\ DOMAIN rpc = Threads /\ DOMAIN answer = Threads
        /\ \A t \in Threads : answer[t] \in Answers
    BY DEF TypeInv, GateTypeOK, WaitInv
  <1>2. CASE UNCHANGED allVars
    BY <1>2 DEF allVars, vars, handlers, WaitInv, WaitsForItsOwn, Waiting
  <1>3. CASE VarifyStep
    <2>1. UNCHANGED <<hpc, req, rpc, answer>>
      BY <1>3 DEF VarifyStep, handlers
    <2>2. ASSUME NEW t \in Threads, hpc[t] = "rpc" PROVE Waiting(t)'
      <3>1. rpc[t] \in Calls /\ Waiting(t)
        BY <2>2 DEF WaitInv, WaitsForItsOwn, Waiting
      <3>2. pc'[rpc[t]] # "idle" => key'[rpc[t]] = key[rpc[t]]
        BY <1>3, <3>1, CallsKept
      <3> QED
        BY <1>3, <2>1, <2>2, <3>1, <3>2, CallsEnd DEF Waiting
    <2> QED
      BY <2>1, <2>2 DEF WaitInv, WaitsForItsOwn, Waiting
  <1>4. ASSUME NEW t \in Threads, Handle(t) \/ RpcFails(t) \/ Arrive(t) PROVE WaitInv'
    <2>1. \A u \in Threads \ {t} :
            hpc'[u] = hpc[u] /\ req'[u] = req[u] /\ answer'[u] = answer[u] /\ rpc'[u] = rpc[u]
      BY <1>4, OthersAlone
    <2>2. /\ answer' \in [Threads -> Answers]
          /\ hpc'[t] # "idle" => answer'[t] = "none"
          /\ (UNCHANGED vars /\ hpc'[t] # "rpc") \/ SendRpc(t)
      <3>1. ASSUME Handle(t) \/ RpcFails(t), ~SendRpc(t)
            PROVE  /\ hpc'[t] # "rpc" /\ UNCHANGED vars
                   /\ answer' \in [Threads -> Answers]
                   /\ hpc'[t] # "idle" => answer'[t] = "none"
        <4>1. hpc[t] # "idle" /\ answer[t] = "none"
          BY <3>1, HandlerStep DEF WaitInv
        <4>2. ASSUME NEW a \in Answers, AnswerWith(t, a)
              PROVE  answer' \in [Threads -> Answers] /\ hpc'[t] = "idle"
          BY <1>1, <4>2 DEF AnswerWith, WaitInv
        <4>3. ASSUME NEW l \in Places \ {"idle", "rpc"}, Continue(t, l)
              PROVE  answer' = answer /\ hpc'[t] = l
          BY <1>1, <4>3 DEF Continue
        <4> QED
          BY <3>1, <4>1, <4>2, <4>3, HandlerStep DEF WaitInv
      <3>2. SendRpc(t) => answer' = answer /\ answer[t] = "none"
        BY DEF SendRpc, Continue, WaitInv
      <3>3. ASSUME Arrive(t)
            PROVE  /\ hpc'[t] # "rpc" /\ UNCHANGED vars
                   /\ answer' \in [Threads -> Answers]
                   /\ hpc'[t] # "idle" => answer'[t] = "none"
        <4>1. ASSUME NEW r, NEW l, Begin(t, r, l), l # "rpc"
              PROVE  /\ hpc'[t] # "rpc" /\ UNCHANGED vars
                     /\ answer' \in [Threads -> Answers] /\ answer'[t] = "none"
          BY <1>1, <4>1 DEF Begin, Answers, WaitInv
        <4>2. BadJson(t) =>
                 hpc'[t] = "idle" /\ UNCHANGED vars /\ answer' \in [Threads -> Answers]
          BY DEF BadJson, Answers, WaitInv
        <4> QED
          BY <3>3, <4>1, <4>2 DEF Arrive, RequestCode, RequestResetCode, RequestRegister,
             RequestReset
      <3> QED
        BY <1>4, <3>1, <3>2, <3>3 DEF WaitInv
    <2>3. CASE UNCHANGED vars /\ hpc'[t] # "rpc"
      <3>1. ASSUME NEW u \in Threads, hpc'[u] = "rpc"
            PROVE  u # t /\ Waiting(u)'
        BY <2>1, <2>3, <3>1 DEF vars, WaitInv, WaitsForItsOwn, Waiting
      <3>2. \A u \in Threads : Waiting(u)'
        BY <3>1 DEF Waiting
      <3>3. \A u, v \in Threads :
              hpc'[u] = "rpc" /\ hpc'[v] = "rpc" /\ rpc'[u] = rpc'[v] => u = v
        BY <2>1, <3>1 DEF WaitInv, WaitsForItsOwn
      <3>4. \A u \in Threads : hpc'[u] # "idle" => answer'[u] = "none"
        BY <2>1, <2>2 DEF WaitInv
      <3> QED
        BY <2>2, <3>2, <3>3, <3>4 DEF WaitInv, WaitsForItsOwn
    <2>4. CASE SendRpc(t)
      <3>1. PICK c \in Calls :
              /\ \A u \in Threads : rpc[u] # c
              /\ GetVarifyCode(c, req[t].module, req[t].email)
              /\ rpc' = [rpc EXCEPT ![t] = c]
        BY <2>4 DEF SendRpc
      <3>2. /\ rpc'[t] = c /\ req' = req /\ hpc'[t] = "rpc"
        BY <1>1, <2>4, <3>1 DEF SendRpc, Continue
      <3>3. /\ pc'[c] = "set" /\ reply'[c] = "none"
            /\ key'[c] = <<req[t].module, req[t].email>>
            /\ \A d \in Calls \ {c} : pc'[d] = pc[d] /\ reply'[d] = reply[d] /\ key'[d] = key[d]
        BY <3>1 DEF GetVarifyCode, Goto, KeyOf, TypeInv, GateTypeOK, TypeOK
      <3>4. Waiting(t)'
        BY <3>2, <3>3 DEF Waiting
      <3>5. ASSUME NEW u \in Threads \ {t} PROVE Waiting(u)'
        <4>1. hpc'[u] = hpc[u] /\ req'[u] = req[u] /\ rpc'[u] = rpc[u] /\ rpc[u] # c
          BY <2>1, <3>1, <3>5
        <4>2. CASE hpc'[u] # "rpc"
          BY <4>2 DEF Waiting
        <4>3. CASE hpc'[u] = "rpc"
          <5>1. rpc[u] \in Calls /\ Waiting(u)
            BY <3>5, <4>1, <4>3 DEF WaitInv, WaitsForItsOwn, Waiting
          <5>2. /\ pc'[rpc[u]] = pc[rpc[u]] /\ key'[rpc[u]] = key[rpc[u]]
                /\ reply'[rpc[u]] = reply[rpc[u]]
            BY <3>3, <4>1, <5>1
          <5> QED
            BY <3>3, <4>1, <4>3, <5>1, <5>2 DEF Waiting
        <4> QED
          BY <4>2, <4>3
      <3>6. \A u, v \in Threads :
              hpc'[u] = "rpc" /\ hpc'[v] = "rpc" /\ rpc'[u] = rpc'[v] => u = v
        BY <2>1, <3>1, <3>2 DEF WaitInv, WaitsForItsOwn
      <3>7. \A u \in Threads : hpc'[u] # "idle" => answer'[u] = "none"
        BY <2>1, <2>2 DEF WaitInv
      <3> QED
        BY <2>2, <3>4, <3>5, <3>6, <3>7 DEF WaitInv, WaitsForItsOwn
    <2> QED
      BY <2>2, <2>3, <2>4
  <1> QED
    BY <1>2, <1>3, <1>4 DEF GateNext

LEMMA WaitHolds == GateSpec => []WaitInv
  <1>1. GateInit => WaitInv
    BY DEF GateInit, WaitInv, WaitsForItsOwn, Waiting, Answers
  <1>2. Inv => TypeInv
    BY DEF Inv
  <1> QED
    BY <1>1, <1>2, WaitNext, Invariant, PTL DEF GateSpec

THEOREM RepliesAreTheirOwn == GateSpec => []WaitsForItsOwn
  <1>1. WaitInv => WaitsForItsOwn
    BY DEF WaitInv
  <1> QED
    BY <1>1, WaitHolds, PTL

\* A caller is not told Success before its own code was mailed to its own
\* address (server.js:41): the step that ends the
\* call with Success is the one that mails it.
MailedBeforeSuccess ==
  \A t \in Threads :
    hpc[t] = "rpc" /\ pc[rpc[t]] # "idle" /\ reply'[rpc[t]] = "Success" =>
      <<<<req[t].module, req[t].email>>, code[rpc[t]]>> \in mails'

THEOREM SuccessIsMailed == GateSpec => [][MailedBeforeSuccess]_allVars
  <1>1. TypeInv /\ WaitInv /\ [GateNext]_allVars => [MailedBeforeSuccess]_allVars
    <2> SUFFICES ASSUME TypeInv, WaitInv, [GateNext]_allVars,
                        NEW t \in Threads, hpc[t] = "rpc", pc[rpc[t]] # "idle",
                        reply'[rpc[t]] = "Success"
                 PROVE  <<<<req[t].module, req[t].email>>, code[rpc[t]]>> \in mails'
      BY DEF MailedBeforeSuccess
    <2>1. /\ rpc[t] \in Calls /\ reply[rpc[t]] = "none"
          /\ key[rpc[t]] = <<req[t].module, req[t].email>>
      BY DEF WaitInv, WaitsForItsOwn, Waiting
    <2>2. CASE VarifyStep
      BY <2>1, <2>2, CallsEnd
    <2>3. ASSUME NEW u \in Threads, SendRpc(u) PROVE FALSE
      <3>1. PICK c \in Calls : rpc[t] # c /\ reply' = [reply EXCEPT ![c] = "none"]
        BY <2>3 DEF SendRpc, GetVarifyCode
      <3> QED
        BY <2>1, <3>1 DEF TypeInv, GateTypeOK, TypeOK
    <2>4. ASSUME NEW u \in Threads, Arrive(u) PROVE UNCHANGED vars
      BY <2>4 DEF Arrive, RequestCode, RequestResetCode, RequestRegister, RequestReset,
         BadJson, Begin
    <2>5. reply' # reply
      BY <2>1
    <2> QED
      BY <2>2, <2>3, <2>4, <2>5, HandlerStep DEF GateNext, allVars, vars
  <1>2. Inv => TypeInv
    BY DEF Inv
  <1> QED
    BY <1>1, <1>2, WaitHolds, Invariant, PTL DEF GateSpec

\* Each request is answered once and by the thread that read it, in three steps
\* of its handler or fewer (LogicSystem.cpp): until then the thread keeps its
\* request and writes nothing, whatever the other threads do, whichever part
\* fails, and no step is taken again.
TowardsItsAnswer ==
  \A t \in Threads : hpc[t] # "idle" =>
    \/ hpc'[t] = hpc[t] /\ req'[t] = req[t] /\ answer'[t] = "none"
    \/ /\ Remaining(hpc'[t]) < Remaining(hpc[t])
       /\ IF hpc'[t] = "idle" THEN answer'[t] # "none"
          ELSE req'[t] = req[t] /\ answer'[t] = "none"

THEOREM RequestsGoForward == GateSpec => [][TowardsItsAnswer]_allVars
  <1>1. TypeInv /\ WaitInv /\ [GateNext]_allVars => [TowardsItsAnswer]_allVars
    <2> SUFFICES ASSUME TypeInv, WaitInv, [GateNext]_allVars,
                        NEW t \in Threads, hpc[t] # "idle"
                 PROVE  \/ hpc'[t] = hpc[t] /\ req'[t] = req[t] /\ answer'[t] = "none"
                        \/ /\ Remaining(hpc'[t]) < Remaining(hpc[t])
                           /\ IF hpc'[t] = "idle" THEN answer'[t] # "none"
                              ELSE req'[t] = req[t] /\ answer'[t] = "none"
      BY DEF TowardsItsAnswer
    <2>1. /\ answer[t] = "none" /\ t \in DOMAIN answer /\ t \in DOMAIN hpc
          /\ hpc[t] \in Places
      BY DEF WaitInv, TypeInv, GateTypeOK, Places
    <2>2. CASE VarifyStep \/ UNCHANGED allVars
      BY <2>1, <2>2 DEF VarifyStep, allVars, handlers
    <2>3. ASSUME NEW u \in Threads, u # t, Handle(u) \/ RpcFails(u) \/ Arrive(u)
          PROVE  hpc'[t] = hpc[t] /\ req'[t] = req[t] /\ answer'[t] = "none"
      BY <2>1, <2>3, OthersAlone
    <2>4. ~Arrive(t)
      BY DEF Arrive, RequestCode, RequestResetCode, RequestRegister, RequestReset, BadJson, Begin
    <2>5. ASSUME NEW a \in Answers \ {"none"}, AnswerWith(t, a)
          PROVE  /\ Remaining(hpc'[t]) < Remaining(hpc[t])
                 /\ hpc'[t] = "idle" /\ answer'[t] # "none"
      <3>1. hpc'[t] = "idle" /\ answer'[t] = a
        BY <2>1, <2>5 DEF AnswerWith
      <3> QED
        BY <2>1, <2>5, <3>1 DEF Remaining, Places
    <2>6. ASSUME NEW l, l # "idle", Continue(t, l), Remaining(l) < Remaining(hpc[t])
          PROVE  /\ Remaining(hpc'[t]) < Remaining(hpc[t])
                 /\ hpc'[t] # "idle" /\ req'[t] = req[t] /\ answer'[t] = "none"
      BY <2>1, <2>6 DEF Continue
    <2>7. ASSUME SendRpc(t)
          PROVE  Continue(t, "rpc") /\ Remaining("rpc") < Remaining(hpc[t])
      BY <2>7 DEF SendRpc, Remaining
    <2>8. CASE Handle(t) \/ RpcFails(t)
      BY <2>5, <2>6, <2>7, <2>8, HandlerStep
    <2> QED
      BY <2>2, <2>3, <2>4, <2>8 DEF GateNext
  <1>2. Inv => TypeInv
    BY DEF Inv
  <1> QED
    BY <1>1, <1>2, WaitHolds, Invariant, PTL DEF GateSpec
=============================================================================
