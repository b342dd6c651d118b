------------------------- MODULE GateService_proofs -------------------------
(***************************************************************************)
(* The request handlers over the verification server implement             *)
(* AccountService: each of their steps is one of its steps, or changes     *)
(* nothing that it speaks of.  The inductive invariant of GateServer is    *)
(* what makes it so: the code that a call stores or mails was drawn for    *)
(* its key, and whoever is mailed a code to reset has an account.          *)
(***************************************************************************)
EXTENDS GateServer_proofs, VarifyServer_proofs

Asks == [t \in Threads |-> Asked(req[t])]

\* Where a thread is past the check of its code.
PastCheck == {"regExists", "regInsert", "resetUpdate"}

\* What a thread with a password in its request asks for, and the others do not.
LEMMA AskShape ==
  ASSUME NEW t \in Threads
  PROVE  /\ req[t].op \notin {"register", "reset"} => Asks[t] = Service!Nothing
         /\ req[t] \in PasswordRequests =>
              /\ Asks[t] # Service!Nothing
              /\ Asks[t].ticket = <<Purpose(req[t]), req[t].email>>
              /\ Asks[t].code = req[t].code /\ Asks[t].passwd = req[t].passwd
         /\ t \in Passed <=> hpc[t] \in PastCheck
  <1>1. req[t].op \notin {"register", "reset"} => Asks[t] = Service!Nothing
    BY DEF Asks, Asked, Service!Nothing
  <1>2. ASSUME req[t] \in PasswordRequests
        PROVE  /\ Asks[t] # Service!Nothing
               /\ Asks[t].ticket = <<Purpose(req[t]), req[t].email>>
               /\ Asks[t].code = req[t].code /\ Asks[t].passwd = req[t].passwd
    <2>1. Asks[t] = [ticket |-> <<Purpose(req[t]), req[t].email>>,
                     code |-> req[t].code, passwd |-> req[t].passwd]
      BY <1>2 DEF PasswordRequests, Asks, Asked
    <2> QED
      BY <2>1 DEF Service!Nothing
  <1>3. t \in Passed <=> hpc[t] \in PastCheck
    BY DEF Passed, PastCheck
  <1> QED
    BY <1>1, <1>2, <1>3

\* A step that leaves every thread on its side of the check, with what it asks.
LEMMA AsksKept ==
  ASSUME \A t \in Threads : \/ req'[t] = req[t]
                            \/ /\ req[t].op \notin {"register", "reset"}
                               /\ req'[t].op \notin {"register", "reset"},
         \A t \in Threads : hpc[t] \in PastCheck <=> hpc'[t] \in PastCheck
  PROVE  Asks' = Asks /\ Passed' = Passed
  <1>1. ASSUME NEW t \in Threads PROVE Asked(req[t])' = Asked(req[t])
    BY DEF Asked, Purpose
  <1>2. Passed' = Passed
    BY DEF Passed, PastCheck
  <1> QED
    BY <1>1, <1>2 DEF Asks

\* An answer ends what its thread asked for, and no other's.
LEMMA AnswerForgets ==
  ASSUME TypeInv, NEW t \in Threads, NEW a, AnswerWith(t, a)
  PROVE  /\ Asks' = [Asks EXCEPT ![t] = Service!Nothing]
         /\ Passed' = Passed \ {t}
  <1>1. /\ hpc' = [hpc EXCEPT ![t] = "idle"] /\ req' = [req EXCEPT ![t] = NoReq]
        /\ hpc \in [Threads -> Places] /\ ReqInv
    BY DEF AnswerWith, TypeInv, GateTypeOK, Places
  <1>2. /\ hpc'[t] = "idle" /\ req'[t] = NoReq
        /\ \A u \in Threads : u # t => hpc'[u] = hpc[u] /\ req'[u] = req[u]
    BY <1>1 DEF ReqInv
  <1>3. Asked(req[t])' = Service!Nothing
    BY <1>2 DEF Asked, NoReq, Service!Nothing
  <1>4. ASSUME NEW u \in Threads, u # t PROVE Asked(req[u])' = Asked(req[u])
    BY <1>2, <1>4 DEF Asked, Purpose
  <1>5. Passed' = Passed \ {t}
    BY <1>2 DEF Passed
  <1> QED
    BY <1>3, <1>4, <1>5 DEF Asks

\* What an answer says of accounts: nothing, or that the address of a
\* registration past its check is registered.
LEMMA AnswerTells ==
  ASSUME TypeInv, NEW t \in Threads, NEW a, AnswerWith(t, a)
  PROVE  \/ told' = told
         \/ /\ told' = told \cup {req[t].email} /\ req[t].op = "register"
            /\ a \in {"SUCCESS", "ERR_EMAIL_REGISTERED"}
  BY DEF AnswerWith

-----------------------------------------------------------------------------
\* The verification server: codes come into force, are mailed and expire.
LEMMA VarifyImplements ==
  ASSUME Inv, VarifyStep
  PROVE  [Service!Next]_(Service!vars)
  <1>1. /\ UNCHANGED <<accounts, drawnFor, told>> /\ UNCHANGED <<Asks, Passed>>
    <2>1. UNCHANGED <<hpc, req, accounts, drawnFor, told>>
      BY DEF VarifyStep, handlers
    <2> QED
      BY <2>1, AsksKept
  <1>2. ASSUME UNCHANGED <<redis, mails>> PROVE [Service!Next]_(Service!vars)
    BY <1>1, <1>2 DEF Service!vars, Asks
  <1>3. /\ \A c \in Calls : pc[c] # "idle" =>
             key[c] \in Keys /\ code[c] \in DOMAIN drawnFor /\ drawnFor[code[c]] = key[c]
        /\ \A c \in Calls : pc[c] # "idle" /\ key[c][1] = "ResetPwd" => accounts[key[c][2]] # <<>>
    <2>1. DOMAIN drawnFor = 1 .. codes
      BY DEF Inv, TypeInv, GateTypeOK
    <2> QED
      BY <2>1 DEF Inv, TypeInv, CodeInv, AccountInv, HasAccount
  <1>4. ASSUME NEW c \in Calls, Set(c) PROVE Service!Next
    <2>1. pc[c] # "idle" /\ redis' = [redis EXCEPT ![key[c]] = code[c]] /\ UNCHANGED mails
      BY <1>4 DEF Set, SetValue
    <2>2. Service!Publish(code[c])
      BY <1>1, <1>3, <2>1 DEF Service!Publish, Asks
    <2> QED
      BY <1>3, <2>1, <2>2 DEF Service!Next
  <1>5. ASSUME NEW c \in Calls, SendMail(c) \/ SendMailFails(c)
        PROVE  [Service!Next]_(Service!vars)
    <2>1. /\ pc[c] # "idle" /\ UNCHANGED redis
          /\ mails' = mails \/ mails' = mails \cup {<<key[c], code[c]>>}
      BY <1>5 DEF SendMail, SendMailFails, store
    <2>2. CASE mails' = mails \cup {<<key[c], code[c]>>}
      <3>1. Service!Deserves(drawnFor[code[c]])
        BY <1>3, <2>1 DEF Service!Deserves, Service!Registered
      <3>2. Service!Post(code[c])
        BY <1>1, <1>3, <2>1, <2>2, <3>1 DEF Service!Post, Asks
      <3> QED
        BY <1>3, <2>1, <3>2 DEF Service!Next
    <2> QED
      BY <1>2, <2>1, <2>2
  <1>6. ASSUME NEW k \in Keys, KeyExpires(k) PROVE Service!Next
    <2>1. /\ redis' = [redis EXCEPT ![k] = 0] /\ mails' = {m \in mails : m[1] # k}
      BY <1>6 DEF KeyExpires, NoCode
    <2>2. Service!Expire(k)
      BY <1>1, <2>1 DEF Service!Expire, Asks
    <2>3. k \in Service!Tickets
      BY DEF Keys, Modules, Service!Tickets, Service!Purposes
    <2> QED
      BY <2>2, <2>3 DEF Service!Next
  <1> QED
    BY <1>2, <1>4, <1>5, <1>6 DEF VarifyStep, Step, Environment, SetFails, Expire, ExpireFails,
       RedisError, Restart, store
-----------------------------------------------------------------------------
\* A thread between two requests has forgotten the last one.
IdleInv == \A t \in Threads : hpc[t] = "idle" => req[t] = NoReq

LEMMA IdleNext == Inv /\ IdleInv /\ [GateNext]_allVars => IdleInv'
  <1> SUFFICES ASSUME Inv, IdleInv, [GateNext]_allVars PROVE IdleInv'
    OBVIOUS
  <1>1. hpc \in [Threads -> Places] /\ DOMAIN req = Threads
    BY DEF Inv, TypeInv, GateTypeOK, Places, ReqInv
  <1>2. ASSUME NEW t \in Threads, NEW a, AnswerWith(t, a) PROVE IdleInv'
    BY <1>1, <1>2 DEF AnswerWith, IdleInv
  <1>3. ASSUME NEW t \in Threads, NEW l, l # "idle", Continue(t, l) PROVE IdleInv'
    BY <1>1, <1>3 DEF Continue, IdleInv
  <1>4. ASSUME NEW t \in Threads, NEW r, NEW l, l # "idle", Begin(t, r, l) PROVE IdleInv'
    BY <1>1, <1>4 DEF Begin, IdleInv
  <1>5. CASE UNCHANGED <<hpc, req>>
    BY <1>5 DEF IdleInv
  <1>6. ASSUME NEW t \in Threads, Handle(t) \/ RpcFails(t) PROVE IdleInv'
    <2>1. CASE IssueExists(t)
      BY <1>2, <1>3, <2>1 DEF IssueExists
    <2>2. CASE SendRpc(t) \/ ReceiveReply(t) \/ RpcFails(t)
      BY <1>2, <1>3, <2>2 DEF SendRpc, ReceiveReply, RpcFails
    <2>3. CASE RegGet(t) \/ RegExists(t) \/ RegInsert(t)
      BY <1>2, <1>3, <2>3 DEF RegGet, RegExists, RegInsert
    <2>4. CASE ResetExists(t) \/ ResetGet(t) \/ ResetUpdate(t)
      BY <1>2, <1>3, <2>4 DEF ResetExists, ResetGet, ResetUpdate
    <2> QED
      BY <1>6, <2>1, <2>2, <2>3, <2>4 DEF Handle
  <1>7. ASSUME NEW t \in Threads, Arrive(t) PROVE IdleInv'
    BY <1>4, <1>5, <1>7 DEF Arrive, RequestCode, RequestResetCode, RequestRegister,
       RequestReset, BadJson
  <1>8. CASE VarifyStep \/ UNCHANGED allVars
    BY <1>5, <1>8 DEF VarifyStep, handlers, allVars
  <1> QED
    BY <1>6, <1>7, <1>8 DEF GateNext

LEMMA IdleAsksNothing ==
  ASSUME IdleInv, NEW t \in Threads, hpc[t] = "idle"
  PROVE  Asks[t] = Service!Nothing /\ req[t].op \notin {"register", "reset"}
  BY AskShape DEF IdleInv, NoReq

\* The handlers.  A request with a password is a client that asks; one for a
\* code, or one that does not parse, is nothing yet.
LEMMA BeginAsks ==
  ASSUME Inv, IdleInv, NEW t \in Threads, NEW r \in PasswordRequests, NEW l \in {"regGet", "resetExists"},
         Begin(t, r, l), r.code \in 0 .. codes
  PROVE  Service!Next
  <1>1. /\ hpc[t] = "idle" /\ UNCHANGED <<vars, accounts, told, drawnFor>>
        /\ hpc' = [hpc EXCEPT ![t] = l] /\ req' = [req EXCEPT ![t] = r]
        /\ hpc \in [Threads -> Places] /\ ReqInv /\ Len(drawnFor) = codes
    BY DEF Begin, Inv, TypeInv, GateTypeOK, Places
  <1>2. /\ hpc'[t] = l /\ req'[t] = r
        /\ \A u \in Threads : u # t => hpc'[u] = hpc[u] /\ req'[u] = req[u]
    BY <1>1 DEF ReqInv
  <1>3. PICK e \in Emails, n \in 0 .. codes, p \in Passwords, m \in Modules :
          e = r.email /\ n = r.code /\ p = r.passwd /\ m = Purpose(r)
    BY DEF PasswordRequests, Purpose, Modules
  <1>4. Asked(r) = Service!Request(<<m, e>>, n, p)
    BY <1>3 DEF Asked, PasswordRequests, Service!Request
  <1>5. Asks' = [Asks EXCEPT ![t] = Service!Request(<<m, e>>, n, p)]
    <2>1. Asked(req[t])' = Asked(r)
      BY <1>2 DEF Asked, Purpose
    <2>2. ASSUME NEW u \in Threads, u # t PROVE Asked(req[u])' = Asked(req[u])
      BY <1>2, <2>2 DEF Asked, Purpose
    <2> QED
      BY <1>4, <2>1, <2>2 DEF Asks
  <1>6. Passed' = Passed
    BY <1>1, <1>2 DEF Passed
  <1>7. Asks[t] = Service!Nothing
    BY <1>1, IdleAsksNothing
  <1>8. Service!Ask(t, <<m, e>>, n, p)
    BY <1>1, <1>5, <1>6, <1>7 DEF Service!Ask, Asks, vars, store
  <1>9. <<m, e>> \in Service!Tickets /\ n \in 0 .. Len(drawnFor)
    BY <1>1 DEF Service!Tickets, Service!Purposes, Modules
  <1> QED
    BY <1>3, <1>8, <1>9 DEF Service!Next

LEMMA ArriveImplements ==
  ASSUME Inv, IdleInv, NEW t \in Threads, Arrive(t)
  PROVE  [Service!Next]_(Service!vars)
  <1>1. hpc \in [Threads -> Places] /\ ReqInv
    BY DEF Inv, TypeInv, GateTypeOK, Places
  <1>2. CASE RequestRegister(t) \/ RequestReset(t)
    <2>1. PICK r \in [op : {"register", "reset"}, email : Emails,
                      code : Drawn \cup {NoCode}, passwd : Passwords],
              l \in {"regGet", "resetExists"} : Begin(t, r, l)
      BY <1>2 DEF RequestRegister, RequestReset
    <2>2. codes \in 0 .. MaxCodes
      BY DEF Inv, TypeInv, GateTypeOK, TypeOK
    <2>3. r.code \in 0 .. codes /\ r.code \in 0 .. MaxCodes
      BY <2>2, VarifyAssumption DEF Drawn, NoCode
    <2>4. r \in PasswordRequests
      BY <2>3 DEF PasswordRequests
    <2> QED
      BY <2>1, <2>3, <2>4, BeginAsks
  <1>3. CASE RequestCode(t) \/ RequestResetCode(t) \/ BadJson(t)
    <2>1. hpc[t] = "idle" /\ UNCHANGED <<vars, accounts, told, drawnFor>>
      BY <1>3 DEF RequestCode, RequestResetCode, BadJson, Begin
    <2>2. Asks[t] = Service!Nothing /\ req[t].op \notin {"register", "reset"}
      BY <2>1, IdleAsksNothing
    <2>3. \A u \in Threads : \/ req'[u] = req[u]
                             \/ u = t /\ req'[u].op \notin {"register", "reset"}
      BY <1>1, <1>3 DEF RequestCode, RequestResetCode, BadJson, Begin, ReqInv
    <2>4. \A u \in Threads : hpc[u] \in PastCheck <=> hpc'[u] \in PastCheck
      BY <1>1, <1>3, <2>1 DEF RequestCode, RequestResetCode, BadJson, Begin, PastCheck
    <2>5. Asks' = Asks /\ Passed' = Passed
      BY <2>2, <2>3, <2>4, AsksKept
    <2> QED
      BY <2>1, <2>5 DEF Service!vars, Asks, vars, store
  <1> QED
    BY <1>2, <1>3 DEF Arrive

\* An answer that ends no grant and confirms nothing: the client is refused, or
\* it had only asked for a code.
LEMMA QuietAnswer ==
  ASSUME Inv, NEW t \in Threads, NEW a, AnswerWith(t, a), hpc[t] \notin PastCheck,
         a \notin {"SUCCESS", "ERR_EMAIL_REGISTERED"} \/ req[t] \in CodeRequests,
         UNCHANGED <<vars, accounts, drawnFor>>
  PROVE  [Service!Next]_(Service!vars)
  <1>1. /\ Asks' = [Asks EXCEPT ![t] = Service!Nothing] /\ Passed' = Passed \ {t}
    BY AnswerForgets DEF Inv
  <1>2. t \notin Passed /\ told' = told
    BY DEF Passed, PastCheck, AnswerWith, CodeRequests
  <1>3. CASE Asks[t] # Service!Nothing
    <2>1. Service!Refuse(t)
      BY <1>1, <1>2, <1>3 DEF Service!Refuse, Service!Forget, Asks, vars, store
    <2> QED
      BY <2>1 DEF Service!Next
  <1>4. CASE Asks[t] = Service!Nothing
    <2>1. Asks' = Asks /\ Passed' = Passed
      BY <1>1, <1>2, <1>4 DEF Asks
    <2> QED
      BY <1>2, <2>1 DEF Service!vars, Asks, vars, store
  <1> QED
    BY <1>3, <1>4

\* A thread that goes on, on its side of the check.
LEMMA QuietContinue ==
  ASSUME Inv, NEW t \in Threads, NEW l, Continue(t, l),
         hpc[t] \in PastCheck <=> l \in PastCheck
  PROVE  Asks' = Asks /\ Passed' = Passed /\ told' = told
  <1>1. hpc \in [Threads -> Places]
    BY DEF Inv, TypeInv, GateTypeOK, Places
  <1>2. hpc' = [hpc EXCEPT ![t] = l] /\ req' = req /\ told' = told
    BY DEF Continue
  <1> QED
    BY <1>1, <1>2, AsksKept

\* The check of a code passed: the client showed the code in force.
LEMMA Authorising ==
  ASSUME Inv, NEW t \in Threads, NEW m \in Modules, NEW l \in PastCheck, Continue(t, l),
         hpc[t] \notin PastCheck, req[t] \in PasswordRequests, m = Purpose(req[t]),
         Accepts(m, req[t].email, req[t].code),
         UNCHANGED <<vars, accounts, drawnFor>>
  PROVE  Service!Next
  <1>1. hpc \in [Threads -> Places]
    BY DEF Inv, TypeInv, GateTypeOK, Places
  <1>2. hpc' = [hpc EXCEPT ![t] = l] /\ req' = req /\ told' = told
    BY DEF Continue
  <1>3. Asks' = Asks
    BY <1>2 DEF Asks, Asked, Purpose
  <1>4. Passed' = Passed \cup {t} /\ t \notin Passed
    BY <1>1, <1>2 DEF Passed, PastCheck
  <1>5. /\ Asks[t] # Service!Nothing /\ Asks[t].code = req[t].code
        /\ Asks[t].ticket = <<m, req[t].email>>
    BY AskShape
  <1>6. req[t].code # 0 /\ redis[<<m, req[t].email>>] = req[t].code
    BY DEF Accepts, NoCode
  <1>7. Service!ShowsCodeInForce(t)
    BY <1>5, <1>6 DEF Service!ShowsCodeInForce, Asks
  <1>8. Service!Authorise(t)
    BY <1>2, <1>3, <1>4, <1>7 DEF Service!Authorise, Asks, vars, store
  <1> QED
    BY <1>8 DEF Service!Next

\* The answer of a request that passed its check: it uses the grant up, and
\* confirms at most that its address is registered.
LEMMA Settling ==
  ASSUME Inv, NEW t \in Threads, NEW a, AnswerWith(t, a), hpc[t] \in PastCheck,
         UNCHANGED <<vars, drawnFor>>,
         hpc[t] \in {"regExists", "regInsert"}
           /\ a \in {"SUCCESS", "ERR_EMAIL_REGISTERED"} => accounts'[req[t].email] # <<>>
  PROVE  Service!Settle(t)
  <1>1. /\ ReqInv /\ Asks' = [Asks EXCEPT ![t] = Service!Nothing]
        /\ Passed' = Passed \ {t}
    BY AnswerForgets DEF Inv, TypeInv
  <1>2. t \in Passed /\ Asks[t].ticket[2] = req[t].email
    <2>1. req[t] \in PasswordRequests
      BY <1>1 DEF ReqInv, PastCheck, Registering, Resetting
    <2> QED
      BY <2>1, AskShape
  <1>3. \/ told' = told
        \/ told' = told \cup {req[t].email} /\ accounts'[req[t].email] # <<>>
    <2>1. hpc[t] = "resetUpdate" => req[t].op # "register"
      BY <1>1 DEF ReqInv, Resetting
    <2> QED
      BY <2>1, AnswerTells DEF Inv, PastCheck
  <1>4. Service!Forget(t)
    BY <1>1 DEF Service!Forget, Asks, vars, store
  <1> QED
    BY <1>2, <1>3, <1>4 DEF Service!Settle, Asks

LEMMA HandleImplements ==
  ASSUME Inv, NEW t \in Threads, Handle(t) \/ RpcFails(t)
  PROVE  [Service!Next]_(Service!vars)
  <1>1. hpc \in [Threads -> Places] /\ ReqInv
    BY DEF Inv, TypeInv, GateTypeOK, Places
  <1>2. ASSUME IssueExists(t) PROVE [Service!Next]_(Service!vars)
    <2>1. hpc[t] \notin PastCheck /\ UNCHANGED <<vars, accounts, drawnFor>>
      BY <1>2 DEF IssueExists, PastCheck
    <2>2. CASE \E a : AnswerWith(t, a) /\ a \notin {"SUCCESS", "ERR_EMAIL_REGISTERED"}
      BY <2>1, <2>2, QuietAnswer
    <2>3. CASE Continue(t, "issue")
      <3>1. Asks' = Asks /\ Passed' = Passed /\ told' = told
        BY <2>1, <2>3, QuietContinue DEF PastCheck
      <3> QED
        BY <2>1, <3>1 DEF Service!vars, Asks, vars, store
    <2> QED
      BY <1>2, <2>2, <2>3 DEF IssueExists
  <1>3. ASSUME SendRpc(t) PROVE Service!Next
    <2>1. hpc[t] = "issue" /\ Continue(t, "rpc") /\ UNCHANGED <<accounts, redis, mails>>
      BY <1>3 DEF SendRpc, GetVarifyCode, store
    <2>2. PICK m \in Modules, e \in Emails : m = req[t].module /\ e = req[t].email
      BY <1>1, <2>1 DEF ReqInv, CodeRequests
    <2>3. drawnFor' = Append(drawnFor, <<m, e>>)
      BY <1>3, <2>2 DEF SendRpc
    <2>4. Asks' = Asks /\ Passed' = Passed /\ told' = told
      BY <2>1, QuietContinue DEF PastCheck
    <2>5. Service!Deserves(<<m, e>>)
      BY <2>1, <2>2 DEF Inv, AccountInv, HasAccount, Service!Deserves, Service!Registered
    <2>6. Service!Issue(<<m, e>>)
      BY <2>1, <2>3, <2>4, <2>5 DEF Service!Issue, Asks
    <2>7. <<m, e>> \in Service!Tickets
      BY DEF Service!Tickets, Service!Purposes, Modules
    <2> QED
      BY <2>6, <2>7 DEF Service!Next
  <1>4. ASSUME ReceiveReply(t) \/ RpcFails(t) PROVE [Service!Next]_(Service!vars)
    <2>1. hpc[t] \in {"issue", "rpc"} /\ UNCHANGED <<vars, accounts, drawnFor>>
      BY <1>4 DEF ReceiveReply, RpcFails
    <2>2. /\ \E a : AnswerWith(t, a)
          /\ req[t] \in CodeRequests /\ hpc[t] \notin PastCheck
      BY <1>1, <1>4, <2>1 DEF ReceiveReply, RpcFails, ReqInv, PastCheck
    <2> QED
      BY <2>1, <2>2, QuietAnswer
  <1>5. ASSUME RegGet(t) \/ ResetGet(t) PROVE [Service!Next]_(Service!vars)
    <2>1. /\ hpc[t] \in {"regGet", "resetGet"} /\ UNCHANGED <<vars, accounts, drawnFor>>
          /\ req[t] \in PasswordRequests
          /\ Purpose(req[t]) = IF hpc[t] = "regGet" THEN "Register" ELSE "ResetPwd"
      BY <1>1, <1>5 DEF RegGet, ResetGet, ReqInv, Registering, Resetting, Purpose
    <2>2. CASE \E a : AnswerWith(t, a) /\ a \in {"ERR_VARIFYCODE", "ERR_SERVER"}
      BY <2>1, <2>2, QuietAnswer DEF PastCheck
    <2>3. CASE hpc[t] = "regGet" /\ Continue(t, "regExists")
                 /\ Accepts("Register", req[t].email, req[t].code)
      BY <2>1, <2>3, Authorising DEF PastCheck, Modules
    <2>4. CASE hpc[t] = "resetGet" /\ Continue(t, "resetUpdate")
                 /\ Accepts("ResetPwd", req[t].email, req[t].code)
      BY <2>1, <2>4, Authorising DEF PastCheck, Modules
    <2> QED
      BY <1>5, <2>2, <2>3, <2>4 DEF RegGet, ResetGet
  <1>6. ASSUME RegExists(t) PROVE [Service!Next]_(Service!vars)
    <2>1. hpc[t] = "regExists" /\ UNCHANGED <<vars, accounts, drawnFor>>
      BY <1>6 DEF RegExists
    <2>2. CASE Continue(t, "regInsert")
      <3>1. Asks' = Asks /\ Passed' = Passed /\ told' = told
        BY <2>1, <2>2, QuietContinue DEF PastCheck
      <3> QED
        BY <2>1, <3>1 DEF Service!vars, Asks, vars, store
    <2>3. CASE \E a : AnswerWith(t, a) /\ (a = "ERR_EMAIL_REGISTERED" => accounts[req[t].email] # <<>>)
                                       /\ a # "SUCCESS"
      <3>1. Service!Settle(t)
        BY <2>1, <2>3, Settling DEF PastCheck
      <3>2. Service!Decline(t) /\ t \in Passed
        BY <2>1, <3>1 DEF Service!Decline, Service!Settle
      <3> QED
        BY <3>2 DEF Service!Next
    <2> QED
      BY <1>6, <2>2, <2>3 DEF RegExists, EmailExists
  <1>7. ASSUME RegInsert(t) PROVE Service!Next
    <2>1. hpc[t] = "regInsert" /\ UNCHANGED <<vars, drawnFor>>
      BY <1>7 DEF RegInsert
    <2>2. PICK e \in Emails, p \in Passwords : e = req[t].email /\ p = req[t].passwd
      BY <1>1, <2>1 DEF ReqInv, Registering, PasswordRequests
    <2>3. Asks[t].ticket = <<"Register", e>> /\ Asks[t].passwd = p
      BY <1>1, <2>1, <2>2, AskShape DEF ReqInv, Registering, Purpose
    <2>4. CASE Insert(req[t].email, req[t].passwd) /\ \E a : AnswerWith(t, a)
      <3>1. accounts' = [accounts EXCEPT ![e] = Append(@, p)]
        BY <2>2, <2>4 DEF Insert
      <3>2. accounts \in [Emails -> Seq(Passwords)]
        BY DEF Inv, TypeInv, GateTypeOK
      <3>3. accounts'[e] # <<>>
        <4>1. accounts'[e] = Append(accounts[e], p) /\ accounts[e] \in Seq(Passwords)
          BY <3>1, <3>2
        <4> QED
          BY <4>1, Appending
      <3>4. Service!Settle(t)
        BY <2>1, <2>2, <2>4, <3>3, Settling DEF PastCheck
      <3>5. Service!Register(t)
        <4>1. Asks[t].ticket[1] = "Register" /\ Asks[t].ticket[2] = e /\ Asks[t].passwd = p
          BY <2>3
        <4> QED
          BY <3>1, <3>4, <4>1, Zenon DEF Service!Register, Asks
      <3> QED
        BY <3>4, <3>5 DEF Service!Next, Service!Settle
    <2>5. CASE UNCHANGED accounts /\ AnswerWith(t, "ERR_SERVER")
      <3>1. Service!Settle(t)
        BY <2>1, <2>5, Settling DEF PastCheck
      <3>2. Service!Decline(t)
        BY <2>5, <3>1 DEF Service!Decline
      <3> QED
        BY <3>1, <3>2 DEF Service!Next, Service!Settle
    <2> QED
      BY <1>7, <2>4, <2>5 DEF RegInsert
  <1>8. ASSUME ResetExists(t) PROVE [Service!Next]_(Service!vars)
    <2>1. hpc[t] \notin PastCheck /\ UNCHANGED <<vars, accounts, drawnFor>>
      BY <1>8 DEF ResetExists, PastCheck
    <2>2. CASE \E a : AnswerWith(t, a) /\ a \notin {"SUCCESS", "ERR_EMAIL_REGISTERED"}
      BY <2>1, <2>2, QuietAnswer
    <2>3. CASE Continue(t, "resetGet")
      <3>1. Asks' = Asks /\ Passed' = Passed /\ told' = told
        BY <2>1, <2>3, QuietContinue DEF PastCheck
      <3> QED
        BY <2>1, <3>1 DEF Service!vars, Asks, vars, store
    <2> QED
      BY <1>8, <2>2, <2>3 DEF ResetExists
  <1>9. ASSUME ResetUpdate(t) PROVE Service!Next
    <2>1. hpc[t] = "resetUpdate" /\ UNCHANGED <<vars, drawnFor, accounts>> /\ \E a : AnswerWith(t, a)
      BY <1>9 DEF ResetUpdate, UpdatePwd
    <2>2. Service!Settle(t)
      BY <2>1, Settling DEF PastCheck
    <2>3. Service!Decline(t)
      BY <2>1, <2>2 DEF Service!Decline
    <2> QED
      BY <2>2, <2>3 DEF Service!Next, Service!Settle
  <1> QED
    BY <1>2, <1>3, <1>4, <1>5, <1>6, <1>7, <1>8, <1>9 DEF Handle

-----------------------------------------------------------------------------
\* Whatever the number of io threads, addresses, codes and calls, with lost
\* replies, failing calls and restarts, the gate server with its verification
\* server implements AccountService: accounts change only for a client that
\* showed the code in force for that purpose and address (LogicSystem.cpp:106,
\* LogicSystem.cpp:159, server.js).
THEOREM Refinement == GateSpec => ImplementsService
  <1>1. GateInit => Service!Init
    <2>1. ASSUME GateInit
          PROVE  Asks = [t \in Threads |-> Service!Nothing] /\ Passed = {}
      BY <2>1 DEF GateInit, Asks, Asked, NoReq, Service!Nothing, Passed
    <2> QED
      BY <2>1 DEF GateInit, Init, Service!Init, Asks, NoCode, Keys, Modules,
         Service!Tickets, Service!Purposes
  <1>2. Inv /\ IdleInv /\ [GateNext]_allVars => [Service!Next]_(Service!vars)
    <2> SUFFICES ASSUME Inv, IdleInv, [GateNext]_allVars PROVE [Service!Next]_(Service!vars)
      OBVIOUS
    <2>1. CASE UNCHANGED allVars
      <3>1. Asks' = Asks /\ Passed' = Passed
        BY <2>1, AsksKept DEF allVars, handlers
      <3> QED
        BY <2>1, <3>1 DEF allVars, handlers, vars, store, Service!vars, Asks
    <2> QED
      BY <2>1, VarifyImplements, ArriveImplements, HandleImplements DEF GateNext
  <1>3. GateInit => IdleInv
    BY DEF GateInit, IdleInv
  <1> QED
    BY <1>1, <1>2, <1>3, IdleNext, Invariant, PTL DEF GateSpec, ImplementsService, Service!Spec

\* The handlers call the verification server as it expects to be called: with
\* a module it knows and an address (VarifyGrpcClient::getVarifyCode), in steps
\* that are its own.  What holds of VarifyServer therefore holds under the gate
\* server.
THEOREM ImplementsVarify == GateSpec => Spec
  <1>1. GateInit => Init
    BY DEF GateInit
  <1>2. ASSUME Inv, [GateNext]_allVars PROVE [Next]_vars
    <2>1. CASE VarifyStep
      BY <2>1 DEF VarifyStep, Next
    <2>2. ASSUME NEW t \in Threads, SendRpc(t) PROVE Next
      <3>1. req[t] \in CodeRequests
        BY <1>2, <2>2 DEF SendRpc, Inv, TypeInv, ReqInv
      <3>2. req[t].module \in Modules /\ req[t].email \in Emails
        BY <3>1 DEF CodeRequests
      <3>3. PICK c \in Calls : GetVarifyCode(c, req[t].module, req[t].email)
        BY <2>2 DEF SendRpc
      <3> QED
        BY <3>2, <3>3 DEF Next
    <2>3. ASSUME NEW t \in Threads, Handle(t) \/ RpcFails(t), ~SendRpc(t) PROVE UNCHANGED vars
      BY <2>3 DEF Handle, IssueExists, ReceiveReply, RegGet, RegExists, RegInsert,
         ResetExists, ResetGet, ResetUpdate, RpcFails
    <2>4. ASSUME NEW t \in Threads, Arrive(t) PROVE UNCHANGED vars
      BY <2>4 DEF Arrive, RequestCode, RequestResetCode, RequestRegister, RequestReset,
         BadJson, Begin
    <2>5. CASE UNCHANGED allVars
      BY <2>5 DEF allVars
    <2> QED
      BY <1>2, <2>1, <2>2, <2>3, <2>4, <2>5 DEF GateNext
  <1> QED
    BY <1>1, <1>2, Invariant, PTL DEF GateSpec, Spec

\* So, in the composed system, whatever the handlers do, a code that was mailed
\* and is accepted expires, what Redis keeps without expiry or without a mail
\* comes from calls that failed, and as long as none fails one of the codes that
\* an address was mailed works once the calls for it are over.
THEOREM VarifyHolds ==
  GateSpec => [](MailedCodeExpires /\ KeysExpire /\ AcceptedWasMailed /\ PromiseKept)
  BY ImplementsVarify, MailedCodesExpire, AllKeysExpire, AcceptedCodesWereMailed,
     PromisesKept, PTL
=============================================================================
