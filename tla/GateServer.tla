----------------------------- MODULE GateServer -----------------------------
(***************************************************************************)
(* The request handlers of the gate server (LogicSystem.cpp over SqlMgr),  *)
(* run by several io threads, with the verification server they call.      *)
(* Between two calls to Redis, MariaDB or the verification server anything *)
(* may happen, so each such call is a step.  The two pools these calls go  *)
(* through have modules of their own (RpcConnectionPool, SqlPool).         *)
(*                                                                         *)
(* A password stands for all its salted hashes.  The table user_info is    *)
(* external: the repository does not say whether its email is unique.      *)
(***************************************************************************)
EXTENDS VarifyServer, Sequences

CONSTANTS
  Threads,      \* the io threads
  Passwords,
  UniqueEmail   \* whether user_info has a unique index on email

ASSUME GateAssumption ==
  /\ IsFiniteSet(Threads)
  /\ UniqueEmail \in BOOLEAN

VARIABLES
  accounts,     \* user_info: the passwords of the rows of each email
  hpc, req,     \* where each thread is in its handler, and the request
  rpc,          \* the call of the verification server it waits for
  answer,       \* the last answer it wrote
  told,         \* history: addresses said to be registered, by an answer
  drawnFor      \* history: the purpose and address each code was drawn for

handlers == <<accounts, hpc, req, rpc, answer, told, drawnFor>>
allVars == <<vars, handlers>>

NoCall == "none"
NoReq == [op |-> "none"]
Drawn == 1 .. codes
Issuing == {t \in Threads : hpc[t] \in {"issue", "issueExists"}}

GateTypeOK ==
  /\ TypeOK
  /\ accounts \in [Emails -> Seq(Passwords)]
  /\ hpc \in [Threads -> {"idle", "issueExists", "issue", "rpc",
                          "regGet", "regExists", "regInsert",
                          "resetExists", "resetGet", "resetUpdate"}]
  /\ rpc \in [Threads -> Calls \cup {NoCall}]
  /\ told \subseteq Emails
  /\ drawnFor \in Seq(Modules \X Emails) /\ Len(drawnFor) = codes

GateInit ==
  /\ Init
  /\ accounts = [e \in Emails |-> <<>>]
  /\ hpc = [t \in Threads |-> "idle"]
  /\ req = [t \in Threads |-> NoReq]
  /\ rpc = [t \in Threads |-> NoCall]
  /\ answer = [t \in Threads |-> "none"]
  /\ told = {}
  /\ drawnFor = <<>>

-----------------------------------------------------------------------------
\* A request arrives and its body is parsed.
Begin(t, r, l) ==
  /\ hpc[t] = "idle"
  /\ req' = [req EXCEPT ![t] = r]
  /\ hpc' = [hpc EXCEPT ![t] = l]
  /\ answer' = [answer EXCEPT ![t] = "none"]
  /\ UNCHANGED <<vars, accounts, rpc, told, drawnFor>>

CanIssue == codes + Cardinality(Issuing) < MaxCodes

RequestCode(t) ==
  /\ CanIssue
  /\ \E e \in Emails : Begin(t, [op |-> "code", module |-> "Register", email |-> e], "issue")

RequestResetCode(t) ==
  /\ CanIssue
  /\ \E e \in Emails :
       Begin(t, [op |-> "code", module |-> "ResetPwd", email |-> e], "issueExists")

\* The client may send any code that was ever drawn, for whomever, or none such.
RequestRegister(t) ==
  \E e \in Emails, n \in Drawn \cup {NoCode}, p \in Passwords :
    Begin(t, [op |-> "register", email |-> e, code |-> n, passwd |-> p], "regGet")

RequestReset(t) ==
  \E e \in Emails, n \in Drawn \cup {NoCode}, p \in Passwords :
    Begin(t, [op |-> "reset", email |-> e, code |-> n, passwd |-> p], "resetExists")

\* A body that does not parse; one that is not an object makes asString throw,
\* and the connection is dropped unanswered.
BadJson(t) ==
  /\ hpc[t] = "idle"
  /\ \E a \in {"ERR_JSON", "none"} : answer' = [answer EXCEPT ![t] = a]
  /\ UNCHANGED <<vars, accounts, hpc, req, rpc, told, drawnFor>>

\* root["error"] is set and the response written.
AnswerWith(t, a) ==
  /\ answer' = [answer EXCEPT ![t] = a]
  /\ hpc' = [hpc EXCEPT ![t] = "idle"]
  /\ req' = [req EXCEPT ![t] = NoReq]
  /\ told' = IF req[t].op = "register" /\ a \in {"SUCCESS", "ERR_EMAIL_REGISTERED"}
             THEN told \cup {req[t].email} ELSE told

Continue(t, l) ==
  /\ hpc' = [hpc EXCEPT ![t] = l]
  /\ UNCHANGED <<answer, req, told>>

-----------------------------------------------------------------------------
EmailNeverFound(e) == {0}

\* SqlMgr::emailExists: 1, 0, or -1 when the query threw.
EmailExists(e) ==
  (IF accounts[e] = <<>> THEN {0} ELSE {1}) \cup (IF Faults THEN {-1} ELSE {})

\* redis_->get gives the value of the key, or throws.
AcceptsAnyPurpose(m, e, n) == \E l \in Modules : n # NoCode /\ redis[<<l, e>>] = n

AcceptsWhenAny(m, e, n) == redis[<<m, e>>] # NoCode

\* code == *redis_->get(prefix + email): a missing key equals no code.
Accepts(m, e, n) == n # NoCode /\ redis[<<m, e>>] = n

InsertNothing(e, p) == UNCHANGED accounts
InsertSwapped(e, p) == accounts' = [accounts EXCEPT ![e] = Append(@, e)]

\* SqlMgr::regUser, the hash and the INSERT.  An INSERT whose answer is lost
\* counts as failed.
Insert(e, p) == accounts' = [accounts EXCEPT ![e] = Append(@, p)]

\* What SqlDao::updatePwd asks for, were its parameters in the order of the
\* question marks of its statement.
Update(e, p) ==
  accounts' = [accounts EXCEPT ![e] = [i \in DOMAIN @ |-> p]]

\* SqlDao::updatePwd binds the email where the statement sets pwd_hash, and the
\* hash where it selects the row: no row has that email, and none changes.
UpdatePwd(e, p) == UNCHANGED accounts

-----------------------------------------------------------------------------
\* /get_reset_varifycode: the check that there is an account to reset.
IssueUnchecked(t) ==
  /\ hpc[t] = "issueExists"
  /\ Continue(t, "issue")
  /\ UNCHANGED <<vars, accounts, rpc, drawnFor>>

IssueExists(t) ==
  /\ hpc[t] = "issueExists"
  /\ \E x \in EmailExists(req[t].email) :
       \/ x = 1 /\ Continue(t, "issue")
       \/ x = 0 /\ AnswerWith(t, "ERR_USER_NON")
       \/ x = -1 /\ AnswerWith(t, "ERR_SERVER")
  /\ UNCHANGED <<vars, accounts, rpc, drawnFor>>

\* VarifyGrpcClient::getVarifyCode sends the request.
SendRpc(t) ==
  /\ hpc[t] = "issue"
  /\ \E c \in Calls :
       /\ \A u \in Threads : rpc[u] # c
       /\ GetVarifyCode(c, req[t].module, req[t].email)
       /\ rpc' = [rpc EXCEPT ![t] = c]
  /\ drawnFor' = Append(drawnFor, <<req[t].module, req[t].email>>)
  /\ Continue(t, "rpc")
  /\ UNCHANGED accounts

ReceiveSuccess(t) ==
  /\ hpc[t] = "rpc" /\ pc[rpc[t]] = "idle" /\ reply[rpc[t]] = "Success"
  /\ AnswerWith(t, "Success")
  /\ rpc' = [rpc EXCEPT ![t] = NoCall]
  /\ UNCHANGED <<vars, accounts, drawnFor>>

\* The reply; its error code is passed on as it is.
ReceiveReply(t) ==
  /\ hpc[t] = "rpc" /\ pc[rpc[t]] = "idle"
  /\ AnswerWith(t, IF reply[rpc[t]] = "RpcFailed" THEN "ERR_RPC_FAILED" ELSE reply[rpc[t]])
  /\ rpc' = [rpc EXCEPT ![t] = NoCall]
  /\ UNCHANGED <<vars, accounts, drawnFor>>

\* The connection to the verification server breaks, or was never made: the
\* call, if there is one, goes on without its caller.
RpcFails(t) ==
  /\ hpc[t] \in {"issue", "rpc"} /\ Faults
  /\ AnswerWith(t, "ERR_RPC_FAILED")
  /\ rpc' = [rpc EXCEPT ![t] = NoCall]
  /\ UNCHANGED <<vars, accounts, drawnFor>>

\* /user_register
RegGet(t) ==
  /\ hpc[t] = "regGet"
  /\ \/ IF Accepts("Register", req[t].email, req[t].code)
        THEN Continue(t, "regExists") ELSE AnswerWith(t, "ERR_VARIFYCODE")
     \/ Faults /\ AnswerWith(t, "ERR_SERVER")
  /\ UNCHANGED <<vars, accounts, rpc, drawnFor>>

RegExists(t) ==
  /\ hpc[t] = "regExists"
  /\ \E x \in EmailExists(req[t].email) :
       \/ x = 1 /\ AnswerWith(t, "ERR_EMAIL_REGISTERED")
       \/ x = -1 /\ AnswerWith(t, "ERR_SERVER")
       \/ x = 0 /\ Continue(t, "regInsert")
  /\ UNCHANGED <<vars, accounts, rpc, drawnFor>>

Refused(e) == UniqueEmail /\ accounts[e] # <<>>

RegInsert(t) ==
  /\ hpc[t] = "regInsert"
  /\ \/ ~Refused(req[t].email) /\ Insert(req[t].email, req[t].passwd) /\ AnswerWith(t, "SUCCESS")
     \/ ~Refused(req[t].email) /\ Faults
        /\ Insert(req[t].email, req[t].passwd) /\ AnswerWith(t, "ERR_SERVER")
     \/ (Refused(req[t].email) \/ Faults) /\ UNCHANGED accounts /\ AnswerWith(t, "ERR_SERVER")
  /\ UNCHANGED <<vars, rpc, drawnFor>>

\* /reset_passwd: the account first, then the code.
ResetExists(t) ==
  /\ hpc[t] = "resetExists"
  /\ \E x \in EmailExists(req[t].email) :
       \/ x = 1 /\ Continue(t, "resetGet")
       \/ x = 0 /\ AnswerWith(t, "ERR_USER_NON")
       \/ x = -1 /\ AnswerWith(t, "ERR_SERVER")
  /\ UNCHANGED <<vars, accounts, rpc, drawnFor>>

ResetGet(t) ==
  /\ hpc[t] = "resetGet"
  /\ \/ IF Accepts("ResetPwd", req[t].email, req[t].code)
        THEN Continue(t, "resetUpdate") ELSE AnswerWith(t, "ERR_VARIFYCODE")
     \/ Faults /\ AnswerWith(t, "ERR_SERVER")
  /\ UNCHANGED <<vars, accounts, rpc, drawnFor>>

ResetUpdate(t) ==
  /\ hpc[t] = "resetUpdate"
  /\ \/ UpdatePwd(req[t].email, req[t].passwd) /\ AnswerWith(t, "SUCCESS")
     \/ Faults /\ UNCHANGED accounts /\ AnswerWith(t, "ERR_SERVER")
  /\ UNCHANGED <<vars, rpc, drawnFor>>

-----------------------------------------------------------------------------
Handle(t) ==
  \/ IssueExists(t) \/ SendRpc(t) \/ ReceiveReply(t)
  \/ RegGet(t) \/ RegExists(t) \/ RegInsert(t)
  \/ ResetExists(t) \/ ResetGet(t) \/ ResetUpdate(t)

Arrive(t) ==
  \/ RequestCode(t) \/ RequestResetCode(t)
  \/ RequestRegister(t) \/ RequestReset(t) \/ BadJson(t)

\* The verification server on its own, its calls being those of SendRpc.
VarifyStep ==
  /\ (\E c \in Calls : Step(c)) \/ Environment
  /\ UNCHANGED handlers

GateNext == VarifyStep \/ \E t \in Threads : Handle(t) \/ RpcFails(t) \/ Arrive(t)

\* Threads run, and the calls of the verification server make progress; an RPC
\* need not fail, so that only its reply is sure to end the wait for it.
GateFairness ==
  /\ \A t \in Threads : WF_allVars(Handle(t))
  /\ \A c \in Calls : WF_allVars(Step(c) /\ UNCHANGED handlers)

GateSpec == GateInit /\ [][GateNext]_allVars
GateFairSpec == GateSpec /\ GateFairness

-----------------------------------------------------------------------------
\* A handler goes on past the code check only with a code that was drawn for
\* its own purpose and address: a code to register cannot reset a password,
\* nor can the code of one address serve another.
PurposeRespected ==
  \A t \in Threads :
    /\ hpc[t] \in {"regExists", "regInsert"} =>
         drawnFor[req[t].code] = <<"Register", req[t].email>>
    /\ hpc[t] = "resetUpdate" =>
         drawnFor[req[t].code] = <<"ResetPwd", req[t].email>>

\* Codes to reset a password only go to addresses with an account, whatever
\* happened between the check and the mail.
ResetMailsHaveAccounts ==
  \A m \in mails : m[1][1] = "ResetPwd" => accounts[m[1][2]] # <<>>

\* A registration that was told SUCCESS, or that the email is registered, was
\* told the truth, and it stays true whatever other requests do.
RegisteredStays == \A e \in told : accounts[e] # <<>>

\* Even without a unique index an address gets no more rows than there are io
\* threads: only those that had passed the check before the first row was there
\* can add another.
RowsBounded == \A e \in Emails : Len(accounts[e]) <= Cardinality(Threads)

\* Every request that reached a handler is answered: its thread is free again.
RequestsAnswered == \A t \in Threads : []<>(hpc[t] = "idle")

\* reset_passwd answers SUCCESS, and logs that the password was reset
\* (LogicSystem.cpp:164), when the new password is the account's.
ResetTakesEffect ==
  [][\A t \in Threads :
       hpc[t] = "resetUpdate" /\ answer'[t] = "SUCCESS" =>
         \A i \in DOMAIN accounts'[req[t].email] :
           accounts'[req[t].email][i] = req[t].passwd]_allVars

\* What the client of a request to register or to reset asks for.
Purpose(r) == IF r.op = "register" THEN "Register" ELSE "ResetPwd"
Asked(r) ==
  IF r.op \in {"register", "reset"}
  THEN [ticket |-> <<Purpose(r), r.email>>, code |-> r.code, passwd |-> r.passwd]
  ELSE <<>>

\* The threads whose request is past the check of its code.
Passed == {t \in Threads : hpc[t] \in {"regExists", "regInsert", "resetUpdate"}}

Service == INSTANCE AccountService WITH
  Clients <- Threads,
  rows <- accounts,
  issued <- drawnFor,
  inForce <- redis,
  posted <- mails,
  asked <- [t \in Threads |-> Asked(req[t])],
  granted <- Passed,
  confirmed <- told

\* Threads, lost replies, failing calls, overlapping codes and restarts together
\* do nothing that AccountService does not: an account is only changed for a
\* client that showed the very code in force for that purpose and that address,
\* and to the password it sent with it; a code comes into force and is mailed
\* only for what it was drawn for.
ImplementsService == Service!Spec
=============================================================================
