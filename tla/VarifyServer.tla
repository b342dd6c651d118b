---------------------------- MODULE VarifyServer ----------------------------
(***************************************************************************)
(* The verification server (varify_server): GetVarifyCode draws a code,    *)
(* stores it in Redis with SET and then EXPIRE, mails it, and answers.     *)
(* Node runs one call at a time but switches at every await, so calls      *)
(* interleave between the steps below.  Redis and the mail server are      *)
(* external: their part is what the code relies on.                        *)
(*                                                                         *)
(* Two calls never draw the same code here; in the program they do once in *)
(* a million.  A call ends before a key it has set can expire.             *)
(***************************************************************************)
EXTENDS Integers, FiniteSets

CONSTANTS
  Calls,      \* calls that may be in flight together
  Emails,
  MaxCodes,   \* bound: codes drawn in one behaviour
  Faults      \* whether Redis, the mail server and the process may fail

ASSUME VarifyAssumption ==
  /\ MaxCodes \in Nat
  /\ Faults \in BOOLEAN

VARIABLES
  redis,      \* the code stored under each key, in Redis
  ttl,        \* whether that key is going to expire
  client,     \* the state of RedisCli
  mails,      \* the codes mailed and not yet thirty minutes old, by key
  codes,      \* codes drawn so far: the last one is the number codes
  broken,     \* history: keys that a failed call may have left as they are
  pc, key, code, reply   \* the calls

store == <<redis, ttl>>
vars == <<store, client, mails, codes, broken, pc, key, code, reply>>

Modules == {"Register", "ResetPwd"}
Keys == Modules \X Emails
NoCode == 0
NoKey == <<>>
InFlight(k) == {c \in Calls : pc[c] # "idle" /\ key[c] = k}

KeyWithoutModule(m, e) == <<"Register", e>>

\* code_prefix[module] + email
KeyOf(m, e) == <<m, e>>

-----------------------------------------------------------------------------
Init ==
  /\ redis = [k \in Keys |-> NoCode]
  /\ ttl = [k \in Keys |-> FALSE]
  /\ client = "open"
  /\ mails = {}
  /\ codes = 0
  /\ broken = {}
  /\ pc = [c \in Calls |-> "idle"]
  /\ key = [c \in Calls |-> NoKey]
  /\ code = [c \in Calls |-> NoCode]
  /\ reply = [c \in Calls |-> "none"]

Goto(c, l) == pc' = [pc EXCEPT ![c] = l]

\* callback(null, {error: r}) ends the call
Reply(c, r) ==
  /\ Goto(c, "idle")
  /\ reply' = [reply EXCEPT ![c] = r]
  /\ key' = [key EXCEPT ![c] = NoKey]
  /\ code' = [code EXCEPT ![c] = NoCode]

\* Up to the first await: the code is drawn and SET is sent.
GetVarifyCode(c, m, e) ==
  /\ pc[c] = "idle" /\ codes < MaxCodes
  /\ codes' = codes + 1
  /\ key' = [key EXCEPT ![c] = KeyOf(m, e)]
  /\ code' = [code EXCEPT ![c] = codes + 1]
  /\ reply' = [reply EXCEPT ![c] = "none"]
  /\ Goto(c, "set")
  /\ UNCHANGED <<store, client, mails, broken>>

\* SET replaces the value of the key and drops the expiry it had: with no other
\* call for that key about, nothing remains of what failed before.
SetValue(c) ==
  /\ redis' = [redis EXCEPT ![key[c]] = code[c]]
  /\ ttl' = [ttl EXCEPT ![key[c]] = FALSE]
  /\ broken' = IF InFlight(key[c]) = {c} THEN broken \ {key[c]} ELSE broken

SetThenMail(c) ==
  /\ pc[c] = "set" /\ client = "open"
  /\ SetValue(c)
  /\ Goto(c, "mail")
  /\ UNCHANGED <<client, mails, codes, key, code, reply>>

\* await RedisCli.set(key, value)
Set(c) ==
  /\ pc[c] = "set" /\ client = "open"
  /\ SetValue(c)
  /\ Goto(c, "expire")
  /\ UNCHANGED <<client, mails, codes, key, code, reply>>

\* await RedisCli.expire(key, exptime): no matter whose value the key has now
Expire(c) ==
  /\ pc[c] = "expire" /\ client = "open"
  /\ ttl' = [ttl EXCEPT ![key[c]] = redis[key[c]] # NoCode]
  /\ Goto(c, "mail")
  /\ UNCHANGED <<redis, client, mails, codes, broken, key, code, reply>>

SetFailsSilently(c) == pc[c] = "set" /\ Faults /\ UNCHANGED vars

\* setRedisExpire catches the error of either command and returns false.  Each
\* step above is a command being carried out, so that an answer which is lost
\* after it is a failure in the state that follows.
SetFails(c) ==
  /\ pc[c] = "set" /\ Faults
  /\ Reply(c, "RedisErr")
  /\ UNCHANGED <<store, client, mails, codes, broken>>

ExpireFails(c) ==
  /\ pc[c] \in {"expire", "mail"} /\ Faults
  /\ Reply(c, "RedisErr")
  /\ broken' = broken \cup {key[c]}
  /\ UNCHANGED <<store, client, mails, codes>>

SendMailAfterReply(c) ==
  /\ pc[c] = "mail"
  /\ Reply(c, "Success")
  /\ mails' = mails \cup {<<key[c], code'[c]>>}
  /\ UNCHANGED <<store, client, codes, broken>>

SendMailOnce(c) ==
  /\ pc[c] = "mail"
  /\ mails' = IF \E m \in mails : m[1] = key[c] THEN mails
              ELSE mails \cup {<<key[c], code[c]>>}
  /\ Reply(c, "Success")
  /\ UNCHANGED <<store, client, codes, broken>>

\* The mail carries the code the call has drawn; then the call succeeds.
SendMail(c) ==
  /\ pc[c] = "mail"
  /\ mails' = mails \cup {<<key[c], code[c]>>}
  /\ Reply(c, "Success")
  /\ UNCHANGED <<store, client, codes, broken>>

\* SendMail rejects: the mail server did not take the mail, or did and its
\* answer was lost.
SendMailFails(c) ==
  /\ pc[c] = "mail" /\ Faults
  /\ mails' \in {mails, mails \cup {<<key[c], code[c]>>}}
  /\ Reply(c, "Exception")
  /\ broken' = broken \cup {key[c]}
  /\ UNCHANGED <<store, client, codes>>

Step(c) ==
  \/ Set(c) \/ SetFails(c)
  \/ Expire(c) \/ ExpireFails(c)
  \/ SendMail(c) \/ SendMailFails(c)

-----------------------------------------------------------------------------
\* The error handler of RedisCli quits it, and nothing ever opens it again.
RedisError ==
  /\ Faults /\ client = "open"
  /\ client' = "closed"
  /\ UNCHANGED <<store, mails, codes, broken, pc, key, code, reply>>

\* The process dies and is started again; its callers see the RPC fail.
Restart ==
  /\ Faults
  /\ client' = "open"
  /\ broken' = broken \cup {key[c] : c \in {d \in Calls : pc[d] \in {"expire", "mail"}}}
  /\ pc' = [c \in Calls |-> "idle"]
  /\ key' = [c \in Calls |-> NoKey]
  /\ code' = [c \in Calls |-> NoCode]
  /\ reply' = [c \in Calls |-> IF pc[c] = "idle" THEN reply[c] ELSE "RpcFailed"]
  /\ UNCHANGED <<store, mails, codes>>

\* Thirty minutes after EXPIRE: no call that has set the key is still about.
KeyExpires(k) ==
  /\ redis[k] # NoCode /\ ttl[k]
  /\ \A c \in InFlight(k) : pc[c] = "set"
  /\ redis' = [redis EXCEPT ![k] = NoCode]
  /\ ttl' = [ttl EXCEPT ![k] = FALSE]
  /\ mails' = {m \in mails : m[1] # k}
  /\ broken' = broken \ {k}
  /\ UNCHANGED <<client, codes, pc, key, code, reply>>

Environment == RedisError \/ Restart \/ \E k \in Keys : KeyExpires(k)

Next ==
  \/ \E c \in Calls :
       Step(c) \/ \E m \in Modules, e \in Emails : GetVarifyCode(c, m, e)
  \/ Environment

\* The event loop runs every continuation; Redis and the mail server answer.
Fairness == \A c \in Calls : WF_vars(Step(c))

Spec == Init /\ [][Next]_vars
FairSpec == Spec /\ Fairness

-----------------------------------------------------------------------------
TypeOK ==
  /\ redis \in [Keys -> 0 .. MaxCodes]
  /\ ttl \in [Keys -> BOOLEAN]
  /\ client \in {"open", "closed"}
  /\ mails \subseteq Keys \X (1 .. MaxCodes)
  /\ codes \in 0 .. MaxCodes
  /\ broken \subseteq Keys
  /\ pc \in [Calls -> {"idle", "set", "expire", "mail"}]
  /\ key \in [Calls -> Keys \cup {NoKey}]
  /\ code \in [Calls -> 0 .. MaxCodes]
  /\ reply \in [Calls -> {"none", "Success", "RedisErr", "Exception", "RpcFailed"}]

\* A code that somebody was mailed, and that the gate server would still
\* accept, expires: whatever failed, it is not accepted for ever.
MailedCodeExpires ==
  \A m \in mails : redis[m[1]] = m[2] => ttl[m[1]]

\* A key without expiry belongs to a call that is about to set it, however calls
\* for the same key overlap: only a call that fails leaves one behind.
KeysExpire ==
  \A k \in Keys \ broken : redis[k] # NoCode /\ ~ttl[k] =>
    \E c \in InFlight(k) : pc[c] = "expire"

\* Once the calls for an address are over the code that Redis holds for it has
\* been mailed, in whatever order they wrote and mailed, unless one failed.
AcceptedWasMailed ==
  \A k \in Keys \ broken :
    redis[k] # NoCode /\ InFlight(k) = {} => <<k, redis[k]>> \in mails

\* Every call is answered, if only with an error.
Answered == \A c \in Calls : pc[c] # "idle" ~> pc[c] = "idle"

\* The mail says that its code is valid for thirty minutes (server.js:25): once
\* the calls for an address are over, one of the codes it was mailed works.
MailPromise ==
  \A k \in Keys :
    InFlight(k) = {} /\ (\E n \in 1 .. MaxCodes : <<k, n>> \in mails)
      => <<k, redis[k]>> \in mails
=============================================================================
