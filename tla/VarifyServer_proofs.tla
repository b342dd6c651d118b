------------------------- MODULE VarifyServer_proofs -------------------------
(***************************************************************************)
(* What GetVarifyCode keeps true for any number of overlapping calls, any  *)
(* addresses and any number of codes, with or without faults.              *)
(***************************************************************************)
EXTENDS VarifyServer, TLAPS

CallPlaces == {"idle", "set", "expire", "mail"}
Replies == {"none", "Success", "RedisErr", "Exception", "RpcFailed"}

\* A call in flight has a key, and a code that no other call has.
CallInv ==
  \A c \in Calls : pc[c] # "idle" =>
    /\ key[c] \in Keys /\ code[c] \in 1 .. codes
    /\ \A d \in Calls : pc[d] # "idle" /\ code[d] = code[c] => d = c

\* No code is known before it is drawn, none is in Redis before its call has
\* set it, and none is mailed before that call has set its expiry.
FreshInv ==
  /\ \A k \in Keys : redis[k] <= codes
  /\ \A m \in mails : m[2] <= codes
  /\ \A c \in Calls :
       /\ pc[c] = "set" => \A k \in Keys : redis[k] # code[c]
       /\ pc[c] \in {"set", "expire"} => \A m \in mails : m[2] # code[c]

\* A call about to mail its code finds it expiring, if Redis still has it.
MailInv ==
  \A c \in Calls : pc[c] = "mail" /\ redis[key[c]] = code[c] => ttl[key[c]]

\* The code in Redis was mailed, or its call is still about to.
Owned(k) == \E c \in Calls :
  pc[c] \in {"expire", "mail"} /\ key[c] = k /\ code[c] = redis[k]
OwnerInv ==
  \A k \in Keys \ broken : redis[k] # NoCode => <<k, redis[k]>> \in mails \/ Owned(k)

VarifyInv ==
  /\ TypeOK /\ CallInv /\ FreshInv /\ MailInv
  /\ MailedCodeExpires /\ KeysExpire /\ OwnerInv

-----------------------------------------------------------------------------
LEMMA InitInv == Init => VarifyInv
  <1> SUFFICES ASSUME Init PROVE VarifyInv
    OBVIOUS
  <1>1. MaxCodes \in Nat /\ NoCode = 0 /\ NoCode \in 0 .. MaxCodes
    BY VarifyAssumption DEF NoCode
  <1>2. redis \in [Keys -> 0 .. MaxCodes] /\ code \in [Calls -> 0 .. MaxCodes]
    BY <1>1, Zenon DEF Init
  <1>3. TypeOK
    BY <1>1, <1>2 DEF Init, TypeOK
  <1>4. \A c \in Calls : pc[c] = "idle"
    BY DEF Init
  <1>5. \A k \in Keys : redis[k] = NoCode
    BY DEF Init
  <1>6. CallInv /\ MailInv
    BY <1>4 DEF CallInv, MailInv
  <1>7. FreshInv
    BY <1>1, <1>4, <1>5 DEF Init, FreshInv
  <1>8. MailedCodeExpires /\ KeysExpire /\ OwnerInv
    BY <1>5 DEF Init, MailedCodeExpires, KeysExpire, OwnerInv
  <1> QED
    BY <1>3, <1>6, <1>7, <1>8 DEF VarifyInv

\* What VarifyInv says of the variables that every step uses.
LEMMA Typed ==
  ASSUME VarifyInv
  PROVE  /\ redis \in [Keys -> 0 .. MaxCodes] /\ ttl \in [Keys -> BOOLEAN]
         /\ mails \subseteq Keys \X (1 .. MaxCodes)
         /\ codes \in 0 .. MaxCodes /\ MaxCodes \in Nat
         /\ broken \subseteq Keys
         /\ pc \in [Calls -> CallPlaces]
         /\ key \in [Calls -> Keys \cup {NoKey}] /\ code \in [Calls -> 0 .. MaxCodes]
         /\ reply \in [Calls -> Replies] /\ client \in {"open", "closed"}
         /\ NoCode = 0
  BY VarifyAssumption DEF VarifyInv, TypeOK, NoCode, CallPlaces, Replies

LEMMA DrawInv ==
  ASSUME VarifyInv, NEW c \in Calls, NEW m \in Modules, NEW e \in Emails, GetVarifyCode(c, m, e)
  PROVE  VarifyInv'
  <1> DEFINE k == KeyOf(m, e)
  <1>1. k \in Keys
    BY DEF KeyOf, Keys
  <1> HIDE DEF k
  <1>2. /\ pc[c] = "idle" /\ codes < MaxCodes /\ codes' = codes + 1
        /\ key' = [key EXCEPT ![c] = k] /\ code' = [code EXCEPT ![c] = codes + 1]
        /\ reply' = [reply EXCEPT ![c] = "none"] /\ pc' = [pc EXCEPT ![c] = "set"]
        /\ UNCHANGED <<redis, ttl, client, mails, broken>>
    BY DEF GetVarifyCode, Goto, store, k
  <1>3. codes + 1 \in 1 .. MaxCodes /\ codes + 1 \in 0 .. MaxCodes
    BY <1>2, Typed
  <1>4. code' \in [Calls -> 0 .. MaxCodes]
    BY <1>2, <1>3, Typed, Zenon
  <1>5. TypeOK'
    BY <1>1, <1>2, <1>3, <1>4, Typed DEF TypeOK, CallPlaces, Replies
  <1>6. /\ pc'[c] = "set" /\ key'[c] = k /\ code'[c] = codes + 1
        /\ \A d \in Calls : d # c => pc'[d] = pc[d] /\ key'[d] = key[d] /\ code'[d] = code[d]
    BY <1>2, Typed
  <1>7. CallInv'
    BY <1>1, <1>2, <1>6, Typed DEF VarifyInv, CallInv
  <1>8. /\ \A l \in Keys : redis[l] <= codes /\ redis[l] # codes + 1
        /\ \A x \in mails : x[2] <= codes /\ x[2] \in 1 .. MaxCodes /\ x[2] # codes + 1
    BY Typed DEF VarifyInv, FreshInv
  <1>9. FreshInv'
    BY <1>2, <1>6, <1>8, Typed DEF VarifyInv, FreshInv
  <1>10. MailInv' /\ MailedCodeExpires' /\ OwnerInv'
    BY <1>2, <1>6 DEF VarifyInv, MailInv, MailedCodeExpires, OwnerInv, Owned
  <1>11. KeysExpire'
    BY <1>2, <1>6 DEF VarifyInv, KeysExpire, InFlight
  <1> QED
    BY <1>5, <1>7, <1>9, <1>10, <1>11 DEF VarifyInv

LEMMA SetInv ==
  ASSUME VarifyInv, NEW c \in Calls, Set(c)
  PROVE  VarifyInv'
  <1>1. /\ pc[c] = "set" /\ key[c] \in Keys /\ code[c] \in 1 .. codes
        /\ code[c] \in 0 .. MaxCodes
    BY Typed DEF Set, VarifyInv, CallInv
  <1>2. /\ redis' = [redis EXCEPT ![key[c]] = code[c]]
        /\ ttl' = [ttl EXCEPT ![key[c]] = FALSE]
        /\ broken' \subseteq broken /\ broken \subseteq broken' \cup {key[c]}
        /\ pc' = [pc EXCEPT ![c] = "expire"]
        /\ UNCHANGED <<client, mails, codes, key, code, reply>>
    BY DEF Set, SetValue, Goto
  <1>3. redis' \in [Keys -> 0 .. MaxCodes]
    BY <1>1, <1>2, Typed, Zenon
  <1>4. ttl' \in [Keys -> BOOLEAN]
    BY <1>2, Typed, Zenon
  <1>5. TypeOK'
    BY <1>2, <1>3, <1>4, Typed DEF TypeOK, CallPlaces, Replies
  <1>6. /\ redis'[key[c]] = code[c] /\ ~ttl'[key[c]] /\ pc'[c] = "expire"
        /\ \A k \in Keys : k # key[c] => redis'[k] = redis[k] /\ ttl'[k] = ttl[k]
        /\ \A d \in Calls : d # c => pc'[d] = pc[d]
    BY <1>1, <1>2, Typed
  <1>7. \A d \in Calls : pc[d] # "idle" /\ d # c => code[d] # code[c]
    BY <1>1 DEF VarifyInv, CallInv
  <1>8. CallInv'
    BY <1>1, <1>2, <1>6 DEF VarifyInv, CallInv
  <1>9. FreshInv'
    BY <1>1, <1>2, <1>6, <1>7, Typed DEF VarifyInv, FreshInv
  <1>10. MailInv'
    BY <1>1, <1>2, <1>6, <1>7 DEF VarifyInv, MailInv, CallInv
  <1>11. MailedCodeExpires'
    <2> SUFFICES ASSUME NEW x \in mails, redis'[x[1]] = x[2] PROVE ttl'[x[1]]
      BY <1>2 DEF MailedCodeExpires
    <2>1. x[1] \in Keys /\ x[2] # code[c]
      BY <1>1, Typed DEF VarifyInv, FreshInv
    <2>2. x[1] # key[c]
      BY <1>6, <2>1
    <2> QED
      BY <1>6, <2>1, <2>2 DEF VarifyInv, MailedCodeExpires
  <1>12. ASSUME NEW k \in Keys \ broken'
         PROVE  /\ redis'[k] # NoCode /\ ~ttl'[k] => \E d \in InFlight(k)' : pc'[d] = "expire"
                /\ redis'[k] # NoCode => <<k, redis'[k]>> \in mails' \/ Owned(k)'
    <2>1. CASE k = key[c]
      BY <1>2, <1>6, <2>1 DEF InFlight, Owned
    <2>2. CASE k # key[c]
      <3>1. k \notin broken /\ redis'[k] = redis[k] /\ ttl'[k] = ttl[k]
        BY <1>2, <1>6, <1>12, <2>2
      <3>2. \A d \in Calls : pc[d] # "idle" /\ key[d] = k => d # c /\ pc'[d] = pc[d]
        BY <1>6, <2>2
      <3>3. ASSUME redis[k] # NoCode, ~ttl[k] PROVE \E d \in InFlight(k)' : pc'[d] = "expire"
        <4>1. PICK d \in InFlight(k) : pc[d] = "expire"
          BY <3>1, <3>3 DEF VarifyInv, KeysExpire
        <4> QED
          BY <1>2, <3>2, <4>1 DEF InFlight
      <3>4. Owned(k) => Owned(k)'
        BY <1>2, <3>1, <3>2 DEF Owned
      <3>5. redis[k] # NoCode => <<k, redis[k]>> \in mails \/ Owned(k)
        BY <3>1 DEF VarifyInv, OwnerInv
      <3>6. redis'[k] # NoCode => <<k, redis'[k]>> \in mails' \/ Owned(k)'
        <4>1. mails' = mails
          BY <1>2
        <4> QED
          BY <3>1, <3>4, <3>5, <4>1, Zenon
      <3> QED
        BY <3>1, <3>3, <3>6
    <2> QED
      BY <2>1, <2>2
  <1>13. KeysExpire' /\ OwnerInv'
    BY <1>12 DEF KeysExpire, OwnerInv
  <1> QED
    BY <1>5, <1>8, <1>9, <1>10, <1>11, <1>13 DEF VarifyInv

LEMMA ExpireInv ==
  ASSUME VarifyInv, NEW c \in Calls, Expire(c)
  PROVE  VarifyInv'
  <1>1. /\ pc[c] = "expire" /\ key[c] \in Keys /\ code[c] \in 1 .. codes
        /\ (redis[key[c]] # NoCode) \in BOOLEAN
    BY DEF Expire, VarifyInv, CallInv
  <1>2. /\ ttl' = [ttl EXCEPT ![key[c]] = redis[key[c]] # NoCode]
        /\ pc' = [pc EXCEPT ![c] = "mail"]
        /\ UNCHANGED <<redis, client, mails, codes, broken, key, code, reply>>
    BY DEF Expire, Goto
  <1>3. ttl' \in [Keys -> BOOLEAN]
    BY <1>1, <1>2, Typed, Zenon
  <1>4. TypeOK'
    BY <1>2, <1>3, Typed DEF TypeOK, CallPlaces, Replies
  <1>5. ttl'[key[c]] = (redis[key[c]] # NoCode)
    BY <1>1, <1>2, Typed, Zenon
  <1>6. /\ pc'[c] = "mail" /\ \A d \in Calls : d # c => pc'[d] = pc[d]
        /\ \A k \in Keys : k # key[c] => ttl'[k] = ttl[k]
    BY <1>1, <1>2, Typed
  <1>7. \A k \in Keys : redis[k] # NoCode /\ ttl[k] => ttl'[k]
    BY <1>5, <1>6
  <1>8. CallInv' /\ FreshInv'
    BY <1>1, <1>2, <1>6 DEF VarifyInv, CallInv, FreshInv
  <1>9. MailInv'
    <2> SUFFICES ASSUME NEW d \in Calls, pc'[d] = "mail", redis[key[d]] = code[d]
                 PROVE  ttl'[key[d]]
      BY <1>2 DEF MailInv
    <2>1. key[d] \in Keys /\ code[d] # NoCode
      BY <1>1, <1>6, Typed DEF VarifyInv, CallInv
    <2>2. CASE d = c
      BY <1>5, <2>1, <2>2
    <2>3. CASE d # c
      BY <1>6, <1>7, <2>1, <2>3 DEF VarifyInv, MailInv
    <2> QED
      BY <2>2, <2>3
  <1>10. MailedCodeExpires'
    <2> SUFFICES ASSUME NEW x \in mails, redis[x[1]] = x[2] PROVE ttl'[x[1]]
      BY <1>2 DEF MailedCodeExpires
    <2>1. x[1] \in Keys /\ x[2] # NoCode /\ ttl[x[1]]
      BY Typed DEF VarifyInv, MailedCodeExpires
    <2> QED
      BY <1>7, <2>1
  <1>11. KeysExpire'
    <2> SUFFICES ASSUME NEW k \in Keys \ broken, redis[k] # NoCode, ~ttl'[k]
                 PROVE  \E d \in InFlight(k)' : pc'[d] = "expire"
      BY <1>2 DEF KeysExpire
    <2>1. k # key[c] /\ ~ttl[k]
      BY <1>5, <1>7
    <2>2. PICK d \in InFlight(k) : pc[d] = "expire"
      BY <2>1 DEF VarifyInv, KeysExpire
    <2> QED
      BY <1>2, <1>6, <2>1, <2>2 DEF InFlight
  <1>12. OwnerInv'
    BY <1>2, <1>6 DEF VarifyInv, OwnerInv, Owned
  <1> QED
    BY <1>4, <1>8, <1>9, <1>10, <1>11, <1>12 DEF VarifyInv

\* A call that is answered has mailed its code, or leaves its key to those that
\* failed, unless it has not set it.
LEMMA ReplyInv ==
  ASSUME VarifyInv, NEW c \in Calls, NEW r \in Replies, Reply(c, r), pc[c] # "idle",
         UNCHANGED <<redis, ttl, client, codes>>,
         \/ mails' = mails
         \/ mails' = mails \cup {<<key[c], code[c]>>} /\ pc[c] = "mail",
         \/ broken' = broken \cup {key[c]}
         \/ broken' = broken /\ (pc[c] = "set" \/ (pc[c] = "mail" /\ <<key[c], code[c]>> \in mails'))
  PROVE  VarifyInv'
  <1>1. /\ key[c] \in Keys /\ code[c] \in 1 .. MaxCodes /\ code[c] \in 1 .. codes
        /\ code[c] <= codes
    BY Typed DEF VarifyInv, CallInv
  <1>2. /\ pc' = [pc EXCEPT ![c] = "idle"] /\ reply' = [reply EXCEPT ![c] = r]
        /\ key' = [key EXCEPT ![c] = NoKey] /\ code' = [code EXCEPT ![c] = NoCode]
    BY DEF Reply, Goto
  <1>3. NoCode \in 0 .. MaxCodes
    BY Typed
  <1>4. code' \in [Calls -> 0 .. MaxCodes]
    BY <1>2, <1>3, Typed, Zenon
  <1>5. mails' \subseteq Keys \X (1 .. MaxCodes) /\ broken' \subseteq Keys
    BY <1>1, Typed
  <1>6. TypeOK'
    BY <1>2, <1>4, <1>5, Typed DEF TypeOK, CallPlaces, Replies
  <1>7. /\ pc'[c] = "idle"
        /\ \A d \in Calls : d # c => pc'[d] = pc[d] /\ key'[d] = key[d] /\ code'[d] = code[d]
    BY <1>2, Typed
  <1>8. CallInv' /\ MailInv'
    BY <1>7 DEF VarifyInv, CallInv, MailInv
  <1>9. /\ mails \subseteq mails'
        /\ \A x \in mails' : x \in mails \/ (x = <<key[c], code[c]>> /\ pc[c] = "mail")
    OBVIOUS
  <1>10. \A d \in Calls : pc[d] # "idle" /\ d # c => code[d] # code[c]
    BY <1>1 DEF VarifyInv, CallInv
  <1>11. FreshInv'
    BY <1>1, <1>7, <1>9, <1>10 DEF VarifyInv, FreshInv
  <1>12. MailedCodeExpires'
    BY <1>9 DEF VarifyInv, MailInv, MailedCodeExpires
  <1>13. ASSUME NEW k \in Keys \ broken', redis[k] # NoCode
         PROVE  /\ ~ttl[k] => \E d \in InFlight(k)' : pc'[d] = "expire"
                /\ <<k, redis[k]>> \in mails' \/ Owned(k)'
    <2>1. k \notin broken
      BY <1>13
    <2>2. ASSUME ~ttl[k] PROVE \E d \in InFlight(k)' : pc'[d] = "expire"
      <3>1. PICK d \in InFlight(k) : pc[d] = "expire"
        BY <1>13, <2>1, <2>2 DEF VarifyInv, KeysExpire
      <3>2. d # c
        BY <1>13, <3>1 DEF InFlight
      <3> QED
        BY <1>7, <3>1, <3>2 DEF InFlight
    <2>3. <<k, redis[k]>> \in mails' \/ Owned(k)'
      <3>1. CASE <<k, redis[k]>> \in mails
        BY <1>9, <3>1
      <3>2. CASE Owned(k)
        <4>1. PICK d \in Calls : pc[d] \in {"expire", "mail"} /\ key[d] = k /\ code[d] = redis[k]
          BY <3>2 DEF Owned
        <4>2. CASE d = c
          <5>1. <<key[c], code[c]>> \in mails'
            BY <1>13, <4>1, <4>2
          <5> QED
            BY <4>1, <4>2, <5>1
        <4>3. CASE d # c
          BY <1>7, <4>1, <4>3 DEF Owned
        <4> QED
          BY <4>2, <4>3
      <3> QED
        BY <1>13, <2>1, <3>1, <3>2 DEF VarifyInv, OwnerInv
    <2> QED
      BY <2>2, <2>3
  <1>14. KeysExpire' /\ OwnerInv'
    BY <1>13 DEF KeysExpire, OwnerInv
  <1> QED
    BY <1>6, <1>8, <1>11, <1>12, <1>14 DEF VarifyInv

LEMMA EnvironmentInv ==
  ASSUME VarifyInv, Environment
  PROVE  VarifyInv'
  <1>1. CASE RedisError
    <2>1. client' = "closed" /\ UNCHANGED <<redis, ttl, mails, codes, broken, pc, key, code, reply>>
      BY <1>1 DEF RedisError, store
    <2>2. TypeOK'
      BY <2>1, Typed DEF TypeOK, CallPlaces, Replies
    <2> QED
      BY <2>1, <2>2 DEF VarifyInv, CallInv, FreshInv, MailInv, MailedCodeExpires, KeysExpire,
         OwnerInv, Owned, InFlight
  <1>2. CASE Restart
    <2>1. /\ client' = "open" /\ pc' = [c \in Calls |-> "idle"]
          /\ key' = [c \in Calls |-> NoKey] /\ code' = [c \in Calls |-> NoCode]
          /\ reply' = [c \in Calls |-> IF pc[c] = "idle" THEN reply[c] ELSE "RpcFailed"]
          /\ broken' = broken \cup {key[c] : c \in {d \in Calls : pc[d] \in {"expire", "mail"}}}
          /\ UNCHANGED <<redis, ttl, mails, codes>>
      BY <1>2 DEF Restart, store
    <2>2. /\ broken' \subseteq Keys /\ broken \subseteq broken'
          /\ \A c \in Calls : pc[c] \in {"expire", "mail"} => key[c] \in broken'
      BY <2>1, Typed DEF VarifyInv, CallInv
    <2>3. NoCode \in 0 .. MaxCodes
      BY Typed
    <2>4. code' \in [Calls -> 0 .. MaxCodes]
      BY <2>1, <2>3, Zenon
    <2>5. reply' \in [Calls -> Replies]
      BY <2>1, Typed DEF Replies
    <2>6. key' \in [Calls -> Keys \cup {NoKey}] /\ pc' \in [Calls -> CallPlaces]
          /\ \A c \in Calls : pc'[c] = "idle"
      BY <2>1 DEF CallPlaces
    <2>7. TypeOK'
      BY <2>1, <2>2, <2>4, <2>5, <2>6, Typed DEF TypeOK, CallPlaces, Replies
    <2>8. CallInv' /\ FreshInv' /\ MailInv' /\ MailedCodeExpires'
      BY <2>1, <2>6 DEF VarifyInv, CallInv, FreshInv, MailInv, MailedCodeExpires
    <2>9. KeysExpire' /\ OwnerInv'
      BY <2>1, <2>2 DEF VarifyInv, KeysExpire, OwnerInv, Owned, InFlight
    <2> QED
      BY <2>7, <2>8, <2>9 DEF VarifyInv
  <1>3. ASSUME NEW k \in Keys, KeyExpires(k) PROVE VarifyInv'
    <2>1. /\ redis' = [redis EXCEPT ![k] = NoCode] /\ ttl' = [ttl EXCEPT ![k] = FALSE]
          /\ mails' = {m \in mails : m[1] # k} /\ broken' = broken \ {k}
          /\ \A c \in InFlight(k) : pc[c] = "set"
          /\ UNCHANGED <<client, codes, pc, key, code, reply>>
      BY <1>3 DEF KeyExpires
    <2>2. NoCode \in 0 .. MaxCodes
      BY Typed
    <2>3. redis' \in [Keys -> 0 .. MaxCodes]
      BY <2>1, <2>2, Typed, Zenon
    <2>4. ttl' \in [Keys -> BOOLEAN]
      BY <2>1, Typed, Zenon
    <2>5. TypeOK'
      BY <2>1, <2>3, <2>4, Typed DEF TypeOK, CallPlaces, Replies
    <2>6. /\ redis'[k] = NoCode
          /\ \A l \in Keys : l # k => redis'[l] = redis[l] /\ ttl'[l] = ttl[l]
      BY <2>1, Typed
    <2>7. \A c \in Calls : pc[c] # "idle" =>
             key[c] \in Keys /\ code[c] # NoCode /\ (pc[c] # "set" => key[c] # k)
      BY <2>1, Typed DEF InFlight, VarifyInv, CallInv
    <2>8. CallInv' /\ MailInv'
      BY <2>1, <2>6, <2>7 DEF VarifyInv, CallInv, MailInv
    <2>9. FreshInv'
      BY <2>1, <2>6, <2>7, Typed DEF VarifyInv, FreshInv
    <2>10. MailedCodeExpires'
      <3> SUFFICES ASSUME NEW x \in mails, x[1] # k, redis'[x[1]] = x[2] PROVE ttl'[x[1]]
        BY <2>1 DEF MailedCodeExpires
      <3>1. x[1] \in Keys
        BY Typed
      <3> QED
        BY <2>6, <3>1 DEF VarifyInv, MailedCodeExpires
    <2>11. KeysExpire'
      BY <2>1, <2>6 DEF VarifyInv, KeysExpire, InFlight
    <2>12. OwnerInv'
      <3> SUFFICES ASSUME NEW l \in Keys \ broken', redis'[l] # NoCode
                   PROVE  <<l, redis'[l]>> \in mails' \/ Owned(l)'
        BY DEF OwnerInv
      <3>1. l # k /\ l \notin broken /\ redis'[l] = redis[l]
        BY <2>1, <2>6
      <3>2. <<l, redis[l]>> \in mails => <<l, redis[l]>> \in mails'
        BY <2>1, <3>1
      <3>3. Owned(l) => Owned(l)'
        BY <2>1, <3>1 DEF Owned
      <3>4. <<l, redis[l]>> \in mails \/ Owned(l)
        BY <3>1 DEF VarifyInv, OwnerInv
      <3> QED
        BY <3>1, <3>2, <3>3, <3>4
    <2> QED
      BY <2>5, <2>8, <2>9, <2>10, <2>11, <2>12 DEF VarifyInv
  <1> QED
    BY <1>1, <1>2, <1>3 DEF Environment

LEMMA NextInv == VarifyInv /\ [Next]_vars => VarifyInv'
  <1> SUFFICES ASSUME VarifyInv, [Next]_vars PROVE VarifyInv'
    OBVIOUS
  <1>1. ASSUME NEW c \in Calls, SetFails(c) \/ ExpireFails(c) PROVE VarifyInv'
    <2>1. "RedisErr" \in Replies
      BY DEF Replies
    <2> QED
      BY <1>1, <2>1, ReplyInv DEF SetFails, ExpireFails, store
  <1>2. ASSUME NEW c \in Calls, SendMail(c) \/ SendMailFails(c) PROVE VarifyInv'
    <2>1. "Success" \in Replies /\ "Exception" \in Replies
      BY DEF Replies
    <2> QED
      BY <1>2, <2>1, ReplyInv DEF SendMail, SendMailFails, store
  <1>3. CASE UNCHANGED vars
    <2>1. UNCHANGED <<redis, ttl, client, mails, codes, broken, pc, key, code, reply>>
      BY <1>3 DEF vars, store
    <2>2. TypeOK'
      BY <2>1, Typed DEF TypeOK, CallPlaces, Replies
    <2> QED
      BY <2>1, <2>2 DEF VarifyInv, CallInv, FreshInv, MailInv, MailedCodeExpires, KeysExpire,
         OwnerInv, Owned, InFlight
  <1> QED
    BY <1>1, <1>2, <1>3, DrawInv, SetInv, ExpireInv, EnvironmentInv DEF Next, Step

-----------------------------------------------------------------------------
\* VarifyInv is an inductive invariant of the verification server.
THEOREM VarifyInvariant == Spec => []VarifyInv
  BY InitInv, NextInv, PTL DEF Spec

\* Every variable has its type.
THEOREM VarifyTypeCorrect == Spec => []TypeOK
  <1>1. VarifyInv => TypeOK
    BY DEF VarifyInv
  <1> QED
    BY <1>1, VarifyInvariant, PTL

\* However calls overlap, and whichever fail, a mailed code that is accepted
\* expires.
THEOREM MailedCodesExpire == Spec => []MailedCodeExpires
  <1>1. VarifyInv => MailedCodeExpires
    BY DEF VarifyInv
  <1> QED
    BY <1>1, VarifyInvariant, PTL

\* Only a call that failed between SET and EXPIRE leaves a code for ever.
THEOREM AllKeysExpire == Spec => []KeysExpire
  <1>1. VarifyInv => KeysExpire
    BY DEF VarifyInv
  <1> QED
    BY <1>1, VarifyInvariant, PTL

\* In whatever order calls for one address set and mail their codes, the one
\* that is accepted in the end was mailed, if none failed.
THEOREM AcceptedCodesWereMailed == Spec => []AcceptedWasMailed
  <1>1. VarifyInv => AcceptedWasMailed
    <2> SUFFICES ASSUME VarifyInv, NEW k \in Keys \ broken, redis[k] # NoCode, InFlight(k) = {}
                 PROVE  <<k, redis[k]>> \in mails
      BY DEF AcceptedWasMailed
    <2>1. ~Owned(k)
      BY DEF Owned, InFlight
    <2> QED
      BY <2>1 DEF VarifyInv, OwnerInv
  <1> QED
    BY <1>1, VarifyInvariant, PTL

-----------------------------------------------------------------------------
\* How far the promise of the mail holds.

\* A key does not vanish under the calls that have set it, nor under a mail that
\* is not yet thirty minutes old.
StoredInv ==
  /\ \A m \in mails : redis[m[1]] # NoCode
  /\ \A c \in Calls : pc[c] \in {"expire", "mail"} => redis[key[c]] # NoCode

LEMMA StoredNext == VarifyInv /\ StoredInv /\ [Next]_vars => StoredInv'
  <1> SUFFICES ASSUME VarifyInv, StoredInv, [Next]_vars PROVE StoredInv'
    OBVIOUS
  <1>1. /\ \A m \in mails : m[1] \in Keys
        /\ \A c \in Calls : pc[c] # "idle" => key[c] \in Keys /\ code[c] # NoCode
    BY Typed DEF VarifyInv, CallInv
  <1>2. CASE UNCHANGED <<redis, mails, pc, key>>
    BY <1>2 DEF StoredInv
  <1>3. ASSUME NEW c \in Calls, NEW m \in Modules, NEW e \in Emails, GetVarifyCode(c, m, e)
        PROVE  StoredInv'
    <2>1. /\ pc' = [pc EXCEPT ![c] = "set"] /\ UNCHANGED <<redis, mails>>
          /\ \A d \in Calls : d # c => key'[d] = key[d]
      BY <1>3, Typed DEF GetVarifyCode, Goto, store
    <2> QED
      BY <2>1, Typed DEF StoredInv
  <1>4. ASSUME NEW c \in Calls, Set(c) PROVE StoredInv'
    <2>1. /\ pc' = [pc EXCEPT ![c] = "expire"] /\ pc[c] = "set"
          /\ redis' = [redis EXCEPT ![key[c]] = code[c]] /\ UNCHANGED <<mails, key>>
      BY <1>4 DEF Set, SetValue, Goto
    <2>2. \A k \in Keys : redis[k] # NoCode \/ k = key[c] => redis'[k] # NoCode
      BY <1>1, <2>1, Typed
    <2> QED
      BY <1>1, <2>1, <2>2, Typed DEF StoredInv
  <1>5. ASSUME NEW c \in Calls, Expire(c) PROVE StoredInv'
    <2>1. /\ pc' = [pc EXCEPT ![c] = "mail"] /\ pc[c] = "expire"
          /\ UNCHANGED <<redis, mails, key>>
      BY <1>5 DEF Expire, Goto
    <2> QED
      BY <2>1, Typed DEF StoredInv
  <1>6. ASSUME NEW c \in Calls,
               SetFails(c) \/ ExpireFails(c) \/ SendMail(c) \/ SendMailFails(c)
        PROVE  StoredInv'
    <2>1. /\ pc' = [pc EXCEPT ![c] = "idle"] /\ redis' = redis
          /\ \A d \in Calls : d # c => key'[d] = key[d]
          /\ mails' = mails \/ (pc[c] = "mail" /\ mails' = mails \cup {<<key[c], code[c]>>})
      BY <1>6, Typed
      DEF SetFails, ExpireFails, SendMail, SendMailFails, Reply, Goto, store
    <2> QED
      BY <2>1, Typed DEF StoredInv
  <1>7. CASE Restart
    <2>1. pc' = [c \in Calls |-> "idle"] /\ UNCHANGED <<redis, mails>>
      BY <1>7 DEF Restart, store
    <2> QED
      BY <2>1 DEF StoredInv
  <1>8. ASSUME NEW k \in Keys, KeyExpires(k) PROVE StoredInv'
    <2>1. /\ redis' = [redis EXCEPT ![k] = NoCode]
          /\ mails' = {m \in mails : m[1] # k} /\ \A c \in InFlight(k) : pc[c] = "set"
          /\ UNCHANGED <<pc, key>>
      BY <1>8 DEF KeyExpires
    <2>2. \A l \in Keys : l # k => redis'[l] = redis[l]
      BY <2>1, Typed
    <2>3. \A c \in Calls : pc[c] \in {"expire", "mail"} => key[c] # k
      BY <2>1 DEF InFlight
    <2> QED
      BY <1>1, <2>1, <2>2, <2>3 DEF StoredInv
  <1> QED
    BY <1>2, <1>3, <1>4, <1>5, <1>6, <1>7, <1>8
    DEF Next, Step, Environment, RedisError, vars, store

\* The promise for the keys that no failed call has left as they are.
PromiseKept ==
  \A k \in Keys \ broken :
    InFlight(k) = {} /\ (\E n \in 1 .. MaxCodes : <<k, n>> \in mails)
      => <<k, redis[k]>> \in mails

\* Whatever happens to other keys, and however calls for this one overlap: once
\* they are over one of the codes mailed in the last thirty minutes works, but
\* for a call that failed after its SET.  MailPromise is broken by that alone.
THEOREM PromisesKept == Spec => []PromiseKept
  <1>1. Init => StoredInv
    BY DEF Init, StoredInv
  <1>2. VarifyInv /\ StoredInv => PromiseKept
    <2> SUFFICES ASSUME VarifyInv, StoredInv, NEW k \in Keys \ broken, InFlight(k) = {},
                        NEW n \in 1 .. MaxCodes, <<k, n>> \in mails
                 PROVE  <<k, redis[k]>> \in mails
      BY DEF PromiseKept
    <2>1. redis[k] # NoCode
      BY DEF StoredInv
    <2>2. ~Owned(k)
      BY DEF Owned, InFlight
    <2> QED
      BY <2>1, <2>2 DEF VarifyInv, OwnerInv
  <1> QED
    BY <1>1, <1>2, VarifyInvariant, StoredNext, PTL DEF Spec

\* When nothing fails, the mail is right: its code, or a later one that was
\* mailed to the same address, is accepted until it expires.
THEOREM PromiseWithoutFaults == ASSUME ~Faults PROVE Spec => []MailPromise
  <1>1. Init => broken = {}
    BY DEF Init
  <1>2. broken = {} /\ [Next]_vars => (broken = {})'
    BY DEF Next, Step, Environment, GetVarifyCode, Set, SetValue, SetFails, Expire,
       ExpireFails, SendMail, SendMailFails, RedisError, Restart, KeyExpires, vars
  <1>3. PromiseKept /\ broken = {} => MailPromise
    BY DEF PromiseKept, MailPromise
  <1> QED
    BY <1>1, <1>2, <1>3, PromisesKept, PTL DEF Spec

-----------------------------------------------------------------------------
\* The commands and mails a call has before it.
StepsLeft(l) == CASE l = "set" -> 3 [] l = "expire" -> 2 [] l = "mail" -> 1 [] OTHER -> 0

\* A call goes through its awaits once each, with the key and the code it began
\* with, and ends with a reply (server.js:16, :38): nothing is retried, no other
\* call changes what it is about to write, and none ends without a callback.
CallsForward ==
  \A c \in Calls : pc[c] # "idle" =>
    \/ pc'[c] = pc[c] /\ key'[c] = key[c] /\ code'[c] = code[c]
    \/ /\ StepsLeft(pc'[c]) < StepsLeft(pc[c])
       /\ IF pc'[c] = "idle" THEN reply'[c] # "none"
          ELSE key'[c] = key[c] /\ code'[c] = code[c]

\* Nor does a call wait for a client that was closed: its next command fails.
ClosedByFault == client = "closed" => Faults

THEOREM CallsGoForward == Spec => []ClosedByFault /\ [][CallsForward]_vars
  <1>1. TypeOK /\ [Next]_vars => [CallsForward]_vars
    <2> SUFFICES ASSUME TypeOK, [Next]_vars, NEW c \in Calls, pc[c] # "idle"
                 PROVE  \/ pc'[c] = pc[c] /\ key'[c] = key[c] /\ code'[c] = code[c]
                        \/ /\ StepsLeft(pc'[c]) < StepsLeft(pc[c])
                           /\ IF pc'[c] = "idle" THEN reply'[c] # "none"
                              ELSE key'[c] = key[c] /\ code'[c] = code[c]
      BY DEF CallsForward
    <2>1. /\ DOMAIN pc = Calls /\ DOMAIN key = Calls /\ DOMAIN code = Calls
          /\ DOMAIN reply = Calls /\ pc[c] \in {"set", "expire", "mail"}
      BY DEF TypeOK
    <2> DEFINE Stays == pc'[c] = pc[c] /\ key'[c] = key[c] /\ code'[c] = code[c]
               Over == pc'[c] = "idle" /\ reply'[c] # "none"
    <2>2. ASSUME NEW d \in Calls, NEW r \in {"Success", "RedisErr", "Exception"}, Reply(d, r)
          PROVE  IF c = d THEN Over ELSE Stays
      BY <2>1, <2>2 DEF Reply, Goto
    <2>3. ASSUME NEW d \in Calls, NEW m, NEW e, GetVarifyCode(d, m, e) PROVE Stays
      BY <2>1, <2>3 DEF GetVarifyCode, Goto
    <2>4. ASSUME NEW d \in Calls, Set(d) \/ Expire(d)
          PROVE  \/ Stays
                 \/ /\ StepsLeft(pc'[c]) < StepsLeft(pc[c])
                    /\ pc'[c] # "idle" /\ key'[c] = key[c] /\ code'[c] = code[c]
      BY <2>1, <2>4 DEF Set, Expire, Goto, StepsLeft
    <2>5. ASSUME NEW d \in Calls, SetFails(d) \/ ExpireFails(d) \/ SendMail(d) \/ SendMailFails(d)
          PROVE  Over \/ Stays
      <3>1. \E r \in {"Success", "RedisErr", "Exception"} : Reply(d, r)
        BY <2>5 DEF SetFails, ExpireFails, SendMail, SendMailFails
      <3> QED BY <2>2, <3>1
    <2>6. CASE Environment
      BY <2>1, <2>6 DEF Environment, RedisError, Restart, KeyExpires, StepsLeft
    <2>7. CASE UNCHANGED vars
      BY <2>7 DEF vars
    <2>8. Over => StepsLeft(pc'[c]) < StepsLeft(pc[c])
      BY <2>1 DEF StepsLeft
    <2> QED BY <2>3, <2>4, <2>5, <2>6, <2>7, <2>8 DEF Next, Step
  <1>2. Init => ClosedByFault
    BY DEF Init, ClosedByFault
  <1>3. ClosedByFault /\ [Next]_vars => ClosedByFault'
    <2>1. ASSUME [Next]_vars PROVE client' = client \/ Faults
      BY <2>1 DEF Next, Step, GetVarifyCode, Set, Expire, SetFails, ExpireFails, SendMail,
         SendMailFails, Environment, RedisError, Restart, KeyExpires, vars
    <2> QED BY <2>1 DEF ClosedByFault
  <1> QED BY <1>1, <1>2, <1>3, VarifyTypeCorrect, PTL DEF Spec
=============================================================================
