--------------------------- MODULE AccountService ---------------------------
(***************************************************************************)
(* What the two servers promise together, without their threads, calls and *)
(* errors: addresses are given codes, a client that shows the code in force*)
(* may take one step on the account of that address, with the password it  *)
(* asked for, and only such a step changes accounts.  GateServer implements*)
(* this specification.                                                     *)
(***************************************************************************)
EXTENDS Naturals, Sequences

CONSTANTS Clients, Emails, Passwords

VARIABLES
  rows,      \* the passwords of the accounts of each address
  issued,    \* the codes: for which purpose and address each was made
  inForce,   \* the code in force for each purpose and address, or 0
  posted,    \* the codes sent to their address that were not yet dropped
  asked,     \* what each client asks for, and the code it shows
  granted,   \* the clients that may do what they ask for
  confirmed  \* addresses whose registration was confirmed to somebody

vars == <<rows, issued, inForce, posted, asked, granted,
          confirmed>>

Purposes == {"Register", "ResetPwd"}
Tickets == Purposes \X Emails
Nothing == <<>>
Request(k, n, p) == [ticket |-> k, code |-> n, passwd |-> p]

Registered(e) == rows[e] # <<>>
Deserves(k) == k[1] = "ResetPwd" => Registered(k[2])

Init ==
  /\ rows = [e \in Emails |-> <<>>]
  /\ issued = <<>>
  /\ inForce = [k \in Tickets |-> 0]
  /\ posted = {}
  /\ asked = [c \in Clients |-> Nothing]
  /\ granted = {}
  /\ confirmed = {}

\* A code is made; one to reset a password, for an account only.
Issue(k) ==
  /\ Deserves(k)
  /\ issued' = Append(issued, k)
  /\ UNCHANGED <<rows, inForce, posted, asked, granted, confirmed>>

\* It comes into force for what it was made for, in place of any other.
Publish(n) ==
  /\ inForce' = [inForce EXCEPT ![issued[n]] = n]
  /\ UNCHANGED <<rows, issued, posted, asked, granted, confirmed>>

\* It is sent to its address; to reset a password, if that is an account's.
Post(n) ==
  /\ Deserves(issued[n])
  /\ posted' = posted \cup {<<issued[n], n>>}
  /\ UNCHANGED <<rows, issued, inForce, asked, granted, confirmed>>

Expire(k) ==
  /\ inForce' = [inForce EXCEPT ![k] = 0]
  /\ posted' = {m \in posted : m[1] # k}
  /\ UNCHANGED <<rows, issued, asked, granted, confirmed>>

\* A client asks for an account or for another password, and shows a code: any
\* that was ever made, for whatever purpose and address, or none.
Ask(c, k, n, p) ==
  /\ asked[c] = Nothing
  /\ asked' = [asked EXCEPT ![c] = Request(k, n, p)]
  /\ UNCHANGED <<rows, issued, inForce, posted, granted, confirmed>>

\* The code a client shows is the one in force for what it asks for.
ShowsCodeInForce(c) ==
  /\ asked[c] # Nothing
  /\ asked[c].code # 0 /\ asked[c].code = inForce[asked[c].ticket]

Authorise(c) ==
  /\ ShowsCodeInForce(c) /\ c \notin granted
  /\ granted' = granted \cup {c}
  /\ UNCHANGED <<rows, issued, inForce, posted, asked, confirmed>>

Forget(c) ==
  /\ asked' = [asked EXCEPT ![c] = Nothing]
  /\ granted' = granted \ {c}
  /\ UNCHANGED <<issued, inForce, posted>>

\* A client that was not granted what it asked for is sent away.
Refuse(c) ==
  /\ asked[c] # Nothing /\ c \notin granted
  /\ Forget(c)
  /\ UNCHANGED <<rows, confirmed>>

\* The grant of c is used up; if an account stands, that may be confirmed.
Settle(c) ==
  LET e == asked[c].ticket[2] IN
  /\ c \in granted
  /\ Forget(c)
  /\ \/ UNCHANGED confirmed
     \/ rows'[e] # <<>> /\ confirmed' = confirmed \cup {e}

Register(c) ==
  /\ asked[c].ticket[1] = "Register"
  /\ rows' = [rows EXCEPT ![asked[c].ticket[2]] = Append(@, asked[c].passwd)]
  /\ Settle(c)

Reset(c) ==
  /\ asked[c].ticket[1] = "ResetPwd"
  /\ rows' = [rows EXCEPT ![asked[c].ticket[2]] = [i \in DOMAIN @ |-> asked[c].passwd]]
  /\ Settle(c)

\* Nothing is done with it: an error, or there is an account already.
Decline(c) == UNCHANGED rows /\ Settle(c)

Next ==
  \/ \E k \in Tickets : Issue(k) \/ Expire(k)
  \/ \E n \in DOMAIN issued : Publish(n) \/ Post(n)
  \/ \E c \in Clients :
       \/ \E k \in Tickets, n \in 0 .. Len(issued), p \in Passwords : Ask(c, k, n, p)
       \/ Authorise(c) \/ Refuse(c)
       \/ c \in granted /\ (Register(c) \/ Reset(c) \/ Decline(c))

Spec == Init /\ [][Next]_vars
=============================================================================
