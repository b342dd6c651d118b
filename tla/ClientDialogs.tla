--------------------------- MODULE ClientDialogs ---------------------------
(***************************************************************************)
(* The windows of the client (RegisterWidget.cpp, ResetWidget.cpp) and the *)
(* one HttpMgr they share.  Everything runs in the thread of the GUI, so a *)
(* slot is one step, with the signals it emits: an answer reaches every    *)
(* window of its module in that step.  Requests are under way side by side *)
(* and are answered in any order, or never.                                *)
(*                                                                         *)
(* A window is what its user sees of it: the two buttons, the countdown on *)
(* the first and the kind of its last message.                             *)
(***************************************************************************)
EXTENDS Integers

CONSTANTS
  RegisterWindows, ResetWindows,  \* the windows of each kind a user may open
  Period,     \* the seconds of a countdown, 60 in the source
  MaxPosts    \* bound: requests posted altogether

ASSUME ClientAssumption ==
  /\ Period \in Nat \ {0, 1}
  /\ MaxPosts \in Nat
  /\ RegisterWindows \cap ResetWindows = {}

VARIABLES
  shown,      \* the windows on the screen; one that was closed still exists
  made,       \* the windows constructed
  win,        \* their state
  waiting,    \* how many requests of each kind wait for their answer
  posts,
  happened,   \* history: what the servers have carried out
  told        \* history: what they have said to be carried out

vars == <<shown, made, win, waiting, posts, happened, told>>

Windows == RegisterWindows \cup ResetWindows
Module(w) == IF w \in RegisterWindows THEN "Register" ELSE "Reset"
Login == "login"

\* ReqId: a code is asked for, or the form is submitted
Requests == {"Register", "Reset"} \X {"code", "submit"}

Fresh == [send |-> TRUE, confirm |-> FALSE, running |-> FALSE, remain |-> 0, tip |-> "none"]

TypeOK ==
  /\ made \subseteq Windows /\ shown \subseteq made \cup {Login}
  /\ win \in [Windows -> [send : BOOLEAN, confirm : BOOLEAN, running : BOOLEAN,
                          remain : 0 .. Period, tip : {"none", "error", "sent", "done"}]]
  /\ waiting \in [Requests -> Nat] /\ posts \in 0 .. MaxPosts
  /\ happened \subseteq Requests /\ told \subseteq Requests

Init ==
  /\ shown = {Login} /\ made = {}
  /\ win = [w \in Windows |-> Fresh]
  /\ waiting = [r \in Requests |-> 0] /\ posts = 0
  /\ happened = {} /\ told = {}

-----------------------------------------------------------------------------
\* LoginWidget::registerWidgetShow and resetWidgetShow: a new window each time.
Show(w) ==
  /\ Login \in shown /\ w \notin made
  /\ made' = made \cup {w} /\ shown' = shown \cup {w}
  /\ UNCHANGED <<win, waiting, posts, happened, told>>

\* The window is hidden and not destroyed: its slots and its timer go on.  With
\* the last window the application ends.
Close(w) ==
  /\ w \in shown
  /\ shown' = shown \ {w}
  /\ UNCHANGED <<made, win, waiting, posts, happened, told>>

Ended == shown = {}

\* HttpMgr::postHttpReq
Post(r) ==
  /\ posts < MaxPosts
  /\ posts' = posts + 1
  /\ waiting' = [waiting EXCEPT ![r] = @ + 1]
  /\ UNCHANGED <<shown, made, win, happened, told>>

Tip(s, tip) == [s EXCEPT !.tip = tip]

\* A click with a field left empty or not matching: a message, no request.
Reject(w) ==
  /\ win' = [win EXCEPT ![w] = Tip(@, "error")]
  /\ UNCHANGED <<shown, made, waiting, posts, happened, told>>

\* The button stays enabled until an answer comes: two clicks are two requests.
SendCode(w) ==
  /\ w \in shown \ {Login} /\ win[w].send
  /\ Post(<<Module(w), "code">>) \/ Reject(w)

Confirm(w) ==
  /\ w \in shown \ {Login} /\ win[w].confirm
  /\ Post(<<Module(w), "submit">>) \/ Reject(w)

-----------------------------------------------------------------------------
UpdateButtonLate(s) ==
  IF s.remain - 1 < 0 THEN [s EXCEPT !.running = FALSE, !.send = TRUE]
                      ELSE [s EXCEPT !.remain = @ - 1]

\* slotUpdateButtonText, slotUpdateButton
UpdateButton(s) ==
  LET t == [s EXCEPT !.remain = @ - 1]
  IN  IF t.remain <= 0 THEN [t EXCEPT !.running = FALSE, !.send = TRUE] ELSE t

CodeSentUntimed(s) ==
  [s EXCEPT !.tip = "sent", !.confirm = TRUE, !.send = FALSE, !.remain = Period]

CodeSentStaleTime(s) ==
  [s EXCEPT !.tip = "sent", !.confirm = TRUE, !.send = FALSE, !.running = TRUE]

\* What both handlers do when they take the code for sent.  Starting a timer
\* that runs starts it anew.
CodeSent(s) ==
  [s EXCEPT !.tip = "sent", !.confirm = TRUE, !.send = FALSE,
            !.remain = Period, !.running = TRUE]

\* RegisterWidget, ID_GET_VARIFY_CODE
RegCode(s, err) == IF err # "SUCCESS" THEN Tip(s, "error") ELSE CodeSent(s)

\* RegisterWidget, ID_REG_USER: a switch without a default
RegUser(s, err) ==
  CASE err = "SUCCESS" -> Tip(s, "done")
    [] err \in {"ERR_VARIFYCODE", "ERR_EMAIL_REGISTERED", "ERR_JSON",
                "ERR_RPC_FAILED", "ERR_SERVER"} -> Tip(s, "error")
    [] OTHER -> s

\* ResetWidget, ID_GET_VARIFY_CODE: what is not one of three errors is success,
\* and the first second of the countdown is taken at once
ResetCode(s, err) ==
  IF err \in {"ERR_USER_NON", "ERR_JSON", "ERR_SERVER"} THEN Tip(s, "error")
  ELSE UpdateButton(CodeSent(s))

ResetPwdNamedErrors(s, err) ==
  IF err \in {"ERR_VARIFYCODE", "ERR_JSON", "ERR_SERVER"} THEN Tip(s, "error")
  ELSE Tip(s, "done")

\* ResetWidget, ID_RESET_PWD
ResetPwd(s, err) == Tip(s, IF err = "SUCCESS" THEN "done" ELSE "error")

\* slotRegFinish, slotResetFinish: a request that failed, or whose answer is
\* not a JSON object, does not reach the handler
Finish(s, r, err) ==
  IF err = "ERR_NETWORK" THEN Tip(s, "error")
  ELSE CASE r = <<"Register", "code">> -> RegCode(s, err)
         [] r = <<"Register", "submit">> -> RegUser(s, err)
         [] r = <<"Reset", "code">> -> ResetCode(s, err)
         [] r = <<"Reset", "submit">> -> ResetPwd(s, err)

EveryWindow(m) == made

\* slotHttpFinish: the windows connected to the signal of the module, hidden
\* ones included
Recipients(m) == {w \in made : Module(w) = m}

-----------------------------------------------------------------------------
\* The answers of the gate server to these requests (LogicSystem.cpp); the codes
\* of the verification server are passed through as they are.
Answers(r) ==
  LET code == {"RedisErr", "Exception", "ERR_RPC_FAILED"}
      submit == {"ERR_VARIFYCODE", "ERR_SERVER"}
  IN  {"SUCCESS", "ERR_NETWORK"} \cup
      CASE r = <<"Register", "code">> -> code
        [] r = <<"Register", "submit">> -> submit \cup {"ERR_EMAIL_REGISTERED"}
        [] r = <<"Reset", "code">> -> code \cup {"ERR_USER_NON", "ERR_SERVER"}
        [] r = <<"Reset", "submit">> -> submit \cup {"ERR_USER_NON"}

\* Whether the request was carried out, which some of them leave open.  No reset
\* is, whatever the answer: SqlDao::updatePwd binds the address and the hash the
\* wrong way round and takes zero changed rows for success (UpdatePwd of
\* GateServer).
Outcome(r, err) ==
  CASE r = <<"Reset", "submit">> -> {FALSE}
    [] err = "SUCCESS" -> {TRUE}
    [] err \in {"ERR_NETWORK", "ERR_RPC_FAILED", "Exception"} -> {TRUE, FALSE}
    [] err = "ERR_SERVER" -> {FALSE} \cup (IF r[2] = "submit" THEN {TRUE} ELSE {})
    [] OTHER -> {FALSE}

\* QNetworkReply::finished, sig_http_finish and all the slots it leads to
HttpFinish(r) ==
  /\ ~Ended /\ waiting[r] > 0
  /\ waiting' = [waiting EXCEPT ![r] = @ - 1]
  /\ \E err \in Answers(r) :
       /\ win' = [w \in Windows |->
                    IF w \in Recipients(r[1]) THEN Finish(win[w], r, err) ELSE win[w]]
       /\ \E done \in Outcome(r, err) :
            happened' = IF done THEN happened \cup {r} ELSE happened
       /\ told' = IF err = "SUCCESS" THEN told \cup {r} ELSE told
  /\ UNCHANGED <<shown, made, posts>>

\* QTimer::timeout
Tick(w) ==
  /\ ~Ended /\ win[w].running
  /\ win' = [win EXCEPT ![w] = UpdateButton(@)]
  /\ UNCHANGED <<shown, made, waiting, posts, happened, told>>

Next ==
  \/ \E w \in Windows : Show(w) \/ SendCode(w) \/ Confirm(w) \/ Tick(w)
  \/ \E w \in Windows \cup {Login} : Close(w)
  \/ \E r \in Requests : HttpFinish(r)

\* Timers fire while the application runs; an answer need not come, since the
\* requests have no time limit.
Fairness == \A w \in Windows : WF_vars(Tick(w))

Spec == Init /\ [][Next]_vars
FairSpec == Spec /\ Fairness

-----------------------------------------------------------------------------
\* Whatever answers come, late or twice, in whichever order: a send button is
\* off exactly while a timer is running that will turn it on.
ButtonHasTimer ==
  \A w \in Windows : IF win[w].send THEN ~win[w].running
                     ELSE win[w].running /\ win[w].remain > 0

\* In a register window the form can be submitted only when a code to register
\* was really mailed: no other answer, and no window of the other kind with its
\* equal request id, enables it.
ConfirmAfterMail ==
  \A w \in RegisterWindows : win[w].confirm => <<"Register", "code">> \in happened

\* A window says that the account was registered, or the password reset, only
\* when the servers said so of its own module's request; a register window only
\* when it is true.  A reset window passes on what the gate server told it, which
\* no reset makes true (ResetTakesEffect of GateServer).
DoneIsTrue ==
  \A w \in Windows : win[w].tip = "done" =>
    /\ <<Module(w), "submit">> \in told
    /\ w \in RegisterWindows => <<"Register", "submit">> \in happened

\* A send button that was turned off is on again once the answers have come.
SendComesBack == \A w \in Windows : []<>(win[w].send \/ Ended)

\* A window that says that the code was sent (RegisterWidget.cpp:127,
\* ResetWidget.cpp:57) says so when one was.
SentIsTrue ==
  \A w \in Windows : win[w].tip = "sent" => <<Module(w), "code">> \in happened
=============================================================================
