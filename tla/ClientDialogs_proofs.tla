------------------------ MODULE ClientDialogs_proofs ------------------------
(***************************************************************************)
(* What the windows of the client keep true for any number of them, any    *)
(* number of requests under way and any length of the countdown.           *)
(***************************************************************************)
EXTENDS ClientDialogs, TLAPS

States == [send : BOOLEAN, confirm : BOOLEAN, running : BOOLEAN,
           remain : 0 .. Period, tip : {"none", "error", "sent", "done"}]

\* ButtonHasTimer, of the state of one window
HasTimer(s) == IF s.send THEN ~s.running ELSE s.running /\ s.remain > 0

\* SentIsTrue, of the register windows
SentInRegister ==
  \A w \in RegisterWindows : win[w].tip = "sent" => <<"Register", "code">> \in happened

Inv == TypeOK /\ ButtonHasTimer /\ ConfirmAfterMail /\ DoneIsTrue /\ SentInRegister

-----------------------------------------------------------------------------
LEMMA TipState ==
  ASSUME NEW s \in States, HasTimer(s), NEW t \in {"error", "sent", "done"}
  PROVE  /\ Tip(s, t) \in States /\ HasTimer(Tip(s, t))
         /\ Tip(s, t).confirm = s.confirm /\ Tip(s, t).tip = t
  BY DEF Tip, States, HasTimer

\* A second taken from a countdown that has not ended.
LEMMA UpdateState ==
  ASSUME NEW s \in States, s.remain > 0, s.running, ~s.send
  PROVE  /\ UpdateButton(s) \in States /\ HasTimer(UpdateButton(s))
         /\ UpdateButton(s).confirm = s.confirm /\ UpdateButton(s).tip = s.tip
  <1>1. s.remain \in 1 .. Period /\ s.remain - 1 \in 0 .. Period
    BY ClientAssumption DEF States
  <1> DEFINE t == [s EXCEPT !.remain = @ - 1]
  <1>2. /\ t \in States /\ t.remain = s.remain - 1 /\ t.confirm = s.confirm
        /\ t.running /\ ~t.send /\ t.tip = s.tip
    BY <1>1 DEF States
  <1>3. CASE t.remain <= 0
    <2>1. UpdateButton(s) = [t EXCEPT !.running = FALSE, !.send = TRUE]
      BY <1>3 DEF UpdateButton
    <2> QED
      BY <1>2, <2>1 DEF States, HasTimer
  <1>4. CASE ~(t.remain <= 0)
    <2>1. UpdateButton(s) = t
      BY <1>4 DEF UpdateButton
    <2> QED
      BY <1>1, <1>2, <1>4, <2>1 DEF HasTimer
  <1> QED
    BY <1>3, <1>4

LEMMA SentState ==
  ASSUME NEW s \in States
  PROVE  /\ CodeSent(s) \in States /\ HasTimer(CodeSent(s))
         /\ CodeSent(s).remain > 0 /\ CodeSent(s).running /\ ~CodeSent(s).send
         /\ CodeSent(s).tip = "sent"
  <1>1. Period \in 0 .. Period /\ Period > 0
    BY ClientAssumption
  <1>2. /\ CodeSent(s).remain = Period /\ CodeSent(s).running = TRUE /\ CodeSent(s).send = FALSE
        /\ CodeSent(s) \in States /\ CodeSent(s).tip = "sent"
    BY <1>1 DEF CodeSent, States
  <1> QED
    BY <1>1, <1>2 DEF HasTimer

\* What an answer makes of a window: the form is enabled by a code alone, and
\* in a register window by SUCCESS alone; so is success shown.
LEMMA FinishState ==
  ASSUME NEW s \in States, HasTimer(s), NEW r \in Requests, NEW err
  PROVE  /\ Finish(s, r, err) \in States /\ HasTimer(Finish(s, r, err))
         /\ r[1] = "Register" /\ Finish(s, r, err).confirm =>
              s.confirm \/ (r = <<"Register", "code">> /\ err = "SUCCESS")
         /\ Finish(s, r, err).tip = "done" =>
              s.tip = "done" \/ (r[2] = "submit" /\ err = "SUCCESS")
         /\ r[1] = "Register" /\ Finish(s, r, err).tip = "sent" =>
              s.tip = "sent" \/ (r = <<"Register", "code">> /\ err = "SUCCESS")
  <1>1. CASE err = "ERR_NETWORK"
    BY <1>1, TipState DEF Finish
  <1>2. CASE err # "ERR_NETWORK" /\ r = <<"Register", "code">>
    BY <1>2, TipState, SentState DEF Finish, RegCode
  <1>3. CASE err # "ERR_NETWORK" /\ r = <<"Register", "submit">>
    <2>1. Finish(s, r, err) = RegUser(s, err)
      BY <1>3 DEF Finish
    <2>2. \/ RegUser(s, err) \in {s, Tip(s, "error")}
          \/ RegUser(s, err) = Tip(s, "done") /\ err = "SUCCESS"
      BY DEF RegUser
    <2> QED
      BY <1>3, <2>1, <2>2, TipState
  <1>4. CASE err # "ERR_NETWORK" /\ r = <<"Reset", "code">>
    <2>1. Finish(s, r, err) = ResetCode(s, err) /\ r[1] # "Register"
      BY <1>4 DEF Finish
    <2>2. ResetCode(s, err) \in {Tip(s, "error"), UpdateButton(CodeSent(s))}
      BY DEF ResetCode
    <2> QED
      BY <2>1, <2>2, TipState, SentState, UpdateState
  <1>5. CASE err # "ERR_NETWORK" /\ r = <<"Reset", "submit">>
    <2>1. Finish(s, r, err) = ResetPwd(s, err) /\ r[1] # "Register"
      BY <1>5 DEF Finish
    <2> QED
      BY <1>5, <2>1, TipState DEF ResetPwd
  <1> QED
    BY <1>1, <1>2, <1>3, <1>4, <1>5 DEF Requests

-----------------------------------------------------------------------------
LEMMA InitInv == Init => Inv
  <1> SUFFICES ASSUME Init PROVE Inv
    OBVIOUS
  <1>1. Fresh \in States /\ Fresh.send = TRUE /\ Fresh.running = FALSE /\ Fresh.confirm = FALSE
        /\ Fresh.tip = "none"
    BY ClientAssumption DEF Fresh, States
  <1>2. \A w \in Windows : win[w] = Fresh
    BY DEF Init
  <1>3. win \in [Windows -> States]
    BY <1>1 DEF Init
  <1>4. TypeOK
    BY <1>3, ClientAssumption DEF Init, TypeOK, States
  <1>5. ButtonHasTimer /\ ConfirmAfterMail /\ DoneIsTrue /\ SentInRegister
    BY <1>1, <1>2 DEF ButtonHasTimer, ConfirmAfterMail, DoneIsTrue, SentInRegister, Windows
  <1> QED
    BY <1>4, <1>5 DEF Inv

\* A step that changes one window, or none.
LEMMA OneWindow ==
  ASSUME Inv, NEW w \in Windows, NEW s \in States, HasTimer(s), s.confirm = win[w].confirm,
         s.tip = "done" => win[w].tip = "done", s.tip = "sent" => win[w].tip = "sent", win' = [win EXCEPT ![w] = s], UNCHANGED <<happened, told>>,
         made' \subseteq Windows, shown' \subseteq made' \cup {Login},
         waiting' \in [Requests -> Nat], posts' \in 0 .. MaxPosts
  PROVE  Inv'
  <1>1. win \in [Windows -> States]
    BY DEF Inv, TypeOK, States
  <1>2. win' \in [Windows -> States]
    BY <1>1
  <1>3. \A v \in Windows : win'[v] = IF v = w THEN s ELSE win[v]
    BY <1>1
  <1>4. TypeOK'
    BY <1>2 DEF Inv, TypeOK, States
  <1>5. ButtonHasTimer'
    BY <1>3 DEF Inv, ButtonHasTimer, HasTimer
  <1>6. ConfirmAfterMail'
    BY <1>3 DEF Inv, ConfirmAfterMail, Windows
  <1>7. DoneIsTrue'
    BY <1>3 DEF Inv, DoneIsTrue, Module
  <1>8. SentInRegister'
    BY <1>3 DEF Inv, SentInRegister, Windows
  <1> QED
    BY <1>4, <1>5, <1>6, <1>7, <1>8 DEF Inv

LEMMA NextInv == Inv /\ [Next]_vars => Inv'
  <1> SUFFICES ASSUME Inv, [Next]_vars PROVE Inv'
    OBVIOUS
  <1>1. /\ win \in [Windows -> States] /\ made \subseteq Windows
        /\ shown \subseteq made \cup {Login}
        /\ waiting \in [Requests -> Nat] /\ posts \in 0 .. MaxPosts
        /\ MaxPosts \in Nat
    BY ClientAssumption DEF Inv, TypeOK, States
  <1>2. \A w \in Windows : HasTimer(win[w])
    BY DEF Inv, ButtonHasTimer, HasTimer
  <1>3. ASSUME UNCHANGED <<win, happened, told>>, made' \subseteq Windows,
               shown' \subseteq made' \cup {Login},
               waiting' \in [Requests -> Nat], posts' \in 0 .. MaxPosts
        PROVE  Inv'
    BY <1>3 DEF Inv, TypeOK, ButtonHasTimer, ConfirmAfterMail, DoneIsTrue, SentInRegister, Module
  <1>4. ASSUME NEW w \in Windows, Show(w) \/ Close(w) PROVE Inv'
    BY <1>1, <1>3, <1>4 DEF Show, Close
  <1>5. CASE Close(Login)
    BY <1>1, <1>3, <1>5 DEF Close
  <1>6. ASSUME NEW w \in Windows, SendCode(w) \/ Confirm(w) PROVE Inv'
    <2>1. CASE Reject(w)
      <3>1. /\ win' = [win EXCEPT ![w] = Tip(win[w], "error")]
            /\ UNCHANGED <<shown, made, waiting, posts, happened, told>>
        BY <2>1 DEF Reject
      <3>2. win[w] \in States /\ HasTimer(win[w])
        BY <1>1, <1>2
      <3>3. /\ Tip(win[w], "error") \in States /\ HasTimer(Tip(win[w], "error"))
            /\ Tip(win[w], "error").confirm = win[w].confirm
            /\ Tip(win[w], "error").tip = "error"
        BY <3>2, TipState
      <3> QED
        BY <1>1, <3>1, <3>3, OneWindow
    <2>2. ASSUME NEW r \in Requests, Post(r) PROVE Inv'
      <3>1. /\ posts < MaxPosts /\ posts' = posts + 1
            /\ waiting' = [waiting EXCEPT ![r] = @ + 1]
            /\ UNCHANGED <<shown, made, win, happened, told>>
        BY <2>2 DEF Post
      <3>2. posts' \in 0 .. MaxPosts
        BY <1>1, <3>1
      <3> QED
        BY <1>1, <1>3, <3>1, <3>2
    <2>3. <<Module(w), "code">> \in Requests /\ <<Module(w), "submit">> \in Requests
      BY DEF Module, Requests
    <2> QED
      BY <1>6, <2>1, <2>2, <2>3 DEF SendCode, Confirm
  <1>7. ASSUME NEW w \in Windows, Tick(w) PROVE Inv'
    <2>1. /\ win' = [win EXCEPT ![w] = UpdateButton(win[w])] /\ win[w].running
          /\ UNCHANGED <<shown, made, waiting, posts, happened, told>>
      BY <1>7 DEF Tick
    <2>2. win[w] \in States /\ win[w].remain > 0 /\ ~win[w].send
      BY <1>1, <1>2, <2>1 DEF HasTimer
    <2>3. /\ UpdateButton(win[w]) \in States /\ HasTimer(UpdateButton(win[w]))
          /\ UpdateButton(win[w]).confirm = win[w].confirm
          /\ UpdateButton(win[w]).tip = win[w].tip
      BY <2>1, <2>2, UpdateState
    <2> QED
      BY <1>1, <2>1, <2>3, OneWindow
  <1>8. ASSUME NEW r \in Requests, HttpFinish(r) PROVE Inv'
    <2>1. PICK err \in Answers(r) :
            /\ win' = [w \in Windows |->
                         IF w \in Recipients(r[1]) THEN Finish(win[w], r, err) ELSE win[w]]
            /\ \E done \in Outcome(r, err) :
                 happened' = IF done THEN happened \cup {r} ELSE happened
            /\ told' = IF err = "SUCCESS" THEN told \cup {r} ELSE told
      BY <1>8 DEF HttpFinish
    <2>2. /\ waiting[r] > 0 /\ waiting' = [waiting EXCEPT ![r] = @ - 1]
          /\ UNCHANGED <<shown, made, posts>>
      BY <1>8 DEF HttpFinish
    <2>3. ASSUME NEW w \in Windows
          PROVE  /\ win'[w] \in States /\ HasTimer(win'[w])
                 /\ w \in RegisterWindows /\ win'[w].confirm =>
                      win[w].confirm \/ (r = <<"Register", "code">> /\ err = "SUCCESS")
                 /\ win'[w].tip = "done" =>
                      win[w].tip = "done" \/ (r = <<Module(w), "submit">> /\ err = "SUCCESS")
                 /\ w \in RegisterWindows /\ win'[w].tip = "sent" =>
                      win[w].tip = "sent" \/ (r = <<"Register", "code">> /\ err = "SUCCESS")
      <3>1. win[w] \in States /\ HasTimer(win[w])
        BY <1>1, <1>2
      <3>2. CASE w \in Recipients(r[1])
        <4>1. win'[w] = Finish(win[w], r, err)
          BY <2>1, <3>2
        <4>2. w \in RegisterWindows => r[1] = "Register"
          BY <3>2 DEF Recipients, Module
        <4>3. r[2] = "submit" => r = <<Module(w), "submit">>
          BY <3>2 DEF Recipients, Requests
        <4> QED
          BY <3>1, <4>1, <4>2, <4>3, FinishState
      <3>3. CASE w \notin Recipients(r[1])
        BY <2>1, <3>1, <3>3
      <3> QED
        BY <3>2, <3>3
    <2>4. waiting' \in [Requests -> Nat]
      <3>1. waiting[r] - 1 \in Nat
        BY <1>1, <2>2
      <3> QED
        BY <1>1, <2>2, <3>1
    <2>5. /\ happened \subseteq happened' /\ happened' \subseteq Requests
          /\ err = "SUCCESS" /\ r # <<"Reset", "submit">> => r \in happened'
      <3>1. err = "SUCCESS" /\ r # <<"Reset", "submit">> => Outcome(r, err) = {TRUE}
        BY DEF Outcome
      <3>2. PICK done \in Outcome(r, err) :
              happened' = IF done THEN happened \cup {r} ELSE happened
        BY <2>1
      <3>3. happened \subseteq Requests
        BY DEF Inv, TypeOK
      <3>4. CASE done
        BY <3>2, <3>3, <3>4
      <3>5. CASE ~done
        <4>1. err = "SUCCESS" /\ r # <<"Reset", "submit">> => done \in {TRUE}
          BY <3>1, <3>2
        <4>2. done \in {TRUE} => done
          BY Zenon
        <4>3. ~(err = "SUCCESS" /\ r # <<"Reset", "submit">>)
          BY <3>5, <4>1, <4>2, Zenon
        <4> QED
          BY <3>2, <3>3, <3>5, <4>3
      <3> QED
        BY <3>4, <3>5
    <2>6. /\ told \subseteq told' /\ told' \subseteq Requests
          /\ err = "SUCCESS" => r \in told'
      BY <2>1 DEF Inv, TypeOK
    <2>7. TypeOK'
      <3>1. win' \in [Windows -> States]
        BY <2>1, <2>3
      <3> QED
        BY <1>1, <2>2, <2>4, <2>5, <2>6, <3>1 DEF TypeOK, States
    <2>8. ButtonHasTimer'
      BY <2>3 DEF ButtonHasTimer, HasTimer
    <2>9. ConfirmAfterMail'
      BY <2>3, <2>5 DEF Inv, ConfirmAfterMail, Windows
    <2>10. DoneIsTrue'
      <3>1. ASSUME NEW w \in Windows, win'[w].tip = "done"
            PROVE  <<Module(w), "submit">> \in told'
        BY <2>3, <2>6, <3>1 DEF Inv, DoneIsTrue
      <3>2. ASSUME NEW w \in RegisterWindows, win'[w].tip = "done"
            PROVE  <<"Register", "submit">> \in happened'
        <4>1. w \in Windows /\ Module(w) = "Register"
          BY DEF Windows, Module
        <4>2. \/ win[w].tip = "done"
              \/ r = <<"Register", "submit">> /\ err = "SUCCESS"
          BY <2>3, <3>2, <4>1
        <4>3. win[w].tip = "done" => <<"Register", "submit">> \in happened
          BY <4>1 DEF Inv, DoneIsTrue
        <4> QED
          BY <2>5, <4>2, <4>3
      <3> QED
        BY <3>1, <3>2 DEF DoneIsTrue
    <2>11. SentInRegister'
      BY <2>3, <2>5 DEF Inv, SentInRegister, Windows
    <2> QED
      BY <2>7, <2>8, <2>9, <2>10, <2>11 DEF Inv
  <1>9. CASE UNCHANGED vars
    BY <1>1, <1>3, <1>9 DEF vars
  <1> QED
    BY <1>4, <1>5, <1>6, <1>7, <1>8, <1>9 DEF Next

-----------------------------------------------------------------------------
\* Inv is an inductive invariant of the client.
THEOREM Invariant == Spec => []Inv
  BY InitInv, NextInv, PTL DEF Spec

\* Every variable has its type; no countdown goes below zero.
THEOREM TypeCorrect == Spec => []TypeOK
  <1>1. Inv => TypeOK
    BY DEF Inv
  <1> QED
    BY <1>1, Invariant, PTL

\* However answers and seconds interleave, a send button that is off has a timer
\* running that will turn it on, and one that is on has none.
THEOREM ButtonsHaveTimers == Spec => []ButtonHasTimer
  <1>1. Inv => ButtonHasTimer
    BY DEF Inv
  <1> QED
    BY <1>1, Invariant, PTL

\* A register window's form is enabled only by a code to register that was
\* mailed: HttpMgr keeps the answers of the two modules apart although their
\* request ids are equal.
THEOREM ConfirmsAfterMail == Spec => []ConfirmAfterMail
  <1>1. Inv => ConfirmAfterMail
    BY DEF Inv
  <1> QED
    BY <1>1, Invariant, PTL

\* A window shows success only where the servers said so of its own module's
\* request, and a register window only where the account was registered: the
\* answer to a code, or to the other kind of window, never does.
THEOREM DonesAreTrue == Spec => []DoneIsTrue
  <1>1. Inv => DoneIsTrue
    BY DEF Inv
  <1> QED
    BY <1>1, Invariant, PTL

\* Where SentIsTrue ends: a register window says that the code was sent only when
\* one was.  The answers that mislead a reset window leave this one to its error.
THEOREM RegisterSaysSent == Spec => []SentInRegister
  <1>1. Inv => SentInRegister
    BY DEF Inv
  <1> QED
    BY <1>1, Invariant, PTL

-----------------------------------------------------------------------------
\* The seconds until the send button is on again.
Off(s) == IF s.send THEN 0 ELSE s.remain

\* Each timeout takes one second off a countdown, and only the answer to a code
\* that was asked for in this kind of window makes it longer, of which there are
\* no more than requests (RegisterWidget.cpp, slotUpdateButton): what keeps a
\* user waiting are his own clicks, never the form or the other kind of window.
OnlyAnswersProlong ==
  \A w \in Windows :
    /\ Tick(w) => Off(win'[w]) = Off(win[w]) - 1
    /\ Off(win'[w]) > Off(win[w]) =>
         waiting'[<<Module(w), "code">>] < waiting[<<Module(w), "code">>]

LEMMA ProlongNext == Inv /\ [Next]_vars => [OnlyAnswersProlong]_vars
  <1> SUFFICES ASSUME Inv, [Next]_vars PROVE OnlyAnswersProlong
    OBVIOUS
  <1>1. /\ win \in [Windows -> States] /\ ButtonHasTimer
        /\ waiting \in [Requests -> Nat]
    BY DEF Inv, TypeOK, States
  <1>2. ASSUME NEW w \in Windows, Tick(w) PROVE Off(win'[w]) = Off(win[w]) - 1
    <2>1. /\ win[w] \in States /\ win[w].running /\ ~win[w].send /\ win[w].remain > 0
          /\ win'[w] = UpdateButton(win[w])
      BY <1>1, <1>2 DEF Tick, ButtonHasTimer
    <2>2. win[w].remain \in Nat
      BY <2>1, ClientAssumption DEF States
    <2> DEFINE t == [win[w] EXCEPT !.remain = @ - 1]
    <2>3. t.remain = win[w].remain - 1 /\ t.send = FALSE
      BY <2>1 DEF States
    <2>4. CASE t.remain <= 0
      <3>1. UpdateButton(win[w]).send
        BY <2>1, <2>4 DEF UpdateButton, States
      <3> QED
        BY <2>1, <2>2, <2>3, <2>4, <3>1 DEF Off
    <2>5. CASE ~(t.remain <= 0)
      <3>1. UpdateButton(win[w]) = t
        BY <2>5 DEF UpdateButton
      <3> QED
        BY <2>1, <2>3, <3>1 DEF Off
    <2> QED
      BY <2>4, <2>5
  <1>3. \A s \in States : \A tip : Off(Tip(s, tip)) = Off(s)
    BY DEF Tip, Off, States
  <1>4. ASSUME NEW w \in Windows, NEW r \in Requests, HttpFinish(r), r # <<Module(w), "code">>
        PROVE  Off(win'[w]) = Off(win[w])
    <2>1. PICK err : win'[w] = IF w \in Recipients(r[1]) THEN Finish(win[w], r, err) ELSE win[w]
      BY <1>4 DEF HttpFinish
    <2>2. CASE w \in Recipients(r[1])
      <3>1. r \in {<<"Register", "submit">>, <<"Reset", "submit">>}
        BY <1>4, <2>2 DEF Recipients, Requests, Module
      <3>2. win'[w] = win[w] \/ \E tip : win'[w] = Tip(win[w], tip)
        BY <2>1, <2>2, <3>1 DEF Finish, RegUser, ResetPwd
      <3> QED
        BY <1>1, <1>3, <3>2
    <2> QED
      BY <2>1, <2>2
  <1>5. ASSUME NEW w \in Windows, HttpFinish(<<Module(w), "code">>)
        PROVE  waiting'[<<Module(w), "code">>] < waiting[<<Module(w), "code">>]
    <2>1. <<Module(w), "code">> \in Requests
      BY DEF Module, Requests
    <2> QED
      BY <1>1, <1>5, <2>1 DEF HttpFinish
  <1>6. ASSUME NEW w \in Windows, NEW v \in Windows, Show(v) \/ SendCode(v) \/ Confirm(v)
        PROVE  Off(win'[w]) = Off(win[w])
    <2>1. CASE UNCHANGED win
      BY <2>1
    <2>2. CASE Reject(v)
      BY <1>1, <1>3, <2>2 DEF Reject
    <2> QED
      BY <1>6, <2>1, <2>2 DEF Show, SendCode, Confirm, Post
  <1>7. ASSUME NEW w \in Windows, NEW v \in Windows, v # w, Tick(v)
        PROVE  win'[w] = win[w]
    BY <1>1, <1>7 DEF Tick
  <1>8. ASSUME NEW w \in Windows, (\E v \in Windows \cup {Login} : Close(v)) \/ UNCHANGED vars
        PROVE  win'[w] = win[w]
    BY <1>8 DEF Close, vars
  <1>9. ASSUME NEW w \in Windows PROVE Off(win[w]) \in Nat
    BY <1>1, ClientAssumption DEF Off, States
  <1>10. ASSUME NEW w \in Windows
         PROVE  \/ Tick(w)
                \/ Off(win'[w]) = Off(win[w])
                \/ HttpFinish(<<Module(w), "code">>)
    BY <1>4, <1>6, <1>7, <1>8, <1>10 DEF Next
  <1>11. ASSUME NEW w \in Windows, Off(win'[w]) > Off(win[w])
         PROVE  HttpFinish(<<Module(w), "code">>)
    BY <1>2, <1>9, <1>10, <1>11
  <1> QED
    BY <1>2, <1>5, <1>11 DEF OnlyAnswersProlong

\* The safety part of SendComesBack; the rest is that timers fire.
THEOREM CountdownsRun == Spec => [][OnlyAnswersProlong]_vars
  BY ProlongNext, Invariant, PTL DEF Spec
=============================================================================
