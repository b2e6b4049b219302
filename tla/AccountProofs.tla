--------------------------- MODULE AccountProofs ---------------------------
(***************************************************************************)
(* For every set of addresses: one attempt at a time, and the main screen  *)
(* belongs to a user with an account and a record (or a sign up that ended *)
(* half-way).                                                              *)
(***************************************************************************)
EXTENDS Account, TLAPS

\* What ties the call in flight to the rest: a record waits for the server
\* exactly while its "write" call is in flight, that call's user is signed in,
\* and whoever is signed in has an account.
CallShape ==
  /\ \A email \in writes : call = <<"write", email>>
  /\ \A email \in Emails : call = <<"write", email>> => signedIn = email /\ email \in writes
  /\ signedIn # Nil => signedIn \in accounts

IndInv == TypeOK /\ OneAttemptAtATime /\ CallShape /\ MainHasRecord

-----------------------------------------------------------------------------
(* The overlay *)

\* A record keeps its type when a flag falls and the fades are counted.
LEMMA FadesType ==
  ASSUME NEW i \in Indicator, NEW n \in Nat
  PROVE  /\ [i EXCEPT !.attached = FALSE, !.fades = n] \in Indicator
         /\ [i EXCEPT !.opaque = FALSE, !.fades = n] \in Indicator
BY DEF Indicator

\* The overlay's operations keep its type.
LEMMA IndicatorType ==
  ASSUME NEW i \in Indicator
  PROVE  /\ Started(i) \in Indicator
         /\ Stopped(i) \in Indicator
         /\ i.fades > 0 => Faded(i) \in Indicator
<1>1. Started(i) \in Indicator
  BY DEF Indicator, Started
<1>2. i.fades \in Nat
  BY DEF Indicator
<1>3. i.fades + 1 \in Nat /\ (i.fades > 0 => i.fades - 1 \in Nat)
  BY <1>2
<1> QED
  BY <1>1, <1>3, FadesType DEF Stopped, Faded

\* The overlay that is not shown.
LEMMA IdleType == Idle \in Indicator
BY DEF Idle, Indicator

-----------------------------------------------------------------------------
LEMMA NilIsNoCall == \A step \in Steps, email \in Emails : <<step, email>> # Nil
BY NilAssumption

LEMMA InitInd == Init => IndInv
<1> SUFFICES ASSUME Init PROVE IndInv
  OBVIOUS
<1>1. TypeOK
  BY IdleType DEF Init, TypeOK
<1>2. OneAttemptAtATime
  BY DEF Init, OneAttemptAtATime
<1>3. CallShape
  BY NilIsNoCall DEF Init, CallShape, Steps
<1>4. MainHasRecord
  BY DEF Init, MainHasRecord
<1> QED
  BY <1>1, <1>2, <1>3, <1>4 DEF IndInv

-----------------------------------------------------------------------------
(* Taps *)

\* A tap happens only when nothing is in flight.
LEMMA FreeIsIdle ==
  ASSUME IndInv, Free
  PROVE  /\ call = Nil /\ writes = {} /\ screen = "login" /\ alert = Nil
         /\ spinner \in Indicator /\ spinner.fades = 0
<1>1. call = Nil /\ screen = "login" /\ alert = Nil /\ spinner \in Indicator /\ spinner.fades = 0
  BY DEF IndInv, TypeOK, OneAttemptAtATime, Free
<1>2. writes = {}
  <2>1. \A email \in writes : call = <<"write", email>> /\ email \in Emails
    BY DEF IndInv, TypeOK, CallShape
  <2> QED
    BY <1>1, <2>1, NilIsNoCall DEF Steps
<1> QED
  BY <1>1, <1>2

\* A tap refuses, sends a call that is not a "write", or covers the screen and
\* says why.
TapEffect ==
  \/ alert' \in Errors /\ UNCHANGED <<call, spinner>>
  \/ /\ spinner' = Started(spinner)
     /\ \E step \in {"providers", "signIn", "reset"}, email \in Emails : call' = <<step, email>>
     /\ UNCHANGED alert
  \/ spinner' = Started(spinner) /\ alert' \in Errors /\ UNCHANGED call

LEMMA TapInd ==
  ASSUME IndInv, Free, TapEffect, tried' \in Emails \cup {Nil},
         UNCHANGED <<net, accounts, records, signedIn, screen, writes, halfMade>>
  PROVE  IndInv'
<1>1. /\ call = Nil /\ writes = {} /\ screen = "login" /\ alert = Nil
      /\ spinner \in Indicator /\ spinner.fades = 0
  BY FreeIsIdle
<1>2. /\ Started(spinner) \in Indicator /\ Blocks(Started(spinner))
      /\ Started(spinner).fades = 0
  <2>1. Started(spinner) \in Indicator
    BY <1>1, IndicatorType
  <2> QED
    BY <1>1, <2>1 DEF Started, Blocks, Indicator
<1>3. call' \in (Steps \X Emails) \cup {Nil} /\ alert' \in Errors \cup {Nil}
      /\ spinner' \in Indicator
  BY <1>1, <1>2 DEF TapEffect, Steps
<1>4. TypeOK'
  BY <1>3 DEF IndInv, TypeOK
<1>5. OneAttemptAtATime'
  BY <1>1, <1>2 DEF TapEffect, OneAttemptAtATime
<1>6. \A email \in Emails : call' # <<"write", email>>
  BY <1>1, NilIsNoCall DEF TapEffect, Steps
<1>7. CallShape'
  BY <1>1, <1>6 DEF IndInv, CallShape
<1>8. MainHasRecord'
  BY <1>1 DEF IndInv, MainHasRecord
<1> QED
  BY <1>4, <1>5, <1>7, <1>8 DEF IndInv

LEMMA SignUpInd ==
  ASSUME IndInv, NEW email \in Emails \cup {Nil}, NEW password \in Passwords,
         SignUp(email, password)
  PROVE  IndInv'
<1>1. TapEffect
  BY DEF SignUp, TapEffect, Refuse, CheckUser, Send, Errors
<1> QED
  BY <1>1, TapInd DEF SignUp

LEMMA LogInInd ==
  ASSUME IndInv, NEW email \in Emails \cup {Nil}, NEW password \in Passwords,
         LogIn(email, password)
  PROVE  IndInv'
<1>1. TapEffect
  BY DEF LogIn, TapEffect, Refuse, Send, Errors
<1> QED
  BY <1>1, TapInd DEF LogIn

LEMMA ForgotPasswordInd ==
  ASSUME IndInv, NEW email \in Emails \cup {Nil}, ForgotPassword(email)
  PROVE  IndInv'
<1>1. TapEffect
  BY DEF ForgotPassword, TapEffect, Refuse, Send, Errors
<1> QED
  BY <1>1, TapInd DEF ForgotPassword

LEMMA DismissAlertInd == ASSUME IndInv, DismissAlert PROVE IndInv'
<1>1. TypeOK'
  BY DEF DismissAlert, IndInv, TypeOK
<1>2. OneAttemptAtATime'
  BY DEF DismissAlert, IndInv, OneAttemptAtATime
<1>3. CallShape' /\ MainHasRecord'
  BY DEF DismissAlert, IndInv, CallShape, MainHasRecord
<1> QED
  BY <1>1, <1>2, <1>3 DEF IndInv

-----------------------------------------------------------------------------
(* Answers *)

\* An answer finds the login screen, the overlay up, no alert, and a queued record
\* only for its own user.
LEMMA AnswerFinds ==
  ASSUME IndInv, NEW step \in Steps, NEW email \in Emails, call = <<step, email>>
  PROVE  /\ screen = "login" /\ alert = Nil
         /\ spinner \in Indicator /\ Blocks(spinner) /\ spinner.fades = 0
         /\ IF step = "write" THEN writes = {email} /\ signedIn = email ELSE writes = {}
<1>1. call # Nil
  BY NilIsNoCall
<1>2. /\ screen = "login" /\ Blocks(spinner) /\ alert = Nil /\ spinner.fades = 0
      /\ spinner \in Indicator
  BY <1>1 DEF IndInv, TypeOK, OneAttemptAtATime
<1>3. \A e \in writes : step = "write" /\ e = email
  BY DEF IndInv, CallShape
<1>4. step = "write" => email \in writes /\ signedIn = email
  BY DEF IndInv, CallShape
<1> QED
  BY <1>2, <1>3, <1>4

\* Reporting ends the call and keeps the types.
LEMMA ReportEffect ==
  ASSUME NEW error \in Errors, spinner \in Indicator, Report(error)
  PROVE  call' = Nil /\ alert' \in Errors /\ spinner' \in Indicator
BY IndicatorType DEF Report

\* An answer that reports, and changes neither accounts nor writes.
LEMMA ReportInd ==
  ASSUME IndInv, NEW step \in Steps \ {"write"}, NEW email \in Emails,
         call = <<step, email>>, NEW error \in Errors, Report(error),
         UNCHANGED <<net, accounts, records, signedIn, screen, writes, tried, halfMade>>
  PROVE  IndInv'
<1>1. /\ screen = "login" /\ spinner \in Indicator /\ writes = {}
  BY AnswerFinds
<1>2. call' = Nil /\ alert' \in Errors /\ spinner' \in Indicator
  BY <1>1, ReportEffect
<1>3. TypeOK'
  BY <1>2 DEF IndInv, TypeOK
<1>4. OneAttemptAtATime'
  BY <1>2 DEF OneAttemptAtATime
<1>5. CallShape'
  BY <1>1, <1>2, NilIsNoCall DEF IndInv, CallShape, Steps
<1>6. MainHasRecord'
  BY DEF IndInv, MainHasRecord
<1> QED
  BY <1>3, <1>4, <1>5, <1>6 DEF IndInv

LEMMA ProvidersInd ==
  ASSUME IndInv, NEW email \in Emails, ProvidersAnswer(email)
  PROVE  IndInv'
<1> USE DEF ProvidersAnswer
<1>1. CASE Report("accountExists") \/ Report("userSerialization")
  BY <1>1, ReportInd DEF Steps, Errors
<1>2. CASE call' = <<"create", email>> /\ UNCHANGED <<alert, spinner>>
  <2>1. TypeOK'
    BY <1>2 DEF IndInv, TypeOK, Steps
  <2>2. OneAttemptAtATime'
    BY <1>2, AnswerFinds DEF OneAttemptAtATime, Steps
  <2>3. CallShape'
    BY <1>2, AnswerFinds DEF IndInv, CallShape, Steps
  <2>4. MainHasRecord'
    BY DEF IndInv, MainHasRecord
  <2> QED
    BY <2>1, <2>2, <2>3, <2>4 DEF IndInv
<1> QED
  BY <1>1, <1>2

LEMMA CreateInd ==
  ASSUME IndInv, NEW email \in Emails, CreateAnswer(email)
  PROVE  IndInv'
<1> USE DEF CreateAnswer
<1>1. ASSUME NEW made \in SUBSET ({email} \ accounts),
             /\ accounts' = accounts \cup made /\ halfMade' = halfMade \cup made
             /\ Report("userSerialization") /\ UNCHANGED <<signedIn, writes>>
      PROVE  IndInv'
  <2>1. screen = "login" /\ spinner \in Indicator /\ writes = {}
    BY AnswerFinds DEF Steps
  <2>2. call' = Nil /\ alert' \in Errors /\ spinner' \in Indicator
    BY <1>1, <2>1, ReportEffect DEF Errors
  <2>3. TypeOK'
    BY <1>1, <2>2 DEF IndInv, TypeOK
  <2>4. OneAttemptAtATime'
    BY <2>2 DEF OneAttemptAtATime
  <2>5. CallShape'
    BY <1>1, <2>1, <2>2, NilIsNoCall DEF IndInv, CallShape, Steps
  <2>6. MainHasRecord'
    BY <1>1, <2>1 DEF IndInv, MainHasRecord
  <2> QED
    BY <2>3, <2>4, <2>5, <2>6 DEF IndInv
<1>2. CASE /\ accounts' = accounts \cup {email}
           /\ signedIn' = email
           /\ call' = <<"write", email>>
           /\ writes' = writes \cup {email}
           /\ UNCHANGED <<alert, spinner, halfMade>>
  <2>1. /\ screen = "login" /\ alert = Nil /\ Blocks(spinner) /\ spinner.fades = 0
        /\ writes = {}
    BY AnswerFinds DEF Steps
  <2>2. TypeOK'
    BY <1>2 DEF IndInv, TypeOK, Steps
  <2>3. OneAttemptAtATime'
    BY <1>2, <2>1 DEF OneAttemptAtATime
  <2>4. CallShape'
    BY <1>2, <2>1 DEF CallShape
  <2>5. MainHasRecord'
    BY <1>2, <2>1 DEF IndInv, MainHasRecord
  <2> QED
    BY <2>2, <2>3, <2>4, <2>5 DEF IndInv
<1> QED
  BY <1>1, <1>2

LEMMA WriteInd ==
  ASSUME IndInv, NEW email \in Emails, WriteAnswer(email)
  PROVE  IndInv'
<1> USE DEF WriteAnswer
<1>1. /\ screen = "login" /\ spinner \in Indicator /\ writes = {email}
      /\ signedIn = email /\ alert = Nil
  BY AnswerFinds DEF Steps
<1>2. writes' = {} /\ email \in accounts
  BY <1>1, NilAssumption DEF IndInv, CallShape
<1>3. CASE records' = records \cup {email} /\ EnterMain /\ UNCHANGED halfMade
  <2>1. screen' = "main" /\ call' = Nil /\ UNCHANGED <<alert, spinner>>
    BY <1>3 DEF EnterMain
  <2>2. TypeOK'
    BY <1>2, <1>3, <2>1 DEF IndInv, TypeOK
  <2>3. OneAttemptAtATime' /\ CallShape'
    BY <1>2, <2>1, NilIsNoCall DEF IndInv, OneAttemptAtATime, CallShape, Steps
  <2>4. MainHasRecord'
    BY <1>1, <1>2, <1>3, NilAssumption DEF IndInv, MainHasRecord
  <2> QED
    BY <2>2, <2>3, <2>4 DEF IndInv
<1>4. CASE /\ Report("userSerialization") /\ halfMade' = halfMade \cup {email}
           /\ UNCHANGED <<records, screen>>
  <2>1. call' = Nil /\ alert' \in Errors /\ spinner' \in Indicator
    BY <1>1, <1>4, ReportEffect DEF Errors
  <2>2. TypeOK'
    BY <1>2, <1>4, <2>1 DEF IndInv, TypeOK
  <2>3. OneAttemptAtATime' /\ CallShape'
    BY <1>2, <2>1, NilIsNoCall DEF IndInv, OneAttemptAtATime, CallShape, Steps
  <2>4. MainHasRecord'
    BY <1>1, <1>2, <1>4 DEF IndInv, MainHasRecord
  <2> QED
    BY <2>2, <2>3, <2>4 DEF IndInv
<1> QED
  BY <1>3, <1>4

LEMMA SignInInd ==
  ASSUME IndInv, NEW email \in Emails, SignInAnswer(email)
  PROVE  IndInv'
<1> USE DEF SignInAnswer
<1>1. CASE Report("invalidLogin") /\ UNCHANGED <<signedIn, screen>>
  BY <1>1, ReportInd DEF Steps, Errors
<1>2. CASE email \in accounts /\ signedIn' = email /\ EnterMain
  <2>1. writes = {}
    BY AnswerFinds DEF Steps
  <2>2. screen' = "main" /\ call' = Nil /\ UNCHANGED <<alert, spinner>>
    BY <1>2 DEF EnterMain
  <2>3. TypeOK'
    BY <1>2, <2>2 DEF IndInv, TypeOK
  <2>4. OneAttemptAtATime' /\ CallShape'
    BY <1>2, <2>1, <2>2, NilIsNoCall DEF OneAttemptAtATime, CallShape, Steps
  <2>5. MainHasRecord'
    BY <1>2, <2>1, NilAssumption DEF IndInv, MainHasRecord
  <2> QED
    BY <2>3, <2>4, <2>5 DEF IndInv
<1> QED
  BY <1>1, <1>2

LEMMA ResetInd ==
  ASSUME IndInv, NEW email \in Emails, ResetAnswer(email)
  PROVE  IndInv'
BY ReportInd DEF ResetAnswer, Steps, Errors

-----------------------------------------------------------------------------
(* The main screen, the process and the network *)

LEMMA LogOutInd == ASSUME IndInv, LogOut PROVE IndInv'
<1> USE DEF LogOut
<1>1. call = Nil
  BY DEF IndInv, OneAttemptAtATime
<1>2. [Idle EXCEPT !.fades = 1] \in Indicator
  BY DEF Idle, Indicator
<1>3. TypeOK'
  BY <1>2 DEF IndInv, TypeOK
<1>4. OneAttemptAtATime'
  BY <1>1 DEF OneAttemptAtATime
<1>5. CallShape'
  BY <1>1, NilIsNoCall DEF IndInv, CallShape, Steps
<1>6. MainHasRecord'
  BY DEF IndInv, MainHasRecord
<1> QED
  BY <1>3, <1>4, <1>5, <1>6 DEF IndInv

LEMMA RelaunchInd == ASSUME IndInv, Relaunch PROVE IndInv'
<1> USE DEF Relaunch
<1>1. PICK landed \in SUBSET writes, made \in SUBSET Emails :
        /\ records' = records \cup landed
        /\ accounts' = accounts \cup made
        /\ halfMade' = halfMade \cup (writes \ landed) \cup made
  OBVIOUS
<1>2. TypeOK'
  BY <1>1, IdleType DEF IndInv, TypeOK
<1>3. OneAttemptAtATime' /\ CallShape'
  BY <1>1, NilIsNoCall DEF IndInv, OneAttemptAtATime, CallShape, Steps
<1>4. MainHasRecord'
  BY <1>1 DEF IndInv, CallShape, MainHasRecord
<1> QED
  BY <1>2, <1>3, <1>4 DEF IndInv

LEMMA FadeInd == ASSUME IndInv, FadeEnds PROVE IndInv'
<1> USE DEF FadeEnds
<1>1. call = Nil
  BY DEF IndInv, TypeOK, OneAttemptAtATime
<1>2. TypeOK'
  BY IndicatorType DEF IndInv, TypeOK
<1>3. OneAttemptAtATime'
  BY <1>1 DEF OneAttemptAtATime
<1>4. CallShape' /\ MainHasRecord'
  BY DEF IndInv, CallShape, MainHasRecord
<1> QED
  BY <1>2, <1>3, <1>4 DEF IndInv

LEMMA NetworkInd == ASSUME IndInv, NetworkChanges \/ UNCHANGED vars PROVE IndInv'
<1>1. net' \in BOOLEAN
  BY DEF NetworkChanges, vars, IndInv, TypeOK
<1>2. UNCHANGED <<accounts, records, signedIn, screen, call, writes, alert, tried,
                  spinner, halfMade>>
  BY DEF NetworkChanges, vars
<1>3. TypeOK'
  BY <1>1, <1>2 DEF IndInv, TypeOK
<1> QED
  BY <1>2, <1>3 DEF IndInv, OneAttemptAtATime, CallShape, MainHasRecord

-----------------------------------------------------------------------------
LEMMA NextInd == ASSUME IndInv, [Next]_vars PROVE IndInv'
<1>1. CASE \E email \in Emails \cup {Nil}, password \in Passwords :
             SignUp(email, password) \/ LogIn(email, password)
  BY <1>1, SignUpInd, LogInInd
<1>2. CASE \E email \in Emails \cup {Nil} : ForgotPassword(email)
  BY <1>2, ForgotPasswordInd
<1>3. CASE \E email \in Emails : Answers(email)
  BY <1>3, ProvidersInd, CreateInd, WriteInd, SignInInd, ResetInd DEF Answers
<1>4. CASE DismissAlert
  BY <1>4, DismissAlertInd
<1>5. CASE LogOut
  BY <1>5, LogOutInd
<1>6. CASE Relaunch
  BY <1>6, RelaunchInd
<1>7. CASE FadeEnds
  BY <1>7, FadeInd
<1>8. CASE NetworkChanges \/ UNCHANGED vars
  BY <1>8, NetworkInd
<1> QED
  BY <1>1, <1>2, <1>3, <1>4, <1>5, <1>6, <1>7, <1>8 DEF Next

\* The inductive invariant: types, one attempt, what the call in flight is tied
\* to, and the record behind the main screen.
THEOREM AccountInvariant == Spec => []IndInv
<1>1. Init => IndInv
  BY InitInd
<1>2. IndInv /\ [Next]_vars => IndInv'
  BY NextInd
<1> QED
  BY <1>1, <1>2, PTL DEF Spec

\* Every variable of the login screen keeps its type.
THEOREM AccountTypeCorrect == Spec => []TypeOK
<1>1. IndInv => TypeOK
  BY DEF IndInv
<1> QED
  BY <1>1, AccountInvariant, PTL

\* While a call is in flight the overlay covers the login screen, so no tap can
\* start a second one.
THEOREM AttemptsNeverOverlap == Spec => []OneAttemptAtATime
<1>1. IndInv => OneAttemptAtATime
  BY DEF IndInv
<1> QED
  BY <1>1, AccountInvariant, PTL

\* Whoever is on the main screen has an account, and a record unless the sign up
\* ended between the two, through answers in any order, restarts and lost
\* connections.
THEOREM MainBelongsToRecord == Spec => []MainHasRecord
<1>1. IndInv => MainHasRecord
  BY DEF IndInv
<1> QED
  BY <1>1, AccountInvariant, PTL

-----------------------------------------------------------------------------
(* How an attempt ends *)

\* The step from a call in flight to none: the main screen, or an alert over a
\* screen without the overlay, or the end of the process.
Reported ==
  call # Nil /\ call' = Nil =>
    screen' = "main" \/ (alert' # Nil /\ ~Blocks(spinner')) \/ Relaunch

\* Reporting uncovers the screen and says why.
LEMMA ReportUncovers ==
  ASSUME NEW error \in Errors, spinner \in Indicator, Report(error)
  PROVE  alert' # Nil /\ ~Blocks(spinner')
<1>1. Stopped(spinner).opaque = FALSE
  BY DEF Stopped, Indicator
<1> QED
  BY <1>1, NilAssumption DEF Report, Blocks

\* No tap takes a call back.
LEMMA TapSends == ASSUME IndInv, Free PROVE Reported
BY FreeIsIdle DEF Reported

LEMMA AnswerReports ==
  ASSUME IndInv, NEW email \in Emails, Answers(email)
  PROVE  Reported
<1>1. spinner \in Indicator
  BY DEF IndInv, TypeOK
<1>2. ASSUME NEW error \in Errors, Report(error) PROVE Reported
  BY <1>1, <1>2, ReportUncovers DEF Reported
<1>3. ASSUME EnterMain PROVE Reported
  BY <1>3 DEF EnterMain, Reported
<1>4. ASSUME NEW step \in Steps, call' = <<step, email>> PROVE Reported
  BY <1>4, NilIsNoCall DEF Reported
<1>5. CASE ProvidersAnswer(email)
  BY <1>2, <1>4, <1>5 DEF ProvidersAnswer, Errors, Steps
<1>6. CASE CreateAnswer(email)
  BY <1>2, <1>4, <1>6 DEF CreateAnswer, Errors, Steps
<1>7. CASE WriteAnswer(email)
  BY <1>2, <1>3, <1>7 DEF WriteAnswer, Errors
<1>8. CASE SignInAnswer(email)
  BY <1>2, <1>3, <1>8 DEF SignInAnswer, Errors
<1>9. CASE ResetAnswer(email)
  BY <1>2, <1>9 DEF ResetAnswer, Errors
<1> QED
  BY <1>5, <1>6, <1>7, <1>8, <1>9 DEF Answers

LEMMA NextReports == ASSUME IndInv, Next PROVE Reported
<1>1. CASE \E email \in Emails \cup {Nil}, password \in Passwords :
             SignUp(email, password) \/ LogIn(email, password)
  BY <1>1, TapSends DEF SignUp, LogIn
<1>2. CASE \E email \in Emails \cup {Nil} : ForgotPassword(email)
  BY <1>2, TapSends DEF ForgotPassword
<1>3. CASE \E email \in Emails : Answers(email)
  BY <1>3, AnswerReports
<1>4. CASE Relaunch
  BY <1>4 DEF Reported
<1>5. CASE DismissAlert \/ LogOut \/ FadeEnds \/ NetworkChanges
  BY <1>5 DEF DismissAlert, LogOut, FadeEnds, NetworkChanges, Reported
<1> QED
  BY <1>1, <1>2, <1>3, <1>4, <1>5 DEF Next

\* An attempt ends in front of the person: whatever Auth and the database answer,
\* the step that ends the call opens the main screen, or leaves an alert over a
\* screen that can be used, or is the end of the process.
THEOREM AttemptsAreReported == Spec => AttemptReported
<1>1. IndInv /\ [Next]_vars => [Reported]_vars
  BY NextReports
<1>2. Spec => [][Reported]_vars
  BY <1>1, AccountInvariant, PTL DEF Spec
<1> QED
  BY <1>2 DEF AttemptReported, Reported
=============================================================================
