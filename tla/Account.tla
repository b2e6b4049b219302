------------------------------ MODULE Account ------------------------------
(***************************************************************************)
(* Sign up, log in and password reset: LoginViewController and the part of *)
(* UserService behind it, against Firebase Auth (the accounts) and the     *)
(* database (users/<uid>, here a record per e-mail address).               *)
(*                                                                         *)
(* A sign up is a chain of three calls, "providers" (fetchProviders),      *)
(* "create" (createUser, which also signs the user in) and "write"         *)
(* (writeUser); "signIn" and "reset" are single calls.  Auth answers a     *)
(* call without a connection by an error; the database answers a write     *)
(* only when the server has it.                                            *)
(*                                                                         *)
(* The fade of the overlay lasts 0.1 s and begins together with the alert  *)
(* or the change of screen that follows it, so it ends before the next     *)
(* tap: taps wait for fades = 0.                                           *)
(***************************************************************************)
EXTENDS Naturals, FiniteSets, ActivityIndicator

CONSTANTS
  Emails,      \* what can be entered as an e-mail address
  Malformed,   \* the entries EmailVerifier rejects
  Nil          \* an empty field, no alert, nobody signed in

ASSUME EmailsAssumption == Malformed \subseteq Emails

Passwords == {"empty", "short", "long"}   \* "long": six characters or more
Steps == {"providers", "create", "write", "signIn", "reset"}
Errors == {"accountExists", "invalidEmail", "invalidInputs", "invalidLogin",
           "invalidPassword", "needEmailForReset", "noNetworkConnection",
           "passwordResetError", "successfulPasswordReset", "userSerialization"}

ASSUME NilAssumption == Nil \notin Emails \cup Errors \cup (Steps \X Emails)

VARIABLES
  net,        \* the network is reachable
  accounts,   \* addresses with an account in Auth
  records,    \* addresses whose user has a record in the database
  signedIn,   \* the user Auth keeps on the device
  screen,     \* "login" or "main"
  call,       \* <<step, email>> of the call in flight, or Nil
  writes,     \* records the client holds for the server
  alert,      \* error of the alert on the screen
  tried,      \* address of the last attempt
  spinner,    \* ActivityIndicator.shared
  halfMade    \* history: users whose sign up ended with an account and no record

vars == <<net, accounts, records, signedIn, screen, call, writes, alert, tried,
          spinner, halfMade>>

TypeOK ==
  /\ net \in BOOLEAN /\ accounts \subseteq Emails /\ records \subseteq Emails
  /\ signedIn \in Emails \cup {Nil} /\ screen \in {"login", "main"}
  /\ call \in (Steps \X Emails) \cup {Nil} /\ writes \subseteq Emails
  /\ alert \in Errors \cup {Nil} /\ tried \in Emails \cup {Nil}
  /\ spinner \in Indicator /\ halfMade \subseteq Emails

-----------------------------------------------------------------------------
(* Taps *)

Free == screen = "login" /\ ~Blocks(spinner) /\ spinner.fades = 0 /\ alert = Nil

\* presentErrorAlert, without a call.
Refuse(error) == alert' = error /\ UNCHANGED <<call, spinner>>

\* Mutants: no overlay; the address of the attempt before.
SendUncovered(step, email) == call' = <<step, email>> /\ UNCHANGED <<alert, spinner>>
SendPrevious(step, email) ==
  /\ spinner' = Started(spinner)
  /\ call' = <<step, tried>>
  /\ UNCHANGED alert

\* The overlay and a call.
Send(step, email) ==
  /\ spinner' = Started(spinner)
  /\ call' = <<step, email>>
  /\ UNCHANGED alert

\* UserService.checkUser: offline the overlay stays.
CheckUser(email) ==
  IF net
    THEN Send("providers", email)
    ELSE spinner' = Started(spinner) /\ alert' = "noNetworkConnection" /\ UNCHANGED call

\* validateSignUp
SignUp(email, password) ==
  /\ Free
  /\ tried' = email
  /\ IF email = Nil \/ password = "empty" THEN Refuse("invalidInputs")
     ELSE IF email \in Malformed THEN Refuse("invalidEmail")
     ELSE IF password = "short" THEN Refuse("invalidPassword")
     ELSE CheckUser(email)
  /\ UNCHANGED <<net, accounts, records, signedIn, screen, writes, halfMade>>

\* validateLogIn
LogIn(email, password) ==
  /\ Free
  /\ tried' = email
  /\ IF email = Nil \/ password = "empty" THEN Refuse("invalidInputs")
     ELSE Send("signIn", email)
  /\ UNCHANGED <<net, accounts, records, signedIn, screen, writes, halfMade>>

\* forgotPassword
ForgotPassword(email) ==
  /\ Free
  /\ tried' = email
  /\ IF email = Nil THEN Refuse("needEmailForReset")
     ELSE IF email \in Malformed THEN Refuse("invalidEmail")
     ELSE Send("reset", email)
  /\ UNCHANGED <<net, accounts, records, signedIn, screen, writes, halfMade>>

DismissAlert ==
  /\ alert # Nil /\ spinner.fades = 0
  /\ alert' = Nil
  /\ UNCHANGED <<net, accounts, records, signedIn, screen, call, writes, tried,
                 spinner, halfMade>>

-----------------------------------------------------------------------------
(* Answers *)

\* The overlay goes, and an alert says why.
Report(error) ==
  /\ spinner' = Stopped(spinner)
  /\ alert' = error
  /\ call' = Nil

\* serviceLoggedIn: the main screen, with the overlay still up.
EnterMain ==
  /\ screen' = "main"
  /\ call' = Nil
  /\ UNCHANGED <<alert, spinner>>

\* fetchProviders: the address is taken, cannot be looked up, or is free.
ProvidersAnswer(email) ==
  /\ call = <<"providers", email>>
  /\ \/ net /\ email \in accounts /\ Report("accountExists")
     \/ Report("userSerialization")
     \/ net /\ email \notin accounts /\ call' = <<"create", email>> /\ UNCHANGED <<alert, spinner>>
  /\ UNCHANGED <<net, accounts, records, signedIn, screen, writes, tried, halfMade>>

\* Mutant: a failed creation starts over.
CreateRetried(email) ==
  /\ call = <<"create", email>>
  /\ call' = <<"providers", email>>
  /\ UNCHANGED <<net, accounts, records, signedIn, screen, writes, alert, tried,
                 spinner, halfMade>>

\* createUser: an account and its user signed in, whose record is sent at once,
\* or an error.  With the answer lost there is an error and yet an account, if the
\* request had reached the server.
CreateAnswer(email) ==
  /\ call = <<"create", email>>
  /\ \/ /\ net /\ email \notin accounts
        /\ accounts' = accounts \cup {email}
        /\ signedIn' = email
        /\ call' = <<"write", email>>
        /\ writes' = writes \cup {email}
        /\ UNCHANGED <<alert, spinner, halfMade>>
     \/ \E made \in SUBSET ({email} \ accounts) :
          /\ accounts' = accounts \cup made
          /\ halfMade' = halfMade \cup made
          /\ Report("userSerialization")
          /\ UNCHANGED <<signedIn, writes>>
  /\ UNCHANGED <<net, records, screen, tried>>

\* Mutant: the main screen opens before the record is written.
WriteUnawaited(email) ==
  /\ call = <<"write", email>>
  /\ EnterMain
  /\ UNCHANGED <<net, accounts, records, signedIn, writes, tried, halfMade>>

\* writeUser: the server has the record, or refuses it.
WriteAnswer(email) ==
  /\ call = <<"write", email>> /\ net
  /\ writes' = writes \ {email}
  /\ \/ records' = records \cup {email} /\ EnterMain /\ UNCHANGED halfMade
     \/ Report("userSerialization") /\ halfMade' = halfMade \cup {email} /\ UNCHANGED <<records, screen>>
  /\ UNCHANGED <<net, accounts, signedIn, tried>>

\* Mutant: a failed log in leaves the overlay.
SignInUnanswered(email) ==
  /\ call = <<"signIn", email>>
  /\ \/ net /\ email \in accounts /\ signedIn' = email /\ EnterMain
     \/ call' = Nil /\ UNCHANGED <<signedIn, screen, alert, spinner>>
  /\ UNCHANGED <<net, accounts, records, writes, tried, halfMade>>

\* signIn: the credentials are right, or not (or there is no connection).
SignInAnswer(email) ==
  /\ call = <<"signIn", email>>
  /\ \/ net /\ email \in accounts /\ signedIn' = email /\ EnterMain
     \/ Report("invalidLogin") /\ UNCHANGED <<signedIn, screen>>
  /\ UNCHANGED <<net, accounts, records, writes, tried, halfMade>>

ResetAnswer(email) ==
  /\ call = <<"reset", email>>
  /\ \/ net /\ email \in accounts /\ Report("successfulPasswordReset")
     \/ Report("passwordResetError")
  /\ UNCHANGED <<net, accounts, records, signedIn, screen, writes, tried, halfMade>>

-----------------------------------------------------------------------------
(* The main screen, the process and the network *)

\* The main screen has stopped the overlay; its log out ends on this screen.
LogOut ==
  /\ screen = "main"
  /\ screen' = "login"
  /\ signedIn' = Nil
  /\ spinner' = [Idle EXCEPT !.fades = 1]
  /\ UNCHANGED <<net, accounts, records, call, writes, alert, tried, halfMade>>

\* The process ends, with the writes the server does not have yet, and starts on
\* the main screen if Auth has a user.  What the server already did for a call that
\* was not answered, nobody on the device hears.
Relaunch ==
  /\ screen' = IF signedIn = Nil THEN "login" ELSE "main"
  /\ \E landed \in SUBSET writes,
        made \in SUBSET ({email \in Emails : call = <<"create", email>>} \ accounts) :
       /\ records' = records \cup landed
       /\ accounts' = accounts \cup made
       /\ halfMade' = halfMade \cup (writes \ landed) \cup made
  /\ writes' = {} /\ call' = Nil /\ alert' = Nil
  /\ spinner' = Idle
  /\ UNCHANGED <<net, signedIn, tried>>

FadeEnds ==
  /\ spinner.fades > 0
  /\ spinner' = Faded(spinner)
  /\ UNCHANGED <<net, accounts, records, signedIn, screen, call, writes, alert,
                 tried, halfMade>>

NetworkChanges ==
  /\ net' = ~net
  /\ UNCHANGED <<accounts, records, signedIn, screen, call, writes, alert, tried,
                 spinner, halfMade>>

-----------------------------------------------------------------------------
\* Users of other devices have an account and a record.
Init ==
  /\ net \in BOOLEAN
  /\ accounts \in SUBSET (Emails \ Malformed) /\ records = accounts
  /\ signedIn = Nil /\ screen = "login"
  /\ call = Nil /\ writes = {} /\ alert = Nil /\ tried = Nil
  /\ spinner = Idle /\ halfMade = {}

Answers(email) ==
  \/ ProvidersAnswer(email) \/ CreateAnswer(email) \/ WriteAnswer(email)
  \/ SignInAnswer(email) \/ ResetAnswer(email)

Next ==
  \/ \E email \in Emails \cup {Nil}, password \in Passwords :
       SignUp(email, password) \/ LogIn(email, password)
  \/ \E email \in Emails \cup {Nil} : ForgotPassword(email)
  \/ \E email \in Emails : Answers(email)
  \/ DismissAlert \/ LogOut \/ Relaunch \/ FadeEnds \/ NetworkChanges

Spec == Init /\ [][Next]_vars

\* Auth and the database answer what they can, and fades end.
Fairness == WF_vars(\E email \in Emails : Answers(email)) /\ WF_vars(FadeEnds)

FairSpec == Spec /\ Fairness

-----------------------------------------------------------------------------
(* Properties *)

\* The main screen belongs to a user with an account, and with a record too unless
\* that user's own sign up ended between the two: createUser took effect and its
\* answer was an error or never came, the write was refused, or the process died
\* holding the record.  In every other order of attempts, answers, restarts and log
\* outs nobody has an account alone.
MainHasRecord ==
  /\ screen = "main" =>
       signedIn # Nil /\ signedIn \in accounts /\ signedIn \in records \cup halfMade
  /\ accounts \subseteq records \cup halfMade \cup writes

\* While a call is in flight nothing else can be started: the overlay is up and
\* no alert waits, so answers and taps never mix.
OneAttemptAtATime ==
  call # Nil => screen = "login" /\ Blocks(spinner) /\ alert = Nil /\ spinner.fades = 0

\* An attempt ends in front of the person: with the main screen or with an alert
\* over a screen that can be used, unless the process ends first.
AttemptReported ==
  [][call # Nil /\ call' = Nil =>
       screen' = "main" \/ (alert' # Nil /\ ~Blocks(spinner')) \/ Relaunch]_vars

\* With a connection every attempt ends.
AttemptEnds == []net => (call # Nil ~> call = Nil)

-----------------------------------------------------------------------------
(* What the messages say and the code does not do *)

\* ErrorDispatch.swift:30 "Oops, we couldn't create your account. Please try
\* again!": there is no account then.
NotCreated == alert = "userSerialization" => signedIn # tried

\* UserService.swift:74 "Set a new user in Firebase.": whoever uses the app has a
\* record.  A sign up that ended half-way cannot be repeated and can be logged in to.
UserIsSet == screen = "main" => signedIn \in records

\* ErrorDispatch.swift:26 "... Check your connection and try again.": the
\* screen can be used again.
CanTryAgain == alert = "noNetworkConnection" => ~Blocks(spinner)
=============================================================================
