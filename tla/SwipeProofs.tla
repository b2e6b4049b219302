---------------------------- MODULE SwipeProofs ----------------------------
(***************************************************************************)
(* For every catalogue, page size and bound: the main screen keeps its     *)
(* types, its deck and the controller agree on every index, one query runs *)
(* at a time, every swipe is handed to Firebase once and under its own     *)
(* pet, the deck is used as CardDeck describes it, and no pet is offered   *)
(* twice.                                                                  *)
(***************************************************************************)
EXTENDS SwipeSession, TLAPS, FiniteSetTheorems, SequenceTheorems

Shape == CallbacksInRange /\ OneQueryAtATime /\ QueryComplete /\ SessionShape
IndInv == TypeOK /\ Shape /\ SwipesHandedOver

-----------------------------------------------------------------------------
(* The overlay *)

\* A record keeps its type when a flag falls and the fades are counted.
LEMMA FadesType ==
  ASSUME NEW i \in Indicator, NEW n \in Nat
  PROVE  /\ [i EXCEPT !.attached = FALSE, !.fades = n] \in Indicator
         /\ [i EXCEPT !.opaque = FALSE, !.fades = n] \in Indicator
BY DEF Indicator

\* The overlay's operations keep its type.
LEMMA IndicatorType ==
  ASSUME NEW i \in Indicator
  PROVE  /\ Started(i) \in Indicator
         /\ Stopped(i) \in Indicator
         /\ i.fades > 0 => Faded(i) \in Indicator
<1>1. Started(i) \in Indicator
  BY DEF Indicator, Started
<1>2. i.fades \in Nat
  BY DEF Indicator
<1>3. i.fades + 1 \in Nat /\ (i.fades > 0 => i.fades - 1 \in Nat)
  BY <1>2
<1> QED
  BY <1>1, <1>3, FadesType DEF Stopped, Faded

\* The overlay that is not shown.
LEMMA IdleType == Idle \in Indicator
BY DEF Idle, Indicator

-----------------------------------------------------------------------------
(* The parts the handlers are made of *)

\* A call alone in flight, and its answer.
LEMMA OneCall ==
  ASSUME NEW s \in Steps
  PROVE  /\ NoCalls \in [Steps -> Nat] /\ Issued(NoCalls, s) \in [Steps -> Nat]
         /\ \A t \in Steps : NoCalls[t] = 0
         /\ Issued(NoCalls, s)[s] = 1
         /\ \A t \in Steps \ {s} : Issued(NoCalls, s)[t] = 0
BY DEF NoCalls, Issued

LEMMA AnsweredAlone ==
  ASSUME IndInv, NEW s \in Steps, inFlight[s] > 0
  PROVE  /\ Answered(s) = NoCalls
         /\ screen = "swipe" /\ wired = TRUE /\ cur = count
         /\ flying = Nil /\ locationView = FALSE
<1>1. inFlight[s] = 1 /\ \A t \in Steps \ {s} : inFlight[t] = 0
  BY DEF IndInv, Shape, OneQueryAtATime
<1>2. inFlight \in [Steps -> Nat] /\ locationView \in BOOLEAN /\ wired \in BOOLEAN
  BY DEF IndInv, TypeOK, ServiceType, ScreenType
<1>3. Answered(s) = NoCalls
  <2>1. Answered(s) = [t \in Steps |-> IF t = s THEN inFlight[s] - 1 ELSE inFlight[t]]
    BY <1>2 DEF Answered
  <2>2. \A t \in Steps : (IF t = s THEN inFlight[s] - 1 ELSE inFlight[t]) = 0
    BY <1>1
  <2> QED
    BY <2>1, <2>2 DEF NoCalls
<1>4. screen = "swipe" /\ wired /\ cur = count
  BY DEF IndInv, Shape, OneQueryAtATime
<1>5. flying = Nil
  BY <1>4 DEF IndInv, Shape, CallbacksInRange, TypeOK, DeckType
<1>6. inFlight # NoCalls
  BY OneCall
<1>7. locationView = FALSE
  BY <1>2, <1>6 DEF IndInv, Shape, SessionShape
<1> QED
  BY <1>2, <1>3, <1>4, <1>5, <1>7

\* Cards to swipe exclude every call.
LEMMA NoCallWithCards ==
  ASSUME IndInv, cur < count
  PROVE  inFlight = NoCalls
<1>1. cur \in Nat /\ count \in Nat /\ inFlight \in [Steps -> Nat]
  BY DEF IndInv, TypeOK, DeckType, ServiceType
<1>2. \A s \in Steps : ~(inFlight[s] > 0)
  BY <1>1 DEF IndInv, Shape, OneQueryAtATime
<1>3. \A s \in Steps : inFlight[s] = 0
  BY <1>1, <1>2
<1> QED
  BY <1>1, <1>3 DEF NoCalls

LEMMA NoCallsAlone == ASSUME inFlight' = NoCalls PROVE OneQueryAtATime'
BY OneCall DEF OneQueryAtATime

LEMMA OneCallAlone ==
  ASSUME NEW s \in Steps, inFlight' = Issued(NoCalls, s),
         screen' = "swipe", wired' = TRUE, cur' = count'
  PROVE  OneQueryAtATime'
BY OneCall DEF OneQueryAtATime

\* A listing of pets is a sequence of them.
LEMMA ListingType ==
  ASSUME NEW S \in SUBSET Pets, NEW batch \in Listing(S)
  PROVE  batch \in Seq(Pets)
<1>1. IsFiniteSet(Pets)
  BY SizeAssumption, FS_Interval DEF Pets
<1>2. Cardinality(S) \in Nat
  BY <1>1, FS_Subset, FS_CardinalityType
<1>3. batch \in [1..Cardinality(S) -> S]
  BY DEF Listing
<1> QED
  BY <1>2, <1>3

\* The invariant speaks of these variables only, so a step that leaves them
\* alone keeps it.
shapeVars == <<screen, wired, inFlight, location, hasUser, lastOffset,
               locationView, list, currentIndex, count, cur, flying, gestures>>

LEMMA ShapeUnchanged ==
  ASSUME Shape, UNCHANGED shapeVars
  PROVE  Shape'
BY DEF Shape, shapeVars, CallbacksInRange, OneQueryAtATime, QueryComplete,
       SessionShape, NoCalls

LEMMA HandedUnchanged ==
  ASSUME SwipesHandedOver,
         UNCHANGED <<saved, rejected, pending, list, cur, flying, gestures, submitted, refused>>
  PROVE  SwipesHandedOver'
BY DEF SwipesHandedOver, SwipesReported, Stored

\* A blank session: no deck, and at most the first call of the chain.
LEMMA Blank ==
  ASSUME BlankSession,
         inFlight' = NoCalls \/ (inFlight' = Issued(NoCalls, "auth") /\ screen' = "swipe" /\ wired' = TRUE)
  PROVE  /\ DeckType' /\ Shape' /\ SwipesHandedOver'
         /\ asked' = 0 /\ round' = 0 /\ location' = FALSE /\ hasUser' = FALSE
         /\ ids' = {} /\ lastOffset' = Nil /\ inFlight' \in [Steps -> Nat]
         /\ locationView' = FALSE /\ errorView' = FALSE /\ hidden' = FALSE
<1>1. /\ list' = <<>> /\ currentIndex' = Nil /\ count' = 0 /\ cur' = 0
      /\ flying' = Nil /\ gestures' = <<>> /\ locationView' = FALSE
      /\ submitted' = <<>> /\ refused' = {}
  BY DEF BlankSession
<1>2. "auth" \in Steps
  BY DEF Steps
<1>3. DeckType'
  <2>1. <<>> \in Seq(Pets) /\ <<>> \in Seq(Directions) /\ <<>> \in Seq(Writes)
    OBVIOUS
  <2> QED
    BY <1>1, <2>1 DEF DeckType
<1>4. CallbacksInRange'
  BY <1>1 DEF CallbacksInRange
<1>5. OneQueryAtATime'
  BY <1>1, <1>2, NoCallsAlone, OneCallAlone
<1>6. QueryComplete'
  BY <1>1, <1>2, OneCall DEF QueryComplete, Steps
<1>7. SessionShape'
  <2>1. Issued(NoCalls, "auth")["auth"] = 1 /\ NoCalls["auth"] = 0
    BY <1>2, OneCall
  <2> QED
    BY <1>1, <2>1 DEF SessionShape
<1>8. SwipesHandedOver'
  <2>1. SwipesReported' = 0
    BY <1>1 DEF SwipesReported
  <2>2. [i \in 1..SwipesReported |-> <<gestures[i], list[i]>>]' = <<>>
    BY <2>1
  <2> QED
    BY <1>1, <2>1, <2>2 DEF SwipesHandedOver
<1>9. inFlight' \in [Steps -> Nat]
  BY <1>2, OneCall
<1> QED
  BY <1>3, <1>4, <1>5, <1>6, <1>7, <1>8, <1>9 DEF BlankSession, Shape

LEMMA BlankService ==
  ASSUME BlankSession, inFlight' \in [Steps -> Nat], granted' \in Permissions,
         wired' \in BOOLEAN
  PROVE  ServiceType'
<1>1. /\ asked' = 0 /\ round' = 0 /\ location' = FALSE /\ hasUser' = FALSE
      /\ ids' = {} /\ lastOffset' = Nil
  BY DEF BlankSession
<1> QED
  BY <1>1 DEF ServiceType

LEMMA EndSessionInd ==
  ASSUME IndInv, EndSession, DeviceType', screen' \in {"launch", "login", "swipe"},
         spinner' \in Indicator
  PROVE  IndInv'
<1>1. BlankSession /\ inFlight' = NoCalls /\ granted' = "notDetermined" /\ wired' = FALSE
  BY DEF EndSession
<1>2. ServiceType'
  <2>1. "notDetermined" \in Permissions
    BY DEF Permissions
  <2> QED
    BY <1>1, <2>1, Blank, BlankService
<1>3. ScreenType'
  BY <1>1, Blank DEF ScreenType
<1> QED
  BY <1>1, <1>2, <1>3, Blank DEF IndInv, TypeOK

LEMMA BeginSessionInd ==
  ASSUME IndInv, NEW sp \in Indicator, BeginSession(sp), DeviceType'
  PROVE  IndInv'
<1>1. /\ BlankSession /\ screen' = "swipe"
      /\ inFlight' = IF net THEN Issued(NoCalls, "auth") ELSE NoCalls
      /\ granted' = IF net THEN permission ELSE granted
      /\ spinner' = IF net THEN Started(sp) ELSE sp
      /\ wired' = (FALSE \/ net)
  BY DEF BeginSession, InitializeQuery
<1>2. net \in BOOLEAN /\ permission \in Permissions /\ granted \in Permissions
  BY DEF IndInv, TypeOK, DeviceType, ServiceType
<1>3. inFlight' = NoCalls \/ (inFlight' = Issued(NoCalls, "auth") /\ screen' = "swipe" /\ wired' = TRUE)
  BY <1>1, <1>2
<1>4. spinner' \in Indicator /\ granted' \in Permissions /\ wired' \in BOOLEAN
  BY <1>1, <1>2, IndicatorType
<1>5. ServiceType'
  BY <1>1, <1>3, <1>4, BlankService, Blank
<1>6. ScreenType'
  BY <1>1, <1>3, <1>4, Blank DEF ScreenType
<1> QED
  BY <1>1, <1>3, <1>5, <1>6, Blank DEF IndInv, TypeOK

-----------------------------------------------------------------------------
(* The screens *)

LEMMA LaunchInd == ASSUME IndInv, Launch PROVE IndInv'
<1>1. DeviceType' /\ spinner \in Indicator
  BY DEF IndInv, TypeOK, DeviceType, ScreenType, Launch, deviceVars, backendVars
<1>2. CASE signedIn
  BY <1>1, <1>2, BeginSessionInd DEF Launch
<1>3. CASE ~signedIn
  <2>1. /\ screen' = "login" /\ screen = "launch"
        /\ UNCHANGED <<spinner, wired, serviceVars, callVars, deckVars, viewVars, backendVars>>
    BY <1>3 DEF Launch
  <2>2. cur = count /\ inFlight = NoCalls /\ locationView = FALSE
    <3>1. cur \in Nat /\ count \in Nat /\ cur <= count /\ locationView \in BOOLEAN
      BY DEF IndInv, TypeOK, DeckType, Shape, CallbacksInRange, ScreenType
    <3>2. ~(cur < count) /\ ~locationView
      BY <2>1 DEF IndInv, Shape, SessionShape
    <3>3. inFlight \in [Steps -> Nat] /\ \A s \in Steps : ~(inFlight[s] > 0)
      BY <2>1 DEF IndInv, TypeOK, ServiceType, Shape, OneQueryAtATime
    <3>4. \A s \in Steps : inFlight[s] = 0
      BY <3>3
    <3> QED
      BY <3>1, <3>2, <3>3, <3>4 DEF NoCalls
  <2>3. ServiceType' /\ DeckType'
    BY <2>1 DEF IndInv, TypeOK, ServiceType, DeckType, serviceVars, callVars, deckVars
  <2>4. ScreenType'
    BY <2>1 DEF IndInv, TypeOK, ScreenType, viewVars
  <2>5. CallbacksInRange'
    BY <2>1 DEF IndInv, Shape, CallbacksInRange, deckVars
  <2>6. OneQueryAtATime'
    BY <2>1, <2>2, NoCallsAlone DEF callVars
  <2>7. QueryComplete'
    BY <2>1 DEF IndInv, Shape, QueryComplete, deckVars, serviceVars, callVars
  <2>8. SessionShape'
    <3>1. /\ cur' = count' /\ inFlight' = NoCalls /\ locationView' = FALSE /\ wired' = wired
          /\ count' = count /\ cur' = cur /\ cur \in Nat /\ count \in Nat
      BY <2>1, <2>2 DEF IndInv, TypeOK, DeckType, deckVars, callVars, viewVars
    <3>2. ~(cur' < count')
      BY <3>1
    <3> QED
      BY <3>1, <3>2 DEF IndInv, Shape, SessionShape
  <2>9. SwipesHandedOver'
    BY <2>1, HandedUnchanged DEF IndInv, deckVars, backendVars
  <2> QED
    BY <1>1, <2>3, <2>4, <2>5, <2>6, <2>7, <2>8, <2>9 DEF IndInv, TypeOK, Shape
<1> QED
  BY <1>2, <1>3

LEMMA LogInInd == ASSUME IndInv, LogIn PROVE IndInv'
<1>1. DeviceType' /\ spinner \in Indicator
  BY DEF IndInv, TypeOK, DeviceType, ScreenType, LogIn, backendVars
<1>2. Started(spinner) \in Indicator
  BY <1>1, IndicatorType
<1> QED
  BY <1>1, <1>2, BeginSessionInd DEF LogIn

LEMMA RelaunchInd == ASSUME IndInv, Relaunch PROVE IndInv'
<1>1. DeviceType'
  BY DEF IndInv, TypeOK, DeviceType, Relaunch, deviceVars
<1>2. spinner' \in Indicator
  BY IdleType DEF Relaunch
<1> QED
  BY <1>1, <1>2, EndSessionInd DEF Relaunch

-----------------------------------------------------------------------------
(* The calls of a query *)

sessionVars == <<screen, wired, list, currentIndex, count, cur, flying, gestures>>

\* The answer that ends a query.
LEMMA LastCall ==
  ASSUME IndInv, NEW s \in Steps, inFlight[s] > 0, inFlight' = Answered(s),
         UNCHANGED sessionVars
  PROVE  Shape' /\ inFlight' \in [Steps -> Nat]
<1>1. /\ inFlight' = NoCalls /\ inFlight' \in [Steps -> Nat]
      /\ screen' = "swipe" /\ wired' = TRUE /\ cur' = count'
  BY AnsweredAlone, OneCall DEF sessionVars
<1>2. cur' \in Nat /\ count' \in Nat
  BY DEF sessionVars, IndInv, TypeOK, DeckType
<1>3. CallbacksInRange'
  BY DEF IndInv, Shape, CallbacksInRange, sessionVars
<1>4. OneQueryAtATime'
  BY <1>1, NoCallsAlone
<1>5. QueryComplete'
  BY <1>1, <1>2, OneCall DEF QueryComplete, Steps
<1>6. SessionShape'
  BY <1>1, <1>2 DEF SessionShape
<1> QED
  BY <1>1, <1>3, <1>4, <1>5, <1>6 DEF Shape

\* The answer that issues the next call, whose parameters are there.
LEMMA NextCall ==
  ASSUME IndInv, NEW s \in Steps, inFlight[s] > 0,
         NEW t \in Steps, inFlight' = Issued(Answered(s), t),
         UNCHANGED <<sessionVars, locationView>>,
         t = "user" => location', t = "pets" => location' /\ hasUser'
  PROVE  Shape' /\ inFlight' \in [Steps -> Nat]
<1>1. /\ inFlight' = Issued(NoCalls, t) /\ inFlight' \in [Steps -> Nat]
      /\ screen' = "swipe" /\ wired' = TRUE /\ cur' = count' /\ locationView' = FALSE
  BY AnsweredAlone, OneCall DEF sessionVars
<1>2. cur' \in Nat /\ count' \in Nat /\ \A u \in Steps \ {t} : inFlight'[u] = 0
  BY <1>1, OneCall DEF sessionVars, IndInv, TypeOK, DeckType
<1>3. CallbacksInRange'
  BY DEF IndInv, Shape, CallbacksInRange, sessionVars
<1>4. OneQueryAtATime'
  BY <1>1, OneCallAlone
<1>5. QueryComplete'
  BY <1>1, <1>2 DEF QueryComplete, Steps
<1>6. SessionShape'
  BY <1>1, <1>2 DEF SessionShape
<1> QED
  BY <1>1, <1>3, <1>4, <1>5, <1>6 DEF Shape

\* didFailWith keeps the types of the screen.
LEMMA FailType ==
  ASSUME ScreenType, NEW sp \in Indicator, Fail(sp), screen' = screen
  PROVE  ScreenType' /\ locationView' = FALSE
<1>1. /\ spinner' \in Indicator /\ locationView' = FALSE /\ errorView' = TRUE
      /\ hidden' = TRUE
  BY IndicatorType DEF Fail
<1> QED
  BY <1>1 DEF ScreenType

LEMMA AuthInd == ASSUME IndInv, AuthAnswer PROVE IndInv'
<1>1. /\ "auth" \in Steps /\ "geo" \in Steps /\ inFlight["auth"] > 0
      /\ granted' = "notDetermined" /\ "notDetermined" \in Permissions
      /\ UNCHANGED <<deviceVars, backendVars, screen, wired, asked, round, serviceVars, deckVars>>
  BY DEF AuthAnswer, Steps, Permissions
<1>2. UNCHANGED sessionVars
  BY <1>1 DEF sessionVars, deckVars
<1>3. DeviceType' /\ DeckType' /\ SwipesHandedOver'
  BY <1>1, HandedUnchanged
  DEF IndInv, TypeOK, DeviceType, DeckType, deviceVars, backendVars, deckVars
<1>4. inFlight' \in [Steps -> Nat] => ServiceType'
  BY <1>1 DEF IndInv, TypeOK, ServiceType, serviceVars
<1>5. ScreenType /\ spinner \in Indicator /\ screen' = screen
  BY <1>1 DEF IndInv, TypeOK, ScreenType
<1>6. CASE granted = "whenInUse"
  <2>1. inFlight' = Issued(Answered("auth"), "geo") /\ UNCHANGED <<spinner, viewVars>>
    BY <1>6 DEF AuthAnswer
  <2>2. Shape' /\ inFlight' \in [Steps -> Nat]
    BY <1>1, <1>2, <2>1, NextCall DEF viewVars
  <2>3. ScreenType'
    BY <1>5, <2>1 DEF ScreenType, viewVars
  <2> QED
    BY <1>3, <1>4, <2>2, <2>3 DEF IndInv, TypeOK
<1>7. CASE granted = "denied"
  <2>1. /\ inFlight' = Answered("auth") /\ spinner' = Stopped(spinner)
        /\ locationView' = TRUE /\ errorView' = FALSE /\ hidden' = TRUE
    BY <1>7 DEF AuthAnswer
  <2>2. Shape' /\ inFlight' \in [Steps -> Nat]
    BY <1>1, <1>2, <2>1, LastCall
  <2>3. spinner' \in Indicator
    BY <1>5, <2>1, IndicatorType
  <2>4. ScreenType'
    BY <1>5, <2>1, <2>3 DEF ScreenType
  <2> QED
    BY <1>3, <1>4, <2>2, <2>4 DEF IndInv, TypeOK
<1>8. CASE granted # "whenInUse" /\ granted # "denied"
  <2>1. inFlight' = Answered("auth") /\ Fail(spinner)
    BY <1>8 DEF AuthAnswer
  <2>2. Shape' /\ inFlight' \in [Steps -> Nat]
    BY <1>1, <1>2, <2>1, LastCall
  <2>3. ScreenType'
    BY <1>5, <2>1, FailType
  <2> QED
    BY <1>3, <1>4, <2>2, <2>3 DEF IndInv, TypeOK
<1> QED
  BY <1>6, <1>7, <1>8

LEMMA GeoInd == ASSUME IndInv, GeoAnswer PROVE IndInv'
<1>1. /\ "geo" \in Steps /\ "user" \in Steps /\ inFlight["geo"] > 0 /\ location' = TRUE
      /\ UNCHANGED <<deviceVars, backendVars, screen, wired, granted, asked, round,
                     hasUser, ids, lastOffset, deckVars>>
  BY DEF GeoAnswer, Steps
<1>2. UNCHANGED sessionVars
  BY <1>1 DEF sessionVars, deckVars
<1>3. DeviceType' /\ DeckType' /\ SwipesHandedOver'
  BY <1>1, HandedUnchanged
  DEF IndInv, TypeOK, DeviceType, DeckType, deviceVars, backendVars, deckVars
<1>4. inFlight' \in [Steps -> Nat] => ServiceType'
  BY <1>1 DEF IndInv, TypeOK, ServiceType
<1>5. ScreenType /\ spinner \in Indicator /\ screen' = screen
  BY <1>1 DEF IndInv, TypeOK, ScreenType
<1>6. CASE signedIn
  <2>1. inFlight' = Issued(Answered("geo"), "user") /\ UNCHANGED <<spinner, viewVars>>
    BY <1>6 DEF GeoAnswer
  <2>2. Shape' /\ inFlight' \in [Steps -> Nat]
    BY <1>1, <1>2, <2>1, NextCall DEF viewVars
  <2>3. ScreenType'
    BY <1>5, <2>1 DEF ScreenType, viewVars
  <2> QED
    BY <1>3, <1>4, <2>2, <2>3 DEF IndInv, TypeOK
<1>7. CASE ~signedIn
  <2>1. inFlight' = Answered("geo") /\ Fail(spinner)
    BY <1>7 DEF GeoAnswer
  <2>2. ScreenType' /\ locationView' = FALSE
    BY <1>5, <2>1, FailType
  <2>3. Shape' /\ inFlight' \in [Steps -> Nat]
    BY <1>1, <1>2, <2>1, LastCall
  <2> QED
    BY <1>3, <1>4, <2>2, <2>3 DEF IndInv, TypeOK
<1> QED
  BY <1>6, <1>7

LEMMA UserInd == ASSUME IndInv, UserAnswer PROVE IndInv'
<1>1. /\ "user" \in Steps /\ "pets" \in Steps /\ inFlight["user"] > 0
      /\ hasUser' = TRUE /\ ids' = Recorded
      /\ UNCHANGED <<deviceVars, backendVars, screen, spinner, wired, granted, round,
                     location, lastOffset, deckVars, viewVars>>
  BY DEF UserAnswer, Steps
<1>2. location = TRUE
  BY <1>1 DEF IndInv, Shape, QueryComplete, TypeOK, ServiceType
<1>3. inFlight' = Issued(Answered("user"), "pets") /\ asked' = 0
  BY <1>2 DEF UserAnswer
<1>4. DeviceType' /\ DeckType' /\ SwipesHandedOver'
  BY <1>1, HandedUnchanged
  DEF IndInv, TypeOK, DeviceType, DeckType, deviceVars, backendVars, deckVars
<1>5. ScreenType'
  BY <1>1 DEF IndInv, TypeOK, ScreenType, viewVars
<1>6. Recorded \subseteq Pets
  <2>1. saved \subseteq Pets /\ rejected \subseteq Pets
    BY DEF IndInv, TypeOK, DeviceType
  <2>2. pending \subseteq Directions \X Pets
    BY DEF IndInv, TypeOK, DeviceType, Writes
  <2> QED
    BY <2>1, <2>2 DEF Recorded
<1>7. UNCHANGED <<sessionVars, locationView>>
  BY <1>1 DEF sessionVars, deckVars, viewVars
<1>8. Shape' /\ inFlight' \in [Steps -> Nat]
  BY <1>1, <1>2, <1>3, <1>7, NextCall
<1>9. ServiceType'
  BY <1>1, <1>3, <1>6, <1>8 DEF IndInv, TypeOK, ServiceType
<1> QED
  BY <1>4, <1>5, <1>8, <1>9 DEF IndInv, TypeOK

LEMMA StepFailsInd == ASSUME IndInv, NEW s \in Steps, StepFails(s) PROVE IndInv'
<1>1. /\ inFlight[s] > 0 /\ inFlight' = Answered(s) /\ Fail(spinner)
      /\ UNCHANGED <<deviceVars, backendVars, screen, wired, granted, asked, round,
                     serviceVars, deckVars>>
  BY DEF StepFails
<1>2. UNCHANGED sessionVars
  BY <1>1 DEF sessionVars, deckVars
<1>3. DeviceType' /\ DeckType' /\ SwipesHandedOver'
  BY <1>1, HandedUnchanged
  DEF IndInv, TypeOK, DeviceType, DeckType, deviceVars, backendVars, deckVars
<1>4. ScreenType /\ spinner \in Indicator /\ screen' = screen
  BY <1>1 DEF IndInv, TypeOK, ScreenType
<1>5. ScreenType'
  BY <1>1, <1>4, FailType
<1>6. Shape' /\ inFlight' \in [Steps -> Nat]
  BY <1>1, <1>2, LastCall
<1>7. ServiceType'
  BY <1>1, <1>6 DEF IndInv, TypeOK, ServiceType, serviceVars
<1> QED
  BY <1>3, <1>5, <1>6, <1>7 DEF IndInv, TypeOK

\* A page that adds cards.
LEMMA ShowInd ==
  ASSUME IndInv, inFlight["pets"] > 0, NEW batch \in Seq(Pets), batch # <<>>,
         inFlight' = Answered("pets"), Show(batch), lastOffset' \in Nat,
         UNCHANGED <<asked, round, net, permission, signedIn, backendVars, screen,
                     wired, granted, location, hasUser, ids>>
  PROVE  faults' \in 0..MaxFaults => IndInv'
<1>1. /\ locationView' = FALSE /\ errorView' = FALSE /\ spinner' = Stopped(spinner)
      /\ list' = list \o batch /\ count' = Len(list')
      /\ currentIndex' = IF cur < count' /\ (cur = 0 \/ cur >= count)
                           THEN cur ELSE currentIndex
      /\ UNCHANGED <<hidden, cur, flying, gestures, submitted, refused>>
  BY DEF Show, Reload
<1>2. /\ "pets" \in Steps /\ inFlight' = NoCalls /\ inFlight' \in [Steps -> Nat]
      /\ screen = "swipe" /\ wired = TRUE /\ cur = count /\ flying = Nil
  BY AnsweredAlone, OneCall DEF Steps
<1>3. hasUser = TRUE /\ location = TRUE
  BY DEF IndInv, Shape, QueryComplete, TypeOK, ServiceType
<1>4. /\ list \in Seq(Pets) /\ gestures \in Seq(Directions)
      /\ count \in Nat /\ cur \in Nat /\ count = Len(list) /\ Len(gestures) = cur
  BY DEF IndInv, TypeOK, DeckType, Shape, CallbacksInRange
<1>5. /\ list' \in Seq(Pets) /\ Len(list') = Len(list) + Len(batch) /\ Len(batch) > 0
      /\ Len(batch) \in Nat /\ \A i \in 1..Len(list) : list'[i] = list[i]
  <2>1. Len(list) \in Nat /\ Len(batch) \in Nat /\ Len(batch) > 0
    BY <1>4, EmptySeq, LenProperties
  <2> QED
    BY <1>1, <1>4, <2>1, ConcatProperties
<1>6. count' \in Nat /\ cur < count' /\ currentIndex' = cur
  BY <1>1, <1>2, <1>4, <1>5
<1>7. CallbacksInRange'
  BY <1>1, <1>2, <1>4, <1>5, <1>6 DEF CallbacksInRange
<1>8. DeckType'
  BY <1>1, <1>2, <1>4, <1>5, <1>6 DEF IndInv, TypeOK, DeckType
<1>9. OneQueryAtATime'
  BY <1>2, NoCallsAlone
<1>10. lastOffset' # Nil
  BY NilAssumption
<1>11. QueryComplete'
  BY <1>2, <1>3, <1>10, OneCall DEF QueryComplete, Steps
<1>12. SessionShape'
  BY <1>1, <1>2 DEF SessionShape
<1>13. SwipesHandedOver'
  <2>1. SwipesReported = cur /\ SwipesReported' = cur
    BY <1>1, <1>2 DEF SwipesReported
  <2>2. \A i \in 1..cur : list'[i] = list[i]
    BY <1>2, <1>4, <1>5
  <2>3. [i \in 1..SwipesReported |-> <<gestures[i], list[i]>>]' = [i \in 1..SwipesReported |-> <<gestures[i], list[i]>>]
    BY <1>1, <2>1, <2>2
  <2>4. Stored' = Stored /\ UNCHANGED <<pending, refused, submitted, gestures, flying, cur>>
    BY <1>1 DEF backendVars, Stored
  <2> QED
    BY <1>1, <1>2, <2>1, <2>3, <2>4 DEF IndInv, SwipesHandedOver
<1>14. spinner' \in Indicator
  BY <1>1, IndicatorType DEF IndInv, TypeOK, ScreenType
<1>15. ScreenType'
  BY <1>1, <1>14 DEF IndInv, TypeOK, ScreenType
<1>16. ServiceType'
  BY <1>2 DEF IndInv, TypeOK, ServiceType
<1>17. faults' \in 0..MaxFaults => DeviceType'
  BY DEF IndInv, TypeOK, DeviceType, backendVars
<1> QED
  BY <1>7, <1>8, <1>9, <1>11, <1>12, <1>13, <1>15, <1>16, <1>17
  DEF IndInv, TypeOK, Shape

\* Once cards are there, or a page is expected, nothing is missing to repeat the
\* query; a repeated query is the next call, or none without a connection.
LEMMA RepeatCases ==
  ASSUME NEW calls, NEW sp, NEW offset \in Nat, location = TRUE,
         RepeatQuery(calls, sp, offset)
  PROVE  /\ spinner' = sp /\ UNCHANGED viewVars
         /\ net => inFlight' = Issued(calls, "pets") /\ asked' = offset /\ round' = 1 - round
         /\ ~net => inFlight' = calls /\ UNCHANGED <<asked, round>>
<1>1. offset # Nil
  BY NilAssumption
<1> QED
  BY <1>1 DEF RepeatQuery

LEMMA DeliverInd ==
  ASSUME IndInv, NEW pets \in SUBSET Pets, NEW offset \in Nat,
         Deliver(pets, offset), faults' \in 0..MaxFaults
  PROVE  IndInv'
<1>1. /\ "pets" \in Steps /\ inFlight["pets"] > 0 /\ lastOffset' = offset
      /\ UNCHANGED <<net, permission, signedIn, backendVars, screen, wired, granted,
                     location, hasUser, ids>>
  BY DEF Deliver, Steps
<1>2. hasUser = TRUE /\ location = TRUE
  BY <1>1 DEF IndInv, Shape, QueryComplete, TypeOK, ServiceType
<1>3. PICK batch \in Listing(pets \ ids) :
        IF batch = <<>>
          THEN RepeatQuery(Answered("pets"), spinner, offset) /\ UNCHANGED deckVars
          ELSE inFlight' = Answered("pets") /\ Show(batch) /\ UNCHANGED <<asked, round>>
  BY <1>2 DEF Deliver
<1>4. batch \in Seq(Pets)
  BY ListingType
<1>5. CASE batch # <<>>
  BY <1>1, <1>3, <1>4, <1>5, ShowInd
<1>6. CASE batch = <<>>
  <2>1. RepeatQuery(Answered("pets"), spinner, offset) /\ UNCHANGED deckVars
    BY <1>3, <1>6
  <2>2. /\ spinner' = spinner /\ UNCHANGED viewVars
        /\ net => inFlight' = Issued(Answered("pets"), "pets") /\ asked' = offset /\ round' = 1 - round
        /\ ~net => inFlight' = Answered("pets") /\ UNCHANGED <<asked, round>>
    BY <1>2, <2>1, RepeatCases
  <2>3. UNCHANGED sessionVars /\ UNCHANGED <<sessionVars, locationView>>
    BY <1>1, <2>1, <2>2 DEF sessionVars, deckVars, viewVars
  <2>4. Shape' /\ inFlight' \in [Steps -> Nat]
    <3>1. CASE net
      BY <1>1, <1>2, <2>2, <2>3, <3>1, NextCall
    <3>2. CASE ~net
      BY <1>1, <2>2, <2>3, <3>2, LastCall
    <3> QED
      BY <3>1, <3>2
  <2>5. asked' \in Nat /\ round' \in {0, 1}
    BY <2>2 DEF IndInv, TypeOK, DeviceType, ServiceType
  <2>6. ServiceType'
    BY <1>1, <2>4, <2>5 DEF IndInv, TypeOK, ServiceType
  <2>7. DeviceType'
    BY <1>1 DEF IndInv, TypeOK, DeviceType, backendVars
  <2>8. DeckType' /\ SwipesHandedOver'
    BY <1>1, <2>1, HandedUnchanged DEF IndInv, TypeOK, DeckType, backendVars, deckVars
  <2>9. ScreenType'
    BY <1>1, <2>2 DEF IndInv, TypeOK, ScreenType, viewVars
  <2> QED
    BY <2>4, <2>6, <2>7, <2>8, <2>9 DEF IndInv, TypeOK
<1> QED
  BY <1>5, <1>6

LEMMA PageInd == ASSUME IndInv, PageAnswer PROVE IndInv'
<1>1. faults' = faults
  BY DEF PageAnswer
<1>2. PICK pets \in SUBSET Pets : Deliver(pets, NextOffset(asked))
  BY DEF PageAnswer, Page
<1>3. NextOffset(asked) \in Nat
  BY SizeAssumption, BatchAssumption DEF NextOffset, IndInv, TypeOK, ServiceType
<1>4. faults' \in 0..MaxFaults
  BY <1>1 DEF IndInv, TypeOK, DeviceType
<1> QED
  BY <1>1, <1>2, <1>3, <1>4, DeliverInd

LEMMA BadInd == ASSUME IndInv, BadAnswer PROVE IndInv'
<1>1. PICK pets \in {Page(asked) \cap Decodable, {}} : Deliver(pets, 0)
  BY DEF BadAnswer
<1>2. pets \in SUBSET Pets
  BY DEF Page
<1>3. faults' \in 0..MaxFaults
  BY BoundAssumption DEF BadAnswer, IndInv, TypeOK, DeviceType
<1> QED
  BY <1>1, <1>2, <1>3, DeliverInd

-----------------------------------------------------------------------------
(* The deck *)

\* One more swipe is handed over.
LEMMA HandOver ==
  ASSUME SwipesHandedOver, submitted \in Seq(Writes), NEW d \in Directions,
         NEW n \in Nat, SwipesReported = n, SwipesReported' = n + 1,
         list' = list, list[n + 1] \in Pets,
         \A i \in 1..n : gestures'[i] = gestures[i], gestures'[n + 1] = d,
         submitted' = Append(submitted, <<d, list[n + 1]>>),
         pending' = pending \cup {<<d, list[n + 1]>>},
         Stored' = Stored, refused' = refused, flying' = Nil
  PROVE  SwipesHandedOver' /\ submitted' \in Seq(Writes)
<1> DEFINE more == [i \in 1..n + 1 |-> <<gestures'[i], list[i]>>]
<1>1. submitted = [i \in 1..n |-> <<gestures[i], list[i]>>]
  BY DEF SwipesHandedOver
<1>2. Len(submitted) = n
  <2>1. DOMAIN submitted = 1..n
    BY <1>1
  <2> QED
    BY <2>1, LenProperties
<1>3. <<d, list[n + 1]>> \in Writes
  BY DEF Writes
<1>4. /\ submitted' \in Seq(Writes) /\ Len(submitted') = n + 1
      /\ \A i \in 1..n : submitted'[i] = submitted[i]
      /\ submitted'[n + 1] = <<d, list[n + 1]>>
  BY <1>2, <1>3, AppendProperties
<1>5. \A i \in 1..n + 1 : i \in 1..n \/ i = n + 1
  OBVIOUS
<1>6. \A i \in 1..n + 1 : submitted'[i] = <<gestures'[i], list[i]>>
  BY <1>1, <1>4, <1>5
<1>7. submitted' = more
  <2>1. DOMAIN submitted' = 1..n + 1 /\ submitted' = [i \in DOMAIN submitted' |-> submitted'[i]]
    BY <1>4, LenProperties
  <2> QED
    BY <1>6, <2>1
<1>8. \A i \in 1..n + 1 : submitted'[i] \in Stored' \cup pending' \cup refused'
  <2>1. \A i \in 1..n : submitted[i] \in Stored \cup pending \cup refused
    BY DEF SwipesHandedOver
  <2> QED
    BY <1>4, <1>5, <2>1
<1> QED
  BY <1>4, <1>7, <1>8 DEF SwipesHandedOver

\* A card that leaves the deck while others remain.
LEMMA SwipeOneInd ==
  ASSUME IndInv, NEW d \in Directions, Swipe(d), cur + 1 < count
  PROVE  IndInv'
<1>1. /\ flying = Nil /\ cur < count /\ cur' = cur + 1 /\ flying' = d
      /\ gestures' = Append(gestures, d)
      /\ UNCHANGED <<pending, submitted, refused, spinner, inFlight, asked, round, viewVars,
                     deviceVars, saved, rejected, screen, wired, granted, serviceVars,
                     list, currentIndex, count>>
  BY DEF Swipe
<1>2. /\ list \in Seq(Pets) /\ gestures \in Seq(Directions)
      /\ count \in Nat /\ cur \in Nat /\ count = Len(list) /\ Len(gestures) = cur
      /\ currentIndex = cur /\ cur' \in Nat
  BY <1>1 DEF IndInv, TypeOK, DeckType, Shape, CallbacksInRange
<1>3. inFlight = NoCalls /\ d # Nil
  BY <1>1, NoCallWithCards, NilAssumption
<1>4. /\ gestures' \in Seq(Directions) /\ Len(gestures') = cur + 1
      /\ gestures'[cur + 1] = d /\ \A i \in 1..cur : gestures'[i] = gestures[i]
  BY <1>1, <1>2, AppendProperties
<1>5. DeviceType'
  BY <1>1 DEF IndInv, TypeOK, DeviceType, deviceVars
<1>6. ServiceType'
  BY <1>1 DEF IndInv, TypeOK, ServiceType, serviceVars
<1>7. DeckType'
  BY <1>1, <1>2, <1>4 DEF IndInv, TypeOK, DeckType
<1>8. ScreenType'
  BY <1>1 DEF IndInv, TypeOK, ScreenType, viewVars
<1>9. CallbacksInRange'
  BY <1>1, <1>2, <1>3, <1>4 DEF CallbacksInRange
<1>10. OneQueryAtATime'
  BY <1>1, <1>3, NoCallsAlone
<1>11. QueryComplete'
  BY <1>1 DEF IndInv, Shape, QueryComplete, serviceVars
<1>12. SessionShape'
  BY <1>1, <1>2 DEF IndInv, Shape, SessionShape, viewVars
<1>13. SwipesHandedOver'
  <2>1. SwipesReported = cur /\ SwipesReported' = cur
    BY <1>1, <1>2, <1>3 DEF SwipesReported
  <2>2. [i \in 1..SwipesReported |-> <<gestures[i], list[i]>>]' = [i \in 1..SwipesReported |-> <<gestures[i], list[i]>>]
    BY <1>1, <1>4, <2>1
  <2>3. Stored' = Stored
    BY <1>1 DEF Stored
  <2> QED
    BY <1>1, <1>4, <2>1, <2>2, <2>3 DEF IndInv, SwipesHandedOver
<1> QED
  BY <1>5, <1>6, <1>7, <1>8, <1>9, <1>10, <1>11, <1>12, <1>13 DEF IndInv, TypeOK, Shape

\* The last card: it is stored at once, and the next page is asked for.
LEMMA SwipeLastInd ==
  ASSUME IndInv, NEW d \in Directions, Swipe(d), ~(cur + 1 < count)
  PROVE  IndInv'
<1>1. /\ flying = Nil /\ cur < count /\ cur' = cur + 1 /\ flying' = flying
      /\ gestures' = Append(gestures, d)
      /\ Record(d, PetAt(cur))
      /\ RepeatQuery(inFlight, Started(spinner), lastOffset)
      /\ UNCHANGED <<deviceVars, saved, rejected, screen, wired, granted, serviceVars,
                     list, currentIndex, count, refused>>
  BY DEF Swipe
<1>2. /\ list \in Seq(Pets) /\ gestures \in Seq(Directions)
      /\ count \in Nat /\ cur \in Nat /\ count = Len(list) /\ Len(gestures) = cur
      /\ currentIndex = cur /\ cur' = count
  BY <1>1 DEF IndInv, TypeOK, DeckType, Shape, CallbacksInRange
<1>3. /\ hasUser = TRUE /\ location = TRUE /\ lastOffset \in Nat
      /\ screen = "swipe" /\ wired = TRUE /\ locationView = FALSE
  BY <1>1, <1>2
  DEF IndInv, Shape, QueryComplete, SessionShape, TypeOK, ServiceType, ScreenType
<1>4. inFlight = NoCalls /\ "pets" \in Steps
  BY <1>1, NoCallWithCards DEF Steps
<1>5. /\ gestures' \in Seq(Directions) /\ Len(gestures') = cur + 1
      /\ gestures'[cur + 1] = d /\ \A i \in 1..cur : gestures'[i] = gestures[i]
  BY <1>1, <1>2, AppendProperties
<1>6. /\ spinner' = Started(spinner) /\ UNCHANGED viewVars
      /\ net => inFlight' = Issued(NoCalls, "pets") /\ asked' = lastOffset /\ round' = 1 - round
      /\ ~net => inFlight' = NoCalls /\ UNCHANGED <<asked, round>>
  BY <1>1, <1>3, <1>4, RepeatCases
<1>7. list[cur + 1] \in Pets
  BY <1>1, <1>2, LenProperties
<1>8. /\ pending' = pending \cup {<<d, list[cur + 1]>>}
      /\ submitted' = Append(submitted, <<d, list[cur + 1]>>)
  BY <1>1, <1>3 DEF Record, PetAt
<1>20. SwipesHandedOver' /\ submitted' \in Seq(Writes)
  <2>1. SwipesReported = cur /\ SwipesReported' = cur + 1 /\ flying' = Nil
    BY <1>1 DEF SwipesReported
  <2>2. list' = list /\ Stored' = Stored /\ refused' = refused
    BY <1>1 DEF Stored
  <2> QED
    BY <1>2, <1>5, <1>7, <1>8, <2>1, <2>2, HandOver DEF IndInv, TypeOK, DeckType
<1>9. DeviceType'
  <2>1. pending' \subseteq Writes
    BY <1>7, <1>8 DEF IndInv, TypeOK, DeviceType, Writes
  <2> QED
    BY <1>1, <2>1 DEF IndInv, TypeOK, DeviceType, deviceVars
<1>10. inFlight' \in [Steps -> Nat]
  BY <1>4, <1>6, OneCall
<1>11. ServiceType'
  <2>1. asked' \in Nat /\ round' \in {0, 1}
    BY <1>3, <1>6 DEF IndInv, TypeOK, ServiceType
  <2> QED
    BY <1>1, <1>10, <2>1 DEF IndInv, TypeOK, ServiceType, serviceVars
<1>12. DeckType'
  BY <1>1, <1>2, <1>5, <1>20 DEF IndInv, TypeOK, DeckType
<1>13. spinner' \in Indicator
  BY <1>6, IndicatorType DEF IndInv, TypeOK, ScreenType
<1>14. ScreenType'
  BY <1>1, <1>6, <1>13 DEF IndInv, TypeOK, ScreenType, viewVars
<1>15. CallbacksInRange'
  BY <1>1, <1>2, <1>5 DEF CallbacksInRange
<1>16. OneQueryAtATime'
  BY <1>1, <1>2, <1>3, <1>4, <1>6, NoCallsAlone, OneCallAlone
<1>17. QueryComplete'
  <2>1. inFlight'["user"] = 0 /\ ~(cur' < count')
    BY <1>1, <1>2, <1>4, <1>6, OneCall DEF Steps
  <2>2. hasUser' /\ location'
    BY <1>1, <1>3 DEF serviceVars
  <2> QED
    BY <2>1, <2>2 DEF QueryComplete
<1>18. SessionShape'
  BY <1>1, <1>2, <1>3, <1>6 DEF SessionShape, viewVars
<1> QED
  BY <1>9, <1>11, <1>12, <1>14, <1>15, <1>16, <1>17, <1>18, <1>20
  DEF IndInv, TypeOK, Shape

LEMMA SwipeEndsInd == ASSUME IndInv, SwipeEnds PROVE IndInv'
<1>1. /\ flying # Nil /\ flying' = Nil /\ Record(flying, PetAt(cur - 1))
      /\ currentIndex' = cur
      /\ UNCHANGED <<deviceVars, saved, rejected, screen, spinner, wired, callVars,
                     serviceVars, list, count, cur, viewVars, gestures, refused>>
  BY DEF SwipeEnds
<1>2. /\ list \in Seq(Pets) /\ gestures \in Seq(Directions)
      /\ count \in Nat /\ cur \in Nat /\ count = Len(list) /\ Len(gestures) = cur
      /\ 0 < cur /\ cur < count /\ flying \in Directions
  BY <1>1 DEF IndInv, TypeOK, DeckType, Shape, CallbacksInRange
<1>3. hasUser = TRUE
  BY <1>2 DEF IndInv, Shape, QueryComplete, TypeOK, ServiceType
<1>4. list[cur] \in Pets
  BY <1>2, LenProperties
<1>5. /\ pending' = pending \cup {<<flying, list[cur]>>}
      /\ submitted' = Append(submitted, <<flying, list[cur]>>)
  <2>1. (cur - 1) + 1 = cur
    BY <1>2
  <2> QED
    BY <1>1, <1>3, <2>1 DEF Record, PetAt
<1>14. SwipesHandedOver' /\ submitted' \in Seq(Writes)
  <2>1. SwipesReported = cur - 1 /\ SwipesReported' = cur /\ cur = (cur - 1) + 1 /\ cur - 1 \in Nat
    BY <1>1, <1>2 DEF SwipesReported
  <2>2. list' = list /\ Stored' = Stored /\ refused' = refused /\ gestures' = gestures
    BY <1>1 DEF Stored
  <2>3. flying = gestures[cur]
    BY <1>1 DEF IndInv, SwipesHandedOver
  <2>4. submitted \in Seq(Writes)
    BY DEF IndInv, TypeOK, DeckType
  <2> QED
    BY <1>1, <1>2, <1>4, <1>5, <2>1, <2>2, <2>3, <2>4, HandOver DEF IndInv
<1>6. DeviceType'
  <2>1. pending' \subseteq Writes
    BY <1>2, <1>4, <1>5 DEF IndInv, TypeOK, DeviceType, Writes
  <2> QED
    BY <1>1, <2>1 DEF IndInv, TypeOK, DeviceType, deviceVars
<1>7. ServiceType'
  BY <1>1 DEF IndInv, TypeOK, ServiceType, serviceVars, callVars
<1>8. DeckType'
  BY <1>1, <1>2, <1>14 DEF IndInv, TypeOK, DeckType
<1>9. ScreenType'
  BY <1>1 DEF IndInv, TypeOK, ScreenType, viewVars
<1>10. CallbacksInRange'
  BY <1>1, <1>2 DEF CallbacksInRange
<1>11. OneQueryAtATime'
  BY <1>1, <1>2, NoCallWithCards, NoCallsAlone DEF callVars
<1>12. QueryComplete'
  BY <1>1 DEF IndInv, Shape, QueryComplete, serviceVars, callVars
<1>13. SessionShape'
  BY <1>1, <1>2 DEF IndInv, Shape, SessionShape, viewVars, callVars
<1> QED
  BY <1>6, <1>7, <1>8, <1>9, <1>10, <1>11, <1>12, <1>13, <1>14
  DEF IndInv, TypeOK, Shape

\* A write that lands moves from the queue to the user's record.
LEMMA WriteInd == ASSUME IndInv, WriteLands PROVE IndInv'
<1>1. PICK w \in pending :
        /\ pending' = pending \ {w}
        /\ saved' = IF w[1] = "right" THEN saved \cup {w[2]} ELSE saved
        /\ rejected' = IF w[1] = "left" THEN rejected \cup {w[2]} ELSE rejected
  BY DEF WriteLands
<1>2. UNCHANGED <<deviceVars, screen, spinner, wired, callVars, serviceVars, deckVars, viewVars>>
  BY DEF WriteLands
<1>3. /\ saved \subseteq Pets /\ rejected \subseteq Pets /\ pending \subseteq Directions \X Pets
      /\ w[2] \in Pets /\ w[1] \in Directions /\ w = <<w[1], w[2]>>
  BY <1>1 DEF IndInv, TypeOK, DeviceType, Writes
<1>4. DeviceType'
  <2>1. saved' \subseteq Pets /\ rejected' \subseteq Pets /\ pending' \subseteq Writes
    BY <1>1, <1>3 DEF Writes
  <2> QED
    BY <1>2, <2>1 DEF IndInv, TypeOK, DeviceType, deviceVars
<1>5. ServiceType'
  BY <1>2 DEF IndInv, TypeOK, ServiceType, serviceVars, callVars
<1>6. DeckType'
  BY <1>2 DEF IndInv, TypeOK, DeckType, deckVars
<1>7. ScreenType'
  BY <1>2 DEF IndInv, TypeOK, ScreenType, viewVars
<1>8. Shape'
  <2>1. UNCHANGED shapeVars
    BY <1>2 DEF shapeVars, callVars, serviceVars, deckVars, viewVars
  <2> QED
    BY <2>1, ShapeUnchanged DEF IndInv
<1>9. SwipesHandedOver'
  <2>1. /\ SwipesReported' = SwipesReported
        /\ UNCHANGED <<list, flying, gestures, cur, submitted, refused>>
    BY <1>2 DEF SwipesReported, deckVars
  <2>2. Stored \cup pending \subseteq Stored' \cup pending'
    <3>1. Stored \subseteq Stored'
      BY <1>1 DEF Stored
    <3>2. w \in Stored'
      BY <1>1, <1>3 DEF Stored, Directions
    <3> QED
      BY <1>1, <3>1, <3>2
  <2> QED
    BY <2>1, <2>2 DEF IndInv, SwipesHandedOver
<1> QED
  BY <1>4, <1>5, <1>6, <1>7, <1>8, <1>9 DEF IndInv, TypeOK

\* A refused write leaves the queue, and the history keeps it.
LEMMA RefusedInd == ASSUME IndInv, WriteRefused PROVE IndInv'
<1>1. PICK w \in pending : pending' = pending \ {w} /\ refused' = refused \cup {w}
  BY DEF WriteRefused
<1>2. UNCHANGED <<deviceVars, saved, rejected, screen, spinner, wired, callVars,
                  serviceVars, list, currentIndex, count, cur, flying, gestures,
                  submitted, viewVars>>
  BY DEF WriteRefused
<1>3. DeviceType'
  BY <1>1, <1>2 DEF IndInv, TypeOK, DeviceType, deviceVars
<1>4. ServiceType'
  BY <1>2 DEF IndInv, TypeOK, ServiceType, serviceVars, callVars
<1>5. DeckType'
  <2>1. refused' \subseteq Writes
    BY <1>1 DEF IndInv, TypeOK, DeckType, DeviceType
  <2> QED
    BY <1>2, <2>1 DEF IndInv, TypeOK, DeckType
<1>6. ScreenType'
  BY <1>2 DEF IndInv, TypeOK, ScreenType, viewVars
<1>7. Shape'
  <2>1. UNCHANGED shapeVars
    BY <1>2 DEF shapeVars, callVars, serviceVars, viewVars
  <2> QED
    BY <2>1, ShapeUnchanged DEF IndInv
<1>8. SwipesHandedOver'
  <2>1. /\ SwipesReported' = SwipesReported /\ Stored' = Stored
        /\ UNCHANGED <<list, flying, gestures, cur, submitted>>
    BY <1>2 DEF SwipesReported, Stored
  <2>2. pending \cup refused \subseteq pending' \cup refused'
    BY <1>1
  <2> QED
    BY <2>1, <2>2 DEF IndInv, SwipesHandedOver
<1> QED
  BY <1>3, <1>4, <1>5, <1>6, <1>7, <1>8 DEF IndInv, TypeOK

-----------------------------------------------------------------------------
(* Log out and "Try again" *)

LEMMA LogOutInd == ASSUME IndInv, LogOutSucceeds PROVE IndInv'
<1>1. /\ screen = "swipe" /\ signedIn' = FALSE
      /\ spinner' = Stopped(Started(spinner)) /\ pending' \in SUBSET pending
      /\ UNCHANGED <<net, permission, faults, saved, rejected>>
  BY DEF LogOutSucceeds
<1>2. DeviceType'
  BY <1>1 DEF IndInv, TypeOK, DeviceType
<1>3. spinner' \in Indicator
  BY <1>1, IndicatorType DEF IndInv, TypeOK, ScreenType
<1>4. CASE wired
  BY <1>2, <1>3, <1>4, EndSessionInd DEF LogOutSucceeds
<1>5. CASE ~wired
  <2>1. UNCHANGED <<screen, wired, serviceVars, callVars, deckVars, viewVars>>
    BY <1>5 DEF LogOutSucceeds
  <2>2. count = 0 /\ cur = 0 /\ flying = Nil
    BY <1>5 DEF IndInv, Shape, SessionShape, CallbacksInRange, TypeOK, DeckType
  <2>3. ServiceType' /\ DeckType'
    BY <2>1 DEF IndInv, TypeOK, ServiceType, DeckType, serviceVars, callVars, deckVars
  <2>4. ScreenType'
    BY <1>3, <2>1 DEF IndInv, TypeOK, ScreenType, viewVars
  <2>5. Shape'
    <3>1. UNCHANGED shapeVars
      BY <2>1 DEF shapeVars, callVars, serviceVars, deckVars, viewVars
    <3> QED
      BY <3>1, ShapeUnchanged DEF IndInv
  <2>6. SwipesHandedOver'
    <3>1. /\ SwipesReported = 0 /\ SwipesReported' = 0 /\ flying' = Nil
          /\ UNCHANGED <<list, gestures, submitted>>
      BY <2>1, <2>2 DEF deckVars, SwipesReported
    <3> QED
      BY <3>1 DEF IndInv, SwipesHandedOver
  <2> QED
    BY <1>2, <2>3, <2>4, <2>5, <2>6 DEF IndInv, TypeOK
<1> QED
  BY <1>4, <1>5

LEMMA LogOutFailsInd == ASSUME IndInv, LogOutFails PROVE IndInv'
<1>1. /\ UNCHANGED <<net, permission, signedIn, backendVars, screen, wired,
                      serviceVars, callVars, deckVars>>
      /\ faults < MaxFaults /\ faults' = faults + 1
  BY DEF LogOutFails
<1>2. DeviceType' /\ DeckType' /\ SwipesHandedOver'
  <2>1. faults' \in 0..MaxFaults
    BY <1>1, BoundAssumption DEF IndInv, TypeOK, DeviceType
  <2> QED
    BY <1>1, <2>1, HandedUnchanged
    DEF IndInv, TypeOK, DeviceType, DeckType, backendVars, deckVars
<1>3. ServiceType'
  BY <1>1 DEF IndInv, TypeOK, ServiceType, serviceVars, callVars
<1>4. /\ ScreenType /\ spinner \in Indicator /\ screen' = screen
      /\ Stopped(Started(spinner)) \in Indicator
  BY <1>1, IndicatorType DEF IndInv, TypeOK, ScreenType
<1>5. ScreenType' /\ (locationView' = FALSE \/ locationView' = locationView)
  <2>1. CASE wired
    BY <1>4, <2>1, FailType DEF LogOutFails
  <2>2. CASE ~wired
    BY <1>4, <2>2 DEF LogOutFails, viewVars, ScreenType
  <2> QED
    BY <2>1, <2>2
<1>6. CallbacksInRange' /\ OneQueryAtATime' /\ QueryComplete'
  BY <1>1 DEF IndInv, Shape, CallbacksInRange, OneQueryAtATime, QueryComplete,
              deckVars, callVars, serviceVars
<1>7. SessionShape'
  BY <1>1, <1>5 DEF IndInv, Shape, SessionShape, NoCalls, deckVars, callVars
<1> QED
  BY <1>2, <1>3, <1>5, <1>6, <1>7 DEF IndInv, TypeOK, Shape

LEMMA RetryInd == ASSUME IndInv, Retry PROVE IndInv'
<1>1. /\ screen = "swipe" /\ locationView /\ locationView' = FALSE /\ hidden' = FALSE
      /\ inFlight' = IF net THEN Issued(inFlight, "auth") ELSE inFlight
      /\ granted' = IF net THEN permission ELSE granted
      /\ spinner' = IF net THEN Started(spinner) ELSE spinner
      /\ wired' = (wired \/ net)
      /\ UNCHANGED <<deviceVars, backendVars, screen, asked, round, serviceVars,
                     deckVars, errorView>>
  BY DEF Retry, InitializeQuery
<1>2. inFlight = NoCalls /\ cur = count /\ "auth" \in Steps
  BY <1>1 DEF IndInv, Shape, SessionShape, Steps
<1>3. DeviceType' /\ DeckType' /\ SwipesHandedOver'
  BY <1>1, HandedUnchanged
  DEF IndInv, TypeOK, DeviceType, DeckType, deviceVars, backendVars, deckVars
<1>4. /\ wired' \in BOOLEAN /\ granted' \in Permissions /\ spinner' \in Indicator
      /\ inFlight' \in [Steps -> Nat]
  BY <1>1, <1>2, IndicatorType, OneCall
  DEF IndInv, TypeOK, DeviceType, ServiceType, ScreenType
<1>5. ServiceType'
  BY <1>1, <1>4 DEF IndInv, TypeOK, ServiceType, serviceVars
<1>6. ScreenType'
  BY <1>1, <1>4 DEF IndInv, TypeOK, ScreenType
<1>7. CallbacksInRange'
  BY <1>1 DEF IndInv, Shape, CallbacksInRange, deckVars
<1>8. cur' = count' /\ ~(cur' < count') /\ screen' = "swipe"
  BY <1>1, <1>2 DEF deckVars, IndInv, TypeOK, DeckType
<1>9. CASE net
  <2>1. inFlight' = Issued(NoCalls, "auth") /\ wired' = TRUE
    BY <1>1, <1>2, <1>9
  <2>2. OneQueryAtATime'
    BY <1>2, <1>8, <2>1, OneCallAlone
  <2>3. inFlight'["pets"] = 0 /\ inFlight'["user"] = 0
    BY <1>2, <2>1, OneCall DEF Steps
  <2>4. QueryComplete'
    BY <1>8, <2>3 DEF QueryComplete
  <2>5. SessionShape'
    BY <1>1, <1>8, <2>1 DEF SessionShape
  <2> QED
    BY <1>3, <1>5, <1>6, <1>7, <2>2, <2>4, <2>5 DEF IndInv, TypeOK, Shape
<1>10. CASE ~net
  <2>1. inFlight' = NoCalls /\ wired' = wired /\ count' = count
    BY <1>1, <1>2, <1>10 DEF deckVars, IndInv, TypeOK, ServiceType, DeviceType
  <2>2. OneQueryAtATime'
    BY <2>1, NoCallsAlone
  <2>3. QueryComplete'
    BY <1>8, <2>1, OneCall DEF QueryComplete, Steps
  <2>4. SessionShape'
    BY <1>1, <1>8, <2>1 DEF IndInv, Shape, SessionShape
  <2> QED
    BY <1>3, <1>5, <1>6, <1>7, <2>2, <2>3, <2>4 DEF IndInv, TypeOK, Shape
<1> QED
  BY <1>9, <1>10

-----------------------------------------------------------------------------
(* Steps of the surroundings leave the session alone. *)

outsideVars == <<shapeVars, saved, rejected, pending, submitted, refused, asked, round,
                 ids, errorView, hidden>>

LEMMA OutsideInd ==
  ASSUME IndInv, UNCHANGED outsideVars, DeviceType', granted' \in Permissions,
         spinner' \in Indicator
  PROVE  IndInv'
<1>1. UNCHANGED <<screen, wired, inFlight, location, hasUser, lastOffset, locationView,
                  list, currentIndex, count, cur, flying, gestures, saved, rejected,
                  pending, submitted, refused, asked, round, ids, errorView, hidden>>
  BY DEF outsideVars, shapeVars
<1>2. ServiceType'
  BY <1>1 DEF IndInv, TypeOK, ServiceType
<1>3. DeckType'
  BY <1>1 DEF IndInv, TypeOK, DeckType
<1>4. ScreenType'
  BY <1>1 DEF IndInv, TypeOK, ScreenType
<1>5. Shape'
  BY ShapeUnchanged DEF IndInv, outsideVars
<1>6. SwipesHandedOver'
  BY <1>1, HandedUnchanged DEF IndInv
<1> QED
  BY <1>2, <1>3, <1>4, <1>5, <1>6 DEF IndInv, TypeOK

LEMMA SurroundingsInd ==
  ASSUME IndInv, FadeEnds \/ NetworkChanges \/ PermissionChanges \/ AccountRevoked
  PROVE  IndInv'
<1>1. /\ net \in BOOLEAN /\ signedIn \in BOOLEAN /\ permission \in Permissions
      /\ granted \in Permissions /\ spinner \in Indicator
  BY DEF IndInv, TypeOK, DeviceType, ServiceType, ScreenType
<1>2. CASE FadeEnds
  <2>1. UNCHANGED outsideVars /\ granted' = granted /\ spinner' = Faded(spinner)
    BY <1>2 DEF FadeEnds, outsideVars, shapeVars, backendVars, callVars, serviceVars,
                deckVars, viewVars
  <2>2. DeviceType'
    BY <1>2 DEF FadeEnds, IndInv, TypeOK, DeviceType, deviceVars, backendVars
  <2>3. spinner' \in Indicator
    BY <1>1, <1>2, <2>1, IndicatorType DEF FadeEnds
  <2> QED
    BY <1>1, <2>1, <2>2, <2>3, OutsideInd
<1>3. CASE NetworkChanges
  <2>1. UNCHANGED outsideVars /\ granted' = granted /\ spinner' = spinner
    BY <1>3 DEF NetworkChanges, outsideVars, shapeVars, backendVars, callVars,
                serviceVars, deckVars, viewVars
  <2>2. net' \in BOOLEAN
    BY <1>1, <1>3 DEF NetworkChanges
  <2>3. DeviceType'
    BY <1>3, <2>2 DEF NetworkChanges, IndInv, TypeOK, DeviceType, backendVars
  <2> QED
    BY <1>1, <2>1, <2>3, OutsideInd
<1>4. CASE PermissionChanges
  <2>1. UNCHANGED outsideVars /\ spinner' = spinner
    BY <1>4 DEF PermissionChanges, outsideVars, shapeVars, backendVars, serviceVars,
                deckVars, viewVars
  <2>2. permission' \in Permissions /\ granted' \in Permissions
    BY <1>1, <1>4 DEF PermissionChanges, Permissions
  <2>3. DeviceType'
    BY <1>4, <2>2 DEF PermissionChanges, IndInv, TypeOK, DeviceType, backendVars
  <2> QED
    BY <1>1, <2>1, <2>2, <2>3, OutsideInd
<1>5. CASE AccountRevoked
  <2>1. UNCHANGED outsideVars /\ granted' = granted /\ spinner' = spinner
    BY <1>5 DEF AccountRevoked, outsideVars, shapeVars, backendVars, callVars,
                serviceVars, deckVars, viewVars
  <2>2. DeviceType'
    BY <1>5 DEF AccountRevoked, IndInv, TypeOK, DeviceType, backendVars
  <2> QED
    BY <1>1, <2>1, <2>2, OutsideInd
<1> QED
  BY <1>2, <1>3, <1>4, <1>5

-----------------------------------------------------------------------------
(* The invariant *)

LEMMA InitInd == ASSUME Init PROVE IndInv
<1>1. /\ net \in BOOLEAN /\ permission \in Permissions /\ signedIn \in BOOLEAN
      /\ saved \in SUBSET Pets /\ rejected \in SUBSET (Pets \ saved)
      /\ pending = {} /\ faults = 0
      /\ screen = "launch" /\ spinner = Idle /\ wired = FALSE
      /\ inFlight = NoCalls /\ granted = "notDetermined" /\ asked = 0 /\ round = 0
      /\ location = FALSE /\ hasUser = FALSE /\ ids = {} /\ lastOffset = Nil
      /\ list = <<>> /\ currentIndex = Nil /\ count = 0 /\ cur = 0 /\ flying = Nil
      /\ locationView = FALSE /\ errorView = FALSE /\ hidden = FALSE
      /\ gestures = <<>> /\ submitted = <<>> /\ refused = {}
  BY DEF Init
<1>2. DeviceType
  BY <1>1, BoundAssumption DEF DeviceType
<1>3. NoCalls \in [Steps -> Nat] /\ \A s \in Steps : NoCalls[s] = 0
  BY DEF NoCalls
<1>4. ServiceType
  BY <1>1, <1>3 DEF ServiceType, Permissions
<1>5. DeckType
  <2>1. <<>> \in Seq(Pets) /\ <<>> \in Seq(Directions) /\ <<>> \in Seq(Writes)
    OBVIOUS
  <2> QED
    BY <1>1, <2>1 DEF DeckType
<1>6. ScreenType
  BY <1>1, IdleType DEF ScreenType
<1>7. CallbacksInRange
  BY <1>1 DEF CallbacksInRange
<1>8. OneQueryAtATime
  BY <1>1, <1>3 DEF OneQueryAtATime
<1>9. QueryComplete
  BY <1>1, <1>3 DEF QueryComplete, Steps
<1>10. SessionShape
  BY <1>1 DEF SessionShape
<1>11. SwipesHandedOver
  <2>1. SwipesReported = 0
    BY <1>1 DEF SwipesReported
  <2>2. [i \in 1..SwipesReported |-> <<gestures[i], list[i]>>] = <<>>
    BY <2>1
  <2> QED
    BY <1>1, <2>1, <2>2 DEF SwipesHandedOver
<1> QED
  BY <1>2, <1>4, <1>5, <1>6, <1>7, <1>8, <1>9, <1>10, <1>11 DEF IndInv, TypeOK, Shape

LEMMA NextInd == ASSUME IndInv, Next PROVE IndInv'
<1>1. CASE Launch
  BY <1>1, LaunchInd
<1>2. CASE LogIn
  BY <1>2, LogInInd
<1>3. CASE LogOutSucceeds
  BY <1>3, LogOutInd
<1>4. CASE LogOutFails
  BY <1>4, LogOutFailsInd
<1>5. CASE Retry
  BY <1>5, RetryInd
<1>6. CASE Relaunch
  BY <1>6, RelaunchInd
<1>7. CASE AuthAnswer
  BY <1>7, AuthInd
<1>8. CASE GeoAnswer
  BY <1>8, GeoInd
<1>9. CASE UserAnswer
  BY <1>9, UserInd
<1>10. CASE PageAnswer
  BY <1>10, PageInd
<1>11. CASE BadAnswer
  BY <1>11, BadInd
<1>12. CASE \E s \in Steps : StepFails(s)
  BY <1>12, StepFailsInd
<1>13. CASE \E d \in Directions : Swipe(d)
  BY <1>13, SwipeOneInd, SwipeLastInd
<1>14. CASE SwipeEnds
  BY <1>14, SwipeEndsInd
<1>15. CASE WriteLands
  BY <1>15, WriteInd
<1>16. CASE FadeEnds \/ NetworkChanges \/ PermissionChanges \/ AccountRevoked
  BY <1>16, SurroundingsInd
<1>17. CASE WriteRefused
  BY <1>17, RefusedInd
<1> QED
  BY <1>1, <1>2, <1>3, <1>4, <1>5, <1>6, <1>7, <1>8, <1>9, <1>10, <1>11, <1>12,
     <1>13, <1>14, <1>15, <1>16, <1>17 DEF Next

LEMMA StutterInd == ASSUME IndInv, UNCHANGED vars PROVE IndInv'
<1>1. UNCHANGED outsideVars /\ granted' = granted /\ spinner' = spinner
  BY DEF vars, outsideVars, shapeVars
<1>2. DeviceType'
  BY DEF vars, IndInv, TypeOK, DeviceType
<1> QED
  BY <1>1, <1>2, OutsideInd DEF IndInv, TypeOK, ServiceType, ScreenType

\* The inductive invariant: the types, how the deck, the query and the screen
\* hang together, and where every swipe is.
THEOREM SwipeInvariant == Spec => []IndInv
<1>1. Init => IndInv
  BY InitInd
<1>2. IndInv /\ [Next]_vars => IndInv'
  BY NextInd, StutterInd
<1> QED
  BY <1>1, <1>2, PTL DEF Spec

\* Every variable keeps its type.
THEOREM SwipeTypeCorrect == Spec => []TypeOK
<1>1. IndInv => TypeOK
  BY DEF IndInv
<1> QED
  BY <1>1, SwipeInvariant, PTL

\* No callback of the deck indexes petViewModels outside its bounds.
THEOREM CallbacksStayInRange == Spec => []CallbacksInRange
<1>1. IndInv => CallbacksInRange
  BY DEF IndInv, Shape
<1> QED
  BY <1>1, SwipeInvariant, PTL

\* However retries, swipes, answers and log outs interleave, at most one query
\* runs, and none beside cards that can be swiped.
THEOREM QueriesNeverOverlap == Spec => []OneQueryAtATime
<1>1. IndInv => OneQueryAtATime
  BY DEF IndInv, Shape
<1> QED
  BY <1>1, SwipeInvariant, PTL

\* No swipe meets a service without a user, and no repeated query one without
\* a place or an offset.
THEOREM QueriesAreComplete == Spec => []QueryComplete
<1>1. IndInv => QueryComplete
  BY DEF IndInv, Shape
<1> QED
  BY <1>1, SwipeInvariant, PTL

\* Cards, calls and "Try again" exist only on a main screen whose services have
\* their delegates, and "Try again" only when no query runs.
THEOREM SessionsKeepShape == Spec => []SessionShape
<1>1. IndInv => SessionShape
  BY DEF IndInv, Shape
<1> QED
  BY <1>1, SwipeInvariant, PTL

\* Every reported swipe is handed to Firebase exactly once, in order and under its
\* own pet and direction, and is stored or queued until the server refuses it.
THEOREM SwipesAreHandedOver == Spec => []SwipesHandedOver
<1>1. IndInv => SwipesHandedOver
  BY DEF IndInv
<1> QED
  BY <1>1, SwipeInvariant, PTL


-----------------------------------------------------------------------------
(* The deck of the screen is the deck that CardDeck describes *)

\* What the delegate has been told, one pair for each reported swipe.
Told == [i \in 1..SwipesReported |-> <<i - 1, gestures[i]>>]

LEMMA ToldType ==
  ASSUME IndInv
  PROVE  /\ SwipesReported \in Nat /\ SwipesReported <= cur /\ cur = Len(gestures)
         /\ cur \in Nat /\ count \in Nat /\ gestures \in Seq(Directions)
         /\ Told \in Seq(Nat \X Directions) /\ Len(Told) = SwipesReported
<1>1. /\ cur \in Nat /\ count \in Nat /\ flying \in Directions \cup {Nil}
      /\ gestures \in Seq(Directions) /\ cur = Len(gestures) /\ (flying # Nil => 0 < cur)
  BY DEF IndInv, TypeOK, DeckType, Shape, CallbacksInRange
<1>2. SwipesReported \in Nat /\ SwipesReported <= cur
  BY <1>1 DEF SwipesReported
<1>3. \A i \in 1..SwipesReported : <<i - 1, gestures[i]>> \in Nat \X Directions
  BY <1>1, <1>2
<1>4. Told \in [1..SwipesReported -> Nat \X Directions]
  BY <1>3 DEF Told
<1> QED
  BY <1>1, <1>2, <1>4

LEMMA DeckVars == UNCHANGED <<count, cur, flying, gestures>> => UNCHANGED Deck!vars
BY DEF Deck!vars, SwipesReported

LEMMA DeckDiscarded == ASSUME BlankSession PROVE Deck!Discard
<1>1. count' = 0 /\ cur' = 0 /\ flying' = Nil
  BY DEF BlankSession
<1>2. SwipesReported' = 0
  BY <1>1 DEF SwipesReported
<1>3. [i \in 1..SwipesReported |-> <<i - 1, gestures[i]>>]' = <<>>
  BY <1>2
<1> QED
  BY <1>1, <1>3 DEF Deck!Discard

\* One more pair is told.
LEMMA ToldMore ==
  ASSUME IndInv, NEW d \in Directions,
         SwipesReported' = SwipesReported + 1, SwipesReported + 1 <= Len(gestures'),
         gestures' \in Seq(Directions),
         \A i \in 1..SwipesReported : gestures'[i] = gestures[i],
         gestures'[SwipesReported + 1] = d
  PROVE  Told' = Append(Told, <<SwipesReported, d>>)
<1> DEFINE n == SwipesReported
           more == Append(Told, <<SwipesReported, d>>)
<1>1. n \in Nat /\ Told \in Seq(Nat \X Directions) /\ Len(Told) = n
  BY ToldType
<1>2. <<n, d>> \in Nat \X Directions
  BY <1>1
<1>3. /\ more \in Seq(Nat \X Directions) /\ Len(more) = n + 1
      /\ \A i \in 1..n : more[i] = Told[i]
      /\ more[n + 1] = <<n, d>>
  BY <1>1, <1>2, AppendProperties
<1>4. Told' = [i \in 1..n + 1 |-> <<i - 1, gestures'[i]>>]
  BY DEF Told
<1>5. \A i \in 1..n + 1 : gestures'[i] \in Directions /\ i - 1 \in Nat
  BY <1>1
<1>6. Told' \in [1..n + 1 -> Nat \X Directions]
  BY <1>4, <1>5
<1>7. n + 1 \in Nat /\ Told' \in Seq(Nat \X Directions) /\ Len(Told') = n + 1
  BY <1>1, <1>6
<1>8. \A i \in 1..n + 1 : Told'[i] = <<i - 1, gestures'[i]>>
  BY <1>4
<1>9. \A i \in 1..n : more[i] = <<i - 1, gestures[i]>>
  BY <1>1, <1>3 DEF Told
<1>10. \A i \in 1..n + 1 : Told'[i] = more[i]
  <2> SUFFICES ASSUME NEW i \in 1..n + 1 PROVE Told'[i] = more[i]
    OBVIOUS
  <2>1. CASE i = n + 1
    <3>1. n + 1 \in 1..n + 1 /\ (n + 1) - 1 = n /\ gestures'[n + 1] = d
      BY <1>1
    <3>2. Told'[n + 1] = <<(n + 1) - 1, gestures'[n + 1]>>
      BY <1>8, <3>1
    <3> QED
      BY <1>3, <2>1, <3>1, <3>2
  <2>2. CASE i # n + 1
    <3>1. i \in 1..n
      BY <1>1, <2>2
    <3> QED
      BY <1>8, <1>9, <3>1
  <2> QED
    BY <2>1, <2>2
<1> HIDE DEF more
<1>11. Told' = more
  BY <1>3, <1>7, <1>10, SeqEqual
<1> QED
  BY <1>11 DEF more

\* A swipe makes a card leave.
LEMMA DeckLeave ==
  ASSUME IndInv, NEW d \in Directions, Swipe(d)
  PROVE  Deck!Leave(d)
<1>1. /\ flying = Nil /\ cur < count /\ cur' = cur + 1 /\ gestures' = Append(gestures, d)
      /\ count' = count
  BY DEF Swipe
<1>2. /\ cur \in Nat /\ count \in Nat /\ gestures \in Seq(Directions) /\ Len(gestures) = cur
      /\ SwipesReported = cur
  BY <1>1, ToldType DEF SwipesReported
<1>3. /\ gestures' \in Seq(Directions) /\ Len(gestures') = cur + 1
      /\ \A i \in 1..cur : gestures'[i] = gestures[i]
      /\ gestures'[cur + 1] = d
  BY <1>1, <1>2, AppendProperties
<1>4. CASE cur + 1 < count
  <2>1. flying' = d /\ d # Nil
    BY <1>4, NilAssumption DEF Swipe
  <2>2. SwipesReported' = cur
    BY <1>1, <1>2, <2>1 DEF SwipesReported
  <2>3. Told' = Told
    BY <1>2, <1>3, <2>2 DEF Told
  <2> QED
    BY <1>1, <1>4, <2>1, <2>3 DEF Deck!Leave, Told
<1>5. CASE ~(cur + 1 < count)
  <2>1. flying' = flying
    BY <1>5 DEF Swipe
  <2>2. SwipesReported' = SwipesReported + 1
    BY <1>1, <1>2, <2>1 DEF SwipesReported
  <2>3. Told' = Append(Told, <<cur, d>>)
    BY <1>2, <1>3, <2>2, ToldMore
  <2> QED
    BY <1>1, <1>5, <2>1, <2>3 DEF Deck!Leave, Told
<1> QED
  BY <1>4, <1>5

\* The end of its animation tells the delegate.
LEMMA DeckTell == ASSUME IndInv, SwipeEnds PROVE Deck!Tell
<1>1. flying # Nil /\ flying' = Nil /\ UNCHANGED <<cur, count, gestures>>
  BY DEF SwipeEnds
<1>2. /\ cur \in Nat /\ gestures \in Seq(Directions) /\ Len(gestures) = cur
      /\ SwipesReported = cur - 1 /\ SwipesReported \in Nat
  BY <1>1, ToldType DEF SwipesReported
<1>3. SwipesReported' = SwipesReported + 1
  BY <1>1, <1>2 DEF SwipesReported
<1>4. flying \in Directions /\ flying = gestures[cur]
  BY <1>1 DEF IndInv, TypeOK, DeckType, SwipesHandedOver
<1>5. Told' = Append(Told, <<SwipesReported, flying>>)
  BY <1>1, <1>2, <1>3, <1>4, ToldMore
<1> QED
  BY <1>1, <1>2, <1>5 DEF Deck!Tell, Told

\* A page refills the empty deck, or leaves it alone.
LEMMA DeckRefill ==
  ASSUME IndInv, NEW pets \in SUBSET Pets, NEW offset, Deliver(pets, offset)
  PROVE  Deck!Refill \/ UNCHANGED Deck!vars
<1>1. "pets" \in Steps /\ inFlight["pets"] > 0
  BY DEF Deliver, Steps
<1>2. /\ cur = count /\ flying = Nil /\ count = Len(list) /\ list \in Seq(Pets)
  BY <1>1, AnsweredAlone DEF IndInv, TypeOK, DeckType, Shape, CallbacksInRange
<1>3. CASE UNCHANGED deckVars
  BY <1>3, DeckVars DEF deckVars
<1>4. CASE \E batch \in Listing(pets \ ids) : batch # <<>> /\ Show(batch)
  <2>1. PICK batch \in Listing(pets \ ids) : batch # <<>> /\ Show(batch)
    BY <1>4
  <2>2. batch \in Seq(Pets)
    BY ListingType
  <2>3. count' = Len(list \o batch) /\ UNCHANGED <<cur, flying, gestures>>
    BY <2>1 DEF Show, Reload
  <2>4. Len(list \o batch) = Len(list) + Len(batch) /\ Len(batch) \in Nat \ {0} /\ Len(list) \in Nat
    BY <1>2, <2>1, <2>2, ConcatProperties, EmptySeq, LenProperties
  <2>5. SwipesReported' = SwipesReported
    BY <2>3 DEF SwipesReported
  <2>6. Told' = Told
    BY <2>3, <2>5 DEF Told
  <2>7. count' > count
    BY <1>2, <2>3, <2>4
  <2> QED
    BY <1>2, <2>3, <2>6, <2>7 DEF Deck!Refill, Told
<1> QED
  BY <1>3, <1>4 DEF Deliver

LEMMA DeckInit == Init => Deck!Init
<1> SUFFICES ASSUME Init PROVE Deck!Init
  OBVIOUS
<1>1. count = 0 /\ cur = 0 /\ flying = Nil /\ SwipesReported = 0
  BY DEF Init, SwipesReported
<1>2. Told = <<>>
  BY <1>1 DEF Told
<1> QED
  BY <1>1, <1>2 DEF Deck!Init, Told

LEMMA DeckNext == ASSUME IndInv, [Next]_vars PROVE [Deck!Next]_Deck!vars
<1> USE DEF Deck!Next
<1>1. CASE Launch \/ LogIn \/ LogOutSucceeds \/ Relaunch
  <2>1. BlankSession \/ UNCHANGED deckVars
    BY <1>1 DEF Launch, LogIn, LogOutSucceeds, Relaunch, BeginSession, EndSession
  <2> QED
    BY <2>1, DeckDiscarded, DeckVars DEF deckVars
<1>2. CASE \/ LogOutFails \/ Retry \/ AuthAnswer \/ GeoAnswer \/ UserAnswer
           \/ (\E s \in Steps : StepFails(s)) \/ FadeEnds \/ WriteLands
           \/ NetworkChanges \/ PermissionChanges \/ AccountRevoked \/ UNCHANGED vars
  <2>1. UNCHANGED deckVars
    BY <1>2 DEF LogOutFails, Retry, AuthAnswer, GeoAnswer, UserAnswer, StepFails, FadeEnds,
                WriteLands, NetworkChanges, PermissionChanges, AccountRevoked, vars, deckVars
  <2> QED
    BY <2>1, DeckVars DEF deckVars
<1>3. CASE PageAnswer \/ BadAnswer
  <2>1. PICK pets \in SUBSET Pets : \E offset \in {0, NextOffset(asked)} : Deliver(pets, offset)
    BY <1>3 DEF PageAnswer, BadAnswer, Page
  <2> QED
    BY <2>1, DeckRefill
<1>4. CASE \E d \in Directions : Swipe(d)
  BY <1>4, DeckLeave
<1>5. CASE SwipeEnds
  BY <1>5, DeckTell
<1>6. CASE WriteRefused
  BY <1>6, DeckVars DEF WriteRefused
<1> QED
  BY <1>1, <1>2, <1>3, <1>4, <1>5, <1>6 DEF Next

\* The screen keeps the contract of the deck it is written against: cards are added
\* only to an empty deck, one leaves at a time, and the delegate is told of each
\* once, in order and with its own index and direction.
THEOREM ScreenKeepsDeck == Spec => IsCardDeck
<1>1. Init => Deck!Init
  BY DeckInit
<1>2. IndInv /\ [Next]_vars => [Deck!Next]_Deck!vars
  BY DeckNext
<1> QED
  BY <1>1, <1>2, SwipeInvariant, PTL DEF Spec, IsCardDeck, Deck!Spec

-----------------------------------------------------------------------------
(* What the feed shows: as long as PetFinder's answers keep their offset, the *)
(* deck never shows a pet twice or one the user has decided on, no pet is     *)
(* both saved and rejected, and a hidden deck is explained.                   *)


\* How far the pages received so far reach in the result list.
Reached == IF lastOffset = Nil THEN 0 ELSE lastOffset

\* No page has been received before the user is known, nor while the query is
\* on its way to the first one.
Early ==
  /\ \A s \in {"auth", "geo", "user"} : inFlight[s] > 0 => list = <<>> /\ lastOffset = Nil
  /\ locationView => list = <<>> /\ lastOffset = Nil
  /\ ~hasUser => list = <<>>

\* Pages are asked for in order, and the cards are in order below the next one.
Ordered ==
  /\ inFlight["pets"] > 0 => asked = Reached
  /\ \A i \in 1..Len(list) : list[i] <= Reached
  /\ \A i, j \in 1..Len(list) : i < j => list[i] < list[j]

\* What the record holds beyond the snapshot are cards of this session that have
\* been swiped; no card is in the snapshot.
Known ==
  /\ \A i \in 1..Len(list) : list[i] \notin ids
  /\ hasUser => \A p \in Recorded : p \in ids \/ \E i \in 1..SwipesReported : p = list[i]

Liked(p) == p \in saved \/ <<"right", p>> \in pending
Disliked(p) == p \in rejected \/ <<"left", p>> \in pending
OneFate == \A p \in Pets : ~(Liked(p) /\ Disliked(p))

FeedInv == faults = 0 => Early /\ Ordered /\ Known /\ OneFate
FullInv == IndInv /\ FeedInv /\ HiddenExplained

-----------------------------------------------------------------------------
(* What the invariant says *)

\* The types its proofs need.
LEMMA FeedTypes ==
  ASSUME IndInv
  PROVE  /\ list \in Seq(Pets) /\ Len(list) \in Nat /\ count = Len(list)
         /\ \A i \in 1..Len(list) : list[i] \in Pets /\ list[i] \in Nat
         /\ cur \in Nat /\ cur <= Len(list)
         /\ SwipesReported \in Nat /\ SwipesReported <= cur
         /\ Reached \in Nat /\ asked \in Nat /\ faults \in Nat
<1>1. list \in Seq(Pets) /\ count = Len(list) /\ cur \in Nat /\ cur <= Len(list)
  BY DEF IndInv, TypeOK, DeckType, Shape, CallbacksInRange
<1>2. Len(list) \in Nat /\ \A i \in 1..Len(list) : list[i] \in Pets
  BY <1>1, LenProperties
<1>3. Pets \subseteq Nat
  BY SizeAssumption DEF Pets
<1>4. SwipesReported \in Nat /\ SwipesReported <= cur
  BY <1>1 DEF SwipesReported, IndInv, Shape, CallbacksInRange
<1>5. Reached \in Nat /\ asked \in Nat
  BY DEF Reached, IndInv, TypeOK, ServiceType
<1>6. faults \in Nat
  BY BoundAssumption DEF IndInv, TypeOK, DeviceType
<1> QED
  BY <1>1, <1>2, <1>3, <1>4, <1>5, <1>6

\* A card that has not been reported is not in the record.
LEMMA NotYetRecorded ==
  ASSUME IndInv, FeedInv, faults = 0, NEW i \in SwipesReported + 1 .. Len(list)
  PROVE  list[i] \notin Recorded
<1>1. i \in 1..Len(list) /\ \A j \in 1..SwipesReported : j \in 1..Len(list) /\ j < i
  BY FeedTypes
<1>2. hasUser
  <2>1. list # <<>>
    BY <1>1, FeedTypes, EmptySeq
  <2> QED
    BY <2>1 DEF FeedInv, Early
<1>3. \A j \in 1..SwipesReported : list[j] < list[i] /\ list[j] \in Nat /\ list[i] \in Nat
  BY <1>1, FeedTypes DEF FeedInv, Ordered
<1>4. \A j \in 1..SwipesReported : list[j] # list[i]
  BY <1>3
<1> QED
  BY <1>1, <1>2, <1>4 DEF FeedInv, Known

-----------------------------------------------------------------------------
(* The parts of the steps *)

\* A step that leaves the record, the deck and the snapshot alone.
feedVars == <<saved, rejected, pending, list, cur, flying, ids, hasUser, lastOffset>>

LEMMA Quiet ==
  ASSUME FeedInv, UNCHANGED feedVars, faults' = 0 => faults = 0,
         faults' = 0 => Early' /\ (inFlight'["pets"] > 0 => asked' = Reached)
  PROVE  FeedInv'
<1> SUFFICES ASSUME faults' = 0 PROVE Early' /\ Ordered' /\ Known' /\ OneFate'
  BY DEF FeedInv
<1>1. Early /\ Ordered /\ Known /\ OneFate
  BY DEF FeedInv
<1>2. Reached' = Reached /\ Recorded' = Recorded /\ SwipesReported' = SwipesReported
  BY DEF feedVars, Reached, Recorded, SwipesReported
<1>3. Ordered'
  BY <1>1, <1>2 DEF feedVars, Ordered
<1>4. Known'
  BY <1>1, <1>2 DEF feedVars, Known
<1>5. OneFate'
  BY <1>1 DEF feedVars, OneFate, Liked, Disliked
<1> QED
  BY <1>3, <1>4, <1>5

\* A session with nothing in it yet.
LEMMA BlankFeed ==
  ASSUME FeedInv, BlankSession, faults' = faults, UNCHANGED <<saved, rejected>>,
         pending' \subseteq pending,
         inFlight' = NoCalls \/ inFlight' = Issued(NoCalls, "auth")
  PROVE  FeedInv'
<1> SUFFICES ASSUME faults' = 0 PROVE Early' /\ Ordered' /\ Known' /\ OneFate'
  BY DEF FeedInv
<1>1. /\ list' = <<>> /\ lastOffset' = Nil /\ hasUser' = FALSE /\ locationView' = FALSE
  BY DEF BlankSession
<1>2. inFlight'["pets"] = 0
  BY OneCall DEF Steps
<1>3. Early'
  BY <1>1 DEF Early
<1>4. Ordered'
  BY <1>1, <1>2 DEF Ordered
<1>5. Known'
  BY <1>1 DEF Known
<1>6. OneFate'
  BY DEF FeedInv, OneFate, Liked, Disliked
<1> QED
  BY <1>3, <1>4, <1>5, <1>6

\* A step that at most drops queued writes.
LEMMA Still ==
  ASSUME FeedInv, pending' \subseteq pending, faults' = faults,
         UNCHANGED <<saved, rejected, list, cur, flying, ids, hasUser, lastOffset,
                     inFlight, asked, locationView>>
  PROVE  FeedInv'
<1> SUFFICES ASSUME faults' = 0 PROVE Early' /\ Ordered' /\ Known' /\ OneFate'
  BY DEF FeedInv
<1>1. Early /\ Ordered /\ Known /\ OneFate
  BY DEF FeedInv
<1>2. Reached' = Reached /\ Recorded' \subseteq Recorded /\ SwipesReported' = SwipesReported
  BY DEF Reached, Recorded, SwipesReported
<1>3. Early' /\ Ordered'
  BY <1>1, <1>2 DEF Early, Ordered
<1>4. Known'
  BY <1>1, <1>2 DEF Known
<1>5. OneFate'
  BY <1>1 DEF OneFate, Liked, Disliked
<1> QED
  BY <1>3, <1>4, <1>5

\* The next card is reported and its write queued.
LEMMA RecordFeed ==
  ASSUME IndInv, FeedInv, NEW d \in Directions, faults' = faults,
         SwipesReported + 1 \in 1..Len(list), SwipesReported' = SwipesReported + 1,
         pending' = pending \cup {<<d, list[SwipesReported + 1]>>},
         UNCHANGED <<saved, rejected, list, ids, hasUser, lastOffset>>,
         faults = 0 => Early' /\ (inFlight'["pets"] > 0 => asked' = Reached)
  PROVE  FeedInv'
<1> SUFFICES ASSUME faults = 0 PROVE Early' /\ Ordered' /\ Known' /\ OneFate'
  BY DEF FeedInv
<1> DEFINE n == SwipesReported + 1
<1>1. Early /\ Ordered /\ Known /\ OneFate
  BY DEF FeedInv
<1>2. SwipesReported \in Nat /\ n \in SwipesReported + 1 .. Len(list)
  BY FeedTypes
<1>3. list[n] \notin Recorded
  BY <1>2, NotYetRecorded
<1>4. Ordered'
  <2>1. Reached' = Reached
    BY DEF Reached
  <2> QED
    BY <1>1, <2>1 DEF Ordered
<1>5. Recorded' = Recorded \cup {list[n]}
  <2> DEFINE w == <<d, list[n]>>
  <2>1. w[2] = list[n] /\ pending' = pending \cup {w} /\ saved' = saved /\ rejected' = rejected
    OBVIOUS
  <2> HIDE DEF w, n
  <2>2. {x[2] : x \in pending'} = {x[2] : x \in pending} \cup {list[n]}
    BY <2>1
  <2> QED
    BY <2>1, <2>2 DEF Recorded
<1>6. Known'
  <2>1. n \in 1..n /\ \A i \in 1..SwipesReported : i \in 1..n
    BY <1>2
  <2> QED
    BY <1>1, <1>5, <2>1 DEF Known
<1>7. OneFate'
  <2> SUFFICES ASSUME NEW p \in Pets, Liked(p)', Disliked(p)' PROVE FALSE
    BY DEF OneFate
  <2>1. CASE p = list[n]
    <3>1. /\ p \notin saved /\ p \notin rejected
          /\ <<"right", p>> \notin pending /\ <<"left", p>> \notin pending
      BY <1>3, <2>1 DEF Recorded
    <3>2. <<"right", p>> = <<d, list[n]>> /\ <<"left", p>> = <<d, list[n]>>
      BY <3>1 DEF Liked, Disliked
    <3> QED
      BY <3>2
  <2>2. CASE p # list[n]
    <3>1. <<"right", p>> # <<d, list[n]>> /\ <<"left", p>> # <<d, list[n]>>
      BY <2>2
    <3>2. Liked(p) /\ Disliked(p)
      BY <3>1 DEF Liked, Disliked
    <3> QED
      BY <1>1, <3>2 DEF OneFate
  <2> QED
    BY <2>1, <2>2
<1> QED
  BY <1>4, <1>6, <1>7

-----------------------------------------------------------------------------
(* The screens *)

LEMMA ScreensFeed ==
  ASSUME IndInv, FeedInv, Launch \/ LogIn \/ LogOutSucceeds \/ Relaunch
  PROVE  FeedInv'
<1>1. CASE Launch
  <2>1. CASE signedIn
    <3>1. BlankSession /\ (inFlight' = NoCalls \/ inFlight' = Issued(NoCalls, "auth"))
      BY <1>1, <2>1 DEF Launch, BeginSession, InitializeQuery
    <3> QED
      BY <1>1, <3>1, BlankFeed DEF Launch, deviceVars, backendVars
  <2>2. CASE ~signedIn
    BY <1>1, <2>2, Still
    DEF Launch, deviceVars, backendVars, serviceVars, callVars, deckVars, viewVars
  <2> QED
    BY <2>1, <2>2
<1>2. CASE LogIn
  <2>1. BlankSession /\ (inFlight' = NoCalls \/ inFlight' = Issued(NoCalls, "auth"))
    BY <1>2 DEF LogIn, BeginSession, InitializeQuery
  <2> QED
    BY <1>2, <2>1, BlankFeed DEF LogIn, backendVars
<1>3. CASE LogOutSucceeds
  <2>1. pending' \subseteq pending /\ faults' = faults /\ UNCHANGED <<saved, rejected>>
    BY <1>3 DEF LogOutSucceeds
  <2>2. CASE wired
    BY <1>3, <2>1, <2>2, BlankFeed DEF LogOutSucceeds, EndSession
  <2>3. CASE ~wired
    <3>1. UNCHANGED <<serviceVars, callVars, deckVars, viewVars>>
      BY <1>3, <2>3 DEF LogOutSucceeds
    <3> QED
      BY <2>1, <3>1, Still DEF serviceVars, callVars, deckVars, viewVars
  <2> QED
    BY <2>2, <2>3
<1>4. CASE Relaunch
  BY <1>4, BlankFeed DEF Relaunch, EndSession, deviceVars
<1> QED
  BY <1>1, <1>2, <1>3, <1>4

LEMMA FaultsFeed ==
  ASSUME IndInv, LogOutFails \/ BadAnswer
  PROVE  FeedInv' /\ HiddenExplained'
<1>1. faults' # 0
  BY FeedTypes DEF LogOutFails, BadAnswer
<1> QED
  BY <1>1 DEF FeedInv, HiddenExplained

LEMMA SurroundingsFeed ==
  ASSUME FeedInv,
         FadeEnds \/ NetworkChanges \/ PermissionChanges \/ AccountRevoked \/ UNCHANGED vars
  PROVE  FeedInv'
<1>1. /\ UNCHANGED <<saved, rejected, pending, faults, list, cur, flying, ids, hasUser,
                     lastOffset, inFlight, asked, locationView>>
  BY DEF FadeEnds, NetworkChanges, PermissionChanges, AccountRevoked, vars, deviceVars,
         backendVars, serviceVars, callVars, deckVars, viewVars
<1> QED
  BY <1>1, Still

LEMMA WriteFeed == ASSUME IndInv, FeedInv, WriteLands PROVE FeedInv'
<1> SUFFICES ASSUME faults' = 0 PROVE Early' /\ Ordered' /\ Known' /\ OneFate'
  BY DEF FeedInv
<1>1. PICK w \in pending :
        /\ pending' = pending \ {w}
        /\ saved' = IF w[1] = "right" THEN saved \cup {w[2]} ELSE saved
        /\ rejected' = IF w[1] = "left" THEN rejected \cup {w[2]} ELSE rejected
  BY DEF WriteLands
<1>2. UNCHANGED <<deviceVars, callVars, serviceVars, deckVars, viewVars>>
  BY DEF WriteLands
<1>3. Early /\ Ordered /\ Known /\ OneFate
  BY <1>2 DEF FeedInv, deviceVars
<1>4. w \in Directions \X Pets
  BY <1>1 DEF IndInv, TypeOK, DeviceType, Writes
<1>5. Early' /\ Ordered'
  BY <1>2, <1>3 DEF Early, Ordered, Reached, serviceVars, callVars, deckVars, viewVars
<1>6. Recorded' \subseteq Recorded
  BY <1>1 DEF Recorded
<1>7. Known'
  BY <1>2, <1>3, <1>6 DEF Known, SwipesReported, serviceVars, deckVars
<1>8. OneFate'
  <2>1. w = <<w[1], w[2]>>
    BY <1>4
  <2>2. \A p : Liked(p)' => Liked(p)
    BY <1>1, <2>1 DEF Liked
  <2>3. \A p : Disliked(p)' => Disliked(p)
    BY <1>1, <2>1 DEF Disliked
  <2> QED
    BY <1>3, <2>2, <2>3 DEF OneFate
<1> QED
  BY <1>5, <1>7, <1>8

\* A refused write only takes a pet off the record.
LEMMA RefusedFeed == ASSUME FeedInv, WriteRefused PROVE FeedInv'
<1>1. /\ pending' \subseteq pending /\ faults' = faults
      /\ UNCHANGED <<saved, rejected, list, cur, flying, ids, hasUser, lastOffset,
                     inFlight, asked, locationView>>
  BY DEF WriteRefused, deviceVars, callVars, serviceVars, viewVars
<1> QED
  BY <1>1, Still

-----------------------------------------------------------------------------
(* The query *)

LEMMA RetryFeed == ASSUME IndInv, FeedInv, Retry PROVE FeedInv'
<1>1. /\ locationView /\ locationView' = FALSE /\ UNCHANGED feedVars /\ faults' = faults
      /\ asked' = asked
      /\ inFlight' = Issued(inFlight, "auth") \/ inFlight' = inFlight
  BY DEF Retry, InitializeQuery, deviceVars, backendVars, serviceVars, deckVars, feedVars
<1>2. inFlight = NoCalls
  BY <1>1 DEF IndInv, Shape, SessionShape
<1>3. inFlight'["pets"] = 0
  BY <1>1, <1>2, OneCall DEF Steps
<1>4. faults = 0 => Early'
  BY <1>1 DEF FeedInv, Early, feedVars
<1> QED
  BY <1>1, <1>3, <1>4, Quiet

\* The answers on the way to the first page: the deck is still blank.
LEMMA WayFeed ==
  ASSUME IndInv, FeedInv, NEW s \in {"auth", "geo", "user"}, inFlight[s] > 0,
         AuthAnswer \/ GeoAnswer \/ StepFails(s),
         inFlight' = Answered(s) \/ inFlight' = Issued(Answered(s), "geo")
                                \/ inFlight' = Issued(Answered(s), "user")
  PROVE  FeedInv'
<1>1. UNCHANGED feedVars /\ faults' = faults
  BY DEF AuthAnswer, GeoAnswer, StepFails, deviceVars, backendVars, serviceVars,
         deckVars, feedVars
<1>2. inFlight'["pets"] = 0
  <2>1. s \in Steps /\ "pets" \in Steps \ {"geo", "user"} /\ {"geo", "user"} \subseteq Steps
    BY DEF Steps
  <2>2. Answered(s) = NoCalls
    BY <2>1, AnsweredAlone
  <2>3. /\ NoCalls["pets"] = 0 /\ Issued(NoCalls, "geo")["pets"] = 0
        /\ Issued(NoCalls, "user")["pets"] = 0
    BY <2>1, OneCall
  <2> QED
    BY <2>2, <2>3
<1>3. faults = 0 => Early'
  BY <1>1 DEF FeedInv, Early, feedVars
<1> QED
  BY <1>1, <1>2, <1>3, Quiet

LEMMA AuthFeed == ASSUME IndInv, FeedInv, AuthAnswer PROVE FeedInv'
BY WayFeed DEF AuthAnswer

LEMMA GeoFeed == ASSUME IndInv, FeedInv, GeoAnswer PROVE FeedInv'
BY WayFeed DEF GeoAnswer

LEMMA StepFailsFeed ==
  ASSUME IndInv, FeedInv, NEW s \in Steps, StepFails(s)
  PROVE  FeedInv'
<1>1. CASE s = "pets"
  <2>1. /\ UNCHANGED feedVars /\ faults' = faults /\ locationView' = FALSE
        /\ inFlight["pets"] > 0 /\ inFlight' = Answered("pets")
    BY <1>1 DEF StepFails, Fail, deviceVars, backendVars, serviceVars, deckVars, feedVars
  <2>2. \A t \in Steps : inFlight'[t] = 0
    BY <2>1, AnsweredAlone, OneCall DEF Steps
  <2>3. faults = 0 => Early'
    BY <2>1, <2>2 DEF FeedInv, Early, feedVars, Steps
  <2> QED
    BY <2>1, <2>2, <2>3, Quiet DEF Steps
<1>2. CASE s # "pets"
  BY <1>2, WayFeed DEF StepFails
<1> QED
  BY <1>1, <1>2

LEMMA UserFeed == ASSUME IndInv, FeedInv, UserAnswer PROVE FeedInv'
<1> SUFFICES ASSUME faults' = 0 PROVE Early' /\ Ordered' /\ Known' /\ OneFate'
  BY DEF FeedInv
<1>1. /\ inFlight["user"] > 0 /\ hasUser' = TRUE /\ ids' = Recorded
      /\ UNCHANGED <<deviceVars, backendVars, location, lastOffset, deckVars, viewVars>>
      /\ location => inFlight' = Issued(Answered("user"), "pets") /\ asked' = 0
      /\ ~location => inFlight' = Answered("user")
  BY DEF UserAnswer
<1>2. Early /\ Ordered /\ Known /\ OneFate
  BY <1>1 DEF FeedInv, deviceVars
<1>3. list = <<>> /\ lastOffset = Nil
  BY <1>1, <1>2 DEF Early
<1>4. list' = <<>> /\ lastOffset' = Nil /\ Recorded' = Recorded
  BY <1>1, <1>3 DEF deckVars, backendVars, Recorded
<1>5. inFlight'["pets"] > 0 => asked' = 0
  <2>1. "user" \in Steps /\ "pets" \in Steps
    BY DEF Steps
  <2>2. Answered("user")["pets"] = 0
    BY <1>1, <2>1, AnsweredAlone, OneCall
  <2> QED
    BY <1>1, <2>2
<1>6. Early'
  BY <1>1, <1>4 DEF Early
<1>7. Ordered'
  BY <1>4, <1>5 DEF Ordered, Reached
<1>8. Known'
  BY <1>1, <1>4 DEF Known
<1>9. OneFate'
  BY <1>1, <1>2 DEF OneFate, Liked, Disliked, backendVars
<1> QED
  BY <1>6, <1>7, <1>8, <1>9

\* What a listing is: its elements, in increasing order.
LEMMA ListingOrder ==
  ASSUME NEW S \in SUBSET Pets, NEW batch \in Listing(S)
  PROVE  /\ \A i \in 1..Len(batch) : batch[i] \in S
         /\ \A i, j \in 1..Len(batch) : i < j => batch[i] < batch[j]
<1>1. IsFiniteSet(Pets)
  BY SizeAssumption, FS_Interval DEF Pets
<1>2. Cardinality(S) \in Nat
  BY <1>1, FS_Subset, FS_CardinalityType
<1>3. /\ batch \in [1..Cardinality(S) -> S]
      /\ \A i, j \in 1..Cardinality(S) : i < j => batch[i] < batch[j]
  BY DEF Listing
<1>4. Len(batch) = Cardinality(S)
  BY <1>2, <1>3, LenProperties
<1> QED
  BY <1>3, <1>4

\* A page reaches from the offset asked for to the next one, past every card.
LEMMA PageRange ==
  ASSUME IndInv, FeedInv, faults = 0, inFlight["pets"] > 0
  PROVE  /\ NextOffset(asked) \in Nat
         /\ \A p \in Page(asked) : asked < p /\ p <= NextOffset(asked)
         /\ \A i \in 1..Len(list) : list[i] <= asked /\ list[i] <= NextOffset(asked)
<1>1. asked \in Nat /\ CatalogueSize \in Nat /\ Batch \in Nat /\ Batch > 0
  BY FeedTypes, SizeAssumption, BatchAssumption
<1>2. \A p \in Pets : p \in Nat /\ p <= CatalogueSize
  BY <1>1 DEF Pets
<1>3. \A i \in 1..Len(list) : list[i] \in Pets /\ list[i] <= asked
  BY FeedTypes DEF FeedInv, Ordered
<1> QED
  BY <1>1, <1>2, <1>3 DEF NextOffset, Page

\* The lists of cards before and after a page, index by index.
LEMMA Appended ==
  ASSUME IndInv, NEW batch \in Seq(Pets), list' = list \o batch
  PROVE  /\ \A i \in 1..Len(list') :
              \/ i \in 1..Len(list) /\ list'[i] = list[i]
              \/ /\ i - Len(list) \in 1..Len(batch) /\ i \notin 1..Len(list)
                 /\ list'[i] = batch[i - Len(list)]
         /\ \A i \in 1..Len(list) : list'[i] = list[i]
<1>1. list \in Seq(Pets) /\ Len(list) \in Nat /\ Len(batch) \in Nat
  BY FeedTypes, LenProperties
<1>2. /\ Len(list') = Len(list) + Len(batch)
      /\ \A i \in 1..Len(list) + Len(batch) :
           list'[i] = IF i <= Len(list) THEN list[i] ELSE batch[i - Len(list)]
  BY <1>1, ConcatProperties
<1> QED
  BY <1>1, <1>2

\* A page that adds cards.
LEMMA ShowFeed ==
  ASSUME IndInv, FeedInv, faults = 0, inFlight["pets"] > 0, hasUser = TRUE,
         NEW pets \in SUBSET Page(asked), NEW batch \in Listing(pets \ ids),
         inFlight' = Answered("pets"), Show(batch), lastOffset' = NextOffset(asked),
         UNCHANGED <<backendVars, hasUser, ids>>
  PROVE  Early' /\ Ordered' /\ Known' /\ OneFate'
<1>1. Early /\ Ordered /\ Known /\ OneFate
  BY DEF FeedInv
<1>2. /\ locationView' = FALSE /\ list' = list \o batch /\ UNCHANGED <<cur, flying>>
  BY DEF Show
<1>3. \A s \in Steps : inFlight'[s] = 0
  BY AnsweredAlone, OneCall DEF Steps
<1>4. pets \ ids \in SUBSET Pets
  BY DEF Page
<1>5. batch \in Seq(Pets)
  BY <1>4, ListingType
<1>6. /\ \A i \in 1..Len(batch) : batch[i] \in pets \ ids
      /\ \A i, j \in 1..Len(batch) : i < j => batch[i] < batch[j]
  BY <1>4, ListingOrder
<1>7. NextOffset(asked) \in Nat /\ Reached' = NextOffset(asked)
  BY PageRange, NilAssumption DEF Reached
<1>8. \A i \in 1..Len(batch) :
        /\ batch[i] \in Nat /\ asked < batch[i] /\ batch[i] <= NextOffset(asked)
        /\ batch[i] \notin ids
  <2>1. \A i \in 1..Len(batch) : batch[i] \in Page(asked) /\ batch[i] \in Pets
    BY <1>4, <1>6
  <2>2. \A p \in Pets : p \in Nat
    BY SizeAssumption DEF Pets
  <2> QED
    BY <1>6, <2>1, <2>2, PageRange
<1>9. /\ Len(list) \in Nat /\ asked \in Nat
      /\ \A i \in 1..Len(list) : list[i] \in Nat /\ list[i] <= asked /\ list[i] <= NextOffset(asked)
  BY FeedTypes, PageRange
<1>10. \A i \in 1..Len(list') :
         \/ i \in 1..Len(list) /\ list'[i] = list[i]
         \/ /\ i - Len(list) \in 1..Len(batch) /\ i \notin 1..Len(list)
            /\ list'[i] = batch[i - Len(list)]
  BY <1>2, <1>5, Appended
<1>11. Early'
  BY <1>2, <1>3 DEF Early, Steps
<1>12. Ordered'
  <2>1. \A i \in 1..Len(list') : list'[i] <= Reached'
    BY <1>7, <1>8, <1>9, <1>10
  <2>2. ASSUME NEW i \in 1..Len(list'), NEW j \in 1..Len(list'), i < j
        PROVE  list'[i] < list'[j]
    <3>1. CASE j \in 1..Len(list)
      <4>1. i \in 1..Len(list)
        BY <1>9, <2>2, <3>1
      <4> QED
        BY <1>1, <1>10, <2>2, <3>1, <4>1 DEF Ordered
    <3>2. CASE j \notin 1..Len(list) /\ i \in 1..Len(list)
      BY <1>8, <1>9, <1>10, <3>2
    <3>3. CASE j \notin 1..Len(list) /\ i \notin 1..Len(list)
      <4>1. /\ i - Len(list) \in 1..Len(batch) /\ list'[i] = batch[i - Len(list)]
            /\ j - Len(list) \in 1..Len(batch) /\ list'[j] = batch[j - Len(list)]
        BY <1>10, <3>3
      <4>2. i - Len(list) < j - Len(list)
        BY <1>9, <2>2
      <4> QED
        BY <1>6, <4>1, <4>2
    <3> QED
      BY <3>1, <3>2, <3>3
  <2>3. ~(inFlight'["pets"] > 0)
    BY <1>3 DEF Steps
  <2> QED
    BY <2>1, <2>2, <2>3 DEF Ordered
<1>13. Known'
  <2>1. \A i \in 1..Len(list') : list'[i] \notin ids
    BY <1>1, <1>8, <1>10 DEF Known
  <2>2. Recorded' = Recorded /\ SwipesReported' = SwipesReported
    BY <1>2 DEF Recorded, SwipesReported, backendVars
  <2>3. \A i \in 1..SwipesReported : list'[i] = list[i]
    BY <1>2, <1>5, Appended, FeedTypes
  <2> QED
    BY <1>1, <2>1, <2>2, <2>3 DEF Known
<1>14. OneFate'
  BY <1>1 DEF OneFate, Liked, Disliked, backendVars
<1> QED
  BY <1>11, <1>12, <1>13, <1>14

LEMMA PageFeed == ASSUME IndInv, FeedInv, PageAnswer PROVE FeedInv'
<1> SUFFICES ASSUME faults' = 0 PROVE Early' /\ Ordered' /\ Known' /\ OneFate'
  BY DEF FeedInv
<1>1. faults = 0
  BY DEF PageAnswer
<1>2. PICK pets \in SUBSET Page(asked) : Deliver(pets, NextOffset(asked))
  BY DEF PageAnswer
<1>3. /\ inFlight["pets"] > 0 /\ lastOffset' = NextOffset(asked)
      /\ UNCHANGED <<net, permission, signedIn, backendVars, location, hasUser, ids>>
  BY <1>2 DEF Deliver
<1>4. hasUser = TRUE /\ location = TRUE
  BY <1>3 DEF IndInv, Shape, QueryComplete, TypeOK, ServiceType
<1>5. PICK batch \in Listing(pets \ ids) :
        IF batch = <<>>
          THEN RepeatQuery(Answered("pets"), spinner, NextOffset(asked)) /\ UNCHANGED deckVars
          ELSE inFlight' = Answered("pets") /\ Show(batch) /\ UNCHANGED <<asked, round>>
  BY <1>2, <1>4 DEF Deliver
<1>6. CASE batch # <<>>
  BY <1>1, <1>3, <1>4, <1>5, <1>6, ShowFeed
<1>7. CASE batch = <<>>
  <2>1. Early /\ Ordered /\ Known /\ OneFate
    BY <1>1 DEF FeedInv
  <2>2. NextOffset(asked) \in Nat /\ Reached' = NextOffset(asked)
    BY <1>1, <1>3, PageRange, NilAssumption DEF Reached
  <2>3. /\ UNCHANGED viewVars /\ UNCHANGED deckVars
        /\ \/ inFlight' = Issued(Answered("pets"), "pets") /\ asked' = NextOffset(asked)
           \/ inFlight' = Answered("pets")
    BY <1>4, <1>5, <1>7, <2>2, RepeatCases
  <2>4. /\ \A s \in Steps \ {"pets"} : inFlight'[s] = 0
        /\ inFlight'["pets"] > 0 => asked' = NextOffset(asked)
        /\ locationView = FALSE
    <3>1. "pets" \in Steps
      BY DEF Steps
    <3>2. Answered("pets") = NoCalls /\ locationView = FALSE
      BY <1>3, <3>1, AnsweredAlone
    <3> QED
      BY <2>3, <3>1, <3>2, OneCall
  <2>5. Early'
    BY <1>3, <1>4, <2>3, <2>4 DEF Early, Steps, viewVars
  <2>6. Ordered'
    <3>1. \A i \in 1..Len(list) : list[i] <= Reached'
      BY <1>1, <1>3, <2>2, PageRange
    <3> QED
      BY <2>1, <2>2, <2>3, <2>4, <3>1 DEF Ordered, deckVars
  <2>7. Known' /\ OneFate'
    BY <1>3, <2>1, <2>3
    DEF Known, OneFate, Liked, Disliked, Recorded, SwipesReported, backendVars, deckVars
  <2> QED
    BY <2>5, <2>6, <2>7
<1> QED
  BY <1>6, <1>7

-----------------------------------------------------------------------------
(* The deck *)

LEMMA SwipeFeed ==
  ASSUME IndInv, FeedInv, NEW d \in Directions, Swipe(d)
  PROVE  FeedInv'
<1>1. /\ flying = Nil /\ cur < count /\ cur' = cur + 1 /\ faults' = faults
      /\ UNCHANGED <<saved, rejected, serviceVars, list, count>>
  BY DEF Swipe, deviceVars
<1>2. /\ count = Len(list) /\ Len(list) \in Nat /\ cur \in Nat /\ SwipesReported = cur
  BY <1>1, FeedTypes DEF SwipesReported
<1>3. /\ inFlight = NoCalls /\ location = TRUE /\ hasUser = TRUE /\ lastOffset \in Nat
  BY <1>1, NoCallWithCards DEF IndInv, Shape, QueryComplete, TypeOK, ServiceType
<1>4. list # <<>>
  BY <1>1, <1>2, EmptySeq
<1>5. CASE cur + 1 < count
  <2>1. /\ flying' = d /\ UNCHANGED <<pending, inFlight, asked, viewVars>>
    BY <1>5 DEF Swipe
  <2>2. SwipesReported' = SwipesReported
    BY <1>1, <1>2, <2>1, NilAssumption DEF SwipesReported
  <2>3. Recorded' = Recorded /\ Reached' = Reached
    BY <1>1, <2>1 DEF Recorded, Reached, serviceVars
  <2> QED
    BY <1>1, <2>1, <2>2, <2>3
    DEF FeedInv, Early, Ordered, Known, OneFate, Liked, Disliked, serviceVars, viewVars
<1>6. CASE ~(cur + 1 < count)
  <2>1. /\ flying' = Nil /\ Record(d, PetAt(cur))
        /\ RepeatQuery(inFlight, Started(spinner), lastOffset)
    BY <1>1, <1>6 DEF Swipe
  <2>2. SwipesReported' = SwipesReported + 1 /\ SwipesReported + 1 \in 1..Len(list)
    BY <1>1, <1>2, <2>1 DEF SwipesReported
  <2>3. pending' = pending \cup {<<d, list[SwipesReported + 1]>>}
    BY <1>2, <1>3, <2>1 DEF Record, PetAt
  <2>4. /\ UNCHANGED viewVars
        /\ \/ inFlight' = Issued(NoCalls, "pets") /\ asked' = lastOffset
           \/ inFlight' = NoCalls
    BY <1>3, <2>1, RepeatCases
  <2>5. /\ \A s \in Steps \ {"pets"} : inFlight'[s] = 0
        /\ inFlight'["pets"] > 0 => asked' = lastOffset
    <3>1. "pets" \in Steps
      BY DEF Steps
    <3> QED
      BY <2>4, <3>1, OneCall
  <2>6. faults = 0 => Early'
    <3>1. faults = 0 => ~locationView
      BY <1>4 DEF FeedInv, Early
    <3> QED
      BY <1>1, <1>3, <2>4, <2>5, <3>1 DEF Early, Steps, viewVars, serviceVars
  <2>7. inFlight'["pets"] > 0 => asked' = Reached
    BY <1>3, <2>5, NilAssumption DEF Reached
  <2> QED
    BY <1>1, <2>2, <2>3, <2>6, <2>7, RecordFeed DEF serviceVars
<1> QED
  BY <1>5, <1>6

LEMMA SwipeEndsFeed == ASSUME IndInv, FeedInv, SwipeEnds PROVE FeedInv'
<1>1. /\ flying # Nil /\ flying' = Nil /\ Record(flying, PetAt(cur - 1)) /\ faults' = faults
      /\ UNCHANGED <<saved, rejected, callVars, serviceVars, list, count, cur, viewVars>>
  BY DEF SwipeEnds, deviceVars
<1>2. /\ flying \in Directions /\ cur \in Nat /\ 0 < cur /\ cur < count
      /\ count = Len(list) /\ Len(list) \in Nat
  BY <1>1, FeedTypes DEF IndInv, TypeOK, DeckType, Shape, CallbacksInRange
<1>3. hasUser = TRUE
  BY <1>2 DEF IndInv, Shape, QueryComplete, TypeOK, ServiceType
<1>4. /\ SwipesReported' = SwipesReported + 1 /\ SwipesReported + 1 = cur
      /\ SwipesReported + 1 \in 1..Len(list)
  BY <1>1, <1>2 DEF SwipesReported
<1>5. pending' = pending \cup {<<flying, list[SwipesReported + 1]>>}
  <2>1. (cur - 1) + 1 = cur
    BY <1>2
  <2> QED
    BY <1>1, <1>3, <1>4, <2>1 DEF Record, PetAt
<1>6. faults = 0 => Early' /\ (inFlight'["pets"] > 0 => asked' = Reached)
  BY <1>1 DEF FeedInv, Early, Ordered, callVars, serviceVars, viewVars
<1> QED
  BY <1>1, <1>2, <1>4, <1>5, <1>6, RecordFeed DEF serviceVars

-----------------------------------------------------------------------------
(* The explanations *)

\* A call in flight finds the deck visible.
LEMMA VisibleWithCall ==
  ASSUME IndInv, HiddenExplained, faults = 0, NEW s \in Steps, inFlight[s] > 0
  PROVE  /\ hidden = FALSE /\ locationView = FALSE /\ errorView = FALSE
         /\ Answered(s) = NoCalls /\ cur = count
<1>1. inFlight # NoCalls
  BY OneCall
<1>2. hidden \in BOOLEAN /\ locationView \in BOOLEAN /\ errorView \in BOOLEAN
  BY DEF IndInv, TypeOK, ScreenType
<1>3. ~hidden /\ ~locationView /\ ~errorView
  BY <1>1 DEF HiddenExplained
<1> QED
  BY <1>2, <1>3, AnsweredAlone

LEMMA AnswersExplained ==
  ASSUME IndInv, HiddenExplained,
         AuthAnswer \/ GeoAnswer \/ UserAnswer \/ \E s \in Steps : StepFails(s)
  PROVE  HiddenExplained'
<1> SUFFICES ASSUME faults = 0 PROVE HiddenExplained'
  BY DEF HiddenExplained, AuthAnswer, GeoAnswer, UserAnswer, StepFails, deviceVars
<1>1. PICK s \in Steps : /\ inFlight[s] > 0 /\ cur' = cur /\ count' = count
                        /\ \/ UNCHANGED viewVars
                           \/ /\ inFlight' = Answered(s) /\ hidden' = TRUE
                              /\ locationView' = ~errorView' /\ errorView' \in BOOLEAN
  BY DEF AuthAnswer, GeoAnswer, UserAnswer, StepFails, Fail, Steps, deckVars
<1>2. /\ hidden = FALSE /\ locationView = FALSE /\ errorView = FALSE
      /\ Answered(s) = NoCalls /\ cur = count
  BY <1>1, VisibleWithCall
<1> QED
  BY <1>1, <1>2 DEF HiddenExplained, viewVars

LEMMA PageExplained == ASSUME IndInv, HiddenExplained, PageAnswer PROVE HiddenExplained'
<1> SUFFICES ASSUME faults = 0 PROVE HiddenExplained'
  BY DEF HiddenExplained, PageAnswer
<1>1. PICK pets \in SUBSET Pets : Deliver(pets, NextOffset(asked))
  BY DEF PageAnswer, Page
<1>2. inFlight["pets"] > 0 /\ "pets" \in Steps /\ location' = location
  BY <1>1 DEF Deliver, Steps
<1>3. hidden = FALSE /\ locationView = FALSE /\ errorView = FALSE
  BY <1>2, VisibleWithCall
<1>4. hasUser = TRUE /\ location = TRUE
  BY <1>2 DEF IndInv, Shape, QueryComplete, TypeOK, ServiceType
<1>5. NextOffset(asked) \in Nat
  BY SizeAssumption, BatchAssumption DEF NextOffset, IndInv, TypeOK, ServiceType
<1>6. hidden' = FALSE /\ locationView' = FALSE /\ errorView' = FALSE
  <2>1. PICK batch \in Listing(pets \ ids) :
          IF batch = <<>>
            THEN RepeatQuery(Answered("pets"), spinner, NextOffset(asked))
            ELSE Show(batch)
    BY <1>1, <1>4 DEF Deliver
  <2>2. CASE batch = <<>>
    BY <1>3, <1>4, <1>5, <2>1, <2>2, RepeatCases DEF viewVars
  <2>3. CASE batch # <<>>
    BY <1>3, <2>1, <2>3 DEF Show
  <2> QED
    BY <2>2, <2>3
<1> QED
  BY <1>6 DEF HiddenExplained

LEMMA DeckExplained ==
  ASSUME IndInv, HiddenExplained, (\E d \in Directions : Swipe(d)) \/ SwipeEnds
  PROVE  HiddenExplained'
<1> SUFFICES ASSUME faults = 0 PROVE HiddenExplained'
  BY DEF HiddenExplained, Swipe, SwipeEnds, deviceVars
<1>1. cur \in Nat /\ count \in Nat /\ cur < count
  BY DEF Swipe, SwipeEnds, IndInv, TypeOK, DeckType, Shape, CallbacksInRange
<1>2. /\ hidden = FALSE /\ locationView = FALSE /\ errorView = FALSE
  BY <1>1 DEF HiddenExplained, IndInv, TypeOK, ScreenType
<1>3. UNCHANGED viewVars
  <2>1. location = TRUE /\ lastOffset \in Nat
    BY <1>1 DEF IndInv, Shape, QueryComplete, TypeOK, ServiceType
  <2>2. CASE SwipeEnds
    BY <2>2 DEF SwipeEnds
  <2>3. CASE \E d \in Directions : Swipe(d)
    <3>1. UNCHANGED viewVars \/ RepeatQuery(inFlight, Started(spinner), lastOffset)
      BY <2>3 DEF Swipe
    <3> QED
      BY <2>1, <3>1, RepeatCases
  <2> QED
    BY <2>2, <2>3
<1> QED
  BY <1>2, <1>3 DEF HiddenExplained, viewVars

LEMMA ScreensExplained ==
  ASSUME IndInv, HiddenExplained,
         Launch \/ LogIn \/ LogOutSucceeds \/ Relaunch \/ Retry
  PROVE  HiddenExplained'
<1>1. CASE Retry
  <2>1. /\ locationView /\ locationView' = FALSE /\ hidden' = FALSE
        /\ errorView' = errorView /\ faults' = faults
    BY <1>1 DEF Retry, deviceVars
  <2> QED
    BY <2>1 DEF HiddenExplained
<1>2. CASE BlankSession
  BY <1>2 DEF BlankSession, HiddenExplained
<1>3. CASE ~Retry /\ ~BlankSession
  <2>1. UNCHANGED <<viewVars, callVars, deckVars>> /\ faults' = faults
    BY <1>3 DEF Launch, LogIn, LogOutSucceeds, Relaunch, BeginSession, EndSession, deviceVars
  <2> QED
    BY <2>1 DEF HiddenExplained, viewVars, callVars, deckVars, NoCalls
<1> QED
  BY <1>1, <1>2, <1>3

LEMMA SurroundingsExplained ==
  ASSUME HiddenExplained,
         \/ FadeEnds \/ WriteLands \/ NetworkChanges \/ PermissionChanges
         \/ AccountRevoked \/ WriteRefused \/ UNCHANGED vars
  PROVE  HiddenExplained'
<1>1. UNCHANGED <<viewVars, inFlight, cur, count, faults>>
  BY DEF FadeEnds, WriteLands, WriteRefused, NetworkChanges, PermissionChanges,
         AccountRevoked, vars, deviceVars, callVars, deckVars, viewVars
<1> QED
  BY <1>1 DEF HiddenExplained, viewVars, NoCalls

-----------------------------------------------------------------------------
LEMMA FullInit == Init => FullInv
<1> SUFFICES ASSUME Init PROVE FullInv
  OBVIOUS
<1>1. IndInv
  BY InitInd
<1>2. Early /\ Ordered /\ Known
  BY DEF Init, Early, Ordered, Known, NoCalls, Steps
<1>3. OneFate
  BY DEF Init, OneFate, Liked, Disliked
<1>4. HiddenExplained
  BY DEF Init, HiddenExplained
<1> QED
  BY <1>1, <1>2, <1>3, <1>4 DEF FullInv, FeedInv

LEMMA FullNext == ASSUME FullInv, [Next]_vars PROVE FullInv'
<1>1. IndInv /\ FeedInv /\ HiddenExplained
  BY DEF FullInv
<1>2. IndInv'
  BY <1>1, NextInd, StutterInd
<1>3. CASE Launch \/ LogIn \/ LogOutSucceeds \/ Relaunch
  BY <1>1, <1>2, <1>3, ScreensFeed, ScreensExplained DEF FullInv
<1>4. CASE LogOutFails \/ BadAnswer
  BY <1>1, <1>2, <1>4, FaultsFeed DEF FullInv
<1>5. CASE Retry
  BY <1>1, <1>2, <1>5, RetryFeed, ScreensExplained DEF FullInv
<1>6. CASE AuthAnswer \/ GeoAnswer \/ UserAnswer
  BY <1>1, <1>2, <1>6, AuthFeed, GeoFeed, UserFeed, AnswersExplained DEF FullInv
<1>7. CASE \E s \in Steps : StepFails(s)
  BY <1>1, <1>2, <1>7, StepFailsFeed, AnswersExplained DEF FullInv
<1>8. CASE PageAnswer
  BY <1>1, <1>2, <1>8, PageFeed, PageExplained DEF FullInv
<1>9. CASE (\E d \in Directions : Swipe(d)) \/ SwipeEnds
  BY <1>1, <1>2, <1>9, SwipeFeed, SwipeEndsFeed, DeckExplained DEF FullInv
<1>10. CASE WriteLands
  BY <1>1, <1>2, <1>10, WriteFeed, SurroundingsExplained DEF FullInv
<1>11. CASE FadeEnds \/ NetworkChanges \/ PermissionChanges \/ AccountRevoked \/ UNCHANGED vars
  BY <1>1, <1>2, <1>11, SurroundingsFeed, SurroundingsExplained DEF FullInv
<1>12. CASE WriteRefused
  BY <1>1, <1>2, <1>12, RefusedFeed, SurroundingsExplained DEF FullInv
<1> QED
  BY <1>3, <1>4, <1>5, <1>6, <1>7, <1>8, <1>9, <1>10, <1>11, <1>12 DEF Next

\* The deck, the offsets, the snapshot and the record stay in step.
THEOREM FeedInvariant == Spec => []FullInv
<1>1. Init => FullInv
  BY FullInit
<1>2. FullInv /\ [Next]_vars => FullInv'
  BY FullNext
<1> QED
  BY <1>1, <1>2, PTL DEF Spec

\* Without faults no pet is shown twice in a session, and no card left in the
\* deck is one the user has decided on.
THEOREM FeedIsFresh == Spec => []FeedNeverRepeats
<1>1. FullInv => FeedNeverRepeats
  <2> SUFFICES ASSUME FullInv, faults = 0
               PROVE  /\ \A i, j \in 1..Len(list) : list[i] = list[j] => i = j
                      /\ \A i \in cur + 1 .. Len(list) : list[i] \notin Recorded
    BY DEF FeedNeverRepeats
  <2>1. IndInv /\ FeedInv /\ Ordered
    BY DEF FullInv, FeedInv
  <2>2. Len(list) \in Nat /\ \A i \in 1..Len(list) : list[i] \in Nat
    BY <2>1, FeedTypes
  <2>3. ASSUME NEW i \in 1..Len(list), NEW j \in 1..Len(list), list[i] = list[j]
        PROVE  i = j
    <3>1. ~(list[i] < list[j]) /\ ~(list[j] < list[i])
      BY <2>2, <2>3
    <3>2. ~(i < j) /\ ~(j < i)
      BY <2>1, <3>1 DEF Ordered
    <3> QED
      BY <2>2, <3>2
  <2>4. \A i \in cur + 1 .. Len(list) : i \in SwipesReported + 1 .. Len(list)
    BY <2>1, FeedTypes
  <2> QED
    BY <2>1, <2>3, <2>4, NotYetRecorded
<1> QED
  BY <1>1, FeedInvariant, PTL

\* Without faults no pet is both saved and rejected.
THEOREM FateIsOne == Spec => []NeverSavedAndRejected
<1>1. FullInv => NeverSavedAndRejected
  BY DEF FullInv, FeedInv, OneFate, Liked, Disliked, NeverSavedAndRejected
<1> QED
  BY <1>1, FeedInvariant, PTL

\* Without faults the deck is hidden exactly while one explanation is shown.
THEOREM HiddenIsExplained == Spec => []HiddenExplained
<1>1. FullInv => HiddenExplained
  BY DEF FullInv
<1> QED
  BY <1>1, FeedInvariant, PTL
=============================================================================
