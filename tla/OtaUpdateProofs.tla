--------------------------- MODULE OtaUpdateProofs ---------------------------
(***************************************************************************)
(* Theorems about OtaUpdate for every window, interval and counter width.  *)
(***************************************************************************)
EXTENDS OtaUpdate, TLAPS

-----------------------------------------------------------------------------
(***************************************************************************)
(* The inductive invariant.                                                *)
(***************************************************************************)
ClockType == now \in 0 .. Wrap - 1 /\ armedUntilMs \in 0 .. Wrap - 1

AgeType == connectAge \in 0 .. CONNECT_ATTEMPT_TIMEOUT_MS /\ checkAge \in 0 .. WIFI_CHECK_INTERVAL_MS

ServerState ==
  /\ inProgress = (loopAt = "upload")
  /\ loopAt \in {"handle", "upload"} => started

\* A window that must be open has not reached its end.
DueInFuture == due => Signed(armedUntilMs, now) > 0

\* The loop task that is about to close a window has seen its end, unless
\* another request came in between.
ExpireJustified == loopAt = "expire" => ~due \/ overlapped

OtaInv == TypeOK /\ DueInFuture /\ ExpireJustified /\ ArmingHonoured

-----------------------------------------------------------------------------
(***************************************************************************)
(* Arithmetic of the counter.                                              *)
(***************************************************************************)
LEMMA Remainder ==
  ASSUME NEW r \in 0 .. Wrap - 1, NEW x \in Int,
         x = r \/ x = r + Wrap \/ x = r - Wrap
  PROVE  x % Wrap = r
<1>1. Wrap \in Nat /\ Wrap > 0
  BY OtaAssumption
<1>2. CASE x = r
  BY <1>1, <1>2
<1>3. CASE x = r + Wrap
  <2>1. x = 1 * Wrap + r
    BY <1>1, <1>3
  <2> QED
    BY <1>1, <2>1
<1>4. CASE x = r - Wrap
  <2>1. x = (-1) * Wrap + r
    BY <1>1, <1>4
  <2> QED
    BY <1>1, <2>1
<1> QED
  BY <1>2, <1>3, <1>4

\* A window set now lies in the future, though its end may have wrapped.
LEMMA WindowAhead ==
  ASSUME NEW n \in 0 .. Wrap - 1
  PROVE  /\ (n + windowSeconds) % Wrap \in 0 .. Wrap - 1
         /\ Signed((n + windowSeconds) % Wrap, n) = windowSeconds
<1>1. windowSeconds \in 1 .. Wrap - 1 /\ 2 * windowSeconds < Wrap /\ Wrap \in Nat
  BY OtaAssumption
<1> DEFINE u == IF n + windowSeconds < Wrap THEN n + windowSeconds ELSE n + windowSeconds - Wrap
<1>2. u \in 0 .. Wrap - 1 /\ (n + windowSeconds = u \/ n + windowSeconds = u + Wrap)
  BY <1>1
<1>3. (n + windowSeconds) % Wrap = u
  <2> HIDE DEF u
  <2> QED
    BY <1>1, <1>2, Remainder
<1>4. u - n \in Int /\ (u - n = windowSeconds \/ u - n = windowSeconds - Wrap)
  BY <1>1
<1>5. (u - n) % Wrap = windowSeconds
  <2> HIDE DEF u
  <2> QED
    BY <1>1, <1>4, Remainder
<1> QED
  <2> HIDE DEF u
  <2> QED
    BY <1>1, <1>2, <1>3, <1>5 DEF Signed

-----------------------------------------------------------------------------
(***************************************************************************)
(* Types, and the state of the server.                                     *)
(***************************************************************************)
LEMMA ClockStep ==
  ASSUME ClockType, [Next]_vars
  PROVE  ClockType'
<1>0. Wrap \in Nat /\ Wrap > 0
  BY OtaAssumption
<1>1. CASE Tick
  <2>1. now' = (now + 1) % Wrap /\ armedUntilMs' = armedUntilMs
    BY <1>1 DEF Tick, ota
  <2> QED
    BY <1>0, <2>1 DEF ClockType
<1>2. CASE ArmUntil
  BY <1>2, WindowAhead DEF ArmUntil, Web, clock, ClockType
<1>3. CASE Restart
  BY <1>0, <1>3 DEF Restart, ClockType
<1>4. CASE ~Tick /\ ~ArmUntil /\ ~Restart
  <2>1. UNCHANGED <<now, armedUntilMs>>
    BY <1>4 DEF Next, Loop, Idle, Serve, Upload, Handler, WifiChange, checkWiFiConnection, Wifi, OtaNotArmed,
                OtaExpired, OtaExpire, OtaOpen, OtaEnsure, OtaBegin, OtaHandle, onStart, onEnd, onError,
                armFromWeb, LoadFails, LoadConfig, Arm, WebEnsure, WebBegin, Web, vars, clock, ota
  <2> QED
    BY <2>1 DEF ClockType
<1> QED
  BY <1>1, <1>2, <1>3, <1>4

LEMMA AgeStep ==
  ASSUME AgeType, [Next]_vars
  PROVE  AgeType'
<1>0. CONNECT_ATTEMPT_TIMEOUT_MS \in Nat /\ WIFI_CHECK_INTERVAL_MS \in Nat
  BY OtaAssumption
<1>1. CASE Tick
  BY <1>0, <1>1 DEF Tick, Older, AgeType
<1>2. CASE checkWiFiConnection
  BY <1>0, <1>2 DEF checkWiFiConnection, WifiUp, AttemptOver, AttemptRuns, AttemptNew, AttemptNotYet, wifiVars, AgeType
<1>3. CASE Restart
  BY <1>0, <1>3 DEF Restart, AgeType
<1>4. CASE ~Tick /\ ~checkWiFiConnection /\ ~Restart
  <2>1. UNCHANGED <<connectAge, checkAge>>
    BY <1>4 DEF Next, Loop, Idle, Serve, Upload, Handler, WifiChange, Move, OtaNotArmed,
                OtaExpired, OtaExpire, OtaOpen, OtaEnsure, OtaBegin, OtaHandle, onStart, onEnd, onError,
                armFromWeb, LoadFails, LoadConfig, ArmUntil, Arm, WebEnsure, WebBegin, Web, vars, wifiVars
  <2> QED
    BY <2>1 DEF AgeType
<1> QED
  BY <1>1, <1>2, <1>3, <1>4

LEMMA ServerStep ==
  ASSUME ServerState, [Next]_vars
  PROVE  ServerState'
<1>1. CASE Tick \/ WifiChange
  BY <1>1 DEF Tick, WifiChange, ota, ServerState
<1>2. CASE checkWiFiConnection \/ OtaNotArmed
  BY <1>2 DEF checkWiFiConnection, Wifi, OtaNotArmed, Move, ota, ServerState
<1>3. CASE OtaExpired \/ OtaExpire
  BY <1>3 DEF OtaExpired, OtaExpire, Move, ota, ServerState
<1>4. CASE OtaOpen \/ OtaBegin \/ OtaHandle \/ onStart
  BY <1>4 DEF OtaOpen, OtaBegin, OtaHandle, onStart, Move, ota, ServerState
<1>5. CASE OtaEnsure
  BY <1>5 DEF OtaEnsure, Move, ota, ServerState
<1>6. CASE onEnd \/ onError \/ Restart
  BY <1>6 DEF onEnd, onError, Restart, Move, ServerState
<1>7. CASE Handler
  BY <1>7 DEF Handler, armFromWeb, LoadFails, LoadConfig, ArmUntil, Arm, WebEnsure, WebBegin, Web, ServerState
<1>8. CASE UNCHANGED vars
  BY <1>8 DEF vars, ota, ServerState
<1> QED
  BY <1>1, <1>2, <1>3, <1>4, <1>5, <1>6, <1>7, <1>8 DEF Next, Loop, Idle, Serve, Upload

-----------------------------------------------------------------------------
(***************************************************************************)
(* The window.                                                             *)
(***************************************************************************)
LEMMA DueStep ==
  ASSUME ClockType, DueInFuture, [Next]_vars
  PROVE  DueInFuture'
<1>1. CASE Tick
  BY <1>1 DEF Tick, ota, DueInFuture, Signed
<1>2. CASE ArmUntil
  <2>1. armedUntilMs' = (now + windowSeconds) % Wrap /\ now' = now
    BY <1>2 DEF ArmUntil, Web, clock
  <2>2. Signed(armedUntilMs', now) > 0
    BY <2>1, WindowAhead, OtaAssumption DEF ClockType
  <2> QED
    BY <2>1, <2>2 DEF DueInFuture, Signed
<1>3. CASE Arm
  BY <1>3 DEF Arm, Web, clock, DueInFuture, Signed
<1>4. CASE Restart
  BY <1>4 DEF Restart, DueInFuture
<1>5. CASE ~Tick /\ ~ArmUntil /\ ~Arm /\ ~Restart
  <2>1. UNCHANGED <<now, armedUntilMs, due>>
    BY <1>5 DEF Next, Loop, Idle, Serve, Upload, Handler, WifiChange, checkWiFiConnection, Wifi, OtaNotArmed,
                OtaExpired, OtaExpire, OtaOpen, OtaEnsure, OtaBegin, OtaHandle, onStart, onEnd, onError,
                armFromWeb, LoadFails, LoadConfig, WebEnsure, WebBegin, Web, vars, clock, ota, history
  <2> QED
    BY <2>1 DEF DueInFuture, Signed
<1> QED
  BY <1>1, <1>2, <1>3, <1>4, <1>5

\* The only steps that close a window, or decide to.
LEMMA HonouredStep ==
  ASSUME ClockType, DueInFuture, ExpireJustified, ArmingHonoured, [Next]_vars
  PROVE  ExpireJustified' /\ ArmingHonoured'
<1>1. CASE OtaExpired
  <2>1. ~due
    <3>1. Signed(armedUntilMs, now) \in Int /\ Signed(armedUntilMs, now) <= 0
      BY <1>1, OtaAssumption DEF OtaExpired, PastEnd, Signed, ClockType
    <3> QED
      BY <3>1 DEF DueInFuture
  <2> QED
    BY <1>1, <2>1 DEF OtaExpired, Move, history, ExpireJustified, ArmingHonoured
<1>2. CASE OtaExpire
  BY <1>2 DEF OtaExpire, Move, history, ExpireJustified, ArmingHonoured
<1>3. CASE Arm
  BY <1>3 DEF Arm, Web, ExpireJustified, ArmingHonoured
<1>4. CASE Restart
  BY <1>4 DEF Restart, ExpireJustified, ArmingHonoured
<1>5. CASE Tick
  BY <1>5 DEF Tick, ota, ExpireJustified, ArmingHonoured
<1>6. CASE ~OtaExpired /\ ~OtaExpire /\ ~Arm /\ ~Restart /\ ~Tick
  <2>1. UNCHANGED <<armed, due, overlapped>>
    BY <1>6 DEF Next, Loop, Idle, Serve, Upload, Handler, WifiChange, checkWiFiConnection, Wifi, OtaNotArmed,
                OtaOpen, OtaEnsure, OtaBegin, OtaHandle, onStart, onEnd, onError,
                armFromWeb, LoadFails, LoadConfig, ArmUntil, WebEnsure, WebBegin, Web, vars, ota, history
  <2>2. loopAt' = "expire" => loopAt = "expire"
    BY <1>6 DEF Next, Loop, Idle, Serve, Upload, Handler, WifiChange, checkWiFiConnection, Wifi, OtaNotArmed,
                OtaOpen, OtaEnsure, OtaBegin, OtaHandle, onStart, onEnd, onError, Move,
                armFromWeb, LoadFails, LoadConfig, ArmUntil, WebEnsure, WebBegin, Web, vars
  <2> QED
    BY <2>1, <2>2 DEF ExpireJustified, ArmingHonoured
<1> QED
  BY <1>1, <1>2, <1>3, <1>4, <1>5, <1>6

-----------------------------------------------------------------------------
(***************************************************************************)
(* The invariant and the theorems.                                         *)
(***************************************************************************)
LEMMA TypeParts == TypeOK <=> ClockType /\ AgeType /\ ServerState
BY DEF TypeOK, ClockType, AgeType, ServerState

LEMMA InitOtaInv == Init => OtaInv
<1> SUFFICES ASSUME Init PROVE OtaInv
  OBVIOUS
<1>1. ClockType /\ AgeType
  BY OtaAssumption DEF Init, ClockType, AgeType
<1>2. ServerState
  BY DEF Init, ServerState
<1>3. DueInFuture /\ ExpireJustified /\ ArmingHonoured
  BY DEF Init, DueInFuture, ExpireJustified, ArmingHonoured
<1> QED
  BY <1>1, <1>2, <1>3, TypeParts DEF OtaInv

LEMMA NextOtaInv == OtaInv /\ [Next]_vars => OtaInv'
<1> SUFFICES ASSUME OtaInv, [Next]_vars PROVE OtaInv'
  OBVIOUS
<1>1. ClockType /\ AgeType /\ ServerState /\ DueInFuture /\ ExpireJustified /\ ArmingHonoured
  BY TypeParts DEF OtaInv
<1>2. ClockType' /\ AgeType' /\ ServerState'
  BY <1>1, ClockStep, AgeStep, ServerStep
<1>3. DueInFuture' /\ ExpireJustified' /\ ArmingHonoured'
  BY <1>1, DueStep, HonouredStep
<1>4. TypeOK'
  BY <1>2 DEF TypeOK, ClockType, AgeType, ServerState
<1> QED
  BY <1>3, <1>4 DEF OtaInv

THEOREM OtaInvariant == Spec => []OtaInv
BY InitOtaInv, NextOtaInv, PTL DEF Spec

\* The counters stay within their ranges, an upload is in progress exactly while
\* loop() is in ArduinoOTA.handle(), and that is called on a started server only.
THEOREM TypeCorrect == Spec => []TypeOK
<1>1. OtaInv => TypeOK
  BY DEF OtaInv
<1> QED
  BY <1>1, OtaInvariant, PTL

\* A window that armFromWeb has announced stays open to its end, wherever the
\* counter wraps, unless the loop task was closing the one before it.
THEOREM ArmingHonouredAlways == Spec => []ArmingHonoured
<1>1. OtaInv => ArmingHonoured
  BY DEF OtaInv
<1> QED
  BY <1>1, OtaInvariant, PTL
=============================================================================
