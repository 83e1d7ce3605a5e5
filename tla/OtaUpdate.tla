----------------------------- MODULE OtaUpdate -----------------------------
(***************************************************************************)
(* Updates over the air: OTAManager.cpp, armed by POST /api/ota_arm in the *)
(* network task and served by loop(), after WiFiManager.cpp's watchdog.    *)
(*                                                                         *)
(* The two tasks interleave between any two accesses to shared fields. An  *)
(* upload runs inside ArduinoOTA.handle(): the loop task does nothing else *)
(* until it ends. Time is a counter that wraps, as millis() does.          *)
(***************************************************************************)
EXTENDS Integers

CONSTANTS
    windowSeconds,               \* of /ota.json, in units of the model's time
    CONNECT_ATTEMPT_TIMEOUT_MS, WIFI_CHECK_INTERVAL_MS,
    Wrap,                        \* values of a 32-bit millisecond counter
    MaxLag,                      \* time a pass of loop() may take, an upload included
    MaxArmed                     \* bound

ASSUME OtaAssumption ==
    /\ {windowSeconds, CONNECT_ATTEMPT_TIMEOUT_MS, WIFI_CHECK_INTERVAL_MS, MaxLag} \subseteq Nat \ {0}
    /\ Wrap \in Nat /\ 2 * (windowSeconds + MaxLag) < Wrap
    /\ MaxArmed \in Nat

VARIABLES
    now,        \* millis()
    lag,        \* time since the loop task last looked at the clock
    wifi,       \* WiFi.status() is WL_CONNECTED
    connecting, connectAge, checkAge, \* WiFiManager; ages are now minus its timestamps
    configValid, armed, armedUntilMs, started, inProgress, \* OTAManager
    loopAt, webAt, \* where the two tasks are
    lastCommand, \* what is being uploaded
    armings, due, overlapped \* history: requests, a window that must be open, its exception

wifiVars == <<connecting, connectAge, checkAge>>
ota      == <<configValid, armed, armedUntilMs, started, inProgress, lastCommand>>
clock    == <<now, lag>>
history  == <<armings, due, overlapped>>
vars     == <<clock, wifi, wifiVars, ota, loopAt, webAt, history>>
-----------------------------------------------------------------------------
\* static_cast<long>(armedUntilMs - now), for readings u and n
Signed(u, n) == LET d == (u - n) % Wrap IN IF 2 * d >= Wrap THEN d - Wrap ELSE d

\* refreshConfigStatus in setup() may find /ota.json or not; last_wifi_check
\* is 0, which counts as long ago
Init == /\ now = 0 /\ lag = 0
        /\ wifi \in BOOLEAN
        /\ connecting = FALSE /\ connectAge = 0 /\ checkAge = WIFI_CHECK_INTERVAL_MS
        /\ configValid \in BOOLEAN
        /\ armed = FALSE /\ armedUntilMs = 0 /\ started = FALSE /\ inProgress = FALSE /\ lastCommand = "none"
        /\ loopAt = "wifi" /\ webAt = "idle"
        /\ armings = 0 /\ due = FALSE /\ overlapped = FALSE

Older(age, most) == IF age < most THEN age + 1 ELSE age

Tick ==
    /\ lag < MaxLag
    /\ lag' = lag + 1 /\ now' = (now + 1) % Wrap
    /\ connectAge' = IF connecting THEN Older(connectAge, CONNECT_ATTEMPT_TIMEOUT_MS) ELSE connectAge
    /\ checkAge' = Older(checkAge, WIFI_CHECK_INTERVAL_MS)
    /\ due' = (due /\ Signed(armedUntilMs, now') > 0)
    /\ UNCHANGED <<wifi, connecting, ota, loopAt, webAt, armings, overlapped>>

WifiChange == /\ wifi' = ~wifi
              /\ UNCHANGED <<clock, wifiVars, ota, loopAt, webAt, history>>
-----------------------------------------------------------------------------
(* loop(): checkWiFiConnection                                              *)

Wifi == /\ loopAt = "wifi" /\ loopAt' = "ota"
        /\ lag' = 0
        /\ UNCHANGED <<now, wifi, ota, webAt, history>>

WifiUp == wifi /\ connecting' = FALSE /\ connectAge' = 0 /\ UNCHANGED checkAge

\* mutant: the attempt that timed out is not given up
AttemptOver_kept == connecting /\ connectAge >= CONNECT_ATTEMPT_TIMEOUT_MS /\ UNCHANGED wifiVars

AttemptOver == /\ connecting /\ connectAge >= CONNECT_ATTEMPT_TIMEOUT_MS
               /\ connecting' = FALSE /\ connectAge' = 0 /\ UNCHANGED checkAge

AttemptRuns == connecting /\ connectAge < CONNECT_ATTEMPT_TIMEOUT_MS /\ UNCHANGED wifiVars

AttemptNew == /\ ~connecting /\ checkAge >= WIFI_CHECK_INTERVAL_MS
              /\ connecting' = TRUE /\ connectAge' = 0 /\ checkAge' = 0

AttemptNotYet == ~connecting /\ checkAge < WIFI_CHECK_INTERVAL_MS /\ UNCHANGED wifiVars

checkWiFiConnection ==
    /\ Wifi
    /\ WifiUp \/ (~wifi /\ (AttemptOver \/ AttemptRuns \/ AttemptNew \/ AttemptNotYet))
-----------------------------------------------------------------------------
(* loop(): OTAManager::loop                                                 *)

Move(from, to) == /\ loopAt = from /\ loopAt' = to
                  /\ UNCHANGED <<wifi, wifiVars, webAt>>

\* mutant: times are compared as unsigned numbers
PastEnd_unsigned == armedUntilMs # 0 /\ armedUntilMs <= now

\* the end of a window at counter value 0 is taken for no end
PastEnd == armedUntilMs # 0 /\ Signed(armedUntilMs, now) <= 0

OtaNotArmed == ~armed /\ Move("ota", "wifi") /\ UNCHANGED <<clock, ota, history>>

OtaExpired == /\ armed /\ ~inProgress /\ PastEnd
              /\ Move("ota", "expire")
              /\ UNCHANGED <<clock, ota, history>>

OtaExpire == /\ Move("expire", "wifi")
             /\ armed' = FALSE
             /\ UNCHANGED <<clock, configValid, armedUntilMs, started, inProgress, lastCommand, history>>

OtaOpen == /\ armed /\ (inProgress \/ ~PastEnd)
           /\ Move("ota", "ensure")
           /\ UNCHANGED <<clock, ota, history>>

\* ensureArduinoOtaStarted, in either task
MayStart == ~started /\ wifi /\ configValid

\* mutant: handle() is called whether the server was started or not
OtaEnsure_unchecked == /\ Move("ensure", IF MayStart THEN "begin" ELSE "handle")
                       /\ UNCHANGED <<clock, ota, history>>

OtaEnsure == /\ Move("ensure", IF MayStart THEN "begin" ELSE IF started THEN "handle" ELSE "wifi")
             /\ UNCHANGED <<clock, ota, history>>

OtaBegin == /\ Move("begin", "handle")
            /\ started' = TRUE
            /\ UNCHANGED <<clock, configValid, armed, armedUntilMs, inProgress, lastCommand, history>>

\* ArduinoOTA.handle with nobody there, or an upload that is refused before it starts
OtaHandle == Move("handle", "wifi") /\ UNCHANGED <<clock, ota, history>>

onStart == /\ Move("handle", "upload")
           /\ inProgress' = TRUE
           /\ lastCommand' \in {"firmware", "filesystem"}
           /\ UNCHANGED <<clock, configValid, armed, armedUntilMs, started, history>>

\* a new firmware waits for the restart that follows the filesystem
onEnd == /\ lastCommand = "firmware"
         /\ Move("upload", "wifi")
         /\ inProgress' = FALSE
         /\ UNCHANGED <<clock, configValid, armed, armedUntilMs, started, lastCommand, history>>

Restart == /\ loopAt = "upload" /\ lastCommand = "filesystem"
           /\ now' = 0 /\ lag' = 0
           /\ connecting' = FALSE /\ connectAge' = 0 /\ checkAge' = WIFI_CHECK_INTERVAL_MS
           /\ configValid' \in BOOLEAN
           /\ armed' = FALSE /\ armedUntilMs' = 0 /\ started' = FALSE /\ inProgress' = FALSE /\ lastCommand' = "none"
           /\ loopAt' = "wifi" /\ webAt' = "idle"
           /\ due' = FALSE /\ overlapped' = FALSE
           /\ UNCHANGED <<wifi, armings>>

\* mutant: the upload that failed counts as one in progress
onError_kept == Move("upload", "wifi") /\ UNCHANGED <<clock, ota, history>>

onError == /\ Move("upload", "wifi")
           /\ inProgress' = FALSE
           /\ UNCHANGED <<clock, configValid, armed, armedUntilMs, started, lastCommand, history>>
-----------------------------------------------------------------------------
(* POST /api/ota_arm: armFromWeb                                            *)

Web(from, to) == /\ webAt = from /\ webAt' = to
                 /\ UNCHANGED <<clock, wifi, wifiVars, loopAt, inProgress, lastCommand>>

\* loadConfig: the settings are invalid until they have been read
armFromWeb == /\ armings < MaxArmed /\ armings' = armings + 1
              /\ Web("idle", "load")
              /\ configValid' = FALSE
              /\ UNCHANGED <<armed, armedUntilMs, started, due, overlapped>>

LoadFails == Web("load", "idle") /\ UNCHANGED <<configValid, armed, armedUntilMs, started, history>>

LoadConfig == /\ Web("load", "until")
              /\ configValid' = TRUE
              /\ UNCHANGED <<armed, armedUntilMs, started, history>>

ArmUntil == /\ Web("until", "armed")
            /\ armedUntilMs' = (now + windowSeconds) % Wrap
            /\ UNCHANGED <<configValid, armed, started, history>>

\* A window that the loop task is about to close is lost: the exception.
Arm == /\ Web("armed", "ensure")
       /\ armed' = TRUE
       /\ due' = (Signed(armedUntilMs, now) > 0)
       /\ overlapped' = (loopAt = "expire")
       /\ UNCHANGED <<configValid, armedUntilMs, started, armings>>

WebEnsure == /\ Web("ensure", IF MayStart THEN "begin" ELSE "idle")
             /\ UNCHANGED <<configValid, armed, armedUntilMs, started, history>>

WebBegin == /\ Web("begin", "idle")
            /\ started' = TRUE
            /\ UNCHANGED <<configValid, armed, armedUntilMs, history>>
-----------------------------------------------------------------------------
Idle   == checkWiFiConnection \/ OtaNotArmed
Serve  == OtaOpen \/ OtaEnsure \/ OtaBegin \/ OtaHandle \/ onStart
Upload == onEnd \/ onError \/ Restart
Loop   == Idle \/ OtaExpired \/ OtaExpire \/ Serve \/ Upload
Handler == armFromWeb \/ LoadFails \/ LoadConfig \/ ArmUntil \/ Arm \/ WebEnsure \/ WebBegin

Next == Tick \/ WifiChange \/ Loop \/ Handler

\* loop() is called again and again, an upload ends one way or the other, and
\* time passes.
Spec == Init /\ [][Next]_vars /\ WF_vars(Loop) /\ WF_vars(Tick)
-----------------------------------------------------------------------------
(* Types, and what the tasks may rely on of each other: an upload is in    *)
(* progress exactly while the loop task is in handle(), which it entered   *)
(* with a server that had been started.                                    *)
TypeOK ==
    /\ now \in 0 .. Wrap - 1 /\ armedUntilMs \in 0 .. Wrap - 1
    /\ connectAge \in 0 .. CONNECT_ATTEMPT_TIMEOUT_MS /\ checkAge \in 0 .. WIFI_CHECK_INTERVAL_MS
    /\ inProgress = (loopAt = "upload")
    /\ loopAt \in {"handle", "upload"} => started

(* A window that the web page was told of stays open to its end, across    *)
(* the wrap of the counter and whatever was armed before, unless the loop  *)
(* task had already decided to close the one before it.                    *)
ArmingHonoured == due => armed \/ overlapped

(* Every window closes, also after uploads that failed, unless it was to   *)
(* end at counter value 0.                                                 *)
WindowCloses == armed ~> (~armed \/ armedUntilMs = 0)

(* While WiFi is down the watchdog tries again and again: no attempt is    *)
(* waited for forever, whatever the loop task does in between.             *)
WifiRetried == /\ (~wifi /\ ~connecting) ~> (wifi \/ connecting)
               /\ connecting ~> (wifi \/ ~connecting)
=============================================================================
