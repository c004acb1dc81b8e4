------------------------------ MODULE Overload ------------------------------
(***************************************************************************)
(* The overload protection of a track driver (MotorDriver.cpp): the states *)
(* ON, ALERT, OVERLOAD and OFF, the times between them, the doubling wait  *)
(* before a retry and the throttling of the inrush current, with power     *)
(* commands that come between two checks. Drivers meet only in the fault   *)
(* pin, when they share it, and in globalOverloadStart: the other drivers  *)
(* are part of the rails here.                                             *)
(*                                                                         *)
(* Time advances in units of POWER_SAMPLE_IGNORE_FAULT_HIGH, and           *)
(* TrackManager::loop checks the track at least once in a unit. A          *)
(* timestamp is kept as its age, and only while it is read:                *)
(* lastPowerChange[m] is read only in state m, which it was set on         *)
(* entering, so one age is enough. Ages stop at Horizon, as      *)
(* microsSinceLastPowerChange keeps old stamps from wrapping round. The    *)
(* reversal of the polarity by TRACK_MODIFIER_AUTO is left out: nothing    *)
(* here reads it, and the rails may change at any time anyway.             *)
(***************************************************************************)
EXTENDS Integers

CONSTANTS
    OVERLOAD_WAIT, ALL_GOOD, ALERT_GOOD, IGNORE_FAULT_LOW,
    IGNORE_FAULT_HIGH, IGNORE_CURRENT, RETRY_MAX

ASSUME TimesAssumption ==
    /\ {OVERLOAD_WAIT, ALL_GOOD, ALERT_GOOD, IGNORE_FAULT_LOW,
        IGNORE_FAULT_HIGH, IGNORE_CURRENT, RETRY_MAX} \subseteq Nat \ {0}
    /\ IGNORE_FAULT_HIGH <= IGNORE_FAULT_LOW
    /\ OVERLOAD_WAIT <= RETRY_MAX

PowerModes == {"OFF", "ON", "ALERT", "OVERLOAD"}

\* The longest time that is told from a longer one.
Horizon == CHOOSE h \in {RETRY_MAX, ALL_GOOD, IGNORE_FAULT_LOW, IGNORE_CURRENT} :
               \A x \in {RETRY_MAX, ALL_GOOD, IGNORE_FAULT_LOW, IGNORE_CURRENT} : x <= h
Older(age) == IF age > Horizon THEN age ELSE age + 1

VARIABLES
    commonFaultPin,  \* the drivers share one fault pin
    powerMode, lastPowerMode,
    age,             \* micros() - lastPowerChange[powerMode]
    goodFor,         \* micros() - lastBadSample
    globalOverload,  \* micros() - globalOverloadStart
    wait,            \* power_sample_overload_wait
    inrush,          \* the brake pin throttles the inrush current
    useProgLimit,    \* a PROG track, and TrackManager::loop does not say dontLimitProg
    faultPin,        \* the fault pin is active
    neighbourBad,    \* a driver with the same fault pin has a short circuit
    amps,            \* 0: normal, 1: above the programming limit, 2: above both
    checked,         \* the track was checked in this unit of time
    badFor,          \* how long power has been on a bad track, for the properties
    retries          \* retries since the wait was last due to be reset, likewise

driver == <<powerMode, lastPowerMode, age, goodFor, globalOverload, wait, inrush>>
rails == <<useProgLimit, faultPin, neighbourBad, amps>>
watched == <<badFor, retries>>
vars == <<commonFaultPin, driver, rails, checked, watched>>

\* Both are asked for only while the track has power.
checkFault == faultPin
checkCurrent == amps >= (IF useProgLimit THEN 1 ELSE 2)

Powered == powerMode \in {"ON", "ALERT"}
Bad == checkFault \/ checkCurrent

Init ==
    /\ commonFaultPin \in BOOLEAN
    /\ powerMode = "OFF"
    /\ lastPowerMode = "OFF"
    /\ age = 0
    /\ goodFor = 0
    /\ globalOverload = 0
    /\ wait = OVERLOAD_WAIT
    /\ inrush = FALSE
    /\ useProgLimit = TRUE
    /\ faultPin = FALSE
    /\ neighbourBad = FALSE
    /\ amps = 0
    /\ checked = FALSE
    /\ badFor = 0
    /\ retries = 0

-----------------------------------------------------------------------------

\* setPower: nothing happens when the mode is the same.
setPower(mode) ==
    /\ powerMode' = mode
    /\ age' = IF powerMode = mode THEN age ELSE 0
    /\ globalOverload' =
           IF powerMode # mode /\ mode = "OVERLOAD" THEN 0 ELSE globalOverload

SamePower == UNCHANGED <<powerMode, age, globalOverload>>

throttleInrush(on) == inrush' = on

\* Every check notes the state it found.
Seen ==
    /\ checked' = TRUE
    /\ lastPowerMode' = powerMode
    /\ UNCHANGED <<commonFaultPin, rails>>

CheckOff ==
    /\ powerMode = "OFF"
    /\ Seen
    /\ wait' = OVERLOAD_WAIT
    /\ SamePower
    /\ UNCHANGED <<goodFor, inrush>>

\* Faulty variant: the wait is reset by the first good sample.
CheckOnForgetful ==
    /\ powerMode = "ON"
    /\ Seen
    /\ IF Bad
       THEN /\ setPower("ALERT")
            /\ UNCHANGED wait
       ELSE /\ SamePower
            /\ wait' = OVERLOAD_WAIT
    /\ UNCHANGED <<goodFor, inrush>>

CheckOn ==
    /\ powerMode = "ON"
    /\ Seen
    /\ IF Bad
       THEN /\ setPower("ALERT")
            /\ UNCHANGED wait
       ELSE /\ SamePower
            /\ IF age > ALL_GOOD
               THEN wait' = OVERLOAD_WAIT
               ELSE UNCHANGED wait
    /\ UNCHANGED <<goodFor, inrush>>

\* The good time as this check sees it: entering ALERT counts as a bad sample.
GoodFor == IF lastPowerMode = "ALERT" THEN goodFor ELSE 0

AlertFault ==
    /\ checkFault
    /\ goodFor' = 0
    /\ IF age < (IF checkCurrent THEN IGNORE_FAULT_HIGH ELSE IGNORE_FAULT_LOW)
       THEN throttleInrush(TRUE) /\ SamePower
       ELSE throttleInrush(FALSE) /\ setPower("OVERLOAD")

AlertCurrent ==
    /\ ~checkFault
    /\ checkCurrent
    /\ goodFor' = 0
    /\ IF age < IGNORE_CURRENT
       THEN UNCHANGED inrush /\ SamePower
       ELSE throttleInrush(FALSE) /\ setPower("OVERLOAD")

AlertGood ==
    /\ ~Bad
    /\ goodFor' = GoodFor
    /\ IF GoodFor > ALERT_GOOD
       THEN throttleInrush(FALSE) /\ setPower("ON")
       ELSE /\ SamePower
            /\ IF GoodFor > ALERT_GOOD \div 2
               THEN throttleInrush(FALSE) ELSE UNCHANGED inrush

\* Faulty variant: a bad sample restarts the time after which power is cut.
CheckAlertRestarting ==
    /\ powerMode = "ALERT"
    /\ Seen
    /\ \/ AlertFault
       \/ AlertCurrent /\ age >= IGNORE_CURRENT
       \/ /\ ~checkFault /\ checkCurrent /\ age < IGNORE_CURRENT
          /\ goodFor' = 0
          /\ age' = 0
          /\ UNCHANGED <<inrush, powerMode, globalOverload>>
       \/ AlertGood
    /\ UNCHANGED wait

CheckAlert ==
    /\ powerMode = "ALERT"
    /\ Seen
    /\ AlertFault \/ AlertCurrent \/ AlertGood
    /\ UNCHANGED wait

OffFor == IF commonFaultPin THEN globalOverload ELSE age

\* The wait after this one.
Doubled(w) == IF 2 * w > RETRY_MAX THEN RETRY_MAX ELSE 2 * w

\* Faulty variant: an overload that is over waits for a command.
CheckOverloadLatched ==
    /\ powerMode = "OVERLOAD"
    /\ Seen
    /\ SamePower
    /\ UNCHANGED <<goodFor, inrush, wait>>

\* EXRAIL is told of the overload when power is tried again.
CheckOverload ==
    /\ powerMode = "OVERLOAD"
    /\ Seen
    /\ IF OffFor > wait
       THEN /\ wait' = Doubled(wait)
            /\ setPower("ALERT")
       ELSE SamePower /\ UNCHANGED wait
    /\ UNCHANGED <<goodFor, inrush>>

\* TrackManager::loop calls checkPowerOverload for the next track.
checkPowerOverload ==
    CheckOff \/ CheckOn \/ CheckAlert \/ CheckOverload

-----------------------------------------------------------------------------

\* A power command of a user, the box or an automation, in any state.
setTrackPower(mode) ==
    /\ powerMode # mode
    /\ setPower(mode)
    /\ UNCHANGED <<commonFaultPin, lastPowerMode, goodFor, wait, inrush,
                   rails, checked>>

\* A programming operation, a join or a boost starts or ends.
Limit ==
    /\ useProgLimit' = ~useProgLimit
    /\ UNCHANGED <<commonFaultPin, driver, faultPin, neighbourBad, amps, checked>>

\* A short circuit, a load or their end, on this track or, with a common fault
\* pin, on another.
Rails ==
    /\ \/ faultPin' = ~faultPin /\ UNCHANGED <<amps, neighbourBad>>
       \/ \E a \in 0 .. 2 : a # amps /\ amps' = a
          /\ UNCHANGED <<faultPin, neighbourBad>>
       \/ commonFaultPin /\ neighbourBad' = ~neighbourBad /\ UNCHANGED <<faultPin, amps>>
    /\ UNCHANGED <<commonFaultPin, driver, useProgLimit, checked>>

\* Another driver goes to OVERLOAD: setPower notes it in globalOverloadStart.
NeighbourOverload ==
    /\ neighbourBad
    /\ globalOverload' = 0
    /\ UNCHANGED <<commonFaultPin, powerMode, lastPowerMode, age, goodFor, wait, inrush,
                   rails, checked>>

Tick ==
    /\ checked
    /\ checked' = FALSE
    /\ age' = IF powerMode = "OFF" THEN 0 ELSE Older(age)
    /\ goodFor' = IF powerMode # "ALERT" THEN 0
                   ELSE IF goodFor > ALERT_GOOD THEN goodFor ELSE goodFor + 1
    /\ globalOverload' = IF commonFaultPin /\ powerMode = "OVERLOAD"
                         THEN Older(globalOverload) ELSE 0
    /\ UNCHANGED <<commonFaultPin, powerMode, lastPowerMode, wait, inrush, rails>>

-----------------------------------------------------------------------------

\* 2^n.
TwoTo[n \in Nat] == IF n = 0 THEN 1 ELSE 2 * TwoTo[n - 1]

\* What the doubling of the waits amounts to.
WaitAfter(n) ==
    IF OVERLOAD_WAIT * TwoTo[n] > RETRY_MAX THEN RETRY_MAX ELSE OVERLOAD_WAIT * TwoTo[n]

\* More retries than this wait RETRY_MAX anyway.
MaxRetries == CHOOSE n \in 0 .. RETRY_MAX : WaitAfter(n) = RETRY_MAX

Commanded == powerMode' # powerMode /\ ~checkPowerOverload

\* A check sees the track off, or good for a long time.
Forgiven ==
    /\ checkPowerOverload
    /\ powerMode = "OFF" \/ (powerMode = "ON" /\ ~Bad /\ age > ALL_GOOD)

Watch ==
    /\ badFor' = IF Commanded \/ ~Powered' \/ ~Bad' THEN 0
                 ELSE IF Tick THEN badFor + 1 ELSE badFor
    /\ retries' = IF Forgiven THEN 0
                  ELSE IF powerMode = "OVERLOAD" /\ powerMode' = "ALERT" /\ retries < MaxRetries
                  THEN retries + 1 ELSE retries

Next ==
    /\ \/ checkPowerOverload
       \/ \E mode \in {"ON", "OFF"} : setTrackPower(mode)
       \/ Limit
       \/ Rails
       \/ NeighbourOverload
       \/ Tick
    /\ Watch

Spec ==
    /\ Init /\ [][Next]_vars
    /\ WF_vars(Tick /\ Watch)
    /\ WF_vars(~checked /\ checkPowerOverload /\ Watch)

-----------------------------------------------------------------------------

TypeOK ==
    /\ commonFaultPin \in BOOLEAN /\ useProgLimit \in BOOLEAN
    /\ powerMode \in PowerModes
    /\ lastPowerMode \in PowerModes
    /\ age \in 0 .. Horizon + 1
    /\ goodFor \in 0 .. ALERT_GOOD + 1
    /\ globalOverload \in 0 .. Horizon + 1
    /\ wait \in OVERLOAD_WAIT .. RETRY_MAX
    /\ inrush \in BOOLEAN
    /\ faultPin \in BOOLEAN /\ amps \in 0 .. 2
    /\ neighbourBad \in BOOLEAN /\ checked \in BOOLEAN
    /\ badFor \in Nat
    /\ retries \in 0 .. MaxRetries

LongestIgnored == IF IGNORE_FAULT_LOW > IGNORE_CURRENT THEN IGNORE_FAULT_LOW ELSE IGNORE_CURRENT

\* A short circuit or an overload that lasts is cut off: however the fault pin,
\* the current and the limit change while the track is bad, and whether the
\* alert is new or follows a retry, power stays on a bad track no longer than
\* the longest of the ignore times, counted from the last power command.
CutInTime == badFor <= 1 + LongestIgnored

\* Retries of a track that stays bad come at doubling intervals: the n-th retry
\* since the track was last seen off, or good for POWER_SAMPLE_ALL_GOOD, comes
\* after more than 2^n base waits without power, also when alerts of other
\* tracks, short good spells and changes of the limit come in between.
BacksOff ==
    [][powerMode = "OVERLOAD" /\ powerMode' = "ALERT" =>
              age > WaitAfter(retries)]_vars

\* The overload check never leaves the inrush throttling behind when it ends an
\* alert, on the way back to ON as on the way to OVERLOAD.
AlertEndsThrottling ==
    [][powerMode = "ALERT" /\ powerMode' # "ALERT" /\ ~Commanded =>
              ~inrush']_vars

\* When what was wrong on the rails has gone, every track that is not switched
\* off gets back to ON by itself and stays there.
Recovers ==
    <>[](~faultPin /\ amps = 0 /\ ~neighbourBad)
        => <>[](powerMode \in {"ON", "OFF"})

\* The check protects the rails whatever the history: values in range, bad tracks
\* off in time.
Protects == TypeOK /\ CutInTime

\* It does not hammer a bad track, and leaves no throttling behind.
Retries == BacksOff /\ AlertEndsThrottling
=============================================================================
