--------------------------- MODULE OverloadProofs ---------------------------
(***************************************************************************)
(* Proofs about Overload: a bad track is off in time, retries back off and *)
(* an alert leaves no throttling behind, for every value of the times.     *)
(***************************************************************************)
EXTENDS Overload, DataLemmas

\* What makes these properties inductive. The wait is the one its retries have
\* earned; another driver can only shorten the time that the shared stamp shows;
\* power has been on a bad track no longer than the alert has lasted, and a check
\* that finds the alert too old on a bad track ends it.
WaitEarned == wait = WaitAfter(retries)
StampShortens == powerMode = "OVERLOAD" /\ commonFaultPin => globalOverload <= age
BadSinceAlert ==
    /\ powerMode \in {"OFF", "OVERLOAD"} => badFor = 0
    /\ powerMode = "ON" => badFor <= IF checked THEN 0 ELSE 1
    /\ powerMode = "ALERT" =>
           /\ badFor <= age + 1
           /\ checked /\ age >= LongestIgnored => badFor = 0
           /\ ~checked /\ age > LongestIgnored => badFor <= 1
Guarded == TypeOK /\ WaitEarned /\ StampShortens /\ BadSinceAlert

-----------------------------------------------------------------------------
(* The doubling of the waits.                                              *)

\* Powers of two are defined by their recursion.
LEMMA TwoToStep ==
  /\ TwoTo \in [Nat -> Nat]
  /\ TwoTo[0] = 1
  /\ \A n \in Nat : TwoTo[n + 1] = 2 * TwoTo[n]
  <1> DEFINE G == [x \in Nat \X Nat |-> 2 * x[1]]
  <1>1. G \in [Nat \X Nat -> Nat]
    OBVIOUS
  <1>2. \A v, n \in Nat : G[<<v, n>>] = 2 * v
    OBVIOUS
  <1> HIDE DEF G
  <1>3. PICK f : Recursion(f, Nat, 1, G)
    <2>1. 1 \in Nat
      OBVIOUS
    <2>2. QED
      BY <1>1, <2>1, RecursionExists
  <1>4. ASSUME NEW n \in Nat PROVE f[n] = IF n = 0 THEN 1 ELSE 2 * f[n - 1]
    <2>1. CASE n = 0
      BY <1>3, <2>1 DEF Recursion
    <2>2. CASE n # 0
      <3>1. n - 1 \in Nat /\ (n - 1) + 1 = n
        BY <2>2
      <3>2. f[n] = G[<<f[n - 1], n>>]
        BY <1>3, <3>1 DEF Recursion
      <3>3. f[n - 1] \in Nat
        BY <1>3, <3>1 DEF Recursion
      <3>4. QED
        BY <1>2, <2>2, <3>2, <3>3
    <2>3. QED
      BY <2>1, <2>2
  <1>5. f = [n \in Nat |-> IF n = 0 THEN 1 ELSE 2 * f[n - 1]]
    BY <1>3, <1>4 DEF Recursion
  <1>6. TwoTo = [n \in Nat |-> IF n = 0 THEN 1 ELSE 2 * TwoTo[n - 1]]
    BY <1>5 DEF TwoTo
  <1>7. TwoTo[0] = 1
    BY <1>6
  <1>8. ASSUME NEW n \in Nat PROVE TwoTo[n + 1] = 2 * TwoTo[n]
    <2>1. n + 1 \in Nat /\ n + 1 # 0 /\ (n + 1) - 1 = n
      OBVIOUS
    <2>2. QED
      BY <1>6, <2>1
  <1> DEFINE S == {n \in Nat : TwoTo[n] \in Nat}
  <1>9. Nat \subseteq S
    <2>1. 0 \in S
      BY <1>7
    <2>2. ASSUME NEW n \in Nat, n \in S PROVE n + 1 \in S
      BY <1>8, <2>2
    <2> HIDE DEF S
    <2>3. QED
      BY <2>1, <2>2, SetInduction
  <1>10. TwoTo \in [Nat -> Nat]
    BY <1>6, <1>9
  <1>11. QED
    BY <1>7, <1>8, <1>10

\* They grow beyond every bound.
LEMMA TwoToGrows ==
  \A n \in Nat : TwoTo[n] \in Nat /\ TwoTo[n] >= n + 1
  <1> DEFINE S == {n \in Nat : TwoTo[n] \in Nat /\ TwoTo[n] >= n + 1}
  <1>1. 0 \in S
    BY TwoToStep
  <1>2. ASSUME NEW n \in Nat, n \in S PROVE n + 1 \in S
    BY <1>2, TwoToStep
  <1> HIDE DEF S
  <1>3. Nat \subseteq S
    BY <1>1, <1>2, SetInduction
  <1>4. QED
    BY <1>3 DEF S

\* The first wait, a wait after another one, and their range.
LEMMA WaitSteps ==
  /\ WaitAfter(0) = OVERLOAD_WAIT
  /\ \A n \in Nat : WaitAfter(n) \in OVERLOAD_WAIT .. RETRY_MAX
  /\ \A n \in Nat : WaitAfter(n + 1) = Doubled(WaitAfter(n))
  <1> USE TimesAssumption
  <1>1. WaitAfter(0) = OVERLOAD_WAIT
    BY TwoToStep DEF WaitAfter
  <1>2. ASSUME NEW n \in Nat PROVE WaitAfter(n) \in OVERLOAD_WAIT .. RETRY_MAX
    <2>1. TwoTo[n] \in Nat /\ TwoTo[n] >= 1
      BY TwoToGrows
    <2> DEFINE t == TwoTo[n]
    <2>2. OVERLOAD_WAIT * t \in Nat /\ OVERLOAD_WAIT * t >= OVERLOAD_WAIT
      <3> HIDE DEF t
      <3>1. t \in Nat /\ t >= 1
        BY <2>1 DEF t
      <3>2. QED
        BY <3>1
    <2>3. QED
      BY <2>2 DEF WaitAfter
  <1>3. ASSUME NEW n \in Nat PROVE WaitAfter(n + 1) = Doubled(WaitAfter(n))
    <2> DEFINE t == TwoTo[n]
    <2>1. t \in Nat /\ TwoTo[n + 1] = 2 * t
      BY TwoToStep
    <2> HIDE DEF t
    <2>2. OVERLOAD_WAIT * (2 * t) = 2 * (OVERLOAD_WAIT * t) /\ OVERLOAD_WAIT * t \in Nat
      BY <2>1
    <2>3. QED
      BY <2>1, <2>2 DEF WaitAfter, Doubled, t
  <1>4. QED
    BY <1>1, <1>2, <1>3

\* MaxRetries is a number of retries after which the wait grows no more.
LEMMA MaxRetriesReached ==
  MaxRetries \in 0 .. RETRY_MAX /\ WaitAfter(MaxRetries) = RETRY_MAX
  <1> USE TimesAssumption
  <1>1. TwoTo[RETRY_MAX] \in Nat /\ TwoTo[RETRY_MAX] >= RETRY_MAX + 1
    BY TwoToGrows
  <1> DEFINE t == TwoTo[RETRY_MAX]
  <1>2. OVERLOAD_WAIT * t > RETRY_MAX
    <2>1. t \in Nat /\ t > RETRY_MAX
      BY <1>1
    <2> HIDE DEF t
    <2>2. OVERLOAD_WAIT * t >= t /\ OVERLOAD_WAIT * t \in Nat
      BY <2>1
    <2>3. QED
      BY <2>1, <2>2
  <1>3. WaitAfter(RETRY_MAX) = RETRY_MAX
    BY <1>2 DEF WaitAfter
  <1>4. QED
    BY <1>3 DEF MaxRetries

\* Every time is positive.
LEMMA TimesPositive ==
  /\ OVERLOAD_WAIT \in Nat \ {0} /\ RETRY_MAX \in Nat \ {0} /\ OVERLOAD_WAIT <= RETRY_MAX
  /\ ALL_GOOD \in Nat \ {0} /\ ALERT_GOOD \in Nat \ {0}
  /\ IGNORE_FAULT_LOW \in Nat \ {0} /\ IGNORE_CURRENT \in Nat \ {0}
  /\ IGNORE_FAULT_HIGH \in Nat \ {0} /\ IGNORE_FAULT_HIGH <= IGNORE_FAULT_LOW
  BY TimesAssumption

\* No time is told from a longer one beyond Horizon.
LEMMA HorizonBounds ==
  /\ Horizon \in Nat
  /\ RETRY_MAX <= Horizon /\ ALL_GOOD <= Horizon /\ LongestIgnored <= Horizon
  <1> DEFINE T == {RETRY_MAX, ALL_GOOD, IGNORE_FAULT_LOW, IGNORE_CURRENT}
  <1>1. \E h \in T : \A x \in T : x <= h
    BY TimesPositive
  <1>2. Horizon \in T /\ \A x \in T : x <= Horizon
    BY <1>1 DEF Horizon
  <1>3. QED
    BY <1>2, TimesPositive DEF LongestIgnored

-----------------------------------------------------------------------------
(* The invariant.                                                          *)

\* The type invariant in two parts, one for each prover.
Flags == /\ commonFaultPin \in BOOLEAN /\ useProgLimit \in BOOLEAN /\ inrush \in BOOLEAN
         /\ faultPin \in BOOLEAN /\ neighbourBad \in BOOLEAN /\ checked \in BOOLEAN
Amounts == /\ powerMode \in PowerModes /\ lastPowerMode \in PowerModes
           /\ age \in 0 .. Horizon + 1 /\ globalOverload \in 0 .. Horizon + 1
           /\ goodFor \in 0 .. ALERT_GOOD + 1 /\ wait \in OVERLOAD_WAIT .. RETRY_MAX
           /\ amps \in 0 .. 2 /\ badFor \in Nat /\ retries \in 0 .. MaxRetries

\* The parts are the whole, before and after a step.
LEMMA TypeParts == (TypeOK <=> Flags /\ Amounts) /\ (TypeOK' <=> Flags' /\ Amounts')
  BY DEF TypeOK, Flags, Amounts

\* A station that has just started satisfies the invariant.
LEMMA GuardedInit == Init => Guarded
  <1> SUFFICES ASSUME Init PROVE Guarded
    OBVIOUS
  <1> USE TimesPositive, HorizonBounds, MaxRetriesReached DEF Init
  <1>1. TypeOK
    <2>1. Flags
      BY Zenon DEF Flags
    <2>2. Amounts
      BY DEF Amounts, PowerModes
    <2>3. QED
      BY <2>1, <2>2, TypeParts
  <1>2. WaitEarned
    BY WaitSteps DEF WaitEarned
  <1>3. StampShortens /\ BadSinceAlert
    BY DEF StampShortens, BadSinceAlert
  <1>4. QED
    BY <1>1, <1>2, <1>3 DEF Guarded

\* One more unit of time, counted as far as it matters.
LEMMA OlderAge ==
  ASSUME NEW a \in 0 .. Horizon + 1
  PROVE  Older(a) \in 0 .. Horizon + 1 /\ Older(a) >= a /\ (a <= Horizon => Older(a) = a + 1)
  BY HorizonBounds DEF Older

\* A check keeps the invariant, whatever it finds.
LEMMA CheckKeepsGuarded ==
  ASSUME Guarded, checkPowerOverload, Watch
  PROVE  Guarded'
  <1> USE TimesPositive, HorizonBounds DEF Guarded
  <1>1. ~Commanded /\ ~Tick
    BY DEF Commanded, Tick, checkPowerOverload, CheckOff, CheckOn, CheckAlert, CheckOverload, Seen
  <1>2. badFor' = IF ~Powered' \/ ~Bad' THEN 0 ELSE badFor
    BY <1>1 DEF Watch
  <1>3. Bad' = Bad /\ checked' /\ UNCHANGED commonFaultPin
    BY DEF checkPowerOverload, CheckOff, CheckOn, CheckAlert, CheckOverload, Seen, rails, Bad,
           checkFault, checkCurrent
  <1>4. CASE CheckOff
    <2>1. Forgiven
      BY <1>4 DEF CheckOff, Forgiven, checkPowerOverload
    <2>2. retries' = 0 /\ wait' = OVERLOAD_WAIT /\ powerMode' = "OFF"
      BY <1>4, <2>1 DEF Watch, CheckOff, SamePower
    <2>3. TypeOK'
      BY <1>2, <1>4, <2>2, MaxRetriesReached
         DEF TypeOK, CheckOff, Seen, SamePower, rails, Powered, PowerModes
    <2>4. WaitEarned'
      BY <2>2, WaitSteps DEF WaitEarned
    <2>5. StampShortens' /\ BadSinceAlert'
      BY <1>2, <2>2 DEF StampShortens, BadSinceAlert, Powered
    <2>6. QED
      BY <2>3, <2>4, <2>5
  <1>5. CASE CheckOn
    <2>1. powerMode = "ON" /\ powerMode' = IF Bad THEN "ALERT" ELSE "ON"
      BY <1>5 DEF CheckOn, setPower, SamePower
    <2>2. Forgiven <=> ~Bad /\ age > ALL_GOOD
      BY <2>1 DEF Forgiven
    <2>3. retries' = IF ~Bad /\ age > ALL_GOOD THEN 0 ELSE retries
      BY <2>1, <2>2 DEF Watch
    <2>4. wait' = IF ~Bad /\ age > ALL_GOOD THEN OVERLOAD_WAIT ELSE wait
      BY <1>5 DEF CheckOn
    <2>5. badFor' = IF Bad THEN badFor ELSE 0
      BY <1>2, <1>3, <2>1 DEF Powered
    <2>6. badFor \in 0 .. 1
      BY <2>1 DEF BadSinceAlert, TypeOK
    <2>7. age' = IF Bad THEN 0 ELSE age
      BY <1>5, <2>1 DEF CheckOn, setPower, SamePower
    <2>8. TypeOK'
      BY <1>5, <2>1, <2>3, <2>4, <2>5, <2>6, <2>7, MaxRetriesReached
         DEF TypeOK, CheckOn, Seen, setPower, SamePower, rails, PowerModes
    <2>9. WaitEarned'
      BY <2>3, <2>4, WaitSteps DEF WaitEarned
    <2>10. StampShortens'
      BY <2>1 DEF StampShortens
    <2>11. BadSinceAlert'
      BY <1>3, <2>1, <2>5, <2>6, <2>7 DEF BadSinceAlert, LongestIgnored
    <2>12. QED
      BY <2>8, <2>9, <2>10, <2>11
  <1>6. CASE CheckAlert
    <2>1. powerMode = "ALERT" /\ powerMode' \in {"ALERT", "OVERLOAD", "ON"}
      BY <1>6 DEF CheckAlert, AlertFault, AlertCurrent, AlertGood, setPower, SamePower
    <2>2. age' = (IF powerMode' = "ALERT" THEN age ELSE 0)
          /\ globalOverload' = (IF powerMode' = "OVERLOAD" THEN 0 ELSE globalOverload)
      BY <1>6, <2>1 DEF CheckAlert, AlertFault, AlertCurrent, AlertGood, setPower, SamePower
    <2>3. Bad /\ age >= LongestIgnored => powerMode' = "OVERLOAD"
      <3> SUFFICES ASSUME Bad, age >= LongestIgnored PROVE powerMode' = "OVERLOAD"
        OBVIOUS
      <3>1. age \in Nat /\ age >= IGNORE_FAULT_LOW /\ age >= IGNORE_CURRENT
            /\ age >= IGNORE_FAULT_HIGH
        BY DEF LongestIgnored, TypeOK
      <3>2. ~AlertGood
        BY DEF AlertGood
      <3>3. ~(age < IF checkCurrent THEN IGNORE_FAULT_HIGH ELSE IGNORE_FAULT_LOW)
        BY <3>1
      <3>4. ~(age < IGNORE_CURRENT)
        BY <3>1
      <3>5. QED
        BY <1>6, <3>2, <3>3, <3>4 DEF CheckAlert, AlertFault, AlertCurrent, setPower
    <2>4. powerMode' = "ON" => ~Bad
      BY <1>6, <2>1 DEF CheckAlert, AlertFault, AlertCurrent, AlertGood, setPower, SamePower
    <2>5. badFor' = IF powerMode' = "OVERLOAD" \/ ~Bad THEN 0 ELSE badFor
      BY <1>2, <1>3, <2>1 DEF Powered
    <2>6. ~Forgiven /\ retries' = retries /\ wait' = wait
      BY <1>6, <2>1 DEF Forgiven, Watch, CheckAlert
    <2>7. goodFor' \in 0 .. ALERT_GOOD + 1 /\ inrush' \in BOOLEAN
        <3>1. ALERT_GOOD \in Nat /\ goodFor \in 0 .. ALERT_GOOD + 1 /\ inrush \in BOOLEAN
        BY DEF TypeOK
      <3>2. goodFor' = 0 \/ goodFor' = GoodFor
        BY <1>6 DEF CheckAlert, AlertFault, AlertCurrent, AlertGood
      <3>3. goodFor' \in 0 .. ALERT_GOOD + 1
        BY <3>1, <3>2 DEF GoodFor
      <3>4. inrush' \in BOOLEAN
        BY <1>6, <3>1, Zenon
           DEF CheckAlert, AlertFault, AlertCurrent, AlertGood, throttleInrush
      <3>5. QED
        BY <3>3, <3>4
    <2>8. TypeOK'
      BY <1>6, <2>1, <2>2, <2>5, <2>6, <2>7 DEF TypeOK, CheckAlert, Seen, rails, PowerModes
    <2>9. WaitEarned'
      BY <2>6 DEF WaitEarned
    <2>10. StampShortens'
      BY <2>1, <2>2 DEF StampShortens
    <2>11. BadSinceAlert'
      BY <1>3, <2>1, <2>2, <2>3, <2>4, <2>5 DEF BadSinceAlert, TypeOK
    <2>12. QED
      BY <2>8, <2>9, <2>10, <2>11
  <1>7. CASE CheckOverload
    <2>1. powerMode = "OVERLOAD" /\ badFor = 0
      BY <1>7 DEF CheckOverload, BadSinceAlert
    <2>2. badFor' = 0
      BY <1>2, <2>1
    <2>3. ~Forgiven
      BY <2>1 DEF Forgiven
    <2>4. CASE OffFor > wait
      <3>1. powerMode' = "ALERT" /\ age' = 0 /\ UNCHANGED globalOverload /\ wait' = Doubled(wait)
        BY <1>7, <2>1, <2>4 DEF CheckOverload, setPower
      <3>2. retries' = IF retries < MaxRetries THEN retries + 1 ELSE retries
        BY <2>1, <2>3, <3>1 DEF Watch
      <3>3. TypeOK'
        BY <1>7, <2>2, <3>1, <3>2, MaxRetriesReached
           DEF TypeOK, CheckOverload, Seen, rails, PowerModes, Doubled
      <3>4. WaitEarned'
        <4>1. CASE retries < MaxRetries
          BY <3>1, <3>2, <4>1, WaitSteps DEF WaitEarned, TypeOK
        <4>2. CASE ~(retries < MaxRetries)
          <5>1. retries = MaxRetries /\ retries' = retries
            BY <3>2, <4>2, MaxRetriesReached DEF TypeOK
          <5>2. wait = RETRY_MAX
            BY <5>1, MaxRetriesReached DEF WaitEarned
          <5>3. wait' = RETRY_MAX
            BY <3>1, <5>2 DEF Doubled
          <5>4. QED
            BY <5>1, <5>3, MaxRetriesReached DEF WaitEarned
        <4>3. QED
          BY <4>1, <4>2
      <3>5. StampShortens' /\ BadSinceAlert'
        BY <2>2, <3>1 DEF StampShortens, BadSinceAlert, LongestIgnored
      <3>6. QED
        BY <3>3, <3>4, <3>5
    <2>5. CASE ~(OffFor > wait)
      <3>1. UNCHANGED <<powerMode, age, globalOverload, wait>>
        BY <1>7, <2>5 DEF CheckOverload, SamePower
      <3>2. retries' = retries
        BY <2>1, <2>3, <3>1 DEF Watch
      <3>3. TypeOK'
        BY <1>7, <2>2, <3>1, <3>2 DEF TypeOK, CheckOverload, Seen, rails, PowerModes
      <3>4. WaitEarned' /\ StampShortens' /\ BadSinceAlert'
        BY <1>3, <2>1, <2>2, <3>1, <3>2 DEF WaitEarned, StampShortens, BadSinceAlert
      <3>5. QED
        BY <3>3, <3>4
    <2>6. QED
      BY <2>4, <2>5
  <1>8. QED
    BY <1>4, <1>5, <1>6, <1>7 DEF checkPowerOverload

\* What happens between two checks keeps it as well.
LEMMA OthersKeepGuarded ==
  ASSUME Guarded, ~checkPowerOverload, Watch,
         \/ \E mode \in {"ON", "OFF"} : setTrackPower(mode)
         \/ Limit \/ Rails \/ NeighbourOverload \/ Tick
  PROVE  Guarded'
  <1> USE TimesPositive, HorizonBounds DEF Guarded
  <1>1. ~Forgiven
    BY DEF Forgiven
  <1>2. ASSUME powerMode' # "ALERT" \/ powerMode = "ALERT" PROVE retries' = retries
    BY <1>1, <1>2 DEF Watch
  <1>3. ASSUME NEW mode \in {"ON", "OFF"}, setTrackPower(mode) PROVE Guarded'
    <2>1. powerMode' = mode /\ age' = 0 /\ UNCHANGED <<globalOverload, wait, checked>>
      BY <1>3 DEF setTrackPower, setPower
    <2>2. Commanded
      BY <1>3 DEF Commanded, setTrackPower, setPower
    <2>3. badFor' = 0 /\ retries' = retries
      BY <1>2, <2>1, <2>2 DEF Watch
    <2>4. TypeOK'
      BY <1>3, <2>1, <2>3 DEF TypeOK, setTrackPower, rails, PowerModes
    <2>5. WaitEarned' /\ StampShortens' /\ BadSinceAlert'
      BY <2>1, <2>3 DEF WaitEarned, StampShortens, BadSinceAlert
    <2>6. QED
      BY <2>4, <2>5
  <1>4. ASSUME Limit \/ Rails PROVE Guarded'
    <2>1. UNCHANGED <<powerMode, age, globalOverload, wait, commonFaultPin, checked>>
      BY <1>4 DEF Limit, Rails, driver
    <2>2. ~Tick /\ ~Commanded
      BY <2>1 DEF Tick, Commanded
    <2>3. retries' = retries
      BY <1>2, <2>1
    <2>4. badFor' = 0 \/ (badFor' = badFor /\ powerMode \in {"ON", "ALERT"})
      BY <2>1, <2>2 DEF Watch, Powered
    <2>5. TypeOK'
      <3>1. Flags'
        BY <1>4, <2>1, TypeParts, Zenon DEF Flags, Limit, Rails, driver
      <3>2. amps' \in 0 .. 2
        BY <1>4 DEF Limit, Rails, TypeOK
      <3>3. Amounts'
        BY <1>4, <2>1, <2>3, <2>4, <3>2, TypeParts DEF Amounts, Limit, Rails, driver
      <3>4. QED
        BY <3>1, <3>3, TypeParts
    <2>6. WaitEarned' /\ StampShortens' /\ BadSinceAlert'
      BY <2>1, <2>3, <2>4 DEF WaitEarned, StampShortens, BadSinceAlert, TypeOK
    <2>7. QED
      BY <2>5, <2>6
  <1>5. ASSUME NeighbourOverload PROVE Guarded'
    <2>1. UNCHANGED <<powerMode, age, wait, commonFaultPin, checked>> /\ globalOverload' = 0
      BY <1>5 DEF NeighbourOverload
    <2>2. ~Tick /\ ~Commanded
      BY <2>1 DEF Tick, Commanded
    <2>3. retries' = retries
      BY <1>2, <2>1
    <2>4. badFor' = 0 \/ (badFor' = badFor /\ powerMode \in {"ON", "ALERT"})
      BY <2>1, <2>2 DEF Watch, Powered
    <2>5. TypeOK'
      BY <1>5, <2>1, <2>3, <2>4 DEF TypeOK, NeighbourOverload, rails, PowerModes
    <2>6. WaitEarned' /\ StampShortens' /\ BadSinceAlert'
      BY <2>1, <2>3, <2>4 DEF WaitEarned, StampShortens, BadSinceAlert, TypeOK
    <2>7. QED
      BY <2>5, <2>6
  <1>6. ASSUME Tick PROVE Guarded'
    <2>1. UNCHANGED <<powerMode, wait, commonFaultPin>> /\ checked = TRUE /\ checked' = FALSE
      BY <1>6 DEF Tick, TypeOK
    <2>2. ~Commanded
      BY <2>1 DEF Commanded
    <2>3. retries' = retries
      BY <1>2, <2>1
    <2>4. badFor' = 0 \/ (badFor' = badFor + 1 /\ powerMode \in {"ON", "ALERT"})
      BY <1>6, <2>1, <2>2 DEF Watch, Powered
    <2>5. age' \in 0 .. Horizon + 1 /\ globalOverload' \in 0 .. Horizon + 1
      BY <1>6, OlderAge DEF Tick, TypeOK
    <2>6. goodFor' \in 0 .. ALERT_GOOD + 1
      BY <1>6 DEF Tick, TypeOK
    <2>7. TypeOK'
      <3>1. Flags'
        BY <1>6, TypeParts, Zenon DEF Flags, Tick, rails
      <3>2. Amounts'
        BY <1>6, <2>1, <2>3, <2>4, <2>5, <2>6, TypeParts DEF Amounts, Tick, rails
      <3>3. QED
        BY <3>1, <3>2, TypeParts
    <2>8. WaitEarned'
      BY <2>1, <2>3 DEF WaitEarned
    <2>9. StampShortens'
      <3> SUFFICES ASSUME powerMode = "OVERLOAD", commonFaultPin
                   PROVE  globalOverload' <= age'
        BY <2>1 DEF StampShortens
      <3>1. globalOverload' = Older(globalOverload) /\ age' = Older(age)
        BY <1>6 DEF Tick
      <3>2. globalOverload <= age
        BY DEF StampShortens
      <3>3. QED
        BY <3>1, <3>2 DEF Older, TypeOK
    <2>10. BadSinceAlert'
      <3>1. CASE powerMode = "ALERT"
        <4>1. age' = Older(age)
          BY <1>6, <3>1 DEF Tick
        <4>2. age' >= age /\ (age <= Horizon => age' = age + 1)
          BY <4>1, OlderAge DEF TypeOK
        <4>3. badFor <= age + 1 /\ (age >= LongestIgnored => badFor = 0)
          BY <2>1, <3>1 DEF BadSinceAlert
        <4>4. LongestIgnored \in Nat /\ LongestIgnored <= Horizon
          BY DEF LongestIgnored
        <4>5. badFor' <= age' + 1 /\ (age' > LongestIgnored => badFor' <= 1)
          <5>1. CASE age <= Horizon
            BY <2>4, <4>2, <4>3, <4>4, <5>1 DEF TypeOK
          <5>2. CASE ~(age <= Horizon)
            BY <2>4, <2>5, <4>2, <4>3, <4>4, <5>2 DEF TypeOK
          <5>3. QED
            BY <5>1, <5>2
        <4>6. QED
          BY <2>1, <3>1, <4>5 DEF BadSinceAlert
      <3>2. CASE powerMode # "ALERT"
        BY <2>1, <2>4, <3>2 DEF BadSinceAlert, TypeOK
      <3>3. QED
        BY <3>1, <3>2
    <2>11. QED
      BY <2>7, <2>8, <2>9, <2>10
  <1>7. QED
    BY <1>3, <1>4, <1>5, <1>6

\* Every step keeps the invariant.
LEMMA GuardedStep == Guarded /\ [Next]_vars => Guarded'
  <1> SUFFICES ASSUME Guarded, [Next]_vars PROVE Guarded'
    OBVIOUS
  <1>1. CASE UNCHANGED vars
    BY <1>1 DEF vars, driver, rails, watched, Guarded, TypeOK, WaitEarned, StampShortens, BadSinceAlert
  <1>2. CASE Next
    BY <1>2, CheckKeepsGuarded, OthersKeepGuarded DEF Next
  <1>3. QED
    BY <1>1, <1>2

\* The inductive invariant holds for ever: a track has been bad no longer than the state of
\* the check accounts for, and the wait is the one that the retries call for.
THEOREM GuardedAlways == Spec => []Guarded
  BY GuardedInit, GuardedStep, PTL DEF Spec

\* Whatever the rails and the users do, values stay in range and a bad track is cut
\* in time, for all values of the times of MotorDriver.h.
THEOREM ProtectsAlways == Spec => []Protects
  <1>1. Guarded => Protects
    BY TimesPositive, HorizonBounds
       DEF Guarded, Protects, CutInTime, TypeOK, BadSinceAlert, LongestIgnored, PowerModes
  <1>2. QED
    BY <1>1, GuardedAlways, PTL

\* Retries come at doubling intervals, up to RETRY_MAX, and an alert that ends leaves no
\* throttling behind.
THEOREM RetriesAlways == Spec => Retries
  <1>1. Guarded /\ [Next]_vars =>
           [powerMode = "OVERLOAD" /\ powerMode' = "ALERT" => age > WaitAfter(retries)]_vars
    <2> SUFFICES ASSUME Guarded, Next, powerMode = "OVERLOAD", powerMode' = "ALERT"
                 PROVE  age > WaitAfter(retries)
      OBVIOUS
    <2>1. CheckOverload /\ OffFor > wait
      BY DEF Next, checkPowerOverload, CheckOff, CheckOn, CheckAlert, CheckOverload, SamePower,
             setTrackPower, setPower, Limit, Rails, NeighbourOverload, Tick, driver
    <2>2. OffFor <= age /\ OffFor \in Nat /\ age \in Nat /\ wait \in Nat
      BY TimesPositive, HorizonBounds DEF OffFor, Guarded, StampShortens, TypeOK
    <2>3. QED
      BY <2>1, <2>2 DEF Guarded, WaitEarned
  <1>2. [Next]_vars =>
           [powerMode = "ALERT" /\ powerMode' # "ALERT" /\ ~Commanded => ~inrush']_vars
    <2> SUFFICES ASSUME Next, powerMode = "ALERT", powerMode' # "ALERT", ~Commanded
                 PROVE  ~inrush'
      OBVIOUS
    <2>1. CheckAlert
      BY DEF Commanded, checkPowerOverload, CheckOff, CheckOn, CheckOverload
    <2>2. QED
      BY <2>1 DEF CheckAlert, AlertFault, AlertCurrent, AlertGood, SamePower, setPower, throttleInrush
  <1>3. QED
    BY <1>1, <1>2, GuardedAlways, PTL DEF Spec, Retries, BacksOff, AlertEndsThrottling
=============================================================================
