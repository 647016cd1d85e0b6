------------------------ MODULE CameraControl_proofs ------------------------
(***************************************************************************)
(* What holds of CameraControl for every debouncing, every number of       *)
(* tolerated failures and every publication period.                        *)
(***************************************************************************)
EXTENDS CameraControl, TLAPS

\* The samples that the state of the button took since the last toggle or
\* start: DEBOUNCE + 1 for a press that was accepted, and those counted now.
Samples == debounce + (IF last_button THEN DEBOUNCE + 1 ELSE 0)

\* Each of them took a turn.
TurnsInv == Samples <= since_toggle

IInv == TypeOK /\ EstopIsSaved /\ TurnsInv

-----------------------------------------------------------------------------
\* A turn of the main loop keeps the types: the counters stay below their
\* bounds (main.cpp:147, 174).
LEMMA TurnType ==
  ASSUME NEW button \in BOOLEAN, TypeOK, Turn(button)
  PROVE  TypeOK'
<1>1. /\ camera_relay_on' \in BOOLEAN /\ estop_relay_on' \in BOOLEAN
      /\ relay_state' \in BOOLEAN /\ since_toggle' \in 0..TOGGLE_TURNS
      /\ last_button' \in BOOLEAN /\ debounce' \in 0..DEBOUNCE
  <2>1. CASE button = last_button
    BY <2>1, CameraAssumption DEF Turn, ReadButton, NoToggle, TypeOK, flagVars, TOGGLE_TURNS
  <2>2. CASE button # last_button /\ debounce < DEBOUNCE
    BY <2>2, CameraAssumption DEF Turn, ReadButton, NoToggle, TypeOK, flagVars, TOGGLE_TURNS
  <2>3. CASE button # last_button /\ ~(debounce < DEBOUNCE)
    BY <2>3, CameraAssumption
    DEF Turn, ReadButton, NoToggle, Toggle, debounce_done, TypeOK, flagVars, TOGGLE_TURNS
  <2> QED BY <2>1, <2>2, <2>3
<1>2. relay1' \in BOOLEAN /\ relay2' \in BOOLEAN
  BY <1>1 DEF Turn, relay1_level
<1>3. /\ mqtt_count' \in 0..STATUS_PERIOD - 1
      /\ camera_status' \in BOOLEAN /\ estop_status' \in BOOLEAN
  BY <1>1, CameraAssumption
  DEF Turn, PublishStatus, mqtt_count_done, cameras_on, TypeOK
<1>4. /\ pc' \in {"boot", "run", "reboot"} /\ gw_reachable' \in BOOLEAN
      /\ gpc' \in {"wait", "asked", "on", "off", "reboot"}
      /\ disconnects' \in 0..MAX_DISCONNECTS
  BY DEF Turn, gwVars, TypeOK
<1> QED BY <1>1, <1>2, <1>3, <1>4 DEF TypeOK

\* In a turn both flags and NVS change together, or none of the three
\* (main.cpp:154-157).
LEMMA TurnSaves ==
  ASSUME NEW button \in BOOLEAN, EstopIsSaved, Turn(button)
  PROVE  EstopIsSaved'
BY DEF Turn, ReadButton, Toggle, NoToggle, flagVars, EstopIsSaved

\* A sample that counts takes a turn, and the cap is above what counts.
LEMMA TurnTurns ==
  ASSUME NEW button \in BOOLEAN, TypeOK, TurnsInv, Turn(button)
  PROVE  TurnsInv'
<1> USE CameraAssumption DEF Turn, ReadButton, TypeOK, TurnsInv, Samples, TOGGLE_TURNS
<1>1. CASE button = last_button
  BY <1>1 DEF NoToggle
<1>2. CASE button # last_button /\ debounce < DEBOUNCE
  BY <1>2 DEF NoToggle
<1>3. CASE button # last_button /\ ~(debounce < DEBOUNCE) /\ button
  BY <1>3 DEF NoToggle, debounce_done
<1>4. CASE button # last_button /\ ~(debounce < DEBOUNCE) /\ ~button
  BY <1>4 DEF Toggle, debounce_done
<1> QED BY <1>1, <1>2, <1>3, <1>4

\* Each counter may be zero.
LEMMA ZerosInRange ==
  /\ 0 \in 0..DEBOUNCE /\ 0 \in 0..MAX_DISCONNECTS
  /\ 0 \in 0..STATUS_PERIOD - 1 /\ 0 \in 0..TOGGLE_TURNS
BY CameraAssumption DEF TOGGLE_TURNS

\* A start sets everything in RAM.
LEMMA ResetInv ==
  ASSUME TypeOK, Reset
  PROVE  IInv'
<1>1. TypeOK' BY ZerosInRange DEF Reset, TypeOK
<1>2. EstopIsSaved' BY DEF Reset, EstopIsSaved
<1>3. TurnsInv' BY DEF Reset, TurnsInv, Samples
<1> QED BY <1>1, <1>2, <1>3 DEF IInv

\* The gateway task leaves NVS, the button and the emergency stop alone.
LEMMA GwTaskInv ==
  ASSUME IInv, GwTask
  PROVE  IInv'
<1> USE DEF IInv, Gateway, buttonVars, statusVars, relayVars
<1>1. CASE GwAsk
  BY <1>1 DEF GwAsk, flagVars, TypeOK, EstopIsSaved, TurnsInv, Samples
<1>2. CASE GwAnswer
  BY <1>2 DEF GwAnswer, flagVars, TypeOK, EstopIsSaved, TurnsInv, Samples
<1>3. CASE GwOn
  BY <1>3 DEF GwOn, TypeOK, EstopIsSaved, TurnsInv, Samples
<1>4. CASE GwOff
  BY <1>4 DEF GwOff, estop_after_off, TypeOK, EstopIsSaved, TurnsInv, Samples
<1>5. CASE GwReboot
  BY <1>5, ResetInv DEF GwReboot
<1>6. CASE GwFail
  <2>1. CASE disconnects_now > MAX_DISCONNECTS
    BY <1>6, <2>1, ResetInv DEF GwFail
  <2>2. CASE ~(disconnects_now > MAX_DISCONNECTS)
    BY <1>6, <2>2, CameraAssumption
    DEF GwFail, disconnects_now, flagVars, TypeOK, EstopIsSaved, TurnsInv, Samples
  <2> QED BY <2>1, <2>2
<1> QED BY <1>1, <1>2, <1>3, <1>4, <1>5, <1>6 DEF GwTask

LEMMA InitIInv == Init => IInv
<1>1. Init => TypeOK BY ZerosInRange DEF Init, TypeOK
<1>2. Init => EstopIsSaved BY DEF Init, EstopIsSaved
<1>3. Init => TurnsInv BY DEF Init, TurnsInv, Samples
<1> QED BY <1>1, <1>2, <1>3 DEF IInv

LEMMA StepIInv == IInv /\ [Next]_vars => IInv'
<1> SUFFICES ASSUME IInv, [Next]_vars PROVE IInv'
  OBVIOUS
<1>1. CASE Boot
  BY <1>1 DEF Boot, IInv, TypeOK, EstopIsSaved, TurnsInv, Samples, relayVars,
              buttonVars, statusVars, gwVars
<1>2. ASSUME NEW button \in BOOLEAN, Turn(button) PROVE IInv'
  BY <1>2, TurnType, TurnSaves, TurnTurns DEF IInv
<1>3. CASE ScheduledReboot
  BY <1>3, ResetInv DEF ScheduledReboot, IInv
<1>4. CASE GwTask
  BY <1>4, GwTaskInv
<1>5. CASE GatewayChanges
  BY <1>5 DEF GatewayChanges, IInv, TypeOK, EstopIsSaved, TurnsInv, Samples, flagVars,
              relayVars, buttonVars, statusVars, gwVars
<1>6. CASE PowerCycle
  BY <1>6, ResetInv DEF PowerCycle, IInv
<1>7. CASE UNCHANGED vars
  BY <1>7 DEF vars, IInv, TypeOK, EstopIsSaved, TurnsInv, Samples, flagVars,
              relayVars, buttonVars, statusVars, gwVars
<1> QED BY <1>1, <1>2, <1>3, <1>4, <1>5, <1>6, <1>7 DEF Next, Main

LEMMA AlwaysIInv == Spec => []IInv
BY InitIInv, StepIInv, PTL DEF Spec

-----------------------------------------------------------------------------
\* Every variable of the camera control stays in its range, the counters of
\* the debouncing, of the failures and of the turns below their limits.
THEOREM TypeCorrect == Spec => []TypeOK
<1>1. IInv => TypeOK BY DEF IInv
<1> QED BY <1>1, AlwaysIInv, PTL

\* Whatever the gateway commands, NVS holds the emergency stop as it is
\* (main.cpp:157, gateway.cpp:80-89).
THEOREM EstopAlwaysSaved == Spec => []EstopIsSaved
<1>1. IInv => EstopIsSaved BY DEF IInv
<1> QED BY <1>1, AlwaysIInv, PTL

\* The emergency stop moves only when the button is released after a press,
\* with DEBOUNCE + 1 samples of each since the last time (main.cpp:145-158).
THEOREM EstopOnlyByButton == Spec => EstopNeedsButton
<1> DEFINE Moved == relay_state' # relay_state =>
                      /\ last_button /\ ~last_button'
                      /\ since_toggle >= TOGGLE_TURNS - 1
<1>1. IInv /\ [Next]_vars => [Moved]_vars
  <2> SUFFICES ASSUME IInv, Next, relay_state' # relay_state
               PROVE  last_button /\ ~last_button' /\ since_toggle >= TOGGLE_TURNS - 1
    BY DEF Moved
  <2>1. PICK button \in BOOLEAN : Turn(button)
    BY DEF Next, Main, Boot, ScheduledReboot, Reset, GwTask, GwAsk, GwAnswer, GwOn, GwOff,
           GwReboot, GwFail, Gateway, GatewayChanges, PowerCycle
  <2>2. button # last_button /\ ~(debounce < DEBOUNCE) /\ ~button /\ last_button' = button
    BY <2>1 DEF Turn, ReadButton, NoToggle
  <2>3. last_button
    BY <2>2 DEF IInv, TypeOK
  <2>4. since_toggle >= TOGGLE_TURNS - 1
    BY <2>2, <2>3, CameraAssumption DEF IInv, TypeOK, TurnsInv, Samples, TOGGLE_TURNS
  <2> QED BY <2>2, <2>3, <2>4
<1> QED BY <1>1, AlwaysIInv, PTL DEF Spec, EstopNeedsButton, Moved
=============================================================================
