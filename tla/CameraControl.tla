---------------------------- MODULE CameraControl ----------------------------
(***************************************************************************)
(* camcontrol/esp32: the relays of the cameras and of their emergency      *)
(* stop.  The main loop debounces the button and drives the relays; the    *)
(* gateway task reports the two flags every ten seconds and executes the   *)
(* action in the answer.  A mutex protects the flags, so a turn of the     *)
(* main loop is one step; the gateway task lets go of the mutex while it   *)
(* waits for the answer.                                                   *)
(***************************************************************************)
EXTENDS Naturals

CONSTANTS
  DEBOUNCE,        \* different samples of the button that are ignored
  MAX_DISCONNECTS, \* failures of the gateway that are tolerated
  STATUS_PERIOD    \* turns between two publications of the status

ASSUME CameraAssumption ==
  /\ DEBOUNCE \in Nat /\ MAX_DISCONNECTS \in Nat /\ STATUS_PERIOD \in Nat \ {0}

VARIABLES
  pc,                \* main loop: boot, run, reboot (with the mutex held)
  camera_relay_on, estop_relay_on,
  relay_state,       \* the flag in NVS
  relay1, relay2,    \* the levels of the relay pins
  last_button, debounce,
  mqtt_count,
  camera_status, estop_status, \* retained messages hal9k/camctl/...
  gpc,               \* gateway task: wait, asked, on, off, reboot
  disconnects,
  gw_reachable,      \* does the gateway answer?
  since_toggle       \* turns since the last toggle or boot, capped (history)

buttonVars == <<last_button, debounce, since_toggle>>
relayVars  == <<relay1, relay2>>
statusVars == <<mqtt_count, camera_status, estop_status>>
flagVars   == <<camera_relay_on, estop_relay_on>>
gwVars     == <<gpc, disconnects>>

vars == <<pc, flagVars, relay_state, relayVars, buttonVars, statusVars, gwVars,
          gw_reachable>>

TOGGLE_TURNS == 2 * (DEBOUNCE + 1)

Init ==
  /\ pc = "boot"
  /\ camera_relay_on = FALSE /\ estop_relay_on = FALSE /\ relay_state \in BOOLEAN
  /\ relay1 = FALSE /\ relay2 = FALSE
  /\ last_button = FALSE /\ debounce = 0 /\ since_toggle = 0
  /\ mqtt_count = 0 /\ camera_status = FALSE /\ estop_status = FALSE
  /\ gpc = "wait" /\ disconnects = 0 /\ gw_reachable = TRUE

\* The processor starts again: RAM and pins are reset, NVS and broker are not.
Reset ==
  /\ pc' = "boot"
  /\ camera_relay_on' = FALSE /\ estop_relay_on' = FALSE
  /\ relay1' = FALSE /\ relay2' = FALSE
  /\ last_button' = FALSE /\ debounce' = 0 /\ since_toggle' = 0
  /\ mqtt_count' = 0
  /\ gpc' = "wait" /\ disconnects' = 0
  /\ UNCHANGED <<relay_state, camera_status, estop_status, gw_reachable>>

\* app_main() up to its loop; the gateway task first waits ten seconds.
Boot ==
  /\ pc = "boot" /\ pc' = "run"
  /\ camera_relay_on' = relay_state /\ estop_relay_on' = relay_state
  /\ UNCHANGED <<relay_state, relayVars, buttonVars, statusVars, gwVars, gw_reachable>>

(***************************************************************************)
(* A turn of the main loop.                                                *)
(***************************************************************************)

\* The button was released.
Toggle ==
  /\ camera_relay_on' = ~camera_relay_on
  /\ estop_relay_on' = camera_relay_on'
  /\ relay_state' = camera_relay_on'
  /\ since_toggle' = 0

\* Mutated form: the counter goes on from where it was.
debounce_kept == debounce

\* The counter after a sample that was accepted.
debounce_done == 0

NoToggle ==
  /\ UNCHANGED <<flagVars, relay_state>>
  /\ since_toggle' = IF since_toggle < TOGGLE_TURNS THEN since_toggle + 1 ELSE since_toggle

\* A sample like the last one leaves the counter as it is.
ReadButton(button) ==
  IF button = last_button
  THEN NoToggle /\ UNCHANGED <<last_button, debounce>>
  ELSE IF debounce < DEBOUNCE
       THEN NoToggle /\ debounce' = debounce + 1 /\ UNCHANGED last_button
       ELSE /\ debounce' = debounce_done /\ last_button' = button
            /\ IF button THEN NoToggle ELSE Toggle

\* Mutated form: the cameras' relay moves only with the emergency stop.
relay1_with_estop == estop_relay_on'

relay1_level == camera_relay_on'

\* Mutated forms: the counter is not reset; one flag is published twice.
mqtt_count_passed == mqtt_count + 1
cameras_estop == estop_relay_on'

\* The counter after a publication, and what that says of the cameras.
mqtt_count_done == 0
cameras_on == camera_relay_on'

PublishStatus ==
  IF mqtt_count + 1 < STATUS_PERIOD
  THEN mqtt_count' = mqtt_count + 1 /\ UNCHANGED <<camera_status, estop_status>>
  ELSE /\ mqtt_count' = mqtt_count_done
       /\ camera_status' = cameras_on /\ estop_status' = estop_relay_on'

\* The nightly reboot comes at the end of a turn and keeps the mutex.
Turn(button) ==
  /\ pc = "run" /\ pc' \in {"run", "reboot"}
  /\ ReadButton(button)
  /\ relay1' = relay1_level /\ relay2' = estop_relay_on'
  /\ PublishStatus
  /\ UNCHANGED <<gwVars, gw_reachable>>

ScheduledReboot == pc = "reboot" /\ Reset

Main == Boot \/ (\E button \in BOOLEAN : Turn(button)) \/ ScheduledReboot

(***************************************************************************)
(* The gateway task.  It needs the mutex for what it does with the flags.  *)
(***************************************************************************)
Gateway(from, to) ==
  /\ pc # "boot" /\ gpc = from /\ gpc' = to
  /\ UNCHANGED <<pc, relay_state, relayVars, buttonVars, statusVars, gw_reachable>>

\* Report the flags.
GwAsk == pc = "run" /\ Gateway("wait", "asked") /\ UNCHANGED <<flagVars, disconnects>>

\* "wait" for an answer without an action.
GwAnswer ==
  /\ gw_reachable
  /\ \E action \in {"wait", "on", "off", "reboot"} : Gateway("asked", action)
  /\ UNCHANGED <<flagVars, disconnects>>

GwOn ==
  /\ pc = "run" /\ Gateway("on", "wait")
  /\ camera_relay_on' = TRUE /\ UNCHANGED <<estop_relay_on, disconnects>>

\* Mutated form: the action stops everything.
estop_off_too == FALSE

estop_after_off == estop_relay_on

GwOff ==
  /\ pc = "run" /\ Gateway("off", "wait")
  /\ camera_relay_on' = FALSE
  /\ estop_relay_on' = estop_after_off /\ UNCHANGED disconnects

GwReboot == pc # "boot" /\ gpc = "reboot" /\ Reset

\* Mutated form: failures are not counted.
disconnects_kept == disconnects

\* The failures are counted from the start of the program, not in a row.
disconnects_now == disconnects + 1

GwFail ==
  /\ pc # "boot" /\ gpc = "asked" /\ ~gw_reachable
  /\ IF disconnects_now > MAX_DISCONNECTS
     THEN Reset
     ELSE /\ Gateway("asked", "wait")
          /\ disconnects' = disconnects_now /\ UNCHANGED flagVars

GwTask == GwAsk \/ GwAnswer \/ GwOn \/ GwOff \/ GwReboot \/ GwFail

(***************************************************************************)
(* The world.                                                              *)
(***************************************************************************)
GatewayChanges ==
  /\ gw_reachable' = ~gw_reachable
  /\ UNCHANGED <<pc, flagVars, relay_state, relayVars, buttonVars, statusVars, gwVars>>

PowerCycle == Reset

Next == Main \/ GwTask \/ GatewayChanges \/ PowerCycle

\* Both tasks run; the gateway task gets the mutex, as the main loop sleeps
\* between its turns.
Fairness == WF_vars(Main) /\ WF_vars(GwTask)

Spec == Init /\ [][Next]_vars
FairSpec == Spec /\ Fairness
-----------------------------------------------------------------------------
TypeOK ==
  /\ pc \in {"boot", "run", "reboot"}
  /\ camera_relay_on \in BOOLEAN /\ estop_relay_on \in BOOLEAN
  /\ relay_state \in BOOLEAN /\ relay1 \in BOOLEAN /\ relay2 \in BOOLEAN
  /\ last_button \in BOOLEAN /\ debounce \in 0..DEBOUNCE
  /\ mqtt_count \in 0..STATUS_PERIOD - 1
  /\ camera_status \in BOOLEAN /\ estop_status \in BOOLEAN
  /\ gpc \in {"wait", "asked", "on", "off", "reboot"}
  /\ disconnects \in 0..MAX_DISCONNECTS
  /\ gw_reachable \in BOOLEAN /\ since_toggle \in 0..TOGGLE_TURNS

\* Whatever the gateway commanded in between, NVS holds the state of the
\* emergency stop, so that a restart at any time brings it back as it was.
EstopIsSaved == pc # "boot" => relay_state = estop_relay_on

\* Only the button moves the emergency stop, and it takes a press and a release
\* of DEBOUNCE + 1 samples each since the last time or the start, although
\* equal samples do not reset the counter.
EstopNeedsButton ==
  [][relay_state' # relay_state =>
       /\ last_button /\ ~last_button'
       /\ since_toggle >= TOGGLE_TURNS - 1]_vars

\* The relays follow the flags, whoever set them.
RelaysFollow ==
  <>[](pc = "run") => []<>(relay1 = camera_relay_on /\ relay2 = estop_relay_on)

\* So does the status at the broker, which is published by count and not on a
\* change.
StatusFollows ==
  <>[](pc = "run") =>
    []<>(camera_status = camera_relay_on /\ estop_status = estop_relay_on)

\* A controller that lost its gateway for good starts over again and again.
RestartsWhenCutOff == <>[]~gw_reachable => []<>(pc = "boot")
=============================================================================
