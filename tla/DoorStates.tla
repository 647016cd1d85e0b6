----------------------------- MODULE DoorStates -----------------------------
(***************************************************************************)
(* What a door controller promises to the rest of the space: the mode of   *)
(* its door, whether it takes the space to be open, and what it last       *)
(* published about the space.  The states are those of the statechart      *)
(* frontend/design/states.plantuml; the remote commands and the restart,   *)
(* which the chart leaves out, are actions of their own.                   *)
(***************************************************************************)
CONSTANT IsMain     \* only the main door publishes the space status

VARIABLES mode, space_open, space_status

doorStateVars == <<mode, space_open, space_status>>

Modes == {"locked", "timed_unlock", "open"}

Init == mode = "locked" /\ space_open = FALSE /\ space_status = "empty"

Publish(status) ==
  space_status' = IF IsMain THEN status ELSE space_status

\* White on Thursday.
OpenSpace ==
  /\ mode \in {"locked", "timed_unlock"}
  /\ mode' = "open" /\ space_open' = TRUE
  /\ Publish("open")

\* Red, or the end of Thursday.
CloseSpace ==
  /\ mode = "open"
  /\ mode' = "locked" /\ space_open' = FALSE
  /\ Publish("closed")

\* Green, a valid card, Leave.
Grant ==
  /\ mode = "locked"
  /\ mode' = "timed_unlock"
  /\ UNCHANGED <<space_open, space_status>>

\* Red, or the timeout.
Relock ==
  /\ mode = "timed_unlock"
  /\ mode' = "locked"
  /\ UNCHANGED <<space_open, space_status>>

\* A remote command moves the door from any state and leaves the space as it is.
Remote ==
  /\ mode' \in {"locked", "timed_unlock"}
  /\ UNCHANGED <<space_open, space_status>>

\* A restart forgets that the space was open; what was published stays.
Reboot ==
  /\ mode' = "locked" /\ space_open' = FALSE
  /\ UNCHANGED space_status

Next == OpenSpace \/ CloseSpace \/ Grant \/ Relock \/ Remote \/ Reboot

Spec == Init /\ [][Next]_doorStateVars
=============================================================================
