---------------------------- MODULE ReaderClient ----------------------------
(***************************************************************************)
(* What the reader thread and the door controller expect of each other:    *)
(* how the controller uses the two one-place slots they share, the one for *)
(* a card and the one for a pattern of the reader's lamp, and in which     *)
(* states of the door.                                                     *)
(***************************************************************************)
CONSTANT Empty

VARIABLES mode, slot, pattern

clientVars == <<mode, slot, pattern>>

Init == mode = "locked" /\ slot = Empty /\ pattern = "none"

(***************************************************************************)
(* The controller.                                                         *)
(***************************************************************************)
\* A turn with the door locked asks for the ready pattern.
AskReady == mode = "locked" /\ pattern' = "ready" /\ UNCHANGED <<mode, slot>>

\* A valid card asks for its own pattern, a button for none but that of the turn,
\* a remote unlock for none.
Unlock ==
  /\ mode = "locked" /\ mode' = "unlocked"
  /\ pattern' \in {"enter", "ready", pattern}
  /\ UNCHANGED slot

\* The last minutes of a timed unlock.
Warn == mode = "unlocked" /\ pattern' = "warn_closing" /\ UNCHANGED <<mode, slot>>

\* Nothing is asked for before the next turn.
Relock == mode = "unlocked" /\ mode' = "locked" /\ UNCHANGED <<slot, pattern>>

TakeCard == slot # Empty /\ slot' = Empty /\ UNCHANGED <<mode, pattern>>

Restart == mode' = "locked" /\ slot' = Empty /\ pattern' = "none"

(***************************************************************************)
(* The reader thread.                                                      *)
(***************************************************************************)
Post == slot' # Empty /\ UNCHANGED <<mode, pattern>>

Exchange == pattern' = "none" /\ UNCHANGED <<mode, slot>>

Next ==
  \/ AskReady \/ Unlock \/ Warn \/ Relock \/ TakeCard \/ Restart
  \/ Post \/ Exchange

Spec == Init /\ [][Next]_clientVars
=============================================================================
