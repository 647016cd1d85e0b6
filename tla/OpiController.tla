---------------------------- MODULE OpiController ----------------------------
(***************************************************************************)
(* frontend/opi: the frontend of the Orange Pi.  The controller's loop     *)
(* samples lock, keys and card, reports to the gateway and executes its    *)
(* action, and runs the handler of its state.  A thread drives the pin of  *)
(* the lock from the state the controller last asked for, one takes cards  *)
(* from the reader, one polls the gateway.                                 *)
(*                                                                         *)
(* Time passes in ticks of at most half of LEAVE_TIME; the threads run     *)
(* every 100 ms, so that between two ticks the loop makes TURNS turns, and *)
(* a tick is counted when the pin has been written since the last of them. *)
(* The green key is left out: buttons.cpp:44 reads it as never pressed.    *)
(* So are the messages to Slack and the lamp of the reader.                *)
(***************************************************************************)
EXTENDS Integers

CONSTANTS
  LEAVE_TIME, ENTER_TIME, GW_UNLOCK_PERIOD,
  STATUS_PERIOD,  \* ticks after which the gateway is told the status again
  POLL_PERIOD     \* ticks between two polls of the gateway

Periods == {LEAVE_TIME, ENTER_TIME, GW_UNLOCK_PERIOD}

ASSUME OpiAssumption ==
  Periods \subseteq Nat \ {0} /\ {STATUS_PERIOD, POLL_PERIOD} \subseteq Nat

\* The status is reported several times between two polls: every 15 s against 60 s,
\* in ticks of at most 2.5 s.
ASSUME PollAssumption == STATUS_PERIOD + 3 <= POLL_PERIOD

Invalid == -1     \* util::invalid_time_point()
TURNS == 3
Actions == {"none", "lock", "unlock"}
Keys == {"red", "white", "leave"}

VARIABLES
  pc,               \* start, sleep, handle
  state, timeout,   \* of the controller; ticks left until the timeout
  keys, card,       \* sampled in this turn, empty between turns
  last_lock_status,
  since_report,     \* ticks since last_gateway_update, capped; Invalid: never
  timeout_dur,      \* Invalid between turns
  lock,             \* Lock::state
  pin,
  card_slot,        \* is a card in the slot of the reader thread?
  current_action,   \* of the gateway thread
  since_poll,       \* ticks since its last poll, capped
  thursday,
  turns, pin_written, \* turns since the last tick, capped; pin written since?
  answered          \* since the last poll, was the pin open, Red or White pressed? (history)

loopVars == <<state, timeout, keys, card, last_lock_status, since_report,
              timeout_dur>>
gwVars == <<current_action, since_poll>>
clockVars == <<turns, pin_written>>
vars == <<pc, loopVars, lock, pin, card_slot, gwVars, thursday, clockVars, answered>>

Init ==
  /\ pc = "start" /\ state = "initial"
  /\ timeout = Invalid /\ timeout_dur = Invalid
  /\ keys = {} /\ card = FALSE /\ card_slot = FALSE
  /\ last_lock_status = "locked" /\ lock = "locked" /\ pin = FALSE
  /\ since_report = Invalid
  /\ current_action = "none" /\ since_poll = 0
  /\ turns = 0 /\ pin_written = FALSE /\ answered = FALSE
  /\ thursday \in BOOLEAN

(***************************************************************************)
(* A turn, up to update_gateway().  The action stays until the next poll.  *)
(***************************************************************************)
\* Mutated form: only a changed lock is reported.
report_on_change == lock # last_lock_status

report_needed ==
  lock # last_lock_status \/ since_report = Invalid \/ since_report > STATUS_PERIOD

Sample ==
  /\ pc = "sleep" /\ pc' = "handle"
  /\ keys' \in SUBSET Keys
  /\ card' = card_slot /\ card_slot' = FALSE
  /\ last_lock_status' = lock
  /\ answered' = (answered \/ {"red", "white"} \cap keys' # {})
  /\ UNCHANGED <<timeout, pin, gwVars, thursday, clockVars>>

NoReport ==
  Sample /\ ~report_needed /\ UNCHANGED <<state, timeout_dur, lock, since_report>>

Report(action) ==
  Sample /\ report_needed /\ current_action = action /\ since_report' = 0

ReportOnly == Report("none") /\ UNCHANGED <<state, timeout_dur, lock>>

\* "Door is open, cannot lock": said of the lock, not of the door.
RefuseLock == Report("lock") /\ lock = "open" /\ UNCHANGED <<state, timeout_dur, lock>>

RemoteLock ==
  /\ Report("lock") /\ lock = "locked"
  /\ state' = "locked" /\ UNCHANGED <<timeout_dur, lock>>

RemoteUnlock ==
  /\ Report("unlock")
  /\ lock' = "open" /\ state' = "timed_unlock" /\ timeout_dur' = GW_UNLOCK_PERIOD

UpdateGateway == NoReport \/ ReportOnly \/ RefuseLock \/ RemoteLock \/ RemoteUnlock

(***************************************************************************)
(* The handlers, each to the end of the turn.                              *)
(***************************************************************************)
\* Mutated form: the duration is reset before it is used.
EndTurnForgets(new_timeout, new_dur) == timeout' = new_timeout /\ timeout_dur' = Invalid

\* A duration that was set becomes a timeout, last of all.
EndTurn(new_timeout, new_dur) ==
  /\ timeout' = IF new_dur # Invalid THEN new_dur ELSE new_timeout
  /\ timeout_dur' = Invalid

Handle(s) ==
  /\ pc = "handle" /\ pc' = "sleep" /\ state = s
  /\ keys' = {} /\ card' = FALSE
  /\ turns' = IF turns < TURNS THEN turns + 1 ELSE turns
  /\ pin_written' = FALSE
  /\ UNCHANGED <<last_lock_status, since_report, pin, card_slot, gwVars, thursday,
                 answered>>

HandleInitial ==
  /\ Handle("initial")
  /\ state' = "locked" /\ EndTurn(timeout, timeout_dur)
  /\ UNCHANGED lock

HandleLocked == Handle("locked") /\ lock' = "locked"

LockedWhite ==
  /\ HandleLocked /\ "white" \in keys
  /\ EndTurn(timeout, timeout_dur)
  /\ state' = IF thursday THEN "open" ELSE "locked"

\* A card, which is allowed or not.
LockedCard ==
  /\ HandleLocked /\ "white" \notin keys /\ card
  /\ \/ /\ state' = "timed_unlock" /\ EndTurn(timeout, ENTER_TIME)
     \/ state' = "locked" /\ EndTurn(timeout, timeout_dur)

LockedLeave ==
  /\ HandleLocked /\ "white" \notin keys /\ ~card /\ "leave" \in keys
  /\ state' = "timed_unlock" /\ EndTurn(timeout, LEAVE_TIME)

LockedIdle ==
  /\ HandleLocked /\ {"white", "leave"} \cap keys = {} /\ ~card
  /\ state' = "locked" /\ EndTurn(timeout, timeout_dur)

\* A card only makes a message here.
HandleOpen ==
  /\ Handle("open") /\ lock' = "open"
  /\ EndTurn(timeout, timeout_dur)
  /\ state' = IF ~thursday \/ "red" \in keys THEN "locked" ELSE "open"

\* Mutated form: a timeout that is over is not looked at.
timed_out_never == FALSE
timed_out == timeout # Invalid /\ timeout = 0

locks_now == "red" \in keys \/ timed_out
opens_now == ~locks_now /\ "white" \in keys /\ thursday

\* Without a timeout the door locks, after White too; Leave comes last.
HandleTimedUnlock ==
  /\ Handle("timed_unlock") /\ lock' = "open"
  /\ LET left == IF locks_now THEN Invalid ELSE timeout
         leaves == "leave" \in keys
     IN /\ state' = IF leaves THEN "timed_unlock"
                    ELSE IF left = Invalid THEN "locked"
                    ELSE IF opens_now THEN "open" ELSE "timed_unlock"
        /\ EndTurn(left, IF leaves THEN LEAVE_TIME ELSE timeout_dur)

Loop ==
  \/ UpdateGateway
  \/ HandleInitial \/ LockedWhite \/ LockedCard \/ LockedLeave \/ LockedIdle
  \/ HandleOpen \/ HandleTimedUnlock

(***************************************************************************)
(* The other threads.                                                      *)
(***************************************************************************)
PinThread ==
  /\ pc # "start"
  /\ pin' = (lock = "open") /\ pin_written' = TRUE
  /\ answered' = (answered \/ pin')
  /\ UNCHANGED <<pc, loopVars, lock, card_slot, gwVars, thursday, turns>>

\* A card that was not taken is overwritten.
ReaderThread ==
  /\ pc # "start" /\ card_slot' = TRUE
  /\ UNCHANGED <<pc, loopVars, lock, pin, gwVars, thursday, clockVars, answered>>

\* An answer that cannot be read is no action.
GatewayThread ==
  /\ pc # "start" /\ since_poll >= POLL_PERIOD
  /\ since_poll' = 0 /\ current_action' \in Actions /\ answered' = pin
  /\ UNCHANGED <<pc, loopVars, lock, pin, card_slot, thursday, clockVars>>

Start ==
  /\ pc = "start" /\ pc' = "sleep"
  /\ UNCHANGED <<loopVars, lock, pin, card_slot, gwVars, thursday, clockVars, answered>>

\* fatal_error() in any thread, or the power; the service is started again.  The
\* constructor of Lock makes the pin an output, which pulls it low.
Restart ==
  /\ pc # "start" /\ pc' = "start" /\ state' = "initial"
  /\ timeout' = Invalid /\ timeout_dur' = Invalid
  /\ keys' = {} /\ card' = FALSE /\ card_slot' = FALSE
  /\ last_lock_status' = "locked" /\ lock' = "locked" /\ pin' = FALSE
  /\ since_report' = Invalid
  /\ current_action' = "none" /\ since_poll' = 0
  /\ turns' = 0 /\ pin_written' = FALSE /\ answered' = FALSE
  /\ UNCHANGED thursday

(***************************************************************************)
(* The world.                                                              *)
(***************************************************************************)
CountDown(t) == IF t > 0 THEN t - 1 ELSE t
CountUp(t, limit) == IF t \in 0..limit - 1 THEN t + 1 ELSE t

Tick ==
  /\ turns = TURNS /\ pin_written
  /\ turns' = 0 /\ UNCHANGED pin_written
  /\ timeout' = CountDown(timeout)
  /\ since_report' = CountUp(since_report, STATUS_PERIOD + 1)
  /\ since_poll' = CountUp(since_poll, POLL_PERIOD)
  /\ UNCHANGED <<pc, state, keys, card, last_lock_status, timeout_dur,
                 lock, pin, card_slot, current_action, thursday, answered>>

Calendar ==
  /\ thursday' = ~thursday
  /\ UNCHANGED <<pc, loopVars, lock, pin, card_slot, gwVars, clockVars, answered>>

Next ==
  \/ Loop \/ PinThread \/ ReaderThread \/ GatewayThread
  \/ Start \/ Restart \/ Tick \/ Calendar

\* The threads of the program run and time passes, though the pin is out of date
\* after each turn; nobody has to do anything and the gateway need not answer.
Fairness == WF_vars(Loop) /\ WF_vars(PinThread) /\ WF_vars(Start) /\ SF_vars(Tick)

Spec == Init /\ [][Next]_vars
FairSpec == Spec /\ Fairness
-----------------------------------------------------------------------------
TypeOK ==
  /\ pc \in {"start", "sleep", "handle"}
  /\ state \in {"initial", "locked", "open", "timed_unlock"}
  /\ timeout \in {Invalid} \cup UNION {0..p : p \in Periods}
  /\ timeout_dur \in {Invalid} \cup Periods
  /\ keys \subseteq Keys /\ card \in BOOLEAN /\ card_slot \in BOOLEAN
  /\ last_lock_status \in {"locked", "open"} /\ lock \in {"locked", "open"}
  /\ since_report \in {Invalid} \cup 0..STATUS_PERIOD + 1
  /\ pin \in BOOLEAN /\ current_action \in Actions /\ since_poll \in 0..POLL_PERIOD
  /\ thursday \in BOOLEAN /\ turns \in 0..TURNS /\ pin_written \in BOOLEAN
  /\ answered \in BOOLEAN

\* The loop never sleeps on an unlocked door that nothing will lock: a timed
\* unlock has a timeout whatever led to it, Leave in the turn that locked, White,
\* or a remote unlock from any state and of any staleness.
TimedUnlockIsArmed == pc = "sleep" /\ state = "timed_unlock" => timeout # Invalid

\* Once nobody presses a key or swipes, the gateway has no unlock and Thursday is
\* over, the bolt is out for good: no stale timeout or action opens it again.
Quiet == keys = {} /\ ~card /\ ~card_slot /\ current_action # "unlock" /\ ~thursday
SettlesLocked == <>[]Quiet => <>[]~pin

\* A remote unlock is not missed: when the next poll may take the action away, the
\* door has been open, although the first turn with it, having no timeout yet, locks
\* it again, and whatever the loop was doing.  Red may be in its way, and White on
\* a Thursday that ends.
RemoteUnlockOpens ==
  current_action = "unlock" /\ since_poll = POLL_PERIOD => answered
=============================================================================
