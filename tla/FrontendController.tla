------------------------- MODULE FrontendController -------------------------
(***************************************************************************)
(* The door controller of the ESP32 frontend: Controller::run() and its    *)
(* handlers (controller.cpp), together with everything it shares with the  *)
(* other threads of the firmware: the card slot and the pattern slot of    *)
(* the card reader thread (cardreader.cpp), the action mailbox and the     *)
(* allow_open flag of the MQTT task (mqtt.cpp) and the card cache.         *)
(*                                                                         *)
(* One turn of the main loop is three steps, cut where another thread can  *)
(* get in between two accesses to shared data: Sample reads the inputs,    *)
(* a gateway step takes the pending action and publishes the retained      *)
(* device status, a Handle step runs the handler of the current state.     *)
(*                                                                         *)
(* Time is counted in ticks that pass while the loop sleeps.  A time point *)
(* of the code is kept as the number of ticks left until it.               *)
(***************************************************************************)
EXTENDS Integers

CONSTANTS
  Cards,            \* card ids the reader may report
  Tokens,           \* arguments of a remote action (ACS tokens)
  RemoteActions,    \* the actions sent in an instance
  IsMain,           \* is this the main door (is_main)?
  LEAVE_TIME,       \* ticks the door stays unlocked after Leave
  ENTER_TIME,       \* ... after a valid card
  GW_UNLOCK_PERIOD, \* ... after a remote unlock
  UNLOCK_PERIOD,    \* ... after Green
  UNLOCK_WARN,      \* ticks left below which the reader warns
  UNLOCK_WARN_MIN,  \* ... but not in the last ticks
  STATUS_INTERVAL   \* the device status is republished when it is older

ASSUME PeriodsAssumption ==
  /\ UNLOCK_PERIOD \in Nat \ {0}
  /\ LEAVE_TIME \in 1..UNLOCK_PERIOD
  /\ ENTER_TIME \in 1..UNLOCK_PERIOD
  /\ GW_UNLOCK_PERIOD \in 1..UNLOCK_PERIOD
  /\ UNLOCK_WARN \in Nat /\ UNLOCK_WARN_MIN \in Nat
  /\ STATUS_INTERVAL \in Nat \ {0}
ASSUME CardsAssumption == "none" \notin Cards
ASSUME ActionsAssumption ==
  RemoteActions \subseteq {"lock", "unlock", "reboot", "setacstoken", "unknown"}
ASSUME MainAssumption == IsMain \in BOOLEAN

VARIABLES
  pc,                  \* where the loop is: sleep, gateway, handle, reboot
  state,               \* Controller::state
  is_locked,           \* what the next turn will drive the relay to
  is_door_open,        \* door contact, as last read
  is_space_open,       \* reported as "space" in the device status
  card_id,             \* card taken from the reader in this turn
  timeout,             \* ticks until the relock, NoTimeout if invalid
  last_is_locked, last_is_door_open, \* as of the last status check
  since_update,        \* ticks since the last gateway update
  relay,               \* level of PIN_RELAY: TRUE unlocks the door
  reader_card,         \* Card_reader::card_id, the one-place card slot
  pattern,             \* Card_reader::pattern, the one-place pattern slot
  current_action, current_action_arg, \* Mqtt's one-place action mailbox
  allow_open,          \* Mqtt::allow_open
  last_space_status,   \* Mqtt::last_space_status
  device_status,       \* retained message hal9k/acs/status/<identifier>
  space_status,        \* retained message hal9k/acs/status/space
  slack,               \* last announcement in the general Slack channel
  thursday,            \* the calendar
  cache,               \* cards in the card cache
  acs_token            \* the token stored in NVS

loopVars   == <<pc, card_id>>
doorVars   == <<state, is_locked, timeout, relay>>
inputVars  == <<is_door_open, last_is_locked, last_is_door_open, since_update>>
spaceVars  == <<is_space_open, last_space_status, space_status, slack>>
readerVars == <<reader_card, pattern>>
mqttVars   == <<current_action, current_action_arg, allow_open>>
worldVars  == <<thursday, cache>>

vars == <<loopVars, doorVars, inputVars, spaceVars, readerVars, mqttVars,
          worldVars, device_status, acs_token>>

NoTimeout == -1
NoCard    == "none"
Keys      == {"red", "white", "green", "leave"}
Patterns  == {"none", "ready", "enter", "warn_closing"}
Args      == Tokens \cup {"empty"}

Status(door, space, locked) == [door |-> door, space |-> space, locked |-> locked]

(***************************************************************************)
(* Boot.  RAM starts from its initializers, NVS and the broker keep what   *)
(* they had; run() publishes the device status before its first turn.      *)
(***************************************************************************)
Boot ==
  /\ pc' = "sleep" /\ card_id' = NoCard
  /\ state' = "initial" /\ is_locked' = TRUE /\ timeout' = NoTimeout
  /\ relay' = FALSE
  /\ is_door_open' = FALSE
  /\ last_is_locked' = FALSE /\ last_is_door_open' = FALSE
  /\ since_update' = STATUS_INTERVAL + 1
  /\ is_space_open' = FALSE /\ last_space_status' = "empty"
  /\ UNCHANGED <<space_status, slack, thursday, acs_token>>
  /\ reader_card' = NoCard /\ pattern' = "none"
  /\ current_action' = "empty" /\ current_action_arg' = "empty" /\ allow_open' = FALSE
  /\ cache' = {}
  /\ device_status' = Status(FALSE, FALSE, TRUE)

Init ==
  /\ pc = "sleep" /\ card_id = NoCard
  /\ state = "initial" /\ is_locked = TRUE /\ timeout = NoTimeout
  /\ relay = FALSE
  /\ is_door_open = FALSE
  /\ last_is_locked = FALSE /\ last_is_door_open = FALSE
  /\ since_update = STATUS_INTERVAL + 1
  /\ is_space_open = FALSE /\ last_space_status = "empty"
  /\ space_status = "empty" /\ slack = "empty"
  /\ reader_card = NoCard /\ pattern = "none"
  /\ current_action = "empty" /\ current_action_arg = "empty" /\ allow_open = FALSE
  /\ thursday \in BOOLEAN /\ cache = {} /\ acs_token \in Args
  /\ device_status = Status(FALSE, FALSE, TRUE)

(***************************************************************************)
(* One turn of Controller::run().                                          *)
(***************************************************************************)

\* Publish on a change of the lock or the door, else periodically.
update_on_change(door) == is_locked # last_is_locked \/ door # last_is_door_open

gateway_update_needed(door) ==
  update_on_change(door) \/ since_update > STATUS_INTERVAL

\* Drive the relay, read door and card slot, decide on an update.  The buttons
\* are read here too, but nothing looks at them before the handler: their
\* levels are chosen there (keys).
Sample ==
  /\ pc = "sleep"
  /\ relay' = ~is_locked
  /\ is_door_open' \in BOOLEAN
  /\ card_id' = reader_card
  /\ reader_card' = NoCard
  /\ last_is_locked' = is_locked
  /\ last_is_door_open' = is_door_open'
  /\ pc' = IF gateway_update_needed(is_door_open') THEN "gateway" ELSE "handle"
  /\ UNCHANGED <<state, is_locked, timeout, since_update, pattern,
                 spaceVars, mqttVars, worldVars, device_status, acs_token>>

\* Mutated form: the mailbox is read but not cleared.
TakeActionAgain == UNCHANGED <<current_action, current_action_arg, allow_open>>

TakeAction ==
  /\ current_action' = "empty"
  /\ current_action_arg' = "empty"
  /\ UNCHANGED allow_open

\* Mutated form: the status is composed before the action is taken.
lock_status_before == is_locked

\* It is composed after the action was taken.
lock_status == is_locked'

\* set_mqtt_device_status() and the end of the update.
PublishStatus ==
  /\ device_status' = Status(is_door_open, is_space_open, lock_status)
  /\ since_update' = 0
  /\ pc' = "handle"
  /\ UNCHANGED <<card_id, is_door_open, last_is_locked, last_is_door_open,
                 spaceVars, readerVars, worldVars>>

GatewayIdle ==
  /\ pc = "gateway" /\ current_action \in {"empty", "unknown"}
  /\ TakeAction
  /\ UNCHANGED <<doorVars, acs_token>>
  /\ PublishStatus

GatewayLock ==
  /\ pc = "gateway" /\ current_action = "lock"
  /\ TakeAction
  /\ is_locked' = TRUE
  /\ state' = "locked"
  /\ UNCHANGED <<timeout, relay, acs_token>>
  /\ PublishStatus

\* Mutated forms: a running period is extended; none is set.
unlock_extended == timeout + GW_UNLOCK_PERIOD
unlock_unset    == timeout

unlock_timeout == GW_UNLOCK_PERIOD

GatewayUnlock ==
  /\ pc = "gateway" /\ current_action = "unlock"
  /\ TakeAction
  /\ is_locked' = FALSE
  /\ state' = "timed_unlock"
  /\ timeout' = unlock_timeout
  /\ UNCHANGED <<relay, acs_token>>
  /\ PublishStatus

GatewaySetToken ==
  /\ pc = "gateway" /\ current_action = "setacstoken"
  /\ TakeAction
  /\ acs_token' = current_action_arg
  /\ UNCHANGED doorVars
  /\ PublishStatus

\* The restart comes after a delay, during which the loop does not run.
GatewayReboot ==
  /\ pc = "gateway" /\ current_action = "reboot"
  /\ TakeAction
  /\ pc' = "reboot"
  /\ UNCHANGED <<card_id, doorVars, inputVars, spaceVars, readerVars,
                 worldVars, device_status, acs_token>>

\* After the handler: go to sleep, or stop in the nightly scheduled reboot.
\* card_id is not read again before the next Sample and is cleared here.
EndTurn ==
  /\ pc = "handle"
  /\ pc' \in {"sleep", "reboot"}
  /\ card_id' = NoCard
  /\ UNCHANGED <<inputVars, mqttVars, worldVars, device_status, acs_token,
                 reader_card>>

HandleInitial ==
  /\ state = "initial"
  /\ EndTurn
  /\ pattern' = "ready"
  /\ state' = "locked"
  /\ UNCHANGED <<is_locked, timeout, relay, spaceVars>>

is_it_thursday == allow_open \/ thursday

\* Mutated form: the filter remembers the status before it compares.
AnnounceSpaceNever(status) ==
  IF IsMain
  THEN /\ last_space_status' = status
       /\ slack' = IF status # last_space_status' THEN status ELSE slack
       /\ space_status' = status
  ELSE UNCHANGED <<slack, last_space_status, space_status>>

\* Mqtt::announce_space_status() drops what it has just said, and
\* set_mqtt_space_status() publishes the retained message.
AnnounceSpace(status) ==
  IF IsMain
  THEN /\ slack' = IF status # last_space_status THEN status ELSE slack
       /\ last_space_status' = status
       /\ space_status' = status
  ELSE UNCHANGED <<slack, last_space_status, space_status>>

\* White: open the space if it is Thursday, else only show a message.
CheckThursday ==
  IF is_it_thursday
  THEN /\ state' = "open"
       /\ AnnounceSpace("open")
       /\ is_space_open' = TRUE
  ELSE UNCHANGED <<state, spaceVars>>

\* What handle_locked() does first; the mutated forms leave the lock as it is, or
\* ask for the pattern of a valid card.
LockNot    == pattern' = "ready" /\ UNCHANGED is_locked
LockEnters == pattern' = "enter" /\ is_locked' = TRUE
Lock       == pattern' = "ready" /\ is_locked' = TRUE

LockedWhite(keys) ==
  /\ state = "locked" /\ "white" \in keys
  /\ EndTurn
  /\ Lock
  /\ CheckThursday
  /\ UNCHANGED <<timeout, relay>>

LockedGreen(keys) ==
  /\ state = "locked" /\ "white" \notin keys /\ "green" \in keys
  /\ EndTurn
  /\ Lock
  /\ state' = "timed_unlock" /\ timeout' = UNLOCK_PERIOD
  /\ UNCHANGED <<relay, spaceVars>>

has_access(id) == id \in cache

\* check_card(card_id, true); a card that is not cached is only reported.
LockedCard(keys) ==
  /\ state = "locked" /\ keys \cap {"white", "green"} = {} /\ card_id # NoCard
  /\ EndTurn
  /\ IF has_access(card_id)
     THEN /\ is_locked' = FALSE /\ relay' = TRUE
          /\ pattern' = "enter"
          /\ state' = "timed_unlock" /\ timeout' = ENTER_TIME
     ELSE /\ Lock
          /\ UNCHANGED <<relay, state, timeout>>
  /\ UNCHANGED spaceVars

LockedLeave(keys) ==
  /\ state = "locked" /\ keys \cap {"white", "green"} = {} /\ card_id = NoCard
  /\ "leave" \in keys
  /\ EndTurn
  /\ is_locked' = FALSE /\ relay' = TRUE
  /\ pattern' = "ready"
  /\ state' = "timed_unlock" /\ timeout' = LEAVE_TIME
  /\ UNCHANGED spaceVars

LockedIdle(keys) ==
  /\ state = "locked" /\ keys \cap {"white", "green", "leave"} = {}
  /\ card_id = NoCard
  /\ EndTurn
  /\ Lock
  /\ UNCHANGED <<state, timeout, relay, spaceVars>>

\* Mutated forms: only Red closes the space; closing forgets is_space_open.
must_close_on_red(keys) == "red" \in keys
CloseSpaceForgets == state' = "locked" /\ AnnounceSpace("closed") /\ UNCHANGED is_space_open

must_close(keys) == ~is_it_thursday \/ "red" \in keys
CloseSpace == state' = "locked" /\ AnnounceSpace("closed") /\ is_space_open' = FALSE

\* Red, or the end of Thursday, closes the space.  A card swiped while open
\* changes nothing here.
HandleOpen(keys) ==
  /\ state = "open"
  /\ EndTurn
  /\ is_locked' = FALSE
  /\ IF must_close(keys) THEN CloseSpace ELSE UNCHANGED <<state, spaceVars>>
  /\ UNCHANGED <<timeout, relay, pattern>>

\* Mutated form: the timeout is passed, never reached.
timed_out_after == timeout # NoTimeout /\ timeout < 0

timed_out == timeout = 0

TimedRelock(keys) ==
  /\ state = "timed_unlock" /\ ("red" \in keys \/ timed_out)
  /\ EndTurn
  /\ is_locked' = FALSE
  /\ state' = "locked" /\ timeout' = NoTimeout
  /\ UNCHANGED <<relay, pattern, spaceVars>>

\* The last test of handle_timed_unlock() locks a door without a timeout.
TimedWhite(keys) ==
  /\ state = "timed_unlock" /\ "red" \notin keys /\ ~timed_out
  /\ "white" \in keys
  /\ EndTurn
  /\ is_locked' = FALSE
  /\ IF timeout = NoTimeout
     THEN /\ state' = "locked"
          /\ IF is_it_thursday
             THEN AnnounceSpace("open") /\ is_space_open' = TRUE
             ELSE UNCHANGED spaceVars
     ELSE CheckThursday
  /\ UNCHANGED <<timeout, relay, pattern>>

TimedIdle(keys) ==
  /\ state = "timed_unlock" /\ keys \cap {"red", "white"} = {} /\ ~timed_out
  /\ EndTurn
  /\ is_locked' = FALSE
  /\ state' = IF timeout = NoTimeout THEN "locked" ELSE state
  /\ pattern' = IF timeout \in (UNLOCK_WARN_MIN + 1)..UNLOCK_WARN
                THEN "warn_closing" ELSE pattern
  /\ UNCHANGED <<timeout, relay, spaceVars>>

HandleLocked(keys) ==
  \/ LockedWhite(keys) \/ LockedGreen(keys) \/ LockedCard(keys)
  \/ LockedLeave(keys) \/ LockedIdle(keys)

HandleTimedUnlock(keys) == TimedRelock(keys) \/ TimedWhite(keys) \/ TimedIdle(keys)

Handle ==
  \/ HandleInitial
  \/ \E keys \in SUBSET Keys :
       HandleLocked(keys) \/ HandleOpen(keys) \/ HandleTimedUnlock(keys)

Gateway == GatewayIdle \/ GatewayLock \/ GatewayUnlock \/ GatewaySetToken \/ GatewayReboot

\* esp_restart() at the end of the delay.
Restart == pc = "reboot" /\ Boot

Loop == Sample \/ Gateway \/ Handle \/ Restart

(***************************************************************************)
(* The other threads of the firmware.                                      *)
(***************************************************************************)

\* The reader thread got a valid answer: overwrite the card slot.
ReaderPost(c) ==
  /\ reader_card' = c
  /\ UNCHANGED pattern
  /\ UNCHANGED <<loopVars, doorVars, inputVars, spaceVars, mqttVars, worldVars,
                 device_status, acs_token>>

\* Later in the same turn it empties the pattern slot (ReaderLamp says what
\* it does with the pattern).
ReaderExchange ==
  /\ pattern' = "none"
  /\ UNCHANGED reader_card
  /\ UNCHANGED <<loopVars, doorVars, inputVars, spaceVars, mqttVars, worldVars,
                 device_status, acs_token>>

\* An action for this device arrives: it replaces a pending one.
MqttAction(name, arg) ==
  /\ current_action' = name
  /\ current_action_arg' = arg
  /\ UNCHANGED allow_open
  /\ UNCHANGED <<loopVars, doorVars, inputVars, spaceVars, readerVars, worldVars,
                 device_status, acs_token>>

\* With the argument "open" or "close" it only sets allow_open.
MqttAllowOpen(allow) ==
  /\ allow_open' = allow
  /\ UNCHANGED <<current_action, current_action_arg>>
  /\ UNCHANGED <<loopVars, doorVars, inputVars, spaceVars, readerVars, worldVars,
                 device_status, acs_token>>

\* The card cache thread swaps in what it fetched.
CacheSwap(cards) ==
  /\ cache' = cards
  /\ UNCHANGED thursday
  /\ UNCHANGED <<loopVars, doorVars, inputVars, spaceVars, readerVars, mqttVars,
                 device_status, acs_token>>

Threads ==
  \/ \E c \in Cards : ReaderPost(c)
  \/ ReaderExchange
  \/ \E name \in RemoteActions, arg \in Args : MqttAction(name, arg)
  \/ \E allow \in BOOLEAN : MqttAllowOpen(allow)
  \/ \E cards \in SUBSET Cards : CacheSwap(cards)

(***************************************************************************)
(* The world: time passes while the loop sleeps or waits for the restart,  *)
(* Thursdays come and go, the power fails.                                 *)
(***************************************************************************)
Tick ==
  /\ pc \in {"sleep", "reboot"}
  /\ timeout' = IF timeout > 0 THEN timeout - 1 ELSE timeout
  /\ since_update' = IF since_update > STATUS_INTERVAL THEN since_update
                     ELSE since_update + 1
  /\ UNCHANGED <<state, is_locked, relay, is_door_open, last_is_locked, last_is_door_open>>
  /\ UNCHANGED <<loopVars, spaceVars, readerVars, mqttVars, worldVars,
                 device_status, acs_token>>

Calendar ==
  /\ thursday' = ~thursday
  /\ UNCHANGED cache
  /\ UNCHANGED <<loopVars, doorVars, inputVars, spaceVars, readerVars, mqttVars,
                 device_status, acs_token>>

PowerCycle == Boot

Next == Loop \/ Threads \/ Tick \/ Calendar \/ PowerCycle

\* The main loop and the reader thread are tasks that never block for ever.
\* Every turn sleeps 50 ms, so infinitely many turns take infinitely many
\* ticks: strong fairness, as the clock is not looked at within a turn.
Fairness == WF_vars(Loop) /\ WF_vars(ReaderExchange) /\ SF_vars(Tick)

Spec == Init /\ [][Next]_vars
FairSpec == Spec /\ Fairness
-----------------------------------------------------------------------------
(***************************************************************************)
(* Properties.                                                             *)
(***************************************************************************)

FlagsOK ==
  /\ is_locked \in BOOLEAN /\ last_is_locked \in BOOLEAN /\ relay \in BOOLEAN
  /\ is_door_open \in BOOLEAN /\ last_is_door_open \in BOOLEAN
  /\ is_space_open \in BOOLEAN /\ allow_open \in BOOLEAN /\ thursday \in BOOLEAN
  /\ device_status \in [door : BOOLEAN, space : BOOLEAN, locked : BOOLEAN]

ValuesOK ==
  /\ pc \in {"sleep", "gateway", "handle", "reboot"}
  /\ state \in {"initial", "locked", "open", "timed_unlock"}
  /\ timeout \in NoTimeout..UNLOCK_PERIOD
  /\ since_update \in 0..STATUS_INTERVAL + 1
  /\ card_id \in Cards \cup {NoCard} /\ reader_card \in Cards \cup {NoCard}
  /\ pattern \in Patterns
  /\ current_action \in RemoteActions \cup {"empty"}
  /\ current_action_arg \in Args /\ acs_token \in Args
  /\ last_space_status \in {"empty", "open", "closed"}
  /\ space_status \in {"empty", "open", "closed"} /\ slack \in {"empty", "open", "closed"}
  /\ cache \subseteq Cards

\* Every variable holds a value of its type; in particular the timeout is never
\* further away than UNLOCK_PERIOD, whatever armed it.
TypeOK == FlagsOK /\ ValuesOK

\* Whatever sequence of buttons, cards and remote commands led there, a door
\* in timed unlock has a valid timeout, at most UNLOCK_PERIOD away: no path
\* into the state forgets to arm it and none of the paths out of it that keep
\* an old timeout can bring a door back without a new one.
TimedUnlockIsArmed == state = "timed_unlock" => timeout \in 0..UNLOCK_PERIOD

\* Once a turn has passed its gateway step, the retained status does not say
\* "unlocked" of a door that is locked, and its door contact is current,
\* although the status is published only on a change seen at the start of
\* the turn.  (It may say "locked" of an unlocked door: see the README.)
StatusNotUnlockedWhenLocked ==
  pc = "handle" => /\ ~device_status.locked => ~is_locked
                   /\ device_status.door = is_door_open

\* The space is open to the members of the space exactly when it was said to
\* be: a door in state open has set is_space_open, the main door's retained
\* space status then is "open", and Slack heard last what the broker retains,
\* across remote commands, restarts and the filter for repeated messages.
SpaceAnnounced ==
  /\ state = "open" => is_space_open
  /\ IsMain /\ is_space_open => space_status = "open"
  /\ slack = space_status

\* The transitions drawn in frontend/design/states.plantuml; a restart enters
\* the chart anew.
ChartTransitions ==
  {<<"locked", "open">>, <<"timed_unlock", "open">>, <<"locked", "timed_unlock">>,
   <<"open", "locked">>, <<"timed_unlock", "locked">>}

\* The statechart says which changes of state the controller makes.
StatechartTransitions ==
  [][state' # "initial" /\ state # "initial" => <<state, state'>> \in ChartTransitions]_state

\* A door that was unlocked for a time locks itself again, if remote unlocks
\* stop coming: nothing a user does at the door can postpone it for ever.
TimedUnlockEnds ==
  <>[](current_action # "unlock") =>
    ((state = "timed_unlock") ~> (state # "timed_unlock"))

\* A controller that goes to locked also releases the relay, although
\* the handlers only note the lock and the next turns drive the pin.
LockedReleasesRelay == (state = "locked") ~> (~relay \/ state # "locked")

\* The end of Thursday, or a withdrawn permission, ends the opening.
ThursdayEnds ==
  (state = "open" /\ ~is_it_thursday) ~> (state # "open" \/ is_it_thursday)

\* A remote action does not stay in the mailbox.
ActionTaken == (current_action # "empty") ~> (current_action = "empty")

\* Again and again the retained device status is the true one: a change that
\* no change of the lock or the door accompanies (White in a timed unlock) or
\* that the comparison misses is made good by the periodic update.
StatusCatchesUp ==
  []<>(device_status = Status(is_door_open, is_space_open, is_locked))

\* The controller is a door as DoorStates promises it.
Door == INSTANCE DoorStates WITH
          mode <- IF state = "initial" THEN "locked" ELSE state,
          space_open <- is_space_open
DoorStatesSpec == Door!Spec

\* Towards the reader it is the client that ReaderLink takes it for: only a turn
\* that finds the door locked asks for ready or enter, one that does not for a
\* warning at most, and a card is taken once.
Client == INSTANCE ReaderClient WITH
            mode <- IF state \in {"initial", "locked"} THEN "locked" ELSE "unlocked",
            slot <- reader_card, Empty <- NoCard
ReaderClientSpec == Client!Spec
=============================================================================
