------------------------------ MODULE BarnDoor ------------------------------
(***************************************************************************)
(* barn/src/door/main.py: the door of the barn.  One loop watches whether  *)
(* the door is left open, checks cards with the backend and opens for them *)
(* and for a button, sleeping while the door is unlocked.  A thread keeps  *)
(* the last card that was swiped.  barn/src/woodshop/main.py is the same   *)
(* program with a longer TIMEOUT and neither button nor door contact.      *)
(*                                                                         *)
(* Time passes in ticks of 5 s, one in a turn at most, for a turn without  *)
(* a card sleeps 0.1 s.  Messages to Slack and to the gateway are left out *)
(* but for the warnings of an open door.                                   *)
(***************************************************************************)
EXTENDS Naturals

CONSTANTS
  Cards, Allowed,
  TIMEOUT,        \* a card that was checked is ignored for so long
  EXPIRY,         \* a swipe counts for so long
  UNLOCK_TIME,
  LOG_TIMEOUT,    \* between two entries in the log of the backend
  MAX_OPEN_TIME,  \* an open door is not complained of for so long
  MAX_INTERVAL    \* bound of the warning interval

NoCard == "no card"

ASSUME BarnAssumption ==
  /\ Allowed \subseteq Cards /\ NoCard \notin Cards
  /\ {TIMEOUT, LOG_TIMEOUT} \subseteq Nat
  /\ {EXPIRY, UNLOCK_TIME, MAX_OPEN_TIME, MAX_INTERVAL} \subseteq Nat \ {0}
  /\ MAX_OPEN_TIME <= MAX_INTERVAL

VARIABLES
  pc,              \* dead, door, card, check, unlocked, log, button, pressed
  pin,             \* PA01: is the door unlocked?
  sleep,           \* ticks left of time.sleep(10)
  rested,          \* has a tick passed in this turn's time.sleep(0.1)?
  reader,          \* the thread: runs, died, or missing since the start
  tag_id, tag_age, \* RfidReader: the card, ticks since last
  swipe_age,       \* ticks since that card was really swiped (history)
  card_id,         \* the card being checked
  last_card_id, since_card, since_log,
  closed,          \* the contact: is the door closed?
  open_for,        \* ticks since last_closed_time
  since_warning,   \* ticks since last_open_warning
  warned,          \* is there a last_open_warning?
  interval,        \* open_warning_interval
  backend          \* ok, error, silent: what a request meets

readerVars == <<reader, tag_id, tag_age, swipe_age>>
cardVars == <<card_id, last_card_id, since_card, since_log>>
doorVars == <<open_for, since_warning, warned, interval>>
world == <<closed, backend>>
vars == <<pc, pin, sleep, rested, readerVars, cardVars, doorVars, world>>

PCs == {"dead", "door", "card", "check", "unlocked", "log", "button", "pressed"}

Init ==
  /\ pc = "dead" /\ pin = FALSE /\ sleep = 0 /\ rested = FALSE
  /\ reader = "missing" /\ tag_id = NoCard /\ tag_age = 0 /\ swipe_age = 0
  /\ card_id = NoCard /\ last_card_id = NoCard
  /\ since_card = TIMEOUT /\ since_log = LOG_TIMEOUT
  /\ open_for = 0 /\ since_warning = 0 /\ warned = FALSE /\ interval = MAX_OPEN_TIME
  /\ closed = TRUE /\ backend = "ok"

\* Mutated form: the pin is left as the last run left it.
pin_kept == pin

\* GPIO.setup() makes the pin an output, which is low.
pin_at_start == FALSE

\* The program starts, with a reader or without.
Start ==
  /\ pc = "dead" /\ pc' = "door"
  /\ pin' = pin_at_start /\ sleep' = 0 /\ rested' = FALSE
  /\ reader' \in {"runs", "missing"}
  /\ tag_id' = NoCard /\ tag_age' = 0 /\ swipe_age' = 0
  /\ card_id' = NoCard /\ last_card_id' = NoCard
  /\ since_card' = TIMEOUT /\ since_log' = LOG_TIMEOUT
  /\ open_for' = 0 /\ since_warning' = 0 /\ warned' = FALSE
  /\ interval' = MAX_OPEN_TIME
  /\ UNCHANGED world

\* An exception nobody catches, or the power; a pin keeps its level without the
\* program, and loses it with the power.
Crash ==
  /\ pc # "dead" /\ pc' = "dead" /\ pin' \in {pin, FALSE}
  /\ UNCHANGED <<sleep, rested, readerVars, cardVars, doorVars, world>>

(***************************************************************************)
(* A turn of the loop.                                                     *)
(***************************************************************************)
interval_when_closed == IF warned THEN MAX_OPEN_TIME ELSE interval

DoorClosed ==
  /\ pc = "door" /\ closed /\ pc' = "card"
  /\ open_for' = 0 /\ since_warning' = 0 /\ warned' = FALSE
  /\ interval' = interval_when_closed /\ rested' = FALSE
  /\ UNCHANGED <<pin, sleep, readerVars, cardVars, world>>

must_warn == open_for > MAX_OPEN_TIME /\ (warned => since_warning >= interval)

interval_doubled == IF 2 * interval > MAX_INTERVAL THEN MAX_INTERVAL ELSE 2 * interval

DoorOpen ==
  /\ pc = "door" /\ ~closed /\ pc' = "card"
  /\ IF must_warn
     THEN /\ warned' = TRUE /\ since_warning' = 0
          /\ interval' = interval_doubled
     ELSE UNCHANGED <<since_warning, warned, interval>>
  /\ rested' = FALSE
  /\ UNCHANGED <<pin, sleep, readerVars, cardVars, open_for, world>>

\* getid(): a swipe that is too old stays where it is.
fresh == tag_age < EXPIRY

NoReader ==
  /\ pc = "card" /\ reader = "missing" /\ pc' = "dead"
  /\ UNCHANGED <<pin, sleep, rested, readerVars, cardVars, doorVars, world>>

Idle ==
  /\ pc = "card" /\ reader # "missing"
  /\ ~fresh \/ tag_id = NoCard
  /\ pc' = "button"
  /\ UNCHANGED <<pin, sleep, rested, readerVars, cardVars, doorVars, world>>

again == tag_id = last_card_id /\ since_card <= TIMEOUT

\* Mutated form: each swipe that is ignored makes the wait longer.
since_card_restarted == 0
since_card_ignored == since_card

GetId ==
  /\ pc = "card" /\ reader # "missing" /\ fresh /\ tag_id # NoCard
  /\ tag_id' = NoCard
  /\ UNCHANGED <<pin, sleep, rested, reader, tag_age, swipe_age, since_log, doorVars, world>>

IgnoreCard ==
  /\ GetId /\ again /\ pc' = "button"
  /\ since_card' = since_card_ignored
  /\ UNCHANGED <<card_id, last_card_id>>

TakeCard ==
  /\ GetId /\ ~again /\ pc' = "check"
  /\ card_id' = tag_id /\ last_card_id' = tag_id /\ since_card' = 0

\* The request failed: the turn ends here, before the button is looked at.
CheckFails ==
  /\ pc = "check" /\ backend = "error" /\ pc' = "door"
  /\ card_id' = NoCard
  /\ UNCHANGED <<pin, sleep, rested, readerVars, last_card_id, since_card, since_log, doorVars, world>>

\* check_card() makes any answer but 200 an unknown card.
CheckRefused ==
  /\ pc = "check" /\ pc' = "log"
  /\ backend = "error" \/ (backend = "ok" /\ card_id \notin Allowed)
  /\ UNCHANGED <<pin, sleep, rested, readerVars, cardVars, doorVars, world>>

CheckAllowed ==
  /\ pc = "check" /\ backend = "ok" /\ card_id \in Allowed /\ pc' = "unlocked"
  /\ pin' = TRUE /\ sleep' = UNLOCK_TIME
  /\ UNCHANGED <<rested, readerVars, cardVars, doorVars, world>>

Check == CheckFails \/ CheckRefused \/ CheckAllowed

\* Mutated form: the door is not locked again after the button.
lock_again_after_card == pc = "pressed"

pin_after_sleep == FALSE

Awake(from, to) ==
  /\ pc = from /\ sleep = 0 /\ pc' = to
  /\ pin' = pin_after_sleep
  /\ UNCHANGED <<sleep, rested, readerVars, cardVars, doorVars, world>>

\* The entry in the log; its exception handler raises another exception.
Log ==
  /\ pc = "log" /\ card_id' = NoCard
  /\ IF since_log > LOG_TIMEOUT
     THEN /\ backend # "silent" /\ since_log' = 0
          /\ pc' = "button" \/ (backend = "error" /\ pc' = "dead")
     ELSE pc' = "button" /\ UNCHANGED since_log
  /\ UNCHANGED <<pin, sleep, rested, readerVars, last_card_id, since_card, doorVars, world>>

ButtonPressed ==
  /\ pc = "button" /\ pc' = "pressed"
  /\ pin' = TRUE /\ sleep' = UNLOCK_TIME
  /\ UNCHANGED <<rested, readerVars, cardVars, doorVars, world>>

NoButton ==
  /\ pc = "button" /\ pc' = "door"
  /\ UNCHANGED <<pin, sleep, rested, readerVars, cardVars, doorVars, world>>

Loop ==
  \/ DoorClosed \/ DoorOpen \/ NoReader \/ Idle \/ IgnoreCard \/ TakeCard
  \/ Awake("unlocked", "log") \/ Log \/ ButtonPressed \/ NoButton
  \/ Awake("pressed", "door")

(***************************************************************************)
(* The reader's thread and the world.                                      *)
(***************************************************************************)
\* Mutated form: last is set with each line, an empty one too.
age_of_any_line(card) == 0

age_after(card) == IF card = NoCard THEN tag_age ELSE 0

\* A line from the reader, empty when no card was swiped.
ReaderThread(card) ==
  /\ pc # "dead" /\ reader = "runs"
  /\ tag_age' = age_after(card)
  /\ IF card = NoCard THEN UNCHANGED <<tag_id, swipe_age>>
                      ELSE tag_id' = card /\ swipe_age' = 0
  /\ UNCHANGED <<pc, pin, sleep, rested, reader, cardVars, doorVars, world>>

\* An exception in the thread, of which the loop hears nothing.
ReaderDies ==
  /\ pc # "dead" /\ reader = "runs" /\ reader' = "died"
  /\ UNCHANGED <<pc, pin, sleep, rested, tag_id, tag_age, swipe_age, cardVars, doorVars, world>>

Later(t, limit) == IF t < limit THEN t + 1 ELSE t

\* Time passes while the loop sleeps or waits for an answer.
Tick ==
  /\ pc \in {"dead", "check", "log"} \/ sleep > 0 \/ (pc = "door" /\ ~rested)
  /\ rested' = (pc = "door") /\ sleep' = IF sleep > 0 THEN sleep - 1 ELSE 0
  /\ tag_age' = Later(tag_age, EXPIRY) /\ swipe_age' = Later(swipe_age, EXPIRY)
  /\ since_card' = Later(since_card, TIMEOUT + 1)
  /\ since_log' = Later(since_log, LOG_TIMEOUT + 1)
  /\ open_for' = Later(open_for, MAX_OPEN_TIME + 1)
  /\ since_warning' = Later(since_warning, MAX_INTERVAL)
  /\ UNCHANGED <<pc, pin, reader, tag_id, card_id, last_card_id, warned, interval, world>>

DoorMoves ==
  /\ closed' = ~closed
  /\ UNCHANGED <<pc, pin, sleep, rested, readerVars, cardVars, doorVars, backend>>

BackendChanges ==
  /\ backend' \in {"ok", "error", "silent"}
  /\ UNCHANGED <<pc, pin, sleep, rested, readerVars, cardVars, doorVars, closed>>

Next ==
  \/ Start \/ Crash \/ Loop \/ Check
  \/ (\E card \in Cards \cup {NoCard} : ReaderThread(card)) \/ ReaderDies
  \/ Tick \/ DoorMoves \/ BackendChanges

\* The program runs, the service starts it again, time passes though not in each
\* turn.  A request waits for a silent backend for ever.  Nobody has to swipe.
Fairness ==
  /\ WF_vars(Start) /\ WF_vars(Loop) /\ WF_vars(Check) /\ SF_vars(Tick)

Spec == Init /\ [][Next]_vars
FairSpec == Spec /\ Fairness
-----------------------------------------------------------------------------
TypeOK ==
  /\ pc \in PCs /\ pin \in BOOLEAN /\ sleep \in 0..UNLOCK_TIME /\ rested \in BOOLEAN
  /\ reader \in {"runs", "died", "missing"}
  /\ tag_id \in Cards \cup {NoCard} /\ card_id \in Cards \cup {NoCard}
  /\ tag_age \in 0..EXPIRY /\ swipe_age \in 0..EXPIRY
  /\ last_card_id \in Cards \cup {NoCard}
  /\ since_card \in 0..TIMEOUT + 1 /\ since_log \in 0..LOG_TIMEOUT + 1
  /\ closed \in BOOLEAN /\ warned \in BOOLEAN
  /\ open_for \in 0..MAX_OPEN_TIME + 1 /\ since_warning \in 0..MAX_INTERVAL
  /\ interval \in MAX_OPEN_TIME..MAX_INTERVAL
  /\ backend \in {"ok", "error", "silent"}

\* The loop takes no input with the door unlocked: card, button and contact are
\* only looked at behind set_lock(False), after a crash in the sleep too.
LockedWhileWatching == pin => pc \in {"unlocked", "pressed", "dead"}

\* A swipe that the loop was too busy to take within EXPIRY never comes back.
StaleSwipesExpire == [][pc = "card" /\ pc' = "check" => swipe_age < EXPIRY]_vars

\* The door does not stay unlocked, though the program may die in its sleep.
UnlockEnds == []<>~pin

\* Who keeps swiping a valid card gets in once the backend answers: the swipe that
\* met an error locks the card out for TIMEOUT and not for ever.
PersistentSwipesOpen ==
  /\ <>[](backend = "ok" /\ pc # "dead")
  /\ []<>(tag_id \in Allowed /\ fresh) /\ <>[](tag_id \in Allowed \cup {NoCard})
  => []<>pin
=============================================================================
