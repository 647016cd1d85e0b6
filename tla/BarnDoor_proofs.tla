-------------------------- MODULE BarnDoor_proofs --------------------------
(***************************************************************************)
(* The safety of BarnDoor for all cards and all times: when the door is    *)
(* unlocked and which swipes count.                                        *)
(***************************************************************************)
EXTENDS BarnDoor, TLAPS

\* reader.last is the time of the swipe itself.
AgeIsTrue == swipe_age = tag_age

\* What holds in every state.
Inv == TypeOK /\ LockedWhileWatching /\ AgeIsTrue

\* What the counters may be set to.
LEMMA Ranges ==
  /\ 0 \in 0..UNLOCK_TIME /\ UNLOCK_TIME \in 0..UNLOCK_TIME /\ 0 \in 0..EXPIRY
  /\ 0 \in 0..TIMEOUT + 1 /\ TIMEOUT \in 0..TIMEOUT + 1
  /\ 0 \in 0..LOG_TIMEOUT + 1 /\ LOG_TIMEOUT \in 0..LOG_TIMEOUT + 1
  /\ 0 \in 0..MAX_OPEN_TIME + 1 /\ 0 \in 0..MAX_INTERVAL
  /\ MAX_OPEN_TIME \in MAX_OPEN_TIME..MAX_INTERVAL
BY BarnAssumption

\* Later() stops at its limit.
LEMMA LaterInRange ==
  ASSUME NEW limit \in Nat, NEW t \in 0..limit
  PROVE  Later(t, limit) \in 0..limit
BY DEF Later

\* Doubling the interval does not leave its range.
LEMMA DoubledInRange ==
  ASSUME interval \in MAX_OPEN_TIME..MAX_INTERVAL
  PROVE  interval_doubled \in MAX_OPEN_TIME..MAX_INTERVAL
BY BarnAssumption DEF interval_doubled

LEMMA InitInv == Init => Inv
<1> SUFFICES ASSUME Init PROVE Inv
  OBVIOUS
<1>1. TypeOK
  BY Ranges DEF Init, TypeOK, PCs
<1>2. LockedWhileWatching /\ AgeIsTrue
  BY DEF Init, LockedWhileWatching, AgeIsTrue
<1> QED BY <1>1, <1>2 DEF Inv

\* A start and an end of the program.
LEMMA RunsInv ==
  ASSUME Inv, Start \/ Crash
  PROVE  Inv'
<1>1. CASE Start
  <2>1. TypeOK'
    BY <1>1, Ranges DEF Inv, TypeOK, Start, world, pin_at_start, PCs
  <2>2. LockedWhileWatching' /\ AgeIsTrue'
    BY <1>1 DEF Start, pin_at_start, LockedWhileWatching, AgeIsTrue
  <2> QED BY <2>1, <2>2 DEF Inv
<1>2. CASE Crash
  BY <1>2 DEF Inv, TypeOK, LockedWhileWatching, AgeIsTrue, Crash,
              readerVars, cardVars, doorVars, world, PCs
<1> QED BY <1>1, <1>2

\* The contact and the warnings.
LEMMA ContactInv ==
  ASSUME Inv, DoorClosed \/ DoorOpen
  PROVE  Inv'
<1> USE DEF Inv, LockedWhileWatching, AgeIsTrue
<1>1. CASE DoorClosed
  <2>1. TypeOK'
    BY <1>1, Ranges DEF TypeOK, DoorClosed, interval_when_closed, readerVars, cardVars, world, PCs
  <2> QED BY <1>1, <2>1 DEF DoorClosed, interval_when_closed, readerVars
<1>2. CASE DoorOpen
  <2>1. interval' \in MAX_OPEN_TIME..MAX_INTERVAL
    BY <1>2, DoubledInRange DEF TypeOK, DoorOpen
  <2>2. since_warning' \in 0..MAX_INTERVAL /\ warned' \in BOOLEAN
    BY <1>2, Ranges DEF TypeOK, DoorOpen
  <2>3. TypeOK'
    BY <1>2, <2>1, <2>2 DEF TypeOK, DoorOpen, readerVars, cardVars, world, PCs
  <2> QED BY <1>2, <2>3 DEF DoorOpen, readerVars
<1> QED BY <1>1, <1>2

\* The card, from the reader's slot to the answer of the backend.
LEMMA CardInv ==
  ASSUME Inv, NoReader \/ Idle \/ IgnoreCard \/ TakeCard \/ Check
  PROVE  Inv'
<1> USE DEF Inv, TypeOK, LockedWhileWatching, AgeIsTrue,
            readerVars, cardVars, doorVars, world, PCs
<1>1. CASE NoReader
  BY <1>1 DEF NoReader
<1>2. CASE Idle
  BY <1>2 DEF Idle
<1>3. CASE IgnoreCard
  BY <1>3 DEF IgnoreCard, GetId, since_card_ignored
<1>4. CASE TakeCard
  BY <1>4, Ranges DEF TakeCard, GetId
<1>5. CASE CheckFails
  BY <1>5 DEF CheckFails
<1>6. CASE CheckRefused
  BY <1>6 DEF CheckRefused
<1>7. CASE CheckAllowed
  BY <1>7, Ranges DEF CheckAllowed
<1> QED BY <1>1, <1>2, <1>3, <1>4, <1>5, <1>6, <1>7 DEF Check

\* The ends of the two sleeps, the log and the button.
LEMMA DoorInv ==
  ASSUME Inv, Awake("unlocked", "log") \/ Log \/ ButtonPressed \/ NoButton
              \/ Awake("pressed", "door")
  PROVE  Inv'
<1> USE DEF Inv, TypeOK, LockedWhileWatching, AgeIsTrue,
            readerVars, cardVars, doorVars, world, PCs
<1>1. CASE Awake("unlocked", "log") \/ Awake("pressed", "door")
  BY <1>1 DEF Awake, pin_after_sleep
<1>2. CASE Log
  <2>1. since_log' \in 0..LOG_TIMEOUT + 1 /\ pc' \in {"button", "dead"}
    BY <1>2, Ranges DEF Log
  <2> QED BY <1>2, <2>1 DEF Log
<1>3. CASE ButtonPressed
  BY <1>3, Ranges DEF ButtonPressed
<1>4. CASE NoButton
  BY <1>4 DEF NoButton
<1> QED BY <1>1, <1>2, <1>3, <1>4

\* Time passes.
LEMMA TickInv ==
  ASSUME Inv, Tick
  PROVE  Inv'
<1>0. EXPIRY \in Nat /\ TIMEOUT + 1 \in Nat /\ LOG_TIMEOUT + 1 \in Nat
      /\ MAX_OPEN_TIME + 1 \in Nat /\ MAX_INTERVAL \in Nat
  BY BarnAssumption
<1>1. tag_age' \in 0..EXPIRY /\ swipe_age' \in 0..EXPIRY
  BY <1>0, LaterInRange DEF Inv, TypeOK, Tick
<1>2. since_card' \in 0..TIMEOUT + 1 /\ since_log' \in 0..LOG_TIMEOUT + 1
  BY <1>0, LaterInRange DEF Inv, TypeOK, Tick
<1>3. open_for' \in 0..MAX_OPEN_TIME + 1 /\ since_warning' \in 0..MAX_INTERVAL
  BY <1>0, LaterInRange DEF Inv, TypeOK, Tick
<1>4. sleep' \in 0..UNLOCK_TIME
  BY BarnAssumption DEF Inv, TypeOK, Tick
<1>5. TypeOK'
  BY <1>1, <1>2, <1>3, <1>4 DEF Inv, TypeOK, Tick, world
<1> QED BY <1>5 DEF Inv, Tick, LockedWhileWatching, AgeIsTrue

\* The reader's thread, the door and the backend.
LEMMA WorldInv ==
  ASSUME Inv, (\E card \in Cards \cup {NoCard} : ReaderThread(card))
              \/ ReaderDies \/ DoorMoves \/ BackendChanges
  PROVE  Inv'
<1> USE DEF Inv, TypeOK, LockedWhileWatching, AgeIsTrue,
            readerVars, cardVars, doorVars, world
<1>1. ASSUME NEW card \in Cards \cup {NoCard}, ReaderThread(card)
      PROVE  Inv'
  BY <1>1, Ranges DEF ReaderThread, age_after
<1>2. CASE ReaderDies
  BY <1>2 DEF ReaderDies
<1>3. CASE DoorMoves
  BY <1>3 DEF DoorMoves
<1>4. CASE BackendChanges
  BY <1>4 DEF BackendChanges
<1> QED BY <1>1, <1>2, <1>3, <1>4

LEMMA StepInv == Inv /\ [Next]_vars => Inv'
<1> SUFFICES ASSUME Inv, [Next]_vars PROVE Inv'
  OBVIOUS
<1>1. CASE Start \/ Crash
  BY <1>1, RunsInv
<1>2. CASE Loop \/ Check
  BY <1>2, ContactInv, CardInv, DoorInv DEF Loop
<1>3. CASE Tick
  BY <1>3, TickInv
<1>4. CASE (\E card \in Cards \cup {NoCard} : ReaderThread(card))
           \/ ReaderDies \/ DoorMoves \/ BackendChanges
  BY <1>4, WorldInv
<1>5. CASE UNCHANGED vars
  BY <1>5 DEF vars, Inv, TypeOK, LockedWhileWatching, AgeIsTrue,
              readerVars, cardVars, doorVars, world
<1> QED BY <1>1, <1>2, <1>3, <1>4, <1>5 DEF Next

LEMMA Invariance == Spec => []Inv
BY InitInv, StepInv, PTL DEF Spec

\* All variables keep their types for all cards and times.
THEOREM TypeCorrect == Spec => []TypeOK
BY Invariance, PTL DEF Inv

\* The loop looks at cards, button and contact only with the door locked.
THEOREM AlwaysLockedWhileWatching == Spec => []LockedWhileWatching
BY Invariance, PTL DEF Inv

\* Only a step of the loop goes from the slot to the check of a card, and only
\* with a swipe younger than EXPIRY.
LEMMA OnlyFreshSwipes ==
  ASSUME Inv, Next, pc = "card", pc' = "check"
  PROVE  swipe_age < EXPIRY
<1>1. TakeCard
  BY DEF Next, Start, Crash, Loop, Check, DoorClosed, DoorOpen, NoReader, Idle, IgnoreCard,
         CheckFails, CheckRefused, CheckAllowed, Awake, Log, ButtonPressed, NoButton,
         ReaderThread, ReaderDies, Tick, DoorMoves, BackendChanges
<1> QED BY <1>1 DEF TakeCard, GetId, fresh, Inv, AgeIsTrue

\* No swipe older than EXPIRY is ever checked.
THEOREM StaleSwipesAlwaysExpire == Spec => StaleSwipesExpire
<1>1. Inv /\ [Next]_vars => [pc = "card" /\ pc' = "check" => swipe_age < EXPIRY]_vars
  BY OnlyFreshSwipes
<1> QED BY Invariance, <1>1, PTL DEF Spec, StaleSwipesExpire
=============================================================================
