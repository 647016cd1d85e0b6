------------------------ MODULE OpiController_proofs ------------------------
(***************************************************************************)
(* Type correctness of OpiController, that a timed unlock always has a     *)
(* timeout between turns and that a remote unlock opens the door before    *)
(* the next poll, for all periods.                                         *)
(***************************************************************************)
EXTENDS OpiController, TLAPS

LEMMA InvalidIsNoTime == \A p \in Periods : Invalid # p /\ p \in Nat
BY OpiAssumption DEF Invalid

\* What a turn leaves in timeout when it ends.
LEMMA EndTurnTyped ==
  ASSUME TypeOK, NEW t \in {Invalid, timeout}, NEW d \in {Invalid} \cup Periods,
         EndTurn(t, d)
  PROVE  /\ timeout' \in {Invalid} \cup UNION {0..p : p \in Periods}
         /\ timeout_dur' \in {Invalid} \cup Periods
         /\ d # Invalid => timeout' # Invalid
         /\ t # Invalid => timeout' # Invalid
<1>1. \A p \in Periods : p \in 0..p
  BY InvalidIsNoTime
<1>2. timeout' = IF d # Invalid THEN d ELSE t
  BY DEF EndTurn
<1>3. timeout_dur' = Invalid
  BY DEF EndTurn
<1>4. timeout \in {Invalid} \cup UNION {0..p : p \in Periods}
  BY DEF TypeOK
<1>5. d # Invalid => d \in UNION {0..p : p \in Periods}
  BY <1>1
<1> QED BY <1>2, <1>3, <1>4, <1>5

LEMMA PeriodsTyped ==
  {LEAVE_TIME, ENTER_TIME, GW_UNLOCK_PERIOD} \subseteq Periods
BY DEF Periods

LEMMA CountDownTyped ==
  ASSUME TypeOK
  PROVE  /\ CountDown(timeout) \in {Invalid} \cup UNION {0..p : p \in Periods}
         /\ timeout # Invalid => CountDown(timeout) # Invalid
<1>1. CASE timeout = Invalid
  BY <1>1 DEF CountDown, Invalid
<1>2. CASE timeout # Invalid
  <2>1. PICK p \in Periods : timeout \in 0..p
    BY <1>2 DEF TypeOK
  <2>2. p \in Nat
    BY InvalidIsNoTime
  <2>3. CountDown(timeout) \in 0..p /\ CountDown(timeout) # -1
    BY <2>1, <2>2 DEF CountDown
  <2> QED BY <2>3 DEF Invalid
<1> QED BY <1>1, <1>2

LEMMA CountUpTyped ==
  ASSUME NEW limit \in Nat, NEW t \in {Invalid} \cup 0..limit
  PROVE  /\ CountUp(t, limit) \in {Invalid} \cup 0..limit
         /\ t \in 0..limit => CountUp(t, limit) \in 0..limit
BY DEF CountUp, Invalid

-----------------------------------------------------------------------------
\* Between turns a timed unlock has a timeout; within one, a timeout or a
\* duration may be missing, but a handler that keeps the state adds it.
StartsInitial == pc = "start" => state = "initial"

Inv == TypeOK /\ TimedUnlockIsArmed /\ StartsInitial

LEMMA ZerosInRange == 0 \in 0..POLL_PERIOD /\ 0 \in 0..TURNS
BY OpiAssumption DEF TURNS

LEMMA InitInv == Init => Inv
<1> SUFFICES ASSUME Init PROVE Inv
  OBVIOUS
<1>1. TypeOK
  BY ZerosInRange DEF Init, TypeOK, Actions, Keys
<1>2. TimedUnlockIsArmed /\ StartsInitial
  BY DEF Init, TimedUnlockIsArmed, StartsInitial
<1> QED BY <1>1, <1>2 DEF Inv

\* What all ways into a turn have in common.
LEMMA SampleInv ==
  ASSUME Inv, Sample,
         state' \in {"initial", "locked", "open", "timed_unlock"},
         timeout_dur' \in {Invalid} \cup Periods,
         since_report' \in {Invalid} \cup 0..STATUS_PERIOD + 1,
         lock' \in {"locked", "open"}
  PROVE  Inv'
BY DEF Inv, TypeOK, TimedUnlockIsArmed, StartsInitial, Sample, gwVars, clockVars

LEMMA UpdateGatewayInv == Inv /\ UpdateGateway => Inv'
<1> SUFFICES ASSUME Inv, UpdateGateway PROVE Inv'
  OBVIOUS
<1> USE DEF Inv
<1>0. STATUS_PERIOD \in Nat
  BY OpiAssumption
<1>1. CASE NoReport
  BY <1>1, SampleInv DEF NoReport, TypeOK
<1>2. CASE ReportOnly
  BY <1>0, <1>2, SampleInv DEF ReportOnly, Report, TypeOK
<1>3. CASE RefuseLock
  BY <1>0, <1>3, SampleInv DEF RefuseLock, Report, TypeOK
<1>4. CASE RemoteLock
  BY <1>0, <1>4, SampleInv DEF RemoteLock, Report, TypeOK
<1>5. CASE RemoteUnlock
  BY <1>0, <1>5, SampleInv, PeriodsTyped DEF RemoteUnlock, Report, TypeOK
<1> QED BY <1>1, <1>2, <1>3, <1>4, <1>5 DEF UpdateGateway

\* What all handlers have in common.
LEMMA HandleInv ==
  ASSUME Inv, NEW s, Handle(s),
         state' \in {"initial", "locked", "open", "timed_unlock"},
         lock' \in {"locked", "open"},
         timeout' \in {Invalid} \cup UNION {0..p : p \in Periods},
         timeout_dur' \in {Invalid} \cup Periods,
         state' = "timed_unlock" => timeout' # Invalid
  PROVE  Inv'
<1>1. turns' \in 0..TURNS
  BY DEF Inv, TypeOK, Handle, TURNS
<1> QED BY <1>1 DEF Inv, TypeOK, TimedUnlockIsArmed, StartsInitial, Handle, gwVars

LEMMA HandlersInv ==
  ASSUME Inv, HandleInitial \/ LockedWhite \/ LockedCard \/ LockedLeave \/ LockedIdle
              \/ HandleOpen \/ HandleTimedUnlock
  PROVE  Inv'
<1> USE DEF Inv
<1>0. timeout_dur \in {Invalid} \cup Periods /\ Invalid \notin Periods
  BY InvalidIsNoTime DEF TypeOK
<1>1. CASE HandleInitial
  <2>1. EndTurn(timeout, timeout_dur)
    BY <1>1 DEF HandleInitial
  <2> QED BY <1>0, <1>1, <2>1, EndTurnTyped, HandleInv DEF HandleInitial, TypeOK
<1>2. CASE LockedWhite
  <2>1. EndTurn(timeout, timeout_dur)
    BY <1>2 DEF LockedWhite
  <2> QED BY <1>0, <1>2, <2>1, EndTurnTyped, HandleInv DEF LockedWhite, HandleLocked
<1>3. CASE LockedCard
  <2>1. CASE state' = "timed_unlock" /\ EndTurn(timeout, ENTER_TIME)
    BY <1>0, <1>3, <2>1, EndTurnTyped, HandleInv, PeriodsTyped DEF LockedCard, HandleLocked
  <2>2. CASE state' = "locked" /\ EndTurn(timeout, timeout_dur)
    BY <1>0, <1>3, <2>2, EndTurnTyped, HandleInv DEF LockedCard, HandleLocked
  <2> QED BY <1>3, <2>1, <2>2 DEF LockedCard
<1>4. CASE LockedLeave
  <2>1. EndTurn(timeout, LEAVE_TIME)
    BY <1>4 DEF LockedLeave
  <2> QED BY <1>0, <1>4, <2>1, EndTurnTyped, HandleInv, PeriodsTyped DEF LockedLeave, HandleLocked
<1>5. CASE LockedIdle
  <2>1. EndTurn(timeout, timeout_dur)
    BY <1>5 DEF LockedIdle
  <2> QED BY <1>0, <1>5, <2>1, EndTurnTyped, HandleInv DEF LockedIdle, HandleLocked
<1>6. CASE HandleOpen
  <2>1. EndTurn(timeout, timeout_dur)
    BY <1>6 DEF HandleOpen
  <2> QED BY <1>0, <1>6, <2>1, EndTurnTyped, HandleInv DEF HandleOpen
<1>7. CASE HandleTimedUnlock
  <2> DEFINE left == IF locks_now THEN Invalid ELSE timeout
             dur == IF "leave" \in keys THEN LEAVE_TIME ELSE timeout_dur
  <2>1. EndTurn(left, dur)
    BY <1>7 DEF HandleTimedUnlock
  <2>2. left \in {Invalid, timeout} /\ dur \in {Invalid} \cup Periods
    BY <1>0, PeriodsTyped
  <2>3. state' \in {"locked", "open", "timed_unlock"}
    BY <1>7 DEF HandleTimedUnlock
  <2>4. state' = "timed_unlock" => dur # Invalid \/ left # Invalid
    BY <1>0, <1>7, PeriodsTyped DEF HandleTimedUnlock
  <2>5. /\ timeout' \in {Invalid} \cup UNION {0..p : p \in Periods}
        /\ timeout_dur' \in {Invalid} \cup Periods
        /\ dur # Invalid \/ left # Invalid => timeout' # Invalid
    <3> HIDE DEF left, dur
    <3> QED BY <2>1, <2>2, EndTurnTyped
  <2>6. Handle("timed_unlock") /\ lock' = "open"
    BY <1>7 DEF HandleTimedUnlock
  <2> HIDE DEF left, dur
  <2> QED BY <2>3, <2>4, <2>5, <2>6, HandleInv
<1> QED BY <1>1, <1>2, <1>3, <1>4, <1>5, <1>6, <1>7

LEMMA ThreadsInv ==
  ASSUME Inv, PinThread \/ ReaderThread \/ GatewayThread \/ Start \/ Restart \/ Tick \/ Calendar
  PROVE  Inv'
<1> USE DEF Inv, TypeOK, TimedUnlockIsArmed, StartsInitial
<1>1. CASE PinThread
  BY <1>1 DEF PinThread, loopVars, gwVars
<1>2. CASE ReaderThread
  BY <1>2 DEF ReaderThread, loopVars, gwVars, clockVars
<1>3. CASE GatewayThread
  BY <1>3, OpiAssumption DEF GatewayThread, loopVars, clockVars
<1>4. CASE Start
  <2>1. state = "timed_unlock" => timeout # Invalid
    BY <1>4 DEF Start
  <2> QED BY <1>4, <2>1 DEF Start, loopVars, gwVars, clockVars
<1>5. CASE Restart
  <2>1. TypeOK'
    BY <1>5, ZerosInRange DEF Restart, Actions, Keys
  <2>2. TimedUnlockIsArmed' /\ StartsInitial'
    BY <1>5 DEF Restart
  <2> QED BY <2>1, <2>2
<1>6. CASE Tick
  <2>1. /\ timeout' \in {Invalid} \cup UNION {0..p : p \in Periods}
        /\ timeout # Invalid => timeout' # Invalid
    BY <1>6, CountDownTyped DEF Tick
  <2>2. since_report' \in {Invalid} \cup 0..STATUS_PERIOD + 1
    BY <1>6, CountUpTyped, OpiAssumption DEF Tick
  <2>3. since_poll' \in 0..POLL_PERIOD
    BY <1>6, CountUpTyped, OpiAssumption DEF Tick
  <2>4. turns' \in 0..TURNS
    BY <1>6 DEF Tick, TURNS
  <2> QED BY <1>6, <2>1, <2>2, <2>3, <2>4 DEF Tick
<1>7. CASE Calendar
  BY <1>7 DEF Calendar, loopVars, gwVars, clockVars
<1> QED BY <1>1, <1>2, <1>3, <1>4, <1>5, <1>6, <1>7

LEMMA Invariance == Spec => []Inv
<1>1. Inv /\ [Next]_vars => Inv'
  <2> SUFFICES ASSUME Inv, [Next]_vars PROVE Inv'
    OBVIOUS
  <2>1. CASE Loop
    BY <2>1, UpdateGatewayInv, HandlersInv DEF Loop
  <2>2. CASE PinThread \/ ReaderThread \/ GatewayThread \/ Start \/ Restart \/ Tick \/ Calendar
    BY <2>2, ThreadsInv
  <2>3. CASE UNCHANGED vars
    BY <2>3 DEF vars, loopVars, gwVars, clockVars, Inv, TypeOK, TimedUnlockIsArmed, StartsInitial
  <2> QED BY <2>1, <2>2, <2>3 DEF Next
<1> QED BY InitInv, <1>1, PTL DEF Spec

\* All variables keep their types: no path makes a timeout longer than the
\* longest period, and the counters stop at their limits.
THEOREM TypeCorrect == Spec => []TypeOK
BY Invariance, PTL DEF Inv

\* For all periods, a door in timed unlock has a timeout between turns.
THEOREM TimedUnlockAlwaysArmed == Spec => []TimedUnlockIsArmed
BY Invariance, PTL DEF Inv

-----------------------------------------------------------------------------
(***************************************************************************)
(* A remote unlock opens the door.  As long as the door has not been opened *)
(* for it, the controller is on its way to that, in one of few situations, *)
(* each with a bound on the turns since the poll.                          *)
(***************************************************************************)

\* Turns since the last poll.  While there has been no report, a bound on them.
turns_since_poll == TURNS * since_poll + turns
WAITING == TURNS * (STATUS_PERIOD + 1)

NoInterference == {"red", "white"} \cap keys = {}

\* The report with the action is still to come; the status ages with the poll.
AwaitsReport ==
  /\ since_report >= since_poll \/ since_report = STATUS_PERIOD + 1
  /\ turns_since_poll <= IF pc = "sleep" THEN WAITING + 1 ELSE WAITING

\* In a turn with the report.  The handler may find the timeout missing or over; it
\* locks then, but the lock's change is reported, at the latest the second time.
Reported ==
  /\ pc = "handle" /\ state = "timed_unlock" /\ lock = "open" /\ NoInterference
  /\ timeout_dur = GW_UNLOCK_PERIOD
  /\ \/ turns_since_poll <= WAITING + 1
     \/ last_lock_status = "locked" /\ turns_since_poll <= WAITING + 3

\* Unlocked for a while, but the pin is not written yet.
Unlocked ==
  /\ pc \in {"sleep", "handle"} /\ state = "timed_unlock" /\ lock = "open"
  /\ pc = "handle" => NoInterference
  /\ timeout # Invalid /\ timeout # 0 /\ ~pin_written
  /\ since_poll <= STATUS_PERIOD + 2

\* Locked by that handler, which the lock does not show yet; only a lock that
\* changed in the turn before is reported.
LocksAgain ==
  /\ state = "locked" /\ lock = "open" /\ ~pin_written
  /\ timeout # Invalid /\ timeout # 0
  /\ \/ pc = "sleep" /\ last_lock_status = "locked" /\ turns_since_poll <= WAITING + 4
     \/ pc = "sleep" /\ last_lock_status = "open" /\ turns_since_poll <= WAITING + 2
     \/ /\ pc = "handle" /\ NoInterference
        /\ last_lock_status = "open" /\ turns_since_poll <= WAITING + 2

\* Locked, which the next turn reports.
Relocked ==
  /\ pc = "sleep" /\ lock = "locked" /\ last_lock_status = "open"
  /\ turns_since_poll <= WAITING + 3

OnItsWay == AwaitsReport \/ Reported \/ Unlocked \/ LocksAgain \/ Relocked

\* Before the first report there has been no poll.
FirstReport == since_report = Invalid => pc # "handle" /\ since_poll = 0 /\ turns = 0

UnlockInv ==
  /\ FirstReport
  /\ pc = "start" => current_action = "none"
  /\ current_action = "unlock" /\ ~answered => OnItsWay

LEMMA Numbers ==
  ASSUME TypeOK
  PROVE  /\ STATUS_PERIOD \in Nat /\ POLL_PERIOD \in Nat /\ STATUS_PERIOD + 3 <= POLL_PERIOD
         /\ since_poll \in Nat /\ since_poll <= POLL_PERIOD
         /\ turns \in Nat /\ turns <= 3 /\ TURNS = 3
         /\ since_report \in Int
BY OpiAssumption, PollAssumption DEF TypeOK, TURNS, Invalid

LEMMA LateUnlocksOpened == TypeOK /\ UnlockInv => RemoteUnlockOpens
<1> SUFFICES ASSUME TypeOK, UnlockInv PROVE OnItsWay => since_poll < POLL_PERIOD
  BY Numbers DEF UnlockInv, RemoteUnlockOpens
<1> USE Numbers DEF turns_since_poll, WAITING
<1>1. AwaitsReport => since_poll < POLL_PERIOD
  BY DEF AwaitsReport
<1>2. Reported => since_poll < POLL_PERIOD
  BY DEF Reported
<1>3. Unlocked => since_poll < POLL_PERIOD
  BY DEF Unlocked
<1>4. LocksAgain => since_poll < POLL_PERIOD
  BY DEF LocksAgain
<1>5. Relocked => since_poll < POLL_PERIOD
  BY DEF Relocked
<1> QED BY <1>1, <1>2, <1>3, <1>4, <1>5 DEF OnItsWay

\* The turn up to the report.
LEMMA SampleOnItsWay ==
  ASSUME TypeOK, OnItsWay, current_action = "unlock", UpdateGateway, ~answered'
  PROVE  OnItsWay'
<1> USE Numbers DEF turns_since_poll, WAITING
<1>1. /\ pc = "sleep" /\ pc' = "handle" /\ NoInterference' /\ last_lock_status' = lock
      /\ UNCHANGED <<since_poll, turns, pin_written, timeout>>
  BY DEF UpdateGateway, NoReport, ReportOnly, RefuseLock, RemoteLock, RemoteUnlock, Report,
         Sample, NoInterference, gwVars, clockVars
<1>2. CASE report_needed
  <2>1. state' = "timed_unlock" /\ lock' = "open" /\ timeout_dur' = GW_UNLOCK_PERIOD
    BY <1>2 DEF UpdateGateway, NoReport, ReportOnly, RefuseLock, RemoteLock, RemoteUnlock,
                Report
  <2>2. CASE AwaitsReport
    BY <1>1, <2>1, <2>2 DEF AwaitsReport, Reported, OnItsWay
  <2>3. CASE Unlocked
    BY <1>1, <2>1, <2>3 DEF Unlocked, OnItsWay
  <2>4. CASE LocksAgain
    BY <1>1, <2>1, <2>4 DEF LocksAgain, Unlocked, OnItsWay
  <2>5. CASE Relocked
    BY <1>1, <2>1, <2>5 DEF Relocked, Reported, OnItsWay
  <2> QED BY <1>1, <2>2, <2>3, <2>4, <2>5 DEF OnItsWay, Reported
<1>3. CASE ~report_needed
  <2>1. UNCHANGED <<state, lock, since_report>>
    BY <1>3 DEF UpdateGateway, NoReport, ReportOnly, RefuseLock, RemoteLock, RemoteUnlock,
                Report
  <2>2. CASE AwaitsReport
    <3>1. since_report <= STATUS_PERIOD
      BY <1>3 DEF report_needed
    <3> QED BY <1>1, <2>1, <2>2, <3>1 DEF AwaitsReport, OnItsWay
  <2>3. CASE Unlocked
    BY <1>1, <2>1, <2>3 DEF Unlocked, OnItsWay
  <2>4. CASE LocksAgain
    BY <1>1, <1>3, <2>1, <2>4 DEF LocksAgain, report_needed, OnItsWay
  <2>5. CASE Relocked
    BY <1>3, <2>5 DEF Relocked, report_needed
  <2> QED BY <1>1, <2>2, <2>3, <2>4, <2>5 DEF OnItsWay, Reported
<1> QED BY <1>2, <1>3

\* The rest of the turn.
LEMMA HandlerOnItsWay ==
  ASSUME TypeOK, OnItsWay, 
         HandleInitial \/ LockedWhite \/ LockedCard \/ LockedLeave \/ LockedIdle
           \/ HandleOpen \/ HandleTimedUnlock
  PROVE  OnItsWay'
<1> USE Numbers DEF turns_since_poll, WAITING
<1>1. PICK s : Handle(s)
  BY DEF HandleInitial, LockedWhite, LockedCard, LockedLeave, LockedIdle, HandleLocked,
         HandleOpen, HandleTimedUnlock
<1>2. /\ pc = "handle" /\ pc' = "sleep" /\ ~pin_written' /\ turns' \in Nat
      /\ turns' <= turns + 1 /\ turns' <= 3
      /\ UNCHANGED <<last_lock_status, since_report, since_poll>>
  BY <1>1 DEF Handle, gwVars
<1>3. /\ GW_UNLOCK_PERIOD \notin {Invalid, 0} /\ LEAVE_TIME \notin {Invalid, 0}
      /\ ENTER_TIME \notin {Invalid, 0}
  BY OpiAssumption DEF Periods, Invalid
<1>4. CASE AwaitsReport
  BY <1>2, <1>4 DEF AwaitsReport, OnItsWay
<1>5. CASE Reported \/ Unlocked
  <2>1. HandleTimedUnlock /\ NoInterference
    BY <1>2, <1>5 DEF Reported, Unlocked, HandleInitial, LockedWhite, LockedCard, LockedLeave,
      LockedIdle, HandleLocked, HandleOpen, Handle
  <2>2. lock' = "open" /\ ~opens_now /\ (locks_now => timeout = 0)
    BY <2>1 DEF HandleTimedUnlock, NoInterference, opens_now, locks_now, timed_out
  <2> DEFINE left == IF locks_now THEN Invalid ELSE timeout
             dur == IF "leave" \in keys THEN LEAVE_TIME ELSE timeout_dur
  <2>3. /\ state' = IF "leave" \in keys THEN "timed_unlock"
                    ELSE IF left = Invalid THEN "locked" ELSE "timed_unlock"
        /\ timeout' = IF dur # Invalid THEN dur ELSE left
    BY <2>1, <2>2 DEF HandleTimedUnlock, EndTurn
  <2>4. CASE Reported
    <3>1. timeout' \notin {Invalid, 0} /\ state' \in {"locked", "timed_unlock"}
      BY <1>3, <2>3, <2>4 DEF Reported
    <3>2. last_lock_status \in {"locked", "open"}
      BY DEF TypeOK
    <3> QED BY <1>2, <2>2, <2>4, <3>1, <3>2
            DEF Reported, Unlocked, LocksAgain, OnItsWay
  <2>5. CASE Unlocked
    <3>1. timeout' \notin {Invalid, 0} /\ state' = "timed_unlock"
      <4>1. dur # 0
        BY <1>3, OpiAssumption DEF TypeOK, Invalid
      <4> QED BY <1>3, <2>2, <2>3, <2>5, <4>1 DEF Unlocked
    <3> QED BY <1>2, <2>2, <2>5, <3>1 DEF Unlocked, OnItsWay
  <2> QED BY <1>5, <2>4, <2>5
<1>6. CASE LocksAgain
  <2>1. LockedCard \/ LockedLeave \/ LockedIdle
    BY <1>2, <1>6 DEF LocksAgain, NoInterference, HandleInitial, LockedWhite, HandleOpen,
      HandleTimedUnlock, Handle
  <2>2. lock' = "locked"
    BY <2>1 DEF LockedCard, LockedLeave, LockedIdle, HandleLocked
  <2> QED BY <1>2, <1>6, <2>2 DEF LocksAgain, Relocked, OnItsWay
<1> QED BY <1>2, <1>4, <1>5, <1>6 DEF OnItsWay, Relocked

\* A tick needs three turns and then a write of the pin.
LEMMA TickOnItsWay ==
  ASSUME TypeOK, OnItsWay, Tick
  PROVE  OnItsWay'
<1> USE Numbers DEF turns_since_poll, WAITING
<1>1. /\ turns = 3 /\ turns' = 0 /\ pin_written
      /\ since_poll' = IF since_poll < POLL_PERIOD THEN since_poll + 1 ELSE since_poll
      /\ UNCHANGED <<pc, state, keys, last_lock_status, timeout_dur, lock>>
  BY DEF Tick, CountUp
<1>2. since_report' = IF since_report \in 0..STATUS_PERIOD THEN since_report + 1
                      ELSE since_report
  BY DEF Tick, CountUp
<1>3. since_report \in 0..STATUS_PERIOD + 1 \/ since_report = -1
  BY DEF TypeOK, Invalid
<1>4. CASE AwaitsReport
  BY <1>1, <1>2, <1>3, <1>4 DEF AwaitsReport, OnItsWay
<1>5. CASE Reported
  BY <1>1, <1>5 DEF Reported, NoInterference, OnItsWay
<1>6. CASE Relocked
  BY <1>1, <1>6 DEF Relocked, OnItsWay
<1> QED BY <1>1, <1>4, <1>5, <1>6 DEF OnItsWay, Unlocked, LocksAgain

\* The other threads: what the pin shows answers the action, and a poll begins
\* anew.
LEMMA ThreadsOnTheWay ==
  ASSUME TypeOK, FirstReport, current_action = "unlock" /\ ~answered => OnItsWay,
         PinThread \/ ReaderThread \/ GatewayThread \/ Calendar,
         current_action' = "unlock", ~answered'
  PROVE  OnItsWay'
<1> USE Numbers DEF turns_since_poll, WAITING
<1>1. CASE PinThread
  <2>1. /\ lock # "open" /\ ~answered
        /\ UNCHANGED <<pc, state, lock, keys, timeout, timeout_dur, last_lock_status,
                       since_report, since_poll, turns, current_action>>
    BY <1>1 DEF PinThread, loopVars, gwVars
  <2>2. AwaitsReport \/ Relocked
    BY <2>1 DEF OnItsWay, Reported, Unlocked, LocksAgain
  <2> QED BY <2>1, <2>2 DEF AwaitsReport, Relocked, OnItsWay
<1>2. CASE ReaderThread \/ Calendar
  <2>1. UNCHANGED <<pc, state, lock, keys, timeout, timeout_dur, last_lock_status,
                    since_report, since_poll, turns, pin_written, current_action, answered>>
    BY <1>2 DEF ReaderThread, Calendar, loopVars, gwVars, clockVars
  <2> QED BY <2>1 DEF AwaitsReport, Reported, Unlocked, LocksAgain, Relocked, NoInterference,
                      OnItsWay
<1>3. CASE GatewayThread
  <2>1. since_poll >= POLL_PERIOD /\ since_poll' = 0 /\ UNCHANGED <<turns, since_report, pc>>
    BY <1>3 DEF GatewayThread, loopVars, clockVars
  <2>2. since_report >= 0
    BY <2>1 DEF FirstReport, TypeOK, Invalid
  <2> QED BY <2>1, <2>2 DEF AwaitsReport, OnItsWay
<1> QED BY <1>1, <1>2, <1>3

\* Before the first report nothing has been polled or counted.
LEMMA FirstReportKept ==
  ASSUME TypeOK, FirstReport, [Next]_vars
  PROVE  FirstReport'
<1> USE DEF FirstReport
<1>1. CASE UpdateGateway
  BY <1>1 DEF UpdateGateway, NoReport, ReportOnly, RefuseLock, RemoteLock, RemoteUnlock,
              Report, report_needed, Invalid
<1>2. CASE HandleInitial \/ LockedWhite \/ LockedCard \/ LockedLeave \/ LockedIdle
             \/ HandleOpen \/ HandleTimedUnlock
  BY <1>2 DEF HandleInitial, LockedWhite, LockedCard, LockedLeave, LockedIdle, HandleLocked,
              HandleOpen, HandleTimedUnlock, Handle
<1>3. CASE PinThread \/ ReaderThread \/ Calendar \/ Start \/ UNCHANGED vars
  BY <1>3 DEF PinThread, ReaderThread, Calendar, Start, vars, loopVars, gwVars, clockVars
<1>4. CASE GatewayThread
  BY <1>4, Numbers DEF GatewayThread, loopVars, clockVars
<1>5. CASE Restart
  BY <1>5 DEF Restart
<1>6. CASE Tick
  <2>1. turns = 3 /\ since_report' = CountUp(since_report, STATUS_PERIOD + 1)
    BY <1>6, Numbers DEF Tick
  <2>2. since_report # Invalid => since_report' # Invalid
    BY <2>1, Numbers DEF CountUp, Invalid, TypeOK
  <2> QED BY <1>6, <2>1, <2>2
<1> QED BY <1>1, <1>2, <1>3, <1>4, <1>5, <1>6 DEF Next, Loop

LEMMA UnlockStep == Inv /\ UnlockInv /\ [Next]_vars => UnlockInv'
<1> SUFFICES ASSUME TypeOK, StartsInitial, UnlockInv, [Next]_vars PROVE UnlockInv'
  BY DEF Inv
<1>1. FirstReport'
  BY FirstReportKept DEF UnlockInv
<1>2. (pc = "start" => current_action = "none")'
  BY DEF UnlockInv, Next, Loop, UpdateGateway, NoReport, ReportOnly, RefuseLock, RemoteLock,
         RemoteUnlock, Report, Sample, HandleInitial, LockedWhite, LockedCard, LockedLeave,
         LockedIdle, HandleLocked, HandleOpen, HandleTimedUnlock, Handle, PinThread,
         ReaderThread, GatewayThread, Start, Restart, Tick, Calendar, vars, gwVars
<1>3. ASSUME current_action' = "unlock", ~answered' PROVE OnItsWay'
  <2> USE <1>3
  <2>1. CASE UpdateGateway
    <3>1. current_action = "unlock" /\ ~answered
      BY <2>1 DEF UpdateGateway, NoReport, ReportOnly, RefuseLock, RemoteLock, RemoteUnlock,
                  Report, Sample, gwVars
    <3> QED BY <2>1, <3>1, SampleOnItsWay DEF UnlockInv
  <2>2. CASE HandleInitial \/ LockedWhite \/ LockedCard \/ LockedLeave \/ LockedIdle
               \/ HandleOpen \/ HandleTimedUnlock
    <3>1. current_action = "unlock" /\ ~answered
      BY <2>2 DEF HandleInitial, LockedWhite, LockedCard, LockedLeave, LockedIdle,
                  HandleLocked, HandleOpen, HandleTimedUnlock, Handle, gwVars
    <3> QED BY <2>2, <3>1, HandlerOnItsWay DEF UnlockInv
  <2>3. CASE PinThread \/ ReaderThread \/ GatewayThread \/ Calendar
    BY <2>3, ThreadsOnTheWay DEF UnlockInv
  <2>4. CASE Tick
    BY <2>4, TickOnItsWay DEF Tick, UnlockInv
  <2>5. CASE Start \/ Restart
    BY <2>5 DEF Start, Restart, gwVars, UnlockInv
  <2>6. CASE UNCHANGED vars
    BY <2>6 DEF vars, loopVars, gwVars, clockVars, UnlockInv, OnItsWay, AwaitsReport, Reported,
       Unlocked, LocksAgain, Relocked, NoInterference, turns_since_poll
  <2> QED BY <2>1, <2>2, <2>3, <2>4, <2>5, <2>6 DEF Next, Loop
<1> QED BY <1>1, <1>2, <1>3 DEF UnlockInv

\* For all periods, if the status is reported in time before the next poll: when
\* that may take a remote unlock away, the door has been opened for it, or Red or
\* White was pressed.
THEOREM RemoteUnlocksAlwaysOpen == Spec => []RemoteUnlockOpens
<1>1. Init => UnlockInv
  BY DEF Init, UnlockInv, FirstReport
<1>2. TypeOK /\ UnlockInv => RemoteUnlockOpens
  BY LateUnlocksOpened
<1> QED BY <1>1, <1>2, UnlockStep, Invariance, TypeCorrect, PTL DEF Spec
=============================================================================
