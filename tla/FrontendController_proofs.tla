---------------------- MODULE FrontendController_proofs ----------------------
(***************************************************************************)
(* Theorems about FrontendController, for all cards, periods and kinds of  *)
(* door.  TypeOK is inductive; the safety properties and the refinement of *)
(* DoorStates follow from it and the strengthenings StatusInv and SpaceInv.*)
(***************************************************************************)
EXTENDS FrontendController, TLAPS

-----------------------------------------------------------------------------
(* Types.  The flags and the other values are two lemmas. *)

\* A device status composed of flags is one.
LEMMA StatusType ==
  ASSUME NEW door \in BOOLEAN, NEW space \in BOOLEAN, NEW locked \in BOOLEAN
  PROVE  Status(door, space, locked) \in [door : BOOLEAN, space : BOOLEAN, locked : BOOLEAN]
BY DEF Status

\* Publishing keeps the flags if the action before it kept the lock a flag.
LEMMA PublishFlags ==
  ASSUME FlagsOK, is_locked' \in BOOLEAN, PublishStatus, relay' = relay,
         allow_open' = allow_open
  PROVE  FlagsOK'
<1>1. device_status' \in [door : BOOLEAN, space : BOOLEAN, locked : BOOLEAN]
  BY Zenon, StatusType DEF PublishStatus, lock_status, FlagsOK
<1> QED
  BY Zenon, <1>1 DEF PublishStatus, FlagsOK, spaceVars, worldVars

\* No step gives a flag another value.
LEMMA FlagsStep == FlagsOK /\ [Next]_vars => FlagsOK'
<1> SUFFICES ASSUME FlagsOK, [Next]_vars PROVE FlagsOK'
  OBVIOUS
<1> USE DEF FlagsOK, loopVars, doorVars, inputVars, spaceVars, readerVars, mqttVars, worldVars
<1>1. CASE Sample
  BY Zenon, <1>1 DEF Sample, gateway_update_needed, update_on_change
<1>2. CASE GatewayIdle
  <2>1. is_locked' \in BOOLEAN
    BY Zenon, <1>2 DEF GatewayIdle
  <2> QED
    BY Zenon, <1>2, <2>1, PublishFlags DEF GatewayIdle, TakeAction
<1>3. CASE GatewayLock
  <2>1. is_locked' \in BOOLEAN
    BY Zenon, <1>3 DEF GatewayLock
  <2> QED
    BY Zenon, <1>3, <2>1, PublishFlags DEF GatewayLock, TakeAction
<1>4. CASE GatewayUnlock
  <2>1. is_locked' \in BOOLEAN
    BY Zenon, <1>4 DEF GatewayUnlock
  <2> QED
    BY Zenon, <1>4, <2>1, PublishFlags DEF GatewayUnlock, TakeAction
<1>5. CASE GatewaySetToken
  <2>1. is_locked' \in BOOLEAN
    BY Zenon, <1>5 DEF GatewaySetToken
  <2> QED
    BY Zenon, <1>5, <2>1, PublishFlags DEF GatewaySetToken, TakeAction
<1>6. CASE GatewayReboot
  BY Zenon, <1>6 DEF GatewayReboot, TakeAction
<1>7. CASE HandleInitial
  BY Zenon, <1>7 DEF HandleInitial, EndTurn
<1>8. ASSUME NEW keys \in SUBSET Keys, LockedWhite(keys) PROVE FlagsOK'
  BY Zenon, <1>8 DEF LockedWhite, EndTurn, Lock, CheckThursday, AnnounceSpace
<1>9. ASSUME NEW keys \in SUBSET Keys, LockedGreen(keys) PROVE FlagsOK'
  BY Zenon, <1>9 DEF LockedGreen, EndTurn, Lock
<1>10. ASSUME NEW keys \in SUBSET Keys, LockedCard(keys) PROVE FlagsOK'
  BY Zenon, <1>10 DEF LockedCard, EndTurn, Lock, has_access
<1>11. ASSUME NEW keys \in SUBSET Keys, LockedLeave(keys) PROVE FlagsOK'
  BY Zenon, <1>11 DEF LockedLeave, EndTurn
<1>12. ASSUME NEW keys \in SUBSET Keys, LockedIdle(keys) PROVE FlagsOK'
  BY Zenon, <1>12 DEF LockedIdle, EndTurn, Lock
<1>13. ASSUME NEW keys \in SUBSET Keys, HandleOpen(keys) PROVE FlagsOK'
  BY Zenon, <1>13 DEF HandleOpen, EndTurn, CloseSpace, must_close, AnnounceSpace
<1>14. ASSUME NEW keys \in SUBSET Keys, TimedRelock(keys) PROVE FlagsOK'
  BY Zenon, <1>14 DEF TimedRelock, EndTurn
<1>15. ASSUME NEW keys \in SUBSET Keys, TimedWhite(keys) PROVE FlagsOK'
  BY Zenon, <1>15 DEF TimedWhite, EndTurn, CheckThursday, AnnounceSpace
<1>16. ASSUME NEW keys \in SUBSET Keys, TimedIdle(keys) PROVE FlagsOK'
  BY Zenon, <1>16 DEF TimedIdle, EndTurn
<1>17. CASE Boot
  BY Zenon, StatusType, <1>17 DEF Boot
<1>18. ASSUME NEW c \in Cards, ReaderPost(c) PROVE FlagsOK'
  BY Zenon, <1>18 DEF ReaderPost
<1>19. CASE ReaderExchange
  BY Zenon, <1>19 DEF ReaderExchange
<1>20. ASSUME NEW name \in RemoteActions, NEW arg \in Args, MqttAction(name, arg)
      PROVE  FlagsOK'
  BY Zenon, <1>20 DEF MqttAction
<1>21. ASSUME NEW allow \in BOOLEAN, MqttAllowOpen(allow) PROVE FlagsOK'
  BY Zenon, <1>21 DEF MqttAllowOpen
<1>22. ASSUME NEW cards \in SUBSET Cards, CacheSwap(cards) PROVE FlagsOK'
  BY Zenon, <1>22 DEF CacheSwap
<1>23. CASE Tick
  BY Zenon, <1>23 DEF Tick
<1>24. CASE Calendar
  BY Zenon, <1>24 DEF Calendar
<1>25. CASE UNCHANGED vars
  BY Zenon, <1>25 DEF vars
<1> QED
  BY <1>1, <1>2, <1>3, <1>4, <1>5, <1>6, <1>7, <1>8, <1>9, <1>10, <1>11, <1>12,
     <1>13, <1>14, <1>15, <1>16, <1>17, <1>18, <1>19, <1>20, <1>21, <1>22, <1>23, <1>24,
     <1>25
  DEF Next, Loop, Gateway, Handle, HandleLocked, HandleTimedUnlock, Restart,
      Threads, PowerCycle

\* No step takes another variable out of its type.
LEMMA ValuesStep == ValuesOK /\ [Next]_vars => ValuesOK'
<1> SUFFICES ASSUME ValuesOK, [Next]_vars PROVE ValuesOK'
  OBVIOUS
<1> USE PeriodsAssumption
    DEF ValuesOK, NoTimeout, NoCard, Patterns, Args,
        loopVars, doorVars, inputVars, spaceVars, readerVars, mqttVars, worldVars
<1>1. CASE Sample
  BY SMT, <1>1 DEF Sample, gateway_update_needed, update_on_change
<1>2. CASE GatewayIdle
  BY SMT, <1>2 DEF GatewayIdle, TakeAction, PublishStatus
<1>3. CASE GatewayLock
  BY SMT, <1>3 DEF GatewayLock, TakeAction, PublishStatus
<1>4. CASE GatewayUnlock
  BY SMT, <1>4 DEF GatewayUnlock, TakeAction, PublishStatus, unlock_timeout
<1>5. CASE GatewaySetToken
  BY SMT, <1>5 DEF GatewaySetToken, TakeAction, PublishStatus
<1>6. CASE GatewayReboot
  BY SMT, <1>6 DEF GatewayReboot, TakeAction
<1>7. CASE HandleInitial
  BY SMT, <1>7 DEF HandleInitial, EndTurn
<1>8. ASSUME NEW keys \in SUBSET Keys, LockedWhite(keys) PROVE ValuesOK'
  BY SMT, <1>8 DEF LockedWhite, EndTurn, Lock, CheckThursday, AnnounceSpace
<1>9. ASSUME NEW keys \in SUBSET Keys, LockedGreen(keys) PROVE ValuesOK'
  BY SMT, <1>9 DEF LockedGreen, EndTurn, Lock
<1>10. ASSUME NEW keys \in SUBSET Keys, LockedCard(keys) PROVE ValuesOK'
  BY SMT, <1>10 DEF LockedCard, EndTurn, Lock, has_access
<1>11. ASSUME NEW keys \in SUBSET Keys, LockedLeave(keys) PROVE ValuesOK'
  BY SMT, <1>11 DEF LockedLeave, EndTurn
<1>12. ASSUME NEW keys \in SUBSET Keys, LockedIdle(keys) PROVE ValuesOK'
  BY SMT, <1>12 DEF LockedIdle, EndTurn, Lock
<1>13. ASSUME NEW keys \in SUBSET Keys, HandleOpen(keys) PROVE ValuesOK'
  BY SMT, <1>13 DEF HandleOpen, EndTurn, CloseSpace, must_close, AnnounceSpace
<1>14. ASSUME NEW keys \in SUBSET Keys, TimedRelock(keys) PROVE ValuesOK'
  BY SMT, <1>14 DEF TimedRelock, EndTurn
<1>15. ASSUME NEW keys \in SUBSET Keys, TimedWhite(keys) PROVE ValuesOK'
  BY SMT, <1>15 DEF TimedWhite, EndTurn, CheckThursday, AnnounceSpace
<1>16. ASSUME NEW keys \in SUBSET Keys, TimedIdle(keys) PROVE ValuesOK'
  BY SMT, <1>16 DEF TimedIdle, EndTurn
<1>17. CASE Boot
  BY SMT, <1>17 DEF Boot
<1>18. ASSUME NEW c \in Cards, ReaderPost(c) PROVE ValuesOK'
  BY SMT, <1>18 DEF ReaderPost
<1>19. CASE ReaderExchange
  BY SMT, <1>19 DEF ReaderExchange
<1>20. ASSUME NEW name \in RemoteActions, NEW arg \in Args, MqttAction(name, arg)
      PROVE  ValuesOK'
  BY SMT, <1>20 DEF MqttAction
<1>21. ASSUME NEW allow \in BOOLEAN, MqttAllowOpen(allow) PROVE ValuesOK'
  BY SMT, <1>21 DEF MqttAllowOpen
<1>22. ASSUME NEW cards \in SUBSET Cards, CacheSwap(cards) PROVE ValuesOK'
  BY SMT, <1>22 DEF CacheSwap
<1>23. CASE Tick
  BY SMT, <1>23 DEF Tick
<1>24. CASE Calendar
  BY SMT, <1>24 DEF Calendar
<1>25. CASE UNCHANGED vars
  BY SMT, <1>25 DEF vars
<1> QED
  BY <1>1, <1>2, <1>3, <1>4, <1>5, <1>6, <1>7, <1>8, <1>9, <1>10, <1>11, <1>12,
     <1>13, <1>14, <1>15, <1>16, <1>17, <1>18, <1>19, <1>20, <1>21, <1>22, <1>23, <1>24,
     <1>25
  DEF Next, Loop, Gateway, Handle, HandleLocked, HandleTimedUnlock, Restart,
      Threads, PowerCycle

\* Every variable keeps its type: in particular no path arms a timeout longer
\* than UNLOCK_PERIOD and the status age stops counting.
THEOREM TypeCorrect == Spec => []TypeOK
<1>1. Init => FlagsOK
  BY Zenon, StatusType DEF Init, FlagsOK
<1>2. Init => ValuesOK
  BY SMT, PeriodsAssumption DEF Init, ValuesOK, NoTimeout, NoCard, Patterns, Args
<1>3. TypeOK /\ [Next]_vars => TypeOK'
  BY FlagsStep, ValuesStep DEF TypeOK
<1> QED
  BY <1>1, <1>2, <1>3, PTL DEF Spec, TypeOK

-----------------------------------------------------------------------------
(* The timed unlock. *)

\* No step leaves or brings a door in timed unlock without a timeout.
LEMMA ArmedStep ==
  ValuesOK /\ TimedUnlockIsArmed /\ [Next]_vars => TimedUnlockIsArmed'
<1> SUFFICES ASSUME ValuesOK, TimedUnlockIsArmed, [Next]_vars
             PROVE  TimedUnlockIsArmed'
  OBVIOUS
<1> USE PeriodsAssumption
    DEF ValuesOK, TimedUnlockIsArmed, NoTimeout,
        loopVars, doorVars, inputVars, spaceVars, readerVars, mqttVars, worldVars
<1>1. CASE Sample
  BY SMT, <1>1 DEF Sample
<1>2. CASE GatewayIdle
  BY SMT, <1>2 DEF GatewayIdle, TakeAction, PublishStatus
<1>3. CASE GatewayLock
  BY SMT, <1>3 DEF GatewayLock, TakeAction, PublishStatus
<1>4. CASE GatewayUnlock
  BY SMT, <1>4 DEF GatewayUnlock, TakeAction, PublishStatus, unlock_timeout
<1>5. CASE GatewaySetToken
  BY SMT, <1>5 DEF GatewaySetToken, TakeAction, PublishStatus
<1>6. CASE GatewayReboot
  BY SMT, <1>6 DEF GatewayReboot, TakeAction
<1>7. CASE HandleInitial
  BY SMT, <1>7 DEF HandleInitial, EndTurn
<1>8. ASSUME NEW keys \in SUBSET Keys, LockedWhite(keys) PROVE TimedUnlockIsArmed'
  BY SMT, <1>8 DEF LockedWhite, EndTurn, Lock, CheckThursday
<1>9. ASSUME NEW keys \in SUBSET Keys, LockedGreen(keys) PROVE TimedUnlockIsArmed'
  BY SMT, <1>9 DEF LockedGreen, EndTurn, Lock
<1>10. ASSUME NEW keys \in SUBSET Keys, LockedCard(keys) PROVE TimedUnlockIsArmed'
  BY SMT, <1>10 DEF LockedCard, EndTurn, Lock
<1>11. ASSUME NEW keys \in SUBSET Keys, LockedLeave(keys) PROVE TimedUnlockIsArmed'
  BY SMT, <1>11 DEF LockedLeave, EndTurn
<1>12. ASSUME NEW keys \in SUBSET Keys, LockedIdle(keys) PROVE TimedUnlockIsArmed'
  BY SMT, <1>12 DEF LockedIdle, EndTurn, Lock
<1>13. ASSUME NEW keys \in SUBSET Keys, HandleOpen(keys) PROVE TimedUnlockIsArmed'
  BY SMT, <1>13 DEF HandleOpen, EndTurn, CloseSpace
<1>14. ASSUME NEW keys \in SUBSET Keys, TimedRelock(keys) PROVE TimedUnlockIsArmed'
  BY SMT, <1>14 DEF TimedRelock, EndTurn
<1>15. ASSUME NEW keys \in SUBSET Keys, TimedWhite(keys) PROVE TimedUnlockIsArmed'
  BY SMT, <1>15 DEF TimedWhite, EndTurn, CheckThursday
<1>16. ASSUME NEW keys \in SUBSET Keys, TimedIdle(keys) PROVE TimedUnlockIsArmed'
  BY SMT, <1>16 DEF TimedIdle, EndTurn
<1>17. CASE Boot
  BY SMT, <1>17 DEF Boot
<1>18. ASSUME NEW c \in Cards, ReaderPost(c) PROVE TimedUnlockIsArmed'
  BY SMT, <1>18 DEF ReaderPost
<1>19. CASE ReaderExchange
  BY SMT, <1>19 DEF ReaderExchange
<1>20. ASSUME NEW name \in RemoteActions, NEW arg \in Args, MqttAction(name, arg)
      PROVE  TimedUnlockIsArmed'
  BY SMT, <1>20 DEF MqttAction
<1>21. ASSUME NEW allow \in BOOLEAN, MqttAllowOpen(allow) PROVE TimedUnlockIsArmed'
  BY SMT, <1>21 DEF MqttAllowOpen
<1>22. ASSUME NEW cards \in SUBSET Cards, CacheSwap(cards) PROVE TimedUnlockIsArmed'
  BY SMT, <1>22 DEF CacheSwap
<1>23. CASE Tick
  BY SMT, <1>23 DEF Tick
<1>24. CASE Calendar
  BY SMT, <1>24 DEF Calendar
<1>25. CASE UNCHANGED vars
  BY SMT, <1>25 DEF vars
<1> QED
  BY <1>1, <1>2, <1>3, <1>4, <1>5, <1>6, <1>7, <1>8, <1>9, <1>10, <1>11, <1>12,
     <1>13, <1>14, <1>15, <1>16, <1>17, <1>18, <1>19, <1>20, <1>21, <1>22, <1>23, <1>24,
     <1>25
  DEF Next, Loop, Gateway, Handle, HandleLocked, HandleTimedUnlock, Restart,
      Threads, PowerCycle

\* TimedUnlockIsArmed, for all periods: a door in timed unlock always has a
\* timeout at most UNLOCK_PERIOD away.
THEOREM TimedUnlockAlwaysArmed == Spec => []TimedUnlockIsArmed
<1>1. Init => TimedUnlockIsArmed
  BY DEF Init, TimedUnlockIsArmed
<1>2. TypeOK /\ TimedUnlockIsArmed /\ [Next]_vars => TimedUnlockIsArmed'
  BY ArmedStep DEF TypeOK
<1> QED
  BY <1>1, <1>2, TypeCorrect, PTL DEF Spec

-----------------------------------------------------------------------------
(* The retained device status. *)

\* The published door is the one last compared, a published unlock is true or
\* differs from the lock last compared, so that the next turn publishes again.
StatusInv ==
  /\ last_is_door_open = is_door_open
  /\ pc = "gateway" => last_is_locked = is_locked
  /\ pc \in {"sleep", "handle"} => device_status.door = is_door_open
  /\ pc = "sleep" /\ ~device_status.locked /\ is_locked => ~last_is_locked
  /\ pc = "handle" /\ ~device_status.locked =>
       /\ ~is_locked
       /\ last_is_locked => state = "timed_unlock"

\* The fields of a composed status.
LEMMA StatusFields ==
  ASSUME NEW door, NEW space, NEW locked
  PROVE  /\ Status(door, space, locked).door = door
         /\ Status(door, space, locked).locked = locked
BY DEF Status

\* A publication establishes StatusInv, if a lock that differs from the one last
\* compared was undone by a remote unlock.
LEMMA PublishedStatus ==
  ASSUME StatusInv, PublishStatus,
         last_is_locked /\ ~is_locked' => state' = "timed_unlock"
  PROVE  StatusInv'
<1>1. pc' = "handle" /\ is_door_open' = is_door_open
      /\ last_is_door_open' = last_is_door_open /\ last_is_locked' = last_is_locked
  BY Zenon DEF PublishStatus
<1>2. device_status'.door = is_door_open /\ device_status'.locked = is_locked'
  <2>1. device_status' = Status(is_door_open, is_space_open, is_locked')
    BY Zenon DEF PublishStatus, lock_status
  <2>2. /\ Status(is_door_open, is_space_open, is_locked').door = is_door_open
        /\ Status(is_door_open, is_space_open, is_locked').locked = is_locked'
    BY Zenon DEF Status
  <2> QED
    BY <2>1, <2>2
<1>3. pc' # "gateway" /\ pc' # "sleep"
  BY SMT, <1>1
<1>4. last_is_door_open' = is_door_open'
  BY Zenon, <1>1 DEF StatusInv
<1>5. device_status'.door = is_door_open'
  BY Zenon, <1>1, <1>2
<1>6. ~device_status'.locked => ~is_locked' /\ (last_is_locked' => state' = "timed_unlock")
  BY Zenon, <1>1, <1>2
<1> QED
  BY Zenon, <1>3, <1>4, <1>5, <1>6 DEF StatusInv

\* Each step keeps StatusInv.
LEMMA StatusStep == FlagsOK /\ StatusInv /\ [Next]_vars => StatusInv'
<1> SUFFICES ASSUME FlagsOK, StatusInv, [Next]_vars PROVE StatusInv'
  OBVIOUS
<1> USE DEF FlagsOK, StatusInv, loopVars, doorVars, inputVars, spaceVars, readerVars, mqttVars, worldVars
<1>1. CASE Sample
  <2>1. pc' \in {"gateway", "handle"} /\ pc' # "sleep"
    BY SMT, <1>1 DEF Sample
  <2>2. last_is_door_open' = is_door_open' /\ last_is_locked' = is_locked
        /\ is_locked' = is_locked /\ device_status' = device_status
    BY Zenon, <1>1 DEF Sample
  <2>3. pc' = "handle" => /\ is_locked = last_is_locked
                          /\ is_door_open' = last_is_door_open
    <3>1. CASE gateway_update_needed(is_door_open')
      BY SMT, <1>1, <3>1 DEF Sample
    <3>2. CASE ~gateway_update_needed(is_door_open')
      BY Zenon, <3>2 DEF gateway_update_needed, update_on_change
    <3> QED
      BY Zenon, <3>1, <3>2
  <2>4. pc = "sleep"
    BY Zenon, <1>1 DEF Sample
  <2>5. pc' = "handle" => device_status'.door = is_door_open'
    BY Zenon, <2>2, <2>3, <2>4
  <2>6. pc' = "handle" /\ ~device_status'.locked => ~is_locked' /\ ~last_is_locked'
    BY Zenon, <2>2, <2>3, <2>4
  <2> QED
    BY Zenon, <2>1, <2>2, <2>5, <2>6
<1>2. CASE GatewayIdle
  <2>1. is_locked' = is_locked /\ pc = "gateway" /\ PublishStatus
    BY Zenon, <1>2 DEF GatewayIdle
  <2>2. ~(last_is_locked /\ ~is_locked')
    BY Zenon, <2>1
  <2> QED
    BY Zenon, <2>1, <2>2, PublishedStatus
<1>3. CASE GatewayLock
  BY Zenon, <1>3, PublishedStatus DEF GatewayLock
<1>4. CASE GatewayUnlock
  BY Zenon, <1>4, PublishedStatus DEF GatewayUnlock
<1>5. CASE GatewaySetToken
  <2>1. is_locked' = is_locked /\ pc = "gateway" /\ PublishStatus
    BY Zenon, <1>5 DEF GatewaySetToken
  <2>2. ~(last_is_locked /\ ~is_locked')
    BY Zenon, <2>1
  <2> QED
    BY Zenon, <2>1, <2>2, PublishedStatus
<1>6. CASE GatewayReboot
  BY Zenon, <1>6 DEF GatewayReboot, TakeAction
<1>7. CASE HandleInitial
  BY Zenon, <1>7 DEF HandleInitial, EndTurn
<1>8. ASSUME NEW keys \in SUBSET Keys, LockedWhite(keys) PROVE StatusInv'
  BY Zenon, <1>8 DEF LockedWhite, EndTurn, Lock, CheckThursday
<1>9. ASSUME NEW keys \in SUBSET Keys, LockedGreen(keys) PROVE StatusInv'
  BY Zenon, <1>9 DEF LockedGreen, EndTurn, Lock
<1>10. ASSUME NEW keys \in SUBSET Keys, LockedCard(keys) PROVE StatusInv'
  BY Zenon, <1>10 DEF LockedCard, EndTurn, Lock
<1>11. ASSUME NEW keys \in SUBSET Keys, LockedLeave(keys) PROVE StatusInv'
  BY Zenon, <1>11 DEF LockedLeave, EndTurn
<1>12. ASSUME NEW keys \in SUBSET Keys, LockedIdle(keys) PROVE StatusInv'
  BY Zenon, <1>12 DEF LockedIdle, EndTurn, Lock
<1>13. ASSUME NEW keys \in SUBSET Keys, HandleOpen(keys) PROVE StatusInv'
  BY Zenon, <1>13 DEF HandleOpen, EndTurn, CloseSpace
<1>14. ASSUME NEW keys \in SUBSET Keys, TimedRelock(keys) PROVE StatusInv'
  BY Zenon, <1>14 DEF TimedRelock, EndTurn
<1>15. ASSUME NEW keys \in SUBSET Keys, TimedWhite(keys) PROVE StatusInv'
  BY Zenon, <1>15 DEF TimedWhite, EndTurn, CheckThursday
<1>16. ASSUME NEW keys \in SUBSET Keys, TimedIdle(keys) PROVE StatusInv'
  BY Zenon, <1>16 DEF TimedIdle, EndTurn
<1>17. CASE Boot
  BY Zenon, <1>17, StatusFields DEF Boot
<1>18. ASSUME NEW c \in Cards, ReaderPost(c) PROVE StatusInv'
  BY Zenon, <1>18 DEF ReaderPost
<1>19. CASE ReaderExchange
  BY Zenon, <1>19 DEF ReaderExchange
<1>20. ASSUME NEW name \in RemoteActions, NEW arg \in Args, MqttAction(name, arg)
      PROVE  StatusInv'
  BY Zenon, <1>20 DEF MqttAction
<1>21. ASSUME NEW allow \in BOOLEAN, MqttAllowOpen(allow) PROVE StatusInv'
  BY Zenon, <1>21 DEF MqttAllowOpen
<1>22. ASSUME NEW cards \in SUBSET Cards, CacheSwap(cards) PROVE StatusInv'
  BY Zenon, <1>22 DEF CacheSwap
<1>23. CASE Tick
  BY Zenon, <1>23 DEF Tick
<1>24. CASE Calendar
  BY Zenon, <1>24 DEF Calendar
<1>25. CASE UNCHANGED vars
  BY Zenon, <1>25 DEF vars
<1> QED
  BY <1>1, <1>2, <1>3, <1>4, <1>5, <1>6, <1>7, <1>8, <1>9, <1>10, <1>11, <1>12,
     <1>13, <1>14, <1>15, <1>16, <1>17, <1>18, <1>19, <1>20, <1>21, <1>22, <1>23, <1>24,
     <1>25
  DEF Next, Loop, Gateway, Handle, HandleLocked, HandleTimedUnlock, Restart,
      Threads, PowerCycle

\* StatusNotUnlockedWhenLocked, for every door: the broker is not left with an
\* unlock that is over or a door contact that is not the one last read.
THEOREM StatusNeverFalselyUnlocked == Spec => []StatusNotUnlockedWhenLocked
<1>1. Init => StatusInv
  <2> SUFFICES ASSUME Init PROVE StatusInv
    OBVIOUS
  <2>1. pc = "sleep" /\ pc # "gateway" /\ pc # "handle"
    BY SMT DEF Init
  <2>2. last_is_door_open = is_door_open /\ last_is_locked = FALSE
        /\ is_door_open = FALSE /\ device_status = Status(FALSE, FALSE, TRUE)
    BY Zenon DEF Init
  <2> QED
    BY Zenon, <2>1, <2>2, StatusFields DEF StatusInv
<1>2. TypeOK /\ StatusInv /\ [Next]_vars => StatusInv'
  BY StatusStep DEF TypeOK
<1>3. StatusInv => StatusNotUnlockedWhenLocked
  BY Zenon DEF StatusInv, StatusNotUnlockedWhenLocked
<1> QED
  BY <1>1, <1>2, <1>3, TypeCorrect, PTL DEF Spec

-----------------------------------------------------------------------------
(* The space. *)

\* The filter for repeated announcements remembers nothing or the last one.
SpaceInv == SpaceAnnounced /\ last_space_status \in {"empty", slack}

\* Each step keeps SpaceInv.
LEMMA SpaceStep ==
  TimedUnlockIsArmed /\ SpaceInv /\ [Next]_vars => SpaceInv'
<1> SUFFICES ASSUME TimedUnlockIsArmed, SpaceInv, [Next]_vars PROVE SpaceInv'
  OBVIOUS
<1> USE DEF SpaceInv, SpaceAnnounced, loopVars, doorVars, inputVars, spaceVars, readerVars, mqttVars, worldVars
<1>1. CASE Sample
  BY Zenon, <1>1 DEF Sample
<1>2. CASE GatewayIdle
  BY Zenon, <1>2 DEF GatewayIdle, TakeAction, PublishStatus
<1>3. CASE GatewayLock
  BY Zenon, <1>3 DEF GatewayLock, TakeAction, PublishStatus
<1>4. CASE GatewayUnlock
  BY Zenon, <1>4 DEF GatewayUnlock, TakeAction, PublishStatus
<1>5. CASE GatewaySetToken
  BY Zenon, <1>5 DEF GatewaySetToken, TakeAction, PublishStatus
<1>6. CASE GatewayReboot
  BY Zenon, <1>6 DEF GatewayReboot, TakeAction
<1>7. CASE HandleInitial
  BY Zenon, <1>7 DEF HandleInitial, EndTurn
<1>8. ASSUME NEW keys \in SUBSET Keys, LockedWhite(keys) PROVE SpaceInv'
  BY Zenon, <1>8 DEF LockedWhite, EndTurn, Lock, CheckThursday, AnnounceSpace
<1>9. ASSUME NEW keys \in SUBSET Keys, LockedGreen(keys) PROVE SpaceInv'
  BY Zenon, <1>9 DEF LockedGreen, EndTurn, Lock
<1>10. ASSUME NEW keys \in SUBSET Keys, LockedCard(keys) PROVE SpaceInv'
  BY Zenon, <1>10 DEF LockedCard, EndTurn, Lock
<1>11. ASSUME NEW keys \in SUBSET Keys, LockedLeave(keys) PROVE SpaceInv'
  BY Zenon, <1>11 DEF LockedLeave, EndTurn
<1>12. ASSUME NEW keys \in SUBSET Keys, LockedIdle(keys) PROVE SpaceInv'
  BY Zenon, <1>12 DEF LockedIdle, EndTurn, Lock
<1>13. ASSUME NEW keys \in SUBSET Keys, HandleOpen(keys) PROVE SpaceInv'
  BY Zenon, <1>13 DEF HandleOpen, EndTurn, CloseSpace, must_close, AnnounceSpace
<1>14. ASSUME NEW keys \in SUBSET Keys, TimedRelock(keys) PROVE SpaceInv'
  BY Zenon, <1>14 DEF TimedRelock, EndTurn
<1>15. ASSUME NEW keys \in SUBSET Keys, TimedWhite(keys) PROVE SpaceInv'
  BY Zenon, <1>15 DEF TimedWhite, EndTurn, CheckThursday, AnnounceSpace
<1>16. ASSUME NEW keys \in SUBSET Keys, TimedIdle(keys) PROVE SpaceInv'
  BY Zenon, <1>16 DEF TimedIdle, EndTurn
<1>17. CASE Boot
  BY Zenon, <1>17 DEF Boot
<1>18. ASSUME NEW c \in Cards, ReaderPost(c) PROVE SpaceInv'
  BY Zenon, <1>18 DEF ReaderPost
<1>19. CASE ReaderExchange
  BY Zenon, <1>19 DEF ReaderExchange
<1>20. ASSUME NEW name \in RemoteActions, NEW arg \in Args, MqttAction(name, arg)
      PROVE  SpaceInv'
  BY Zenon, <1>20 DEF MqttAction
<1>21. ASSUME NEW allow \in BOOLEAN, MqttAllowOpen(allow) PROVE SpaceInv'
  BY Zenon, <1>21 DEF MqttAllowOpen
<1>22. ASSUME NEW cards \in SUBSET Cards, CacheSwap(cards) PROVE SpaceInv'
  BY Zenon, <1>22 DEF CacheSwap
<1>23. CASE Tick
  BY Zenon, <1>23 DEF Tick
<1>24. CASE Calendar
  BY Zenon, <1>24 DEF Calendar
<1>25. CASE UNCHANGED vars
  BY Zenon, <1>25 DEF vars
<1> QED
  BY <1>1, <1>2, <1>3, <1>4, <1>5, <1>6, <1>7, <1>8, <1>9, <1>10, <1>11, <1>12,
     <1>13, <1>14, <1>15, <1>16, <1>17, <1>18, <1>19, <1>20, <1>21, <1>22, <1>23, <1>24,
     <1>25
  DEF Next, Loop, Gateway, Handle, HandleLocked, HandleTimedUnlock, Restart,
      Threads, PowerCycle

\* SpaceAnnounced, for the main and the other doors: what the members were told
\* of the space and what the broker retains agree with each other and with an
\* open space.
THEOREM SpaceAlwaysAnnounced == Spec => []SpaceAnnounced
<1>1. Init => SpaceInv
  BY DEF Init, SpaceInv, SpaceAnnounced
<1>2. TimedUnlockIsArmed /\ SpaceInv /\ [Next]_vars => SpaceInv'
  BY SpaceStep
<1>3. SpaceInv => SpaceAnnounced
  BY DEF SpaceInv
<1> QED
  BY <1>1, <1>2, <1>3, TimedUnlockAlwaysArmed, PTL DEF Spec

-----------------------------------------------------------------------------
(* Refinement of DoorStates. *)

\* A door in timed unlock has a timeout.
LEMMA ArmedIsValid == TimedUnlockIsArmed /\ state = "timed_unlock" => timeout # NoTimeout
BY DEF TimedUnlockIsArmed, NoTimeout

\* Each step of the controller is one of DoorStates or changes nothing there.
LEMMA DoorStep ==
  ValuesOK /\ TimedUnlockIsArmed /\ [Next]_vars => [Door!Next]_(Door!doorStateVars)
<1> SUFFICES ASSUME ValuesOK, TimedUnlockIsArmed, [Next]_vars
             PROVE  [Door!Next]_(Door!doorStateVars)
  OBVIOUS
<1> USE DEF ValuesOK, Door!Next, Door!doorStateVars, Door!Publish,
        loopVars, doorVars, inputVars, spaceVars, readerVars, mqttVars, worldVars
<1>1. CASE Sample
  BY Zenon, <1>1 DEF Sample
<1>2. CASE GatewayIdle
  BY Zenon, <1>2 DEF GatewayIdle, TakeAction, PublishStatus
<1>3. CASE GatewayLock
  BY Zenon, <1>3 DEF GatewayLock, TakeAction, PublishStatus, Door!Remote
<1>4. CASE GatewayUnlock
  BY Zenon, <1>4 DEF GatewayUnlock, TakeAction, PublishStatus, Door!Remote
<1>5. CASE GatewaySetToken
  BY Zenon, <1>5 DEF GatewaySetToken, TakeAction, PublishStatus
<1>6. CASE GatewayReboot
  BY Zenon, <1>6 DEF GatewayReboot, TakeAction
<1>7. CASE HandleInitial
  BY Zenon, <1>7 DEF HandleInitial, EndTurn
<1>8. ASSUME NEW keys \in SUBSET Keys, LockedWhite(keys) PROVE [Door!Next]_(Door!doorStateVars)
  BY Zenon, <1>8 DEF LockedWhite, EndTurn, Lock, CheckThursday, AnnounceSpace, Door!OpenSpace
<1>9. ASSUME NEW keys \in SUBSET Keys, LockedGreen(keys) PROVE [Door!Next]_(Door!doorStateVars)
  BY Zenon, <1>9 DEF LockedGreen, EndTurn, Lock, Door!Grant
<1>10. ASSUME NEW keys \in SUBSET Keys, LockedCard(keys) PROVE [Door!Next]_(Door!doorStateVars)
  BY Zenon, <1>10 DEF LockedCard, EndTurn, Lock, Door!Grant
<1>11. ASSUME NEW keys \in SUBSET Keys, LockedLeave(keys) PROVE [Door!Next]_(Door!doorStateVars)
  BY Zenon, <1>11 DEF LockedLeave, EndTurn, Door!Grant
<1>12. ASSUME NEW keys \in SUBSET Keys, LockedIdle(keys) PROVE [Door!Next]_(Door!doorStateVars)
  BY Zenon, <1>12 DEF LockedIdle, EndTurn, Lock
<1>13. ASSUME NEW keys \in SUBSET Keys, HandleOpen(keys) PROVE [Door!Next]_(Door!doorStateVars)
  BY Zenon, <1>13 DEF HandleOpen, EndTurn, CloseSpace, AnnounceSpace, Door!CloseSpace
<1>14. ASSUME NEW keys \in SUBSET Keys, TimedRelock(keys) PROVE [Door!Next]_(Door!doorStateVars)
  BY Zenon, <1>14 DEF TimedRelock, EndTurn, Door!Relock
<1>15. ASSUME NEW keys \in SUBSET Keys, TimedWhite(keys) PROVE [Door!Next]_(Door!doorStateVars)
  BY Zenon, <1>15, ArmedIsValid DEF TimedWhite, EndTurn, CheckThursday, AnnounceSpace, Door!OpenSpace
<1>16. ASSUME NEW keys \in SUBSET Keys, TimedIdle(keys) PROVE [Door!Next]_(Door!doorStateVars)
  BY Zenon, <1>16, ArmedIsValid DEF TimedIdle, EndTurn, Door!Relock
<1>17. CASE Boot
  BY Zenon, <1>17 DEF Boot, Door!Reboot
<1>18. ASSUME NEW c \in Cards, ReaderPost(c) PROVE [Door!Next]_(Door!doorStateVars)
  BY Zenon, <1>18 DEF ReaderPost
<1>19. CASE ReaderExchange
  BY Zenon, <1>19 DEF ReaderExchange
<1>20. ASSUME NEW name \in RemoteActions, NEW arg \in Args, MqttAction(name, arg)
      PROVE  [Door!Next]_(Door!doorStateVars)
  BY Zenon, <1>20 DEF MqttAction
<1>21. ASSUME NEW allow \in BOOLEAN, MqttAllowOpen(allow) PROVE [Door!Next]_(Door!doorStateVars)
  BY Zenon, <1>21 DEF MqttAllowOpen
<1>22. ASSUME NEW cards \in SUBSET Cards, CacheSwap(cards) PROVE [Door!Next]_(Door!doorStateVars)
  BY Zenon, <1>22 DEF CacheSwap
<1>23. CASE Tick
  BY Zenon, <1>23 DEF Tick
<1>24. CASE Calendar
  BY Zenon, <1>24 DEF Calendar
<1>25. CASE UNCHANGED vars
  BY Zenon, <1>25 DEF vars
<1> QED
  BY <1>1, <1>2, <1>3, <1>4, <1>5, <1>6, <1>7, <1>8, <1>9, <1>10, <1>11, <1>12,
     <1>13, <1>14, <1>15, <1>16, <1>17, <1>18, <1>19, <1>20, <1>21, <1>22, <1>23, <1>24,
     <1>25
  DEF Next, Loop, Gateway, Handle, HandleLocked, HandleTimedUnlock, Restart,
      Threads, PowerCycle

\* The controller implements DoorStates: no interleaving of buttons, cards,
\* remote commands, timeouts and restarts makes another move of the door, the
\* space and what is published of it.
THEOREM ImplementsDoorStates == Spec => DoorStatesSpec
<1>1. Init => Door!Init
  BY DEF Init, Door!Init
<1>2. TypeOK /\ TimedUnlockIsArmed /\ [Next]_vars => [Door!Next]_(Door!doorStateVars)
  BY DoorStep DEF TypeOK
<1> QED
  BY <1>1, <1>2, TypeCorrect, TimedUnlockAlwaysArmed, PTL DEF Spec, DoorStatesSpec, Door!Spec

-----------------------------------------------------------------------------
(* The reader's client. *)

ClientMove == [Client!Next]_(Client!clientVars)

\* What neither moves the door nor touches the slots is no step of the client.
LEMMA ClientQuiet ==
  ASSUME UNCHANGED <<state, reader_card, pattern>>
  PROVE  ClientMove
BY Zenon DEF ClientMove, Client!clientVars

\* The turns of the loop that reach no handler.
LEMMA ClientGateway ==
  ASSUME Sample \/ Gateway
  PROVE  ClientMove
<1> USE DEF ClientMove, Client!Next, Client!clientVars, readerVars, doorVars
<1>1. CASE Sample
  <2>1. reader_card' = NoCard /\ UNCHANGED <<state, pattern>>
    BY Zenon, <1>1 DEF Sample
  <2> QED BY Zenon, <2>1 DEF Client!TakeCard
<1>2. CASE GatewayLock
  BY Zenon, <1>2 DEF GatewayLock, PublishStatus, Client!Relock
<1>3. CASE GatewayUnlock
  BY Zenon, <1>3 DEF GatewayUnlock, PublishStatus, Client!Unlock
<1>4. CASE GatewayIdle \/ GatewaySetToken \/ GatewayReboot
  BY Zenon, <1>4, ClientQuiet DEF GatewayIdle, GatewaySetToken, GatewayReboot, PublishStatus
<1> QED BY <1>1, <1>2, <1>3, <1>4 DEF Gateway

\* A locked door asks for ready or, with a card, for enter.
LEMMA ClientLocked ==
  ASSUME NEW keys, HandleInitial \/ HandleLocked(keys)
  PROVE  ClientMove
<1> USE DEF ClientMove, Client!Next, Client!AskReady, Client!Unlock, EndTurn
<1>1. CASE HandleInitial
  BY Zenon, <1>1 DEF HandleInitial
<1>2. CASE LockedWhite(keys)
  BY Zenon, <1>2 DEF LockedWhite, Lock, CheckThursday
<1>3. CASE LockedGreen(keys)
  BY Zenon, <1>3 DEF LockedGreen, Lock
<1>4. CASE LockedCard(keys)
  BY Zenon, <1>4 DEF LockedCard, Lock
<1>5. CASE LockedLeave(keys)
  BY Zenon, <1>5 DEF LockedLeave
<1>6. CASE LockedIdle(keys)
  BY Zenon, <1>6 DEF LockedIdle, Lock
<1> QED BY <1>1, <1>2, <1>3, <1>4, <1>5, <1>6 DEF HandleLocked

\* A door that is not locked asks for a warning at most, and not in the turn that
\* locks it.
LEMMA ClientUnlocked ==
  ASSUME NEW keys, HandleOpen(keys) \/ HandleTimedUnlock(keys)
  PROVE  ClientMove
<1> USE DEF ClientMove, Client!Next, Client!clientVars, Client!Relock, EndTurn
<1>1. CASE HandleOpen(keys)
  BY Zenon, <1>1 DEF HandleOpen, CloseSpace
<1>2. CASE TimedRelock(keys)
  BY Zenon, <1>2 DEF TimedRelock
<1>3. CASE TimedWhite(keys)
  BY Zenon, <1>3 DEF TimedWhite, CheckThursday
<1>4. CASE TimedIdle(keys)
  <2>1. timeout \in (UNLOCK_WARN_MIN + 1)..UNLOCK_WARN => timeout # NoTimeout
    BY PeriodsAssumption DEF NoTimeout
  <2> QED BY Zenon, <1>4, <2>1 DEF TimedIdle, Client!Warn
<1> QED BY <1>1, <1>2, <1>3, <1>4 DEF HandleTimedUnlock

\* The other threads, the world and a restart.
LEMMA ClientRest ==
  ASSUME Boot \/ Threads \/ Tick \/ Calendar \/ UNCHANGED vars
  PROVE  ClientMove
<1> USE DEF ClientMove, Client!Next, Client!clientVars, readerVars, doorVars
<1>1. CASE Boot
  BY Zenon, <1>1 DEF Boot, Client!Restart
<1>2. ASSUME NEW c \in Cards, ReaderPost(c) PROVE ClientMove
  BY Zenon, <1>2, CardsAssumption DEF ReaderPost, Client!Post, NoCard
<1>3. CASE ReaderExchange
  BY Zenon, <1>3 DEF ReaderExchange, Client!Exchange
<1>4. ASSUME \/ \E name \in RemoteActions, arg \in Args : MqttAction(name, arg)
             \/ \E allow \in BOOLEAN : MqttAllowOpen(allow)
             \/ \E cards \in SUBSET Cards : CacheSwap(cards)
             \/ Tick \/ Calendar \/ UNCHANGED vars
      PROVE  ClientMove
  BY Zenon, <1>4, ClientQuiet DEF MqttAction, MqttAllowOpen, CacheSwap, Tick, Calendar, vars
<1> QED BY <1>1, <1>2, <1>3, <1>4 DEF Threads

\* The controller is the client for which ReaderLink is checked and proved: what
\* it does with the two slots it shares with the reader thread, in every
\* interleaving of turns, remote commands and restarts, is a step of ReaderClient.
THEOREM ImplementsReaderClient == Spec => ReaderClientSpec
<1>1. Init => Client!Init
  BY DEF Init, Client!Init
<1>2. [Next]_vars => ClientMove
  BY ClientGateway, ClientLocked, ClientUnlocked, ClientRest
  DEF Next, Loop, Handle, Restart, PowerCycle
<1> QED
  BY <1>1, <1>2, PTL DEF Spec, ReaderClientSpec, Client!Spec, ClientMove

=============================================================================
