-------------------------- MODULE CardAccess_proofs --------------------------
(***************************************************************************)
(* A revoked card stops opening the Orange Pi's door within LIMIT ticks,   *)
(* for all cards and times.  Every piece of knowledge about a card, in an  *)
(* answer under way, in the list being stored, in the cache, carries an    *)
(* age that bounds the time since the card was last permitted.  And what   *)
(* is known of a card is known because it had permission for this door.    *)
(***************************************************************************)
EXTENDS CardAccess, TLAPS

PermittedNow == \A c \in permitted : since[c] = 0

Timers == upc \in {"asked", "answered"} => utimer \in 0..ANSWER_TIME

ListIsRecent == upc = "answered" => \A c \in fetched : since[c] <= ANSWER_TIME - utimer

StoreIsRecent ==
  upc = "store" /\ fetched_age < MAX_CACHE_AGE =>
    \A c \in fetched : since[c] <= fetched_age + ANSWER_TIME

ReplyIsRecent ==
  /\ cpc = "asked" => card \in Cards
  /\ cpc = "asked" /\ reply = "yes" => since[card] <= ANSWER_TIME - ctimer

CacheIsRecent ==
  \A c \in Cards : cache[c] # NoEntry /\ cache[c] < MAX_CACHE_AGE =>
    since[c] <= cache[c] + ANSWER_TIME

Inv ==
  /\ TypeOK /\ RevokedWithin /\ StrangersSeeNothing
  /\ PermittedNow /\ Timers /\ ListIsRecent /\ StoreIsRecent /\ ReplyIsRecent /\ CacheIsRecent

USE DEF NoEntry, UpdatePeriod, LIMIT, SINCE_BOUND, NEVER

LEMMA Bounds ==
  /\ LIMIT \in Nat /\ SINCE_BOUND \in Nat /\ ANSWER_TIME \in Nat /\ MAX_CACHE_AGE \in Nat
  /\ ANSWER_TIME <= LIMIT /\ NoEntry \notin 0..MAX_CACHE_AGE
  /\ 0 \in 0..MAX_CACHE_AGE /\ 0 \in 0..ANSWER_TIME /\ ANSWER_TIME \in 0..ANSWER_TIME
  /\ NEVER \in Nat /\ SINCE_BOUND < NEVER
  /\ 0 \in 0..NEVER /\ NEVER \in 0..NEVER
  /\ UPDATE_esp32 \in 0..(ANSWER_TIME + UPDATE_esp32 + UPDATE_opi)
  /\ UPDATE_opi \in 0..(ANSWER_TIME + UPDATE_esp32 + UPDATE_opi)
  /\ 0 \in 0..(ANSWER_TIME + UPDATE_esp32 + UPDATE_opi)
  /\ ANSWER_TIME \in 0..(ANSWER_TIME + UPDATE_esp32 + UPDATE_opi)
BY CardAssumption

LEMMA PeriodInRange == UpdatePeriod \in 0..(ANSWER_TIME + UPDATE_esp32 + UPDATE_opi)
BY Bounds

\* Who carries the door's token is answered for the door, who carries none for no
\* machine at all.
LEMMA Authenticated ==
  /\ \A b, h \in Machines \cup {NoMachine} :
       Authenticate(b, h) => current_id' = IF b # NoMachine THEN b ELSE h
  /\ allowed_at("door") = permitted /\ allowed_at(NoMachine) = {}
  /\ "door" \in Machines /\ "lathe" \in Machines
BY DEF Authenticate, authenticate, Machines, NoMachine, allowed_at

LEMMA InitInv == Init => Inv
<1> SUFFICES ASSUME Init PROVE Inv
  OBVIOUS
<1>1. TypeOK
  BY Bounds DEF Init, TypeOK, Empty
<1>2. CacheIsRecent
  BY DEF Init, Empty, CacheIsRecent
<1> QED BY <1>1, <1>2
  DEF Init, Inv, RevokedWithin, StrangersSeeNothing, PermittedNow, Timers, ListIsRecent,
      StoreIsRecent, ReplyIsRecent

\* The requests.
LEMMA ServeInv ==
  ASSUME Inv, ServeUpdate \/ ServeCheck \/ ServeLathe \/ ServeBrowser
  PROVE  Inv'
<1> USE DEF Inv, TypeOK, RevokedWithin, StrangersSeeNothing, PermittedNow, Timers,
            ListIsRecent, StoreIsRecent, ReplyIsRecent, CacheIsRecent, doorVars, checkVars,
            updVars
<1>1. CASE ServeUpdate
  <2>1. /\ UNCHANGED <<kind, short, stored_ok, used_ok, network, permitted, since, shown, cache,
                       fetched_age, cpc, ctimer, card, reply, granted>>
        /\ current_id' \in Machines \cup {NoMachine}
    BY <1>1, Authenticated DEF ServeUpdate
  <2>2. CASE used_ok
    <3>1. upc = "asked" /\ upc' = "answered" /\ fetched' = permitted /\ utimer' = utimer
      BY <1>1, <2>2, Authenticated DEF ServeUpdate, NoMachine
    <3>2. \A c \in fetched' : since'[c] <= ANSWER_TIME - utimer'
      BY <2>1, <3>1, Bounds
    <3> QED BY <2>1, <3>1, <3>2
  <2>3. CASE ~used_ok
    BY <1>1, <2>1, <2>3, PeriodInRange DEF ServeUpdate
  <2> QED BY <2>2, <2>3
<1>2. CASE ServeCheck
  <2>1. /\ UNCHANGED <<kind, short, stored_ok, used_ok, network, permitted, since, shown, cache,
                       upc, utimer, fetched, fetched_age, cpc, ctimer, card, granted>>
        /\ current_id' \in Machines \cup {NoMachine} /\ cpc = "asked"
        /\ reply' \in {"yes", "no"}
    BY <1>2, Authenticated DEF ServeCheck
  <2>2. reply' = "yes" => card \in permitted
    BY <1>2, Authenticated DEF ServeCheck, NoMachine
  <2>3. reply' = "yes" => since'[card'] <= ANSWER_TIME - ctimer'
    BY <2>1, <2>2, Bounds
  <2> QED BY <2>1, <2>3
<1>3. CASE ServeLathe
  BY <1>3, Authenticated DEF ServeLathe
<1>4. CASE ServeBrowser
  <2>1. current_id' = NoMachine /\ shown' = {}
    BY <1>4, Authenticated DEF ServeBrowser
  <2> QED BY <1>4, <2>1 DEF ServeBrowser
<1> QED BY <1>1, <1>2, <1>3, <1>4

\* The update thread.
LEMMA UpdateInv ==
  ASSUME Inv, UpdateAsk \/ UpdateFails \/ UpdateParse \/ UpdateSwap
  PROVE  Inv'
<1> USE DEF Inv, TypeOK, RevokedWithin, StrangersSeeNothing, PermittedNow, Timers,
            ListIsRecent, StoreIsRecent, ReplyIsRecent, CacheIsRecent, doorVars, checkVars,
            server
<1>1. CASE UpdateAsk
  BY <1>1, Bounds, PeriodInRange DEF UpdateAsk
<1>2. CASE UpdateFails
  BY <1>2, PeriodInRange DEF UpdateFails
<1>3. CASE UpdateParse
  <2>1. /\ UNCHANGED <<kind, short, stored_ok, used_ok, network, permitted, since, current_id,
                       shown, cache, fetched, cpc, ctimer, card, reply, granted>>
        /\ upc = "answered" /\ upc' = "store" /\ utimer' = 0 /\ fetched_age' = 0
    BY <1>3 DEF UpdateParse
  <2>2. \A c \in fetched : since[c] <= 0 + ANSWER_TIME
    BY <2>1, Bounds
  <2> QED BY <2>1, <2>2, Bounds
<1>4. CASE UpdateSwap
  <2>1. /\ UNCHANGED <<kind, short, stored_ok, used_ok, network, permitted, since, current_id,
                       shown, cpc, ctimer, card, reply, granted>>
        /\ upc = "store" /\ upc' = "sleep" /\ utimer' = UpdatePeriod
        /\ fetched' = {} /\ fetched_age' = 0
        /\ cache' = [c \in Cards |-> IF c \in fetched THEN fetched_age ELSE NoEntry]
    BY <1>4 DEF UpdateSwap, swapped
  <2>2. TypeOK'
    BY <2>1, PeriodInRange, Bounds
  <2>3. CacheIsRecent'
    BY <2>1
  <2> QED BY <2>1, <2>2, <2>3
<1> QED BY <1>1, <1>2, <1>3, <1>4

\* has_access().
LEMMA CheckInv ==
  ASSUME Inv, HasAccessCached \/ HasAccessAsk \/ CheckAnswered \/ CheckFails
  PROVE  Inv'
<1> USE DEF Inv, TypeOK, RevokedWithin, StrangersSeeNothing, PermittedNow, Timers,
            ListIsRecent, StoreIsRecent, ReplyIsRecent, CacheIsRecent, doorVars, checkVars,
            updVars, server
<1>1. CASE HasAccessCached
  <2>1. /\ UNCHANGED <<kind, short, stored_ok, used_ok, network, permitted, since, current_id,
                       shown, cache, upc, utimer, fetched, fetched_age, cpc, ctimer, card, reply>>
    BY <1>1 DEF HasAccessCached
  <2>2. PICK c \in Cards : is_fresh(c) /\ granted' = c
    BY <1>1 DEF HasAccessCached
  <2>3. kind = "opi" => since[c] <= LIMIT
    BY <2>2, Bounds, CardAssumption DEF is_fresh
  <2> QED BY <2>1, <2>2, <2>3
<1>2. CASE HasAccessAsk
  BY <1>2, Bounds DEF HasAccessAsk
<1>3. CASE CheckAnswered
  <2>1. /\ UNCHANGED <<kind, short, stored_ok, used_ok, network, permitted, since, current_id,
                       shown, upc, utimer, fetched, fetched_age>>
        /\ cpc = "asked" /\ cpc' = "idle" /\ ctimer' = 0 /\ card' = NoCard /\ reply' = "none"
    BY <1>3 DEF CheckAnswered, CheckDone
  <2>2. CASE reply = "yes"
    <3>1. cache' = [cache EXCEPT ![card] = 0] /\ granted' = card /\ card \in Cards
      BY <1>3, <2>1, <2>2 DEF CheckAnswered
    <3>2. since[card] <= ANSWER_TIME
      BY <2>1, <2>2, Bounds
    <3>3. since[card] <= LIMIT /\ since[card] <= 0 + ANSWER_TIME
      BY <3>1, <3>2, Bounds
    <3>4. TypeOK'
      BY <2>1, <3>1, Bounds
    <3>5. CacheIsRecent'
      BY <2>1, <3>1, <3>3
    <3> QED BY <2>1, <3>1, <3>3, <3>4, <3>5
  <2>3. CASE reply # "yes"
    <3>1. UNCHANGED <<cache, granted>>
      BY <1>3, <2>3 DEF CheckAnswered
    <3> QED BY <2>1, <3>1, Bounds
  <2> QED BY <2>2, <2>3
<1>4. CASE CheckFails
  BY <1>4, Bounds DEF CheckFails, CheckDone
<1> QED BY <1>1, <1>2, <1>3, <1>4

\* The world without time.
LEMMA WorldInv ==
  ASSUME Inv, PermissionChanges \/ TokenChanges \/ StoreToken \/ Restart \/ NetworkChanges
  PROVE  Inv'
<1> USE DEF Inv, TypeOK, RevokedWithin, StrangersSeeNothing, PermittedNow, Timers,
            ListIsRecent, StoreIsRecent, ReplyIsRecent, CacheIsRecent, doorVars, checkVars,
            updVars, server
<1>1. CASE PermissionChanges
  <2>1. /\ UNCHANGED <<kind, short, stored_ok, used_ok, network, current_id, shown, cache, upc,
                       utimer, fetched, fetched_age, cpc, ctimer, card, reply, granted>>
    BY <1>1 DEF PermissionChanges
  <2>2. PICK c \in Cards :
          IF c \in permitted THEN permitted' = permitted \ {c} /\ UNCHANGED since
          ELSE permitted' = permitted \cup {c} /\ since' = [since EXCEPT ![c] = 0]
    BY <1>1 DEF PermissionChanges
  <2>3. CASE c \in permitted
    BY <2>1, <2>2, <2>3
  <2>4. CASE c \notin permitted
    <3>1. permitted' = permitted \cup {c} /\ since' = [since EXCEPT ![c] = 0]
      BY <2>2, <2>4
    <3>2. /\ since' \in [Cards -> 0..NEVER]
          /\ \A k \in Cards : since'[k] \in Int /\ since[k] \in Int /\ since'[k] <= since[k]
      BY <3>1, Bounds
    <3>3. TypeOK' /\ PermittedNow' /\ Timers'
      BY <2>1, <3>1, <3>2
    <3>4. ListIsRecent'
      BY <2>1, <3>2, Bounds
    <3>5. StoreIsRecent'
      BY <2>1, <3>2, Bounds
    <3>6. ReplyIsRecent'
      BY <2>1, <3>2, Bounds
    <3>7. CacheIsRecent'
      BY <2>1, <3>2, Bounds
    <3>8. RevokedWithin' /\ StrangersSeeNothing'
      BY <2>1, <3>2, Bounds
    <3> QED BY <3>3, <3>4, <3>5, <3>6, <3>7, <3>8
  <2> QED BY <2>3, <2>4
<1>2. CASE TokenChanges
  <2>1. /\ UNCHANGED <<kind, short, network, permitted, since, current_id, shown, cache, upc,
                       utimer, fetched, fetched_age, cpc, ctimer, card, reply, granted>>
        /\ stored_ok' \in BOOLEAN /\ used_ok' \in BOOLEAN
    BY <1>2 DEF TokenChanges
  <2>2. TypeOK'
    BY <2>1
  <2> QED BY <2>1, <2>2
<1>3. CASE StoreToken
  BY <1>3 DEF StoreToken
<1>4. CASE Restart
  <2>1. /\ UNCHANGED <<kind, short, stored_ok, network, permitted, since, current_id, shown>>
        /\ used_ok' \in BOOLEAN /\ cache' = Empty /\ fetched' = {} /\ fetched_age' = 0
        /\ cpc' = "idle" /\ ctimer' = 0 /\ card' = NoCard /\ reply' = "none"
        /\ granted' = NoCard /\ upc' \in {"sleep", "ended"} /\ utimer' \in {0, UPDATE_opi}
    BY <1>4 DEF Restart, UpdateStarts
  <2>2. TypeOK'
    BY <2>1, Bounds DEF Empty
  <2>3. CacheIsRecent'
    BY <2>1 DEF Empty
  <2> QED BY <2>1, <2>2, <2>3
<1>5. CASE NetworkChanges
  BY <1>5 DEF NetworkChanges
<1> QED BY <1>1, <1>2, <1>3, <1>4, <1>5

\* A tick makes everything that is known, and the time since, older by one.
LEMMA TickInv ==
  ASSUME Inv, Tick
  PROVE  Inv'
<1> USE DEF Later, CountDown
<1>1. /\ UNCHANGED <<kind, short, stored_ok, used_ok, network, permitted, current_id, shown, upc,
                     fetched, cpc, card, reply>>
      /\ granted' = NoCard
  BY DEF Tick, doorVars
<1>2. \A c \in Cards :
        /\ since[c] \in 0..NEVER /\ since'[c] \in 0..NEVER
        /\ since'[c] <= since[c] + 1
        /\ c \in permitted => since'[c] = 0
  BY Bounds DEF Tick, Inv, TypeOK
<1>3. \A c \in Cards :
        /\ cache'[c] \in 0..MAX_CACHE_AGE \cup {NoEntry}
        /\ cache'[c] # NoEntry /\ cache'[c] < MAX_CACHE_AGE
             => cache[c] \in Nat /\ cache[c] # NoEntry /\ cache'[c] = cache[c] + 1
  BY Bounds DEF Tick, Inv, TypeOK
<1>4. /\ fetched_age' \in 0..MAX_CACHE_AGE
      /\ upc = "store" /\ fetched_age' < MAX_CACHE_AGE => fetched_age' = fetched_age + 1
  BY Bounds DEF Tick, Inv, TypeOK
<1>5. /\ utimer' \in 0..(ANSWER_TIME + UPDATE_esp32 + UPDATE_opi)
      /\ upc \in {"asked", "answered"} => utimer' = utimer - 1 /\ utimer' \in 0..ANSWER_TIME
  BY Bounds, CardAssumption DEF Tick, Inv, TypeOK, Timers
<1>6. ctimer' \in 0..ANSWER_TIME /\ (cpc = "asked" => ctimer' = ctimer - 1)
  BY Bounds DEF Tick, Inv, TypeOK
<1>7. TypeOK'
  <2>1. /\ since' \in [Cards -> 0..NEVER]
        /\ cache' \in [Cards -> 0..MAX_CACHE_AGE \cup {NoEntry}]
    BY <1>2, <1>3 DEF Tick
  <2> QED BY <1>1, <1>4, <1>5, <1>6, <2>1 DEF Inv, TypeOK
<1>8. PermittedNow' /\ Timers' /\ RevokedWithin' /\ StrangersSeeNothing'
  BY <1>1, <1>2, <1>5
  DEF Inv, TypeOK, PermittedNow, Timers, RevokedWithin, StrangersSeeNothing
<1>9. ListIsRecent'
  BY <1>1, <1>2, <1>5, Bounds DEF Inv, TypeOK, Timers, ListIsRecent
<1>10. StoreIsRecent'
  BY <1>1, <1>2, <1>4, Bounds DEF Inv, TypeOK, StoreIsRecent
<1>11. ReplyIsRecent'
  BY <1>1, <1>2, <1>6, Bounds DEF Inv, TypeOK, ReplyIsRecent
<1>12. CacheIsRecent'
  BY <1>2, <1>3, Bounds DEF Inv, TypeOK, CacheIsRecent
<1> QED BY <1>7, <1>8, <1>9, <1>10, <1>11, <1>12 DEF Inv

LEMMA StepInv == Inv /\ [Next]_vars => Inv'
<1> SUFFICES ASSUME Inv, [Next]_vars PROVE Inv'
  OBVIOUS
<1>1. CASE UNCHANGED vars
  BY <1>1
  DEF vars, doorVars, server, updVars, checkVars, Inv, TypeOK, RevokedWithin,
      StrangersSeeNothing, PermittedNow, Timers, ListIsRecent, StoreIsRecent, ReplyIsRecent,
      CacheIsRecent
<1> QED BY <1>1, ServeInv, UpdateInv, CheckInv, WorldInv, TickInv DEF Next

LEMMA Invariance == Spec => []Inv
BY InitInv, StepInv, PTL DEF Spec

\* All variables keep their types, for all cards and times.
THEOREM TypeCorrect == Spec => []TypeOK
BY Invariance, PTL DEF Inv

\* No old knowledge of a card is made young again, however answers are delayed.
THEOREM RevokedInTime == Spec => []RevokedWithin
BY Invariance, PTL DEF Inv

\* A request without a token never gets another's machine.
THEOREM StrangersNeverSee == Spec => []StrangersSeeNothing
BY Invariance, PTL DEF Inv

\* The places where a card may be known as permitted.
known(c) ==
  c \in permitted \cup fetched \/ cache[c] # NoEntry \/ (card = c /\ reply = "yes")

KnownHadPermission == \A c \in Cards : known(c) \/ c = granted => since[c] # NEVER

\* Permission is not forgotten, and nothing else is known than was before.
LEMMA NothingNewKnown ==
  ASSUME KnownHadPermission, \A c \in Cards : since[c] # NEVER => since'[c] # NEVER,
         \A c \in Cards : known(c)' \/ c = granted' => known(c) \/ c = granted
  PROVE  KnownHadPermission'
BY DEF KnownHadPermission

\* One step for each place a card can come to: an answer, the list, the cache, the door.
LEMMA KnownStep ==
  ASSUME Inv, [Next]_vars, KnownHadPermission
  PROVE  KnownHadPermission'
<1>1. PermittedNow /\ TypeOK /\ NoCard \notin Cards
  BY CardAssumption DEF Inv
<1>2. \A c \in Cards : since[c] # NEVER => since'[c] # NEVER
  <2>1. \A c \in Cards : since[c] \in 0..NEVER
    BY <1>1 DEF TypeOK
  <2>2. CASE PermissionChanges
    BY <1>1, <2>2, Bounds DEF PermissionChanges, TypeOK
  <2>3. CASE Tick
    BY <2>1, <2>3, Bounds DEF Tick, Later
  <2>4. CASE UNCHANGED since
    BY <2>4
  <2> QED BY <2>2, <2>3, <2>4
    DEF Next, vars, server, ServeUpdate, ServeCheck, ServeLathe, ServeBrowser, TokenChanges,
        UpdateAsk, UpdateFails, UpdateParse, UpdateSwap, HasAccessCached, HasAccessAsk,
        CheckAnswered, CheckFails, CheckDone, StoreToken, Restart, NetworkChanges
<1>3. CASE ServeUpdate \/ ServeCheck \/ ServeLathe \/ ServeBrowser
  <2>1. UNCHANGED <<permitted, cache, card, granted, since>>
    BY <1>3 DEF ServeUpdate, ServeCheck, ServeLathe, ServeBrowser, checkVars
  <2>2. fetched' \in {fetched, permitted}
    BY <1>3, Authenticated
    DEF ServeUpdate, ServeCheck, ServeLathe, ServeBrowser, updVars, NoMachine
  <2>3. reply' \in {reply, "no"} \/ card \in permitted
    BY <1>3, Authenticated
    DEF ServeUpdate, ServeCheck, ServeLathe, ServeBrowser, checkVars, NoMachine
  <2> QED BY <1>2, <2>1, <2>2, <2>3, NothingNewKnown DEF known
<1>4. CASE PermissionChanges
  <2>1. UNCHANGED <<fetched, cache, card, reply, granted>>
    BY <1>4 DEF PermissionChanges, updVars, checkVars
  <2>2. \A c \in permitted' : c \in permitted \/ since'[c] = 0
    BY <1>1, <1>4 DEF PermissionChanges, TypeOK
  <2>3. 0 # NEVER
    BY Bounds
  <2> QED BY <1>2, <2>1, <2>2, <2>3 DEF KnownHadPermission, known
<1>5. CASE UpdateSwap
  <2>1. UNCHANGED <<permitted, card, reply, granted>> /\ fetched' = {}
    BY <1>5 DEF UpdateSwap, server, checkVars
  <2>2. \A c \in Cards : cache'[c] # NoEntry => c \in fetched
    BY <1>5 DEF UpdateSwap, swapped
  <2> QED BY <1>2, <2>1, <2>2, NothingNewKnown DEF known
<1>6. CASE HasAccessCached
  <2>1. UNCHANGED <<permitted, fetched, cache, card, reply>> /\ cache[granted'] # NoEntry
    BY <1>6 DEF HasAccessCached, is_fresh, server, updVars, checkVars
  <2> QED BY <1>2, <2>1, NothingNewKnown DEF known
<1>7. CASE CheckAnswered \/ CheckFails
  <2>1. UNCHANGED <<permitted, fetched>> /\ reply' = "none"
    BY <1>7 DEF CheckAnswered, CheckFails, CheckDone, server, updVars
  <2>2. \/ UNCHANGED <<cache, granted>>
        \/ reply = "yes" /\ cache' = [cache EXCEPT ![card] = 0] /\ granted' = card
    BY <1>7 DEF CheckAnswered, CheckFails
  <2>3. \A c \in Cards : cache'[c] # NoEntry => known(c)
    BY <1>1, <2>2 DEF TypeOK, known
  <2> QED BY <1>2, <2>1, <2>2, <2>3, NothingNewKnown DEF known
<1>8. CASE UpdateAsk \/ UpdateFails \/ UpdateParse \/ HasAccessAsk \/ TokenChanges \/ StoreToken
           \/ NetworkChanges \/ UNCHANGED vars
  <2>1. UNCHANGED <<permitted, cache, granted>>
    BY <1>8 DEF UpdateAsk, UpdateFails, UpdateParse, HasAccessAsk, TokenChanges, StoreToken,
                NetworkChanges, vars, server
  <2>2. fetched' \in {fetched, {}} /\ (reply' = "none" \/ UNCHANGED <<card, reply>>)
    BY <1>8 DEF UpdateAsk, UpdateFails, UpdateParse, HasAccessAsk, TokenChanges, StoreToken,
                NetworkChanges, vars, updVars, checkVars
  <2> QED BY <1>2, <2>1, <2>2, NothingNewKnown DEF known
<1>9. CASE Restart
  BY <1>1, <1>2, <1>9, NothingNewKnown DEF Restart, known, Empty, server
<1>10. CASE Tick
  BY <1>1, <1>2, <1>10, NothingNewKnown DEF Tick, known
<1> QED BY <1>3, <1>4, <1>5, <1>6, <1>7, <1>8, <1>9, <1>10 DEF Next

\* Whatever other machines the worker answers, and whatever is lost or restarted.
THEOREM StrangersNeverEnter == Spec => []NeverPermittedNeverOpens
<1>1. Init => KnownHadPermission
  BY CardAssumption DEF Init, Empty, KnownHadPermission, known
<1>2. Inv /\ KnownHadPermission => NeverPermittedNeverOpens
  BY DEF Inv, TypeOK, KnownHadPermission, NeverPermittedNeverOpens
<1> QED BY <1>1, <1>2, KnownStep, Invariance, PTL DEF Spec
=============================================================================
