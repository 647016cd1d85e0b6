----------------------------- MODULE CardAccess ------------------------------
(***************************************************************************)
(* Which cards open a door: the permissions in the backend, the requests   *)
(* of the door for them, and its card cache.  There are two caches.  The   *)
(* one of the ESP32 frontend fetches a list every five minutes and knows   *)
(* nothing else; the one of the Orange Pi fetches it every minute, takes   *)
(* no entry that is older than 15 minutes, and asks for the card instead.  *)
(*                                                                         *)
(* Time passes in ticks; the constants keep the order of the real times.   *)
(* The worker process of the backend answers requests one after the other  *)
(* and keeps the machine a request comes from in attributes of a class;    *)
(* other workers have their own.  Another machine, where everybody has     *)
(* permission, and browsers without a token ask it as well.                *)
(***************************************************************************)
EXTENDS Integers

CONSTANTS
  Cards,
  MAX_CACHE_AGE,
  ANSWER_TIME,              \* of a request, at most
  UPDATE_esp32, UPDATE_opi  \* ticks between updates

NoMachine == "none"
Machines  == {"door", "lathe"}
NoCard    == "no card"
NoEntry   == -1

ASSUME CardAssumption ==
  /\ NoCard \notin Cards
  /\ MAX_CACHE_AGE \in Nat \ {0} /\ ANSWER_TIME \in Nat \ {0}
  /\ UPDATE_esp32 \in Nat \ {0} /\ UPDATE_opi \in Nat \ {0}

VARIABLES
  kind,           \* of the door: esp32, opi
  short,          \* the cards whose id has less than ten digits
  permitted,      \* cards of active members with permission for the door
  since,          \* ticks since a card was last permitted, or NEVER
  network,
  stored_ok, used_ok, \* the door's token as stored, and as the cache uses it
  current_id,     \* of Machine, in the worker
  shown,          \* what the last browser without a token was given
  cache,          \* the age of the entry of a card
  upc, utimer, fetched, fetched_age, \* the thread that updates the cache
  cpc, ctimer, card, reply,          \* has_access(), waiting for the backend
  granted         \* the card let in since the last tick

doorVars  == <<kind, short, stored_ok>>
updVars   == <<upc, utimer, fetched, fetched_age>>
checkVars == <<cpc, ctimer, card, reply>>
server    == <<permitted, since, current_id, shown>>
vars == <<doorVars, used_ok, network, server, cache, updVars, checkVars, granted>>

LIMIT == ANSWER_TIME + MAX_CACHE_AGE - 1
SINCE_BOUND == LIMIT + 1
NEVER == SINCE_BOUND + 1

UpdatePeriod == IF kind = "esp32" THEN UPDATE_esp32 ELSE UPDATE_opi
Empty == [c \in Cards |-> NoEntry]

\* The thread of the Orange Pi reads its stop flag before the constructor sets
\* it, and may end at once; otherwise it sleeps first.
UpdateStarts ==
  IF kind = "esp32" THEN upc' = "sleep" /\ utimer' = 0
  ELSE upc' \in {"sleep", "ended"} /\ utimer' = UPDATE_opi

Init ==
  /\ kind \in {"esp32", "opi"} /\ short \in SUBSET Cards
  /\ permitted = {} /\ since = [c \in Cards |-> NEVER] /\ network = TRUE
  /\ stored_ok = TRUE /\ used_ok = TRUE
  /\ current_id = NoMachine /\ shown = {}
  /\ cache = Empty
  /\ upc \in IF kind = "esp32" THEN {"sleep"} ELSE {"sleep", "ended"}
  /\ utimer = IF kind = "esp32" THEN 0 ELSE UPDATE_opi
  /\ fetched = {} /\ fetched_age = 0
  /\ cpc = "idle" /\ ctimer = 0 /\ card = NoCard /\ reply = "none"
  /\ granted = NoCard

(***************************************************************************)
(* The backend: authentication, then the view.                             *)
(***************************************************************************)
\* Mutated form: without a token the attributes are left alone.
authenticate_keeps(id, token) == IF token \in Machines THEN token ELSE id

\* Mutated form: the machine is looked up only when there is none yet.
authenticate_once(id, token) == IF id = NoMachine /\ token \in Machines THEN token ELSE id

\* Machine.current_id after an authenticate(), from the one before.
authenticate(id, token) == IF token \in Machines THEN token ELSE NoMachine

\* BodyTokenAuthentication, then, if it found no token, HeaderTokenAuthentication.
Authenticate(body, header) ==
  current_id' = IF body # NoMachine THEN authenticate(current_id, body)
                ELSE authenticate(authenticate(current_id, NoMachine), header)

allowed_at(id) == IF id = "door" THEN permitted ELSE IF id = "lathe" THEN Cards ELSE {}

\* machine_v2_list for the update of the door; with a token that is not valid no
\* view is reached and the request fails at once.
ServeUpdate ==
  /\ upc = "asked" /\ network
  /\ Authenticate(NoMachine, IF used_ok THEN "door" ELSE NoMachine)
  /\ IF used_ok
     THEN upc' = "answered" /\ fetched' = allowed_at(current_id') /\ UNCHANGED utimer
     ELSE upc' = "sleep" /\ utimer' = UpdatePeriod /\ UNCHANGED fetched
  /\ UNCHANGED <<doorVars, used_ok, network, permitted, since, shown, cache, fetched_age,
                 checkVars, granted>>

\* machine_list for a card at the door.  The Orange Pi pads the id with blanks
\* and not with zeros, so that no member has a card with fewer digits.
ServeCheck ==
  /\ cpc = "asked" /\ reply = "none" /\ network
  /\ Authenticate(IF used_ok THEN "door" ELSE NoMachine, NoMachine)
  /\ reply' = IF used_ok /\ card \in allowed_at(current_id') \ short THEN "yes" ELSE "no"
  /\ UNCHANGED <<doorVars, used_ok, network, permitted, since, shown, cache, updVars,
                 cpc, ctimer, card, granted>>

ServeLathe ==
  /\ Authenticate("lathe", NoMachine)
  /\ UNCHANGED <<doorVars, used_ok, network, permitted, since, shown, cache, updVars,
                 checkVars, granted>>

\* The views allow anybody to ask.
ServeBrowser ==
  /\ Authenticate(NoMachine, NoMachine)
  /\ shown' = allowed_at(current_id')
  /\ UNCHANGED <<doorVars, used_ok, network, permitted, since, cache, updVars, checkVars,
                 granted>>

PermissionChanges ==
  /\ \E c \in Cards :
       IF c \in permitted THEN permitted' = permitted \ {c} /\ UNCHANGED since
       ELSE permitted' = permitted \cup {c} /\ since' = [since EXCEPT ![c] = 0]
  /\ UNCHANGED <<doorVars, used_ok, network, current_id, shown, cache, updVars, checkVars,
                 granted>>

\* The administrator gives the door another token.
TokenChanges ==
  /\ stored_ok' = FALSE /\ used_ok' = FALSE
  /\ UNCHANGED <<kind, short, network, server, cache, updVars, checkVars, granted>>

(***************************************************************************)
(* The thread that updates the cache.                                      *)
(***************************************************************************)
UpdateAsk ==
  /\ upc = "sleep" /\ utimer = 0
  /\ IF network THEN upc' = "asked" /\ utimer' = ANSWER_TIME
     ELSE UNCHANGED upc /\ utimer' = UpdatePeriod
  /\ UNCHANGED <<doorVars, used_ok, network, server, cache, fetched, fetched_age, checkVars,
                 granted>>

\* Whatever goes wrong, the old cache is kept.
UpdateFails ==
  /\ upc \in {"asked", "answered"} /\ (~network \/ utimer = 0)
  /\ upc' = "sleep" /\ utimer' = UpdatePeriod /\ fetched' = {}
  /\ UNCHANGED <<doorVars, used_ok, network, server, cache, fetched_age, checkVars, granted>>

\* The entries get the time at which the answer is read.
UpdateParse ==
  /\ upc = "answered" /\ network
  /\ upc' = "store" /\ utimer' = 0 /\ fetched_age' = 0
  /\ UNCHANGED <<doorVars, used_ok, network, server, cache, fetched, checkVars, granted>>

\* Mutated form: the new list is added to the old one.
swapped_in(c) == IF c \in fetched THEN fetched_age ELSE cache[c]

swapped(c) == IF c \in fetched THEN fetched_age ELSE NoEntry

\* The swap needs cache_mutex, which has_access() of the Orange Pi keeps while it
\* waits for the backend.
UpdateSwap ==
  /\ upc = "store" /\ cpc = "idle"
  /\ cache' = [c \in Cards |-> swapped(c)]
  /\ upc' = "sleep" /\ utimer' = UpdatePeriod /\ fetched' = {} /\ fetched_age' = 0
  /\ UNCHANGED <<doorVars, used_ok, network, server, checkVars, granted>>

(***************************************************************************)
(* has_access()                                                            *)
(***************************************************************************)
\* Mutated form: the age is only written to the log.
is_fresh_always(c) == cache[c] # NoEntry

is_fresh(c) == cache[c] # NoEntry /\ (kind = "opi" => cache[c] < MAX_CACHE_AGE)

HasAccessCached ==
  /\ cpc = "idle"
  /\ \E c \in Cards : is_fresh(c) /\ granted' = c
  /\ UNCHANGED <<doorVars, used_ok, network, server, cache, updVars, checkVars>>

HasAccessAsk ==
  /\ kind = "opi" /\ cpc = "idle" /\ network
  /\ \E c \in Cards : ~is_fresh(c) /\ card' = c
  /\ cpc' = "asked" /\ ctimer' = ANSWER_TIME /\ reply' = "none"
  /\ UNCHANGED <<doorVars, used_ok, network, server, cache, updVars, granted>>

CheckDone ==
  /\ cpc' = "idle" /\ ctimer' = 0 /\ card' = NoCard /\ reply' = "none"
  /\ UNCHANGED <<doorVars, used_ok, network, server, updVars>>

CheckAnswered ==
  /\ cpc = "asked" /\ reply # "none" /\ network
  /\ IF reply = "yes" THEN cache' = [cache EXCEPT ![card] = 0] /\ granted' = card
     ELSE UNCHANGED <<cache, granted>>
  /\ CheckDone

CheckFails ==
  /\ cpc = "asked" /\ (~network \/ ctimer = 0)
  /\ UNCHANGED <<cache, granted>>
  /\ CheckDone

(***************************************************************************)
(* The world.                                                              *)
(***************************************************************************)
\* A remote command stores a token in the ESP32, somebody at the keyboard in the
\* Orange Pi; the cache goes on with the old one.
StoreToken ==
  /\ stored_ok' = TRUE
  /\ UNCHANGED <<kind, short, used_ok, network, server, cache, updVars, checkVars, granted>>

Restart ==
  /\ used_ok' = stored_ok /\ cache' = Empty
  /\ UpdateStarts /\ fetched' = {} /\ fetched_age' = 0
  /\ cpc' = "idle" /\ ctimer' = 0 /\ card' = NoCard /\ reply' = "none"
  /\ granted' = NoCard
  /\ UNCHANGED <<doorVars, network, server>>

NetworkChanges ==
  /\ network' = ~network
  /\ UNCHANGED <<doorVars, used_ok, server, cache, updVars, checkVars, granted>>

Later(t, bound) == IF t < bound THEN t + 1 ELSE t
CountDown(t) == IF t > 0 THEN t - 1 ELSE 0

\* No tick passes while something is due: an answer or a failure in time, or the
\* swap when the mutex is free.
Tick ==
  /\ upc \in {"asked", "answered"} => utimer > 0
  /\ cpc = "asked" => ctimer > 0
  /\ upc = "store" => cpc = "asked"
  /\ since' = [c \in Cards |-> IF c \in permitted THEN 0 ELSE Later(since[c], SINCE_BOUND)]
  /\ cache' = [c \in Cards |-> IF cache[c] = NoEntry THEN NoEntry
                               ELSE Later(cache[c], MAX_CACHE_AGE)]
  /\ fetched_age' = IF upc = "store" THEN Later(fetched_age, MAX_CACHE_AGE) ELSE fetched_age
  /\ utimer' = CountDown(utimer) /\ ctimer' = CountDown(ctimer)
  /\ granted' = NoCard
  /\ UNCHANGED <<doorVars, used_ok, network, permitted, current_id, shown, upc, fetched,
                 cpc, card, reply>>

Next ==
  \/ ServeUpdate \/ ServeCheck \/ ServeLathe \/ ServeBrowser
  \/ PermissionChanges \/ TokenChanges
  \/ UpdateAsk \/ UpdateFails \/ UpdateParse \/ UpdateSwap
  \/ HasAccessCached \/ HasAccessAsk \/ CheckAnswered \/ CheckFails
  \/ StoreToken \/ Restart \/ NetworkChanges \/ Tick

\* Threads run, the mutex is given to who waits for it, and of the requests some
\* are answered in time.
Fairness ==
  /\ SF_vars(Tick) /\ WF_vars(UpdateAsk) /\ WF_vars(UpdateFails) /\ WF_vars(CheckFails)
  /\ SF_vars(ServeUpdate) /\ SF_vars(UpdateParse) /\ SF_vars(UpdateSwap)

Spec == Init /\ [][Next]_vars
FairSpec == Spec /\ Fairness
-----------------------------------------------------------------------------
TypeOK ==
  /\ kind \in {"esp32", "opi"} /\ short \subseteq Cards
  /\ permitted \subseteq Cards /\ since \in [Cards -> 0..NEVER]
  /\ network \in BOOLEAN /\ stored_ok \in BOOLEAN /\ used_ok \in BOOLEAN
  /\ current_id \in Machines \cup {NoMachine} /\ shown \subseteq Cards
  /\ cache \in [Cards -> 0..MAX_CACHE_AGE \cup {NoEntry}]
  /\ upc \in {"sleep", "asked", "answered", "store", "ended"}
  /\ utimer \in 0..(ANSWER_TIME + UPDATE_esp32 + UPDATE_opi)
  /\ fetched \subseteq Cards /\ fetched_age \in 0..MAX_CACHE_AGE
  /\ cpc \in {"idle", "asked"} /\ ctimer \in 0..ANSWER_TIME
  /\ card \in Cards \cup {NoCard} /\ reply \in {"none", "yes", "no"}
  /\ granted \in Cards \cup {NoCard}

\* A card that is revoked no longer opens the Orange Pi's door after the age of
\* the cache and the time of one answer, whatever fails, is delayed or comes out
\* of order: neither the thread nor a check renews an entry with old knowledge.
RevokedWithin ==
  kind = "opi" /\ granted # NoCard => since[granted] <= LIMIT

\* Whoever has asked before, a client without a token is told of no card: the
\* machine of another request is never taken for its own.
StrangersSeeNothing == shown = {}

\* A card that never had permission for this door does not open it, of either
\* kind: the permissions for another machine, which the same worker answers, and
\* answers for other cards never get into the cache, whatever fails or restarts.
NeverPermittedNeverOpens == granted # NoCard => since[granted] # NEVER

Cached == {c \in Cards : cache[c] # NoEntry}

\* In the end the cache holds the cards that are permitted and no others, when
\* network, permissions and tokens stay as they are and the thread runs.
CacheConverges ==
  \A p \in SUBSET Cards :
    <>[](permitted = p /\ network /\ used_ok /\ upc # "ended") /\ <>[][~Restart]_vars
      => <>[](Cached = p)
=============================================================================
