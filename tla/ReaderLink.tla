----------------------------- MODULE ReaderLink -----------------------------
(***************************************************************************)
(* The card reader and its line.  One end is the reader thread of the      *)
(* ESP32 frontend (Card_reader::thread_body(), cardreader.cpp), which polls *)
(* for cards and sends lamp patterns; the other is the firmware of the     *)
(* reader (reader.cpp, console.cpp, led.cpp), which answers each command   *)
(* and shows the pattern on its lamp.                                      *)
(*                                                                         *)
(* Nothing on the line pairs an answer with its command: the frontend      *)
(* takes whatever has arrived when its read ends, and only a lone card     *)
(* answer is a card.  Either end may restart at any time.                  *)
(*                                                                         *)
(* The controller is reduced to what the reader sees of it: ReaderClient,  *)
(* which FrontendController implements.                                    *)
(*                                                                         *)
(* A card id is the number of its swipe, so that a card that is swiped     *)
(* again is told from one that is delivered again; 0 is no card.           *)
(***************************************************************************)
EXTENDS Integers, Sequences

CONSTANTS
  MaxSwipes, \* a bound on the swipes
  MaxWire    \* commands or answers on the line at a time

ASSUME LinkAssumption == MaxWire \in Nat \ {0, 1} /\ MaxSwipes \in Nat

VARIABLES
  mode,          \* the controller's state: locked or unlocked
  host_up,       \* does the frontend run?
  hpc,           \* where its reader thread is: poll, read, pattern
  card_id,       \* Card_reader::card_id, taken by the controller
  pattern,       \* Card_reader::pattern, set by the controller
  last_pattern,
  to_reader,     \* commands under way
  to_host,       \* answers under way
  swipes,        \* cards swiped so far
  last_cardid,   \* the reader's last card
  lamp,          \* what the reader's lamp shows
  no_reply       \* has the frontend been silent for MAX_TICKS_WITHOUT_REPLY?

hostVars   == <<mode, host_up, hpc, card_id, pattern, last_pattern>>
readerVars == <<swipes, last_cardid, lamp, no_reply>>
linkVars   == <<hostVars, to_reader, to_host, readerVars>>

Cards    == 1..MaxSwipes
NoCard   == 0
Patterns == {"ready", "enter", "warn_closing"}
Commands == Patterns \cup {"C", "part", "cut"}

\* Answers: a card or, for an empty "ID", NoCard; "OK"; a rest or an error.
OK      == -1
Rest    == -2
Answers == Cards \cup {NoCard, OK, Rest}

LinkInit ==
  /\ mode = "locked" /\ host_up = TRUE /\ hpc = "poll"
  /\ card_id = NoCard /\ pattern = "none" /\ last_pattern = "none"
  /\ to_reader = <<>> /\ to_host = <<>>
  /\ swipes = 0 /\ last_cardid = NoCard /\ lamp = "idle" /\ no_reply = FALSE

(***************************************************************************)
(* The controller.                                                         *)
(***************************************************************************)
Client == INSTANCE ReaderClient WITH slot <- card_id, Empty <- NoCard

Controller(turn) ==
  /\ host_up /\ turn
  /\ UNCHANGED <<host_up, hpc, last_pattern, to_reader, to_host, readerVars>>

CtlLocked   == Controller(Client!AskReady)
CtlUnlock   == Controller(Client!Unlock)
CtlWarn     == Controller(Client!Warn)
CtlLock     == Controller(Client!Relock)
CtlTakeCard == Controller(Client!TakeCard)

(***************************************************************************)
(* The reader thread of the frontend.                                      *)
(***************************************************************************)
Send(cmd) == Len(to_reader) < MaxWire /\ to_reader' = Append(to_reader, cmd)

Poll ==
  /\ host_up /\ hpc = "poll"
  /\ Send("C")
  /\ hpc' = "read"
  /\ UNCHANGED <<mode, host_up, card_id, pattern, last_pattern, to_host, readerVars>>

\* The answers, stripped of line ends, are one line: two bytes "ID" and a
\* number of ten.
got_card(answers) == Len(answers) = 1 /\ answers[1] \in Cards

\* The read ends when it has waited long enough, even within an answer: its
\* rest is what the next read begins with.
Read ==
  /\ host_up /\ hpc = "read"
  /\ \/ to_host' = <<>>
        /\ card_id' = IF got_card(to_host) THEN to_host[1] ELSE card_id
     \/ to_host # <<>> /\ to_host' = <<Rest>>
        /\ UNCHANGED card_id
  /\ hpc' = "pattern"
  /\ UNCHANGED <<mode, host_up, pattern, last_pattern, to_reader, readerVars>>

\* Mutated form: only a pattern after none is a change.
is_change_from_none(active) == active # last_pattern /\ last_pattern = "none"

is_change(active) == active # last_pattern

Exchange ==
  /\ host_up /\ hpc = "pattern"
  /\ pattern' = "none"
  /\ last_pattern' = pattern
  /\ IF is_change(pattern) /\ pattern # "none" THEN Send(pattern) ELSE UNCHANGED to_reader
  /\ hpc' = "poll"
  /\ UNCHANGED <<mode, host_up, card_id, to_host, readerVars>>

HostThread == Poll \/ Read \/ Exchange

\* The frontend stops, perhaps within a command.
HostDown ==
  /\ host_up /\ host_up' = FALSE
  /\ mode' = "locked" /\ hpc' = "poll"
  /\ card_id' = NoCard /\ pattern' = "none" /\ last_pattern' = "none"
  /\ to_host' = <<>>
  /\ \/ UNCHANGED to_reader
     \/ /\ to_reader # <<>>
        /\ to_reader' = [to_reader EXCEPT ![Len(to_reader)] = "cut"]
  /\ UNCHANGED readerVars

HostBoot ==
  /\ ~host_up /\ host_up' = TRUE
  /\ UNCHANGED <<mode, hpc, card_id, pattern, last_pattern, to_reader, to_host, readerVars>>

(***************************************************************************)
(* The reader.                                                             *)
(***************************************************************************)

\* Mutated form: the answers are kept without a bound.
AnswerAlways(a) == to_host' = Append(to_host, a)

\* An answer that finds no room in the frontend's receive buffer is lost.
Answer(a) ==
  to_host' = IF host_up /\ Len(to_host) < MaxWire THEN Append(to_host, a) ELSE to_host

\* After a silence the first byte that comes shows the idle pattern again.
lamp_now == IF no_reply THEN "idle" ELSE lamp

\* Mutated form: the card stays for the next poll.
cardid_kept == last_cardid

\* get_and_clear_last_cardid() and what it leaves.
cardid_left == NoCard

get_card == last_cardid

ServePoll ==
  /\ to_reader # <<>> /\ Head(to_reader) = "C"
  /\ to_reader' = Tail(to_reader)
  /\ Answer(get_card)
  /\ last_cardid' = cardid_left
  /\ lamp' = lamp_now /\ no_reply' = FALSE
  /\ UNCHANGED <<swipes, hostVars>>

\* set_led_pattern()
ServePattern ==
  /\ to_reader # <<>> /\ Head(to_reader) \in Patterns
  /\ to_reader' = Tail(to_reader)
  /\ Answer(OK)
  /\ lamp' = Head(to_reader) /\ no_reply' = FALSE
  /\ UNCHANGED <<swipes, last_cardid, hostVars>>

\* The end of a command whose start was lost is not a command.  A start whose
\* end is lost spoils the next command.
ServeRest ==
  /\ \/ to_reader # <<>> /\ Head(to_reader) = "part" /\ to_reader' = Tail(to_reader)
     \/ Len(to_reader) > 1 /\ Head(to_reader) = "cut" /\ to_reader' = Tail(Tail(to_reader))
  /\ Answer(Rest)
  /\ lamp' = lamp_now /\ no_reply' = FALSE
  /\ UNCHANGED <<swipes, last_cardid, hostVars>>

Serve == ServePoll \/ ServePattern \/ ServeRest

\* The frontend polls at least every second, so this needs it to be down.
Silence ==
  /\ ~host_up /\ to_reader \in {<<>>, <<"cut">>} /\ ~no_reply
  /\ no_reply' = TRUE /\ lamp' = "no_reply"
  /\ UNCHANGED <<hostVars, to_reader, to_host, swipes, last_cardid>>

\* rfid_task(): a card in the field.
RfidRead ==
  /\ swipes < MaxSwipes
  /\ swipes' = swipes + 1 /\ last_cardid' = swipes'
  /\ UNCHANGED <<hostVars, to_reader, to_host, lamp, no_reply>>

\* update_leds(): a pattern with a number of repeats is over.
PatternDone ==
  /\ lamp \in {"ready", "enter"} /\ lamp' = "idle"
  /\ UNCHANGED <<hostVars, to_reader, to_host, swipes, last_cardid, no_reply>>

ReaderRestart ==
  /\ last_cardid' = NoCard /\ lamp' = "idle" /\ no_reply' = FALSE
  /\ to_reader' \in {<<>>} \cup (IF to_reader = <<>> THEN {} ELSE {<<"part">>})
  /\ UNCHANGED <<swipes, hostVars, to_host>>

LinkNext ==
  \/ CtlLocked \/ CtlUnlock \/ CtlWarn \/ CtlLock \/ CtlTakeCard
  \/ HostThread \/ HostDown \/ HostBoot
  \/ Serve \/ Silence \/ RfidRead \/ PatternDone \/ ReaderRestart

\* The threads of both ends run; a restart may happen or not.
LinkFairness ==
  /\ WF_linkVars(CtlLocked) /\ WF_linkVars(HostThread) /\ WF_linkVars(Serve)

LinkSpec == LinkInit /\ [][LinkNext]_linkVars
LinkFairSpec == LinkSpec /\ LinkFairness
-----------------------------------------------------------------------------
LinkTypeOK ==
  /\ mode \in {"locked", "unlocked"} /\ host_up \in BOOLEAN
  /\ hpc \in {"poll", "read", "pattern"}
  /\ card_id \in Cards \cup {NoCard}
  /\ pattern \in Patterns \cup {"none"} /\ last_pattern \in Patterns \cup {"none"}
  /\ to_reader \in Seq(Commands) /\ Len(to_reader) <= MaxWire
  /\ to_host \in Seq(Answers) /\ Len(to_host) <= MaxWire
  /\ swipes \in 0..MaxSwipes /\ last_cardid \in 0..swipes
  /\ lamp \in Patterns \cup {"idle", "no_reply"} /\ no_reply \in BOOLEAN

\* The cards swiped and not yet seen by the controller: those in the answers and
\* the one the reader keeps.
cards_in_transit ==
  {c \in Cards : c = last_cardid \/ \E i \in DOMAIN to_host : to_host[i] = c}

Delivery == INSTANCE CardDelivery WITH in_transit <- cards_in_transit, slot <- card_id

\* However answers are delayed, run together, cut or dropped and whichever end
\* restarts, no swipe opens the door twice or after a later one.
DeliversCardsOnce == Delivery!Spec

\* A reader whose frontend stays up and locked ends up showing that: it does
\* not keep a closing warning or the pattern for a silent frontend, although
\* the frontend sends a pattern only once and no answer is checked.
LampSettles ==
  <>[](mode = "locked" /\ host_up) => <>[](lamp \in {"ready", "idle"})
=============================================================================
