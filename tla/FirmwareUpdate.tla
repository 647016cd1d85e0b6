--------------------------- MODULE FirmwareUpdate ---------------------------
(***************************************************************************)
(* The start of the ESP32 programs (app_main() of frontend and camcontrol) *)
(* and the update of their firmware in it (otafwu.cpp).  The flash has two *)
(* partitions for programs; an update is written to the one that does not  *)
(* run and becomes the one to boot from only when it is complete.  Power   *)
(* and network may fail anywhere, and the gateway may offer a new file, a  *)
(* broken one or none at any time.                                         *)
(*                                                                         *)
(* External, as ESP-IDF has them: the boot loader, the validation of an    *)
(* image, the write of the boot record at once.  CONFIG_BOOTLOADER_APP_-   *)
(* ROLLBACK_ENABLE is not set in either sdkconfig, so no partition is ever *)
(* pending or invalid and the branches for these are dead.                 *)
(***************************************************************************)
EXTENDS Naturals

CONSTANTS
  Versions, Broken,  \* firmware files; those that do not pass the validation
  FIRST_VERSION,     \* the one installed by cable
  BLOCKS,            \* reads it takes to download a file
  ATTEMPTS           \* of the frontend to connect

NoFile == "no file"

ASSUME FirmwareAssumption ==
  /\ Broken \subseteq Versions /\ FIRST_VERSION \in Versions \ Broken
  /\ NoFile \notin Versions
  /\ BLOCKS \in Nat \ {0} /\ ATTEMPTS \in Nat \ {0}

Partitions == {0, 1}
Other(p) == 1 - p

VARIABLES
  device, creds, ext1, \* which program; wifi credentials; update enabled by a pin
  pc,          \* off, boot, wifi, keys, ota, read, verify, set, run, console
  attempts, connected,
  part, boot,  \* flash: the partitions and the one to boot from
  running,     \* the partition whose program runs
  getting,     \* the file being downloaded
  header_checked, \* image_header_was_checked
  network, offered \* the world: is there one? what does the gateway offer?

config == <<device, creds, ext1>>
flash == <<part, boot>>
download == <<getting, header_checked>>
world == <<network, offered>>
vars == <<config, pc, attempts, connected, flash, running, download, world>>

\* The program in a partition is whole.
Intact(p) == part[p].blocks = BLOCKS /\ part[p].version \notin Broken

Init ==
  /\ device \in {"frontend", "camcontrol"} /\ creds \in BOOLEAN /\ ext1 \in BOOLEAN
  /\ pc = "off" /\ attempts = 0 /\ connected = FALSE
  /\ part = [p \in Partitions |-> [version |-> FIRST_VERSION,
                                   blocks |-> IF p = 0 THEN BLOCKS ELSE 0]]
  /\ boot = 0 /\ running = 0
  /\ getting = NoFile /\ header_checked = FALSE
  /\ network \in BOOLEAN /\ offered = NoFile

PowerOff ==
  /\ pc # "off" /\ pc' = "off"
  /\ UNCHANGED <<config, attempts, connected, flash, running, download, world>>

PowerOn ==
  /\ pc = "off" /\ pc' = "boot"
  /\ UNCHANGED <<config, attempts, connected, flash, running, download, world>>

\* The boot loader.
Boot ==
  /\ pc = "boot" /\ pc' = "wifi"
  /\ running' = IF Intact(boot) THEN boot ELSE Other(boot)
  /\ attempts' = IF device = "frontend" THEN ATTEMPTS ELSE 1
  /\ connected' = FALSE /\ getting' = NoFile /\ header_checked' = FALSE
  /\ UNCHANGED <<config, flash, world>>

(***************************************************************************)
(* app_main(): network, console and update, in the order of the program.   *)
(***************************************************************************)
Main(from) ==
  /\ pc = from
  /\ UNCHANGED <<config, flash, running, world>>

NoCredentials ==
  /\ Main("wifi") /\ ~creds /\ pc' = "keys"
  /\ UNCHANGED <<attempts, connected, download>>

Connect ==
  /\ Main("wifi") /\ creds /\ network /\ connected' = TRUE
  /\ pc' = IF device = "frontend" THEN "keys" ELSE "ota"
  /\ UNCHANGED <<attempts, download>>

out_of_attempts == attempts' = 0

\* The frontend goes on without a network, the camera control restarts, unless
\* somebody asks for the console.
ConnectFails ==
  /\ Main("wifi") /\ creds /\ attempts' = attempts - 1
  /\ IF ~out_of_attempts THEN pc' = "wifi"
     ELSE pc' \in IF device = "frontend" THEN {"keys"} ELSE {"boot", "console"}
  /\ UNCHANGED <<connected, download>>

Keys ==
  /\ Main("keys")
  /\ pc' \in {"console", IF device = "frontend" /\ connected THEN "ota" ELSE "run"}
  /\ UNCHANGED <<attempts, connected, download>>

\* The update is over, with or without success.
after_update == IF device = "frontend" THEN "run" ELSE "keys"

OtaDisabled ==
  /\ Main("ota") /\ ~ext1 /\ pc' = after_update
  /\ UNCHANGED <<attempts, connected, download>>

OtaOpen ==
  /\ Main("ota") /\ ext1 /\ network /\ offered # NoFile /\ pc' = "read"
  /\ getting' = offered /\ header_checked' = FALSE
  /\ UNCHANGED <<attempts, connected>>

OtaOpenFails ==
  /\ Main("ota") /\ ext1 /\ (~network \/ offered = NoFile) /\ pc' = after_update
  /\ UNCHANGED <<attempts, connected, download>>

(***************************************************************************)
(* check_ota_update(), from the first block.                               *)
(***************************************************************************)
\* Mutated forms: the versions are not compared; they are compared with what an
\* interrupted download left in the other partition.
is_running_never == FALSE
is_running_in_either == \E p \in Partitions : getting = part[p].version

is_running == getting = part[running].version

\* A read that fails or takes 3 s.
ReadFails ==
  /\ Main("read") /\ ~network /\ pc' = after_update
  /\ UNCHANGED <<attempts, connected, download>>

NoUpdate ==
  /\ Main("read") /\ ~header_checked /\ is_running /\ network /\ pc' = after_update
  /\ UNCHANGED <<attempts, connected, download>>

\* Mutated form: the update goes over the program that runs.
update_over_running == running

update_partition == Other(running)

\* esp_ota_begin() erases as the blocks are written.
Begin ==
  /\ pc = "read" /\ ~header_checked /\ ~is_running /\ network
  /\ header_checked' = TRUE
  /\ part' = [part EXCEPT ![update_partition] = [version |-> getting, blocks |-> 1]]
  /\ pc' = IF BLOCKS = 1 THEN "verify" ELSE "read"
  /\ UNCHANGED <<config, attempts, connected, boot, running, getting, world>>

Write ==
  /\ pc = "read" /\ header_checked /\ network
  /\ part' = [part EXCEPT ![update_partition].blocks = @ + 1]
  /\ pc' = IF part'[update_partition].blocks = BLOCKS THEN "verify" ELSE "read"
  /\ UNCHANGED <<config, attempts, connected, boot, running, download, world>>

\* Mutated form: the result of esp_ota_end() is not looked at.
passes_always == TRUE

passes == Intact(update_partition)

Verify ==
  /\ Main("verify") /\ pc' = IF passes THEN "set" ELSE after_update
  /\ UNCHANGED <<attempts, connected, download>>

\* Then the restart.
SetBootPartition ==
  /\ pc = "set" /\ pc' = "boot" /\ boot' = update_partition
  /\ UNCHANGED <<config, attempts, connected, part, running, download, world>>

Device ==
  \/ Boot \/ NoCredentials \/ Connect \/ ConnectFails \/ Keys
  \/ OtaDisabled \/ OtaOpen \/ OtaOpenFails
  \/ ReadFails \/ NoUpdate \/ Begin \/ Write \/ Verify \/ SetBootPartition

\* esp_restart() of a program that runs, at night or on demand, or of its console.
Reboot ==
  /\ pc \in {"run", "console"} /\ pc' = "boot"
  /\ UNCHANGED <<config, attempts, connected, flash, running, download, world>>

(***************************************************************************)
(* The world.                                                              *)
(***************************************************************************)
NetworkChanges ==
  /\ network' = ~network
  /\ UNCHANGED <<config, pc, attempts, connected, flash, running, download, offered>>

Publish ==
  /\ offered' \in Versions \cup {NoFile}
  /\ UNCHANGED <<config, pc, attempts, connected, flash, running, download, network>>

Next == PowerOff \/ PowerOn \/ Device \/ Reboot \/ NetworkChanges \/ Publish

\* The program runs and the power comes back; a network that is there is found.
Fairness == WF_vars(Device) /\ SF_vars(Connect) /\ WF_vars(PowerOn)

Spec == Init /\ [][Next]_vars
FairSpec == Spec /\ Fairness
-----------------------------------------------------------------------------
TypeOK ==
  /\ device \in {"frontend", "camcontrol"} /\ creds \in BOOLEAN /\ ext1 \in BOOLEAN
  /\ pc \in {"off", "boot", "wifi", "keys", "ota", "read", "verify", "set", "run", "console"}
  /\ attempts \in 0..ATTEMPTS /\ connected \in BOOLEAN
  /\ part \in [Partitions -> [version : Versions, blocks : 0..BLOCKS]]
  /\ boot \in Partitions /\ running \in Partitions
  /\ getting \in Versions \cup {NoFile} /\ header_checked \in BOOLEAN
  /\ network \in BOOLEAN /\ offered \in Versions \cup {NoFile}

\* Wherever the power fails, the device starts from a whole program: the
\* partition it would boot from is never one that is written or was refused.
AlwaysBootable == Intact(boot)

\* Whatever file lies at the gateway, broken or not, the device comes up: no
\* update is tried over and over.  The camera control needs its network for that.
ComesUp ==
  \A v \in Versions \cup {NoFile} :
    <>[](/\ offered = v /\ pc # "off"
         /\ device = "camcontrol" /\ creds => network)
      => []<>(pc \in {"run", "console"})

\* A good file arrives in the end, though a download was interrupted, if the
\* device is restarted now and then and nobody keeps it in the console.
UpdateArrives ==
  \A v \in Versions \ Broken :
    /\ <>[](offered = v /\ network /\ creds /\ ext1 /\ pc \notin {"off", "console"})
    /\ []<>(pc = "boot")
    => <>[](part[running].version = v)
=============================================================================
