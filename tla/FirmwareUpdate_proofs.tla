----------------------- MODULE FirmwareUpdate_proofs -----------------------
(***************************************************************************)
(* The device can always be started: for all files, broken ones among      *)
(* them, all sizes and every moment at which power or network may fail.    *)
(***************************************************************************)
EXTENDS FirmwareUpdate, TLAPS

\* While a program runs it is the one to boot from, so that the update goes to
\* the other partition.
RunsBootPartition == pc \notin {"off", "boot"} => running = boot

\* An update that may become the one to boot from is whole, and one that is being
\* read is not complete.
UpdateIsVerified == pc = "set" => Intact(Other(running))
StillReading ==
  pc = "read" /\ header_checked => part[Other(running)].blocks < BLOCKS

\* What is being read is a file.
GettingFile == pc = "read" => getting \in Versions

\* There are attempts left while the device tries to connect.
Trying == pc = "wifi" => attempts > 0

Inv ==
  /\ TypeOK /\ AlwaysBootable
  /\ RunsBootPartition /\ UpdateIsVerified /\ StillReading /\ GettingFile /\ Trying

LEMMA Others ==
  \A p \in Partitions : Other(p) \in Partitions /\ Other(p) # p
BY DEF Partitions, Other

LEMMA BlocksInRange ==
  /\ 0 \in 0..BLOCKS /\ 1 \in 0..BLOCKS /\ BLOCKS \in 0..BLOCKS
  /\ 0 \in 0..ATTEMPTS /\ 1 \in 0..ATTEMPTS /\ ATTEMPTS \in 0..ATTEMPTS
  /\ ATTEMPTS > 0 /\ BLOCKS > 0
BY FirmwareAssumption

LEMMA InitInv == Init => Inv
<1> SUFFICES ASSUME Init PROVE Inv
  OBVIOUS
<1>1. TypeOK
  BY BlocksInRange, FirmwareAssumption DEF Init, TypeOK, Partitions
<1>2. AlwaysBootable
  BY FirmwareAssumption DEF Init, AlwaysBootable, Intact, Partitions
<1>3. RunsBootPartition /\ UpdateIsVerified /\ StillReading /\ GettingFile /\ Trying
  BY DEF Init, RunsBootPartition, UpdateIsVerified, StillReading, GettingFile, Trying
<1> QED BY <1>1, <1>2, <1>3 DEF Inv

\* Power and boot loader.
LEMMA PowerInv ==
  ASSUME Inv, PowerOff \/ PowerOn \/ Boot \/ Reboot
  PROVE  Inv'
<1> USE DEF Inv, TypeOK, AlwaysBootable, RunsBootPartition, UpdateIsVerified, StillReading,
            GettingFile, Trying, Intact, config, flash, download, world
<1>1. CASE PowerOff
  BY <1>1 DEF PowerOff
<1>2. CASE PowerOn
  BY <1>2 DEF PowerOn
<1>3. CASE Boot
  <2>1. running' = boot /\ pc' = "wifi" /\ UNCHANGED <<part, boot>>
    BY <1>3 DEF Boot
  <2>2. attempts' \in 0..ATTEMPTS /\ attempts' > 0
    BY <1>3, BlocksInRange, FirmwareAssumption DEF Boot
  <2>3. TypeOK'
    BY <1>3, <2>1, <2>2 DEF Boot
  <2> QED BY <2>1, <2>2, <2>3
<1>4. CASE Reboot
  BY <1>4 DEF Reboot
<1> QED BY <1>1, <1>2, <1>3, <1>4

\* The steps that do not touch the flash.
LEMMA MainInv ==
  ASSUME Inv, NoCredentials \/ Connect \/ ConnectFails \/ Keys \/ OtaDisabled \/ OtaOpen
              \/ OtaOpenFails \/ ReadFails \/ NoUpdate
  PROVE  Inv'
<1> USE DEF Inv, TypeOK, AlwaysBootable, RunsBootPartition, UpdateIsVerified, StillReading,
            GettingFile, Trying, Intact, Main, config, flash, download, world, after_update
<1>1. CASE NoCredentials
  BY <1>1 DEF NoCredentials
<1>2. CASE Connect
  BY <1>2 DEF Connect
<1>3. CASE ConnectFails
  <2>1. attempts' \in 0..ATTEMPTS /\ (pc' = "wifi" => attempts' > 0)
    BY <1>3, FirmwareAssumption DEF ConnectFails, out_of_attempts
  <2> QED BY <1>3, <2>1 DEF ConnectFails
<1>4. CASE Keys
  BY <1>4 DEF Keys
<1>5. CASE OtaDisabled \/ OtaOpenFails \/ ReadFails \/ NoUpdate
  BY <1>5 DEF OtaDisabled, OtaOpenFails, ReadFails, NoUpdate
<1>6. CASE OtaOpen
  BY <1>6 DEF OtaOpen
<1> QED BY <1>1, <1>2, <1>3, <1>4, <1>5, <1>6

\* Begin and Write change the partition that does not run and leave the other.
LEMMA WritesOther ==
  ASSUME Inv, Begin \/ Write
  PROVE  /\ part' \in [Partitions -> [version : Versions, blocks : 0..BLOCKS]]
         /\ part'[running] = part[running]
         /\ pc' = "read" => part'[Other(running)].blocks < BLOCKS
<1> DEFINE p == Other(running)
<1>1. p \in Partitions /\ running \in Partitions /\ p # running
  BY Others DEF Inv, TypeOK
<1>2. CASE Begin
  <2>1. getting \in Versions
    BY <1>2 DEF Inv, GettingFile, Begin
  <2>2. part' = [part EXCEPT ![p] = [version |-> getting, blocks |-> 1]]
    BY <1>2 DEF Begin, update_partition
  <2>3. part'[p].blocks = 1 /\ part'[running] = part[running]
    BY <1>1, <2>2 DEF Inv, TypeOK
  <2>4. part' \in [Partitions -> [version : Versions, blocks : 0..BLOCKS]]
    BY <1>1, <2>1, <2>2, BlocksInRange DEF Inv, TypeOK
  <2>5. pc' = "read" => BLOCKS # 1
    BY <1>2 DEF Begin
  <2>6. pc' = "read" => part'[p].blocks < BLOCKS
    BY <2>3, <2>5, FirmwareAssumption
  <2> QED BY <2>3, <2>4, <2>6
<1>3. CASE Write
  <2>1. part[p].blocks \in 0..BLOCKS /\ part[p].blocks < BLOCKS
    BY <1>1, <1>3 DEF Inv, TypeOK, StillReading, Write
  <2>2. part' = [part EXCEPT ![p].blocks = @ + 1]
    BY <1>3 DEF Write, update_partition
  <2>3. part[p].blocks + 1 \in 0..BLOCKS
    BY <2>1, FirmwareAssumption
  <2>4. part'[p].blocks = part[p].blocks + 1 /\ part'[running] = part[running]
    BY <1>1, <2>2 DEF Inv, TypeOK
  <2>5. part' \in [Partitions -> [version : Versions, blocks : 0..BLOCKS]]
    BY <1>1, <2>2, <2>3 DEF Inv, TypeOK
  <2>6. pc' = "read" => part'[p].blocks < BLOCKS
    BY <1>3, <2>3, <2>4, FirmwareAssumption DEF Write, update_partition
  <2> QED BY <2>4, <2>5, <2>6
<1> QED BY <1>2, <1>3

\* The steps that change the flash.
LEMMA FlashInv ==
  ASSUME Inv, Begin \/ Write \/ Verify \/ SetBootPartition
  PROVE  Inv'
<1> USE DEF Inv, config, download, world
<1>1. CASE Begin \/ Write
  <2>1. /\ pc' \in {"read", "verify"} /\ running = boot
        /\ UNCHANGED <<boot, running, config, attempts, connected, getting, world>>
        /\ header_checked' \in BOOLEAN
    BY <1>1 DEF Begin, Write, TypeOK, RunsBootPartition
  <2>2. TypeOK'
    BY <1>1, <2>1, WritesOther DEF TypeOK
  <2>3. AlwaysBootable'
    BY <1>1, <2>1, WritesOther DEF AlwaysBootable, Intact
  <2>4. RunsBootPartition' /\ UpdateIsVerified' /\ StillReading' /\ Trying'
    BY <1>1, <2>1, WritesOther DEF RunsBootPartition, UpdateIsVerified, StillReading, Trying
  <2>5. GettingFile'
    BY <1>1, <2>1 DEF Begin, Write, GettingFile
  <2> QED BY <2>2, <2>3, <2>4, <2>5
<1>2. CASE Verify
  <2>1. Other(running') = update_partition /\ UNCHANGED <<flash, running>>
    BY <1>2 DEF Verify, Main, update_partition
  <2> QED BY <1>2, <2>1
      DEF Verify, Main, TypeOK, AlwaysBootable, RunsBootPartition, UpdateIsVerified,
          StillReading, GettingFile, Trying, Intact, passes, flash, after_update
<1>3. CASE SetBootPartition
  <2>1. boot' = Other(running) /\ pc' = "boot" /\ UNCHANGED <<part, running>>
    BY <1>3 DEF SetBootPartition, update_partition
  <2>2. AlwaysBootable'
    BY <1>3, <2>1 DEF SetBootPartition, AlwaysBootable, UpdateIsVerified, Intact
  <2>3. boot' \in Partitions
    BY <2>1, Others DEF TypeOK
  <2>4. UNCHANGED <<config, attempts, connected, part, running, download, world>>
    BY <1>3 DEF SetBootPartition
  <2>5. TypeOK'
    BY <2>1, <2>3, <2>4 DEF TypeOK, config, download, world
  <2> QED BY <2>1, <2>2, <2>5
      DEF RunsBootPartition, UpdateIsVerified, StillReading, GettingFile, Trying
<1> QED BY <1>1, <1>2, <1>3

LEMMA StepInv == Inv /\ [Next]_vars => Inv'
<1> SUFFICES ASSUME Inv, [Next]_vars PROVE Inv'
  OBVIOUS
<1>1. CASE PowerOff \/ PowerOn \/ Reboot
  BY <1>1, PowerInv
<1>2. CASE Device
  BY <1>2, PowerInv, MainInv, FlashInv DEF Device
<1>3. CASE NetworkChanges \/ Publish \/ UNCHANGED vars
  <2>1. UNCHANGED <<config, pc, attempts, connected, flash, running, download>>
    BY <1>3 DEF NetworkChanges, Publish, vars
  <2>2. network' \in BOOLEAN /\ offered' \in Versions \cup {NoFile}
    <3>1. CASE NetworkChanges
      BY <3>1 DEF NetworkChanges, Inv, TypeOK
    <3>2. CASE Publish
      BY <3>2 DEF Publish, Inv, TypeOK
    <3>3. CASE UNCHANGED vars
      BY <3>3 DEF vars, world, Inv, TypeOK
    <3> QED BY <1>3, <3>1, <3>2, <3>3
  <2>3. TypeOK'
    BY <2>1, <2>2 DEF Inv, TypeOK, config, flash, download
  <2> QED BY <2>1, <2>3
      DEF Inv, AlwaysBootable, RunsBootPartition, UpdateIsVerified, StillReading, GettingFile,
          Trying, Intact, config, flash, download
<1> QED BY <1>1, <1>2, <1>3 DEF Next

LEMMA Invariance == Spec => []Inv
BY InitInv, StepInv, PTL DEF Spec

\* All variables keep their types, whatever the sizes of the files.
THEOREM TypeCorrect == Spec => []TypeOK
BY Invariance, PTL DEF Inv

\* The partition to boot from always holds a whole program.
THEOREM BootableAtAnyTime == Spec => []AlwaysBootable
BY Invariance, PTL DEF Inv
=============================================================================
