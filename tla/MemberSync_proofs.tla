-------------------------- MODULE MemberSync_proofs --------------------------
(***************************************************************************)
(* A synchronisation deactivates nobody who is in its list, for any number *)
(* of members and logins: what it has not yet seen of the list is still to *)
(* come when the second loop begins, or the loop does not begin.  And a    *)
(* synchronisation that ends has missed nobody who is not in its list.     *)
(***************************************************************************)
EXTENDS MemberSync, TLAPS

Running == pc \in {"next", "delete", "create", "save", "leave", "done"}

\* Everybody in the list is still to do, in work, or among the active.
ListIsCovered ==
  Running => \A n \in Numbers :
    members[n] # NotMember =>
      \/ n \in todo \/ n \in active_members
      \/ (pc \in {"delete", "create", "save"} /\ n = number)

TodoInList == \A n \in todo : members[n] # NotMember

\* The member in work has a login that is one.
InWork ==
  pc \in {"delete", "create", "save"} => number \in Numbers /\ members[number] \in Logins

\* Who leaves is not in the list.
LeavingHaveLeft == \A u \in leaving : pc = "leave" /\ members[u[2]] = NotMember

Inv ==
  /\ TypeOK /\ ListIsCovered /\ TodoInList /\ InWork /\ LeavingHaveLeft
  /\ pc = "leave" => todo = {}

LEMMA LoginsAreNot ==
  /\ NotMember \notin Logins /\ Malformed \notin Logins /\ NotMember # Malformed
  /\ NoNumber \notin Numbers /\ Numbers \subseteq Logins
BY MemberAssumption DEF Logins, NotMember, Malformed, NoNumber

LEMMA InitInv == Init => Inv
BY LoginsAreNot
DEF Init, Inv, TypeOK, ListIsCovered, Running, TodoInList, InWork, LeavingHaveLeft, Nobody,
    Entries

\* The end of a synchronisation, whatever ends it.
LEMMA OverInv ==
  ASSUME Inv, Over, UNCHANGED <<list, database>>
  PROVE  Inv' /\ UNCHANGED is_active
BY DEF Inv, Over, TypeOK, ListIsCovered, Running, TodoInList, InWork, LeavingHaveLeft, Nobody,
       Entries, database, active_members_at_start

\* Saving and deleting keep the table a table.
LEMMA SaveTypes ==
  ASSUME TypeOK, NEW l \in Logins, NEW n \in Numbers \cup {NoNumber}, NEW a \in BOOLEAN,
         Save(l, n, a)
  PROVE  /\ exists' \subseteq Logins /\ is_active' \subseteq exists'
         /\ fl_id' \in [Logins -> Numbers \cup {NoNumber}]
         /\ fl_id'[l] = n /\ \A k \in Logins \ {l} : fl_id'[k] = fl_id[k]
         /\ exists' = exists \cup {l}
BY DEF TypeOK, Save

LEMMA DeleteTypes ==
  ASSUME TypeOK, NEW l \in Logins, Delete(l)
  PROVE  /\ exists' \subseteq Logins /\ is_active' \subseteq exists'
         /\ fl_id' \in [Logins -> Numbers \cup {NoNumber}]
         /\ \A k \in Logins \ {l} : fl_id'[k] = fl_id[k]
         /\ exists' = exists \ {l}
BY DEF TypeOK, Delete

\* The first loop.
LEMMA FirstLoopInv ==
  ASSUME Inv, Fetch \/ Get \/ DeleteOld \/ Create \/ SaveMember
  PROVE  Inv'
<1>1. CASE Fetch
  <2>1. leaving = {}
    BY <1>1 DEF Fetch, Inv, LeavingHaveLeft
  <2>2. /\ pc' = "next" /\ members' = list /\ todo' = {n \in Numbers : list[n] # NotMember}
        /\ active_members' = {} /\ leaving' = {}
        /\ UNCHANGED <<number, list, activated, exists, is_active, fl_id>>
    BY <1>1, <2>1 DEF Fetch, database, active_members_at_start
  <2>3. TypeOK'
    BY <2>2 DEF Inv, TypeOK
  <2>4. ListIsCovered'
    <3>1. \A n \in Numbers : members'[n] # NotMember => n \in todo'
      BY <2>2
    <3> QED BY <3>1 DEF ListIsCovered
  <2>5. TodoInList'
    <3>1. \A n \in todo' : members'[n] # NotMember
      BY <2>2
    <3> QED BY <3>1 DEF TodoInList
  <2> QED BY <2>2, <2>3, <2>4, <2>5 DEF Inv, InWork, LeavingHaveLeft
<1>2. CASE Get
  <2>1. PICK n \in todo :
          /\ members[n] # Malformed
          /\ number' = n /\ todo' = todo \ {n}
          /\ pc' \in {"save", "delete", "create"}
    BY <1>2 DEF Get
  <2>2. /\ UNCHANGED <<members, active_members, leaving, list, activated, exists, is_active,
                       fl_id>>
        /\ pc = "next" /\ leaving = {}
    BY <1>2 DEF Get, database, Inv, LeavingHaveLeft
  <2>3. TypeOK'
    BY <2>1, <2>2 DEF Inv, TypeOK
  <2>4. ListIsCovered'
    <3>1. \A k \in Numbers : members[k] # NotMember => k \in todo \/ k \in active_members
      BY <2>2 DEF Inv, ListIsCovered, Running
    <3>2. \A k \in Numbers :
            members'[k] # NotMember => k \in todo' \/ k \in active_members' \/ k = number'
      BY <2>1, <2>2, <3>1
    <3> QED BY <2>1, <3>2 DEF ListIsCovered
  <2>7. TodoInList'
    BY <2>1, <2>2 DEF Inv, TodoInList
  <2>5. n \in Numbers /\ members[n] \in Entries /\ members[n] # NotMember
    BY <2>1 DEF Inv, TypeOK, TodoInList
  <2>6. members[n] \in Logins
    BY <2>1, <2>5 DEF Entries
  <2> QED BY <2>1, <2>2, <2>3, <2>4, <2>5, <2>6, <2>7 DEF Inv, InWork, LeavingHaveLeft
<1>3. CASE DeleteOld
  <2>1. number \in Numbers /\ number \in Logins /\ leaving = {} /\ pc' = "create"
    BY <1>3, LoginsAreNot DEF DeleteOld, Inv, InWork, LeavingHaveLeft
  <2>2. UNCHANGED <<members, todo, number, active_members, leaving, list, activated>>
    BY <1>3 DEF DeleteOld
  <2>3. /\ exists' \subseteq Logins /\ is_active' \subseteq exists'
        /\ fl_id' \in [Logins -> Numbers \cup {NoNumber}]
    BY <1>3, <2>1, DeleteTypes DEF DeleteOld, Inv, TypeOK, database
  <2>4. TypeOK'
    BY <2>1, <2>2, <2>3 DEF Inv, TypeOK
  <2> QED BY <1>3, <2>1, <2>2, <2>4
      DEF DeleteOld, Inv, ListIsCovered, Running, TodoInList, InWork, LeavingHaveLeft
<1>4. CASE Create
  <2>1. number \in Numbers /\ members[number] \in Logins /\ leaving = {} /\ pc' = "save"
    BY <1>4 DEF Create, Inv, InWork, LeavingHaveLeft
  <2>2. UNCHANGED <<members, todo, number, active_members, leaving, list, activated>>
    BY <1>4 DEF Create
  <2>3. /\ exists' \subseteq Logins /\ is_active' \subseteq exists'
        /\ fl_id' \in [Logins -> Numbers \cup {NoNumber}]
    BY <1>4, <2>1, SaveTypes DEF Create, Inv
  <2>4. TypeOK'
    BY <2>1, <2>2, <2>3 DEF Inv, TypeOK
  <2> QED BY <1>4, <2>1, <2>2, <2>4
      DEF Create, Inv, ListIsCovered, Running, TodoInList, InWork, LeavingHaveLeft
<1>5. CASE SaveMember
  <2>1. number \in Numbers /\ members[number] \in Logins /\ leaving = {} /\ pc' = "next"
    BY <1>5 DEF SaveMember, Inv, InWork, LeavingHaveLeft
  <2>2. /\ UNCHANGED <<members, todo, leaving, list, activated>> /\ number' = NoNumber
        /\ active_members' = active_members \cup {number}
    BY <1>5 DEF SaveMember
  <2>3. /\ exists' \subseteq Logins /\ is_active' \subseteq exists'
        /\ fl_id' \in [Logins -> Numbers \cup {NoNumber}]
    BY <1>5, <2>1, SaveTypes DEF SaveMember, number_saved, Inv
  <2>4. TypeOK'
    <3>1. number' \in Numbers \cup {NoNumber} /\ active_members' \subseteq Numbers
      BY <2>1, <2>2 DEF Inv, TypeOK
    <3> QED BY <2>1, <2>2, <2>3, <3>1 DEF Inv, TypeOK
  <2>5. ListIsCovered'
    <3>1. \A k \in Numbers :
            members[k] # NotMember => k \in todo \/ k \in active_members \/ k = number
      BY <1>5 DEF SaveMember, Inv, ListIsCovered, Running
    <3>2. \A k \in Numbers : members'[k] # NotMember => k \in todo' \/ k \in active_members'
      BY <2>2, <3>1
    <3> QED BY <3>2 DEF ListIsCovered
  <2> QED BY <2>1, <2>2, <2>4, <2>5
      DEF Inv, TodoInList, InWork, LeavingHaveLeft
<1> QED BY <1>1, <1>2, <1>3, <1>4, <1>5

\* The second loop.
LEMMA SecondLoopInv ==
  ASSUME Inv, EndOfList \/ Deactivate \/ Touch
  PROVE  Inv'
<1>1. CASE EndOfList
  <2>1. /\ UNCHANGED <<members, todo, number, active_members, list, activated, exists, is_active,
                       fl_id>>
        /\ pc = "next" /\ todo = {} /\ pc' = "leave"
        /\ leaving' = {<<l, fl_id[l]>> : l \in {k \in exists : has_left(k)}}
    BY <1>1 DEF EndOfList, database
  <2>2. \A u \in leaving' :
          /\ u \in Logins \X Numbers /\ u = <<u[1], fl_id[u[1]]>>
          /\ u[2] \in Numbers /\ u[2] \notin active_members
    BY <2>1 DEF has_left, Inv, TypeOK
  <2>3. \A n \in Numbers : n \notin active_members => members[n] = NotMember
    BY <2>1 DEF Inv, ListIsCovered, Running
  <2>4. LeavingHaveLeft'
    BY <2>1, <2>2, <2>3 DEF LeavingHaveLeft
  <2>5. TypeOK'
    BY <2>1, <2>2 DEF Inv, TypeOK
  <2> QED BY <2>1, <2>4, <2>5 DEF Inv, ListIsCovered, Running, TodoInList, InWork
<1>2. CASE Deactivate
  <2>1. PICK u \in leaving : Save(u[1], u[2], FALSE) /\ leaving' = leaving \ {u}
    BY <1>2 DEF Deactivate
  <2>2. /\ UNCHANGED <<pc, members, todo, number, active_members, list>> /\ pc = "leave"
    BY <1>2 DEF Deactivate
  <2>3. u[1] \in Logins /\ u[2] \in Numbers
    BY <2>1 DEF Inv, TypeOK
  <2>4. /\ exists' \subseteq Logins /\ is_active' \subseteq exists'
        /\ fl_id' \in [Logins -> Numbers \cup {NoNumber}]
        /\ \A k \in Logins \ {u[1]} : fl_id'[k] = fl_id[k]
        /\ exists' = exists \cup {u[1]}
    BY <2>1, <2>3, SaveTypes DEF Inv
  <2>6. activated' \subseteq Logins
    BY <1>2 DEF Deactivate, Inv, TypeOK
  <2>5. TypeOK'
    BY <2>1, <2>2, <2>4, <2>6 DEF Inv, TypeOK
  <2>7. LeavingHaveLeft'
    BY <2>1, <2>2 DEF Inv, LeavingHaveLeft
  <2> QED BY <2>2, <2>5, <2>7 DEF Inv, ListIsCovered, Running, TodoInList, InWork
<1>3. CASE Touch
  BY <1>3 DEF Touch, Inv, TypeOK, ListIsCovered, Running, TodoInList, InWork, LeavingHaveLeft,
              database
<1> QED BY <1>1, <1>2, <1>3

\* The world.
LEMMA WorldInv ==
  ASSUME Inv, MemberChanges \/ AdminSave \/ AdminDelete
  PROVE  Inv'
<1>1. CASE MemberChanges
  <2>1. list' \in [Numbers -> Entries]
    BY <1>1, LoginsAreNot DEF MemberChanges, Inv, TypeOK, Entries, Logins
  <2> QED BY <1>1, <2>1
      DEF MemberChanges, Inv, TypeOK, ListIsCovered, Running, TodoInList, InWork,
          LeavingHaveLeft, database, sync
<1>2. CASE AdminSave
  <2>1. PICK l \in exists, active \in BOOLEAN, n \in Logins \cup {NoNumber} :
          n \in Entered \cup {fl_id[l]} /\ Save(l, n, active)
    BY <1>2, MemberAssumption DEF AdminSave, Inv, TypeOK, Logins, NoNumber
  <2>2. UNCHANGED <<list, pc, members, todo, number, active_members, leaving>>
    BY <1>2 DEF AdminSave, sync
  <2>3. l \in Logins /\ n \in Numbers \cup {NoNumber}
    BY <2>1, MemberAssumption DEF Inv, TypeOK, NoNumber
  <2>4. /\ exists' \subseteq Logins /\ is_active' \subseteq exists'
        /\ fl_id' \in [Logins -> Numbers \cup {NoNumber}]
    BY <2>1, <2>3, SaveTypes DEF Inv
  <2>7. activated' \subseteq Logins
    BY <1>2 DEF AdminSave, Inv, TypeOK
  <2>5. TypeOK'
    BY <2>2, <2>4, <2>7 DEF Inv, TypeOK
  <2>6. LeavingHaveLeft'
    BY <2>2 DEF Inv, LeavingHaveLeft
  <2> QED BY <2>2, <2>5, <2>6 DEF Inv, ListIsCovered, Running, TodoInList, InWork
<1>3. CASE AdminDelete
  <2>1. PICK l \in exists : Delete(l)
    BY <1>3 DEF AdminDelete
  <2>2. UNCHANGED <<list, pc, members, todo, number, active_members, leaving>>
    BY <1>3 DEF AdminDelete, sync
  <2>3. l \in Logins
    BY DEF Inv, TypeOK
  <2>4. /\ exists' \subseteq Logins /\ is_active' \subseteq exists'
        /\ fl_id' \in [Logins -> Numbers \cup {NoNumber}]
        /\ \A k \in Logins \ {l} : fl_id'[k] = fl_id[k]
        /\ exists' = exists \ {l}
    BY <2>1, <2>3, DeleteTypes DEF Inv
  <2>7. activated' \subseteq Logins
    BY <1>3 DEF AdminDelete, Inv, TypeOK
  <2>5. TypeOK'
    BY <2>2, <2>4, <2>7 DEF Inv, TypeOK
  <2>6. LeavingHaveLeft'
    BY <2>2, <2>4 DEF Inv, TypeOK, LeavingHaveLeft
  <2> QED BY <2>2, <2>5, <2>6 DEF Inv, ListIsCovered, Running, TodoInList, InWork
<1> QED BY <1>1, <1>2, <1>3

LEMMA StepInv == Inv /\ [Next]_vars => Inv'
<1> SUFFICES ASSUME Inv, [Next]_vars PROVE Inv'
  OBVIOUS
<1>1. CASE Fetch \/ Get \/ DeleteOld \/ Create \/ SaveMember
  BY <1>1, FirstLoopInv
<1>2. CASE EndOfList \/ Deactivate \/ Touch
  BY <1>2, SecondLoopInv
<1>3. CASE Raise \/ Sleep \/ Crash
  BY <1>3, OverInv DEF Raise, Sleep, Crash, error_ends
<1>4. CASE MemberChanges \/ AdminSave \/ AdminDelete
  BY <1>4, WorldInv
<1>5. CASE UNCHANGED vars
  BY <1>5 DEF vars, database, sync, Inv, TypeOK, ListIsCovered, Running, TodoInList, InWork,
              LeavingHaveLeft
<1> QED BY <1>1, <1>2, <1>3, <1>4, <1>5 DEF Next, Synchronise

LEMMA Invariance == Spec => []Inv
BY InitInv, StepInv, PTL DEF Spec

\* All variables keep their types, for any number of members and logins.
THEOREM TypeCorrect == Spec => []TypeOK
BY Invariance, PTL DEF Inv

\* Only who is not in the list is deactivated by a synchronisation: of its steps
\* only those of the second loop deactivate, and they save who has left.
LEMMA StepDeactivates ==
  ASSUME Inv, [Next]_vars
  PROVE  \A l \in is_active \ is_active' :
           sync' # sync /\ l \in exists' => fl_id'[l] # NoNumber /\ members[fl_id'[l]] = NotMember
<1> SUFFICES ASSUME NEW l \in is_active, l \notin is_active', l \in exists', sync' # sync
             PROVE  fl_id'[l] # NoNumber /\ members[fl_id'[l]] = NotMember
  OBVIOUS
<1>1. CASE Deactivate
  <2>1. PICK u \in leaving : Save(u[1], u[2], FALSE)
    BY <1>1 DEF Deactivate
  <2>2. u[1] = l /\ fl_id'[l] = u[2] /\ u[2] \in Numbers
    BY <2>1 DEF Save, Inv, TypeOK
  <2> QED BY <2>1, <2>2, LoginsAreNot DEF Inv, LeavingHaveLeft
<1>2. CASE Fetch \/ Get \/ EndOfList \/ Touch \/ Sleep \/ Raise \/ Crash
  BY <1>2 DEF Fetch, Get, EndOfList, Touch, Sleep, Raise, Crash, database
<1>3. CASE DeleteOld
  BY <1>3 DEF DeleteOld, Delete, database
<1>4. CASE Create \/ SaveMember
  BY <1>4 DEF Create, SaveMember, Save
<1>5. CASE MemberChanges \/ AdminSave \/ AdminDelete \/ UNCHANGED vars
  BY <1>5 DEF MemberChanges, AdminSave, AdminDelete, vars
<1> QED BY <1>1, <1>2, <1>3, <1>4, <1>5 DEF Next, Synchronise

\* However saves, spoilt records, the administrator and crashes interleave.
THEOREM OnlyLeftAreDeactivated == Spec => DeactivatesOnlyLeft
<1>1. Inv /\ [Next]_vars => [\A l \in is_active \ is_active' :
         sync' # sync /\ l \in exists' => fl_id'[l] # NoNumber /\ members[fl_id'[l]] = NotMember]_vars
  BY StepDeactivates
<1> QED BY <1>1, Invariance, PTL DEF Spec, DeactivatesOnlyLeft

\* Whom the second loop counts as active is in the list.
ActiveInList == \A n \in active_members : members[n] # NotMember

\* In the second loop an account of somebody who is not active is among the rows to
\* come, unless the administrator has activated it.
LeaversToCome ==
  pc = "leave" => \A l \in is_active \ activated : has_left(l) => <<l, fl_id[l]>> \in leaving

LEMMA StepActiveInList ==
  ASSUME Inv, [Next]_vars, ActiveInList
  PROVE  ActiveInList'
<1>1. CASE Fetch \/ Raise \/ Sleep \/ Crash
  BY <1>1
  DEF Fetch, Raise, Sleep, Crash, Over, error_ends, active_members_at_start, ActiveInList
<1>2. CASE SaveMember
  <2>1. members[number] # NotMember
    BY <1>2, LoginsAreNot DEF SaveMember, Inv, InWork
  <2> QED BY <1>2, <2>1 DEF SaveMember, ActiveInList
<1>3. CASE UNCHANGED <<members, active_members>>
  BY <1>3 DEF ActiveInList
<1> QED BY <1>1, <1>2, <1>3
  DEF Next, Synchronise, Get, DeleteOld, Create, EndOfList, Deactivate, Touch, MemberChanges,
      AdminSave, AdminDelete, vars, sync

LEMMA StepLeaversToCome ==
  ASSUME Inv, [Next]_vars, LeaversToCome
  PROVE  LeaversToCome'
<1> SUFFICES ASSUME pc' = "leave" PROVE LeaversToCome'
  BY DEF LeaversToCome
<1>1. CASE EndOfList
  BY <1>1 DEF EndOfList, LeaversToCome, has_left, database, Inv, TypeOK
<1>2. CASE Deactivate
  <2>1. PICK u \in leaving :
          /\ Save(u[1], u[2], FALSE) /\ leaving' = leaving \ {u}
          /\ activated' = activated \ {u[1]}
    BY <1>2 DEF Deactivate
  <2>2. pc = "leave" /\ active_members' = active_members /\ u[1] \in Logins /\ u[2] \in Numbers
    BY <1>2, <2>1 DEF Deactivate, Inv, TypeOK
  <2>3. \A l \in is_active' \ activated' :
          l \in is_active \ activated /\ l # u[1] /\ fl_id'[l] = fl_id[l]
    BY <2>1, <2>2, SaveTypes DEF Save, Inv, TypeOK
  <2> QED BY <2>1, <2>2, <2>3 DEF LeaversToCome, has_left
<1>3. CASE AdminSave
  <2>1. PICK l \in exists, active \in BOOLEAN, n \in Entered \cup Numbers \cup {NoNumber} :
          /\ Save(l, n, active)
          /\ activated' = IF active /\ pc = "leave" THEN activated \cup {l} ELSE activated \ {l}
    BY <1>3 DEF AdminSave, Inv, TypeOK
  <2>2. UNCHANGED <<pc, active_members, leaving>>
    BY <1>3 DEF AdminSave, sync
  <2>3. \A k \in is_active' \ activated' :
          k \in is_active \ activated /\ fl_id'[k] = fl_id[k]
    BY <2>1, <2>2 DEF Save, Inv, TypeOK
  <2> QED BY <2>2, <2>3 DEF LeaversToCome, has_left
<1>4. CASE AdminDelete
  <2>1. PICK l \in exists : Delete(l) /\ activated' = activated \ {l}
    BY <1>4 DEF AdminDelete
  <2>2. UNCHANGED <<pc, active_members, leaving>>
    BY <1>4 DEF AdminDelete, sync
  <2>3. \A k \in is_active' \ activated' :
          k \in is_active \ activated /\ fl_id'[k] = fl_id[k]
    BY <2>1, DeleteTypes DEF Delete, Inv, TypeOK
  <2> QED BY <2>2, <2>3 DEF LeaversToCome, has_left
<1>5. CASE MemberChanges \/ UNCHANGED vars
  BY <1>5 DEF MemberChanges, LeaversToCome, has_left, vars, database, sync
<1>6. CASE Fetch \/ Get \/ Raise \/ DeleteOld \/ Create \/ SaveMember \/ Touch \/ Sleep \/ Crash
  <2>1. pc' # "leave"
    BY <1>6
    DEF Fetch, Get, Raise, DeleteOld, Create, SaveMember, Touch, Sleep, Crash, Over, error_ends
  <2> QED BY <2>1
<1> QED BY <1>1, <1>2, <1>3, <1>4, <1>5, <1>6 DEF Next, Synchronise

\* The safety that is in LeftLosesAccess, for any number of members: a row is read
\* once and saved later, and still none is missed.
THEOREM NoLeaverIsMissed == Spec => EndsWithoutLeavers
<1>1. Init => ActiveInList /\ LeaversToCome
  BY DEF Init, ActiveInList, LeaversToCome
<1>2. Inv /\ [Next]_vars /\ ActiveInList /\ LeaversToCome => (ActiveInList /\ LeaversToCome)'
  BY StepActiveInList, StepLeaversToCome
<1>3. ActiveInList /\ LeaversToCome /\ [Next]_vars =>
        [Touch => \A l \in is_active \ activated :
           fl_id[l] # NoNumber => members[fl_id[l]] # NotMember]_vars
  BY DEF ActiveInList, LeaversToCome, has_left, Touch
<1> QED BY <1>1, <1>2, <1>3, Invariance, PTL DEF Spec, EndsWithoutLeavers
=============================================================================
