----------------------------- MODULE MemberSync ------------------------------
(***************************************************************************)
(* The accounts of the backend and their synchronisation with ForeningLet  *)
(* every five minutes (update_fl() of synch/flapi.py, in the one thread of *)
(* the scheduler).  Every save is a transaction of its own, so that the    *)
(* administrator and crashes come between the steps of a synchronisation.  *)
(*                                                                         *)
(* A login is a number: fl_login of member n is n.  ForeningLet and the    *)
(* pages of Django's administration are external.                          *)
(***************************************************************************)
EXTENDS Integers

CONSTANTS
  Numbers,  \* of members in ForeningLet
  Chosen,   \* logins that members may choose (MemberField6)
  Entered   \* numbers the administrator may enter, a bound

NotMember == 0
Malformed == -1  \* a record with a field that is missing or not a number

ASSUME MemberAssumption ==
  /\ Numbers \subseteq Nat \ {0} /\ Chosen \subseteq Nat \ {0}
  /\ Numbers \cap Chosen = {} /\ Entered \subseteq Numbers \cup {0}

Logins == Numbers \cup Chosen
NoNumber == 0

VARIABLES
  list,           \* ForeningLet's: the login of each number
  exists, is_active, fl_id,          \* the table of members
  pc, members, todo, number, active_members, leaving, \* update_fl()
  activated       \* accounts whose last save in the second loop is one as active by
                  \* the administrator (history)

database == <<exists, is_active, fl_id>>
sync == <<pc, members, todo, number, active_members, leaving>>
vars == <<list, activated, database, sync>>

Nobody == [n \in Numbers |-> NotMember]

Init ==
  /\ list = Nobody
  /\ exists = {} /\ is_active = {} /\ fl_id = [l \in Logins |-> NoNumber]
  /\ pc = "idle" /\ members = Nobody /\ todo = {} /\ number = NoNumber
  /\ active_members = {} /\ leaving = {} /\ activated = {}

(***************************************************************************)
(* The table: Member.save() and Member.delete().                           *)
(***************************************************************************)
\* save() writes all fields, and inserts the row again if it was deleted.
Save(l, n, active) ==
  /\ exists' = exists \cup {l}
  /\ fl_id' = [fl_id EXCEPT ![l] = n]
  /\ is_active' = IF active THEN is_active \cup {l} ELSE is_active \ {l}

Delete(l) ==
  /\ exists' = exists \ {l} /\ is_active' = is_active \ {l}
  /\ fl_id' = [fl_id EXCEPT ![l] = NoNumber]

(***************************************************************************)
(* update_fl()                                                             *)
(***************************************************************************)
\* Mutated form: a list that lives longer than the call.
active_members_kept == active_members

active_members_at_start == {}

\* _get_fl_json(); when it fails the synchronisation is over at once.
Fetch ==
  /\ pc = "idle" /\ pc' = "next"
  /\ members' = list /\ todo' = {n \in Numbers : list[n] # NotMember}
  /\ active_members' = active_members_at_start
  /\ UNCHANGED <<number, leaving, list, activated, database>>

\* One of the members of the list, which comes in any order.
Get ==
  /\ pc = "next"
  /\ \E n \in todo :
       /\ members[n] # Malformed
       /\ number' = n /\ todo' = todo \ {n}
       /\ pc' = IF members[n] \in exists THEN "save"
                ELSE IF members[n] # n THEN "delete" ELSE "create"
  /\ UNCHANGED <<members, active_members, leaving, list, activated, database>>

\* Mutated form: a record that cannot be read is passed over.
error_ends_not == FALSE

\* The exception ends the synchronisation.
error_ends == TRUE

\* The locals of update_fl() are gone.
Over ==
  /\ pc' = "idle" /\ members' = Nobody /\ todo' = {} /\ number' = NoNumber
  /\ active_members' = active_members_at_start /\ leaving' = {} /\ activated' = {}

Raise ==
  /\ pc = "next"
  /\ \E n \in todo :
       /\ members[n] = Malformed
       /\ IF error_ends THEN Over
          ELSE /\ todo' = todo \ {n}
               /\ UNCHANGED <<pc, members, number, active_members, leaving, activated>>
  /\ UNCHANGED <<list, database>>

\* The account a member had before choosing a login, if there is one.
DeleteOld ==
  /\ pc = "delete" /\ pc' = "create"
  /\ IF number \in exists THEN Delete(number) ELSE UNCHANGED database
  /\ UNCHANGED <<members, todo, number, active_members, leaving, list, activated>>

Create ==
  /\ pc = "create" /\ pc' = "save"
  /\ Save(members[number], NoNumber, TRUE)
  /\ UNCHANGED <<members, todo, number, active_members, leaving, list, activated>>

\* Mutated form: the number of an account is not updated.
number_kept == IF fl_id[members[number]] = NoNumber THEN number ELSE fl_id[members[number]]

number_saved == number

SaveMember ==
  /\ pc = "save" /\ pc' = "next" /\ number' = NoNumber
  /\ Save(members[number], number_saved, TRUE)
  /\ active_members' = active_members \cup {number}
  /\ UNCHANGED <<members, todo, leaving, list, activated>>

has_left(l) == fl_id[l] # NoNumber /\ fl_id[l] \notin active_members

\* The query of the second loop: the rows as they are now, to be saved one by
\* one, those included that are not active any more.
EndOfList ==
  /\ pc = "next" /\ todo = {} /\ pc' = "leave"
  /\ leaving' = {<<l, fl_id[l]>> : l \in {k \in exists : has_left(k)}}
  /\ UNCHANGED <<members, todo, number, active_members, list, activated, database>>

Deactivate ==
  /\ pc = "leave" /\ UNCHANGED pc
  /\ \E u \in leaving :
       /\ Save(u[1], u[2], FALSE)
       /\ leaving' = leaving \ {u} /\ activated' = activated \ {u[1]}
  /\ UNCHANGED <<members, todo, number, active_members, list>>

\* The file the monitoring looks at is touched.
Touch ==
  /\ pc = "leave" /\ leaving = {} /\ pc' = "done" /\ activated' = {}
  /\ UNCHANGED <<members, todo, number, active_members, leaving, list, database>>

Sleep ==
  /\ pc = "done" /\ Over
  /\ UNCHANGED <<list, database>>

Synchronise ==
  \/ Get \/ Raise \/ DeleteOld \/ Create \/ SaveMember
  \/ EndOfList \/ Deactivate \/ Touch \/ Sleep

(***************************************************************************)
(* The world.                                                              *)
(***************************************************************************)
\* Somebody joins, leaves or chooses another login, or a record is spoilt.
MemberChanges ==
  /\ \E n \in Numbers : \E l \in {n, NotMember, Malformed} \cup Chosen :
       list' = [list EXCEPT ![n] = l]
  /\ UNCHANGED <<activated, database, sync>>

\* The administrator cannot add accounts (has_add_permission()), but the form has
\* both fields, and may show them as they were.
AdminSave ==
  /\ \E l \in exists, active \in BOOLEAN : \E n \in Entered \cup {fl_id[l]} :
       /\ Save(l, n, active)
       /\ activated' = IF active /\ pc = "leave" THEN activated \cup {l}
                       ELSE activated \ {l}
  /\ UNCHANGED <<list, sync>>

AdminDelete ==
  /\ \E l \in exists : Delete(l) /\ activated' = activated \ {l}
  /\ UNCHANGED <<list, sync>>

\* The server stops, or loses its database, and starts again.
Crash ==
  /\ Over
  /\ UNCHANGED <<list, database>>

Next ==
  \/ Fetch \/ Synchronise
  \/ MemberChanges \/ AdminSave \/ AdminDelete \/ Crash

Fairness == WF_vars(Fetch) /\ WF_vars(Synchronise)

Spec == Init /\ [][Next]_vars
FairSpec == Spec /\ Fairness
-----------------------------------------------------------------------------
Entries == Logins \cup {NotMember, Malformed}

TypeOK ==
  /\ list \in [Numbers -> Entries] /\ members \in [Numbers -> Entries]
  /\ exists \subseteq Logins /\ is_active \subseteq exists
  /\ fl_id \in [Logins -> Numbers \cup {NoNumber}]
  /\ pc \in {"idle", "next", "delete", "create", "save", "leave", "done"}
  /\ todo \subseteq Numbers /\ number \in Numbers \cup {NoNumber}
  /\ active_members \subseteq Numbers
  /\ leaving \subseteq Logins \X Numbers /\ activated \subseteq Logins

\* A synchronisation never locks out a member who is in the list it works on,
\* a spoilt record or another member's change of login notwithstanding: what it
\* deactivates it saves with the number of someone who is not in the list.
DeactivatesOnlyLeft ==
  [][\A l \in is_active \ is_active' :
       sync' # sync /\ l \in exists' =>
         fl_id'[l] # NoNumber /\ members[fl_id'[l]] = NotMember]_vars

\* A synchronisation that comes to its end leaves no account active with the number
\* of somebody who is not in its list, unless the administrator has activated it meanwhile: not a
\* row that was changed, deleted or inserted again since it was read, nor one
\* that a synchronisation broken off left behind.
EndsWithoutLeavers ==
  [][Touch => \A l \in is_active \ activated :
                fl_id[l] # NoNumber => members[fl_id[l]] # NotMember]_vars

\* Who has left loses access: as long as synchronisations are completed, every
\* account with that number is deactivated, unless the administrator activates
\* it, and with the login passed on to another member it is no longer hers.
LeftLosesAccess ==
  \A n \in Numbers :
    /\ <>[](list[n] = NotMember) /\ []<>(pc = "done")
    /\ <>[][sync' # sync \/ exists' # exists]_database
    => <>[](\A l \in is_active : fl_id[l] # n)

\* Who is in the list gets in: with her login her own, and if synchronisations
\* are not broken off and the administrator leaves the accounts alone, a member
\* comes to have an active account.
MembersGetIn ==
  \A n \in Numbers, l \in Logins :
    /\ <>[](list[n] = l /\ \A k \in Numbers \ {n} : list[k] \notin {l, n})
    /\ <>[][sync' # sync]_database /\ <>[][pc' = "idle" => pc = "done"]_pc
    => <>[](l \in is_active /\ fl_id[l] = n)
=============================================================================
