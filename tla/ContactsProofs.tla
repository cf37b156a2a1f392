--------------------------- MODULE ContactsProofs ---------------------------
(***************************************************************************)
(* Proofs about Contacts, for any people, personas, codes and requests.    *)
(***************************************************************************)
EXTENDS Contacts, DataLemmas, FiniteSetTheorems

BusyStages == {"create", "commit", "undo", "prompt"}
Jobs == [stage : {"lookup", "select", "claim", "look"} \cup BusyStages, at : Regs]

\* All variables but the order of the inspections and the faults.
ContactsTypeOK ==
  /\ reg \in [Regs -> Registrations \cup {None}]
  /\ contact \in [Regs -> ContactRows \cup {None}]
  /\ notice \in [Regs -> Regs \cup {None}]
  /\ assignment \in [Handles -> Personas \cup {None}]
  /\ excluded \in [Handles -> SUBSET Personas]
  /\ live \in [Handles -> Regs \cup {None}]
  /\ rows \in [Handles -> SUBSET Regs]
  /\ blocked \in SUBSET Handles
  /\ removal \in [Handles -> SUBSET Regs]
  /\ used \in [Codes -> Nat]
  /\ redeemed \in [Handles -> Codes \cup {None}]
  /\ exists \in SUBSET Regs
  /\ greeting \in [Regs -> {"unasked", "asked", "open", "over", "sent", "failed"}]
  /\ calls \in [Regs -> Nat]
  /\ job = Idle \/ job \in Jobs
  /\ removing \in [Handles -> (SUBSET Regs) \cup {None}]
  /\ joins \in 0 .. MaxJoins

\* Numbers of registrations are not used again, and a contact has its registration.
RegInv ==
  \A r \in Regs :
    /\ reg[r] # None => r <= joins
    /\ contact[r] # None => reg[r] # None

\* What a notification is about is there.
NoticeInv == \A n \in Regs : notice[n] # None => reg[notice[n]] # None

\* While the run holds the lock of a handle its contact is not removed.
JobInv ==
  job.stage \in BusyStages =>
    /\ contact[job.at] # None /\ contact[job.at].planned
    /\ job.stage \in {"create", "commit"} => contact[job.at].state = "preparing"

\* A conversation is the one of a contact of its handle.
RowsInv ==
  \A h \in Handles :
    /\ live[h] # None => live[h] \in rows[h]
    /\ \A s \in rows[h] : contact[s] # None /\ Handle(s) = h

\* What is to be removed has no registration any more and never will, and what an
\* operator's request has done with is gone.
RemovalInv ==
  \A h \in Handles :
    /\ \A s \in removal[h] : s <= joins /\ reg[s] = None
    /\ removing[h] # None =>
         /\ removing[h] \subseteq removal[h]
         /\ \A s \in removal[h] \ removing[h] : s \notin exists

\* A session is asked for after its contact was claimed.
CallsInv ==
  \A r \in Regs :
    /\ calls[r] <= 1
    /\ contact[r] = None \/ contact[r].state = "scheduled" \/ (job.stage = "create" /\ job.at = r)
         => calls[r] = 0

\* A contact without a conversation, which holds a seat; a handle has one of them.
Reserved(r) == contact[r] # None /\ contact[r].state \in {"scheduled", "preparing"}
UniqueInv == \A r, q \in Regs : Reserved(r) /\ Reserved(q) /\ Handle(r) = Handle(q) => r = q

ContactsInv ==
  /\ ContactsTypeOK
  /\ RegInv
  /\ NoticeInv
  /\ JobInv
  /\ RowsInv
  /\ RemovalInv
  /\ CallsInv
  /\ UniqueInv
  /\ Accounted
  /\ Assigned

-----------------------------------------------------------------------------
(* What most steps have in common. *)

\* Registrations may be added and keep their handles; contacts keep their personas
\* and plans, and never become scheduled or hold a seat again.
RegsGrow ==
  /\ joins' \in {joins, joins + 1}
  /\ \A r \in Regs :
       /\ reg[r] # None => reg'[r] # None /\ reg'[r].handle = reg[r].handle
       /\ reg[r] = None /\ reg'[r] # None => joins < r /\ r <= joins'

ContactsAdvance ==
  \A r \in Regs :
    /\ contact[r] = None <=> contact'[r] = None
    /\ contact[r] # None =>
         /\ contact'[r].persona = contact[r].persona
         /\ contact[r].planned => contact'[r].planned
         /\ contact'[r].state \in {"scheduled", "preparing"} => contact[r].state \in {"scheduled", "preparing"}
         /\ contact'[r].state = "scheduled" => contact[r].state = "scheduled"

LEMMA SameRegs == ASSUME UNCHANGED <<reg, joins>> PROVE RegsGrow
  BY DEF RegsGrow

LEMMA SameContacts == ASSUME UNCHANGED contact PROVE ContactsAdvance
  BY DEF ContactsAdvance

LEMMA Kept ==
  ASSUME ContactsInv, RegsGrow, ContactsAdvance
  PROVE  /\ RegInv'
         /\ UNCHANGED notice => NoticeInv'
         /\ UNCHANGED <<contact, job>> => JobInv'
         /\ UNCHANGED <<live, rows>> => RowsInv'
         /\ UNCHANGED <<removal, removing, exists>> => RemovalInv'
         /\ UNCHANGED calls /\ (job' = job \/ job'.stage # "create") => CallsInv'
         /\ UniqueInv'
         /\ UNCHANGED <<exists, rows, removal>> => Accounted'
         /\ UNCHANGED <<assignment, excluded, live>> => Assigned'
<1> USE DEF ContactsInv
<1>0. /\ joins \in Nat /\ joins' \in Nat /\ joins <= joins'
      /\ \A r \in Regs : r \in Nat
  BY DEF ContactsTypeOK, RegsGrow, Regs
<1>1. RegInv'
  BY <1>0 DEF RegInv, RegsGrow, ContactsAdvance
<1>2. ASSUME UNCHANGED notice PROVE NoticeInv'
  BY <1>2 DEF NoticeInv, RegsGrow, ContactsTypeOK
<1>3. ASSUME UNCHANGED <<contact, job>> PROVE JobInv'
  BY <1>3 DEF JobInv
<1>4. ASSUME UNCHANGED <<live, rows>> PROVE RowsInv'
  BY <1>4 DEF RowsInv, RegInv, RegsGrow, ContactsAdvance, ContactsTypeOK, Handle
<1>5. ASSUME UNCHANGED <<removal, removing, exists>> PROVE RemovalInv'
  BY <1>0, <1>5 DEF RemovalInv, RegsGrow, ContactsTypeOK
<1>6. ASSUME UNCHANGED calls, job' = job \/ job'.stage # "create" PROVE CallsInv'
  BY <1>6 DEF CallsInv, ContactsAdvance
<1>7. UniqueInv'
  BY DEF UniqueInv, Reserved, RegInv, RegsGrow, ContactsAdvance, Handle
<1>8. ASSUME UNCHANGED <<exists, rows, removal>> PROVE Accounted'
  BY <1>8 DEF Accounted, ContactsAdvance, ContactsTypeOK
<1>9. ASSUME UNCHANGED <<assignment, excluded, live>> PROVE Assigned'
  <2>1. \A h \in Handles : live[h] # None => live[h] \in Regs /\ contact[live[h]] # None
    BY DEF RowsInv, ContactsTypeOK
  <2>2. \A h \in Handles : live[h] # None => assignment'[h] = contact'[live'[h]].persona
    BY <1>9, <2>1 DEF Assigned, ContactsAdvance
  <2>3. \A r \in Regs :
          contact'[r] # None /\ contact'[r].state \in {"scheduled", "preparing"} =>
            live'[Handle(r)'] = None /\ assignment'[Handle(r)'] = contact'[r].persona
    BY <1>9 DEF Assigned, ContactsAdvance, RegInv, RegsGrow, Handle
  <2> QED BY <1>9, <2>2, <2>3 DEF Assigned
<1> QED BY <1>1, <1>2, <1>3, <1>4, <1>5, <1>6, <1>7, <1>8, <1>9

LEMMA InitInv == ContactsInit => ContactsInv
<1> SUFFICES ASSUME ContactsInit PROVE ContactsInv
  OBVIOUS
<1> USE DEF ContactsInit
<1>1. ContactsTypeOK
  BY ContactsAssumption DEF ContactsTypeOK
<1>2. RegInv /\ NoticeInv /\ JobInv /\ RowsInv /\ RemovalInv /\ CallsInv /\ UniqueInv /\ Accounted
  BY DEF RegInv, NoticeInv, JobInv, RowsInv, RemovalInv, CallsInv, UniqueInv, Reserved, Accounted,
         Idle, BusyStages
<1>3. Assigned
  <2>1. ASSUME NEW p \in Personas PROVE Cardinality({h \in Handles : assignment[h] = p}) <= Capacity
    <3>1. {h \in Handles : assignment[h] = p} = {}
      BY ContactsAssumption
    <3>2. Cardinality({}) = 0
      BY FS_EmptySet, Zenon
    <3>3. 0 <= Capacity
      BY ContactsAssumption
    <3> QED BY <3>1, <3>2, <3>3
  <2> QED BY <2>1 DEF Assigned
<1> QED BY <1>1, <1>2, <1>3 DEF ContactsInv

LEMMA JobTyped ==
  ASSUME NEW stage \in {"lookup", "select", "claim", "look"} \cup BusyStages, NEW r \in Regs, At(stage, r)
  PROVE  job' \in Jobs /\ job'.stage = stage /\ job'.at = r
  BY DEF At, Jobs

LEMMA IdleJob == Idle.stage = "idle" /\ Idle.stage \notin BusyStages
  BY DEF Idle, BusyStages

LEMMA JobRuns ==
  ASSUME ContactsTypeOK, job.stage # "idle"
  PROVE  job \in Jobs /\ job.at \in Regs
  BY DEF ContactsTypeOK, Jobs, Idle

\* A contact takes a state that does not need a seat, unless it has one.
LEMMA Becoming ==
  ASSUME ContactsTypeOK, NEW r \in Regs, contact[r] # None, NEW next \in States,
         next \in {"scheduled", "preparing"} => contact[r].state = next,
         contact' = [contact EXCEPT ![r].state = next]
  PROVE  /\ contact' \in [Regs -> ContactRows \cup {None}] /\ ContactsAdvance
         /\ contact'[r] # None /\ contact'[r].state = next /\ contact'[r].planned = contact[r].planned
         /\ \A q \in Regs \ {r} : contact'[q] = contact[q]
<1> DEFINE row == [contact[r] EXCEPT !.state = next]
<1>1. contact[r] \in ContactRows
  BY DEF ContactsTypeOK
<1>2. /\ row \in ContactRows /\ row.state = next /\ row.persona = contact[r].persona
      /\ row.planned = contact[r].planned
  BY <1>1 DEF ContactRows
<1>3. contact' = [contact EXCEPT ![r] = row]
  OBVIOUS
<1>4. row # None
  BY <1>2, NoneAssumption
<1> HIDE DEF row
<1> QED BY <1>2, <1>3, <1>4 DEF ContactsTypeOK, ContactsAdvance

-----------------------------------------------------------------------------
(* Registration. *)

\* The request stores its notification about a registration that is there.
LEMMA JoinedNotice ==
  ASSUME ContactsInv, RegsGrow, joins < MaxJoins, NEW h, NEW r \in Regs, reg'[r] # None, Joined(h, r)
  PROVE  /\ notice' \in [Regs -> Regs \cup {None}] /\ NoticeInv'
         /\ joins' = joins + 1 /\ joins' \in 0 .. MaxJoins
<1>1. joins + 1 \in Regs /\ joins + 1 \in 0 .. MaxJoins
  BY ContactsAssumption DEF ContactsInv, ContactsTypeOK, Regs
<1>2. notice' \in [Regs -> Regs \cup {None}]
  BY <1>1 DEF Joined, ContactsInv, ContactsTypeOK
<1>3. NoticeInv'
  BY <1>1, <1>2 DEF Joined, ContactsInv, ContactsTypeOK, NoticeInv, RegsGrow
<1> QED BY <1>1, <1>2, <1>3 DEF Joined

LEMMA NewRegistration ==
  ASSUME NEW h \in Handles, NEW c \in Codes \cup {None}
  PROVE  /\ Registration(h, c) \in Registrations /\ Registration(h, c) # None
         /\ Registration(h, c).handle = h
<1>1. Registration(h, c) \in Registrations /\ Registration(h, c).handle = h
  BY DEF Registration, Registrations, Looks
<1> QED BY <1>1, NoneAssumption

\* The number of a new registration.
LEMMA NextNumber ==
  ASSUME ContactsInv, joins < MaxJoins
  PROVE  joins + 1 \in Regs /\ reg[joins + 1] = None /\ joins \in Nat
<1>1. joins + 1 \in Regs /\ joins \in Nat /\ ~(joins + 1 <= joins)
  BY ContactsAssumption DEF ContactsInv, ContactsTypeOK, Regs
<1> QED BY <1>1 DEF ContactsInv, RegInv

LEMMA SubmitGrows ==
  ASSUME ContactsInv, joins < MaxJoins, NEW h \in Handles, NEW c \in Codes \cup {None}, Submit(h, c)
  PROVE  /\ reg' \in [Regs -> Registrations \cup {None}] /\ RegsGrow
         /\ \E r \in Regs : reg'[r] # None /\ Joined(h, r)
<1>1. CASE CurrentOf(h) = {}
  <2> DEFINE row == Registration(h, c)
  <2>1. reg' = [reg EXCEPT ![joins + 1] = row] /\ Joined(h, joins + 1)
    BY <1>1 DEF Submit
  <2>2. row \in Registrations /\ row # None
    BY NewRegistration
  <2> HIDE DEF row
  <2>3. reg' \in [Regs -> Registrations \cup {None}] /\ reg'[joins + 1] # None
    BY <2>1, <2>2, NextNumber DEF ContactsInv, ContactsTypeOK
  <2>4. RegsGrow
    BY <2>1, <2>2, NextNumber DEF RegsGrow, Joined, ContactsInv, ContactsTypeOK
  <2> QED BY <2>1, <2>3, <2>4, NextNumber
<1>2. CASE CurrentOf(h) # {}
  <2>1. PICK r \in CurrentOf(h) :
          /\ \/ reg' = reg
             \/ reg' = [reg EXCEPT ![r].code = c,
                          ![r].look = IF c # None /\ reg[r].look \in {"failed", "unavailable"}
                                      THEN "unknown" ELSE reg[r].look]
          /\ Joined(h, r)
    BY <1>2 DEF Submit
  <2>2. r \in Regs /\ reg[r] # None /\ reg[r] \in Registrations
    BY DEF CurrentOf, ContactsInv, ContactsTypeOK
  <2>3. CASE reg' = reg
    BY <2>1, <2>2, <2>3 DEF RegsGrow, Joined, ContactsInv, ContactsTypeOK
  <2>4. CASE reg' # reg
    <3> DEFINE look == IF c # None /\ reg[r].look \in {"failed", "unavailable"}
                       THEN "unknown" ELSE reg[r].look
               row  == [reg[r] EXCEPT !.code = c, !.look = look]
    <3>1. look \in Looks
      BY <2>2 DEF Registrations, Looks
    <3>2. reg' = [reg EXCEPT ![r] = row]
      BY <2>1, <2>2, <2>4 DEF ContactsInv, ContactsTypeOK
    <3> HIDE DEF look
    <3>3. row \in Registrations /\ row.handle = reg[r].handle
      BY <2>2, <3>1 DEF Registrations
    <3>4. row # None
      BY <3>3, NoneAssumption
    <3> HIDE DEF row
    <3>5. reg' \in [Regs -> Registrations \cup {None}] /\ reg'[r] # None
      BY <2>2, <3>2, <3>3, <3>4 DEF ContactsInv, ContactsTypeOK
    <3>6. RegsGrow
      BY <2>1, <2>2, <3>2, <3>3, <3>4 DEF RegsGrow, Joined, ContactsInv, ContactsTypeOK
    <3> QED BY <2>1, <2>2, <3>5, <3>6
  <2> QED BY <2>3, <2>4
<1> QED BY <1>1, <1>2

LEMMA ReselectGrows ==
  ASSUME ContactsInv, joins < MaxJoins, NEW h \in Handles, Reselect(h)
  PROVE  /\ reg' \in [Regs -> Registrations \cup {None}] /\ RegsGrow
         /\ \E r \in Regs : reg'[r] # None /\ Joined(h, r)
<1>1. CASE CurrentOf(h) \subseteq rows[h]
  <2> DEFINE new == Registration(h, None)
             old(r) == [reg[r] EXCEPT !.archived = TRUE]
  <2>1. new \in Registrations /\ new # None
    BY NewRegistration
  <2>2. ASSUME NEW r \in CurrentOf(h)
        PROVE  old(r) \in Registrations /\ old(r) # None /\ old(r).handle = reg[r].handle
    <3>1. reg[r] \in Registrations
      BY DEF CurrentOf, ContactsInv, ContactsTypeOK
    <3>2. old(r) \in Registrations /\ old(r).handle = reg[r].handle
      BY <3>1 DEF Registrations
    <3> QED BY <3>2, NoneAssumption
  <2>3. /\ reg' = [r \in Regs |-> IF r = joins + 1 THEN new
                                  ELSE IF r \in CurrentOf(h) THEN old(r) ELSE reg[r]]
        /\ Joined(h, joins + 1)
    BY <1>1 DEF Reselect
  <2> HIDE DEF new, old
  <2>4. reg' \in [Regs -> Registrations \cup {None}] /\ reg'[joins + 1] # None
    BY <2>1, <2>2, <2>3, NextNumber DEF ContactsInv, ContactsTypeOK
  <2>5. RegsGrow
    <3>1. joins' = joins + 1
      BY <2>3 DEF Joined
    <3>2. \A r \in Regs : reg[r] # None => reg'[r] # None /\ reg'[r].handle = reg[r].handle
      BY <2>2, <2>3, NextNumber
    <3>3. \A r \in Regs : reg[r] = None /\ reg'[r] # None => r = joins + 1
      BY <2>3 DEF CurrentOf
    <3> QED BY <3>1, <3>2, <3>3, NextNumber DEF RegsGrow
  <2> QED BY <2>3, <2>4, <2>5, NextNumber
<1>2. CASE ~(CurrentOf(h) \subseteq rows[h])
  <2>1. reg' = reg /\ \E r \in CurrentOf(h) : Joined(h, r)
    BY <1>2 DEF Reselect
  <2>2. PICK r \in CurrentOf(h) : Joined(h, r)
    BY <2>1
  <2> QED BY <2>1, <2>2 DEF CurrentOf, RegsGrow, Joined, ContactsInv, ContactsTypeOK
<1> QED BY <1>1, <1>2

LEMMA JoinKeeps ==
  ASSUME ContactsInv, NEW h \in Handles, NEW c \in Codes \cup {None}, Join(h, c)
  PROVE  ContactsInv'
<1> USE DEF seats, talks, remote
<1>1. /\ UNCHANGED <<contact, used, redeemed, seats, talks, blocked, removal, remote, job, removing>>
      /\ joins < MaxJoins
  BY DEF Join
<1>2. /\ reg' \in [Regs -> Registrations \cup {None}] /\ RegsGrow
      /\ \E r \in Regs : reg'[r] # None /\ Joined(h, r)
  <2>1. CASE reg' = reg /\ \E r \in CurrentOf(h) : Joined(h, r)
    <3>1. PICK r \in CurrentOf(h) : Joined(h, r)
      BY <2>1
    <3> QED BY <2>1, <3>1 DEF CurrentOf, RegsGrow, Joined, ContactsInv, ContactsTypeOK
  <2>2. CASE Reselect(h)
    BY <1>1, <2>2, ReselectGrows
  <2>3. CASE Submit(h, c)
    BY <1>1, <2>3, SubmitGrows
  <2> QED BY <2>1, <2>2, <2>3 DEF Join
<1>3. /\ notice' \in [Regs -> Regs \cup {None}] /\ NoticeInv' /\ joins' \in 0 .. MaxJoins
  BY <1>1, <1>2, JoinedNotice
<1>4. ContactsAdvance
  BY <1>1, SameContacts
<1>5. ContactsTypeOK'
  BY <1>1, <1>2, <1>3 DEF ContactsInv, ContactsTypeOK
<1> QED BY <1>1, <1>2, <1>3, <1>4, <1>5, Kept DEF ContactsInv

-----------------------------------------------------------------------------
(* Selection and notifications. *)

\* Fewer people take fewer seats.
LEMMA FewerSeats ==
  ASSUME Assigned, NEW p \in Personas, NEW S \in SUBSET {h \in Handles : assignment[h] = p}
  PROVE  Cardinality(S) <= Capacity
<1> DEFINE T == {h \in Handles : assignment[h] = p}
<1>1. IsFiniteSet(T) /\ T \subseteq Handles
  BY FS_Subset, ContactsAssumption
<1>2. IsFiniteSet(S) /\ Cardinality(S) <= Cardinality(T)
  BY <1>1, FS_Subset
<1>3. Cardinality(S) \in Nat /\ Cardinality(T) \in Nat
  BY <1>1, <1>2, FS_CardinalityType
<1>4. Cardinality(T) <= Capacity
  BY DEF Assigned
<1> QED BY <1>2, <1>3, <1>4, ContactsAssumption

\* A claim takes a seat that is free.
LEMMA ClaimedSeats ==
  ASSUME ContactsInv, NEW h \in Handles, NEW p \in Personas, Claimable(p, h),
         assignment' = [assignment EXCEPT ![h] = p]
  PROVE  \A q \in Personas : Cardinality({g \in Handles : assignment'[g] = q}) <= Capacity
<1> SUFFICES ASSUME NEW q \in Personas
             PROVE  Cardinality({g \in Handles : assignment'[g] = q}) <= Capacity
  OBVIOUS
<1>0. assignment \in [Handles -> Personas \cup {None}] /\ Assigned
  BY DEF ContactsInv, ContactsTypeOK
<1>1. CASE q = p
  <2> DEFINE O == Occupants(p, h)
  <2>1. {g \in Handles : assignment'[g] = q} = O \cup {h} /\ h \notin O /\ O \subseteq Handles
    BY <1>0, <1>1 DEF Occupants
  <2>2. IsFiniteSet(O)
    BY <2>1, FS_Subset, ContactsAssumption
  <2>3. Cardinality(O \cup {h}) = Cardinality(O) + 1 /\ Cardinality(O) \in Nat
    BY <2>1, <2>2, FS_AddElement, FS_CardinalityType
  <2>4. Cardinality(O) < Capacity
    BY DEF Claimable
  <2> HIDE DEF O
  <2> QED BY <2>1, <2>3, <2>4, ContactsAssumption
<1>2. CASE q # p
  <2>1. {g \in Handles : assignment'[g] = q} \subseteq {g \in Handles : assignment[g] = q}
    BY <1>0, <1>2
  <2> QED BY <1>0, <2>1, FewerSeats
<1> QED BY <1>1, <1>2

LEMMA ReserveKeeps ==
  ASSUME ContactsInv, NEW r \in Regs, reg[r] # None, Eligible(r), NEW p \in Wanted(Handle(r)),
         NEW due \in BOOLEAN, Reserve(r, p, due),
         UNCHANGED <<reg, notice, talks, blocked, removal, remote, removing, joins>>,
         job' = job \/ (job' \in Jobs /\ job'.stage \notin BusyStages)
  PROVE  ContactsInv'
<1> DEFINE h   == Handle(r)
           row == [state |-> "scheduled", persona |-> p, due |-> due, planned |-> FALSE]
<1> USE DEF ContactsInv, talks, remote
<1>1. /\ h \in Handles /\ reg[r] \in Registrations
      /\ live[h] = None /\ contact[r] = None /\ assignment[h] = None
  BY DEF Eligible, ContactsTypeOK, Registrations, Handle
<1>2. p \in Personas /\ Claimable(p, h) /\ p \notin excluded[h]
  BY <1>1, ContactsAssumption DEF Wanted, Reserve, Claimable
<1>3. row \in ContactRows /\ row # None /\ row.state = "scheduled" /\ row.persona = p
  <2>1. row \in ContactRows /\ row.state = "scheduled" /\ row.persona = p
    BY <1>2 DEF ContactRows, States, Inspected
  <2> HIDE DEF row
  <2> QED BY <2>1, NoneAssumption
<1>4. contact' = [contact EXCEPT ![r] = row] /\ assignment' = [assignment EXCEPT ![h] = p]
      /\ UNCHANGED excluded
  BY DEF Reserve
<1>5. used' \in [Codes -> Nat] /\ redeemed' \in [Handles -> Codes \cup {None}]
  <2>1. reg[r].code \in Codes \cup {None}
    BY <1>1 DEF Registrations
  <2> QED BY <1>1, <2>1 DEF Reserve, Consume, ContactsTypeOK
<1> HIDE DEF row
<1>6. Handle(r) = h /\ \A q \in Regs : Handle(q)' = Handle(q)
  BY DEF Handle
<1> HIDE DEF h
<1>7. ContactsTypeOK'
  BY <1>1, <1>2, <1>3, <1>4, <1>5 DEF ContactsTypeOK
<1>8. /\ contact \in [Regs -> ContactRows \cup {None}]
      /\ contact'[r] = row /\ \A q \in Regs \ {r} : contact'[q] = contact[q]
  BY <1>3, <1>4 DEF ContactsTypeOK
<1>9. RegInv' /\ NoticeInv'
  BY <1>8 DEF RegInv, NoticeInv
<1>10. JobInv'
  BY <1>1, <1>8, JobRuns, IdleJob DEF JobInv, BusyStages
<1>11. RowsInv' /\ RemovalInv'
  BY <1>1, <1>3, <1>8, <1>6 DEF RowsInv, RemovalInv, ContactsTypeOK
<1>12. CallsInv'
  BY <1>1, <1>8 DEF CallsInv, BusyStages
<1>13. \A q \in Regs \ {r} : Reserved(q) => Handle(q) # h
  BY <1>1, <1>2, ContactsAssumption DEF Reserved, Assigned, ContactsTypeOK, ContactRows
<1>14. UniqueInv'
  BY <1>6, <1>8, <1>13 DEF UniqueInv, Reserved
<1>15. Accounted'
  BY <1>1, <1>8 DEF Accounted, ContactsTypeOK
<1>16. Assigned'
  <2>1. \A q \in Personas : Cardinality({g \in Handles : assignment'[g] = q}) <= Capacity
    BY <1>1, <1>2, <1>4, ClaimedSeats
  <2>2. ASSUME NEW g \in Handles
        PROVE  /\ assignment'[g] \notin excluded'[g]
               /\ live'[g] # None => assignment'[g] = contact'[live'[g]].persona
    <3>1. CASE g = h
      BY <1>1, <1>2, <1>4, <3>1 DEF ContactsTypeOK
    <3>2. CASE g # h
      <4>1. live[g] # None => live[g] # r /\ live[g] \in Regs
        BY <1>1 DEF RowsInv, ContactsTypeOK
      <4> QED BY <1>4, <1>8, <3>2, <4>1 DEF Assigned, ContactsTypeOK
    <3> QED BY <3>1, <3>2
  <2>3. ASSUME NEW q \in Regs, contact'[q] # None, contact'[q].state \in {"scheduled", "preparing"}
        PROVE  live'[Handle(q)'] = None /\ assignment'[Handle(q)'] = contact'[q].persona
    <3>1. CASE q = r
      BY <1>1, <1>3, <1>4, <1>6, <1>8, <3>1 DEF ContactsTypeOK
    <3>2. CASE q # r
      <4>1. Reserved(q) /\ Handle(q) # h
        BY <1>8, <1>13, <2>3, <3>2 DEF Reserved
      <4> QED BY <1>4, <1>6, <1>8, <2>3, <3>2, <4>1 DEF Assigned, Reserved, ContactsTypeOK
    <3> QED BY <3>1, <3>2
  <2> QED BY <2>1, <2>2, <2>3 DEF Assigned
<1> QED BY <1>7, <1>9, <1>10, <1>11, <1>12, <1>14, <1>15, <1>16

LEMMA SelectKeeps == ASSUME ContactsInv, Select PROVE ContactsInv'
<1>1. PICK r \in Regs, due \in BOOLEAN :
        /\ reg[r] # None /\ ~reg[r].archived /\ Eligible(r)
        /\ \E p \in Wanted(Handle(r)) : Reserve(r, p, due)
  BY DEF Select
<1>2. PICK p \in Wanted(Handle(r)) : Reserve(r, p, due)
  BY <1>1
<1>3. UNCHANGED <<reg, notice, talks, blocked, removal, remote, job, removing, joins>>
  BY DEF Select
<1> QED BY <1>1, <1>2, <1>3, ReserveKeeps

\* A step of the run that looks, and leaves the tables alone.
LEMMA JobOnly ==
  ASSUME ContactsInv, UNCHANGED <<people, contact, seats, talks, blocked, removal, remote, removing, joins>>,
         job' = Idle \/ (job' \in Jobs /\ job'.stage \notin BusyStages) \/ job' = job
  PROVE  ContactsInv'
<1> USE DEF people, seats, talks, remote
<1>1. RegsGrow /\ ContactsAdvance
  BY SameRegs, SameContacts
<1>2. job' = job \/ job'.stage \notin BusyStages
  BY IdleJob
<1>3. JobInv'
  BY <1>1, <1>2, Kept DEF JobInv
<1>4. ContactsTypeOK'
  BY DEF ContactsInv, ContactsTypeOK
<1> QED BY <1>1, <1>2, <1>3, <1>4, Kept DEF ContactsInv, BusyStages

LEMMA SelectInvitationKeeps == ASSUME ContactsInv, SelectInvitation PROVE ContactsInv'
<1> USE DEF seats, people
<1>1. /\ job.at \in Regs
      /\ UNCHANGED <<reg, notice, talks, blocked, removal, remote, removing, joins>>
  BY JobRuns DEF SelectInvitation, ContactsInv
<1>2. CASE \E p \in Personas :
             /\ About # None /\ Eligible(About) /\ p \in Wanted(Handle(About))
             /\ Reserve(About, p, FALSE) /\ At("claim", job.at)
  <2>1. PICK p \in Wanted(Handle(About)) : Reserve(About, p, FALSE)
    BY <1>2
  <2>2. About \in Regs /\ reg[About] # None /\ Eligible(About)
    BY <1>1, <1>2 DEF About, ContactsInv, ContactsTypeOK, NoticeInv
  <2>3. job' \in Jobs /\ job'.stage \notin BusyStages
    BY <1>1, <1>2, JobTyped DEF BusyStages
  <2> QED BY <1>1, <2>1, <2>2, <2>3, ReserveKeeps
<1>3. CASE /\ job' = Idle \/ At("claim", job.at)
           /\ UNCHANGED <<contact, turn, used, redeemed, seats>>
  <2>1. job' = Idle \/ (job' \in Jobs /\ job'.stage \notin BusyStages)
    BY <1>1, <1>3, JobTyped DEF BusyStages
  <2> QED BY <1>1, <1>3, <2>1, JobOnly
<1> QED BY <1>2, <1>3 DEF SelectInvitation

LEMMA NotifyKeeps == ASSUME ContactsInv, Notify PROVE ContactsInv'
<1>1. Queued \in SUBSET Nat /\ Queued # {} /\ Queued \subseteq Regs
  BY DEF Notify, Queued, Regs
<1>2. Min(Queued) \in Regs
  BY <1>1, MinOfNats
<1>3. job' \in Jobs /\ job'.stage \notin BusyStages
  BY <1>2, JobTyped DEF Notify, BusyStages
<1> QED BY <1>3, JobOnly DEF Notify

LEMMA LookKeeps == ASSUME ContactsInv, NEW r \in Regs, Look(r) PROVE ContactsInv'
<1>1. job' \in Jobs /\ job'.stage \notin BusyStages
  BY JobTyped DEF Look, BusyStages
<1> QED BY <1>1, JobOnly DEF Look

\* A notification is taken off the queue, or its recipient was looked up.
LEMMA LookedUp ==
  ASSUME ContactsTypeOK, NEW r \in Regs, reg[r] # None, NEW look \in Answers,
         reg' = [reg EXCEPT ![r].look = look], UNCHANGED joins
  PROVE  reg' \in [Regs -> Registrations \cup {None}] /\ RegsGrow
<1> DEFINE row == [reg[r] EXCEPT !.look = look]
<1>1. row \in Registrations /\ row.handle = reg[r].handle
  BY ContactsAssumption DEF ContactsTypeOK, Registrations, Looks
<1>2. reg' = [reg EXCEPT ![r] = row] /\ row # None
  BY <1>1, NoneAssumption
<1> HIDE DEF row
<1> QED BY SMTT(20), <1>1, <1>2 DEF ContactsTypeOK, RegsGrow

LEMMA RecheckKeeps ==
  ASSUME ContactsInv, NEW r \in Regs, NEW look \in Answers, Recheck(r, look)
  PROVE  ContactsInv'
<1> USE DEF seats, talks, remote
<1>1. reg' \in [Regs -> Registrations \cup {None}] /\ RegsGrow
  BY LookedUp DEF Recheck, ContactsInv
<1>2. ContactsAdvance
  BY SameContacts DEF Recheck
<1>3. ContactsTypeOK'
  BY <1>1 DEF Recheck, ContactsInv, ContactsTypeOK
<1> QED BY <1>1, <1>2, <1>3, Kept DEF Recheck, ContactsInv

LEMMA QueueKeeps ==
  ASSUME ContactsInv, (\E look \in Answers : Lookup(look)) \/ Claim
  PROVE  ContactsInv'
<1> USE DEF seats, talks, remote
<1>1. /\ job.at \in Regs
      /\ UNCHANGED <<contact, used, redeemed, seats, talks, blocked, removal, remote, removing, joins>>
  BY JobRuns DEF Lookup, Claim, ContactsInv
<1>2. /\ job' = Idle \/ (job' \in Jobs /\ job'.stage \notin BusyStages)
      /\ notice' \in {notice, [notice EXCEPT ![job.at] = None]}
      /\ reg' \in [Regs -> Registrations \cup {None}] /\ RegsGrow
  <2>1. CASE Claim
    BY <1>1, <2>1, SameRegs DEF Claim, ContactsInv, ContactsTypeOK
  <2>2. CASE \E look \in Answers : Lookup(look)
    <3>1. PICK look \in Answers : Lookup(look)
      BY <2>2
    <3>2. CASE About = None
      BY <1>1, <3>1, <3>2, SameRegs DEF Lookup, ContactsInv, ContactsTypeOK
    <3>3. CASE About # None
      <4>1. About \in Regs /\ reg[About] # None
        BY <1>1, <3>3 DEF About, ContactsInv, ContactsTypeOK, NoticeInv
      <4>2. reg' \in [Regs -> Registrations \cup {None}] /\ RegsGrow
        BY <1>1, <3>1, <3>3, <4>1, LookedUp DEF Lookup, ContactsInv
      <4>3. job' = Idle \/ At("select", job.at) \/ At("claim", job.at)
        BY <3>1, <3>3 DEF Lookup, At
      <4>4. job' = Idle \/ (job' \in Jobs /\ job'.stage \notin BusyStages)
        BY <1>1, <4>3, JobTyped DEF BusyStages
      <4> QED BY <3>1, <3>3, <4>2, <4>4 DEF Lookup
    <3> QED BY <3>2, <3>3
  <2> QED BY <2>1, <2>2
<1>3. ContactsAdvance
  BY <1>1, SameContacts
<1>4. NoticeInv' /\ notice' \in [Regs -> Regs \cup {None}]
  <2>1. /\ notice' \in [Regs -> Regs \cup {None}]
        /\ \A n \in Regs : notice'[n] # None => notice'[n] = notice[n]
    BY <1>1, <1>2 DEF ContactsInv, ContactsTypeOK
  <2>2. \A n \in Regs : notice[n] # None => notice[n] \in Regs /\ reg[notice[n]] # None
    BY DEF NoticeInv, ContactsInv, ContactsTypeOK
  <2> QED BY <1>2, <2>1, <2>2 DEF NoticeInv, RegsGrow
<1>5. job'.stage \notin BusyStages
  BY <1>2, IdleJob
<1>6. ContactsTypeOK' /\ JobInv'
  BY <1>1, <1>2, <1>4, <1>5 DEF ContactsInv, ContactsTypeOK, JobInv
<1> QED BY <1>1, <1>2, <1>3, <1>4, <1>5, <1>6, Kept DEF ContactsInv, BusyStages

-----------------------------------------------------------------------------
(* The first contact. *)

\* A step that only moves a contact on.
LEMMA AdvanceKeeps ==
  ASSUME ContactsInv, UNCHANGED <<people, seats, talks, blocked, removal, removing, joins, exists, calls>>,
         contact' \in [Regs -> ContactRows \cup {None}], ContactsAdvance,
         greeting' \in [Regs -> {"unasked", "asked", "open", "over", "sent", "failed"}],
         job' = Idle \/ job' \in Jobs, JobInv',
         job' = job \/ job'.stage # "create" \/ calls[job'.at] = 0
  PROVE  ContactsInv'
<1> USE DEF people, seats, talks
<1>1. RegsGrow
  BY SameRegs
<1>2. CallsInv'
  <2>1. CASE job' = job \/ job'.stage # "create"
    BY <1>1, <2>1, Kept
  <2>2. CASE calls[job'.at] = 0
    BY <2>2 DEF CallsInv, ContactsAdvance, ContactsInv
  <2> QED BY <2>1, <2>2
<1>3. ContactsTypeOK'
  BY DEF ContactsInv, ContactsTypeOK
<1> QED BY <1>1, <1>2, <1>3, Kept DEF ContactsInv

LEMMA PassKeeps == ASSUME ContactsInv, NEW r \in Regs, Pass(r) PROVE ContactsInv'
<1> DEFINE row == [contact[r] EXCEPT !.due = TRUE]
<1> USE DEF Pass, remote
<1>1. contact[r] \in ContactRows /\ contact \in [Regs -> ContactRows \cup {None}]
  BY DEF ContactsInv, ContactsTypeOK
<1>2. /\ row \in ContactRows /\ row.state = contact[r].state /\ row.persona = contact[r].persona
      /\ row.planned = contact[r].planned
  BY <1>1 DEF ContactRows
<1>3. contact' = [contact EXCEPT ![r] = row] /\ row # None
  BY <1>2, NoneAssumption
<1> HIDE DEF row
<1>4. contact' \in [Regs -> ContactRows \cup {None}] /\ ContactsAdvance
  BY <1>1, <1>2, <1>3 DEF ContactsAdvance
<1>5. JobInv'
  BY <1>1, <1>2, <1>3, JobRuns, IdleJob DEF JobInv, ContactsInv, BusyStages
<1> QED BY <1>4, <1>5, AdvanceKeeps DEF ContactsInv, ContactsTypeOK

LEMMA GreetsKeeps ==
  ASSUME ContactsInv, NEW r \in Regs, NEW next \in {"open", "sent", "failed", "over"}, Greets(r, next)
  PROVE  ContactsInv'
<1> USE DEF Greets
<1>1. ContactsAdvance
  BY SameContacts
<1>2. JobInv'
  BY DEF JobInv, ContactsInv
<1>3. greeting' \in [Regs -> {"unasked", "asked", "open", "over", "sent", "failed"}]
  BY DEF ContactsInv, ContactsTypeOK
<1> QED BY <1>1, <1>2, <1>3, AdvanceKeeps DEF ContactsInv, ContactsTypeOK

\* The contact the run is about takes a state without a seat.
LEMMA BecomesKeeps ==
  ASSUME ContactsInv, Contacting, contact[job.at] # None, NEW next \in States, Becomes(next),
         next \in {"scheduled", "preparing"} => contact[job.at].state = next,
         UNCHANGED <<talks, exists, calls>>,
         greeting' \in [Regs -> {"unasked", "asked", "open", "over", "sent", "failed"}],
         \/ job' = Idle
         \/ At("undo", job.at) /\ contact[job.at].planned
  PROVE  ContactsInv'
<1> USE DEF Contacting
<1>1. /\ contact' \in [Regs -> ContactRows \cup {None}] /\ ContactsAdvance
      /\ contact'[job.at] # None /\ contact'[job.at].planned = contact[job.at].planned
  BY Becoming DEF Becomes, ContactsInv
<1>2. /\ job' = Idle \/ job' \in Jobs
      /\ job'.stage # "create"
      /\ JobInv'
  <2>1. CASE job' = Idle
    BY <2>1, IdleJob DEF JobInv
  <2>2. CASE At("undo", job.at) /\ contact[job.at].planned
    <3>1. job' \in Jobs /\ job'.stage = "undo" /\ job'.at = job.at
      BY <2>2, JobTyped DEF BusyStages
    <3> QED BY <1>1, <2>2, <3>1 DEF JobInv
  <2> QED BY <2>1, <2>2
<1> QED BY <1>1, <1>2, AdvanceKeeps

\* The states an inspection, a failure or a refusal leads to.
LEMMA FoundStates ==
  ASSUME ContactsInv, NEW r \in Regs, contact[r] # None, contact[r].state # "scheduled"
  PROVE  Found(r) \in States /\ (Found(r) \in {"scheduled", "preparing"} => contact[r].state = Found(r))
<1>1. contact[r].state \in States
  BY DEF ContactsInv, ContactsTypeOK, ContactRows
<1>2. Found(r) \in {"blocked", "review", "active", "failed", contact[r].state}
  BY DEF Found, Open
<1> QED BY <1>1, <1>2 DEF States, Inspected

LEMMA LookedAtKeeps ==
  ASSUME ContactsInv, Removed \/ LookFails \/ Observe
  PROVE  ContactsInv'
<1> USE DEF Contacting, remote
<1>1. CASE Removed
  BY <1>1, JobOnly DEF Removed
<1>2. CASE LookFails
  BY <1>2, BecomesKeeps DEF LookFails, Gone, States, Inspected, ContactsInv, ContactsTypeOK
<1>3. CASE Observe
  BY <1>3, BecomesKeeps, FoundStates DEF Observe, Gone, ContactsInv, ContactsTypeOK
<1> QED BY <1>1, <1>2, <1>3

LEMMA StartKeeps == ASSUME ContactsInv, Start PROVE ContactsInv'
<1> USE DEF Contacting, remote
<1>1. /\ job.at \in Regs /\ contact[job.at] # None /\ contact[job.at].state = "scheduled"
      /\ UNCHANGED <<people, seats, talks, blocked, removal, removing, joins, remote>>
  BY DEF Start, Gone
<1>2. CASE Becomes("blocked") /\ job' = Idle
  BY <1>1, <1>2, BecomesKeeps DEF Start, States, ContactsInv, ContactsTypeOK
<1>3. CASE /\ contact' = [contact EXCEPT ![job.at].state = "preparing", ![job.at].planned = TRUE]
           /\ At("create", job.at)
  <2> DEFINE row == [contact[job.at] EXCEPT !.state = "preparing", !.planned = TRUE]
  <2>1. contact[job.at] \in ContactRows /\ contact \in [Regs -> ContactRows \cup {None}]
    BY <1>1 DEF ContactsInv, ContactsTypeOK
  <2>2. /\ row \in ContactRows /\ row.state = "preparing" /\ row.planned /\ row.persona = contact[job.at].persona
    BY <2>1 DEF ContactRows, States, Inspected
  <2>3. contact' = [contact EXCEPT ![job.at] = row]
    BY <1>1, <1>3, <2>1
  <2> HIDE DEF row
  <2>4. row # None
    BY <2>2, NoneAssumption
  <2>5. contact' \in [Regs -> ContactRows \cup {None}] /\ ContactsAdvance
    BY <1>1, <2>1, <2>2, <2>3, <2>4 DEF ContactsAdvance
  <2>6. job' \in Jobs /\ job'.stage = "create" /\ job'.at = job.at
    BY <1>1, <1>3, JobTyped DEF BusyStages
  <2>7. JobInv'
    BY <1>1, <2>1, <2>2, <2>3, <2>4, <2>6 DEF JobInv
  <2>8. calls[job'.at] = 0
    BY <1>1, <2>6 DEF CallsInv, ContactsInv
  <2> QED BY <1>1, <2>5, <2>6, <2>7, <2>8, AdvanceKeeps DEF ContactsInv, ContactsTypeOK
<1> QED BY <1>2, <1>3 DEF Start

\* The session may be there, and the row of the contact names it.
LEMMA CreateKeeps == ASSUME ContactsInv, Create \/ CreateFails PROVE ContactsInv'
<1> USE DEF Contacting, ContactsInv, people, seats, talks
<1>1. /\ job.at \in Regs /\ job.stage = "create" /\ contact[job.at] # None /\ contact[job.at].planned
      /\ contact[job.at].state = "preparing" /\ calls[job.at] = 0 /\ reg[job.at] # None
      /\ UNCHANGED <<people, seats, talks, blocked, removal, removing, joins, greeting>>
  BY DEF Create, CreateFails, JobInv, BusyStages, CallsInv, RegInv
<1>2. /\ exists' \in SUBSET Regs /\ exists' \subseteq exists \cup {job.at}
      /\ calls' = [calls EXCEPT ![job.at] = 1]
  BY <1>1 DEF Create, CreateFails, Called, ContactsTypeOK
<1>3. /\ contact' \in [Regs -> ContactRows \cup {None}] /\ ContactsAdvance
      /\ contact'[job.at] # None /\ contact'[job.at].planned /\ contact'[job.at].state # "scheduled"
  <2>1. CASE Create
    BY <1>1, <2>1, SameContacts DEF Create, ContactsTypeOK
  <2>2. CASE CreateFails
    <3>1. contact' = [contact EXCEPT ![job.at].state = "review"] /\ "review" \in States
      BY <2>2 DEF CreateFails, Becomes, States, Inspected
    <3> QED BY <1>1, <3>1, Becoming
  <2> QED BY <2>1, <2>2
<1>4. /\ job' = Idle \/ job' \in Jobs
      /\ job'.stage # "create" /\ JobInv'
  <2>1. CASE Create
    <3>1. job' \in Jobs /\ job'.stage = "commit" /\ job'.at = job.at
      BY <1>1, <2>1, JobTyped DEF Create, BusyStages
    <3> QED BY <1>1, <2>1, <3>1 DEF Create, JobInv
  <2>2. CASE CreateFails
    BY <2>2, IdleJob DEF CreateFails, JobInv
  <2> QED BY <2>1, <2>2
<1>5. RegsGrow
  BY <1>1, SameRegs
<1>6. ContactsTypeOK'
  BY <1>1, <1>2, <1>3, <1>4 DEF ContactsTypeOK
<1>7. RemovalInv'
  BY <1>1, <1>2 DEF RemovalInv, ContactsTypeOK
<1>8. CallsInv'
  BY <1>1, <1>2, <1>3, <1>4 DEF CallsInv, ContactsAdvance, ContactsTypeOK
<1>9. Accounted'
  BY <1>1, <1>2, <1>3 DEF Accounted, ContactsAdvance, ContactsTypeOK
<1> QED BY <1>1, <1>3, <1>4, <1>5, <1>6, <1>7, <1>8, <1>9, Kept

LEMMA CommitKeeps == ASSUME ContactsInv, Commit \/ CommitFails PROVE ContactsInv'
<1> DEFINE h == Handle(job.at)
<1> USE DEF Contacting, ContactsInv, people, seats, remote
<1>1. /\ job.at \in Regs /\ job.stage = "commit" /\ contact[job.at] # None /\ contact[job.at].planned
      /\ contact[job.at].state = "preparing"
      /\ UNCHANGED <<people, seats, blocked, removal, removing, joins, remote>>
  BY DEF Commit, CommitFails, JobInv, BusyStages
<1>2. CASE /\ Becomes("blocked") \/ Becomes("review")
           /\ At("undo", job.at) /\ UNCHANGED talks
  BY <1>1, <1>2, BecomesKeeps DEF Commit, CommitFails, States, Inspected, ContactsTypeOK
<1>3. CASE /\ live' = [live EXCEPT ![h] = job.at]
           /\ rows' = [rows EXCEPT ![h] = rows[h] \cup {job.at}]
           /\ Becomes("greeting") /\ At("prompt", job.at)
  <2>0. h \in Handles /\ reg[job.at] # None
    BY <1>1 DEF RegInv, ContactsTypeOK, Registrations, Handle
  <2>1. /\ contact' \in [Regs -> ContactRows \cup {None}] /\ ContactsAdvance
        /\ contact'[job.at] # None /\ contact'[job.at].planned /\ contact'[job.at].state = "greeting"
        /\ \A q \in Regs \ {job.at} : contact'[q] = contact[q]
    BY <1>1, <1>3, Becoming DEF Becomes, States, Inspected
  <2>2. job' \in Jobs /\ job'.stage = "prompt" /\ job'.at = job.at
    BY <1>1, <1>3, JobTyped DEF BusyStages
  <2>3. RegsGrow
    BY <1>1, SameRegs
  <2>4. JobInv'
    BY <2>1, <2>2 DEF JobInv
  <2>5. ContactsTypeOK'
    BY <1>1, <1>3, <2>0, <2>1, <2>2 DEF ContactsTypeOK
  <2>6. \A q \in Regs : Handle(q)' = Handle(q)
    BY <1>1 DEF Handle
  <2>7. RowsInv'
    BY <1>1, <1>3, <2>0, <2>1, <2>6 DEF RowsInv, ContactsAdvance, ContactsTypeOK
  <2>8. Accounted'
    BY <1>1, <1>3, <2>0, <2>1 DEF Accounted, ContactsAdvance, ContactsTypeOK
  <2>9. \A q \in Regs \ {job.at} : Reserved(q) => Handle(q) # h
    BY <1>1 DEF UniqueInv, Reserved
  <2>10. assignment[h] = contact'[job.at].persona
    BY <1>1, <2>1 DEF Assigned, ContactsAdvance
  <2> HIDE DEF h
  <2>11. Assigned'
    <3>1. ASSUME NEW g \in Handles, live'[g] # None
          PROVE  assignment[g] = contact'[live'[g]].persona
      <4>1. CASE g = h
        BY <1>3, <2>0, <2>10, <4>1 DEF ContactsTypeOK
      <4>2. CASE g # h
        BY <1>3, <2>1, <3>1, <4>2 DEF Assigned, ContactsAdvance, RowsInv, ContactsTypeOK
      <4> QED BY <4>1, <4>2
    <3>2. ASSUME NEW q \in Regs, contact'[q] # None, contact'[q].state \in {"scheduled", "preparing"}
          PROVE  live'[Handle(q)] = None /\ assignment[Handle(q)] = contact'[q].persona
      <4>1. q # job.at /\ contact'[q] = contact[q]
        BY <2>1, <3>2
      <4>2. Handle(q) # h
        BY <2>9, <3>2, <4>1 DEF Reserved
      <4> QED BY <1>3, <3>2, <4>1, <4>2 DEF Assigned, ContactsTypeOK
    <3> QED BY <1>1, <2>6, <3>1, <3>2 DEF Assigned
  <2> QED BY <1>1, <2>1, <2>2, <2>3, <2>4, <2>5, <2>7, <2>8, <2>11, Kept
<1> QED BY <1>2, <1>3 DEF Commit, CommitFails

LEMMA UndoKeeps == ASSUME ContactsInv, Undo \/ UndoFails PROVE ContactsInv'
<1> USE DEF Contacting, ContactsInv, people, seats, talks, remote
<1>1. /\ UNCHANGED <<people, contact, seats, talks, blocked, removal, removing, joins, greeting, calls>>
      /\ exists' \subseteq exists /\ job' = Idle
  BY DEF Undo, UndoFails
<1>2. RegsGrow /\ ContactsAdvance /\ job'.stage # "create" /\ JobInv'
  BY <1>1, SameRegs, SameContacts, IdleJob DEF JobInv
<1>3. ContactsTypeOK'
  BY <1>1 DEF ContactsTypeOK
<1>4. RemovalInv' /\ Accounted'
  BY <1>1 DEF RemovalInv, Accounted
<1> QED BY <1>1, <1>2, <1>3, <1>4, Kept

LEMMA PromptKeeps == ASSUME ContactsInv, Prompt \/ PromptFails PROVE ContactsInv'
<1> USE DEF Contacting, remote
<1>1. job.at \in Regs /\ contact[job.at] # None /\ job' = Idle
  BY DEF Prompt, PromptFails, JobInv, BusyStages, ContactsInv
<1>2. greeting' \in [Regs -> {"unasked", "asked", "open", "over", "sent", "failed"}]
  BY <1>1 DEF Prompt, PromptFails, ContactsInv, ContactsTypeOK
<1>3. CASE Prompt
  <2>1. JobInv' /\ job'.stage # "create"
    BY <1>1, IdleJob DEF JobInv
  <2>2. ContactsAdvance
    BY <1>3, SameContacts DEF Prompt
  <2> QED BY <1>1, <1>2, <1>3, <2>1, <2>2, AdvanceKeeps DEF Prompt, ContactsInv, ContactsTypeOK
<1>4. CASE PromptFails
  BY <1>1, <1>2, <1>4, BecomesKeeps DEF PromptFails, States, Inspected
<1> QED BY <1>3, <1>4

-----------------------------------------------------------------------------
(* The relationship, the operator, the platform. *)

LEMMA EndKeeps == ASSUME ContactsInv, NEW h \in Handles, End(h) PROVE ContactsInv'
<1> DEFINE p == contact[live[h]].persona
<1> USE DEF End, ContactsInv, people, remote
<1>1. live[h] \in Regs /\ contact[live[h]] # None /\ p \in Personas
  BY DEF RowsInv, ContactsTypeOK, ContactRows
<1>2. RegsGrow /\ ContactsAdvance
  BY SameRegs, SameContacts
<1> HIDE DEF p
<1>3. /\ live' = [live EXCEPT ![h] = None] /\ assignment' = [assignment EXCEPT ![h] = None]
      /\ excluded' = [excluded EXCEPT ![h] = excluded[h] \cup {p}]
  BY DEF p
<1>4. ContactsTypeOK'
  BY <1>1, <1>3 DEF ContactsTypeOK
<1>5. RowsInv'
  BY <1>3 DEF RowsInv, ContactsTypeOK, Handle
<1>6. Assigned'
  <2>1. ASSUME NEW q \in Personas
        PROVE  Cardinality({g \in Handles : assignment'[g] = q}) <= Capacity
    <3>1. {g \in Handles : assignment'[g] = q} \subseteq {g \in Handles : assignment[g] = q}
      BY <1>3, ContactsAssumption DEF ContactsTypeOK
    <3> QED BY <3>1, FewerSeats
  <2>2. ASSUME NEW g \in Handles
        PROVE  /\ assignment'[g] \notin excluded'[g]
               /\ live'[g] # None => assignment'[g] = contact[live'[g]].persona
    <3>1. CASE g = h
      BY <1>1, <1>3, <3>1, ContactsAssumption DEF ContactsTypeOK
    <3>2. CASE g # h
      BY <1>3, <3>2 DEF Assigned, ContactsTypeOK
    <3> QED BY <3>1, <3>2
  <2>3. ASSUME NEW r \in Regs, Reserved(r)
        PROVE  live'[Handle(r)] = None /\ assignment'[Handle(r)] = contact[r].persona
    <3>1. Handle(r) # h
      BY <1>1, <2>3 DEF Assigned, Reserved, RowsInv
    <3> QED BY <1>3, <2>3, <3>1 DEF Assigned, Reserved, ContactsTypeOK
  <2> QED BY <2>1, <2>2, <2>3 DEF Assigned, Reserved, Handle
<1> QED BY <1>2, <1>4, <1>5, <1>6, Kept

LEMMA BlockKeeps == ASSUME ContactsInv, NEW h \in Handles, Block(h) PROVE ContactsInv'
<1> USE DEF Block, people, seats, talks, remote
<1>1. RegsGrow /\ ContactsAdvance
  BY SameRegs, SameContacts
<1>2. ContactsTypeOK'
  BY DEF ContactsInv, ContactsTypeOK
<1> QED BY <1>1, <1>2, Kept DEF ContactsInv

\* Everything of a handle goes but the list of its sessions.
LEMMA RemoveRowsKeeps == ASSUME ContactsInv, NEW h \in Handles, RemoveRows(h) PROVE ContactsInv'
<1> DEFINE gone == Of(h)
           list == ToRemove(h)
<1> USE DEF ContactsInv
<1>1. /\ gone \subseteq Regs /\ list \in SUBSET Regs /\ removal[h] \subseteq list /\ rows[h] \subseteq list
      /\ \A r \in Regs : r \in gone <=> reg[r] # None /\ Handle(r) = h
      /\ \A r \in gone : contact[r] # None /\ contact[r].planned => r \in list
      /\ \A r \in list \ removal[h] : r \in gone
  BY DEF Of, ToRemove, Planned, RowsInv, RegInv, ContactsTypeOK
<1>2. /\ removal' = [removal EXCEPT ![h] = list] /\ removing' = [removing EXCEPT ![h] = list]
      /\ reg' = [r \in Regs |-> IF r \in gone THEN None ELSE reg[r]]
      /\ contact' = [r \in Regs |-> IF r \in gone THEN None ELSE contact[r]]
      /\ notice' = [n \in Regs |-> IF notice[n] \in gone THEN None ELSE notice[n]]
      /\ assignment' = [assignment EXCEPT ![h] = None]
      /\ live' = [live EXCEPT ![h] = None] /\ rows' = [rows EXCEPT ![h] = {}]
      /\ blocked' = blocked \ {h}
      /\ greeting' = [r \in Regs |-> IF r \in gone THEN "unasked" ELSE greeting[r]]
      /\ calls' = [r \in Regs |-> IF r \in gone THEN 0 ELSE calls[r]]
      /\ UNCHANGED <<used, redeemed, excluded, exists, job, joins>>
      /\ ~Busy(h)
  BY DEF RemoveRows
<1> HIDE DEF gone, list
<1>3. list # None
  BY <1>1, NoneAssumption
<1>4. ContactsTypeOK'
  BY <1>1, <1>2 DEF ContactsTypeOK
<1>5. RegInv' /\ NoticeInv'
  BY <1>1, <1>2 DEF RegInv, NoticeInv, ContactsTypeOK
<1>6. job.stage \in BusyStages => job.at \in Regs /\ job.at \notin gone
  BY <1>1, <1>2, JobRuns, IdleJob DEF Busy, BusyStages
<1>7. JobInv'
  BY <1>2, <1>6 DEF JobInv
<1>8. \A r \in Regs \ gone : Handle(r)' = Handle(r) /\ contact'[r] = contact[r]
  BY <1>2 DEF Handle
<1>9. \A g \in Handles \ {h} : \A s \in rows[g] : s \in Regs \ gone
  BY <1>1 DEF RowsInv, ContactsTypeOK
<1>10. RowsInv'
  BY <1>2, <1>8, <1>9 DEF RowsInv, ContactsTypeOK
<1>11. RemovalInv'
  <2>1. ASSUME NEW g \in Handles, NEW s \in removal'[g] PROVE s <= joins' /\ reg'[s] = None
    BY <1>1, <1>2, <2>1 DEF RemovalInv, RegInv, ContactsTypeOK
  <2>2. ASSUME NEW g \in Handles, removing'[g] # None
        PROVE  /\ removing'[g] \subseteq removal'[g]
               /\ \A s \in removal'[g] \ removing'[g] : s \notin exists'
    BY <1>2, <2>2 DEF RemovalInv, ContactsTypeOK
  <2> QED BY <2>1, <2>2 DEF RemovalInv
<1>12. CallsInv'
  BY <1>2, <1>6 DEF CallsInv, BusyStages, ContactsTypeOK
<1>13. UniqueInv'
  BY <1>2, <1>8 DEF UniqueInv, Reserved
<1>14. Accounted'
  <2> SUFFICES ASSUME NEW s \in exists
               PROVE  \/ contact'[s] # None /\ contact'[s].planned
                      \/ \E g \in Handles : s \in rows'[g] \cup removal'[g]
    BY <1>2 DEF Accounted
  <2>1. s \in Regs
    BY DEF ContactsTypeOK
  <2>2. CASE contact[s] # None /\ contact[s].planned
    BY <1>1, <1>2, <2>1, <2>2 DEF ContactsTypeOK
  <2>3. CASE \E g \in Handles : s \in rows[g] \cup removal[g]
    <3>1. PICK g \in Handles : s \in rows[g] \cup removal[g]
      BY <2>3
    <3> QED BY <1>1, <1>2, <3>1 DEF ContactsTypeOK
  <2> QED BY <2>2, <2>3 DEF Accounted
<1>15. Assigned'
  <2>1. ASSUME NEW q \in Personas
        PROVE  Cardinality({g \in Handles : assignment'[g] = q}) <= Capacity
    <3>1. {g \in Handles : assignment'[g] = q} \subseteq {g \in Handles : assignment[g] = q}
      BY <1>2, ContactsAssumption DEF ContactsTypeOK
    <3> QED BY <3>1, FewerSeats
  <2>2. ASSUME NEW g \in Handles
        PROVE  /\ assignment'[g] \notin excluded'[g]
               /\ live'[g] # None => assignment'[g] = contact'[live'[g]].persona
    <3>1. CASE g = h
      BY <1>2, <3>1, ContactsAssumption DEF ContactsTypeOK
    <3>2. CASE g # h
      BY <1>2, <1>8, <1>9, <3>2 DEF Assigned, RowsInv, ContactsTypeOK
    <3> QED BY <3>1, <3>2
  <2>3. ASSUME NEW r \in Regs, contact'[r] # None, contact'[r].state \in {"scheduled", "preparing"}
        PROVE  live'[Handle(r)'] = None /\ assignment'[Handle(r)'] = contact'[r].persona
    <3>1. r \notin gone /\ contact'[r] = contact[r] /\ Handle(r)' = Handle(r) /\ reg[r] # None
      BY <1>2, <1>8, <2>3 DEF RegInv
    <3>2. Handle(r) # h
      BY <1>1, <3>1
    <3> QED BY <1>2, <2>3, <3>1, <3>2 DEF Assigned, ContactsTypeOK
  <2> QED BY <2>1, <2>2, <2>3 DEF Assigned
<1> QED BY <1>4, <1>5, <1>7, <1>10, <1>11, <1>12, <1>13, <1>14, <1>15

\* The sessions of the list go, or the request that holds the lock gives up.
LEMMA RemovingKeeps ==
  ASSUME ContactsInv, NEW h \in Handles,
         RemoveFails(h) \/ RemoveEnds(h) \/ \E s \in Regs : RemoveSession(h, s)
  PROVE  ContactsInv'
<1> USE DEF ContactsInv, people, seats, talks, remote
<1>1. /\ UNCHANGED <<people, contact, seats, talks, blocked, greeting, calls, job, joins>>
      /\ exists' \subseteq exists
  BY DEF RemoveFails, RemoveEnds, RemoveSession
<1>2. RegsGrow /\ ContactsAdvance
  BY <1>1, SameRegs, SameContacts
<1>3. /\ removal' \in [Handles -> SUBSET Regs]
      /\ removing' \in [Handles -> (SUBSET Regs) \cup {None}]
      /\ RemovalInv'
  <2>1. CASE RemoveFails(h)
    BY <2>1 DEF RemoveFails, RemovalInv, ContactsTypeOK
  <2>2. CASE RemoveEnds(h)
    BY <2>2 DEF RemoveEnds, RemovalInv, ContactsTypeOK
  <2>3. ASSUME NEW s \in Regs, RemoveSession(h, s)
        PROVE  /\ removal' \in [Handles -> SUBSET Regs]
               /\ removing' \in [Handles -> (SUBSET Regs) \cup {None}]
               /\ RemovalInv'
    <3> DEFINE rest == removing[h] \ {s}
    <3>1. /\ removing[h] # None /\ s \in removing[h] /\ exists' = exists \ {s}
          /\ removing' = [removing EXCEPT ![h] = rest] /\ UNCHANGED <<removal, reg, joins>>
      BY <2>3 DEF RemoveSession
    <3>2. removing[h] \in SUBSET Regs /\ rest \in SUBSET Regs
      BY <3>1 DEF ContactsTypeOK
    <3> HIDE DEF rest
    <3>3. removing' \in [Handles -> (SUBSET Regs) \cup {None}]
      BY <3>1, <3>2 DEF ContactsTypeOK
    <3>4. ASSUME NEW g \in Handles, removing'[g] # None
          PROVE  /\ removing'[g] \subseteq removal[g]
                 /\ \A q \in removal[g] \ removing'[g] : q \notin exists'
      <4>1. CASE g = h
        BY <3>1, <4>1 DEF rest, RemovalInv, ContactsTypeOK
      <4>2. CASE g # h
        BY <3>1, <3>4, <4>2 DEF RemovalInv, ContactsTypeOK
      <4> QED BY <4>1, <4>2
    <3> QED BY <3>1, <3>3, <3>4 DEF RemovalInv, ContactsTypeOK
  <2> QED BY <2>1, <2>2, <2>3
<1>4. ContactsTypeOK'
  BY <1>1, <1>3 DEF ContactsTypeOK
<1>5. Accounted'
  <2>1. CASE RemoveEnds(h)
    <3>1. \A s \in removal[h] : s \notin exists
      BY <2>1, NoneAssumption DEF RemoveEnds, RemovalInv
    <3> QED BY <1>1, <2>1, <3>1 DEF RemoveEnds, Accounted, ContactsTypeOK
  <2>2. CASE ~RemoveEnds(h)
    <3>1. removal' = removal
      BY <2>2 DEF RemoveFails, RemoveSession
    <3> QED BY <1>1, <3>1 DEF Accounted
  <2> QED BY <2>1, <2>2
<1> QED BY <1>1, <1>2, <1>3, <1>4, <1>5, Kept

LEMMA EvictKeeps == ASSUME ContactsInv, Evict PROVE ContactsInv'
<1> USE DEF Evict, ContactsInv, people, seats, talks, remote
<1>1. RegsGrow /\ ContactsAdvance /\ job'.stage # "create" /\ JobInv'
  BY SameRegs, SameContacts, IdleJob DEF JobInv
<1>2. ContactsTypeOK'
  BY DEF ContactsTypeOK
<1>3. RemovalInv'
  BY DEF RemovalInv
<1> QED BY <1>1, <1>2, <1>3, Kept

-----------------------------------------------------------------------------
(* The theorems. *)

LEMMA NextKeeps == ContactsInv /\ [ContactsNext]_vars => ContactsInv'
<1> SUFFICES ASSUME ContactsInv, [ContactsNext]_vars PROVE ContactsInv'
  OBVIOUS
<1>1. CASE UNCHANGED vars
  BY <1>1, JobOnly DEF vars
<1>2. ASSUME NEW h \in Handles, NEW c \in Codes \cup {None}, Join(h, c) PROVE ContactsInv'
  BY <1>2, JoinKeeps
<1>3. CASE Select \/ Notify \/ SelectInvitation \/ Claim \/ Evict
  BY <1>3, SelectKeeps, NotifyKeeps, SelectInvitationKeeps, QueueKeeps, EvictKeeps
<1>4. CASE ContactStep
  BY <1>4, LookedAtKeeps, StartKeeps, CreateKeeps, CommitKeeps, UndoKeeps, PromptKeeps DEF ContactStep
<1>5. CASE \E look \in Answers : Lookup(look)
  BY <1>5, QueueKeeps
<1>6. ASSUME NEW r \in Regs, Pass(r) \/ Look(r) PROVE ContactsInv'
  BY <1>6, PassKeeps, LookKeeps
<1>7. ASSUME NEW r \in Regs, NEW look \in Answers, Recheck(r, look) PROVE ContactsInv'
  BY <1>7, RecheckKeeps
<1>8. ASSUME NEW r \in Regs, NEW next \in {"open", "sent", "failed", "over"}, Greets(r, next)
      PROVE  ContactsInv'
  BY <1>8, GreetsKeeps
<1>9. ASSUME NEW h \in Handles,
             \/ End(h) \/ Block(h) \/ RemoveRows(h) \/ RemoveFails(h) \/ RemoveEnds(h)
             \/ \E s \in Regs : RemoveSession(h, s)
      PROVE  ContactsInv'
  BY <1>9, EndKeeps, BlockKeeps, RemoveRowsKeeps, RemovingKeeps
<1> QED BY <1>1, <1>2, <1>3, <1>4, <1>5, <1>6, <1>7, <1>8, <1>9 DEF ContactsNext

\* The inductive invariant holds in every state.
THEOREM ContactsInvariant == ContactsSpec => []ContactsInv
  BY InitInv, NextKeeps, PTL DEF ContactsSpec

\* first-contact.ts and operator.ts: whatever fails between the call that creates a
\* session and the transaction that binds it, and while a handle is removed, a row
\* names every session that exists.
THEOREM ContactsAccounted == ContactsSpec => []Accounted
<1>1. ContactsInv => Accounted
  BY DEF ContactsInv
<1> QED BY <1>1, ContactsInvariant, PTL

\* assignment.ts: no persona has more people than seats, whoever talks to one or is
\* about to has a seat, and nobody gets back a persona that has left.
THEOREM ContactsAssigned == ContactsSpec => []Assigned
<1>1. ContactsInv => Assigned
  BY DEF ContactsInv
<1> QED BY <1>1, ContactsInvariant, PTL

\* first-contact.ts: a contact that was claimed is never claimed again, so that no
\* second session is asked for.
THEOREM ContactsOneSession == ContactsSpec => []OneSession
<1>1. ContactsInv => OneSession
  BY DEF ContactsInv, CallsInv, OneSession
<1> QED BY <1>1, ContactsInvariant, PTL

=============================================================================
