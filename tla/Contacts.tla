------------------------------ MODULE Contacts ------------------------------
(***************************************************************************)
(* From a registration to a first contact (discovery.ts, contacts.ts,      *)
(* assignment.ts, notifications.ts, first-contact.ts, operator.ts): people *)
(* register, perhaps with an invitation code; a selection reserves one of  *)
(* the seats of a persona; a background run creates the session, commits   *)
(* the conversation and has the persona greet.  A relationship may end and *)
(* be followed by the next one; an operator may block or remove a handle.  *)
(*                                                                         *)
(* Registrations are numbered by the request that made them, and so are    *)
(* the notifications.  A contact plans at most one session, which has the  *)
(* number of its registration.                                             *)
(***************************************************************************)
EXTENDS Integers, Sequences, FiniteSets, SequencesExt, FiniteSetsExt

CONSTANTS
  Handles, Personas,
  Likes,      \* the personas a handle likes
  Invited,    \* handles that may have an invitation code
  Codes,      \* invitation codes
  MaxUses,    \* of each code
  Capacity,   \* assignmentCapacity
  Answers,    \* what a look-up of a recipient may say
  Leaving,    \* handles whose relationship may end
  Attended,   \* handles an operator may block and remove
  MaxJoins,   \* requests to register
  MaxFaults,  \* requests and transactions that fail, restarts
  None

ASSUME ContactsAssumption ==
  /\ IsFiniteSet(Handles)
  /\ Leaving \subseteq Handles /\ Attended \subseteq Handles /\ Invited \subseteq Handles
  /\ Likes \in [Handles -> SUBSET Personas]
  /\ Answers \subseteq {"available", "unavailable", "failed"}
  /\ None \notin Handles \cup Personas \cup Codes
  /\ MaxUses \in Nat \ {0} /\ Capacity \in Nat \ {0}
  /\ MaxJoins \in Nat /\ MaxFaults \in Nat

VARIABLES
  reg,         \* discovery_registration with its code and its last look-up
  contact,     \* discovery_contact
  turn,        \* contacts that were looked at, in the order of last_checked
  notice,      \* the registration a queued notification is about
  assignment,  \* persona_assignment
  excluded,    \* persona_exclusion
  live,        \* the session of the live conversation
  rows,        \* sessions with a conversation row
  blocked,     \* handles
  removal,     \* sessions an unfinished removal has to delete
  used,        \* used_count of a code
  redeemed,    \* invitation_redemption: the code of a handle
  exists,      \* sessions in the executor
  greeting,    \* what became of the first text of a session
  calls,       \* createSession calls of a contact (history)
  job,         \* the background run
  removing,    \* an operator's request that holds the lock of a handle
  joins, faults

people == <<reg, notice, used, redeemed>>
seats  == <<assignment, excluded>>
talks  == <<live, rows>>
remote == <<exists, greeting, calls>>
vars == <<people, contact, turn, seats, talks, blocked, removal, remote, job, removing,
          joins, faults>>

Regs      == 1 .. MaxJoins
Inspected == {"scheduled", "preparing", "greeting", "review"}
States    == Inspected \cup {"active", "failed", "blocked"}
Looks     == {"unknown", "available", "unavailable", "failed"}
Idle      == [stage |-> "idle", at |-> 0]

\* Rows of discovery_registration and of discovery_contact.
Registrations == [handle : Handles, code : Codes \cup {None}, look : Looks, archived : BOOLEAN]
ContactRows   == [state : States, persona : Personas, due : BOOLEAN, planned : BOOLEAN]

ASSUME NoneAssumption ==
  /\ None \notin Registrations /\ None \notin ContactRows
  /\ \A sessions \in SUBSET Regs : sessions # None

Handle(r)   == reg[r].handle
CurrentOf(h) == {r \in Regs : reg[r] # None /\ Handle(r) = h /\ ~reg[r].archived}
IsUser(h)   == rows[h] # {}
Unavailable(h) == h \in blocked \/ removal[h] # {}
Occupants(p, h) == {g \in Handles \ {h} : assignment[g] = p}
Wanted(h)   == Likes[h] \ excluded[h]

ContactsInit ==
  /\ reg = [r \in Regs |-> None] /\ contact = [r \in Regs |-> None] /\ turn = <<>>
  /\ notice = [n \in Regs |-> None]
  /\ assignment = [h \in Handles |-> None] /\ excluded = [h \in Handles |-> {}]
  /\ live = [h \in Handles |-> None] /\ rows = [h \in Handles |-> {}]
  /\ blocked = {} /\ removal = [h \in Handles |-> {}]
  /\ used = [c \in Codes |-> 0] /\ redeemed = [h \in Handles |-> None]
  /\ exists = {} /\ greeting = [r \in Regs |-> "unasked"] /\ calls = [r \in Regs |-> 0]
  /\ job = Idle /\ removing = [h \in Handles |-> None]
  /\ joins = 0 /\ faults = 0

Fault == faults < MaxFaults /\ faults' = faults + 1

-----------------------------------------------------------------------------
(* Registration. *)

Registration(h, c) == [handle |-> h, code |-> c, look |-> "unknown", archived |-> FALSE]

\* attachInvitation: may the code be handed in?
Attachable(h, c) == c # None => (used[c] < MaxUses \/ redeemed[h] = c)

\* The request stores its notification with whatever else it does.
Joined(h, r) ==
  /\ joins' = joins + 1
  /\ notice' = [notice EXCEPT ![joins + 1] = r]

\* A new registration, or the code of the one that is there: a fresh code also asks
\* for a fresh look-up, and neither changes what has been selected.
Submit(h, c) ==
  IF CurrentOf(h) = {}
  THEN /\ reg' = [reg EXCEPT ![joins + 1] = Registration(h, c)]
       /\ Joined(h, joins + 1)
  ELSE \E r \in CurrentOf(h) :
         /\ reg' = IF contact[r] # None THEN reg
                   ELSE [reg EXCEPT ![r].code = c,
                           ![r].look = IF c # None /\ reg[r].look \in {"failed", "unavailable"}
                                       THEN "unknown" ELSE reg[r].look]
         /\ Joined(h, r)

\* reselect: the link of the ended relationship is used once, a repeated request
\* finds it used.
Reselect(h) ==
  IF CurrentOf(h) \subseteq rows[h]
  THEN /\ reg' = [r \in Regs |->
                    IF r = joins + 1 THEN Registration(h, None)
                    ELSE IF r \in CurrentOf(h) THEN [reg[r] EXCEPT !.archived = TRUE]
                    ELSE reg[r]]
       /\ Joined(h, joins + 1)
  ELSE /\ reg' = reg /\ \E r \in CurrentOf(h) : Joined(h, r)

Join(h, c) ==
  /\ joins < MaxJoins /\ (c = None \/ h \in Invited)
  /\ Wanted(h) # {} /\ ~Unavailable(h)
  /\ \/ /\ live[h] # None
        /\ reg' = reg /\ \E r \in CurrentOf(h) : Joined(h, r)
     \/ live[h] = None /\ IsUser(h) /\ Reselect(h)
     \/ ~IsUser(h) /\ Attachable(h, c) /\ Submit(h, c)
  /\ UNCHANGED <<contact, turn, used, redeemed, seats, talks, blocked, removal, remote, job,
                 removing, faults>>

-----------------------------------------------------------------------------
(* Selection. *)

\* Mutant: only conversations that have begun take a seat.
ClaimableUnbegun(p, h) ==
  /\ assignment[h] \in {None, p} /\ p \notin excluded[h]
  /\ Cardinality({g \in Occupants(p, h) : live[g] # None}) < Capacity

\* claimPersona
Claimable(p, h) ==
  /\ assignment[h] \in {None, p} /\ p \notin excluded[h]
  /\ Cardinality(Occupants(p, h)) < Capacity

\* contactReason is "ready"
Eligible(r) ==
  LET h == Handle(r) IN
    /\ ~Unavailable(h) /\ live[h] = None /\ contact[r] = None /\ assignment[h] = None
    /\ reg[r].look = "available"

\* consumeInvitation: a handle redeems once, a second row is refused.
Consumable(r) ==
  reg[r].code # None => (used[reg[r].code] < MaxUses /\ redeemed[Handle(r)] = None)
Consume(r) ==
  IF reg[r].code = None THEN UNCHANGED <<used, redeemed>>
  ELSE /\ used' = [used EXCEPT ![reg[r].code] = @ + 1]
       /\ redeemed' = [redeemed EXCEPT ![Handle(r)] = reg[r].code]

Reserve(r, p, due) ==
  /\ Claimable(p, Handle(r)) /\ Consumable(r)
  /\ assignment' = [assignment EXCEPT ![Handle(r)] = p]
  /\ contact' = [contact EXCEPT ![r] = [state |-> "scheduled", persona |-> p, due |-> due,
                                        planned |-> FALSE]]
  /\ Consume(r)
  /\ UNCHANGED <<excluded, turn>>

\* An operator selects (the first contact follows later) or starts a test handle.
Select ==
  /\ \E r \in Regs, due \in BOOLEAN :
       /\ reg[r] # None /\ ~reg[r].archived /\ Eligible(r)
       /\ \E p \in Wanted(Handle(r)) : Reserve(r, p, due)
  /\ UNCHANGED <<reg, notice, talks, blocked, removal, remote, job, removing, joins, faults>>

\* The delay between selection and contact is over.
Pass(r) ==
  /\ contact[r] # None /\ contact[r].state = "scheduled" /\ ~contact[r].due
  /\ contact' = [contact EXCEPT ![r].due = TRUE]
  /\ UNCHANGED <<people, turn, seats, talks, blocked, removal, remote, job, removing, joins,
                 faults>>

\* recheck: the operator has a recipient looked up again that was not reached.
Recheck(r, look) ==
  /\ reg[r] # None /\ reg[r].look # "available"
  /\ reg' = [reg EXCEPT ![r].look = look]
  /\ UNCHANGED <<contact, turn, notice, used, redeemed, seats, talks, blocked, removal, remote,
                 job, removing, joins, faults>>

-----------------------------------------------------------------------------
(* The notifications of the background run. *)

At(stage, r) == job' = [stage |-> stage, at |-> r]
Queued == {n \in Regs : notice[n] # None}
About  == notice[job.at]

Notify ==
  /\ job = Idle /\ Queued # {}
  /\ At("lookup", Min(Queued))
  /\ UNCHANGED <<people, contact, turn, seats, talks, blocked, removal, remote, removing,
                 joins, faults>>

\* checkAvailability, once for a registration; the queue gives up on "unavailable".
Lookup(look) ==
  /\ job.stage = "lookup"
  /\ IF About = None
     THEN job' = Idle /\ UNCHANGED <<reg, notice>>
     ELSE /\ reg[About].look \in {look, "unknown"}
          /\ reg' = [reg EXCEPT ![About].look = look]
          /\ IF look = "unavailable"
             THEN notice' = [notice EXCEPT ![job.at] = None] /\ job' = Idle
             ELSE notice' = notice /\ At(IF look = "available" THEN "select" ELSE "claim", job.at)
  /\ UNCHANGED <<contact, turn, used, redeemed, seats, talks, blocked, removal, remote,
                 removing, joins, faults>>

Pending(r) ==
  reg[r].code # None /\ used[reg[r].code] < MaxUses /\ contact[r] = None

\* selectInvitation: a selection for one registration.  Without a seat it selects
\* nobody; a failure undoes it and leaves the notification for the next run.
SelectInvitation ==
  /\ job.stage = "select"
  /\ LET ready == About # None /\ Pending(About) /\ Eligible(About)
         seat(p) == ready /\ p \in Wanted(Handle(About)) /\ Claimable(p, Handle(About))
     IN \/ \E p \in Personas :
             seat(p) /\ Reserve(About, p, FALSE) /\ At("claim", job.at)
        \/ /\ \E p \in Personas : seat(p) /\ ~Consumable(About)
           /\ job' = Idle /\ UNCHANGED <<contact, turn, used, redeemed, seats>>
        \/ /\ ~\E p \in Personas : seat(p)
           /\ At("claim", job.at) /\ UNCHANGED <<contact, turn, used, redeemed, seats>>
  /\ UNCHANGED <<reg, notice, talks, blocked, removal, remote, removing, joins, faults>>

\* claim: it is no longer queued before it is handed to the gateway.
Claim ==
  /\ job.stage = "claim"
  /\ notice' = [notice EXCEPT ![job.at] = None] /\ job' = Idle
  /\ UNCHANGED <<reg, contact, turn, used, redeemed, seats, talks, blocked, removal, remote,
                 removing, joins, faults>>

-----------------------------------------------------------------------------
(* The first contacts of the background run. *)

Listed == {r \in Regs : /\ reg[r] # None /\ ~reg[r].archived /\ contact[r] # None
                        /\ contact[r].state \in Inspected
                        /\ contact[r].state = "scheduled" => contact[r].due}

Rank(r) == IF Contains(turn, r) THEN CHOOSE i \in DOMAIN turn : turn[i] = r ELSE 0
\* Mutant: in the order of the registrations.
InTurnById(r) == \A q \in Listed : r <= q

InTurn(r) == \A q \in Listed : Rank(r) <= Rank(q)

\* Whoever is looked at goes to the end; a start and an inspection wait for the lock.
Look(r) ==
  /\ job = Idle /\ r \in Listed /\ InTurn(r)
  /\ turn' = Append(SelectSeq(turn, LAMBDA q : q # r), r)
  /\ At("look", r)
  /\ UNCHANGED <<people, contact, seats, talks, blocked, removal, remote, removing, joins,
                 faults>>

Unlocked == reg[job.at] # None => removing[Handle(job.at)] = None
Gone     == contact[job.at] = None
Becomes(state) == contact' = [contact EXCEPT ![job.at].state = state]
Contacting ==
  /\ job.at \in Regs
  /\ UNCHANGED <<people, turn, seats, blocked, removal, removing, joins>>

\* It was removed while the run waited for the lock.
Removed == /\ job.stage = "look" /\ Contacting /\ Unlocked /\ Gone
           /\ job' = Idle /\ UNCHANGED <<contact, talks, remote, faults>>

Start ==
  /\ job.stage = "look" /\ Contacting /\ Unlocked /\ ~Gone
  /\ contact[job.at].state = "scheduled"
  /\ \/ /\ ~Unavailable(Handle(job.at))
        /\ contact' = [contact EXCEPT ![job.at].state = "preparing", ![job.at].planned = TRUE]
        /\ At("create", job.at)
     \/ Becomes("blocked") /\ job' = Idle  \* unavailable, or the persona is withdrawn
  /\ UNCHANGED <<talks, remote, faults>>

\* The row cannot be claimed, or the executor or the phone not be asked.
LookFails ==
  /\ job.stage = "look" /\ Contacting /\ Unlocked /\ ~Gone
  /\ Fault /\ Becomes("review") /\ job' = Idle
  /\ UNCHANGED <<talks, remote>>

Called == calls' = [calls EXCEPT ![job.at] = @ + 1]

Create ==
  /\ job.stage = "create" /\ Contacting
  /\ exists' = exists \cup {job.at} /\ Called /\ At("commit", job.at)
  /\ UNCHANGED <<contact, talks, greeting, faults>>

\* The session may be there, only the answer is lost.
CreateFails ==
  /\ job.stage = "create" /\ Contacting /\ Fault
  /\ exists' \in {exists, exists \cup {job.at}} /\ Called
  /\ Becomes("review") /\ job' = Idle
  /\ UNCHANGED <<talks, greeting>>

\* One transaction: the handle is still available and the registration current.
Commit ==
  /\ job.stage = "commit" /\ Contacting
  /\ LET h == Handle(job.at) IN
       IF Unavailable(h)
       THEN Becomes("blocked") /\ At("undo", job.at) /\ UNCHANGED talks
       ELSE /\ live' = [live EXCEPT ![h] = job.at]
            /\ rows' = [rows EXCEPT ![h] = @ \cup {job.at}]
            /\ Becomes("greeting") /\ At("prompt", job.at)
  /\ UNCHANGED <<remote, faults>>

CommitFails ==
  /\ job.stage = "commit" /\ Contacting /\ Fault
  /\ Becomes("review") /\ At("undo", job.at)
  /\ UNCHANGED <<talks, remote>>

\* The session that no conversation names is removed; if that fails too, the contact
\* still names it.
Undo ==
  /\ job.stage = "undo" /\ Contacting
  /\ exists' = exists \ {job.at} /\ job' = Idle
  /\ UNCHANGED <<contact, talks, greeting, calls, faults>>

UndoFails ==
  /\ job.stage = "undo" /\ Contacting /\ Fault /\ job' = Idle
  /\ UNCHANGED <<contact, talks, remote>>

Prompt ==
  /\ job.stage = "prompt" /\ Contacting
  /\ greeting' = [greeting EXCEPT ![job.at] = "asked"] /\ job' = Idle
  /\ UNCHANGED <<contact, talks, exists, calls, faults>>

PromptFails ==
  /\ job.stage = "prompt" /\ Contacting /\ Fault
  /\ greeting' \in {greeting, [greeting EXCEPT ![job.at] = "asked"]}
  /\ Becomes("review") /\ job' = Idle
  /\ UNCHANGED <<talks, exists, calls>>

\* Mutant: an interrupted preparation is scheduled again.
OpenAgain(r) ==
  IF contact[r].state = "preparing" THEN "scheduled" ELSE contact[r].state

\* Nothing is known yet: it is inspected again.
Open(r) == contact[r].state

\* What the inspection of a contact that has begun finds.
Found(r) ==
  LET g == greeting[r] IN
    CASE Unavailable(Handle(r)) -> "blocked"
      [] ~contact[r].planned    -> "review"
      [] g = "sent"             -> "active"
      [] g = "failed"           -> "failed"
      [] g = "open"             -> "review"
      [] r \notin exists        -> "review"
      [] g = "over"             -> "failed"
      [] OTHER                  -> Open(r)

Observe ==
  /\ job.stage = "look" /\ Contacting /\ Unlocked /\ ~Gone
  /\ contact[job.at].state # "scheduled"
  /\ Becomes(Found(job.at)) /\ job' = Idle
  /\ UNCHANGED <<talks, remote, faults>>

ContactStep ==
  \/ Removed \/ Start \/ LookFails \/ Create \/ CreateFails \/ Commit \/ CommitFails
  \/ Undo \/ UndoFails \/ Prompt \/ PromptFails \/ Observe

-----------------------------------------------------------------------------
(* The relationship, the operator, the platform. *)

\* The turn that greets: a text is recorded, it is sent or fails; or there is none.
Greets(r, next) ==
  /\ r \in exists /\ contact[r] # None /\ contact[r].state \in Inspected
  /\ \/ greeting[r] = "asked" /\ next \in {"open", "over"}
     \/ greeting[r] = "open" /\ next \in {"sent", "failed"}
  /\ greeting' = [greeting EXCEPT ![r] = next]
  /\ UNCHANGED <<people, contact, turn, seats, talks, blocked, removal, exists, calls, job,
                 removing, joins, faults>>

\* recordEnding: the seat is free, and this persona is gone for this handle for ever.
End(h) ==
  /\ h \in Leaving /\ live[h] # None
  /\ live' = [live EXCEPT ![h] = None]
  /\ excluded' = [excluded EXCEPT ![h] = @ \cup {contact[live[h]].persona}]
  /\ assignment' = [assignment EXCEPT ![h] = None]
  /\ UNCHANGED <<people, contact, turn, rows, blocked, removal, remote, job, removing, joins,
                 faults>>

Block(h) ==
  /\ h \in Attended /\ h \notin blocked
  /\ blocked' = blocked \cup {h}
  /\ UNCHANGED <<people, contact, turn, seats, talks, removal, remote, job, removing, joins,
                 faults>>

\* The run holds the lock of this handle.
Busy(h) == /\ job.stage \in {"create", "commit", "undo", "prompt"}
           /\ Handle(job.at) = h

Of(h) == {r \in Regs : reg[r] # None /\ Handle(r) = h}
Planned(h) == {r \in Of(h) : contact[r] # None /\ contact[r].planned}
\* Mutant: only the sessions of conversations.
ToRemoveTalks(h) == removal[h] \cup rows[h]

ToRemove(h) == removal[h] \cup rows[h] \cup Planned(h)

\* remove: first everything is deleted but the list of the sessions to delete ...
RemoveRows(h) ==
  /\ h \in Attended /\ removing[h] = None /\ ~Busy(h)
  /\ Of(h) # {} \/ removal[h] # {}
  /\ removal' = [removal EXCEPT ![h] = ToRemove(h)]
  /\ removing' = [removing EXCEPT ![h] = ToRemove(h)]
  /\ reg' = [r \in Regs |-> IF r \in Of(h) THEN None ELSE reg[r]]
  /\ contact' = [r \in Regs |-> IF r \in Of(h) THEN None ELSE contact[r]]
  /\ turn' = SelectSeq(turn, LAMBDA r : r \notin Of(h))
  /\ notice' = [n \in Regs |-> IF notice[n] \in Of(h) THEN None ELSE notice[n]]
  /\ assignment' = [assignment EXCEPT ![h] = None]
  /\ live' = [live EXCEPT ![h] = None] /\ rows' = [rows EXCEPT ![h] = {}]
  /\ blocked' = blocked \ {h}
  /\ greeting' = [r \in Regs |-> IF r \in Of(h) THEN "unasked" ELSE greeting[r]]
  /\ calls' = [r \in Regs |-> IF r \in Of(h) THEN 0 ELSE calls[r]]
  /\ UNCHANGED <<used, redeemed, excluded, exists, job, joins, faults>>

\* ... then the sessions, then the list.
RemoveSession(h, s) ==
  /\ removing[h] # None /\ s \in removing[h]
  /\ exists' = exists \ {s}
  /\ removing' = [removing EXCEPT ![h] = @ \ {s}]
  /\ UNCHANGED <<people, contact, turn, seats, talks, blocked, removal, greeting, calls, job,
                 joins, faults>>

RemoveFails(h) ==
  /\ removing[h] # None /\ removing[h] # {} /\ Fault
  /\ removing' = [removing EXCEPT ![h] = None]
  /\ UNCHANGED <<people, contact, turn, seats, talks, blocked, removal, remote, job, joins>>

RemoveEnds(h) ==
  /\ removing[h] = {}
  /\ removal' = [removal EXCEPT ![h] = {}]
  /\ removing' = [removing EXCEPT ![h] = None]
  /\ UNCHANGED <<people, contact, turn, seats, talks, blocked, remote, job, joins, faults>>

\* The platform replaces the object: whatever ran is gone.
Evict ==
  /\ Fault
  /\ job' = Idle /\ removing' = [h \in Handles |-> None]
  /\ UNCHANGED <<people, contact, turn, seats, talks, blocked, removal, remote, joins>>

ContactsNext ==
  \/ \E h \in Handles, c \in Codes \cup {None} : Join(h, c)
  \/ Select \/ Notify \/ SelectInvitation \/ Claim \/ ContactStep \/ Evict
  \/ \E look \in Answers : Lookup(look)
  \/ \E r \in Regs : Pass(r) \/ Look(r)
  \/ \E r \in Regs, look \in Answers : Recheck(r, look)
  \/ \E r \in Regs, next \in {"open", "sent", "failed", "over"} : Greets(r, next)
  \/ \E h \in Handles :
       \/ End(h) \/ Block(h) \/ RemoveRows(h) \/ RemoveFails(h) \/ RemoveEnds(h)
       \/ \E s \in Regs : RemoveSession(h, s)

ContactsSpec == ContactsInit /\ [][ContactsNext]_vars

\* Alarms go on, and every run serves both lanes; a request that has begun goes on.
ContactsFairness ==
  /\ SF_vars(Notify) /\ SF_vars(\E r \in Regs : Look(r))
  /\ WF_vars(\E look \in Answers : Lookup(look)) /\ WF_vars(SelectInvitation \/ Claim)
  /\ WF_vars(ContactStep)
  /\ \A r \in Regs : WF_vars(Pass(r))
  /\ \A h \in Attended :
       WF_vars(RemoveEnds(h) \/ \E s \in Regs : RemoveSession(h, s))

FairContactsSpec == ContactsSpec /\ ContactsFairness

-----------------------------------------------------------------------------
(* Properties. *)

\* Whatever fails or restarts between the call that creates a session and the
\* transaction that binds it, and also while a handle is removed, every session in
\* the executor is named by a row from which an operator or a retry can delete it.
Accounted ==
  \A s \in exists :
    \/ contact[s] # None /\ contact[s].planned
    \/ \E h \in Handles : s \in rows[h] \cup removal[h]

\* A persona never has more people than seats; who talks to a persona, or is
\* about to, has one of its seats; and nobody gets a persona that has left.
Assigned ==
  /\ \A p \in Personas : Cardinality({h \in Handles : assignment[h] = p}) <= Capacity
  /\ \A h \in Handles :
       /\ assignment[h] \notin excluded[h]
       /\ live[h] # None => assignment[h] = contact[live[h]].persona
  /\ \A r \in Regs :
       contact[r] # None /\ contact[r].state \in {"scheduled", "preparing"} =>
         live[Handle(r)] = None /\ assignment[Handle(r)] = contact[r].persona

\* No failure and no restart makes the run create a second session for a contact:
\* whatever it cannot account for is left to a person.
OneSession == \A r \in Regs : calls[r] <= 1

\* A contact that is due is started, however many others wait for their greeting,
\* a person or nothing at all.
StartedInTurn ==
  \A r \in Regs :
    (contact[r] # None /\ contact[r].state = "scheduled" /\ contact[r].due) ~>
      (contact[r] = None \/ contact[r].state # "scheduled")

\* docs/specs/persona-discovery-admin.md: the next background run attempts to send
\* the notification that every successful request to register has stored.
NoticeAttempted == \A n \in Regs : (notice[n] # None) ~> (notice[n] = None)
=============================================================================
