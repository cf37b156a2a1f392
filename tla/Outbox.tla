------------------------------- MODULE Outbox -------------------------------
(***************************************************************************)
(* The outbox of one conversation (apps/api/src/outbox/outbox.ts): the     *)
(* ledger of its sends, the calls of the persona that make them one at a   *)
(* time, and the observers (intake, context reads) that settle the same    *)
(* rows without waiting for a call.  It runs on top of Gateway.            *)
(*                                                                         *)
(* A step ends where the code waits: for the lock, for typing, for a       *)
(* timer, or for an answer of the gateway.  The SQLite statements between  *)
(* two waits run synchronously in the application's Durable Object, so     *)
(* they belong to one step.                                                *)
(***************************************************************************)
EXTENDS Gateway

CONSTANTS
  Tapbacks,           \* reactions: sends without an attempt identity
  Introduction,       \* the bubble that introduces a new relationship
  Observers,          \* concurrent readers that settle rows
  NeedsIntroduction,  \* the user had an earlier relationship
  MaxPolls,           \* status checks after an accepted submit: 16 in the code
  Free,               \* nobody holds the conversation's permit
  Holder              \* the call that holds it, as the owner of a check

Sends    == Attempts \cup Tapbacks
Calls    == (Attempts \ {Introduction}) \cup Tapbacks
Settlers == Observers \cup {Holder}

ASSUME OutboxAssumption ==
  /\ Introduction \in Attempts
  /\ Attempts \cap Tapbacks = {}
  /\ NeedsIntroduction \in BOOLEAN
  /\ MaxPolls \in Nat \ {0}
  /\ Free \notin Sends
  /\ Holder \notin Observers

VARIABLES
  state,     \* state of the send's row in the ledger, "none" without a row
  late,      \* rows whose late column is 1
  notify,    \* rows whose notification_pending column is 1
  rowID,     \* id of the row, 0 without a row; ids ascend
  lastID,    \* the last id given out
  inFlight,  \* rows whose submit has not returned, in memory
  standing,  \* what the conversation admits
  lock,      \* the call that holds the conversation's permit
  stage,     \* how far the holder is
  cur,       \* what the holder is sending: the introduction or its own send
  polls,     \* status checks the holder has made
  call,      \* what the caller of each call knows
  chk,       \* the status check each settler is waiting for
  gaveUp     \* history: rows unresolved when their call ended

rowVars    == <<state, late, notify, rowID, lastID>>
holderVars == <<lock, stage, cur, polls>>
outboxVars == <<rowVars, inFlight, standing, holderVars, call, chk, gaveUp>>
vars       == <<gatewayVars, outboxVars>>

RowStates   == {"none", "recorded", "uncertain", "sent", "delivered", "failed", "not_sent"}
Stages      == {"none", "before", "scan", "earlier", "composing", "submitting", "polling",
                "reacting"}
Results     == {"sent", "in_doubt", "not_sent", "error", "lost"}
CallStates  == {"idle", "waiting", "running", "stale"} \cup Results
Standings   == {"open", "rebuilding", "blocked", "ended"}
Modes       == {"resolve", "status", "recent"}
Check       == [step : {"idle", "asked", "answered"}, row : Sends, mode : Modes,
                late : BOOLEAN, verdict : Verdicts]

OutboxTypeOK ==
  /\ GatewayTypeOK
  /\ state \in [Sends -> RowStates]
  /\ late \subseteq Sends
  /\ notify \subseteq Sends
  /\ rowID \in [Sends -> Nat]
  /\ lastID \in Nat
  /\ inFlight \subseteq Attempts
  /\ standing \in Standings
  /\ lock \in Calls \cup {Free}
  /\ stage \in Stages
  /\ cur \in Sends
  /\ polls \in 0 .. MaxPolls
  /\ call \in [Calls -> CallStates]
  /\ chk \in [Settlers -> Check]
  /\ gaveUp \subseteq Sends

NoCheck == [step |-> "idle", row |-> Introduction, mode |-> "status",
            late |-> FALSE, verdict |-> "unknown"]

OutboxInit ==
  /\ GatewayInit
  /\ state = [s \in Sends |-> "none"]
  /\ late = {} /\ notify = {} /\ inFlight = {} /\ gaveUp = {}
  /\ rowID = [s \in Sends |-> 0] /\ lastID = 0
  /\ standing = "open"
  /\ lock = Free /\ stage = "none" /\ cur = Introduction /\ polls = 0
  /\ call = [f \in Calls |-> "idle"]
  /\ chk = [x \in Settlers |-> NoCheck]

-----------------------------------------------------------------------------
(* The ledger. *)

Live(s)    == state[s] \in {"recorded", "uncertain"}
Terminal(s) == state[s] \in {"sent", "delivered", "failed"}
Attempted(s) == state[s] \notin {"none", "not_sent"}
Unresolved == {s \in Sends : Live(s) \/ s \in notify}

\* pending: the oldest row whose outcome is open or not yet told to the persona.
Oldest(s) == s \in Unresolved /\ \A t \in Unresolved : rowID[s] <= rowID[t]

\* A row is inserted behind every other.
Insert(s, initial) ==
  /\ state' = [state EXCEPT ![s] = initial]
  /\ rowID' = [rowID EXCEPT ![s] = lastID + 1]
  /\ lastID' = lastID + 1

\* Nothing was sent that introduces this relationship, and nobody tried.
IntroductionDue ==
  /\ NeedsIntroduction
  /\ standing # "ended"
  /\ state[Introduction] = "none"
  /\ \A a \in Attempts : state[a] \notin {"recorded", "uncertain", "sent", "delivered"}

\* Mutants: a closed row is settled again; an outcome that nobody waits for any
\* more is late only if it was before.
SettlesClosed(c)  == c.verdict # "unknown"
CountsLateBefore(c) == c.late

\* settle: an outcome changes a row only while it is open.  It counts as late
\* when no submit of this row is waiting; otherwise the column keeps the value
\* the check read before it asked.
Settles(c)  == c.verdict # "unknown" /\ Live(c.row)
CountsLate(c) == c.row \notin inFlight \/ c.late

StateAfter(c) == IF Settles(c) THEN [state EXCEPT ![c.row] = c.verdict] ELSE state
LateAfter(c) ==
  IF ~Settles(c) THEN late ELSE IF CountsLate(c) THEN late \cup {c.row} ELSE late \ {c.row}
NotifyAfter(c) == IF Settles(c) /\ CountsLate(c) THEN notify \cup {c.row} ELSE notify

-----------------------------------------------------------------------------
(* check: read a row, ask the gateway about it, settle what it answers. *)

\* An identified row is resolved, which fences a request that has not arrived,
\* unless its own submit is waiting; a tapback is looked up among the messages.
ModeOf(s) ==
  CASE s \in Tapbacks -> "recent"
    [] s \in inFlight -> "status"
    [] OTHER          -> "resolve"

Ask(x, s, mode) ==
  chk' = [chk EXCEPT ![x] = [step |-> "asked", row |-> s, mode |-> mode,
                             late |-> s \in late, verdict |-> "unknown"]]

\* The gateway executes the question; a message that looks like the tapback may
\* belong to anything, so its status is any.
Told(x, verdict) == chk' = [chk EXCEPT ![x].step = "answered", ![x].verdict = verdict]

Execute(x) ==
  LET s == chk[x].row
  IN /\ chk[x].step = "asked"
     /\ \/ /\ chk[x].mode = "resolve"
           /\ Resolve(s)
           /\ Told(x, IF message[s] = "absent" THEN "failed" ELSE Status(s))
        \/ /\ chk[x].mode = "status"
           /\ Told(x, Status(s))
           /\ UNCHANGED gatewayVars
        \/ /\ chk[x].mode = "recent"
           /\ \E verdict \in Verdicts : Told(x, verdict)
           /\ UNCHANGED gatewayVars
     /\ UNCHANGED <<rowVars, inFlight, standing, holderVars, call, gaveUp>>

\* The RPC of a status fails: the outcome stays unknown.
StatusFails(x) ==
  /\ chk[x].step # "idle"
  /\ chk[x].mode = "status"
  /\ Told(x, "unknown")
  /\ UNCHANGED <<gatewayVars, rowVars, inFlight, standing, holderVars, call, gaveUp>>

\* The RPC of any other check fails, and with it what the observer was doing.
ObserverFails(o) ==
  /\ chk[o].step # "idle"
  /\ chk[o].mode # "status"
  /\ chk' = [chk EXCEPT ![o] = NoCheck]
  /\ UNCHANGED <<gatewayVars, rowVars, inFlight, standing, holderVars, call, gaveUp>>

\* observe: the context read of a turn checks the oldest row if it is open.
Observe(o) ==
  /\ standing \in {"open", "rebuilding"}
  /\ chk[o].step = "idle"
  /\ \E s \in Sends : Oldest(s) /\ Live(s) /\ Ask(o, s, ModeOf(s))
  /\ UNCHANGED <<gatewayVars, rowVars, inFlight, standing, holderVars, call, gaveUp>>

\* reconcile: intake meets a message of ours in the history and asks for the
\* status of the row with its identity.
Reconcile(o) ==
  /\ standing = "open"
  /\ chk[o].step = "idle"
  /\ \E a \in Attempts : message[a] # "absent" /\ Ask(o, a, "status")
  /\ UNCHANGED <<gatewayVars, rowVars, inFlight, standing, holderVars, call, gaveUp>>

ObserverSettles(o) ==
  /\ chk[o].step = "answered"
  /\ state' = StateAfter(chk[o])
  /\ late' = LateAfter(chk[o])
  /\ notify' = NotifyAfter(chk[o])
  /\ chk' = [chk EXCEPT ![o] = NoCheck]
  /\ UNCHANGED <<gatewayVars, rowID, lastID, inFlight, standing, holderVars, call, gaveUp>>

-----------------------------------------------------------------------------
(* A call of the persona: send, sendPhoto or react. *)

\* The call finds the conversation of its session, or fails.
Deliver(f) ==
  call' = [call EXCEPT ![f] = IF standing \in {"open", "rebuilding"} THEN "waiting" ELSE "error"]

Invoke(f) ==
  /\ call[f] = "idle"
  /\ Deliver(f)
  /\ UNCHANGED <<gatewayVars, rowVars, inFlight, standing, holderVars, chk, gaveUp>>

\* The same call is delivered again, whatever it was told before.
Repeat(f) ==
  /\ call[f] \in Results
  /\ Deliver(f)
  /\ UNCHANGED <<gatewayVars, rowVars, inFlight, standing, holderVars, chk, gaveUp>>

\* Mutant: the introduction is forgotten.
FirstItself(f) == f

\* A text is preceded by the introduction that is due, a tapback never is.
First(f) == IF f \in Attempts /\ IntroductionDue THEN Introduction ELSE f

\* The permit is granted.
Acquire(f) ==
  /\ lock = Free
  /\ call[f] \in {"waiting", "stale"}
  /\ call' = IF call[f] = "waiting" THEN [call EXCEPT ![f] = "running"] ELSE call
  /\ lock' = f
  /\ stage' = "before"
  /\ cur' = First(f)
  /\ UNCHANGED <<gatewayVars, rowVars, inFlight, standing, polls, chk, gaveUp>>

\* The holder's call ends with a result and releases the permit.
Release(result) ==
  /\ call' = [call EXCEPT ![lock] = result]
  /\ lock' = Free /\ stage' = "none" /\ cur' = Introduction /\ polls' = 0

Return(result) ==
  /\ Release(result)
  /\ chk' = [chk EXCEPT ![Holder] = NoCheck]

\* What ends in doubt is left to the checks of later calls and observers.
GiveUp(open) == gaveUp' = IF open THEN gaveUp \cup {cur} ELSE gaveUp

\* active: the conversation is live, and with the session the call came from.
Active == standing = "open" /\ call[lock] = "running"

Refused ==
  /\ stage = "before"
  /\ ~Active \/ state[cur] # "none"
  /\ Return("not_sent")
  /\ UNCHANGED <<gatewayVars, rowVars, inFlight, standing, gaveUp>>

Before ==
  /\ stage = "before"
  /\ Active
  /\ state[cur] = "none"
  /\ stage' = "scan"
  /\ UNCHANGED <<gatewayVars, rowVars, inFlight, standing, lock, cur, polls, call, chk, gaveUp>>

\* Mutants: a send waits for nothing; it waits for open rows only.
UnblockedAlways == TRUE
UnblockedByTold == \A s \in Sends : ~Live(s)

\* Nothing before this send is open or waits to be told.
Unblocked == Unresolved = {}

Clear ==
  /\ stage = "scan"
  /\ Unblocked
  /\ stage' = "composing"
  /\ UNCHANGED <<gatewayVars, rowVars, inFlight, standing, lock, cur, polls, call, chk, gaveUp>>

Scan ==
  /\ stage = "scan"
  /\ \E s \in Sends : Oldest(s) /\ Ask(Holder, s, ModeOf(s))
  /\ stage' = "earlier"
  /\ UNCHANGED <<gatewayVars, rowVars, inFlight, standing, lock, cur, polls, call, gaveUp>>

\* Mutant: the notification stays pending.
ToldKept(c) == NotifyAfter(c)

\* The persona is told of the row, so its notification is no longer pending.
ToldAfter(c) == NotifyAfter(c) \ {c.row}

\* The earlier row is settled as far as it can be: one still in doubt refuses the
\* call, a failed one is passed over, a landed one is reported instead of sending.
Earlier ==
  LET c == chk[Holder]
      found == StateAfter(c)[c.row]
  IN /\ stage = "earlier"
     /\ c.step = "answered"
     /\ late' = LateAfter(c)
     /\ \/ /\ found \in {"recorded", "uncertain"}
           /\ Return("not_sent")
           /\ UNCHANGED <<state, notify, rowID, lastID>>
        \/ /\ found \in {"sent", "delivered"}
           /\ notify' = ToldAfter(c)
           /\ state' = [StateAfter(c) EXCEPT ![cur] = "not_sent"]
           /\ rowID' = [rowID EXCEPT ![cur] = lastID + 1]
           /\ lastID' = lastID + 1
           /\ Return("not_sent")
        \/ /\ found \notin {"recorded", "uncertain", "sent", "delivered"}
           /\ notify' = ToldAfter(c)
           /\ state' = StateAfter(c)
           /\ stage' = "scan"
           /\ chk' = [chk EXCEPT ![Holder] = NoCheck]
           /\ UNCHANGED <<rowID, lastID, lock, cur, polls, call>>
     /\ UNCHANGED <<gatewayVars, inFlight, standing, gaveUp>>

EarlierFails ==
  /\ stage = "earlier"
  /\ chk[Holder].step # "idle"
  /\ chk[Holder].mode # "status"
  /\ Return("error")
  /\ UNCHANGED <<gatewayVars, rowVars, inFlight, standing, gaveUp>>

\* A message of his arrives while the bubble is typed, the photo cannot be
\* loaded, or the tapback's target is not the latest message.
Abandon ==
  /\ stage = "composing"
  /\ \E result \in {"not_sent", "error"} : Return(result)
  /\ UNCHANGED <<gatewayVars, rowVars, inFlight, standing, gaveUp>>

\* recordAttempt refuses when the conversation changed during the typing.
Shut ==
  /\ stage = "composing"
  /\ ~Active
  /\ Return("not_sent")
  /\ UNCHANGED <<gatewayVars, rowVars, inFlight, standing, gaveUp>>

RecordText ==
  /\ stage = "composing"
  /\ Active
  /\ cur \in Attempts
  /\ Insert(cur, "recorded")
  /\ inFlight' = inFlight \cup {cur}
  /\ Request(cur)
  /\ stage' = "submitting"
  /\ UNCHANGED <<late, notify, standing, lock, cur, polls, call, chk, gaveUp>>

RecordTapback ==
  /\ stage = "composing"
  /\ Active
  /\ cur \in Tapbacks
  /\ Insert(cur, "recorded")
  /\ stage' = "reacting"
  /\ UNCHANGED <<gatewayVars, late, notify, inFlight, standing, lock, cur, polls, call, chk,
                 gaveUp>>

\* The gateway answered the submit; what became of it is asked next.
SubmitAnswered ==
  /\ stage = "submitting"
  /\ cur \in acked
  /\ state' = IF state[cur] = "recorded" THEN [state EXCEPT ![cur] = "uncertain"] ELSE state
  /\ stage' = "polling"
  /\ UNCHANGED <<gatewayVars, late, notify, rowID, lastID, inFlight, standing,
                 lock, cur, polls, call, chk, gaveUp>>

\* The submit failed or timed out, whatever became of the request.
SubmitFails ==
  LET open == state[cur] = "recorded"
  IN /\ stage = "submitting"
     /\ state' = IF open THEN [state EXCEPT ![cur] = "uncertain"] ELSE state
     /\ late' = IF open THEN late \cup {cur} ELSE late
     /\ notify' = IF open THEN notify \cup {cur} ELSE notify
     /\ inFlight' = inFlight \ {cur}
     /\ GiveUp(open)
     /\ Return("in_doubt")
     /\ UNCHANGED <<gatewayVars, rowID, lastID, standing>>

AskPoll ==
  /\ stage = "polling"
  /\ chk[Holder].step = "idle"
  /\ Ask(Holder, cur, "status")
  /\ UNCHANGED <<gatewayVars, rowVars, inFlight, standing, holderVars, call, gaveUp>>

\* One status check of the holder's own row: it landed, or it is asked again, or
\* the call ends in doubt, with the outcome left to be told later.
Poll ==
  LET c == chk[Holder]
      found == StateAfter(c)[cur]
  IN /\ stage = "polling"
     /\ c.step = "answered"
     /\ state' = StateAfter(c)
     /\ \/ /\ found = "uncertain"
           /\ polls + 1 < MaxPolls
           /\ polls' = polls + 1
           /\ chk' = [chk EXCEPT ![Holder] = NoCheck]
           /\ late' = LateAfter(c)
           /\ notify' = NotifyAfter(c)
           /\ UNCHANGED <<inFlight, lock, stage, cur, call, gaveUp>>
        \/ /\ found \in {"sent", "delivered"}
           /\ late' = LateAfter(c)
           /\ notify' = NotifyAfter(c)
           /\ inFlight' = inFlight \ {cur}
           /\ \/ /\ cur = lock
                 /\ Return("sent")
              \/ /\ cur # lock
                 /\ cur' = lock
                 /\ stage' = "before"
                 /\ polls' = 0
                 /\ chk' = [chk EXCEPT ![Holder] = NoCheck]
                 /\ UNCHANGED <<lock, call>>
           /\ UNCHANGED gaveUp
        \/ /\ found \notin {"sent", "delivered"}
           /\ found = "uncertain" => polls + 1 = MaxPolls
           /\ late' = LateAfter(c) \cup {cur}
           /\ notify' = NotifyAfter(c) \cup {cur}
           /\ inFlight' = inFlight \ {cur}
           /\ GiveUp(found = "uncertain")
           /\ Return("in_doubt")
     /\ UNCHANGED <<gatewayVars, rowID, lastID, standing>>

\* The gesture returns; the UPDATE does not ask what the row is by now.
Reacted ==
  /\ stage = "reacting"
  /\ \/ /\ state' = [state EXCEPT ![cur] = "sent"]
        /\ Return("sent")
        /\ UNCHANGED gaveUp
     \/ /\ state' = [state EXCEPT ![cur] = "uncertain"]
        /\ GiveUp(TRUE)
        /\ Return("in_doubt")
  /\ UNCHANGED <<gatewayVars, late, notify, rowID, lastID, inFlight, standing>>

HolderStep ==
  \/ Refused \/ Before \/ Clear \/ Scan \/ Earlier \/ EarlierFails \/ Abandon \/ Shut
  \/ RecordText \/ RecordTapback \/ SubmitAnswered \/ SubmitFails \/ AskPoll \/ Poll \/ Reacted

-----------------------------------------------------------------------------
(* What happens to the calls from outside. *)

\* Mutant: nothing ensures that the row leaves inFlight.
InterruptKeeps ==
  /\ lock # Free
  /\ inFlight' = inFlight
  /\ GiveUp(Live(cur))
  /\ Return("lost")
  /\ UNCHANGED <<gatewayVars, rowVars, standing>>

Underway == {"waiting", "running", "stale"}

\* The fiber of the holder's call is interrupted; ensuring clears inFlight.
Interrupt ==
  /\ lock # Free
  /\ inFlight' = inFlight \ {cur}
  /\ GiveUp(Live(cur))
  /\ Return("lost")
  /\ UNCHANGED <<gatewayVars, rowVars, standing>>

\* The application is evicted or deployed anew: only the ledger remains.
Restart ==
  /\ call' = [f \in Calls |-> IF call[f] \in Underway THEN "lost" ELSE call[f]]
  /\ inFlight' = {}
  /\ lock' = Free /\ stage' = "none" /\ cur' = Introduction /\ polls' = 0
  /\ chk' = [x \in Settlers |-> NoCheck]
  /\ GiveUp(lock # Free /\ Live(cur))
  /\ UNCHANGED <<gatewayVars, rowVars, standing>>

\* release: an operator states what became of a row without an attempt identity.
ReleaseLegacy(s) ==
  /\ lock = Free
  /\ s \in Tapbacks
  /\ Live(s)
  /\ \E outcome \in {"failed", "delivered"} : state' = [state EXCEPT ![s] = outcome]
  /\ late' = late \cup {s}
  /\ notify' = notify \cup {s}
  /\ UNCHANGED <<gatewayVars, rowID, lastID, inFlight, standing, holderVars, call, chk, gaveUp>>

\* An operator blocks the handle.
Block ==
  /\ standing \in {"open", "rebuilding"}
  /\ standing' = "blocked"
  /\ UNCHANGED <<gatewayVars, rowVars, inFlight, holderVars, call, chk, gaveUp>>

\* The conversation gets a new session, which is not live before the history was
\* replayed into it; the calls of the old one are stale for good.
Rebuild ==
  /\ standing \in {"open", "rebuilding"}
  /\ standing' = "rebuilding"
  /\ call' = [f \in Calls |-> IF call[f] \in Underway THEN "stale" ELSE call[f]]
  /\ UNCHANGED <<gatewayVars, rowVars, inFlight, holderVars, chk, gaveUp>>

Rebuilt ==
  /\ standing = "rebuilding"
  /\ standing' = "open"
  /\ UNCHANGED <<gatewayVars, rowVars, inFlight, holderVars, call, chk, gaveUp>>

\* The persona ends the conversation, which waits for the permit.
PersonaEnd ==
  /\ lock = Free
  /\ standing = "open"
  /\ standing' = "ended"
  /\ UNCHANGED <<gatewayVars, rowVars, inFlight, holderVars, call, chk, gaveUp>>

\* An operator ends it, which does not.
OperatorEnd ==
  /\ standing # "ended"
  /\ standing' = "ended"
  /\ UNCHANGED <<gatewayVars, rowVars, inFlight, holderVars, call, chk, gaveUp>>

GatewayMoves == (\E a \in Attempts : GatewayStep(a)) /\ UNCHANGED outboxVars

OutboxNext ==
  \/ GatewayMoves
  \/ \E f \in Calls : Invoke(f) \/ Repeat(f) \/ Acquire(f)
  \/ HolderStep
  \/ \E x \in Settlers : Execute(x) \/ StatusFails(x)
  \/ \E o \in Observers : Observe(o) \/ Reconcile(o) \/ ObserverSettles(o) \/ ObserverFails(o)
  \/ \E s \in Tapbacks : ReleaseLegacy(s)
  \/ Interrupt \/ Restart \/ Block \/ Rebuild \/ Rebuilt \/ PersonaEnd \/ OperatorEnd

OutboxSpec == OutboxInit /\ [][OutboxNext]_vars

\* The permit is granted in the order of arrival, so a waiting call is not passed
\* over for ever, and each RPC of a call is answered or ends by its client's
\* timeout.  Nothing is assumed of the gateway, the callers or the observers.
OutboxFairness ==
  /\ \A f \in Calls : SF_vars(Acquire(f))
  /\ WF_vars(HolderStep)
  /\ WF_vars(Execute(Holder) \/ StatusFails(Holder))

FairOutboxSpec == OutboxSpec /\ OutboxFairness

-----------------------------------------------------------------------------
(* Properties. *)

\* The ledger says about a bubble only what happened on the phone: a row reads
\* failed only when Apple has not accepted the bubble and nothing on its way can
\* still make it, and reads sent or delivered only when Apple has accepted it,
\* whichever of the call, the later calls and the observers wrote it.
LedgerTruthful ==
  \A a \in Attempts :
    /\ Landed(state[a]) => apple[a] = "accepted"
    /\ state[a] = "failed" =>
         /\ apple[a] # "accepted"
         /\ bridge[a] \notin {"queued", "written", "lost"}
         /\ message[a] # "absent" \/ a \in fenced

\* Bubbles reach the phone in the order of the ledger: when a bubble has been
\* handed to the network, the fate of every bubble recorded before it is decided,
\* even when their calls were interrupted or the application restarted.
NoOvertaking ==
  \A a, b \in Attempts :
    Attempted(a) /\ b \in requests /\ rowID[a] < rowID[b] => Status(a) # "unknown"

\* The persona acts on a settled past: while a row is attempted, no row before it
\* is open or holds an outcome the persona was not told yet.
EarlierToldFirst ==
  \A s, t \in Sends :
    rowID[s] > 0 /\ rowID[s] < rowID[t] /\ Attempted(t) => s \notin Unresolved

\* A bubble whose call ended without its outcome is not forgotten: when the
\* outcome arrives, whoever settles the row marks it late, so that the transcript
\* is corrected from the results of the outbox.
LateOutcomeReported ==
  \A s \in gaveUp : Terminal(s) => s \in late

\* The outcome of a bubble is final: a slow observer, holding an answer it was
\* given long ago, never overwrites what another one settled.
OutcomeFinal ==
  [][\A a \in Attempts : Terminal(a) => state'[a] = state[a]]_vars

\* The one submit that may be unanswered belongs to the holder of the permit.
InFlightHeld == inFlight # {} => inFlight = {cur} /\ stage \in {"submitting", "polling"}

\* A call never waits for ever, however often answers are lost and earlier rows
\* stay in doubt: each is answered, refused or lost with its process.
EveryCallReturns ==
  \A f \in Calls : call[f] = "waiting" ~> call[f] \in Results

\* The thread on the phone as Thread describes it: Apple's decision lands a
\* bubble, an open row is an open bubble, and a failed row is a dead one.
BubblePhase ==
  [a \in Attempts |->
     IF apple[a] = "accepted" THEN "landed"
     ELSE IF Live(a) THEN "open"
     ELSE IF state[a] = "failed" THEN "dead" ELSE "unused"]

Phone == INSTANCE Thread WITH Bubbles <- Attempts, phase <- BubblePhase

\* Ledger, permit, fences and gateway together implement the thread: one bubble
\* at a time, none after it was given up, through every loss and restart.
ImplementsThread == Phone!Spec

\* A call that ended in doubt is corrected once its row is settled.  The decision
\* record says that a send in doubt may change stored tool history once its
\* outcome settles; results reports late rows only.
InDoubtOutcomeReported ==
  \A f \in Calls : call[f] = "in_doubt" /\ Terminal(f) => f \in late

\* In a new relationship with a user who had one before, the first bubble that is
\* attempted is the introduction.
IntroducedFirst ==
  NeedsIntroduction =>
    \A a \in Attempts : Attempted(a) => Attempted(Introduction)

=============================================================================
