------------------------------- MODULE Turns --------------------------------
(***************************************************************************)
(* Turns of the model that failed (failed-turns.ts, turn-work.ts): a tick  *)
(* looks at sessions of the executor, records what failed, and lets a turn *)
(* continue when its time has come.  Turns that failed on quota wait       *)
(* together and are probed one at a time; a turn of a conversation that    *)
(* has sent something is left to a person.                                 *)
(*                                                                         *)
(* Times are counted from now; 0 is due.  A fingerprint is only compared   *)
(* with the one of the session: a record is current as long as no other    *)
(* execution of the session ended.  A generation is only compared with the *)
(* one that was read: job.mine says that the row is still that one.        *)
(***************************************************************************)
EXTENDS Integers, Sequences, FiniteSets, SequencesExt, FiniteSetsExt

CONSTANTS
  Sessions,    \* sessions of live conversations
  Failures,    \* how an execution may fail: "quota", "error"
  Sending,     \* sessions that may send something
  Leaving,     \* sessions whose conversation may end
  ProbeDelay,  \* time between two probes of the quota
  MaxPrompts,  \* messages of users
  MaxFaults,   \* hints that get lost, requests that fail, restarts
  None

ASSUME TurnsAssumption ==
  /\ Sending \subseteq Sessions /\ Leaving \subseteq Sessions /\ None \notin Sessions
  /\ Failures \subseteq {"quota", "error"}
  /\ ProbeDelay \in Nat \ {0}
  /\ MaxPrompts \in Nat /\ MaxFaults \in Nat

VARIABLES
  active,    \* sessions whose conversation is live
  exec,      \* the session in the executor
  sent,      \* sessions with an outgoing row in send
  failed,    \* failed_turn
  tried,     \* sessions in the order of last_retry_at of their last row in failed_turn
  probe,     \* the rows turn:* of application_work
  unheard,   \* sessions that ended an execution nobody has told or seen
  job,       \* the tick
  since,     \* time since the last probe of the quota (history)
  prompts, faults

tables == <<failed, tried, probe>>
vars == <<active, exec, sent, tables, unheard, job, since, prompts, faults>>

Times   == 0 .. ProbeDelay
Execs   == [running : BOOLEAN, inbox : BOOLEAN, outcome : Failures \cup {"ok"},
            continued : BOOLEAN]
Records == [quota : BOOLEAN, review : BOOLEAN, due : Times, current : BOOLEAN,
            pushed : BOOLEAN]
Probes  == [due : {0, 1}, resume : BOOLEAN]
Reads   == [failed : BOOLEAN, quota : BOOLEAN, newer : BOOLEAN, current : BOOLEAN]
Jobs    == [stage : {"idle", "inspect", "record", "select", "dispatch", "retry", "resume"},
            todo : SUBSET Sessions, at : Sessions \cup {None}, read : Reads \cup {None},
            mine : BOOLEAN, then : {"idle", "inspect", "dispatch", "resume"}]

ASSUME NoneAssumption == None \notin Records \cup Probes \cup Reads

TurnsTypeOK ==
  /\ active \subseteq Sessions /\ sent \subseteq Sessions /\ unheard \subseteq Sessions
  /\ exec \in [Sessions -> Execs]
  /\ failed \in [Sessions -> Records \cup {None}]
  /\ tried \in Seq(Sessions) /\ IsInjective(tried)
  /\ probe \in [Sessions -> Probes \cup {None}]
  /\ job \in Jobs
  /\ since \in Times
  /\ prompts \in 0 .. MaxPrompts /\ faults \in 0 .. MaxFaults

Idle == [stage |-> "idle", todo |-> {}, at |-> None, read |-> None, mine |-> FALSE,
         then |-> "idle"]

TurnsInit ==
  /\ active = Sessions /\ sent = {} /\ unheard = {}
  /\ exec = [s \in Sessions |->
               [running |-> FALSE, inbox |-> FALSE, outcome |-> "ok", continued |-> FALSE]]
  /\ failed = [s \in Sessions |-> None] /\ tried = <<>>
  /\ probe = [s \in Sessions |-> None]
  /\ job = Idle
  /\ since = ProbeDelay
  /\ prompts = 0 /\ faults = 0

Fault == faults < MaxFaults /\ faults' = faults + 1

Earlier(time, other) == IF time < other THEN time ELSE other
LaterOf(time, other) == IF time > other THEN time ELSE other

\* Failed turns the tick is to try again, and those of them that wait for the quota.
Open == {s \in Sessions : failed[s] # None /\ ~failed[s].review}
Held == {s \in Open : failed[s].quota}

\* The lock of the handle is taken by the tick.
Locked(s) == job.stage \in {"record", "retry"} /\ job.at = s

-----------------------------------------------------------------------------
(* The executor and its hints. *)

\* scheduleWork: the row is due no later, and another one than was read.
Scheduled(s, time) ==
  [probe EXCEPT ![s] = IF probe[s] = None THEN [due |-> time, resume |-> FALSE]
                       ELSE [probe[s] EXCEPT !.due = Earlier(probe[s].due, time)]]
NotMine(s) == [job EXCEPT !.mine = @ /\ job.at # s]

\* The user writes: his message is admitted under the lock of the handle.
Prompt(s) ==
  /\ s \in active /\ ~Locked(s)
  /\ prompts < MaxPrompts /\ prompts' = prompts + 1
  /\ probe' = Scheduled(s, 1)
  /\ job' = NotMine(s)
  /\ exec' = [exec EXCEPT ![s].inbox = TRUE]
  /\ UNCHANGED <<active, sent, failed, tried, unheard, since, faults>>

Start(s) ==
  /\ exec[s].inbox /\ ~exec[s].running
  /\ exec' = [exec EXCEPT ![s].running = TRUE, ![s].inbox = FALSE]
  /\ UNCHANGED <<active, sent, tables, unheard, job, since, prompts, faults>>

Send(s) ==
  /\ s \in Sending \cap active /\ exec[s].running
  /\ sent' = sent \cup {s}
  /\ UNCHANGED <<active, exec, tables, unheard, job, since, prompts, faults>>

\* The execution ends; the application is told, or the hint is lost.
End(s, outcome) ==
  /\ exec[s].running
  /\ exec' = [exec EXCEPT ![s].running = FALSE, ![s].outcome = outcome, ![s].continued = FALSE]
  /\ failed' = [failed EXCEPT ![s] = IF @ = None THEN None ELSE [@ EXCEPT !.current = FALSE]]
  /\ LET seen(j) == IF j.at = s /\ j.read # None THEN [j EXCEPT !.read.current = FALSE] ELSE j
     IN \/ /\ probe' = IF s \in active THEN Scheduled(s, 0) ELSE probe
           /\ job' = seen(NotMine(s))
           /\ unheard' = unheard \ {s}
           /\ UNCHANGED faults
        \/ /\ Fault
           /\ unheard' = unheard \cup {s}
           /\ job' = seen(job)
           /\ UNCHANGED probe
  /\ UNCHANGED <<active, sent, tried, since, prompts>>

\* The conversation ends: its rows go with it.
Leave(s) ==
  /\ s \in active \cap Leaving /\ ~Locked(s)
  /\ active' = active \ {s}
  /\ failed' = [failed EXCEPT ![s] = None]
  /\ tried' = RemoveFirst(tried, s)
  /\ probe' = [probe EXCEPT ![s] = None]
  /\ UNCHANGED <<exec, sent, unheard, job, since, prompts, faults>>

\* A tick takes the time once, when it begins.
Pass ==
  /\ job.stage = "idle"
  /\ failed' = [s \in Sessions |->
       IF failed[s] = None THEN None ELSE [failed[s] EXCEPT !.due = LaterOf(0, @ - 1)]]
  /\ probe' = [s \in Sessions |->
       IF probe[s] = None THEN None ELSE [probe[s] EXCEPT !.due = 0]]
  /\ since' = Earlier(ProbeDelay, since + 1)
  /\ UNCHANGED <<active, exec, sent, tried, unheard, job, prompts, faults>>

-----------------------------------------------------------------------------
(* inspect: the sessions are looked at. *)

DueTurns ==
  {s \in active : \/ probe[s] # None /\ probe[s].due = 0
                  \/ s \in Open /\ failed[s].due = 0}

\* The lane turns looks at what is due, the lane recovery at everything.
Begin ==
  /\ job.stage = "idle"
  /\ \E todo \in {DueTurns, active} \ {{}} : job' = [Idle EXCEPT !.stage = "inspect", !.todo = todo]
  /\ UNCHANGED <<active, exec, sent, tables, unheard, since, prompts, faults>>

\* What the executor says: how the last execution ended, which its last message only
\* shows while no other one runs.
Says(s) ==
  LET fails == exec[s].outcome # "ok"
  IN {[failed  |-> fails \/ exec[s].inbox,
       quota   |-> shown /\ exec[s].outcome = "quota",
       newer   |-> failed[s] = None \/ ~failed[s].current,
       current |-> TRUE] : shown \in {TRUE, ~exec[s].running}}

\* A turn that is to be resumed or whose time has not come is not looked at.
Skips(s) == s \notin active \/ (probe[s] # None /\ (probe[s].resume \/ probe[s].due > 0))

Look(s) ==
  /\ job.stage = "inspect" /\ s \in job.todo
  /\ \/ /\ Skips(s)
        /\ job' = [job EXCEPT !.todo = @ \ {s}]
     \/ /\ ~Skips(s)
        /\ \E says \in Says(s) :
             job' = [job EXCEPT !.stage = "record", !.todo = @ \ {s}, !.at = s, !.read = says,
                                !.mine = probe[s] # None, !.then = "inspect"]
  /\ UNCHANGED <<active, exec, sent, tables, unheard, since, prompts, faults>>

Goes(to) == [job EXCEPT !.stage = to, !.at = None, !.read = None, !.mine = FALSE]

\* The session cannot be looked at: later again.
LookFails ==
  LET s == job.at
  IN /\ job.stage = "record" /\ job.then = "inspect"
     /\ Fault
     /\ probe' = [probe EXCEPT ![s] = IF job.mine THEN [@ EXCEPT !.due = 1]
                                      ELSE IF @ = None THEN [due |-> 1, resume |-> FALSE] ELSE @]
     /\ failed' = IF failed[s] = None \/ probe'[s].due = 0 THEN failed
                  ELSE [failed EXCEPT ![s].due = LaterOf(@, 1),
                                      ![s].pushed = @ \/ failed[s].due = 0]
     /\ job' = Goes("inspect")
     /\ UNCHANGED <<active, exec, sent, tried, unheard, since, prompts>>

\* record: the failure joins the turns that wait, or makes all others wait.
Failure(s) ==
  LET waiting == Held # {}
      quota   == waiting \/ job.read.quota
      due     == IF waiting THEN Min({failed[t].due : t \in Held})
                 ELSE IF quota THEN ProbeDelay ELSE 1
  IN [t \in Sessions |->
        IF t = s THEN [quota |-> quota, review |-> s \in sent, due |-> due,
                       current |-> job.read.current, pushed |-> FALSE]
        ELSE IF t \in Open /\ quota /\ ~waiting /\ s \notin sent
             THEN [failed[t] EXCEPT !.quota = TRUE, !.due = due, !.pushed = FALSE]
        ELSE failed[t]]

\* Mutant: the row is deleted, whoever wrote it last.
LookedAtAny(s, rows) == [rows EXCEPT ![s] = None]

\* The row that led here is done with, unless it is another one by now.
LookedAt(s, rows) == IF job.mine THEN [rows EXCEPT ![s] = None] ELSE rows

\* After a resumption its own row is due at once.
RowAfter(s, rows) ==
  IF job.then = "inspect" THEN LookedAt(s, rows)
  ELSE IF job.mine THEN [rows EXCEPT ![s].due = 0] ELSE rows

\* succeeded: one turn that came through releases all that wait for the quota.
Released(s) == IF failed[s].quota THEN Held \ {s} ELSE {}

\* reconcile: a success is forgotten, a failure recorded, the rest is known.  A row
\* that is recorded anew has not been tried.
Reconcile ==
  LET s       == job.at
      success == ~job.read.failed /\ failed[s] # None /\ job.read.newer
      failure == job.read.failed /\ (job.read.newer \/ s \in sent \cap Open)
  IN /\ job.stage = "record"
     /\ \/ /\ success
           /\ failed' = [t \in Sessions |-> IF t \in {s} \cup Released(s) THEN None ELSE failed[t]]
           /\ UNCHANGED tried
           /\ probe' = RowAfter(s, [t \in Sessions |->
                IF t \in Released(s) THEN [due |-> 0, resume |-> TRUE] ELSE probe[t]])
        \/ /\ failure
           /\ failed' = Failure(s)
           /\ tried' = IF failed[s] = None THEN RemoveFirst(tried, s) ELSE tried
           /\ probe' = RowAfter(s, probe)
        \/ /\ ~success /\ ~failure
           /\ probe' = RowAfter(s, probe)
           /\ UNCHANGED <<failed, tried>>
     /\ job' = Goes(job.then)
     /\ unheard' = IF job.read.current THEN unheard \ {s} ELSE unheard
     /\ UNCHANGED <<active, exec, sent, since, prompts, faults>>

-----------------------------------------------------------------------------
(* Turns whose time has come are tried again. *)

DueOpen == {s \in Open : failed[s].due = 0 /\ ~(probe[s] # None /\ probe[s].resume)}

\* ORDER BY retry_at, last_retry_at; among those never tried any may be the oldest.
Place(s) == IF s \in Range(tried) THEN IndexFirstSubSeq(<<s>>, tried) ELSE 0
Before(s, t) == IF failed[s].pushed # failed[t].pushed THEN failed[t].pushed
                ELSE Place(s) < Place(t)
\* Mutant: any turn that is due may be the probe.
FirstsAny == DueOpen
Firsts == {s \in DueOpen : \A t \in DueOpen : ~Before(t, s)}

\* While turns wait for the quota one is tried, otherwise all that are due.
Select ==
  /\ job.stage = "inspect" /\ job.todo = {}
  /\ \/ /\ Held # {} /\ DueOpen = {}
        /\ job' = Idle
     \/ /\ Held # {}
        /\ \E s \in Firsts :
             job' = [Goes("dispatch") EXCEPT !.todo = {s}, !.then = "idle"]
     \/ /\ Held = {}
        /\ job' = [Goes("dispatch") EXCEPT !.todo = DueOpen, !.then = "dispatch"]
  /\ UNCHANGED <<active, exec, sent, tables, unheard, since, prompts, faults>>

\* Mutant: only the turn that is tried waits for another probe.
MovedOne(s) == [failed EXCEPT ![s].due = ProbeDelay, ![s].pushed = FALSE]

\* All that wait for the quota wait for the next probe.
Moved(s) == [t \in Sessions |-> IF t \in Held THEN [failed[t] EXCEPT !.due = ProbeDelay,
                                                                     !.pushed = FALSE]
                                ELSE failed[t]]

\* Mutant: the order keeps an earlier attempt of the turn.
TriedTwice(s) == Append(tried, s)

\* last_retry_at is now.
TriedLast(s) == Append(RemoveFirst(tried, s), s)

\* dispatch: the turn is claimed by its next time before it runs.
Dispatch(s) ==
  /\ job.stage = "dispatch" /\ s \in job.todo
  /\ \/ /\ s \notin Open
        /\ job' = [job EXCEPT !.todo = @ \ {s}, !.stage = IF job.then = "idle" THEN "idle" ELSE @]
        /\ UNCHANGED <<failed, tried, since>>
     \/ /\ s \in Open
        /\ failed' = IF failed[s].quota THEN Moved(s) ELSE [failed EXCEPT ![s].due = 1]
        /\ tried' = TriedLast(s)
        /\ since' = IF failed[s].quota THEN 0 ELSE since
        /\ job' = [job EXCEPT !.todo = @ \ {s}, !.stage = "retry", !.at = s]
  /\ UNCHANGED <<active, exec, sent, probe, unheard, prompts, faults>>

\* host.retry: what failed is continued, once for each failure.
Retry ==
  LET s == job.at
  IN /\ job.stage = "retry"
     /\ probe' = Scheduled(s, 1)
     /\ exec' = IF exec[s].inbox \/ exec[s].outcome = "ok" \/ exec[s].continued THEN exec
                ELSE [exec EXCEPT ![s].inbox = TRUE, ![s].continued = TRUE]
     /\ job' = Goes(job.then)
     /\ UNCHANGED <<active, sent, failed, tried, unheard, since, prompts, faults>>

\* The request fails, and is done or not.
RetryFails ==
  LET s == job.at
  IN /\ job.stage = "retry"
     /\ Fault
     /\ probe' = Scheduled(s, 1)
     /\ job' = Goes(job.then)
     /\ UNCHANGED <<active, exec, sent, failed, tried, unheard, since, prompts>>

-----------------------------------------------------------------------------
(* Released turns are resumed. *)

ToResume == {s \in Sessions : probe[s] # None /\ probe[s].resume /\ probe[s].due = 0}

Resumes ==
  /\ job.stage = "dispatch" /\ job.todo = {}
  /\ job' = [Goes("resume") EXCEPT !.todo = ToResume, !.then = "resume"]
  /\ UNCHANGED <<active, exec, sent, tables, unheard, since, prompts, faults>>

\* A turn that has sent something is not resumed but recorded.
Resume(s) ==
  /\ job.stage = "resume" /\ s \in job.todo
  /\ \/ /\ s \notin ToResume
        /\ job' = [job EXCEPT !.todo = @ \ {s}]
        /\ UNCHANGED probe
     \/ /\ s \in ToResume
        /\ probe' = [probe EXCEPT ![s] = [due |-> 1, resume |-> FALSE]]
        /\ \E says \in Says(s) :
             job' = [job EXCEPT !.todo = @ \ {s}, !.at = s, !.mine = TRUE,
                                !.stage = IF s \in sent THEN "record" ELSE "retry",
                                !.read = IF s \in sent THEN says ELSE None]
  /\ UNCHANGED <<active, exec, sent, failed, tried, unheard, since, prompts, faults>>

Rest ==
  /\ job.stage = "resume" /\ job.todo = {}
  /\ job' = Idle
  /\ UNCHANGED <<active, exec, sent, tables, unheard, since, prompts, faults>>

\* The worker is replaced in the middle of a tick.
Restart ==
  /\ job.stage # "idle"
  /\ Fault
  /\ job' = Idle
  /\ UNCHANGED <<active, exec, sent, tables, unheard, since, prompts>>

-----------------------------------------------------------------------------
Tick ==
  \/ Begin \/ Reconcile \/ Select \/ Retry \/ Resumes \/ Rest
  \/ \E s \in Sessions : Look(s) \/ Dispatch(s) \/ Resume(s)

TurnsNext ==
  \/ Tick \/ LookFails \/ RetryFails \/ Restart \/ Pass
  \/ \E s \in Sessions : \/ Prompt(s) \/ Start(s) \/ Send(s) \/ Leave(s)
                         \/ \E outcome \in Failures \cup {"ok"} : End(s, outcome)

TurnsSpec == TurnsInit /\ [][TurnsNext]_vars

\* The alarm runs ticks again and again, and time passes between them.
FairTurnsSpec == TurnsSpec /\ WF_vars(Tick) /\ SF_vars(Pass)

-----------------------------------------------------------------------------
(* Properties *)

\* The last execution of a live conversation that failed and is not continued yet is
\* recorded, or a row makes a tick look at it; otherwise it waits for the lane that
\* looks at everything because its hint was lost.
FailureKnown ==
  \A s \in active :
    exec[s].outcome # "ok" /\ ~exec[s].running /\ ~exec[s].inbox
      => \/ failed[s] # None /\ failed[s].current
         \/ probe[s] # None
         \/ s \in unheard

\* While turns wait for the quota they all do, and no two of them are tried within one
\* delay, however many fail, are released or are looked at in between.
OneProbe ==
  [][\A s \in Sessions :
       job.stage = "dispatch" /\ job'.stage = "retry" /\ job'.at = s /\ Held # {}
         => s \in Held /\ since = ProbeDelay]_vars

\* A failed turn that is not left to a person is tried again or forgotten, whatever
\* becomes of the other turns that share its quota.
EveryFailureTried ==
  \A s \in Sessions :
    s \in Open ~> (s \notin Open \/ (job.stage = "retry" /\ job.at = s))

=============================================================================
