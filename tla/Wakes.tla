------------------------------- MODULE Wakes --------------------------------
(***************************************************************************)
(* What wakes the application (scheduling.ts, work-budget.ts, entry.ts):   *)
(* deadlines that are stored, one alarm that follows them, and a run of    *)
(* the alarm that gives every lane of work its turn within a budget, while *)
(* requests store more work and arm the alarm for it.                      *)
(*                                                                         *)
(* Times are counted from now: 0 is due, Never is not scheduled, and Pass  *)
(* lets one unit go by.  The generation of a row of application_work is    *)
(* only compared with the one the run has read: the run keeps the set of   *)
(* rows whose generation is still that one.                                *)
(***************************************************************************)
EXTENDS Integers, Sequences, FiniteSets, FiniteSetsExt

CONSTANTS
  LaneCount,  \* lanes of execution.cursor; the first one is intake
  Budget,     \* work items one run of the alarm admits
  Notices,    \* items the notifications take of it at most: their batch
  Safety,     \* safetyInterval, the longest a deadline is away
  Dues,       \* how far away the deadlines are that requests store
  Delays,     \* what a retry may wait, from 30 seconds up to safetyInterval
  Flaky,      \* lanes that may fail again and again
  MaxFaults   \* failures that happen only so often: evictions, failed startups

ASSUME WakesAssumption ==
  /\ LaneCount \in Nat \ {0}
  /\ Safety \in Nat \ {0}
  /\ Budget \in Nat /\ Notices \in Nat /\ Budget >= Notices + 3
  /\ Dues \subseteq 0 .. Safety
  /\ Delays \subseteq 1 .. Safety /\ Delays # {}
  /\ Flaky \subseteq 0 .. LaneCount - 1
  /\ MaxFaults \in Nat

Never  == Safety + 1
Times  == 0 .. Never
Later  == 1 .. Safety
Lanes  == 0 .. LaneCount - 1
Intake == 0
Rows   == {"intake", "execution", "notifications", "discord"}
Outer  == <<"notifications", "execution">>

VARIABLES
  pending,  \* what a lane has to do, from when; intake's is on the Mac, the others' in tables
  fresh,    \* the lane at work has got more to do since it looked
  unsent,   \* there is something for Discord
  row,      \* application_work: a row per name
  held,     \* the rows lane:execution.cursor:* of lanes that failed
  startup,  \* the row lane:alarm.cursor:execution
  backoff,  \* the row retry, when it has attempts
  alarm,    \* the alarm of the object
  cursor,   \* application_clock: the lane that is next, of both cursors
  job,      \* the run of the alarm
  unarmed,  \* a request has stored work and not armed the alarm yet
  evicted,  \* what was evicted since the alarm was armed
  faults

work == <<pending, fresh, unsent, row>>
wait == <<held, startup, backoff>>
rest == <<evicted, faults>>
vars == <<work, wait, alarm, cursor, job, unarmed, rest>>

Stages == {"idle", "fired", "store", "outer", "inner", "turn"}
Jobs   == [stage : Stages, executes : BOOLEAN, read : SUBSET Rows, left : 0 .. Budget,
           todo : Seq({"notifications", "execution"}), lanes : Seq(Lanes),
           failure : {"none", "lane", "all"}, deferred : BOOLEAN]

WakesTypeOK ==
  /\ pending \in [Lanes -> Times] /\ fresh \in BOOLEAN /\ unsent \in BOOLEAN
  /\ row \in [Rows -> Times]
  /\ held \in [Lanes -> Times] /\ startup \in Times /\ backoff \in Times
  /\ alarm \in Times
  /\ cursor \in [outer : {1, 2}, inner : Lanes]
  /\ job \in Jobs
  /\ unarmed \in BOOLEAN /\ evicted \subseteq {"run", "request"} /\ faults \in 0 .. MaxFaults

Idle == [stage |-> "idle", executes |-> FALSE, read |-> {}, left |-> 0, todo |-> <<>>,
         lanes |-> <<>>, failure |-> "none", deferred |-> FALSE]

WakesInit ==
  /\ pending = [l \in Lanes |-> Never] /\ fresh = FALSE /\ unsent = FALSE
  /\ row = [n \in Rows |-> Never]
  /\ held = [l \in Lanes |-> Never] /\ startup = Never /\ backoff = Never
  /\ alarm = Never
  /\ cursor = [outer |-> 1, inner |-> 0]
  /\ job = Idle
  /\ unarmed = FALSE /\ evicted = {} /\ faults = 0

Fault == faults < MaxFaults /\ faults' = faults + 1

-----------------------------------------------------------------------------
(* applicationWakes and nextApplicationWake *)

\* The floor a lane's row puts under its deadlines; no row, no floor.
Floor(time) == IF time = Never THEN 0 ELSE time

LaneFloor(l) == Max({Floor(startup), Floor(held[l])})

Delayed(time, floor) == IF time = Never THEN Never ELSE Max({time, floor})

Deadlines ==
  {Delayed(pending[l], LaneFloor(l)) : l \in Lanes \ {Intake}}
    \cup {Delayed(held[l], Floor(startup)) : l \in Lanes}
    \cup {Delayed(row["intake"], LaneFloor(Intake)), Delayed(row["execution"], Floor(startup)),
          row["notifications"], startup}

\* The backoff of a failed run holds every deadline but those of store work.
ExecutionWake == IF backoff # Never THEN backoff ELSE Min(Deadlines)

Wake == Min({row["discord"], ExecutionWake})

\* A wake that is overdue is set to the next moment.
NextAlarm == Max({Wake, 1})

-----------------------------------------------------------------------------
(* scheduleWork, and the requests that store work *)

\* Mutant: scheduling leaves the generation alone.
ScheduleSame(name, time) ==
  /\ row' = [row EXCEPT ![name] = Min({@, time})]
  /\ UNCHANGED job

\* The row is as early as the earliest call wants it, and its generation new.
Schedule(name, time) ==
  /\ row' = [row EXCEPT ![name] = Min({@, time})]
  /\ job' = [job EXCEPT !.read = @ \ {name}]

AtWork(l) == job.stage = "turn" /\ Head(job.lanes) = l

\* The Mac hints that there are messages: intake is scheduled.
Hint ==
  /\ pending' = [pending EXCEPT ![Intake] = 0]
  /\ fresh' = (fresh \/ AtWork(Intake))
  /\ Schedule("intake", 0)
  /\ unarmed' = TRUE
  /\ UNCHANGED <<unsent, wait, alarm, cursor, rest>>

\* A request stores something for another lane.
Request(l, time) ==
  /\ pending[l] = Never
  /\ pending' = [pending EXCEPT ![l] = time]
  /\ unarmed' = TRUE
  /\ UNCHANGED <<fresh, unsent, row, wait, alarm, cursor, job, rest>>

\* A registration is acknowledged by a notification.
Register ==
  /\ Schedule("notifications", 0)
  /\ unarmed' = TRUE
  /\ UNCHANGED <<pending, fresh, unsent, wait, alarm, cursor, rest>>

\* Something happens that is reported on Discord.
Report ==
  /\ unsent' = TRUE
  /\ Schedule("discord", 0)
  /\ unarmed' = TRUE
  /\ UNCHANGED <<pending, fresh, wait, alarm, cursor, rest>>

\* arm: a request can only bring the next wake forward.
ArmEarlier == alarm' = IF Wake # Never /\ NextAlarm < alarm THEN NextAlarm ELSE alarm

\* Every request ends this way, also one that stored nothing.
Arm ==
  /\ ArmEarlier
  /\ unarmed' = FALSE /\ evicted' = {}
  /\ UNCHANGED <<work, wait, cursor, job, faults>>

-----------------------------------------------------------------------------
(* alarm *)

\* Mutant: the alarm is only set again at the end of the run.
FireBare ==
  /\ job.stage = "idle" /\ alarm = 0
  /\ alarm' = Never
  /\ job' = [Idle EXCEPT !.stage = "fired", !.left = Budget]
  /\ UNCHANGED <<work, wait, cursor, unarmed, rest>>

\* The alarm is set anew before anything else.
Fire ==
  /\ job.stage = "idle" /\ alarm = 0
  /\ alarm' = Safety
  /\ job' = [Idle EXCEPT !.stage = "fired", !.left = Budget]
  /\ UNCHANGED <<work, wait, cursor, unarmed, rest>>

\* Execution that waits for its backoff keeps its work.
Readable(executes) == {n \in Rows : row[n] = 0 /\ (executes \/ n = "discord")}

\* The run looks at what is due.
Look ==
  /\ job.stage = "fired"
  /\ LET executes == ExecutionWake = 0
     IN job' = [job EXCEPT !.stage = "store", !.executes = executes, !.read = Readable(executes)]
  /\ UNCHANGED <<work, wait, alarm, cursor, unarmed, rest>>

After(seq, n) == SubSeq(seq, n, Len(seq)) \o SubSeq(seq, 1, n - 1)

ToLanes ==
  [job EXCEPT !.stage = "outer",
              !.todo = IF job.executes THEN After(Outer, cursor.outer) ELSE <<>>]

\* metricsTick: what is to be sent is sent.
StoreWork ==
  /\ job.stage = "store"
  /\ unsent' = FALSE
  /\ job' = ToLanes
  /\ UNCHANGED <<pending, fresh, row, wait, alarm, cursor, unarmed, rest>>

\* A task that fails is scheduled again; it fails nothing else.
StoreWorkFails ==
  /\ job.stage = "store"
  /\ Fault
  /\ unsent
  /\ row' = [row EXCEPT !["discord"] = 1]
  /\ job' = [ToLanes EXCEPT !.read = @ \ {"discord"}]
  /\ UNCHANGED <<pending, fresh, unsent, wait, alarm, cursor, unarmed, evicted>>

\* The execution runtime cannot be made at all.
RuntimeFails ==
  /\ job.stage = "outer" /\ job.todo # <<>> /\ job.left = Budget
  /\ Fault
  /\ job' = [job EXCEPT !.todo = <<>>, !.failure = "all"]
  /\ UNCHANGED <<work, wait, alarm, cursor, unarmed, evicted>>

-----------------------------------------------------------------------------
(* claimWork and runWorkLanes, of the outer lanes and of those of execution *)

\* The first claim that is refused schedules the rest of the work.
Refused(next) ==
  /\ row' = IF job.deferred THEN row ELSE [row EXCEPT !["execution"] = Min({@, 1})]
  /\ job' = [next EXCEPT !.deferred = TRUE,
                         !.read = IF job.deferred THEN @ ELSE @ \ {"execution"}]

\* The notifications have their turn, a batch at most; it may take all the time.  What
\* is left of them is scheduled again.
Notify ==
  /\ job.stage = "outer" /\ job.todo # <<>> /\ Head(job.todo) = "notifications"
  /\ job.left > 0
  /\ cursor' = [cursor EXCEPT !.outer = 2]
  /\ \E left \in 0 .. job.left - 1, more \in BOOLEAN :
       /\ left = 0 \/ left >= job.left - 1 - Notices
       /\ row' = IF more THEN [row EXCEPT !["notifications"] = Min({@, 1})] ELSE row
       /\ job' = [job EXCEPT !.left = left, !.todo = Tail(@),
                             !.read = IF more THEN @ \ {"notifications"} ELSE @]
  /\ UNCHANGED <<pending, fresh, unsent, wait, alarm, unarmed, rest>>

StartsUp ==
  /\ job.stage = "outer" /\ job.todo # <<>> /\ Head(job.todo) = "execution"
  /\ job.left > 0 /\ startup \in {0, Never}

\* Execution is open: its lanes follow from where they stopped.  To start it up may
\* take all the time.
Execute ==
  /\ StartsUp
  /\ cursor' = [cursor EXCEPT !.outer = 1]
  /\ \E left \in {0, job.left - 1} :
       /\ IF left = 0 THEN Fault ELSE UNCHANGED faults
       /\ job' = [job EXCEPT !.stage = "inner", !.left = left,
                             !.lanes = After([n \in 1 .. LaneCount |-> n - 1], cursor.inner + 1)]
  /\ UNCHANGED <<work, wait, alarm, unarmed, evicted>>

ExecuteFails ==
  /\ StartsUp
  /\ Fault
  /\ cursor' = [cursor EXCEPT !.outer = 1]
  /\ startup' \in Delays
  /\ job' = [job EXCEPT !.left = @ - 1, !.failure = "lane", !.todo = Tail(@)]
  /\ UNCHANGED <<work, held, backoff, alarm, unarmed, evicted>>

\* Execution waits for its own retry.
ExecuteLater ==
  /\ job.stage = "outer" /\ job.todo # <<>> /\ Head(job.todo) = "execution"
  /\ startup \in Later
  /\ job' = [job EXCEPT !.todo = Tail(@)]
  /\ UNCHANGED <<work, wait, alarm, cursor, unarmed, rest>>

\* There is no budget for the next lane, at either level.
Exhausted ==
  /\ \/ job.stage = "outer" /\ job.todo # <<>> /\ ~(Head(job.todo) = "execution" /\ startup \in Later)
     \/ job.stage = "inner" /\ job.lanes # <<>> /\ held[Head(job.lanes)] \notin Later
  /\ job.left = 0
  /\ Refused(IF job.stage = "outer" THEN [job EXCEPT !.todo = <<>>] ELSE [job EXCEPT !.lanes = <<>>])
  /\ UNCHANGED <<pending, fresh, unsent, wait, alarm, cursor, unarmed, rest>>

TurnLater ==
  /\ job.stage = "inner" /\ job.lanes # <<>> /\ held[Head(job.lanes)] \in Later
  /\ job' = [job EXCEPT !.lanes = Tail(@)]
  /\ UNCHANGED <<work, wait, alarm, cursor, unarmed, rest>>

\* Mutants: the cursor stays on a lane until it has completed; it runs past the end.
CursorAt(l) == [cursor EXCEPT !.inner = l]
CursorOff(l) == [cursor EXCEPT !.inner = l + 1]

\* The cursor moves before the lane does anything.
CursorAfter(l) == [cursor EXCEPT !.inner = (l + 1) % LaneCount]

TurnBegins ==
  /\ job.stage = "inner" /\ job.lanes # <<>> /\ held[Head(job.lanes)] \notin Later
  /\ job.left > 0
  /\ cursor' = CursorAfter(Head(job.lanes))
  /\ job' = [job EXCEPT !.stage = "turn", !.left = @ - 1]
  /\ UNCHANGED <<work, wait, alarm, unarmed, rest>>

\* The run goes on with the lanes that are left and so much budget.
GoesOn(left) == [job EXCEPT !.stage = "inner", !.left = left, !.lanes = Tail(@)]

\* What was due when the lane looked is done, and its own row is gone.
TurnCompletes ==
  LET l == Head(job.lanes)
  IN /\ job.stage = "turn"
     /\ pending' = IF fresh \/ pending[l] # 0 THEN pending ELSE [pending EXCEPT ![l] = Never]
     /\ held' = [held EXCEPT ![l] = Never]
     /\ fresh' = FALSE
     /\ \E left \in 0 .. job.left : job' = GoesOn(left)
     /\ UNCHANGED <<unsent, row, startup, backoff, alarm, cursor, unarmed, rest>>

TurnFails ==
  LET l == Head(job.lanes)
  IN /\ job.stage = "turn"
     /\ l \in Flaky
     /\ \E time \in Delays : held' = [held EXCEPT ![l] = time]
     /\ fresh' = FALSE
     /\ job' = [GoesOn(job.left) EXCEPT !.failure = "lane"]
     /\ UNCHANGED <<pending, unsent, row, startup, backoff, alarm, cursor, unarmed, rest>>

\* The lane has more to do than the budget admits.
TurnDefers ==
  /\ job.stage = "turn"
  /\ Refused(GoesOn(0))
  /\ fresh' = FALSE
  /\ UNCHANGED <<pending, unsent, wait, alarm, cursor, unarmed, rest>>

\* Execution's own row is gone unless it was only deferred.
Executed ==
  /\ job.stage = "inner" /\ job.lanes = <<>>
  /\ startup' = IF job.failure = "none" /\ job.deferred THEN startup ELSE Never
  /\ job' = [job EXCEPT !.stage = "outer", !.todo = Tail(@)]
  /\ UNCHANGED <<work, held, backoff, alarm, cursor, unarmed, rest>>

-----------------------------------------------------------------------------
(* finishApplicationWork and rearm, which follows at once *)

\* A lane that failed has its own retry: the run counts as completed.
Outcome ==
  CASE ~job.executes -> "store-only"
    [] job.failure = "all" -> "failed"
    [] job.failure = "none" /\ job.deferred -> "deferred"
    [] OTHER -> "completed"

\* Rows the run has read are done with, unless they are newer now.  The alarm is set
\* to exactly the earliest deadline, or there is none.
Finish ==
  /\ job.stage = "outer" /\ job.todo = <<>>
  /\ row' = IF Outcome \in {"completed", "store-only"}
            THEN [n \in Rows |-> IF n \in job.read THEN Never ELSE row[n]]
            ELSE row
  /\ CASE Outcome = "store-only" -> UNCHANGED backoff
       [] Outcome = "completed"  -> backoff' = Never
       [] Outcome = "deferred"   -> backoff' = 1
       [] Outcome = "failed"     -> backoff' \in Delays
  /\ UNCHANGED <<pending, fresh, unsent, held, startup, cursor, faults>>
  /\ alarm' = IF Wake' = Never THEN Never ELSE NextAlarm'
  /\ job' = Idle
  /\ unarmed' = FALSE /\ evicted' = {}

-----------------------------------------------------------------------------
(* Time and failures *)

Closer(time) == IF time \in Later THEN time - 1 ELSE time

\* Time goes by while nothing runs, or while a lane waits for an answer.
Pass ==
  /\ job.stage \in {"idle", "turn"}
  /\ pending' = [l \in Lanes |-> Closer(pending[l])]
  /\ row' = [n \in Rows |-> Closer(row[n])]
  /\ held' = [l \in Lanes |-> Closer(held[l])]
  /\ startup' = Closer(startup) /\ backoff' = Closer(backoff) /\ alarm' = Closer(alarm)
  /\ UNCHANGED <<fresh, unsent, cursor, job, unarmed, rest>>

\* The object is evicted: the run and the requests are gone.
Evict ==
  /\ job.stage # "idle" \/ unarmed
  /\ Fault
  /\ job' = Idle /\ fresh' = FALSE
  /\ evicted' = evicted \cup (IF unarmed THEN {"request"} ELSE {})
                       \cup (IF job.stage # "idle" THEN {"run"} ELSE {})
  /\ unarmed' = FALSE
  /\ UNCHANGED <<pending, unsent, row, wait, alarm, cursor>>

RunStep ==
  \/ Fire \/ Look \/ StoreWork \/ StoreWorkFails \/ RuntimeFails
  \/ Notify \/ Execute \/ ExecuteFails \/ ExecuteLater \/ Exhausted
  \/ TurnLater \/ TurnBegins \/ TurnCompletes \/ TurnFails \/ TurnDefers
  \/ Executed \/ Finish

\* The object has one thread: requests are handled while the run waits.  What comes
\* between Fire and Look might as well have come before or after both.
Waiting == job.stage \in {"idle", "store", "turn"}

WakesNext ==
  \/ RunStep
  \/ /\ Waiting
     /\ \/ Hint \/ Register \/ Report \/ Arm \/ Pass \/ Evict
        \/ \E l \in Lanes \ {Intake}, time \in Dues : Request(l, time)

WakesSpec == WakesInit /\ [][WakesNext]_vars

\* The platform runs an alarm that is due, a run goes on, a request ends, and time
\* passes.  That hints, requests or reports arrive is not assumed.
WakesFairness ==
  /\ WF_vars(RunStep) /\ WF_vars(Waiting /\ Pass)
  /\ WF_vars(Waiting /\ unarmed /\ Arm)

FairWakesSpec == WakesSpec /\ WakesFairness

-----------------------------------------------------------------------------
(* Properties. *)

\* While anything is stored that has to be done the alarm is set, and not later than
\* the first of it is due.  An evicted run leaves the alarm it has set before it did
\* anything; a request that was evicted before it armed the alarm leaves its work
\* behind, up to the next request.
Armed ==
  /\ job.stage # "idle" => alarm # Never
  /\ job.stage = "idle" /\ ~unarmed /\ "request" \notin evicted /\ Wake # Never =>
       IF "run" \in evicted THEN alarm # Never ELSE alarm <= NextAlarm

\* Work that was scheduled while its lane was at work, failed, was skipped or was
\* put off is not taken for done: until the messages of a hint are read, a row says
\* so, and so it is with what is to be sent to Discord.
NothingUnscheduled ==
  /\ pending[Intake] # Never =>
       row["intake"] # Never \/ row["execution"] # Never \/ held[Intake] # Never \/ startup # Never
  /\ unsent => row["discord"] # Never

\* Every lane that has something to do gets a turn, though others fail again and
\* again or use the budget up in every run.
LaneServed ==
  \A l \in Lanes :
    pending[l] # Never ~> AtWork(l) \/ pending[l] = Never \/ "request" \in evicted

=============================================================================
