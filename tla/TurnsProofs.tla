---------------------------- MODULE TurnsProofs -----------------------------
(***************************************************************************)
(* Proofs about Turns, for any sessions, failures and probe delays.        *)
(***************************************************************************)
EXTENDS Turns, DataLemmas

\* Rows are about live conversations; a tick that holds a handle's lock, or has
\* read a row it means to delete, is about one of them.
LiveInv ==
  /\ \A s \in Sessions : failed[s] # None \/ probe[s] # None => s \in active
  /\ job.stage \in {"record", "retry"} => job.at \in active
  /\ job.mine => job.stage \in {"record", "retry"} /\ probe[job.at] # None

\* What the tick has read is still true, or it is known that it is not: the session
\* has another row by now, or waits for the lane that looks at everything.
ReadInv ==
  job.stage = "record" =>
    /\ job.read # None
    /\ IF job.read.current
       THEN /\ exec[job.at].outcome # "ok" => job.read.failed
            /\ failed[job.at] = None \/ ~failed[job.at].current => job.read.newer
       ELSE job.at \in unheard \/ (probe[job.at] # None /\ ~job.mine)

\* Either all turns that are tried again wait for the quota or none does; and the
\* time of each that waits is a whole delay after the last probe.
QuotaInv ==
  /\ Held = {} \/ Held = Open
  /\ \A s \in Held : failed[s].due + since >= ProbeDelay

\* Where the tick goes on after it has recorded a turn or let one continue.
StageInv ==
  /\ job.stage = "record" => job.then \in {"inspect", "resume"}
  /\ job.stage = "dispatch" => job.then \in {"idle", "dispatch"}
  /\ job.stage = "retry" => job.then \in {"idle", "dispatch", "resume"}
  /\ job.stage = "resume" => job.then = "resume"

\* The turns that were selected while some wait for the quota are due.
SelectedInv ==
  /\ job.stage \in {"dispatch", "retry"} /\ job.then = "dispatch" => Held = {}
  /\ job.stage = "dispatch" /\ job.then = "idle" =>
       \A s \in job.todo \cap Held : failed[s].due = 0

TurnsInv ==
  /\ TurnsTypeOK
  /\ LiveInv
  /\ ReadInv
  /\ QuotaInv
  /\ StageInv
  /\ SelectedInv
  /\ FailureKnown

-----------------------------------------------------------------------------
(* Steps of the executor and of the users. *)

\* A row that is due, or is due sooner: only the row of s changes, and it is there.
LEMMA ScheduledRow ==
  ASSUME TurnsTypeOK, NEW s \in Sessions, NEW time \in {0, 1}
  PROVE  /\ Scheduled(s, time) \in [Sessions -> Probes \cup {None}]
         /\ Scheduled(s, time)[s] # None
         /\ \A t \in Sessions \ {s} : Scheduled(s, time)[t] = probe[t]
<1> DEFINE row == IF probe[s] = None THEN [due |-> time, resume |-> FALSE]
                  ELSE [probe[s] EXCEPT !.due = Earlier(probe[s].due, time)]
<1>1. row \in Probes
  <2>1. CASE probe[s] = None
    BY <2>1 DEF Probes
  <2>2. CASE probe[s] # None
    BY <2>2 DEF TurnsTypeOK, Probes, Earlier
  <2> QED BY <2>1, <2>2
<1>2. Scheduled(s, time) = [probe EXCEPT ![s] = row]
  BY DEF Scheduled
<1>3. probe \in [Sessions -> Probes \cup {None}]
  BY DEF TurnsTypeOK
<1> HIDE DEF row
<1> QED BY <1>1, <1>2, <1>3, NoneAssumption

\* The tick forgets that the row is the one it read, and nothing else.
LEMMA NotMineJob ==
  ASSUME TurnsTypeOK, NEW s \in Sessions
  PROVE  /\ NotMine(s) \in Jobs
         /\ NotMine(s).mine => job.mine /\ job.at # s
         /\ NotMine(s).stage = job.stage /\ NotMine(s).then = job.then
         /\ NotMine(s).todo = job.todo /\ NotMine(s).at = job.at /\ NotMine(s).read = job.read
  BY DEF TurnsTypeOK, NotMine, Jobs

LEMMA InitInv == TurnsInit => TurnsInv
<1> SUFFICES ASSUME TurnsInit PROVE TurnsInv
  OBVIOUS
<1> USE TurnsAssumption, NoneAssumption DEF TurnsInit, Idle
<1>1. TurnsTypeOK
  BY DEF TurnsTypeOK, Execs, Jobs, Times, IsInjective
<1>2. LiveInv /\ ReadInv /\ StageInv /\ SelectedInv /\ FailureKnown
  BY DEF LiveInv, ReadInv, StageInv, SelectedInv, FailureKnown
<1>3. QuotaInv
  BY DEF QuotaInv, Held, Open
<1> QED BY <1>1, <1>2, <1>3 DEF TurnsInv

LEMMA PromptKeeps == ASSUME TurnsInv, NEW s \in Sessions, Prompt(s) PROVE TurnsInv'
<1> USE TurnsAssumption DEF TurnsInv, Prompt
<1>0. /\ probe' \in [Sessions -> Probes \cup {None}] /\ probe'[s] # None
      /\ \A t \in Sessions \ {s} : probe'[t] = probe[t]
  BY ScheduledRow
<1>7. exec' \in [Sessions -> Execs] /\ \A t \in Sessions : exec'[t].outcome = exec[t].outcome
  <2>1. exec[s] \in Execs /\ exec' = [exec EXCEPT ![s] = [exec[s] EXCEPT !.inbox = TRUE]]
    BY DEF TurnsTypeOK
  <2>2. [exec[s] EXCEPT !.inbox = TRUE] \in Execs
    BY <2>1 DEF Execs
  <2> QED BY <2>1, <2>2 DEF TurnsTypeOK, Execs
<1>8. prompts' \in 0 .. MaxPrompts
  BY DEF TurnsTypeOK
<1>1. TurnsTypeOK'
  BY <1>0, <1>7, <1>8, NotMineJob DEF TurnsTypeOK
<1>2. LiveInv'
  BY <1>0, NotMineJob DEF LiveInv, TurnsTypeOK, Jobs
<1>3. ReadInv'
  BY <1>0, <1>7, NotMineJob DEF ReadInv, LiveInv, TurnsTypeOK, Jobs
<1>4. QuotaInv'
  BY DEF QuotaInv, Held, Open
<1>5. StageInv' /\ SelectedInv'
  BY NotMineJob DEF StageInv, SelectedInv, Held, Open
<1>6. FailureKnown'
  BY <1>0 DEF FailureKnown, TurnsTypeOK, Execs
<1> QED BY <1>1, <1>2, <1>3, <1>4, <1>5, <1>6

LEMMA StartKeeps == ASSUME TurnsInv, NEW s \in Sessions, Start(s) PROVE TurnsInv'
<1> USE TurnsAssumption, NoneAssumption DEF TurnsInv, Start, tables
<1>1. TurnsTypeOK'
  BY DEF TurnsTypeOK, Execs
<1>2. LiveInv' /\ StageInv' /\ SelectedInv' /\ QuotaInv'
  BY DEF LiveInv, StageInv, SelectedInv, QuotaInv, Held, Open
<1>3. ReadInv'
  BY DEF ReadInv, TurnsTypeOK, Execs
<1>6. FailureKnown'
  BY DEF FailureKnown, TurnsTypeOK, Execs
<1> QED BY <1>1, <1>2, <1>3, <1>6

LEMMA SendKeeps == ASSUME TurnsInv, NEW s \in Sessions, Send(s) PROVE TurnsInv'
  BY DEF TurnsInv, Send, tables, TurnsTypeOK, LiveInv, ReadInv, QuotaInv, Held, Open,
         StageInv, SelectedInv, FailureKnown

LEMMA EndKeeps ==
  ASSUME TurnsInv, NEW s \in Sessions, NEW outcome \in Failures \cup {"ok"}, End(s, outcome)
  PROVE  TurnsInv'
<1> USE TurnsAssumption DEF TurnsInv
\* The record of s is not current any more; the others are as they were.
<1>1. /\ failed' \in [Sessions -> Records \cup {None}]
      /\ failed[s] = None => failed'[s] = None
      /\ failed[s] # None =>
           /\ failed'[s] # None /\ ~failed'[s].current
           /\ failed'[s].quota = failed[s].quota /\ failed'[s].review = failed[s].review
           /\ failed'[s].due = failed[s].due
      /\ \A t \in Sessions \ {s} : failed'[t] = failed[t]
  <2>1. CASE failed[s] = None
    BY <2>1 DEF End, TurnsTypeOK
  <2>2. CASE failed[s] # None
    <3>1. failed[s] \in Records /\ failed' = [failed EXCEPT ![s] = [failed[s] EXCEPT !.current = FALSE]]
      BY <2>2 DEF End, TurnsTypeOK
    <3>2. [failed[s] EXCEPT !.current = FALSE] \in Records
      BY <3>1 DEF Records
    <3> QED BY <3>1, <3>2, <2>2, NoneAssumption DEF TurnsTypeOK, Records
  <2> QED BY <2>1, <2>2
<1>2. Held' = Held /\ Open' = Open /\ \A t \in Open : failed'[t].due = failed[t].due
  BY <1>1 DEF Held, Open
\* A row makes the tick look at s, or it is known that nobody told the application.
<1>3. /\ probe' \in [Sessions -> Probes \cup {None}]
      /\ \A t \in Sessions \ {s} : probe'[t] = probe[t] /\ (t \in unheard' <=> t \in unheard)
      /\ s \in active /\ s \notin unheard' => probe'[s] # None
      /\ probe[s] # None => probe'[s] # None
      /\ probe'[s] # None => s \in active
      /\ unheard' \subseteq Sessions
  BY ScheduledRow DEF End, TurnsTypeOK, LiveInv
<1>4. /\ job' \in Jobs
      /\ job'.stage = job.stage /\ job'.then = job.then /\ job'.todo = job.todo
      /\ job'.at = job.at /\ (job'.read = None <=> job.read = None)
      /\ job'.mine => job.mine
      /\ job'.at = s /\ s \notin unheard' => ~job'.mine
  <2> DEFINE seen(j) == IF j.at = s /\ j.read # None THEN [j EXCEPT !.read.current = FALSE] ELSE j
  <2>1. ASSUME NEW j \in Jobs
        PROVE  /\ seen(j) \in Jobs
               /\ seen(j).stage = j.stage /\ seen(j).then = j.then /\ seen(j).todo = j.todo
               /\ seen(j).at = j.at /\ seen(j).mine = j.mine
               /\ seen(j).read = None <=> j.read = None
    <3>1. CASE j.at = s /\ j.read # None
      <4>1. j.read \in Reads
        BY <3>1 DEF Jobs
      <4>2. [j.read EXCEPT !.current = FALSE] \in Reads
        BY <4>1 DEF Reads
      <4>3. seen(j) = [j EXCEPT !.read = [j.read EXCEPT !.current = FALSE]]
        BY <3>1
      <4>4. [j.read EXCEPT !.current = FALSE] # None
        BY <4>2, NoneAssumption
      <4> HIDE DEF seen
      <4> QED BY <4>2, <4>3, <4>4, <3>1 DEF Jobs
    <3>2. CASE ~(j.at = s /\ j.read # None)
      BY <3>2
    <3> QED BY <3>1, <3>2
  <2> HIDE DEF seen
  <2>2. CASE job' = seen(NotMine(s)) /\ s \notin unheard'
    BY <2>1, <2>2, NotMineJob
  <2>3. CASE job' = seen(job) /\ s \in unheard'
    BY <2>1, <2>3 DEF TurnsTypeOK
  <2>4. \/ job' = seen(NotMine(s)) /\ s \notin unheard'
        \/ job' = seen(job) /\ s \in unheard'
    BY DEF End, seen
  <2> QED BY <2>2, <2>3, <2>4
<1>5. job'.read # None =>
        IF job.at = s THEN ~job'.read.current ELSE job'.read = job.read
  BY NotMineJob DEF End, TurnsTypeOK, Jobs, Reads
<1>6. exec' \in [Sessions -> Execs] /\ \A t \in Sessions \ {s} : exec'[t] = exec[t]
  <2>1. exec[s] \in Execs /\ exec' = [exec EXCEPT ![s] = [exec[s] EXCEPT
          !.running = FALSE, !.outcome = outcome, !.continued = FALSE]]
    BY DEF End, TurnsTypeOK
  <2>2. [exec[s] EXCEPT !.running = FALSE, !.outcome = outcome, !.continued = FALSE] \in Execs
    BY <2>1 DEF Execs
  <2> QED BY <2>1, <2>2 DEF TurnsTypeOK
<1>7. TurnsTypeOK'
  BY <1>1, <1>3, <1>4, <1>6 DEF TurnsTypeOK, End, Fault
<1>8. LiveInv'
  BY <1>1, <1>3, <1>4 DEF LiveInv, End, TurnsTypeOK, Jobs
<1>9. ReadInv'
  BY <1>1, <1>3, <1>4, <1>5, <1>6 DEF ReadInv, LiveInv, End, TurnsTypeOK, Jobs
<1>10. QuotaInv' /\ StageInv' /\ SelectedInv'
  BY <1>1, <1>2, <1>4 DEF QuotaInv, StageInv, SelectedInv, Held, End
<1>11. FailureKnown'
  BY <1>1, <1>3, <1>6 DEF FailureKnown, End, TurnsTypeOK
<1> QED BY <1>7, <1>8, <1>9, <1>10, <1>11

LEMMA LeaveKeeps == ASSUME TurnsInv, NEW s \in Sessions, Leave(s) PROVE TurnsInv'
<1> USE TurnsAssumption, NoneAssumption DEF TurnsInv, Leave
<1>1. TurnsTypeOK'
  BY RemovedOnce DEF TurnsTypeOK
<1>2. LiveInv'
  BY DEF LiveInv, TurnsTypeOK, Locked
<1>3. ReadInv'
  BY DEF ReadInv, TurnsTypeOK, Locked
<1>4. QuotaInv'
  BY DEF QuotaInv, Held, Open, TurnsTypeOK
<1>5. StageInv' /\ SelectedInv'
  BY DEF StageInv, SelectedInv, Held, Open, TurnsTypeOK
<1>6. FailureKnown'
  BY DEF FailureKnown, TurnsTypeOK
<1> QED BY <1>1, <1>2, <1>3, <1>4, <1>5, <1>6

LEMMA PassKeeps == ASSUME TurnsInv, Pass PROVE TurnsInv'
<1> USE TurnsAssumption, NoneAssumption DEF TurnsInv
<1>1. /\ failed' \in [Sessions -> Records \cup {None}]
      /\ \A s \in Sessions :
           IF failed[s] = None THEN failed'[s] = None
           ELSE /\ failed'[s] # None
                /\ failed'[s].quota = failed[s].quota /\ failed'[s].review = failed[s].review
                /\ failed'[s].current = failed[s].current
                /\ failed'[s].due >= failed[s].due - 1
  <2>1. ASSUME NEW s \in Sessions, failed[s] # None
        PROVE  /\ failed'[s] = [failed[s] EXCEPT !.due = LaterOf(0, failed[s].due - 1)]
               /\ failed[s] \in Records
               /\ failed'[s] \in Records
    <3>1. failed'[s] = [failed[s] EXCEPT !.due = LaterOf(0, failed[s].due - 1)]
      BY <2>1 DEF Pass
    <3>2. failed[s] \in Records
      BY <2>1 DEF TurnsTypeOK
    <3>3. LaterOf(0, failed[s].due - 1) \in Times
      BY <3>2 DEF Records, Times, LaterOf
    <3> QED BY <3>1, <3>2, <3>3 DEF Records
  <2>2. failed' = [s \in Sessions |-> failed'[s]]
    BY DEF Pass
  <2>3. ASSUME NEW s \in Sessions, failed[s] = None PROVE failed'[s] = None
    BY <2>3 DEF Pass
  <2>4. failed' \in [Sessions -> Records \cup {None}]
    BY <2>1, <2>2, <2>3
  <2> QED BY <2>1, <2>3, <2>4 DEF Records, Times, LaterOf
<1>2. /\ probe' \in [Sessions -> Probes \cup {None}]
      /\ \A s \in Sessions : probe'[s] = None <=> probe[s] = None
  <2>1. ASSUME NEW s \in Sessions, probe[s] # None
        PROVE  probe'[s] \in Probes
    BY <2>1 DEF Pass, TurnsTypeOK, Probes
  <2>2. ASSUME NEW s \in Sessions, probe[s] = None PROVE probe'[s] = None
    BY <2>2 DEF Pass
  <2>3. probe' = [s \in Sessions |-> probe'[s]]
    BY DEF Pass
  <2> QED BY <2>1, <2>2, <2>3
<1>3. since' \in Times /\ (since' = ProbeDelay \/ since' = since + 1)
  BY DEF Pass, Earlier, TurnsTypeOK, Times
<1>4. TurnsTypeOK'
  BY <1>1, <1>2, <1>3 DEF TurnsTypeOK, Pass
<1>5. LiveInv' /\ ReadInv' /\ StageInv' /\ SelectedInv'
  BY <1>1, <1>2 DEF LiveInv, ReadInv, StageInv, SelectedInv, Pass
<1>6. Held' = Held /\ Open' = Open
  BY <1>1 DEF Held, Open
<1>7. QuotaInv'
  BY <1>1, <1>3, <1>6 DEF QuotaInv, Held, Open, TurnsTypeOK, Records, Times
<1>8. FailureKnown'
  BY ZenonT(30), <1>1, <1>2 DEF FailureKnown, TurnsTypeOK, Pass
<1> QED BY <1>4, <1>5, <1>7, <1>8
-----------------------------------------------------------------------------
(* Steps of the tick. *)

\* The tick goes on: it holds no lock and no row any more.
LEMMA GoesJob ==
  ASSUME TurnsTypeOK, NEW to \in {"idle", "inspect", "dispatch", "resume"}
  PROVE  /\ Goes(to) \in Jobs
         /\ Goes(to).stage = to /\ Goes(to).then = job.then
         /\ Goes(to).todo = job.todo /\ ~Goes(to).mine
  BY DEF TurnsTypeOK, Goes, Jobs

LEMMA IdleJob ==
  /\ Idle \in Jobs
  /\ Idle.stage = "idle" /\ ~Idle.mine /\ Idle.then = "idle" /\ Idle.todo = {}
  BY DEF Idle, Jobs

\* A step that only takes the tick on to a place where it holds nothing.
LEMMA MovesOn ==
  ASSUME TurnsInv,
         UNCHANGED <<active, exec, sent, tables, unheard, since, prompts>>,
         faults' \in 0 .. MaxFaults,
         job' \in Jobs, job'.stage \in {"idle", "inspect", "dispatch", "resume"}, ~job'.mine,
         job'.stage = "dispatch" => job'.then \in {"idle", "dispatch"},
         job'.stage = "resume" => job'.then = "resume",
         job'.stage = "dispatch" /\ job'.then = "dispatch" => Held = {},
         job'.stage = "dispatch" /\ job'.then = "idle" =>
           \A s \in job'.todo \cap Held : failed[s].due = 0
  PROVE  TurnsInv'
<1> USE DEF TurnsInv, tables
<1>1. TurnsTypeOK'
  BY DEF TurnsTypeOK
<1>2. LiveInv' /\ ReadInv' /\ StageInv'
  BY DEF LiveInv, ReadInv, StageInv
<1>3. QuotaInv' /\ SelectedInv'
  BY DEF QuotaInv, SelectedInv, Held, Open
<1>4. FailureKnown'
  BY DEF FailureKnown
<1> QED BY <1>1, <1>2, <1>3, <1>4

LEMMA BeginKeeps == ASSUME TurnsInv, Begin PROVE TurnsInv'
<1>1. PICK todo \in {DueTurns, active} : job' = [Idle EXCEPT !.stage = "inspect", !.todo = todo]
  BY DEF Begin
<1>2. todo \subseteq Sessions
  BY DEF TurnsInv, TurnsTypeOK, DueTurns
<1>3. job' \in Jobs /\ job'.stage = "inspect" /\ ~job'.mine
  BY <1>1, <1>2, IdleJob DEF Jobs
<1>4. faults' \in 0 .. MaxFaults
  BY DEF TurnsInv, TurnsTypeOK, Begin
<1> QED BY <1>3, <1>4, MovesOn DEF Begin

LEMMA SelectKeeps == ASSUME TurnsInv, Select PROVE TurnsInv'
<1> USE DEF TurnsInv
<1>1. faults' \in 0 .. MaxFaults /\ UNCHANGED <<active, exec, sent, tables, unheard, since, prompts>>
  BY DEF TurnsTypeOK, Select
<1>2. CASE job' = Idle
  BY <1>1, <1>2, IdleJob, MovesOn
<1>3. ASSUME NEW s \in Firsts, job' = [Goes("dispatch") EXCEPT !.todo = {s}, !.then = "idle"]
      PROVE  TurnsInv'
  <2>1. s \in Sessions /\ failed[s].due = 0
    BY DEF Firsts, DueOpen, Open
  <2>2. job' \in Jobs /\ job'.stage = "dispatch" /\ job'.then = "idle" /\ job'.todo = {s} /\ ~job'.mine
    BY <1>3, <2>1, GoesJob DEF Jobs
  <2> QED BY <1>1, <2>1, <2>2, MovesOn
<1>4. CASE Held = {} /\ job' = [Goes("dispatch") EXCEPT !.todo = DueOpen, !.then = "dispatch"]
  <2>1. DueOpen \subseteq Sessions
    BY DEF DueOpen, Open
  <2>2. job' \in Jobs /\ job'.stage = "dispatch" /\ job'.then = "dispatch" /\ ~job'.mine
    BY <1>4, <2>1, GoesJob DEF Jobs
  <2> QED BY <1>1, <1>4, <2>2, MovesOn
<1> QED BY <1>2, <1>3, <1>4 DEF Select

LEMMA ResumesKeeps == ASSUME TurnsInv, Resumes PROVE TurnsInv'
<1>1. ToResume \subseteq Sessions
  BY DEF ToResume
<1>2. job' \in Jobs /\ job'.stage = "resume" /\ job'.then = "resume" /\ ~job'.mine
  BY <1>1, GoesJob DEF TurnsInv, Resumes, Jobs
<1>3. faults' \in 0 .. MaxFaults
  BY DEF TurnsInv, TurnsTypeOK, Resumes
<1> QED BY <1>2, <1>3, MovesOn DEF Resumes

LEMMA RestKeeps == ASSUME TurnsInv, Rest \/ Restart PROVE TurnsInv'
<1>1. job' = Idle /\ UNCHANGED <<active, exec, sent, tables, unheard, since, prompts>>
  BY DEF Rest, Restart
<1>2. faults' \in 0 .. MaxFaults
  BY TurnsAssumption DEF TurnsInv, TurnsTypeOK, Rest, Restart, Fault
<1> QED BY <1>1, <1>2, IdleJob, MovesOn

\* What the executor says is what ReadInv asks of a read.
LEMMA SaysTrue ==
  ASSUME TurnsTypeOK, NEW s \in Sessions, NEW says \in Says(s)
  PROVE  /\ says \in Reads /\ says # None /\ says.current
         /\ exec[s].outcome # "ok" => says.failed
         /\ failed[s] = None \/ ~failed[s].current => says.newer
<1>1. exec[s] \in Execs /\ failed[s] \in Records \cup {None}
  BY DEF TurnsTypeOK
<1>2. PICK shown \in {TRUE, ~exec[s].running} :
        says = [failed  |-> exec[s].outcome # "ok" \/ exec[s].inbox,
                quota   |-> shown /\ exec[s].outcome = "quota",
                newer   |-> failed[s] = None \/ ~failed[s].current,
                current |-> TRUE]
  BY DEF Says
<1>3. says \in Reads
  BY <1>1, <1>2 DEF Reads, Execs
<1> QED BY <1>2, <1>3, NoneAssumption

LEMMA LookKeeps == ASSUME TurnsInv, NEW s \in Sessions, Look(s) PROVE TurnsInv'
<1> USE DEF TurnsInv
<1>0. faults' \in 0 .. MaxFaults /\ UNCHANGED <<active, exec, sent, tables, unheard, since, prompts>>
  BY DEF TurnsTypeOK, Look
<1>1. CASE job' = [job EXCEPT !.todo = @ \ {s}]
  <2>1. job' \in Jobs /\ job'.stage = "inspect" /\ ~job'.mine
    BY <1>1 DEF Look, TurnsTypeOK, LiveInv, Jobs
  <2> QED BY <1>0, <2>1, MovesOn
<1>2. ASSUME ~Skips(s), NEW says \in Says(s),
             job' = [job EXCEPT !.stage = "record", !.todo = @ \ {s}, !.at = s, !.read = says,
                                !.mine = probe[s] # None, !.then = "inspect"]
      PROVE  TurnsInv'
  <2>1. /\ job' \in Jobs /\ job'.stage = "record" /\ job'.then = "inspect"
        /\ job'.at = s /\ job'.read = says /\ (job'.mine => probe[s] # None)
    BY <1>2, SaysTrue DEF TurnsTypeOK, Jobs
  <2>2. s \in active
    BY <1>2 DEF Skips
  <2>3. TurnsTypeOK'
    BY <1>0, <2>1 DEF TurnsTypeOK, tables
  <2>4. LiveInv' /\ StageInv'
    BY <1>0, <2>1, <2>2 DEF LiveInv, StageInv, tables
  <2>5. ReadInv'
    BY <1>0, <2>1, SaysTrue DEF ReadInv, tables
  <2>6. QuotaInv' /\ SelectedInv'
    BY <1>0, <2>1 DEF QuotaInv, SelectedInv, Held, Open, tables
  <2>7. FailureKnown'
    BY <1>0 DEF FailureKnown, tables
  <2> QED BY <2>3, <2>4, <2>5, <2>6, <2>7
<1> QED BY <1>1, <1>2 DEF Look

LEMMA RetryKeeps == ASSUME TurnsInv, Retry \/ RetryFails PROVE TurnsInv'
<1> USE DEF TurnsInv
<1>1. /\ job.stage = "retry" /\ job.at \in Sessions /\ job.at \in active
      /\ probe' = Scheduled(job.at, 1) /\ job' = Goes(job.then)
      /\ UNCHANGED <<active, sent, failed, tried, unheard, since, prompts>>
  BY DEF Retry, RetryFails, LiveInv, TurnsTypeOK
<1>2. faults' \in 0 .. MaxFaults
  BY TurnsAssumption DEF TurnsTypeOK, Retry, RetryFails, Fault
<1>3. /\ exec' \in [Sessions -> Execs]
      /\ \A t \in Sessions \ {job.at} : exec'[t] = exec[t]
  <2>1. CASE exec' = exec
    BY <2>1 DEF TurnsTypeOK
  <2>2. CASE exec' = [exec EXCEPT ![job.at] = [exec[job.at] EXCEPT !.inbox = TRUE, !.continued = TRUE]]
    <3>1. [exec[job.at] EXCEPT !.inbox = TRUE, !.continued = TRUE] \in Execs
      <4>1. exec[job.at] \in Execs
        BY <1>1 DEF TurnsTypeOK
      <4> QED BY <4>1 DEF Execs
    <3> QED BY <2>2, <3>1 DEF TurnsTypeOK
  <2> QED BY <2>1, <2>2 DEF Retry, RetryFails
<1>4. /\ job' \in Jobs /\ job'.stage = job.then /\ job'.then = job.then /\ ~job'.mine
      /\ job.then \in {"idle", "dispatch", "resume"} /\ job'.todo = job.todo
  BY <1>1, GoesJob DEF StageInv
<1>5. /\ probe' \in [Sessions -> Probes \cup {None}] /\ probe'[job.at] # None
      /\ \A t \in Sessions \ {job.at} : probe'[t] = probe[t]
  BY <1>1, ScheduledRow
<1>6. TurnsTypeOK'
  BY <1>1, <1>2, <1>3, <1>4, <1>5 DEF TurnsTypeOK
<1>7. LiveInv' /\ ReadInv' /\ StageInv'
  BY <1>1, <1>4, <1>5 DEF LiveInv, ReadInv, StageInv
<1>8. QuotaInv' /\ SelectedInv'
  BY <1>1, <1>4 DEF QuotaInv, SelectedInv, Held, Open
<1>9. FailureKnown'
  BY <1>1, <1>3, <1>5 DEF FailureKnown, TurnsTypeOK
<1> QED BY <1>6, <1>7, <1>8, <1>9

LEMMA LookFailsKeeps == ASSUME TurnsInv, LookFails PROVE TurnsInv'
<1> DEFINE s == job.at
<1> USE TurnsAssumption DEF TurnsInv
<1>1. s \in Sessions /\ s \in active /\ (job.mine => probe[s] # None)
  BY DEF LookFails, LiveInv, TurnsTypeOK
<1>2. /\ probe' \in [Sessions -> Probes \cup {None}] /\ probe'[s] # None
      /\ \A t \in Sessions \ {s} : probe'[t] = probe[t]
  <2> DEFINE row == IF job.mine THEN [probe[s] EXCEPT !.due = 1]
                    ELSE IF probe[s] = None THEN [due |-> 1, resume |-> FALSE] ELSE probe[s]
  <2>1. row \in Probes
    <3>1. CASE job.mine
      <4>1. probe[s] \in Probes
        BY <1>1, <3>1 DEF TurnsTypeOK
      <4> QED BY <3>1, <4>1 DEF Probes
    <3>2. CASE ~job.mine
      BY <1>1, <3>2 DEF TurnsTypeOK, Probes
    <3> QED BY <3>1, <3>2
  <2>2. probe' = [probe EXCEPT ![s] = row]
    BY DEF LookFails
  <2> HIDE DEF row
  <2> QED BY <1>1, <2>1, <2>2, NoneAssumption DEF TurnsTypeOK
<1>3. /\ failed' \in [Sessions -> Records \cup {None}]
      /\ \A t \in Sessions : failed[t] = None => failed'[t] = None
      /\ \A t \in Sessions : failed[t] # None =>
           /\ failed'[t] # None /\ failed'[t].current = failed[t].current
           /\ failed'[t].quota = failed[t].quota /\ failed'[t].review = failed[t].review
           /\ failed'[t].due \in Nat /\ failed'[t].due >= failed[t].due
  <2>1. CASE failed' = failed
    BY <2>1 DEF TurnsTypeOK, Records, Times
  <2>2. CASE failed[s] # None /\ failed' # failed
    <3> DEFINE pushed == failed[s].pushed \/ failed[s].due = 0
               due == LaterOf(failed[s].due, 1)
               row == [failed[s] EXCEPT !.due = due, !.pushed = pushed]
    <3>1. failed[s] \in Records
      BY <1>1, <2>2 DEF TurnsTypeOK
    <3>2. failed' = [failed EXCEPT ![s] = row]
      BY <2>2, <1>1 DEF LookFails, TurnsTypeOK
    <3>0. pushed \in BOOLEAN /\ due \in Times /\ due \in Nat /\ due >= failed[s].due
      BY <3>1 DEF Records, Times, LaterOf
    <3> HIDE DEF pushed, due
    <3>3. /\ row \in Records /\ row.current = failed[s].current
          /\ row.quota = failed[s].quota /\ row.review = failed[s].review
          /\ row.due \in Nat /\ row.due >= failed[s].due
      BY <3>0, <3>1 DEF Records
    <3> HIDE DEF row
    <3>4. \A t \in Sessions : failed'[t] = IF t = s THEN row ELSE failed[t]
      BY <3>2 DEF TurnsTypeOK
    <3>5. \A t \in Sessions : failed[t] # None => failed[t].due \in Nat
      BY DEF TurnsTypeOK, Records, Times
    <3> QED BY <1>1, <2>2, <3>2, <3>3, <3>4, <3>5, NoneAssumption DEF TurnsTypeOK
  <2>3. failed[s] = None => failed' = failed
    BY <1>1 DEF LookFails, TurnsTypeOK
  <2> QED BY <2>1, <2>2, <2>3
<1>4. /\ job' \in Jobs /\ job'.stage = "inspect" /\ ~job'.mine
      /\ UNCHANGED <<active, exec, sent, tried, unheard, since, prompts>>
  BY GoesJob DEF LookFails
<1>5. faults' \in 0 .. MaxFaults
  BY DEF LookFails, Fault, TurnsTypeOK
<1>6. TurnsTypeOK'
  BY <1>2, <1>3, <1>4, <1>5 DEF TurnsTypeOK
<1>7. LiveInv' /\ ReadInv' /\ StageInv' /\ SelectedInv'
  BY <1>1, <1>2, <1>3, <1>4 DEF LiveInv, ReadInv, StageInv, SelectedInv
<1>8. Held' = Held /\ Open' = Open /\ \A t \in Held : failed[t] # None
  BY <1>3 DEF Held, Open
<1>9. QuotaInv'
  BY <1>3, <1>4, <1>8 DEF QuotaInv, Held, Open, TurnsTypeOK, Records, Times
<1>10. FailureKnown'
  BY <1>1, <1>2, <1>3, <1>4 DEF FailureKnown, TurnsTypeOK
<1> QED BY <1>6, <1>7, <1>9, <1>10

LEMMA ResumeKeeps == ASSUME TurnsInv, NEW s \in Sessions, Resume(s) PROVE TurnsInv'
<1> USE DEF TurnsInv
<1>1. /\ job.stage = "resume" /\ job.then = "resume"
      /\ UNCHANGED <<active, exec, sent, failed, tried, unheard, since, prompts, faults>>
  BY DEF Resume, StageInv
<1>2. CASE s \notin ToResume
  <2>1. UNCHANGED tables /\ faults' \in 0 .. MaxFaults
    BY <1>2 DEF Resume, tables, TurnsTypeOK
  <2>2. job' \in Jobs /\ job'.stage = "resume" /\ job'.then = "resume" /\ ~job'.mine
    BY ZenonT(30), <1>1, <1>2 DEF Resume, TurnsTypeOK, LiveInv, Jobs
  <2> QED BY <1>1, <2>1, <2>2, MovesOn
<1>3. CASE s \in ToResume
  <2> DEFINE row == [due |-> 1, resume |-> FALSE]
  <2>1. s \in active /\ probe' = [probe EXCEPT ![s] = row]
    BY <1>3 DEF Resume, ToResume, LiveInv
  <2>11. row \in Probes
    BY DEF Probes
  <2> HIDE DEF row
  <2>2. row \in Probes /\ row # None
    BY <2>11, NoneAssumption
  <2>3. /\ probe' \in [Sessions -> Probes \cup {None}] /\ probe'[s] # None
        /\ \A t \in Sessions \ {s} : probe'[t] = probe[t]
    BY <2>1, <2>2 DEF TurnsTypeOK
  <2>4. PICK says \in Says(s) :
          job' = [job EXCEPT !.todo = @ \ {s}, !.at = s, !.mine = TRUE,
                             !.stage = IF s \in sent THEN "record" ELSE "retry",
                             !.read = IF s \in sent THEN says ELSE None]
    BY <1>3 DEF Resume
  <2>5. /\ job' \in Jobs /\ job'.at = s /\ job'.then = "resume"
        /\ job'.stage = IF s \in sent THEN "record" ELSE "retry"
        /\ s \in sent => job'.read = says
    BY <1>1, <2>4, SaysTrue DEF TurnsTypeOK, Jobs
  <2>6. TurnsTypeOK'
    BY <1>1, <2>3, <2>5 DEF TurnsTypeOK
  <2>7. LiveInv' /\ StageInv'
    BY <1>1, <2>1, <2>3, <2>5 DEF LiveInv, StageInv
  <2>8. ReadInv'
    BY <1>1, <2>5, SaysTrue DEF ReadInv
  <2>9. QuotaInv' /\ SelectedInv'
    BY <1>1, <2>5 DEF QuotaInv, SelectedInv, Held, Open
  <2>10. FailureKnown'
    BY <1>1, <2>3 DEF FailureKnown, TurnsTypeOK
  <2> QED BY <2>6, <2>7, <2>8, <2>9, <2>10
<1> QED BY <1>2, <1>3

\* A failed turn is a record, and its time is one that can be waited for.
LEMMA OpenRecords ==
  ASSUME TurnsTypeOK
  PROVE  /\ Held \subseteq Open /\ Open \subseteq Sessions
         /\ \A t \in Sessions : failed[t] # None =>
              failed[t] \in Records /\ failed[t].due \in Times /\ failed[t].due \in Nat
         /\ \A t \in Open : failed[t] \in Records /\ failed[t].due \in Times
         /\ ProbeDelay \in Times /\ ProbeDelay \in Nat /\ since \in Nat /\ 1 \in Times
<1>1. \A t \in Sessions : failed[t] # None => failed[t] \in Records
  BY DEF TurnsTypeOK
<1>2. \A r \in Records : r.due \in Times
  BY DEF Records
<1> QED BY <1>1, <1>2, TurnsAssumption DEF Held, Open, Times, TurnsTypeOK

\* All that wait for the quota wait for the next probe.
LEMMA MovedRecords ==
  ASSUME TurnsTypeOK, NEW s \in Sessions
  PROVE  /\ Moved(s) \in [Sessions -> Records \cup {None}]
         /\ \A t \in Sessions \ Held : Moved(s)[t] = failed[t]
         /\ \A t \in Held :
              /\ Moved(s)[t] # None /\ Moved(s)[t].due = ProbeDelay
              /\ Moved(s)[t].quota = failed[t].quota /\ Moved(s)[t].review = failed[t].review
              /\ Moved(s)[t].current = failed[t].current
<1> DEFINE row(t) == [failed[t] EXCEPT !.due = ProbeDelay, !.pushed = FALSE]
<1>1. ASSUME NEW t \in Held
      PROVE  /\ row(t) \in Records /\ row(t).due = ProbeDelay
             /\ row(t).quota = failed[t].quota /\ row(t).review = failed[t].review
             /\ row(t).current = failed[t].current
  <2>1. failed[t] \in Records /\ ProbeDelay \in Times
    BY OpenRecords
  <2> QED BY <2>1 DEF Records
<1>2. Moved(s) = [t \in Sessions |-> IF t \in Held THEN row(t) ELSE failed[t]]
  BY DEF Moved
<1>3. Held \subseteq Sessions /\ failed \in [Sessions -> Records \cup {None}]
  BY OpenRecords DEF TurnsTypeOK
<1> HIDE DEF row
<1>4. /\ Moved(s) \in [Sessions -> Records \cup {None}]
      /\ \A t \in Sessions \ Held : Moved(s)[t] = failed[t]
      /\ \A t \in Held : Moved(s)[t] = row(t)
  BY <1>1, <1>2, <1>3
<1>5. \A t \in Held : row(t) # None
  BY <1>1, NoneAssumption
<1> QED BY <1>1, <1>4, <1>5

LEMMA DispatchKeeps == ASSUME TurnsInv, NEW s \in Sessions, Dispatch(s) PROVE TurnsInv'
<1> USE DEF TurnsInv
<1>1. /\ job.stage = "dispatch" /\ s \in job.todo /\ job.then \in {"idle", "dispatch"} /\ ~job.mine
      /\ UNCHANGED <<active, exec, sent, probe, unheard, prompts, faults>>
  BY DEF Dispatch, StageInv, LiveInv
<1>2. CASE s \notin Open
  <2>1. UNCHANGED tables /\ faults' \in 0 .. MaxFaults /\ UNCHANGED since
    BY <1>1, <1>2 DEF Dispatch, tables, TurnsTypeOK
  <2>2. job' = [job EXCEPT !.todo = @ \ {s}, !.stage = IF job.then = "idle" THEN "idle" ELSE @]
    BY <1>2 DEF Dispatch
  <2>3. job' \in Jobs /\ ~job'.mine /\ job'.then = job.then /\ job'.todo \subseteq job.todo
        /\ job'.stage = IF job.then = "idle" THEN "idle" ELSE "dispatch"
    BY <1>1, <2>2 DEF TurnsTypeOK, Jobs
  <2>4. job'.stage = "dispatch" /\ job'.then = "dispatch" => Held = {}
    BY <1>1, <2>3 DEF SelectedInv
  <2>5. job'.stage \in {"idle", "dispatch"} /\ (job'.stage = "dispatch" => job'.then = "dispatch")
    BY <1>1, <2>3
  <2> QED BY <1>1, <2>1, <2>3, <2>4, <2>5, MovesOn
<1>3. CASE s \in Open
  <2>1. /\ failed' = IF failed[s].quota THEN Moved(s) ELSE [failed EXCEPT ![s].due = 1]
        /\ tried' = TriedLast(s)
        /\ since' = IF failed[s].quota THEN 0 ELSE since
        /\ job' = [job EXCEPT !.todo = @ \ {s}, !.stage = "retry", !.at = s]
    BY <1>3 DEF Dispatch
  <2>2. job' \in Jobs /\ job'.stage = "retry" /\ job'.at = s /\ job'.then = job.then /\ ~job'.mine
    BY <1>1, <2>1 DEF TurnsTypeOK, Jobs
  <2>3. tried' \in Seq(Sessions) /\ IsInjective(tried')
    BY <2>1, MovedLast DEF TriedLast, TurnsTypeOK
  <2>4. /\ failed' \in [Sessions -> Records \cup {None}]
        /\ \A t \in Sessions :
             IF failed[t] = None THEN failed'[t] = None
             ELSE /\ failed'[t] # None
                  /\ failed'[t].quota = failed[t].quota /\ failed'[t].review = failed[t].review
                  /\ failed'[t].current = failed[t].current
    <3>1. CASE failed[s].quota
      <4>1. \A t \in Held : failed[t] # None
        BY DEF Held, Open
      <4> QED BY <2>1, <3>1, <4>1, MovedRecords
    <3>2. CASE ~failed[s].quota
      <4> DEFINE row == [failed[s] EXCEPT !.due = 1]
      <4>1. failed[s] \in Records /\ 1 \in Times /\ failed' = [failed EXCEPT ![s] = row]
        BY <1>3, <2>1, <3>2, OpenRecords
      <4>2. row \in Records /\ row.quota = failed[s].quota /\ row.review = failed[s].review
            /\ row.current = failed[s].current
        BY <4>1 DEF Records
      <4>3. failed[s] # None /\ failed \in [Sessions -> Records \cup {None}]
        BY <1>3 DEF Open, TurnsTypeOK
      <4> HIDE DEF row
      <4> QED BY <4>1, <4>2, <4>3, NoneAssumption
    <3> QED BY <3>1, <3>2
  <2>5. Held' = Held /\ Open' = Open
    BY <2>4 DEF Held, Open
  <2>6. QuotaInv'
    <3>1. CASE failed[s].quota
      <4>1. \A t \in Held : failed'[t].due = ProbeDelay
        BY <2>1, <3>1, MovedRecords
      <4>2. since' = 0
        BY <2>1, <3>1
      <4> QED BY <4>1, <4>2, <2>5, OpenRecords DEF QuotaInv
    <3>2. CASE ~failed[s].quota
      <4>1. Held = {}
        BY <1>3, <3>2 DEF QuotaInv, Held
      <4> QED BY <4>1, <2>5 DEF QuotaInv
    <3> QED BY <3>1, <3>2
  <2>7. since' \in Times
    BY <2>1, TurnsAssumption DEF TurnsTypeOK, Times
  <2>8. TurnsTypeOK'
    BY <1>1, <2>2, <2>3, <2>4, <2>7 DEF TurnsTypeOK
  <2>9. LiveInv' /\ ReadInv' /\ StageInv'
    BY <1>1, <1>3, <2>2, <2>4 DEF LiveInv, ReadInv, StageInv, Open
  <2>10. SelectedInv'
    BY <1>1, <2>2, <2>5 DEF SelectedInv
  <2>11. FailureKnown'
    BY <1>1, <2>4 DEF FailureKnown, TurnsTypeOK
  <2> QED BY <2>6, <2>8, <2>9, <2>10, <2>11
<1> QED BY <1>2, <1>3

\* The row that led to a turn is done with or due at once; the other rows are kept,
\* and so is a row that is not the one that was read.
LEMMA AfterRows ==
  ASSUME TurnsTypeOK, NEW s \in Sessions, NEW rows \in [Sessions -> Probes \cup {None}],
         job.mine => rows[s] # None
  PROVE  /\ RowAfter(s, rows) \in [Sessions -> Probes \cup {None}]
         /\ \A t \in Sessions \ {s} : RowAfter(s, rows)[t] = rows[t]
         /\ ~job.mine => RowAfter(s, rows)[s] = rows[s]
         /\ rows[s] = None => RowAfter(s, rows)[s] = None
<1>1. CASE ~job.mine
  BY <1>1 DEF RowAfter, LookedAt
<1>2. CASE job.mine /\ job.then = "inspect"
  BY <1>2 DEF RowAfter, LookedAt
<1>3. CASE job.mine /\ job.then # "inspect"
  <2> DEFINE row == [rows[s] EXCEPT !.due = 0]
  <2>1. rows[s] \in Probes /\ rows[s] # None
    BY <1>3
  <2>2. row \in Probes
    BY <2>1 DEF Probes
  <2>3. RowAfter(s, rows) = [rows EXCEPT ![s] = row]
    BY <1>3 DEF RowAfter
  <2> HIDE DEF row
  <2> QED BY <1>3, <2>1, <2>2, <2>3
<1> QED BY <1>1, <1>2, <1>3

\* The records after a failure: that of s is new, the others keep what is known of
\* them, and wait with it for the quota if they have to.
LEMMA FailureRecords ==
  ASSUME TurnsInv, NEW s \in Sessions, job.read \in Reads
  PROVE  /\ Failure(s) \in [Sessions -> Records \cup {None}]
         /\ Failure(s)[s] # None
         /\ Failure(s)[s].review <=> s \in sent
         /\ Failure(s)[s].current <=> job.read.current
         /\ Failure(s)[s].quota <=> Held # {} \/ job.read.quota
         /\ Failure(s)[s].quota => Failure(s)[s].due + since >= ProbeDelay
         /\ \A t \in Sessions \ {s} :
              IF failed[t] = None THEN Failure(s)[t] = None
              ELSE /\ Failure(s)[t] # None
                   /\ Failure(s)[t].review = failed[t].review
                   /\ Failure(s)[t].current = failed[t].current
                   /\ IF t \in Open /\ Held = {} /\ job.read.quota /\ s \notin sent
                      THEN Failure(s)[t].quota /\ Failure(s)[t].due = ProbeDelay
                      ELSE Failure(s)[t] = failed[t]
<1> DEFINE waiting == Held # {}
           quota   == waiting \/ job.read.quota
           due     == IF waiting THEN Min({failed[t].due : t \in Held})
                      ELSE IF quota THEN ProbeDelay ELSE 1
           review  == s \in sent
           new     == [quota |-> quota, review |-> review, due |-> due,
                       current |-> job.read.current, pushed |-> FALSE]
           joins(t) == t \in Open /\ quota /\ ~waiting /\ s \notin sent
           row(t)  == [failed[t] EXCEPT !.quota = TRUE, !.due = due, !.pushed = FALSE]
<1> USE DEF TurnsInv
<1>1. /\ quota \in BOOLEAN /\ review \in BOOLEAN /\ job.read.current \in BOOLEAN
      /\ job.read.quota \in BOOLEAN
  BY DEF Reads
<1>2. due \in Times /\ (quota => due + since >= ProbeDelay) /\ (~waiting /\ quota => due = ProbeDelay)
  <2>1. CASE waiting
    <3> DEFINE dues == {failed[t].due : t \in Held}
    <3>1. dues \in SUBSET Nat /\ dues # {}
      <4>1. \A t \in Held : failed[t].due \in Nat
        BY OpenRecords DEF Times
      <4> QED BY <2>1, <4>1
    <3>2. PICK t \in Held : Min(dues) = failed[t].due
      BY <3>1, MinOfNats
    <3> QED BY <2>1, <3>2, OpenRecords DEF QuotaInv
  <2>2. CASE ~waiting
    BY <2>2, OpenRecords
  <2> QED BY <2>1, <2>2
<1>3. new \in Records
  <2> HIDE DEF quota, review, due
  <2> QED BY <1>1, <1>2 DEF Records
<1>4. ASSUME NEW t \in Open
      PROVE  /\ row(t) \in Records /\ row(t).quota /\ row(t).due = due
             /\ row(t).review = failed[t].review /\ row(t).current = failed[t].current
  <2>1. failed[t] \in Records
    BY OpenRecords
  <2> HIDE DEF due
  <2> QED BY <1>2, <2>1 DEF Records
<1>5. Failure(s) = [t \in Sessions |-> IF t = s THEN new ELSE IF joins(t) THEN row(t) ELSE failed[t]]
  BY DEF Failure
<1>6. failed \in [Sessions -> Records \cup {None}] /\ Open \subseteq Sessions
      /\ \A t \in Open : failed[t] # None
  BY DEF TurnsTypeOK, Open
<1>7. /\ Failure(s)[s] = new
      /\ \A t \in Sessions \ {s} : Failure(s)[t] = IF joins(t) THEN row(t) ELSE failed[t]
  BY <1>5
<1>8. /\ new.quota = quota /\ new.review = review /\ new.due = due /\ new.current = job.read.current
  OBVIOUS
<1>9. \A t \in Sessions : joins(t) => t \in Open
  OBVIOUS
<1>10. Failure(s) \in [Sessions -> Records \cup {None}]
  <2> HIDE DEF new, joins, row
  <2> QED BY ZenonT(30), <1>3, <1>4, <1>5, <1>6, <1>9
<1>11. \A t \in Sessions \ {s} :
         IF failed[t] = None THEN Failure(s)[t] = None
         ELSE /\ Failure(s)[t] # None
              /\ Failure(s)[t].review = failed[t].review
              /\ Failure(s)[t].current = failed[t].current
              /\ IF joins(t) THEN Failure(s)[t].quota /\ Failure(s)[t].due = due
                 ELSE Failure(s)[t] = failed[t]
  <2> HIDE DEF joins, row, due
  <2> QED BY <1>4, <1>6, <1>7, <1>9, NoneAssumption
<1>12. new # None
  <2> HIDE DEF new
  <2> QED BY <1>3, NoneAssumption
<1>13. \A t \in Sessions :
         joins(t) <=> t \in Open /\ Held = {} /\ job.read.quota /\ s \notin sent
  OBVIOUS
<1>14. \A t \in Sessions : joins(t) => due = ProbeDelay
  BY <1>2
<1> HIDE DEF new, joins, row, due, review
<1>15. /\ Failure(s)[s] # None
       /\ Failure(s)[s].current <=> job.read.current
       /\ Failure(s)[s].quota <=> Held # {} \/ job.read.quota
       /\ Failure(s)[s].quota => Failure(s)[s].due + since >= ProbeDelay
  BY <1>2, <1>7, <1>8, <1>12
<1>16. Failure(s)[s].review <=> s \in sent
  BY <1>7, <1>8 DEF review
<1>17. \A t \in Sessions \ {s} :
              IF failed[t] = None THEN Failure(s)[t] = None
              ELSE /\ Failure(s)[t] # None
                   /\ Failure(s)[t].review = failed[t].review
                   /\ Failure(s)[t].current = failed[t].current
                   /\ IF t \in Open /\ Held = {} /\ job.read.quota /\ s \notin sent
                      THEN Failure(s)[t].quota /\ Failure(s)[t].due = ProbeDelay
                      ELSE Failure(s)[t] = failed[t]
  BY <1>11, <1>13, <1>14
<1> QED BY <1>10, <1>15, <1>16, <1>17

LEMMA ReconcileKeeps == ASSUME TurnsInv, Reconcile PROVE TurnsInv'
<1> DEFINE s == job.at
           success == ~job.read.failed /\ failed[s] # None /\ job.read.newer
           failure == job.read.failed /\ (job.read.newer \/ s \in sent \cap Open)
<1> USE DEF TurnsInv
<1>1. /\ job.stage = "record" /\ s \in Sessions /\ s \in active /\ job.read \in Reads
      /\ job.mine => probe[s] # None
      /\ job.then \in {"inspect", "resume"}
      /\ UNCHANGED <<active, exec, sent, since, prompts, faults>>
      /\ job' = Goes(job.then)
      /\ unheard' = IF job.read.current THEN unheard \ {s} ELSE unheard
  BY DEF Reconcile, LiveInv, StageInv, ReadInv, TurnsTypeOK, Jobs
<1>2. /\ job' \in Jobs /\ job'.stage \in {"inspect", "resume"} /\ ~job'.mine
      /\ job'.then = job.then /\ job'.stage = job.then
  BY <1>1, GoesJob
<1>3. unheard' \subseteq Sessions
  BY <1>1 DEF TurnsTypeOK
\* What the three cases have to show; the rest follows from it.
<1>4. SUFFICES
        /\ failed' \in [Sessions -> Records \cup {None}]
        /\ probe' \in [Sessions -> Probes \cup {None}]
        /\ tried' \in Seq(Sessions) /\ IsInjective(tried')
        /\ \A t \in Sessions : failed'[t] # None \/ probe'[t] # None =>
             failed[t] # None \/ probe[t] # None \/ t = s
        /\ QuotaInv'
        /\ \A t \in Sessions \ {s} :
             \/ probe'[t] # None
             \/ /\ failed'[t] = None <=> failed[t] = None
                /\ failed[t] # None => failed'[t].current = failed[t].current
                /\ probe'[t] = probe[t]
        /\ exec[s].outcome # "ok" => \/ failed'[s] # None /\ failed'[s].current
                                     \/ probe'[s] # None
                                     \/ ~job.read.current /\ s \in unheard
  <2>1. TurnsTypeOK'
    BY <1>1, <1>2, <1>3, <1>4 DEF TurnsTypeOK
  <2>2. LiveInv' /\ ReadInv' /\ StageInv' /\ SelectedInv'
    BY <1>1, <1>2, <1>4 DEF LiveInv, ReadInv, StageInv, SelectedInv
  <2>3. FailureKnown'
    BY <1>1, <1>4 DEF FailureKnown, TurnsTypeOK
  <2> QED BY <1>4, <2>1, <2>2, <2>3
<1>5. ~job.read.current => s \in unheard \/ (probe[s] # None /\ ~job.mine)
  BY <1>1 DEF ReadInv
<1>6. failed \in [Sessions -> Records \cup {None}] /\ probe \in [Sessions -> Probes \cup {None}]
      /\ tried \in Seq(Sessions) /\ IsInjective(tried)
  BY DEF TurnsTypeOK
<1>7. CASE success /\ failed' = [t \in Sessions |-> IF t \in {s} \cup Released(s) THEN None ELSE failed[t]]
                   /\ tried' = tried
                   /\ probe' = RowAfter(s, [t \in Sessions |->
                        IF t \in Released(s) THEN [due |-> 0, resume |-> TRUE] ELSE probe[t]])
  <2> DEFINE row == [due |-> 0, resume |-> TRUE]
             rows == [t \in Sessions |-> IF t \in Released(s) THEN row ELSE probe[t]]
  <2>1. row \in Probes
    BY DEF Probes
  <2>2. Released(s) \subseteq Sessions \ {s} /\ \A t \in Released(s) : failed[t] # None
    BY DEF Released, Held, Open
  <2> HIDE DEF row
  <2>3. /\ rows \in [Sessions -> Probes \cup {None}] /\ rows[s] = probe[s] /\ row # None
        /\ \A t \in Released(s) : rows[t] = row
        /\ \A t \in Sessions \ Released(s) : rows[t] = probe[t]
    BY <1>1, <1>6, <2>1, <2>2, NoneAssumption
  <2>4. probe' = RowAfter(s, rows)
    BY <1>7 DEF row
  <2> HIDE DEF rows
  <2>5. /\ probe' \in [Sessions -> Probes \cup {None}]
        /\ \A t \in Sessions \ {s} : probe'[t] = rows[t]
        /\ ~job.mine => probe'[s] = probe[s]
    BY <1>1, <2>3, <2>4, AfterRows
  <2>6. failed' \in [Sessions -> Records \cup {None}]
        /\ \A t \in Sessions : failed'[t] = IF t = s \/ t \in Released(s) THEN None ELSE failed[t]
    BY <1>6, <1>7
  <2>7. QuotaInv'
    <3>1. CASE failed[s].quota
      <4>1. Released(s) = Held \ {s}
        BY <3>1 DEF Released
      <4>2. Held' = {}
        BY <2>6, <4>1 DEF Held, Open
      <4> QED BY <4>2 DEF QuotaInv
    <3>2. CASE ~failed[s].quota
      <4>1. Released(s) = {}
        BY <3>2 DEF Released
      <4>2. Open' = Open \ {s} /\ Held' = Held \ {s}
        BY <2>6, <4>1, <1>1 DEF Held, Open
      <4>3. \A t \in Held \ {s} : failed'[t] = failed[t]
        BY <2>6, <4>1, OpenRecords
      <4> QED BY <1>1, <4>2, <4>3 DEF QuotaInv
    <3> QED BY <3>1, <3>2
  <2>8. exec[s].outcome # "ok" => ~job.read.current
    BY <1>1, <1>7 DEF ReadInv
  <2>12. ASSUME NEW t \in Sessions \ {s}
         PROVE  IF t \in Released(s)
                THEN failed[t] # None /\ probe'[t] # None /\ failed'[t] = None
                ELSE failed'[t] = failed[t] /\ probe'[t] = probe[t]
    BY <2>2, <2>3, <2>5, <2>6
  <2>9. \A t \in Sessions : failed'[t] # None \/ probe'[t] # None =>
          failed[t] # None \/ probe[t] # None \/ t = s
    BY <2>12
  <2>10. \A t \in Sessions \ {s} :
           \/ probe'[t] # None
           \/ failed'[t] = failed[t] /\ probe'[t] = probe[t]
    BY <2>12
  <2>11. exec[s].outcome # "ok" => \/ probe'[s] # None
                                   \/ ~job.read.current /\ s \in unheard
    BY <1>5, <2>5, <2>8
  <2> QED BY <1>6, <1>7, <2>5, <2>6, <2>7, <2>9, <2>10, <2>11
<1>8. CASE failure /\ failed' = Failure(s) /\ probe' = RowAfter(s, probe)
                   /\ tried' = IF failed[s] = None THEN RemoveFirst(tried, s) ELSE tried
  <2>1. /\ probe' \in [Sessions -> Probes \cup {None}]
        /\ \A t \in Sessions \ {s} : probe'[t] = probe[t]
        /\ ~job.mine => probe'[s] = probe[s]
    BY <1>1, <1>6, <1>8, AfterRows
  <2>2. tried' \in Seq(Sessions) /\ IsInjective(tried')
    BY <1>6, <1>8, RemovedOnce
  <2>3. /\ failed' \in [Sessions -> Records \cup {None}]
        /\ failed'[s] # None
        /\ failed'[s].review <=> s \in sent
        /\ failed'[s].current <=> job.read.current
        /\ failed'[s].quota <=> Held # {} \/ job.read.quota
        /\ failed'[s].quota => failed'[s].due + since >= ProbeDelay
        /\ \A t \in Sessions \ {s} :
             IF failed[t] = None THEN failed'[t] = None
             ELSE /\ failed'[t] # None
                  /\ failed'[t].review = failed[t].review
                  /\ failed'[t].current = failed[t].current
                  /\ IF t \in Open /\ Held = {} /\ job.read.quota /\ s \notin sent
                     THEN failed'[t].quota /\ failed'[t].due = ProbeDelay
                     ELSE failed'[t] = failed[t]
    BY <1>1, <1>8, FailureRecords
  <2>4. Open' = IF s \in sent THEN Open \ {s} ELSE Open \cup {s}
    BY <1>1, <2>3 DEF Open
  <2>5. QuotaInv'
    <3>1. CASE Held # {}
      <4>1. Held = Open /\ \A t \in Sessions \ {s} : failed'[t] = failed[t]
        BY <2>3, <3>1 DEF QuotaInv
      <4>2. \A t \in Open' : t = s \/ (t \in Open /\ failed'[t] = failed[t])
        BY <2>4, <4>1, OpenRecords
      <4>3. \A t \in Open' : failed'[t].quota /\ failed'[t].due + since >= ProbeDelay
        <5>1. \A t \in Open : failed[t].quota /\ failed[t].due + since >= ProbeDelay
          BY <4>1 DEF Held, QuotaInv
        <5> QED BY <2>3, <3>1, <4>2, <5>1
      <4>4. Held' = Open'
        BY <4>3 DEF Held
      <4> QED BY <4>3, <4>4, <1>1 DEF QuotaInv
    <3>2. CASE Held = {} /\ job.read.quota /\ s \notin sent
      <4>1. Held' = Open'
        BY <2>3, <2>4, <3>2 DEF Held, Open
      <4>2. \A t \in Held' : failed'[t].due + since >= ProbeDelay
        BY <2>3, <2>4, <3>2, <4>1, OpenRecords DEF Open
      <4> QED BY <4>1, <4>2, <1>1 DEF QuotaInv
    <3>3. CASE Held = {} /\ ~(job.read.quota /\ s \notin sent)
      <4>1. Held' = {}
        BY <2>3, <2>4, <3>3 DEF Held, Open
      <4> QED BY <4>1 DEF QuotaInv
    <3> QED BY <3>1, <3>2, <3>3
  <2>6. \A t \in Sessions : failed'[t] # None \/ probe'[t] # None =>
          failed[t] # None \/ probe[t] # None \/ t = s
    BY <2>1, <2>3
  <2>7. \A t \in Sessions \ {s} :
           /\ failed'[t] = None <=> failed[t] = None
           /\ failed[t] # None => failed'[t].current = failed[t].current
           /\ probe'[t] = probe[t]
    BY <2>1, <2>3
  <2>8. \/ failed'[s] # None /\ failed'[s].current
        \/ probe'[s] # None
        \/ ~job.read.current /\ s \in unheard
    BY <1>5, <2>1, <2>3
  <2> QED BY <2>1, <2>2, <2>3, <2>5, <2>6, <2>7, <2>8
<1>9. CASE ~success /\ ~failure /\ probe' = RowAfter(s, probe) /\ UNCHANGED <<failed, tried>>
  <2>1. /\ probe' \in [Sessions -> Probes \cup {None}]
        /\ \A t \in Sessions \ {s} : probe'[t] = probe[t]
        /\ ~job.mine => probe'[s] = probe[s]
    BY <1>1, <1>6, <1>9, AfterRows
  <2>2. QuotaInv'
    BY <1>1, <1>9 DEF QuotaInv, Held, Open
  <2>3. exec[s].outcome # "ok" /\ job.read.current => failed[s] # None /\ failed[s].current
    BY <1>1, <1>9 DEF ReadInv
  <2>4. \A t \in Sessions : failed'[t] # None \/ probe'[t] # None =>
          failed[t] # None \/ probe[t] # None \/ t = s
    BY <1>9, <2>1
  <2>5. exec[s].outcome # "ok" => \/ failed'[s] # None /\ failed'[s].current
                                  \/ probe'[s] # None
                                  \/ ~job.read.current /\ s \in unheard
    BY <1>5, <1>9, <2>1, <2>3
  <2> QED BY <1>6, <1>9, <2>1, <2>2, <2>4, <2>5
<1> QED BY <1>7, <1>8, <1>9 DEF Reconcile

-----------------------------------------------------------------------------
(* Theorems. *)

LEMMA NextKeeps == TurnsInv /\ [TurnsNext]_vars => TurnsInv'
<1> SUFFICES ASSUME TurnsInv, [TurnsNext]_vars PROVE TurnsInv'
  OBVIOUS
<1>1. CASE Tick
  BY <1>1, BeginKeeps, ReconcileKeeps, SelectKeeps, RetryKeeps, ResumesKeeps, RestKeeps,
     LookKeeps, DispatchKeeps, ResumeKeeps DEF Tick
<1>2. CASE LookFails \/ RetryFails \/ Restart \/ Pass
  BY <1>2, LookFailsKeeps, RetryKeeps, RestKeeps, PassKeeps
<1>3. ASSUME NEW s \in Sessions,
             \/ Prompt(s) \/ Start(s) \/ Send(s) \/ Leave(s)
             \/ \E outcome \in Failures \cup {"ok"} : End(s, outcome)
      PROVE  TurnsInv'
  BY <1>3, PromptKeeps, StartKeeps, SendKeeps, LeaveKeeps, EndKeeps
<1>4. CASE UNCHANGED vars
  <2> USE <1>4 DEF vars, tables
  <2>1. TurnsTypeOK' /\ LiveInv' /\ ReadInv' /\ StageInv' /\ FailureKnown'
    BY DEF TurnsInv, TurnsTypeOK, LiveInv, ReadInv, StageInv, FailureKnown
  <2>2. QuotaInv' /\ SelectedInv'
    BY DEF TurnsInv, QuotaInv, SelectedInv, Held, Open
  <2> QED BY <2>1, <2>2 DEF TurnsInv
<1> QED BY <1>1, <1>2, <1>3, <1>4 DEF TurnsNext

\* The inductive invariant holds in every state.
THEOREM TurnsInvariant == TurnsSpec => []TurnsInv
  BY InitInv, NextKeeps, PTL DEF TurnsSpec

\* Tables, job and clock keep their types; the order of the tries lists no session twice.
THEOREM TurnsTypeCorrect == TurnsSpec => []TurnsTypeOK
<1>1. TurnsInv => TurnsTypeOK
  BY DEF TurnsInv
<1> QED BY <1>1, TurnsInvariant, PTL

\* failed-turns.ts and turn-work.ts lose no failure: the last execution of a live
\* conversation that failed is recorded, has a row, or waits for the recovery lane,
\* whatever the tick read before the executor went on.
THEOREM TurnsFailureKnown == TurnsSpec => []FailureKnown
<1>1. TurnsInv => FailureKnown
  BY DEF TurnsInv
<1> QED BY <1>1, TurnsInvariant, PTL

\* While turns wait for the quota one of them is tried, a whole delay after the last.
THEOREM TurnsOneProbe == TurnsSpec => OneProbe
<1> DEFINE A == \A s \in Sessions :
                  job.stage = "dispatch" /\ job'.stage = "retry" /\ job'.at = s /\ Held # {}
                    => s \in Held /\ since = ProbeDelay
<1>1. TurnsInv /\ [TurnsNext]_vars => [A]_vars
  <2> SUFFICES ASSUME TurnsInv, TurnsNext, job.stage = "dispatch", job'.stage = "retry",
                      NEW s \in Sessions, job'.at = s, Held # {}
               PROVE  s \in Held /\ since = ProbeDelay
    BY DEF vars
  <2> USE DEF TurnsInv
  <2>1. PICK t \in Sessions : Dispatch(t) /\ t \in Open /\ t \in job.todo /\ job'.at = t
    <3>1. CASE \E t \in Sessions : Dispatch(t)
      <4>1. PICK t \in Sessions : Dispatch(t)
        BY <3>1
      <4>2. CASE t \notin Open
        BY <4>1, <4>2 DEF Dispatch, TurnsTypeOK, Jobs
      <4>3. CASE t \in Open
        BY <4>1, <4>3 DEF Dispatch, TurnsTypeOK, Jobs
      <4> QED BY <4>2, <4>3
    <3>2. CASE \E t \in Sessions : Prompt(t) \/ \E outcome \in Failures \cup {"ok"} : End(t, outcome)
      <4>1. PICK t \in Sessions : Prompt(t) \/ \E outcome \in Failures \cup {"ok"} : End(t, outcome)
        BY <3>2
      <4>2. CASE Prompt(t)
        BY <4>2, NotMineJob DEF Prompt
      <4>3. ASSUME NEW outcome \in Failures \cup {"ok"}, End(t, outcome)
            PROVE  job'.stage = job.stage
        <5> DEFINE seen(j) == IF j.at = t /\ j.read # None THEN [j EXCEPT !.read.current = FALSE] ELSE j
        <5>1. \A j \in Jobs : seen(j).stage = j.stage
          BY DEF Jobs
        <5>2. job' = seen(NotMine(t)) \/ job' = seen(job)
          BY <4>3 DEF End
        <5> HIDE DEF seen
        <5> QED BY <5>1, <5>2, NotMineJob DEF TurnsTypeOK
      <4> QED BY <4>1, <4>2, <4>3
    <3>3. CASE \E t \in Sessions : Start(t) \/ Send(t) \/ Leave(t)
      BY <3>3 DEF Start, Send, Leave
    <3>4. CASE Begin \/ Pass \/ Restart
      BY <3>4, IdleJob DEF Begin, Pass, Restart
    <3>5. CASE Resumes
      BY <3>5, GoesJob DEF Resumes, Jobs
    <3>6. Reconcile \/ Retry \/ RetryFails \/ LookFails \/ Rest \/ Select \/ (\E t \in Sessions : Look(t) \/ Resume(t))
            => job.stage # "dispatch"
      BY DEF Reconcile, Retry, RetryFails, LookFails, Rest, Select, Look, Resume
    <3> QED BY <3>1, <3>2, <3>3, <3>4, <3>5, <3>6 DEF TurnsNext, Tick
  <2>2. Held = Open /\ job.then = "idle"
    BY DEF QuotaInv, SelectedInv, StageInv
  <2>3. s \in Held /\ failed[s].due = 0
    BY <2>1, <2>2 DEF SelectedInv
  <2> QED BY <2>3, OpenRecords DEF QuotaInv, TurnsTypeOK, Times
<1> QED BY <1>1, TurnsInvariant, PTL DEF TurnsSpec, OneProbe

=============================================================================
