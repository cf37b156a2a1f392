------------------------------ MODULE Rebuild -------------------------------
(***************************************************************************)
(* How a conversation gets a new session (conversations/rebuild-session.ts *)
(* and the replay of intake/intake.ts) while intake goes on.  A rebuild is *)
(* run by the operator, who forces a replacement, by the recovery tick,    *)
(* and by the reader itself; any number of them may overlap.               *)
(*                                                                         *)
(* A call that fails, times out or dies with its process may have been     *)
(* executed or not.  The executor serves the calls about one session in    *)
(* the order they were made, so an abandoned call does not overtake a      *)
(* later one.                                                              *)
(***************************************************************************)
EXTENDS Intake

CONSTANTS
  Runners,    \* overlapping rebuilds
  Operators,  \* those of them that an operator forced
  MaxFaults,  \* failures in a behaviour
  Replacing   \* whether the Mac's database may be replaced

ASSUME RebuildAssumption ==
  /\ Operators \subseteq Runners
  /\ MaxFaults \in Nat
  /\ Replacing \in BOOLEAN

VARIABLES
  run,          \* how far each rebuild is
  saved,        \* application_checkpoint: the replay cursor, by session
  lastSession,  \* the last session created
  faults        \* failures so far

rebuildVars == <<run, saved, lastSession>>
vars        == <<intakeVars, rebuildVars, faults>>

\* Stages in which a rebuild holds the handle's lock and the lifecycle lock, and
\* stages in which it holds the replay lock of its session.
Locked    == {"fencing", "creating", "sealing", "releasing", "finishing"}
Replaying == {"replaying", "admitting", "marking", "settling", "releasing", "finishing",
              "removing"}
Stages    == {"idle", "waiting"} \cup Locked \cup Replaying

Runs == [stage : Stages, old : Sessions \cup {None}, target : Sessions \cup {None},
         missing : BOOLEAN, cursor : Nat]

Idle == [stage |-> "idle", old |-> None, target |-> None, missing |-> FALSE, cursor |-> 0]

\* Types; and the receipts that bound a replay are named exactly while the
\* history is replayed, and are those of an older session.
RebuildTypeOK ==
  /\ IntakeTypeOK
  /\ run \in [Runners -> Runs]
  /\ saved \in [Sessions -> Nat]
  /\ lastSession \in Sessions
  /\ faults \in 0 .. MaxFaults
  /\ standing # "ended" => (rebuilding <=> source # None)
  /\ rebuilding => source < session /\ seen[session] \subseteq seen[source]

RebuildInit ==
  /\ IntakeInit
  /\ run = [x \in Runners |-> Idle]
  /\ saved = [s \in Sessions |-> 0]
  /\ lastSession = 1
  /\ faults = 0

LifecycleFree == \A x \in Runners : run[x].stage \notin Locked
HandleFree    == ~Admitting /\ LifecycleFree

To(x, stage) == run' = [run EXCEPT ![x].stage = stage]

-----------------------------------------------------------------------------
(* prepare: replace the session if it is missing or the operator said so. *)

Begin(x) ==
  /\ run[x].stage = "idle"
  /\ HandleFree
  /\ standing = "open"
  /\ LET missing == session \notin present
         begun   == [Idle EXCEPT !.old = session, !.target = session, !.missing = missing]
     IN \/ /\ x \in Operators \/ missing
           /\ lastSession < MaxSessions
           /\ run' = [run EXCEPT ![x] =
                [begun EXCEPT !.stage = IF missing THEN "creating" ELSE "fencing"]]
        \/ /\ x \notin Operators /\ ~missing /\ rebuilding
           /\ run' = [run EXCEPT ![x] = [begun EXCEPT !.stage = "sealing"]]
  /\ UNCHANGED <<intakeVars, saved, lastSession, faults>>

\* The old session may no longer write.
FenceOld(x) ==
  /\ run[x].stage = "fencing"
  /\ run[x].old \in present
  /\ writable' = writable \ {run[x].old}
  /\ To(x, "creating")
  /\ UNCHANGED <<macVars, queueVars, directoryVars, seen, present, transcript, reader,
                 saved, lastSession, faults>>

\* Mutant: the receipts that bound the replay are those of the session replaced
\* last, even if its own replay was not complete.
SourceLast == session

\* Mutant: the receipts are only named for a session that is replaced again.
SourceKept == source

\* The receipts that bound the replay are those of the last live session.
SourceAfter == IF rebuilding /\ source # None THEN source ELSE session

\* The new session is created, and replaces the old one unless he was blocked.
Create(x) ==
  LET new == lastSession + 1
  IN /\ run[x].stage = "creating"
     /\ lastSession' = new
     /\ \/ /\ Current(run[x].old)
           /\ session' = new /\ rebuilding' = TRUE /\ source' = SourceAfter
           /\ present' = present \cup {new}
           /\ run' = [run EXCEPT ![x].stage = "sealing", ![x].target = new]
        \/ /\ ~Current(run[x].old)
           /\ run' = [run EXCEPT ![x] = Idle]
           /\ UNCHANGED <<session, rebuilding, source, present>>
     /\ UNCHANGED <<macVars, queueVars, standing, seen, writable, transcript, reader,
                    saved, faults>>

\* The session to replay into may not write; then the locks are released.
Seal(x) ==
  /\ run[x].stage = "sealing"
  /\ run[x].target \in present
  /\ writable' = writable \ {run[x].target}
  /\ To(x, "waiting")
  /\ UNCHANGED <<macVars, queueVars, directoryVars, seen, present, transcript, reader,
                 saved, lastSession, faults>>

-----------------------------------------------------------------------------
(* replay: prompt the new session with the history the old one had received. *)

\* withReplay: one replay of a session at a time, and only while it is needed.
Enter(x) ==
  /\ run[x].stage = "waiting"
  /\ \A y \in Runners : run[y].stage \in Replaying => run[y].target # run[x].target
  /\ \/ /\ Current(run[x].target) /\ rebuilding
        /\ run' = [run EXCEPT ![x].stage = "replaying", ![x].cursor = saved[run[x].target]]
     \/ /\ ~(Current(run[x].target) /\ rebuilding)
        /\ run' = [run EXCEPT ![x] = Idle]
  /\ UNCHANGED <<intakeVars, saved, lastSession, faults>>

\* Mutant: the last row is not looked at.
ExhaustedEarly(x) == run[x].cursor + 1 >= Len(history)

\* The history has no row behind the cursor.
Exhausted(x) == run[x].cursor >= Len(history)

\* The row behind the replay's cursor.
Row(x) == history[run[x].cursor + 1]

\* A row is replayed when the session it is bound by had received it; once the
\* rebuild is over there is no such session.
Replayable(x) ==
  /\ Current(run[x].target)
  /\ rebuilding
  /\ Row(x) \in seen[source]

\* A row that is not to be replayed, or was, is passed over; the cursor is saved
\* at the end of a page or of the budget.
Pass(x) ==
  /\ run[x].stage = "replaying"
  /\ ~Exhausted(x)
  /\ ~Replayable(x) \/ Row(x) \in seen[run[x].target]
  /\ run' = [run EXCEPT ![x].cursor = @ + 1]
  /\ saved' \in {saved, [saved EXCEPT ![run[x].target] = run'[x].cursor]}
  /\ UNCHANGED <<intakeVars, lastSession, faults>>

\* The prompt is rendered and waits for the handle's lock.
Select(x) ==
  /\ run[x].stage = "replaying"
  /\ ~Exhausted(x)
  /\ Replayable(x) /\ Row(x) \notin seen[run[x].target]
  /\ To(x, "admitting")
  /\ UNCHANGED <<intakeVars, saved, lastSession, faults>>

\* admit: under the lock the session is prompted if it is still current; if not
\* the replay goes on without.
ReplayPrompt(x) ==
  /\ run[x].stage = "admitting"
  /\ HandleFree
  /\ \/ /\ Current(run[x].target)
        /\ run[x].target \in present
        /\ transcript' = Prompted(run[x].target, Row(x))
     \/ /\ ~Current(run[x].target)
        /\ UNCHANGED transcript
  /\ To(x, "marking")
  /\ UNCHANGED <<macVars, queueVars, directoryVars, seen, present, writable, reader,
                 saved, lastSession, faults>>

Mark(x) ==
  /\ run[x].stage = "marking"
  /\ seen' = Receipted(run[x].target, Row(x))
  /\ run' = [run EXCEPT ![x].stage = "replaying", ![x].cursor = @ + 1]
  /\ saved' \in {saved, [saved EXCEPT ![run[x].target] = run'[x].cursor]}
  /\ UNCHANGED <<macVars, queueVars, directoryVars, executorVars, reader, lastSession, faults>>

Replayed(x) ==
  /\ run[x].stage = "replaying"
  /\ Exhausted(x)
  /\ saved' = [saved EXCEPT ![run[x].target] = 0]
  /\ To(x, "settling")
  /\ UNCHANGED <<intakeVars, lastSession, faults>>

-----------------------------------------------------------------------------
(* completion: the session becomes live. *)

\* Mutant: the completion does not look at the directory again.
LivesStill(x) == TRUE

\* The session was not replaced or released while its turns ran.
Completes(x) == Current(run[x].target) /\ rebuilding

\* The turns of the replay have succeeded; under both locks the directory is
\* asked again.
Complete(x) ==
  /\ run[x].stage = "settling"
  /\ HandleFree
  /\ To(x, IF Completes(x) THEN "releasing" ELSE "removing")
  /\ UNCHANGED <<intakeVars, saved, lastSession, faults>>

MakeWritable(x) ==
  /\ run[x].stage = "releasing"
  /\ run[x].target \in present
  /\ writable' = writable \cup {run[x].target}
  /\ To(x, "finishing")
  /\ UNCHANGED <<macVars, queueVars, directoryVars, seen, present, transcript, reader,
                 saved, lastSession, faults>>

Finish(x) ==
  /\ run[x].stage = "finishing"
  /\ \/ session = run[x].target /\ rebuilding' = FALSE /\ source' = None
     \/ session # run[x].target /\ UNCHANGED <<rebuilding, source>>
  /\ To(x, "removing")
  /\ UNCHANGED <<macVars, queueVars, session, standing, seen, executorVars, reader,
                 saved, lastSession, faults>>

\* The session that was replaced is removed.
RemoveOld(x) ==
  LET removed == IF run[x].old # run[x].target /\ ~run[x].missing THEN {run[x].old} ELSE {}
  IN /\ run[x].stage = "removing"
     /\ present' = present \ removed
     /\ writable' = writable \ removed
     /\ run' = [run EXCEPT ![x] = Idle]
     /\ UNCHANGED <<macVars, queueVars, directoryVars, seen, transcript, reader,
                    saved, lastSession, faults>>

\* A call about a session that the executor has lost fails.
NotFound(x) ==
  /\ \/ run[x].stage = "fencing" /\ run[x].old \notin present
     \/ /\ run[x].stage \in {"sealing", "replaying", "settling", "releasing"}
        /\ run[x].target \notin present
     \/ /\ run[x].stage = "admitting" /\ HandleFree
        /\ Current(run[x].target) /\ run[x].target \notin present
  /\ run' = [run EXCEPT ![x] = Idle]
  /\ UNCHANGED <<intakeVars, saved, lastSession, faults>>

RunnerStep(x) ==
  \/ FenceOld(x) \/ Create(x) \/ Seal(x)
  \/ Enter(x) \/ Pass(x) \/ Select(x) \/ ReplayPrompt(x) \/ Mark(x) \/ Replayed(x)
  \/ Complete(x) \/ MakeWritable(x) \/ Finish(x) \/ RemoveOld(x)
  \/ NotFound(x)

-----------------------------------------------------------------------------
(* Failures, and what happens to the conversation from outside. *)

Fault == faults < MaxFaults /\ faults' = faults + 1

\* A call of a rebuild fails, a turn of the replay fails, or its budget is over.
RunnerFails(x) ==
  /\ run[x].stage # "idle"
  /\ Fault
  /\ run' = [run EXCEPT ![x] = Idle]
  /\ UNCHANGED <<intakeVars, saved, lastSession>>

\* The application is evicted or deployed anew: only the tables remain.
Restart ==
  /\ Fault
  /\ run' = [x \in Runners |-> Idle]
  /\ reader' = Waiting
  /\ UNCHANGED <<macVars, queueVars, directoryVars, seen, executorVars, saved, lastSession>>

\* The executor loses a session, as when it is restored from an older copy.
LoseSession ==
  /\ Fault
  /\ lastSession < MaxSessions
  /\ present' = present \ {session}
  /\ writable' = writable \ {session}
  /\ UNCHANGED <<macVars, queueVars, directoryVars, seen, transcript, reader, rebuildVars>>

Block ==
  /\ standing = "open"
  /\ standing' = "blocked"
  /\ UNCHANGED <<macVars, queueVars, session, rebuilding, source, seen, executorVars, reader,
                 rebuildVars, faults>>

\* The conversation ends, by the persona, the operator or a reset of the user.
End ==
  /\ LifecycleFree
  /\ standing # "ended"
  /\ standing' = "ended"
  /\ rebuilding' = FALSE
  /\ saved' = [saved EXCEPT ![session] = 0]
  /\ UNCHANGED <<macVars, queueVars, session, source, seen, executorVars, reader,
                 run, lastSession, faults>>

\* The session of an ended conversation may no longer write.
Stop ==
  /\ standing = "ended"
  /\ writable' = writable \ {session}
  /\ UNCHANGED <<macVars, queueVars, directoryVars, seen, present, transcript, reader,
                 rebuildVars, faults>>

\* A replay reads its cursor of the history it began with: a replacement of the
\* Mac's database in the middle of one is left out.
ReplaceIdle ==
  /\ Replacing
  /\ \A x \in Runners : run[x].stage \notin Replaying
  /\ \A s \in Sessions : saved[s] = 0
  /\ Replace

\* The reader takes the handle's lock to look up and to admit.
ReaderStep ==
  \/ HandleFree /\ (Look \/ Admit)
  \/ LivePrompt \/ PromptNotFound \/ Record \/ Dequeue

RebuildNext ==
  \/ (Arrive \/ ReplaceIdle \/ Poll \/ ReaderStep) /\ UNCHANGED <<rebuildVars, faults>>
  \/ ReaderFails /\ Fault /\ UNCHANGED rebuildVars
  \/ \E x \in Runners : Begin(x) \/ RunnerStep(x) \/ RunnerFails(x)
  \/ Restart \/ LoseSession \/ Block \/ End \/ Stop

RebuildSpec == RebuildInit /\ [][RebuildNext]_vars

\* Polls, drains and the recovery tick are driven by alarms and run for ever, and
\* failures are finitely many; nothing is assumed of the user or the operators.
RebuildFairness ==
  /\ WF_vars(Poll /\ UNCHANGED <<rebuildVars, faults>>)
  /\ WF_vars(ReaderStep /\ UNCHANGED <<rebuildVars, faults>>)
  /\ \A x \in Runners : WF_vars(RunnerStep(x))
  /\ \A x \in Runners \ Operators : SF_vars(Begin(x))

FairRebuildSpec == RebuildSpec /\ RebuildFairness

-----------------------------------------------------------------------------
(* Properties. *)

\* The rows the persona knows: those received for the live session, and during a
\* rebuild those received for the session that is rebuilt.
Known == seen[IF source = None THEN session ELSE source]

\* No message of his is lost between the Mac and the persona: it is still ahead
\* of the bookmark, in the queue, or received, through every failure of a poll, a
\* drain or a rebuild and through a replacement of the Mac's database.
NoRowLost ==
  standing = "open" =>
    \A i \in DOMAIN history : i \in Ahead \/ history[i] \in Range(pending) \cup Known

\* A receipt is the truth: a live session was prompted with every row that is
\* marked received for it, by intake or by the replay that made it.
ReceiptsTrue ==
  standing = "open" =>
    \A s \in {session} : seen[s] \subseteq Range(transcript[s])

\* The rows of a session stand in the order in which he sent them, whether they
\* were replayed, admitted or prompted again after a failure.
InOrder ==
  \A s \in Sessions : \A i, j \in DOMAIN transcript[s] :
    i < j => transcript[s][i] < transcript[s][j]

\* A session that was replaced or whose conversation ended does not regain the
\* permission to write, however late its replay completes.
NeverRegained ==
  [][\A s \in Sessions :
       s <= lastSession /\ s \notin writable /\ (s # session \/ standing = "ended")
         => s \notin writable']_vars

\* While the history is replayed into a session, no message makes it write.
ReplayReadOnly ==
  [][rebuilding /\ transcript' # transcript => session \notin writable]_vars

\* Neither a rebuild nor a failure makes the persona forget or reorder.
Persona == INSTANCE Memory WITH Messages <- Rows, known <- Known

ImplementsMemory == Persona!Spec

\* Every message that the Mac keeps reaches the persona while the conversation is
\* open.
EveryRowLearned ==
  \A row \in Rows :
    row <= sent ~> row \in Known \/ standing # "open" \/ row \notin Range(history)

\* New input waits for the writable session: what is admitted live may change
\* State and Memory.
InputWritable ==
  reader.stage = "prompting" /\ Current(reader.session) /\ session \in present
    => session \in writable

=============================================================================
