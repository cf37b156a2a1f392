------------------------------- MODULE Endings -------------------------------
(***************************************************************************)
(* How a relationship is ended (conversations/end.ts, notifications.ts,    *)
(* recover.ts): the persona's farewell and the service's notice are        *)
(* recorded with the ending and delivered by a tick, one ending at a time  *)
(* and three seconds each, while observers look at them, an operator asks  *)
(* for another attempt, and the user moves on to another persona.          *)
(*                                                                         *)
(* The farewell goes through an outbox and the gateway of its own kind:    *)
(* Gateway shows that the verdict on an attempt is true and final, and     *)
(* that a resolved attempt is fenced.  Here an attempt is the phase it is  *)
(* in on the way to the phone, and because verdicts are final, a question  *)
(* is answered in the step that uses the answer.  A notice has no attempt  *)
(* identity; it can be asked about only by the guid in the answer of its   *)
(* submit.                                                                 *)
(***************************************************************************)
EXTENDS Integers, Sequences, FiniteSets, SequencesExt

CONSTANTS
  Relations,    \* conversations that may end, as integers: their ids
  Departing,    \* those of them that the persona may end
  Attended,     \* those of them that the operator looks at
  MaxAttempts,  \* attempts of a part: recoveries of an operator add one
  None

ASSUME EndingsAssumption ==
  /\ Relations \subseteq Nat
  /\ Departing \subseteq Relations /\ Attended \subseteq Relations
  /\ MaxAttempts \in Nat \ {0}

Parts    == {"farewell", "notice"}
Numbers  == 1 .. MaxAttempts
Attempts == Relations \X Parts \X Numbers

ASSUME NoneAssumption == None \notin Attempts

VARIABLES
  relation,  \* what became of each conversation
  due,       \* parts whose pending column is 1
  number,    \* farewell_attempt and notice_attempt
  row,       \* the row of an attempt in send or ending_notification
  known,     \* notices whose guid is stored
  phase,     \* where an attempt is on its way to the phone
  checked,   \* endings in the order of last_checked, those never checked left out
  job        \* the delivery or recovery that holds the lock

ledgerVars == <<due, number, row, known>>
vars == <<relation, ledgerVars, phase, checked, job>>

RelationStates == {"live", "ended", "blocked", "moved"}
RowStates  == {"none", "recorded", "uncertain", "sent", "failed"}
Phases     == {"none", "onway", "queued", "landed", "dead"}
JobStages  == {"idle", "looking", "checking", "submitting", "polling", "recovering"}
Jobs       == [stage : JobStages, attempt : Attempts \cup {None}, rest : Seq(Parts),
               sent : BOOLEAN]

EndingsTypeOK ==
  /\ relation \in [Relations -> RelationStates]
  /\ due \in [Relations -> SUBSET Parts]
  /\ number \in [Relations -> [Parts -> Numbers]]
  /\ row \in [Attempts -> RowStates]
  /\ known \subseteq Attempts
  /\ phase \in [Attempts -> Phases]
  /\ checked \in Seq(Relations) /\ IsInjective(checked)
  /\ job \in Jobs
  /\ job.stage = "idle" <=> job.attempt = None

Idle == [stage |-> "idle", attempt |-> None, rest |-> <<>>, sent |-> FALSE]

EndingsInit ==
  /\ relation = [r \in Relations |-> "live"]
  /\ due = [r \in Relations |-> {}]
  /\ number = [r \in Relations |-> [p \in Parts |-> 1]]
  /\ row = [a \in Attempts |-> "none"]
  /\ known = {}
  /\ phase = [a \in Attempts |-> "none"]
  /\ checked = <<>>
  /\ job = Idle

Open(a)    == row[a] \in {"recorded", "uncertain"}
Decided(a) == row[a] \in {"sent", "failed"}

\* The attempt of a part that counts.
Current(r, p) == <<r, p, number[r][p]>>
IsCurrent(a)  == number[a[1]][a[2]] = a[3]

-----------------------------------------------------------------------------
(* The conversation ends, and the user goes on. *)

\* recordEnding: parts are due together with the end, in one transaction.
End(r, parts) ==
  /\ relation[r] = "live"
  /\ relation' = [relation EXCEPT ![r] = "ended"]
  /\ due' = [due EXCEPT ![r] = parts]
  /\ UNCHANGED <<number, row, known, phase, checked, job>>

PersonaEnd(r) == r \in Departing /\ End(r, {"farewell", "notice"})

\* An operator ends it, or the user asks for a reset: there is no farewell.
OtherEnd(r) == End(r, {"notice"})

\* reselect: the link in the notice is used, for the next relationship.
Move(r) ==
  /\ relation[r] = "ended"
  /\ \E n \in Numbers : phase[<<r, "notice", n>>] \in {"queued", "landed"}
  /\ relation' = [relation EXCEPT ![r] = "moved"]
  /\ due' = [due EXCEPT ![r] = {}]
  /\ UNCHANGED <<number, row, known, phase, checked, job>>

Block(r) ==
  /\ r \in Attended
  /\ relation[r] = "ended"
  /\ relation' = [relation EXCEPT ![r] = "blocked"]
  /\ UNCHANGED <<ledgerVars, phase, checked, job>>

-----------------------------------------------------------------------------
(* The way to the phone. *)

To(a, next) == phase' = [phase EXCEPT ![a] = next]

\* What the gateway says of an attempt.
Verdict(a) ==
  CASE phase[a] = "landed" -> "sent" [] phase[a] = "dead" -> "failed" [] OTHER -> "unknown"

\* A submit arrives, however late; Apple accepts or refuses, and a receipt tells.
Travel(a) ==
  /\ \/ phase[a] = "onway" /\ To(a, "queued")
     \/ phase[a] = "queued" /\ (To(a, "landed") \/ To(a, "dead"))
  /\ UNCHANGED <<relation, ledgerVars, checked, job>>

\* resolve, asked about a farewell: a submit that has not arrived never will.
PhaseAsked(a) ==
  IF a[2] = "farewell" /\ phase[a] = "onway" THEN [phase EXCEPT ![a] = "dead"] ELSE phase

VerdictAsked(a) == IF phase[a] = "onway" /\ a[2] = "farewell" THEN "failed" ELSE Verdict(a)

\* The farewell whose own submit or poll is under way is not resolved.
InFlight(a) == job.stage \in {"submitting", "polling"} /\ job.attempt = a

\* An abandoned resolve is executed all the same.
LateResolve(a) ==
  /\ a[2] = "farewell" /\ Open(a) /\ ~InFlight(a)
  /\ phase' = PhaseAsked(a)
  /\ UNCHANGED <<relation, ledgerVars, checked, job>>

-----------------------------------------------------------------------------
(* tick: one ending, its parts one after the other. *)

Due(r) == relation[r] = "ended" /\ due[r] # {}

\* The ending that was checked longest ago, one never checked before all others.
First(r) ==
  /\ Due(r)
  /\ \A s \in Relations : Due(s) /\ s # r =>
       \/ ~Contains(checked, r) /\ (Contains(checked, s) \/ r < s)
       \/ \E i, j \in DOMAIN checked : i < j /\ checked[i] = r /\ checked[j] = s

\* Mutant: the farewell is always tried first.
OrderFixed(r) ==
  IF due[r] = Parts THEN <<"farewell", "notice">> ELSE <<CHOOSE p \in Parts : p \in due[r]>>

\* A farewell in doubt lets the notice go first.
Order(r) ==
  IF due[r] # Parts THEN <<CHOOSE p \in Parts : p \in due[r]>>
  ELSE IF Open(Current(r, "farewell")) THEN <<"notice", "farewell">>
  ELSE <<"farewell", "notice">>

\* The next part of the job, or the end of it.
Proceed(r, parts) ==
  job' = IF parts = <<>> THEN Idle
         ELSE [Idle EXCEPT !.stage = "looking", !.attempt = Current(r, Head(parts)),
                           !.rest = Tail(parts)]

NextPart == Proceed(job.attempt[1], job.rest)

Tick(r) ==
  /\ job.stage = "idle"
  /\ First(r)
  /\ checked' = Append(RemoveFirst(checked, r), r)
  /\ Proceed(r, Order(r))
  /\ UNCHANGED <<relation, ledgerVars, phase>>

\* Mutant: the ending is not looked at again before a part is submitted.
AuthorisedOnce(a) == relation[a[1]] # "live"

\* The statement that records an attempt looks at everything again.
Authorised(a) == relation[a[1]] = "ended" /\ a[2] \in due[a[1]] /\ IsCurrent(a)

\* Mutant: a notice is recorded when its submit was answered.
RecordedBefore(a) == IF a[2] = "farewell" THEN "recorded" ELSE "none"

\* A notice is in doubt from the start: without an answer it is never repeated.
RecordedAs(a) == IF a[2] = "farewell" THEN "recorded" ELSE "uncertain"

\* An attempt nobody made is recorded and submitted.
Submit ==
  LET a == job.attempt
  IN /\ job.stage = "looking" /\ ~job.sent
     /\ row[a] = "none"
     /\ Authorised(a)
     /\ row' = [row EXCEPT ![a] = RecordedAs(a)]
     /\ phase' = IF phase[a] = "none" THEN [phase EXCEPT ![a] = "onway"] ELSE phase
     /\ job' = [job EXCEPT !.stage = "submitting"]
     /\ UNCHANGED <<relation, due, number, known, checked>>

\* The gateway's answer to a notice carries the guid to ask about it.
SubmitAnswered ==
  LET a == job.attempt
  IN /\ job.stage = "submitting"
     /\ phase[a] \notin {"none", "onway"}
     /\ IF a[2] = "farewell"
        THEN /\ row' = [row EXCEPT ![a] = IF @ = "recorded" THEN "uncertain" ELSE @]
             /\ job' = [job EXCEPT !.stage = "polling"]
             /\ UNCHANGED known
        ELSE /\ known' = known \cup {a}
             /\ job' = [job EXCEPT !.stage = "looking", !.sent = TRUE]
             /\ UNCHANGED row
     /\ UNCHANGED <<relation, due, number, phase, checked>>

\* Mutant: a submit without an answer counts as failed.
SubmitFailsFailed ==
  LET a == job.attempt
  IN /\ job.stage = "submitting"
     /\ row' = [row EXCEPT ![a] = IF @ = "recorded" THEN "failed" ELSE @]
     /\ job' = [job EXCEPT !.stage = "looking", !.sent = TRUE]
     /\ UNCHANGED <<relation, due, number, known, phase, checked>>

\* Whatever became of the submit.
SubmitFails ==
  LET a == job.attempt
  IN /\ job.stage = "submitting"
     /\ row' = [row EXCEPT ![a] = IF @ = "recorded" THEN "uncertain" ELSE @]
     /\ job' = [job EXCEPT !.stage = "looking", !.sent = TRUE]
     /\ UNCHANGED <<relation, due, number, known, phase, checked>>

\* Mutant: an unknown outcome settles the row.
SettledUnknown(a, verdict) == IF Open(a) THEN [row EXCEPT ![a] = verdict] ELSE row

\* settle: an outcome changes a row only while it is open.
Settled(a, verdict) ==
  IF Open(a) /\ verdict # "unknown" THEN [row EXCEPT ![a] = verdict] ELSE row

\* The status checks of a farewell that was just submitted; their failure says
\* nothing.
Poll ==
  LET a == job.attempt
  IN /\ job.stage = "polling"
     /\ row' \in {row, Settled(a, Verdict(a))}
     /\ job' = [job EXCEPT !.stage = "looking", !.sent = TRUE]
     /\ UNCHANGED <<relation, due, number, known, phase, checked>>

\* Whether delivery asks the gateway: about a notice only when its guid is known.
Asks(a) == Open(a) /\ (a[2] = "farewell" \/ a \in known)

\* A notice that was sent is asked about until it is known to be delivered.
MayAsk(a) == Asks(a) \/ (a[2] = "notice" /\ a \in known /\ row[a] = "sent")

Inquire ==
  /\ job.stage = "looking"
  /\ MayAsk(job.attempt)
  /\ job' = [job EXCEPT !.stage = "checking"]
  /\ UNCHANGED <<relation, ledgerVars, phase, checked>>

\* Mutant: a part that was tried is not looked at again.
DueAfterAll(a, state) == [due EXCEPT ![a[1]] = @ \ {a[2]}]

\* finish: a decided part is no longer due, if this attempt still counts.
DueAfter(a, state) ==
  IF state \in {"sent", "failed"} /\ IsCurrent(a) THEN [due EXCEPT ![a[1]] = @ \ {a[2]}]
  ELSE due

\* The state of the part is as far as it can be told; a failed check says nothing.
Conclude ==
  LET a == job.attempt
  IN /\ \/ /\ job.stage = "looking"
           /\ row[a] = "none" => job.sent \/ ~Authorised(a)
           /\ ~Asks(a)
           /\ UNCHANGED row
           /\ UNCHANGED phase
        \/ /\ job.stage = "checking"
           /\ phase' = PhaseAsked(a)
           /\ row' = Settled(a, VerdictAsked(a))
     /\ due' = DueAfter(a, row'[a])
     /\ NextPart
     /\ UNCHANGED <<relation, number, known, checked>>

CheckFails ==
  /\ job.stage = "checking"
  /\ NextPart
  /\ UNCHANGED <<relation, ledgerVars, phase, checked>>

\* Three seconds are over, or the application is evicted: the job is interrupted
\* where it waits.
Interrupt ==
  /\ job.stage \in {"checking", "submitting", "polling", "recovering"}
  /\ job' = Idle
  /\ UNCHANGED <<relation, ledgerVars, phase, checked>>

JobStep == Submit \/ SubmitAnswered \/ SubmitFails \/ Poll \/ Inquire \/ Conclude \/ CheckFails

\* observe: the operator's status page settles what it can, without the lock.
Observe(a) ==
  /\ a[1] \in Attended
  /\ IsCurrent(a) /\ Asks(a)
  /\ phase' = IF InFlight(a) THEN phase ELSE PhaseAsked(a)
  /\ row' = Settled(a, IF InFlight(a) THEN Verdict(a) ELSE VerdictAsked(a))
  /\ UNCHANGED <<relation, due, number, known, checked, job>>

-----------------------------------------------------------------------------
(* recover: the operator asks for another attempt, under the same lock. *)

\* Mutant: a notice without an answer may be repeated.
RetryableNotice(a, state) == IF a[2] = "farewell" THEN state = "failed" ELSE TRUE

\* Mutant: a farewell that is in doubt may be repeated.
RetryableDoubt(a, state) ==
  IF a[2] = "farewell" THEN state # "sent" ELSE state \in {"none", "sent", "failed"}

\* A farewell only after a confirmed failure, a notice unless it is in doubt.
Retryable(a, state) ==
  IF a[2] = "farewell" THEN state = "failed" ELSE state \in {"none", "sent", "failed"}

\* The next attempt is due; the same one when nothing was tried.
Queue(a, state) ==
  /\ state = "none" \/ a[3] < MaxAttempts
  /\ number' = [number EXCEPT ![a[1]][a[2]] = IF state = "none" THEN @ ELSE @ + 1]
  /\ due' = [due EXCEPT ![a[1]] = @ \cup {a[2]}]

\* Nothing has to be asked.
Recover(r, p) ==
  LET a == Current(r, p)
  IN /\ job.stage = "idle"
     /\ relation[r] \in {"ended", "blocked"}
     /\ ~Asks(a)
     /\ Retryable(a, row[a])
     /\ Queue(a, row[a])
     /\ UNCHANGED <<relation, row, known, phase, checked, job>>

RecoverAsks(r, p) ==
  LET a == Current(r, p)
  IN /\ job.stage = "idle"
     /\ relation[r] \in {"ended", "blocked"}
     /\ MayAsk(a)
     /\ job' = [Idle EXCEPT !.stage = "recovering", !.attempt = a]
     /\ UNCHANGED <<relation, ledgerVars, phase, checked>>

\* The answer is written and acted on in one transaction; a refusal undoes both.
Recovered ==
  LET a       == job.attempt
      verdict == VerdictAsked(a)
      state   == Settled(a, verdict)[a]
  IN /\ job.stage = "recovering"
     /\ phase' = PhaseAsked(a)
     /\ \/ /\ Retryable(a, state)
           /\ row' = Settled(a, verdict)
           /\ Queue(a, state)
        \/ /\ ~Retryable(a, state) \/ a[3] = MaxAttempts
           /\ UNCHANGED <<row, number, due>>
     /\ job' = Idle
     /\ UNCHANGED <<relation, known, checked>>

EndingsNext ==
  \/ \E r \in Relations : PersonaEnd(r) \/ OtherEnd(r) \/ Move(r) \/ Block(r) \/ Tick(r)
  \/ \E r \in Attended, p \in Parts : Recover(r, p) \/ RecoverAsks(r, p)
  \/ \E a \in Attempts : Travel(a) \/ LateResolve(a) \/ Observe(a)
  \/ JobStep \/ Interrupt \/ Recovered

EndingsSpec == EndingsInit /\ [][EndingsNext]_vars

\* Alarms drive the tick as long as an ending is due, and a call that is not
\* answered is given up after three seconds.  Nothing is assumed of the network.
EndingsFairness ==
  /\ SF_vars(\E r \in Relations : Tick(r))
  /\ WF_vars(JobStep \/ Interrupt \/ Recovered)

FairEndingsSpec == EndingsSpec /\ EndingsFairness

-----------------------------------------------------------------------------
(* Properties. *)

\* Nobody reads two farewells of one relationship: however many attempts an operator
\* asks for, at most one of them has reached the phone or still can.
OneFarewell ==
  \A r \in Relations :
    Cardinality({n \in Numbers : phase[<<r, "farewell", n>>] \notin {"none", "dead"}}) <= 1

\* A missing acknowledgement never authorises another notice: while the fate of
\* one that was submitted is not known here, no other one is submitted.
NoticeKnown ==
  \A r \in Relations : \A m, n \in Numbers :
    m < n /\ phase[<<r, "notice", n>>] # "none" => Decided(<<r, "notice", m>>)

\* An attempt is submitted once: a crash between its submit and the answer, or the
\* answer and its record, never submits it again.
SubmittedOnce ==
  [][job.stage = "looking" /\ job'.stage = "submitting" => phase[job.attempt] = "none"]_vars

\* A decided row is true: its bubble landed, or never will.
DecidedTrue ==
  \A a \in Attempts : Decided(a) => Verdict(a) = row[a]

\* A part is only taken off the list when the attempt that counts is decided, or
\* the user has moved on.
NothingForgotten ==
  \A r \in Relations : \A p \in Parts :
    relation[r] = "ended" /\ phase[Current(r, p)] # "none" /\ p \notin due[r]
      => Decided(Current(r, p))

\* Once the user has chosen another persona or was blocked, nothing of the old
\* relationship is submitted any more, also by a tick that is under way.
SilentAfter ==
  [][\A a \in Attempts :
       relation[a[1]] \in {"blocked", "moved"} /\ phase[a] = "none" => phase'[a] = "none"]_vars

\* The notice of every ending is submitted, also when the farewell hangs for ever,
\* and when another ending does.
NoticeSubmitted ==
  \A r \in Relations :
    relation[r] = "ended" ~> phase[<<r, "notice", 1>>] # "none" \/ relation[r] = "blocked"

=============================================================================
