---------------------------- MODULE EndingsProofs ---------------------------
(***************************************************************************)
(* Proofs about Endings, for any relationships and numbers of attempts.    *)
(***************************************************************************)
EXTENDS Endings, DataLemmas, FiniteSetTheorems

\* An attempt is on its way exactly when there is a row for it.
RowInv == \A a \in Attempts : row[a] = "none" <=> phase[a] = "none"

\* Later attempts than the one that counts were not made.  Earlier ones are decided,
\* a farewell against its bubble.
NumberInv ==
  \A a \in Attempts :
    /\ a[3] > number[a[1]][a[2]] => row[a] = "none"
    /\ a[3] < number[a[1]][a[2]] => row[a] = "failed" \/ (a[2] = "notice" /\ row[a] = "sent")

\* Nothing is delivered before the end.
LiveInv == \A a \in Attempts : relation[a[1]] = "live" => row[a] = "none"

\* The lock keeps the attempt of a job the one that counts.
JobInv == job.attempt # None => IsCurrent(job.attempt)

EndingsInv ==
  /\ EndingsTypeOK
  /\ RowInv
  /\ NumberInv
  /\ LiveInv
  /\ JobInv
  /\ DecidedTrue
  /\ NothingForgotten

-----------------------------------------------------------------------------
(* What the operators give. *)

LEMMA AttemptParts ==
  ASSUME NEW a \in Attempts
  PROVE  /\ a[1] \in Relations /\ a[2] \in Parts /\ a[3] \in Numbers
         /\ a = <<a[1], a[2], a[3]>> /\ a # None
  BY NoneAssumption DEF Attempts

\* The attempt that counts is one, and no other one of its part counts.
LEMMA CurrentAttempt ==
  ASSUME EndingsTypeOK, NEW r \in Relations, NEW p \in Parts
  PROVE  /\ Current(r, p) \in Attempts /\ IsCurrent(Current(r, p))
         /\ Current(r, p)[1] = r /\ Current(r, p)[2] = p /\ Current(r, p)[3] = number[r][p]
         /\ \A a \in Attempts : IsCurrent(a) /\ a[1] = r /\ a[2] = p => a = Current(r, p)
<1>1. number[r][p] \in Numbers
  BY DEF EndingsTypeOK
<1>2. Current(r, p) \in Attempts
  BY <1>1 DEF Current, Attempts
<1> QED BY <1>2, AttemptParts DEF Current, IsCurrent

\* The attempt of a job that runs.
LEMMA JobAttempt ==
  ASSUME EndingsTypeOK, job.stage # "idle"
  PROVE  job.attempt \in Attempts /\ job.attempt # None
  BY DEF EndingsTypeOK, Jobs

LEMMA IdleJob == Idle \in Jobs /\ Idle.stage = "idle" /\ Idle.attempt = None
<1>1. <<>> \in Seq(Parts)
  OBVIOUS
<1> QED BY <1>1 DEF Idle, Jobs, JobStages

\* A job goes on with a part whose attempt counts, or is over.
LEMMA ProceedJob ==
  ASSUME EndingsTypeOK, NEW r \in Relations, NEW parts \in Seq(Parts), Proceed(r, parts)
  PROVE  /\ job' \in Jobs /\ (job'.stage = "idle" <=> job'.attempt = None)
         /\ job'.stage \in {"idle", "looking"}
         /\ job'.attempt # None => job'.attempt \in Attempts /\ IsCurrent(job'.attempt)
<1>1. CASE parts = <<>>
  BY <1>1, IdleJob DEF Proceed
<1>2. CASE parts # <<>>
  <2>1. Head(parts) \in Parts /\ Tail(parts) \in Seq(Parts)
    BY <1>2, TailFacts
  <2> DEFINE a == Current(r, Head(parts))
  <2>2. a \in Attempts /\ IsCurrent(a) /\ a # None
    BY <2>1, CurrentAttempt, AttemptParts
  <2>3. job' = [Idle EXCEPT !.stage = "looking", !.attempt = a, !.rest = Tail(parts)]
    BY <1>2 DEF Proceed
  <2> HIDE DEF a
  <2>4. job' = [stage |-> "looking", attempt |-> a, rest |-> Tail(parts), sent |-> FALSE]
    BY <2>3 DEF Idle
  <2> QED BY <2>1, <2>2, <2>4 DEF Jobs, JobStages
<1> QED BY <1>1, <1>2

\* What the gateway says is final, and is what its bubble came to.
LEMMA AskedFacts ==
  ASSUME EndingsTypeOK, RowInv, DecidedTrue, NEW a \in Attempts
  PROVE  /\ PhaseAsked(a) \in [Attempts -> Phases]
         /\ \A b \in Attempts : phase[b] = "none" <=> PhaseAsked(a)[b] = "none"
         /\ \A b \in Attempts : phase[b] # "onway" => PhaseAsked(a)[b] = phase[b]
         /\ VerdictAsked(a) \in {"sent", "failed", "unknown"}
         /\ VerdictAsked(a) = "sent" <=> PhaseAsked(a)[a] = "landed"
         /\ VerdictAsked(a) = "failed" <=> PhaseAsked(a)[a] = "dead"
  BY DEF EndingsTypeOK, PhaseAsked, VerdictAsked, Verdict, Phases

LEMMA VerdictFacts ==
  ASSUME NEW a
  PROVE  /\ Verdict(a) \in {"sent", "failed", "unknown"}
         /\ Verdict(a) = "sent" <=> phase[a] = "landed"
         /\ Verdict(a) = "failed" <=> phase[a] = "dead"
  BY DEF Verdict

LEMMA InitInv == EndingsInit => EndingsInv
<1> SUFFICES ASSUME EndingsInit PROVE EndingsInv
  OBVIOUS
<1> USE DEF EndingsInit
<1>1. EndingsTypeOK
  <2>1. checked \in Seq(Relations) /\ IsInjective(checked)
    BY DEF IsInjective
  <2>2. 1 \in Numbers
    BY EndingsAssumption DEF Numbers
  <2> QED BY <2>1, <2>2, IdleJob DEF EndingsTypeOK, RelationStates, RowStates, Phases
<1>2. NumberInv
  BY EndingsAssumption, AttemptParts DEF NumberInv, Numbers
<1>3. RowInv /\ LiveInv /\ JobInv /\ DecidedTrue
  BY IdleJob DEF RowInv, LiveInv, JobInv, DecidedTrue, Decided
<1>4. NothingForgotten
  BY DEF NothingForgotten
<1> QED BY <1>1, <1>2, <1>3, <1>4 DEF EndingsInv

\* An outcome changes the row of one attempt, and only while that is open.
LEMMA SettledRows ==
  ASSUME EndingsTypeOK, NEW a \in Attempts, NEW verdict \in {"sent", "failed", "unknown"}
  PROVE  /\ Settled(a, verdict) \in [Attempts -> RowStates]
         /\ \A b \in Attempts : row[b] = "none" <=> Settled(a, verdict)[b] = "none"
         /\ \A b \in Attempts : b # a \/ ~Open(a) => Settled(a, verdict)[b] = row[b]
         /\ Settled(a, verdict)[a] \in {"sent", "failed"} =>
              ~Open(a) \/ Settled(a, verdict)[a] = verdict
  BY DEF EndingsTypeOK, RowStates, Settled, Open

\* A step that makes no attempt, leaves decided rows alone and decides others by
\* what became of their bubbles keeps what is known of the attempts.
LEMMA LedgerKept ==
  ASSUME EndingsInv, UNCHANGED <<relation, number>>, phase' \in [Attempts -> Phases],
         row' \in [Attempts -> RowStates], due' \in [Relations -> SUBSET Parts],
         \A b \in Attempts : phase[b] = "none" <=> phase'[b] = "none",
         \A b \in Attempts : row[b] = "none" <=> row'[b] = "none",
         \A b \in Attempts : Decided(b) => row'[b] = row[b],
         \A b \in Attempts : Decided(b)' => Verdict(b)' = row'[b],
         \A r \in Relations, p \in Parts : p \in due[r] \ due'[r] => Decided(Current(r, p))'
  PROVE  RowInv' /\ NumberInv' /\ LiveInv' /\ DecidedTrue' /\ NothingForgotten'
<1>1. RowInv' /\ LiveInv' /\ DecidedTrue'
  BY DEF EndingsInv, RowInv, LiveInv, DecidedTrue
<1>2. NumberInv'
  BY DEF EndingsInv, NumberInv, Decided
<1>3. NothingForgotten'
  <2> SUFFICES ASSUME NEW r \in Relations, NEW p \in Parts, relation'[r] = "ended",
                      phase[Current(r, p)]' # "none", p \notin due'[r]
               PROVE  Decided(Current(r, p))'
    BY DEF NothingForgotten
  <2>1. Current(r, p)' = Current(r, p) /\ Current(r, p) \in Attempts
    BY CurrentAttempt DEF Current, EndingsInv
  <2>2. CASE p \in due[r]
    BY <2>1, <2>2
  <2>3. CASE p \notin due[r]
    BY <2>1, <2>3 DEF EndingsInv, NothingForgotten, Decided
  <2> QED BY <2>2, <2>3
<1> QED BY <1>1, <1>2, <1>3

\* The same attempts count as before.
LEMMA JobKept ==
  ASSUME EndingsInv, UNCHANGED number, job' \in Jobs,
         job'.attempt \in {None, job.attempt}
  PROVE  JobInv'
  BY DEF EndingsInv, JobInv, IsCurrent

-----------------------------------------------------------------------------
(* The conversation, the way to the phone, and the observers. *)

LEMMA EndKeeps ==
  ASSUME EndingsInv, NEW r \in Relations, NEW parts \in SUBSET Parts, End(r, parts)
  PROVE  EndingsInv'
<1> USE DEF EndingsInv, End
<1>1. EndingsTypeOK'
  BY DEF EndingsTypeOK, RelationStates
<1>2. RowInv' /\ NumberInv' /\ LiveInv' /\ JobInv' /\ DecidedTrue'
  BY AttemptParts DEF EndingsTypeOK, RowInv, NumberInv, LiveInv, JobInv, IsCurrent, DecidedTrue, Decided, Verdict
<1>3. NothingForgotten'
  <2> SUFFICES ASSUME NEW s \in Relations, NEW p \in Parts, relation'[s] = "ended",
                      phase[Current(s, p)] # "none", p \notin due'[s]
               PROVE  Decided(Current(s, p))
    BY DEF NothingForgotten, Current, Decided
  <2>1. s # r
    BY CurrentAttempt DEF LiveInv, RowInv
  <2> QED BY <2>1 DEF NothingForgotten, EndingsTypeOK
<1> QED BY <1>1, <1>2, <1>3

LEMMA AfterEndKeeps ==
  ASSUME EndingsInv, NEW r \in Relations, Move(r) \/ Block(r)
  PROVE  EndingsInv'
<1> USE DEF EndingsInv, Move, Block, ledgerVars
<1>1. EndingsTypeOK'
  BY DEF EndingsTypeOK, RelationStates
<1>2. RowInv' /\ NumberInv' /\ LiveInv' /\ JobInv' /\ DecidedTrue'
  BY AttemptParts DEF EndingsTypeOK, RowInv, NumberInv, LiveInv, JobInv, IsCurrent, DecidedTrue, Decided, Verdict
<1>3. NothingForgotten'
  <2> SUFFICES ASSUME NEW s \in Relations, NEW p \in Parts, relation'[s] = "ended",
                      phase[Current(s, p)] # "none", p \notin due'[s]
               PROVE  Decided(Current(s, p))
    BY DEF NothingForgotten, Current, Decided
  <2>1. s # r
    BY DEF EndingsTypeOK
  <2> QED BY <2>1 DEF NothingForgotten, EndingsTypeOK
<1> QED BY <1>1, <1>2, <1>3

LEMMA TravelKeeps ==
  ASSUME EndingsInv, NEW a \in Attempts, Travel(a)
  PROVE  EndingsInv'
<1> USE DEF Travel, ledgerVars
<1>1. /\ phase' \in [Attempts -> Phases]
      /\ \A b \in Attempts : phase[b] = "none" <=> phase'[b] = "none"
      /\ \A b \in Attempts : phase[b] \in {"landed", "dead"} => phase'[b] = phase[b]
  BY DEF EndingsInv, EndingsTypeOK, Phases, To
<1>2. \A b \in Attempts : Decided(b)' => Verdict(b)' = row'[b]
  BY <1>1 DEF EndingsInv, DecidedTrue, Decided, Verdict
<1>3. EndingsTypeOK' /\ JobInv'
  BY <1>1 DEF EndingsInv, EndingsTypeOK, JobInv, IsCurrent
<1>4. RowInv' /\ NumberInv' /\ LiveInv' /\ DecidedTrue' /\ NothingForgotten'
  BY <1>1, <1>2, LedgerKept DEF EndingsInv, EndingsTypeOK
<1> QED BY <1>3, <1>4 DEF EndingsInv

\* What is asked and settled is the truth.
LEMMA AskedTrue ==
  ASSUME EndingsInv, NEW a \in Attempts,
         \/ phase' = PhaseAsked(a) /\ row' = Settled(a, VerdictAsked(a))
         \/ phase' = PhaseAsked(a) /\ row' = row
         \/ phase' = phase /\ row' = Settled(a, Verdict(a))
  PROVE  /\ phase' \in [Attempts -> Phases] /\ row' \in [Attempts -> RowStates]
         /\ \A b \in Attempts : phase[b] = "none" <=> phase'[b] = "none"
         /\ \A b \in Attempts : row[b] = "none" <=> row'[b] = "none"
         /\ \A b \in Attempts : Decided(b) => row'[b] = row[b]
         /\ \A b \in Attempts : Decided(b)' => Verdict(b)' = row'[b]
<1>1. /\ phase' \in [Attempts -> Phases]
      /\ \A b \in Attempts : phase[b] = "none" <=> phase'[b] = "none"
      /\ \A b \in Attempts : phase[b] # "onway" => phase'[b] = phase[b]
  BY AskedFacts DEF EndingsInv, EndingsTypeOK
<1>2. PICK v \in {"sent", "failed", "unknown"} :
        /\ row' = Settled(a, v)
        /\ v = "sent" => phase'[a] = "landed"
        /\ v = "failed" => phase'[a] = "dead"
  <2>1. CASE phase' = PhaseAsked(a) /\ row' = Settled(a, VerdictAsked(a))
    BY <2>1, AskedFacts DEF EndingsInv
  <2>2. CASE phase' = PhaseAsked(a) /\ row' = row
    BY <2>2 DEF Settled
  <2>3. CASE phase' = phase /\ row' = Settled(a, Verdict(a))
    BY <2>3, VerdictFacts
  <2> QED BY <2>1, <2>2, <2>3
<1>3. /\ row' \in [Attempts -> RowStates]
      /\ \A b \in Attempts : row[b] = "none" <=> row'[b] = "none"
      /\ \A b \in Attempts : b # a \/ ~Open(a) => row'[b] = row[b]
      /\ row'[a] \in {"sent", "failed"} => ~Open(a) \/ row'[a] = v
  BY <1>2, SettledRows DEF EndingsInv
<1>4. \A b \in Attempts : Decided(b) => row'[b] = row[b]
  BY <1>3 DEF Decided, Open
<1>5. \A b \in Attempts : Decided(b)' => Verdict(b)' = row'[b]
  <2> SUFFICES ASSUME NEW b \in Attempts, row'[b] \in {"sent", "failed"}
               PROVE  Verdict(b)' = row'[b]
    BY DEF Decided
  <2>1. CASE b = a /\ Open(a)
    BY <1>2, <1>3, <2>1 DEF Verdict
  <2>2. CASE ~(b = a /\ Open(a))
    <3>1. Verdict(b) = row[b] /\ row'[b] = row[b]
      BY <1>3, <2>2 DEF EndingsInv, DecidedTrue, Decided
    <3> QED BY <1>1, <3>1 DEF Verdict
  <2> QED BY <2>1, <2>2
<1> QED BY <1>1, <1>3, <1>4, <1>5

LEMMA LateResolveKeeps ==
  ASSUME EndingsInv, NEW a \in Attempts, LateResolve(a)
  PROVE  EndingsInv'
<1> USE DEF LateResolve, ledgerVars
<1>1. RowInv' /\ NumberInv' /\ LiveInv' /\ DecidedTrue' /\ NothingForgotten'
  BY AskedTrue, LedgerKept DEF EndingsInv, EndingsTypeOK
<1>2. EndingsTypeOK' /\ JobInv'
  BY AskedTrue DEF EndingsInv, EndingsTypeOK, JobInv, IsCurrent
<1> QED BY <1>1, <1>2 DEF EndingsInv

LEMMA ObserveKeeps ==
  ASSUME EndingsInv, NEW a \in Attempts, Observe(a)
  PROVE  EndingsInv'
<1> USE DEF Observe
<1>0. \/ phase' = PhaseAsked(a) /\ row' = Settled(a, VerdictAsked(a))
      \/ phase' = phase /\ row' = Settled(a, Verdict(a))
  OBVIOUS
<1>1. RowInv' /\ NumberInv' /\ LiveInv' /\ DecidedTrue' /\ NothingForgotten'
  BY <1>0, AskedTrue, LedgerKept DEF EndingsInv, EndingsTypeOK
<1>2. EndingsTypeOK' /\ JobInv'
  BY <1>0, AskedTrue DEF EndingsInv, EndingsTypeOK, JobInv, IsCurrent
<1> QED BY <1>1, <1>2 DEF EndingsInv

-----------------------------------------------------------------------------
(* The tick and the recovery. *)

\* A step of the job that looks, waits or gives up.
LEMMA JobOnly ==
  ASSUME EndingsInv, UNCHANGED <<relation, ledgerVars, phase>>,
         checked' \in Seq(Relations), IsInjective(checked)',
         job' \in Jobs, job'.stage = "idle" <=> job'.attempt = None,
         job'.attempt # None => IsCurrent(job'.attempt)
  PROVE  EndingsInv'
<1> USE DEF EndingsInv, ledgerVars
<1>1. EndingsTypeOK'
  BY DEF EndingsTypeOK
<1>2. RowInv' /\ NumberInv' /\ LiveInv' /\ JobInv' /\ DecidedTrue'
  BY DEF RowInv, NumberInv, LiveInv, JobInv, IsCurrent, DecidedTrue, Decided, Verdict
<1>3. NothingForgotten'
  BY DEF NothingForgotten, Current, Decided
<1> QED BY <1>1, <1>2, <1>3

\* The parts that are due are tried, each once.
LEMMA OrderTyped ==
  ASSUME NEW r \in Relations, EndingsTypeOK, due[r] # {}
  PROVE  Order(r) \in Seq(Parts)
<1>1. CASE due[r] = Parts
  <2>1. <<"notice", "farewell">> \in Seq(Parts) /\ <<"farewell", "notice">> \in Seq(Parts)
    BY DEF Parts
  <2> QED BY <1>1, <2>1 DEF Order
<1>2. CASE due[r] # Parts
  <2>1. (CHOOSE p \in Parts : p \in due[r]) \in Parts
    BY DEF EndingsTypeOK
  <2> QED BY <1>2, <2>1 DEF Order
<1> QED BY <1>1, <1>2

LEMMA TickKeeps ==
  ASSUME EndingsInv, NEW r \in Relations, Tick(r)
  PROVE  EndingsInv'
<1>1. checked' \in Seq(Relations) /\ IsInjective(checked')
  BY MovedLast DEF Tick, EndingsInv, EndingsTypeOK
<1>2. Order(r) \in Seq(Parts) /\ Proceed(r, Order(r))
  BY OrderTyped DEF Tick, First, Due, EndingsInv
<1>3. /\ job' \in Jobs /\ (job'.stage = "idle" <=> job'.attempt = None)
      /\ job'.attempt # None => IsCurrent(job'.attempt)
  BY <1>2, ProceedJob DEF EndingsInv
<1> QED BY <1>1, <1>3, JobOnly DEF Tick

\* The job goes on with its next part.
LEMMA NextPartJob ==
  ASSUME EndingsInv, job.stage # "idle", NextPart
  PROVE  /\ job' \in Jobs /\ (job'.stage = "idle" <=> job'.attempt = None)
         /\ job'.stage \in {"idle", "looking"}
         /\ job'.attempt # None => job'.attempt \in Attempts /\ IsCurrent(job'.attempt)
<1>1. job.attempt[1] \in Relations /\ job.rest \in Seq(Parts)
  BY JobAttempt, AttemptParts DEF EndingsInv, EndingsTypeOK, Jobs
<1> QED BY <1>1, ProceedJob DEF NextPart, EndingsInv

\* A job that keeps its attempt.
LEMMA SameAttempt ==
  ASSUME EndingsInv, job.stage # "idle", NEW next \in JobStages \ {"idle"}, NEW sent \in BOOLEAN
  PROVE  /\ [job EXCEPT !.stage = next] \in Jobs
         /\ [job EXCEPT !.stage = next, !.sent = sent] \in Jobs
         /\ [job EXCEPT !.stage = next].stage = next
         /\ [job EXCEPT !.stage = next, !.sent = sent].stage = next
         /\ [job EXCEPT !.stage = next].attempt = job.attempt
         /\ [job EXCEPT !.stage = next, !.sent = sent].attempt = job.attempt
         /\ job.attempt # None /\ IsCurrent(job.attempt)
  BY JobAttempt DEF EndingsInv, EndingsTypeOK, JobInv, Jobs

LEMMA WaitsKeeps ==
  ASSUME EndingsInv, Inquire \/ CheckFails \/ Interrupt
  PROVE  EndingsInv'
<1>1. CASE Inquire
  BY <1>1, SameAttempt, JobOnly DEF Inquire, JobStages, EndingsInv, EndingsTypeOK
<1>2. CASE CheckFails
  BY <1>2, NextPartJob, JobOnly DEF CheckFails, EndingsInv, EndingsTypeOK
<1>3. CASE Interrupt
  BY <1>3, IdleJob, JobOnly DEF Interrupt, EndingsInv, EndingsTypeOK
<1> QED BY <1>1, <1>2, <1>3

LEMMA SubmitKeeps == ASSUME EndingsInv, Submit PROVE EndingsInv'
<1> DEFINE a == job.attempt
<1> USE DEF EndingsInv
<1>1. /\ a \in Attempts /\ a[1] \in Relations /\ a[2] \in Parts
      /\ row[a] = "none" /\ phase[a] = "none" /\ relation[a[1]] = "ended" /\ a[2] \in due[a[1]]
      /\ IsCurrent(a) /\ UNCHANGED <<relation, due, number, known, checked>>
  BY JobAttempt, AttemptParts DEF Submit, Authorised, RowInv
<1>2. row' = [row EXCEPT ![a] = RecordedAs(a)] /\ phase' = [phase EXCEPT ![a] = "onway"]
  BY <1>1 DEF Submit
<1>3. RecordedAs(a) \in {"recorded", "uncertain"}
  BY DEF RecordedAs
<1>4. job' \in Jobs /\ job'.stage = "submitting" /\ job'.attempt = a /\ a # None
  BY SameAttempt DEF Submit, JobStages
<1> HIDE DEF a
<1>5. EndingsTypeOK'
  BY <1>1, <1>2, <1>3, <1>4 DEF EndingsTypeOK, RowStates, Phases
<1>6. RowInv' /\ NumberInv' /\ LiveInv' /\ JobInv' /\ DecidedTrue'
  BY <1>1, <1>2, <1>3, <1>4
  DEF EndingsTypeOK, RowInv, NumberInv, LiveInv, JobInv, IsCurrent, DecidedTrue, Decided, Verdict
<1>7. NothingForgotten'
  <2> SUFFICES ASSUME NEW r \in Relations, NEW p \in Parts, relation[r] = "ended",
                      phase'[Current(r, p)] # "none", p \notin due[r]
               PROVE  Decided(Current(r, p))'
    BY <1>1 DEF NothingForgotten, Current
  <2>1. Current(r, p) \in Attempts /\ Current(r, p) # a
    BY <1>1, CurrentAttempt
  <2> QED BY <1>1, <1>2, <2>1 DEF NothingForgotten, Decided, Current, EndingsTypeOK
<1> QED BY <1>5, <1>6, <1>7

\* What a submit, or the polls after it, leave in the row.
LEMMA AnswerKeeps ==
  ASSUME EndingsInv, SubmitAnswered \/ SubmitFails \/ Poll
  PROVE  EndingsInv'
<1> DEFINE a == job.attempt
<1> USE DEF EndingsInv
<1>1. /\ a \in Attempts /\ a # None /\ IsCurrent(a)
      /\ UNCHANGED <<relation, due, number, phase, checked>>
  BY SameAttempt, JobAttempt DEF SubmitAnswered, SubmitFails, Poll, JobStages
<1>2. known' \subseteq Attempts
  BY <1>1 DEF SubmitAnswered, SubmitFails, Poll, EndingsTypeOK
<1>3. job' \in Jobs /\ job'.stage # "idle" /\ job'.attempt = a
  <2>1. \/ job' = [job EXCEPT !.stage = "polling"]
        \/ job' = [job EXCEPT !.stage = "looking", !.sent = TRUE]
    BY DEF SubmitAnswered, SubmitFails, Poll
  <2>2. job.stage # "idle"
    BY DEF SubmitAnswered, SubmitFails, Poll
  <2>3. CASE job' = [job EXCEPT !.stage = "polling"]
    BY <2>2, <2>3, SameAttempt DEF JobStages
  <2>4. CASE job' = [job EXCEPT !.stage = "looking", !.sent = TRUE]
    BY <2>2, <2>4, SameAttempt DEF JobStages
  <2> QED BY <2>1, <2>3, <2>4
<1>4. /\ row' \in [Attempts -> RowStates]
      /\ \A b \in Attempts : row[b] = "none" <=> row'[b] = "none"
      /\ \A b \in Attempts : Decided(b) => row'[b] = row[b]
      /\ \A b \in Attempts : Decided(b)' => Verdict(b)' = row'[b]
  <2>1. CASE \/ row' = row
             \/ row' = [row EXCEPT ![a] = IF row[a] = "recorded" THEN "uncertain" ELSE row[a]]
    BY <1>1, <2>1 DEF EndingsTypeOK, RowStates, Decided, DecidedTrue, Verdict
  <2>2. CASE row' = Settled(a, Verdict(a))
    BY <1>1, <2>2, AskedTrue
  <2> QED BY <2>1, <2>2 DEF SubmitAnswered, SubmitFails, Poll
<1> HIDE DEF a
<1>5. EndingsTypeOK' /\ JobInv'
  BY <1>1, <1>2, <1>3, <1>4 DEF EndingsTypeOK, JobInv, IsCurrent
<1>6. RowInv' /\ NumberInv' /\ LiveInv' /\ DecidedTrue' /\ NothingForgotten'
  BY <1>1, <1>4, LedgerKept DEF EndingsTypeOK
<1> QED BY <1>5, <1>6

\* A part is finished when the attempt that counts is decided.
LEMMA FinishedDue ==
  ASSUME EndingsTypeOK, NEW a \in Attempts, NEW state,
         UNCHANGED number, row'[a] = state, due' = DueAfter(a, state)
  PROVE  /\ due' \in [Relations -> SUBSET Parts]
         /\ \A r \in Relations, p \in Parts : p \in due[r] \ due'[r] => Decided(Current(r, p))'
<1>1. due' \in [Relations -> SUBSET Parts]
  BY AttemptParts DEF EndingsTypeOK, DueAfter
<1>2. ASSUME NEW r \in Relations, NEW p \in Parts, p \in due[r] \ due'[r]
      PROVE  Decided(Current(r, p))'
  <2>1. r = a[1] /\ p = a[2] /\ IsCurrent(a) /\ state \in {"sent", "failed"}
    BY <1>2, AttemptParts DEF DueAfter, EndingsTypeOK
  <2>2. Current(r, p) = a
    BY <2>1, CurrentAttempt
  <2>3. Current(r, p)' = a
    BY <2>2 DEF Current
  <2> QED BY <2>1, <2>3 DEF Decided
<1> QED BY <1>1, <1>2

LEMMA ConcludeKeeps == ASSUME EndingsInv, Conclude PROVE EndingsInv'
<1> DEFINE a == job.attempt
<1> USE DEF EndingsInv
<1>1. /\ a \in Attempts /\ UNCHANGED <<relation, number, known, checked>>
      /\ due' = DueAfter(a, row'[a]) /\ job.stage # "idle" /\ NextPart
  BY JobAttempt DEF Conclude
<1>2. /\ job' \in Jobs /\ (job'.stage = "idle" <=> job'.attempt = None)
      /\ job'.attempt # None => job'.attempt \in Attempts /\ IsCurrent(job'.attempt)
  BY <1>1, NextPartJob
<1>3. /\ due' \in [Relations -> SUBSET Parts]
      /\ \A r \in Relations, p \in Parts : p \in due[r] \ due'[r] => Decided(Current(r, p))'
  BY <1>1, FinishedDue
<1>4. /\ phase' \in [Attempts -> Phases] /\ row' \in [Attempts -> RowStates]
      /\ \A b \in Attempts : phase[b] = "none" <=> phase'[b] = "none"
      /\ \A b \in Attempts : row[b] = "none" <=> row'[b] = "none"
      /\ \A b \in Attempts : Decided(b) => row'[b] = row[b]
      /\ \A b \in Attempts : Decided(b)' => Verdict(b)' = row'[b]
  <2>1. CASE UNCHANGED <<row, phase>>
    BY <2>1 DEF EndingsTypeOK, Decided, DecidedTrue, Verdict
  <2>2. CASE phase' = PhaseAsked(a) /\ row' = Settled(a, VerdictAsked(a))
    BY <1>1, <2>2, AskedTrue
  <2> QED BY <2>1, <2>2 DEF Conclude
<1> HIDE DEF a
<1>5. EndingsTypeOK' /\ JobInv'
  BY <1>1, <1>2, <1>3, <1>4 DEF EndingsTypeOK, JobInv, IsCurrent
<1>6. RowInv' /\ NumberInv' /\ LiveInv' /\ DecidedTrue' /\ NothingForgotten'
  BY <1>1, <1>3, <1>4, LedgerKept
<1> QED BY <1>5, <1>6

\* Another attempt is queued only after the one that counted was decided against, or
\* in the case of a notice was decided.
LEMMA QueueKeeps ==
  ASSUME EndingsInv, NEW a \in Attempts, IsCurrent(a), UNCHANGED relation,
         phase' \in [Attempts -> Phases], row' \in [Attempts -> RowStates],
         \A b \in Attempts : phase[b] = "none" <=> phase'[b] = "none",
         \A b \in Attempts : row[b] = "none" <=> row'[b] = "none",
         \A b \in Attempts : Decided(b) => row'[b] = row[b],
         \A b \in Attempts : Decided(b)' => Verdict(b)' = row'[b],
         Retryable(a, row'[a]), Queue(a, row'[a])
  PROVE  /\ number' \in [Relations -> [Parts -> Numbers]] /\ due' \in [Relations -> SUBSET Parts]
         /\ RowInv' /\ NumberInv' /\ LiveInv' /\ DecidedTrue' /\ NothingForgotten'
<1> DEFINE k == IF row'[a] = "none" THEN number[a[1]][a[2]] ELSE number[a[1]][a[2]] + 1
<1> USE DEF EndingsInv
<1>1. a[1] \in Relations /\ a[2] \in Parts /\ a[3] \in Numbers /\ a[3] = number[a[1]][a[2]]
  BY AttemptParts DEF IsCurrent
<1>2. k \in Numbers /\ (k = a[3] \/ (k = a[3] + 1 /\ row'[a] # "none"))
  BY <1>1, EndingsAssumption DEF Queue, Numbers
<1>3. number' = [number EXCEPT ![a[1]][a[2]] = k] /\ due' = [due EXCEPT ![a[1]] = due[a[1]] \cup {a[2]}]
  BY DEF Queue
<1> HIDE DEF k
<1>4. /\ number' \in [Relations -> [Parts -> Numbers]] /\ due' \in [Relations -> SUBSET Parts]
      /\ \A r \in Relations, p \in Parts :
           number'[r][p] = IF r = a[1] /\ p = a[2] THEN k ELSE number[r][p]
  BY <1>1, <1>2, <1>3 DEF EndingsTypeOK
<1>5. RowInv' /\ LiveInv' /\ DecidedTrue'
  BY DEF RowInv, LiveInv, DecidedTrue
<1>6. NumberInv'
  <2> SUFFICES ASSUME NEW b \in Attempts
               PROVE  /\ b[3] > number'[b[1]][b[2]] => row'[b] = "none"
                      /\ b[3] < number'[b[1]][b[2]] =>
                           row'[b] = "failed" \/ (b[2] = "notice" /\ row'[b] = "sent")
    BY DEF NumberInv
  <2>1. b[1] \in Relations /\ b[2] \in Parts /\ b[3] \in Numbers
    BY AttemptParts
  <2>2. CASE b[1] = a[1] /\ b[2] = a[2] /\ b[3] # a[3]
    <3>1. number'[b[1]][b[2]] = k
      BY <2>1, <2>2, <1>4
    <3>2. b[3] > k => b[3] > a[3]
      BY <1>1, <1>2, <2>1, EndingsAssumption DEF Numbers
    <3>3. b[3] < k => b[3] < a[3]
      BY <1>1, <1>2, <2>1, <2>2, EndingsAssumption DEF Numbers
    <3> QED BY <1>1, <2>2, <3>1, <3>2, <3>3 DEF NumberInv, Decided
  <2>3. CASE b[1] = a[1] /\ b[2] = a[2] /\ b[3] = a[3]
    <3>1. b = a /\ number'[b[1]][b[2]] = k
      BY <2>1, <2>3, <1>4, AttemptParts
    <3>2. ~(b[3] > k) /\ (b[3] < k => row'[a] # "none")
      BY <1>1, <1>2, <2>3, EndingsAssumption DEF Numbers
    <3>3. row'[a] # "none" => row'[a] = "failed" \/ (a[2] = "notice" /\ row'[a] = "sent")
      BY <1>1 DEF Retryable, Parts
    <3> QED BY <3>1, <3>2, <3>3
  <2>4. CASE ~(b[1] = a[1] /\ b[2] = a[2])
    BY <1>4, <2>1, <2>4 DEF NumberInv, Decided
  <2> QED BY <2>2, <2>3, <2>4
<1>7. NothingForgotten'
  <2> SUFFICES ASSUME NEW r \in Relations, NEW p \in Parts, relation[r] = "ended",
                      phase[Current(r, p)]' # "none", p \notin due'[r]
               PROVE  Decided(Current(r, p))'
    BY DEF NothingForgotten
  <2>1. ~(r = a[1] /\ p = a[2]) /\ p \notin due[r]
    BY <1>1, <1>3 DEF EndingsTypeOK
  <2>2. Current(r, p)' = Current(r, p) /\ Current(r, p) \in Attempts
    BY <1>4, <2>1, CurrentAttempt DEF Current
  <2> QED BY <2>1, <2>2 DEF NothingForgotten, Decided
<1> QED BY <1>4, <1>5, <1>6, <1>7

LEMMA RecoverKeeps ==
  ASSUME EndingsInv, NEW r \in Relations, NEW p \in Parts, Recover(r, p)
  PROVE  EndingsInv'
<1> DEFINE a == Current(r, p)
<1> USE DEF EndingsInv
<1>1. /\ a \in Attempts /\ IsCurrent(a) /\ job.stage = "idle"
      /\ UNCHANGED <<relation, row, known, phase, checked, job>>
      /\ Retryable(a, row'[a]) /\ Queue(a, row'[a])
  BY CurrentAttempt DEF Recover
<1>2. \A b \in Attempts : Decided(b)' => Verdict(b)' = row'[b]
  BY <1>1 DEF DecidedTrue, Decided, Verdict
<1> HIDE DEF a
<1>3. \A b \in Attempts : Decided(b) => row'[b] = row[b]
  BY <1>1
<1>4. /\ number' \in [Relations -> [Parts -> Numbers]] /\ due' \in [Relations -> SUBSET Parts]
      /\ RowInv' /\ NumberInv' /\ LiveInv' /\ DecidedTrue' /\ NothingForgotten'
  BY <1>1, <1>2, <1>3, QueueKeeps DEF EndingsTypeOK
<1>5. EndingsTypeOK' /\ JobInv'
  BY <1>1, <1>4 DEF EndingsTypeOK, JobInv
<1> QED BY <1>4, <1>5

LEMMA RecoverAsksKeeps ==
  ASSUME EndingsInv, NEW r \in Relations, NEW p \in Parts, RecoverAsks(r, p)
  PROVE  EndingsInv'
<1> DEFINE a == Current(r, p)
<1>1. a \in Attempts /\ IsCurrent(a) /\ a # None
  BY CurrentAttempt, AttemptParts DEF EndingsInv
<1>2. job' = [Idle EXCEPT !.stage = "recovering", !.attempt = a]
  BY DEF RecoverAsks
<1> HIDE DEF a
<1>3. job' = [stage |-> "recovering", attempt |-> a, rest |-> <<>>, sent |-> FALSE]
  BY <1>2 DEF Idle
<1>4. <<>> \in Seq(Parts)
  OBVIOUS
<1>5. job' \in Jobs /\ job'.stage = "recovering" /\ job'.attempt = a
  BY <1>1, <1>3, <1>4 DEF Jobs, JobStages
<1> QED BY <1>1, <1>5, JobOnly DEF RecoverAsks, EndingsInv, EndingsTypeOK

LEMMA RecoveredKeeps == ASSUME EndingsInv, Recovered PROVE EndingsInv'
<1> DEFINE a == job.attempt
<1> USE DEF EndingsInv
<1>1. /\ a \in Attempts /\ IsCurrent(a) /\ UNCHANGED <<relation, known, checked>>
      /\ job' = Idle /\ phase' = PhaseAsked(a)
  BY JobAttempt DEF Recovered, JobInv
<1>2. job' \in Jobs /\ job'.stage = "idle" /\ job'.attempt = None
  BY <1>1, IdleJob
<1>3. CASE /\ Retryable(a, Settled(a, VerdictAsked(a))[a])
           /\ row' = Settled(a, VerdictAsked(a))
           /\ Queue(a, Settled(a, VerdictAsked(a))[a])
  <2>1. /\ phase' \in [Attempts -> Phases] /\ row' \in [Attempts -> RowStates]
        /\ \A b \in Attempts : phase[b] = "none" <=> phase'[b] = "none"
        /\ \A b \in Attempts : row[b] = "none" <=> row'[b] = "none"
        /\ \A b \in Attempts : Decided(b) => row'[b] = row[b]
        /\ \A b \in Attempts : Decided(b)' => Verdict(b)' = row'[b]
    BY <1>1, <1>3, AskedTrue
  <2>2. Retryable(a, row'[a]) /\ Queue(a, row'[a])
    BY <1>3
  <2> HIDE DEF a
  <2>3. /\ number' \in [Relations -> [Parts -> Numbers]] /\ due' \in [Relations -> SUBSET Parts]
        /\ RowInv' /\ NumberInv' /\ LiveInv' /\ DecidedTrue' /\ NothingForgotten'
    BY <1>1, <2>1, <2>2, QueueKeeps
  <2>4. EndingsTypeOK' /\ JobInv'
    BY <1>1, <1>2, <2>1, <2>3 DEF EndingsTypeOK, JobInv
  <2> QED BY <2>3, <2>4
<1>4. CASE UNCHANGED <<row, number, due>>
  <2>1. /\ phase' \in [Attempts -> Phases] /\ row' \in [Attempts -> RowStates]
        /\ \A b \in Attempts : phase[b] = "none" <=> phase'[b] = "none"
        /\ \A b \in Attempts : Decided(b)' => Verdict(b)' = row'[b]
    BY <1>1, <1>4, AskedTrue
  <2> HIDE DEF a
  <2>2. RowInv' /\ NumberInv' /\ LiveInv' /\ DecidedTrue' /\ NothingForgotten'
    BY <1>1, <1>4, <2>1, LedgerKept DEF EndingsTypeOK
  <2>3. EndingsTypeOK' /\ JobInv'
    BY <1>1, <1>2, <1>4, <2>1 DEF EndingsTypeOK, JobInv
  <2> QED BY <2>2, <2>3
<1> QED BY <1>3, <1>4 DEF Recovered

-----------------------------------------------------------------------------
(* The theorems. *)

LEMMA NextKeeps == EndingsInv /\ [EndingsNext]_vars => EndingsInv'
<1> SUFFICES ASSUME EndingsInv, [EndingsNext]_vars PROVE EndingsInv'
  OBVIOUS
<1>1. CASE UNCHANGED vars
  BY <1>1, JobOnly DEF vars, EndingsInv, EndingsTypeOK, JobInv
<1>2. ASSUME NEW r \in Relations, PersonaEnd(r) \/ OtherEnd(r) PROVE EndingsInv'
  <2>1. {"farewell", "notice"} \in SUBSET Parts /\ {"notice"} \in SUBSET Parts
    BY DEF Parts
  <2> QED BY <1>2, <2>1, EndKeeps DEF PersonaEnd, OtherEnd
<1>3. ASSUME NEW r \in Relations, Move(r) \/ Block(r) \/ Tick(r) PROVE EndingsInv'
  BY <1>3, AfterEndKeeps, TickKeeps
<1>4. ASSUME NEW r \in Attended, NEW p \in Parts, Recover(r, p) \/ RecoverAsks(r, p)
      PROVE  EndingsInv'
  BY <1>4, RecoverKeeps, RecoverAsksKeeps, EndingsAssumption
<1>5. ASSUME NEW a \in Attempts, Travel(a) \/ LateResolve(a) \/ Observe(a) PROVE EndingsInv'
  BY <1>5, TravelKeeps, LateResolveKeeps, ObserveKeeps
<1>6. CASE JobStep \/ Interrupt \/ Recovered
  BY <1>6, SubmitKeeps, AnswerKeeps, WaitsKeeps, ConcludeKeeps, RecoveredKeeps DEF JobStep
<1> QED BY <1>1, <1>2, <1>3, <1>4, <1>5, <1>6 DEF EndingsNext

\* The inductive invariant holds in every state.
THEOREM EndingsInvariant == EndingsSpec => []EndingsInv
  BY InitInv, NextKeeps, PTL DEF EndingsSpec

\* Ledger, bubbles and job keep their types; the tick lists no ending twice.
THEOREM EndingsTypeCorrect == EndingsSpec => []EndingsTypeOK
<1>1. EndingsInv => EndingsTypeOK
  BY DEF EndingsInv
<1> QED BY <1>1, EndingsInvariant, PTL

\* settle and the answers of the gateway: a row says sent or failed only of a bubble
\* that landed or never will.
THEOREM EndingsDecidedTrue == EndingsSpec => []DecidedTrue
<1>1. EndingsInv => DecidedTrue
  BY DEF EndingsInv
<1> QED BY <1>1, EndingsInvariant, PTL

\* finish takes a part off the list only when the attempt that counts is decided.
THEOREM EndingsNothingForgotten == EndingsSpec => []NothingForgotten
<1>1. EndingsInv => NothingForgotten
  BY DEF EndingsInv
<1> QED BY <1>1, EndingsInvariant, PTL

\* recover repeats a farewell only after a confirmed failure: of all the attempts of a
\* relationship's farewell at most one has reached the phone or still can.
THEOREM EndingsOneFarewell == EndingsSpec => []OneFarewell
<1>1. EndingsInv => OneFarewell
  <2> SUFFICES ASSUME EndingsInv, NEW r \in Relations
               PROVE  Cardinality({n \in Numbers : phase[<<r, "farewell", n>>] \notin {"none", "dead"}}) <= 1
    BY DEF OneFarewell
  <2> DEFINE reaching == {n \in Numbers : phase[<<r, "farewell", n>>] \notin {"none", "dead"}}
             k == number[r]["farewell"]
  <2>1. ASSUME NEW n \in reaching PROVE n = k
    <3> DEFINE a == <<r, "farewell", n>>
    <3>1. a \in Attempts /\ a[1] = r /\ a[2] = "farewell" /\ a[3] = n
      BY DEF Attempts, Parts
    <3>2. row[a] # "none" /\ row[a] # "failed"
      BY <3>1 DEF EndingsInv, RowInv, DecidedTrue, Decided, Verdict
    <3>3. n \in Nat /\ k \in Nat
      BY EndingsAssumption DEF EndingsInv, EndingsTypeOK, Parts, Numbers
    <3>4. ~(n > k) /\ ~(n < k)
      BY <3>1, <3>2 DEF EndingsInv, NumberInv
    <3> QED BY <3>3, <3>4
  <2> HIDE DEF reaching
  <2>2. reaching = {} \/ reaching = {k}
    BY <2>1
  <2>3. Cardinality({}) = 0 /\ Cardinality({k}) = 1
    BY FS_EmptySet, FS_Singleton, Zenon
  <2>4. Cardinality(reaching) = 0 \/ Cardinality(reaching) = 1
    BY <2>2, <2>3
  <2> QED BY <2>4 DEF reaching
<1> QED BY <1>1, EndingsInvariant, PTL

\* recover and the statement that records a notice: while the fate of one is not known,
\* no other one is submitted.
THEOREM EndingsNoticeKnown == EndingsSpec => []NoticeKnown
<1>1. EndingsInv => NoticeKnown
  <2> SUFFICES ASSUME EndingsInv, NEW r \in Relations, NEW m \in Numbers, NEW n \in Numbers,
                      m < n, phase[<<r, "notice", n>>] # "none"
               PROVE  Decided(<<r, "notice", m>>)
    BY DEF NoticeKnown
  <2> DEFINE a == <<r, "notice", m>>
             b == <<r, "notice", n>>
             k == number[r]["notice"]
  <2>1. /\ a \in Attempts /\ a[1] = r /\ a[2] = "notice" /\ a[3] = m
        /\ b \in Attempts /\ b[1] = r /\ b[2] = "notice" /\ b[3] = n
    BY DEF Attempts, Parts
  <2>2. m \in Nat /\ n \in Nat /\ k \in Nat
    BY EndingsAssumption DEF EndingsInv, EndingsTypeOK, Parts, Numbers
  <2>3. row[b] # "none"
    BY <2>1 DEF EndingsInv, RowInv
  <2>4. ~(n > k)
    BY <2>1, <2>3 DEF EndingsInv, NumberInv
  <2>5. m < k
    BY <2>2, <2>4
  <2>6. row[a] \in {"sent", "failed"}
    BY <2>1, <2>5 DEF EndingsInv, NumberInv
  <2> QED BY <2>6 DEF Decided
<1> QED BY <1>1, EndingsInvariant, PTL

\* The row that is written before the submit keeps a delivery that was interrupted from
\* submitting the same attempt again.
THEOREM EndingsSubmittedOnce == EndingsSpec => SubmittedOnce
<1> DEFINE A == job.stage = "looking" /\ job'.stage = "submitting" => phase[job.attempt] = "none"
<1>1. EndingsInv /\ [EndingsNext]_vars => [A]_vars
  <2> SUFFICES ASSUME EndingsInv, EndingsNext, job.stage = "looking", job'.stage = "submitting"
               PROVE  phase[job.attempt] = "none"
    BY DEF vars
  <2>1. CASE Submit
    BY <2>1, JobAttempt DEF Submit, EndingsInv, RowInv
  <2>2. CASE Conclude \/ CheckFails
    BY <2>2, NextPartJob DEF Conclude, CheckFails
  <2>3. CASE Inquire
    BY <2>3, SameAttempt DEF Inquire, JobStages
  <2>4. CASE SubmitAnswered \/ SubmitFails \/ Poll \/ Interrupt \/ Recovered
    BY <2>4 DEF SubmitAnswered, SubmitFails, Poll, Interrupt, Recovered
  <2>5. ASSUME NEW r \in Relations, PersonaEnd(r) \/ OtherEnd(r) \/ Move(r) \/ Block(r) \/ Tick(r)
        PROVE  FALSE
    BY <2>5 DEF PersonaEnd, OtherEnd, End, Move, Block, Tick
  <2>6. ASSUME NEW r \in Attended, NEW p \in Parts, Recover(r, p) \/ RecoverAsks(r, p)
        PROVE  FALSE
    BY <2>6 DEF Recover, RecoverAsks
  <2>7. ASSUME NEW a \in Attempts, Travel(a) \/ LateResolve(a) \/ Observe(a)
        PROVE  FALSE
    BY <2>7 DEF Travel, LateResolve, Observe
  <2> QED BY <2>1, <2>2, <2>3, <2>4, <2>5, <2>6, <2>7 DEF EndingsNext, JobStep
<1> QED BY <1>1, EndingsInvariant, PTL DEF EndingsSpec, SubmittedOnce

\* The statement that records an attempt looks at the relationship again: nothing of one
\* that was blocked or left is submitted, also by a tick that is under way.
THEOREM EndingsSilentAfter == EndingsSpec => SilentAfter
<1> DEFINE A == \A a \in Attempts :
                  relation[a[1]] \in {"blocked", "moved"} /\ phase[a] = "none" => phase'[a] = "none"
<1>1. EndingsInv /\ [EndingsNext]_vars => [A]_vars
  <2> SUFFICES ASSUME EndingsInv, EndingsNext, NEW a \in Attempts,
                      relation[a[1]] \in {"blocked", "moved"}, phase[a] = "none"
               PROVE  phase'[a] = "none"
    BY DEF vars
  <2>0. /\ phase \in [Attempts -> Phases]
        /\ \A b \in Attempts : phase[b] = "none" <=> PhaseAsked(b)[b] = "none"
        /\ \A b \in Attempts : PhaseAsked(b)[a] = "none"
    BY AskedFacts DEF EndingsInv, EndingsTypeOK
  <2>1. CASE Submit
    <3>1. job.attempt # a
      BY <2>1 DEF Submit, Authorised
    <3> QED BY <2>0, <2>1, <3>1 DEF Submit
  <2>2. CASE Conclude \/ Recovered
    BY <2>0, <2>2, JobAttempt DEF Conclude, Recovered, EndingsInv
  <2>3. CASE Inquire \/ CheckFails \/ SubmitAnswered \/ SubmitFails \/ Poll \/ Interrupt
    BY <2>3 DEF Inquire, CheckFails, SubmitAnswered, SubmitFails, Poll, Interrupt
  <2>4. ASSUME NEW r \in Relations, PersonaEnd(r) \/ OtherEnd(r) \/ Move(r) \/ Block(r) \/ Tick(r)
        PROVE  UNCHANGED phase
    BY <2>4 DEF PersonaEnd, OtherEnd, End, Move, Block, Tick
  <2>5. ASSUME NEW r \in Attended, NEW p \in Parts, Recover(r, p) \/ RecoverAsks(r, p)
        PROVE  UNCHANGED phase
    BY <2>5 DEF Recover, RecoverAsks
  <2>6. ASSUME NEW b \in Attempts, Travel(b) \/ LateResolve(b) \/ Observe(b)
        PROVE  phase'[a] = "none"
    BY <2>0, <2>6 DEF Travel, LateResolve, Observe, To
  <2> QED BY <2>1, <2>2, <2>3, <2>4, <2>5, <2>6 DEF EndingsNext, JobStep
<1> QED BY <1>1, EndingsInvariant, PTL DEF EndingsSpec, SilentAfter

=============================================================================
