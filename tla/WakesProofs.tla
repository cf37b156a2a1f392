---------------------------- MODULE WakesProofs -----------------------------
(***************************************************************************)
(* Proofs about Wakes, for any lanes, budgets, deadlines and retries.      *)
(***************************************************************************)
EXTENDS Wakes, DataLemmas

\* What there is for intake is from a hint, which makes it due at once.
PendingInv == pending[Intake] \in {0, Never}

\* Where a run of the alarm is, and what it still has before it.
RunInv ==
  /\ job.stage = "turn" => job.lanes # <<>>
  /\ job.stage \in {"inner", "turn"} => job.todo # <<>> /\ job.executes /\ job.failure # "all"
  /\ job.stage = "outer" /\ job.todo # <<>> => job.executes /\ job.failure # "all"
  /\ job.stage \in {"idle", "fired", "store"} => job.failure = "none"
  /\ job.stage \in {"store", "outer"} /\ ~job.executes => job.read \subseteq {"discord"}

\* Work that was refused a claim has the row of execution, which the run did not read.
DeferredInv ==
  job.deferred => /\ job.stage \in {"outer", "inner", "turn"}
                  /\ row["execution"] # Never /\ "execution" \notin job.read

\* Messages that come while intake is at work have a row of their own.
FreshInv == fresh => AtWork(Intake) /\ row["intake"] # Never /\ "intake" \notin job.read

\* Intake is still before the run, or what it has to do outlives the run.
Before ==
  \/ job.stage = "store"
  \/ job.stage = "outer" /\ \E i \in 1 .. Len(job.todo) : job.todo[i] = "execution"
  \/ job.stage \in {"inner", "turn"} /\ \E i \in 1 .. Len(job.lanes) : job.lanes[i] = Intake
Outlives ==
  \/ row["intake"] # Never /\ "intake" \notin job.read
  \/ row["execution"] # Never /\ "execution" \notin job.read
  \/ held[Intake] # Never
  \/ job.stage = "outer" /\ startup # Never
IntakeInv ==
  pending[Intake] # Never /\ job.stage \notin {"idle", "fired"} /\ job.executes
    /\ job.failure # "all" => Before \/ Outlives

\* What is not sent yet is not among what a run that has been at Discord read.
UnsentInv == unsent /\ job.stage \in {"outer", "inner", "turn"} => "discord" \notin job.read

WakesInv ==
  /\ WakesTypeOK
  /\ PendingInv
  /\ RunInv
  /\ DeferredInv
  /\ FreshInv
  /\ IntakeInv
  /\ UnsentInv
  /\ Armed
  /\ NothingUnscheduled

\* Times are numbers, and there is one after the safety interval.
LEMMA TimeFacts ==
  /\ Times \subseteq Nat /\ Never \in Times /\ Never # 0 /\ 1 \in Times /\ Never # 1
  /\ 0 \in Times /\ Safety \in Times /\ Safety # Never
  /\ Dues \subseteq Times \ {Never} /\ Delays \subseteq Times \ {Never}
  /\ Intake \in Lanes
  BY WakesAssumption DEF Times, Never, Lanes, Intake

\* A row is brought forward.
LEMMA BroughtForward ==
  ASSUME NEW a \in Times, NEW b \in Times
  PROVE  /\ Min({a, b}) \in Times
         /\ Min({a, b}) <= a /\ Min({a, b}) <= b
         /\ b # Never => Min({a, b}) # Never
<1>1. a \in Nat /\ b \in Nat
  BY TimeFacts
<1> QED BY <1>1, MinOfTwo DEF Times, Never

LEMMA DelayedTimes ==
  ASSUME NEW time \in Times, NEW floor \in Times, floor # Never
  PROVE  Delayed(time, floor) = IF time = Never THEN Never ELSE IF time >= floor THEN time ELSE floor
<1>1. time \in Nat /\ floor \in Nat
  BY TimeFacts
<1> QED BY <1>1, MaxOfTwo DEF Delayed

LEMMA FloorTimes ==
  ASSUME NEW time \in Times
  PROVE  Floor(time) \in Times /\ Floor(time) # Never /\ Floor(time) \in Nat
  BY TimeFacts DEF Floor

\* What the wakes are taken from.
StoredTypeOK ==
  /\ pending \in [Lanes -> Times] /\ row \in [Rows -> Times]
  /\ held \in [Lanes -> Times] /\ startup \in Times /\ backoff \in Times

LEMMA StoredTypes == WakesTypeOK => StoredTypeOK
  BY DEF WakesTypeOK, StoredTypeOK

LEMMA LaneFloorTimes ==
  ASSUME StoredTypeOK, NEW l \in Lanes
  PROVE  /\ LaneFloor(l) = IF Floor(startup) >= Floor(held[l]) THEN Floor(startup) ELSE Floor(held[l])
         /\ LaneFloor(l) \in Times /\ LaneFloor(l) # Never
<1>1. startup \in Times /\ held[l] \in Times
  BY DEF StoredTypeOK
<1>2. LaneFloor(l) = IF Floor(startup) >= Floor(held[l]) THEN Floor(startup) ELSE Floor(held[l])
  BY <1>1, FloorTimes, MaxOfTwo DEF LaneFloor
<1> QED BY <1>1, <1>2, FloorTimes

LEMMA DeadlineTimes == ASSUME StoredTypeOK PROVE Deadlines \in SUBSET Times /\ startup \in Deadlines
<1>1. /\ \A l \in Lanes : pending[l] \in Times /\ held[l] \in Times
      /\ \A n \in Rows : row[n] \in Times
      /\ startup \in Times /\ Intake \in Lanes
  BY TimeFacts DEF StoredTypeOK
<1>2. \A t, f \in Times : f # Never => Delayed(t, f) \in Times
  BY DelayedTimes
<1>3. \A l \in Lanes : Delayed(pending[l], LaneFloor(l)) \in Times
  BY <1>1, <1>2, LaneFloorTimes
<1>4. \A l \in Lanes : Delayed(held[l], Floor(startup)) \in Times
  BY <1>1, <1>2, FloorTimes
<1>5. Delayed(row["intake"], LaneFloor(Intake)) \in Times /\ Delayed(row["execution"], Floor(startup)) \in Times
  BY <1>1, <1>2, LaneFloorTimes, FloorTimes DEF Rows
<1> QED BY <1>1, <1>3, <1>4, <1>5 DEF Deadlines, Rows

LEMMA WakeTimes ==
  ASSUME StoredTypeOK
  PROVE  /\ ExecutionWake \in Times /\ Wake \in Times /\ NextAlarm \in Times
         /\ Wake = IF row["discord"] <= ExecutionWake THEN row["discord"] ELSE ExecutionWake
         /\ NextAlarm = IF Wake >= 1 THEN Wake ELSE 1
<1>1. Min(Deadlines) \in Times
  <2>1. Deadlines \in SUBSET Nat /\ Deadlines # {}
    BY DeadlineTimes, TimeFacts
  <2> QED BY <2>1, MinOfNats, DeadlineTimes
<1>2. ExecutionWake \in Times /\ row["discord"] \in Times
  BY <1>1 DEF StoredTypeOK, ExecutionWake, Rows
<1>3. ExecutionWake \in Nat /\ row["discord"] \in Nat /\ 1 \in Nat /\ 1 \in Times
  BY <1>2, TimeFacts
<1>4. Wake = IF row["discord"] <= ExecutionWake THEN row["discord"] ELSE ExecutionWake
  BY <1>3, MinOfTwo DEF Wake
<1>5. Wake \in Times /\ Wake \in Nat
  BY <1>2, <1>3, <1>4
<1>6. NextAlarm = IF Wake >= 1 THEN Wake ELSE 1
  BY <1>3, <1>5, MaxOfTwo DEF NextAlarm
<1> QED BY <1>2, <1>3, <1>4, <1>5, <1>6

LEMMA NextAlarmTyped == StoredTypeOK => NextAlarm \in Times
  BY WakeTimes

-----------------------------------------------------------------------------
(* Time goes by: every deadline comes closer, and so does the first of them. *)

LEMMA CloserTimes ==
  ASSUME NEW a \in Times, NEW b \in Times
  PROVE  /\ Closer(a) \in Times
         /\ Closer(a) = Never <=> a = Never
         /\ a = 0 => Closer(a) = 0
         /\ a <= b => Closer(a) <= Closer(b)
         /\ a <= 1 => Closer(a) = 0
  BY WakesAssumption DEF Closer, Later, Times, Never

LEMMA FloorCloser ==
  ASSUME NEW a \in Times
  PROVE  Floor(Closer(a)) = Closer(Floor(a))
  BY WakesAssumption DEF Floor, Closer, Later, Times, Never

LEMMA DelayedCloser ==
  ASSUME NEW a \in Times, NEW f \in Times, f # Never
  PROVE  Delayed(Closer(a), Closer(f)) = Closer(Delayed(a, f))
<1>1. Closer(a) \in Times /\ Closer(f) \in Times /\ Closer(f) # Never /\ (Closer(a) = Never <=> a = Never)
  BY CloserTimes
<1>2. a \in Nat /\ f \in Nat
  BY TimeFacts
<1>3. CASE a >= f
  <2>1. Closer(a) >= Closer(f)
    BY <1>2, <1>3, CloserTimes, <1>1, TimeFacts
  <2> QED BY <1>1, <1>3, <2>1, DelayedTimes
<1>4. CASE a < f
  <2>1. Closer(a) <= Closer(f)
    BY <1>2, <1>4, CloserTimes
  <2>2. Closer(a) \in Nat /\ Closer(f) \in Nat
    BY <1>1, TimeFacts
  <2>3. a # Never
    BY <1>4 DEF Times, Never
  <2> QED BY <1>1, <1>2, <1>4, <2>1, <2>2, <2>3, DelayedTimes
<1> QED BY <1>2, <1>3, <1>4

LEMMA MinCloser ==
  ASSUME NEW S \in SUBSET Times, S # {}
  PROVE  Min({Closer(t) : t \in S}) = Closer(Min(S))
<1> DEFINE T == {Closer(t) : t \in S}
<1>1. S \in SUBSET Nat /\ T \in SUBSET Nat /\ T # {}
  <2>1. \A t \in S : t \in Nat /\ Closer(t) \in Nat
    BY CloserTimes, TimeFacts
  <2> QED BY <2>1
<1>2. Min(S) \in S /\ \A t \in S : Min(S) <= t
  BY <1>1, MinOfNats
<1>3. Min(T) \in T /\ \A t \in T : Min(T) <= t
  BY <1>1, MinOfNats
<1>4. Closer(Min(S)) \in T /\ \A t \in S : Closer(Min(S)) <= Closer(t)
  BY <1>2, CloserTimes
<1>5. Min(T) <= Closer(Min(S)) /\ Closer(Min(S)) <= Min(T)
  BY <1>3, <1>4
<1>6. Min(T) \in Nat /\ Closer(Min(S)) \in Nat
  BY <1>1, <1>3, <1>4
<1> QED BY <1>5, <1>6

LEMMA PassWake == ASSUME WakesTypeOK, WakesTypeOK', Pass PROVE Wake' = Closer(Wake)
<1>1. /\ \A l \in Lanes : pending[l] \in Times /\ held[l] \in Times
                           /\ pending'[l] = Closer(pending[l]) /\ held'[l] = Closer(held[l])
      /\ \A n \in Rows : row[n] \in Times /\ row'[n] = Closer(row[n])
      /\ startup \in Times /\ startup' = Closer(startup)
      /\ backoff \in Times /\ backoff' = Closer(backoff)
      /\ Intake \in Lanes
  BY TimeFacts DEF WakesTypeOK, Pass
<1>2. Floor(startup)' = Closer(Floor(startup))
  BY <1>1, FloorCloser DEF Floor
<1>3. ASSUME NEW l \in Lanes PROVE LaneFloor(l)' = Closer(LaneFloor(l))
  <2> DEFINE a == Floor(startup)
             b == Floor(held[l])
  <2>1. a \in Times /\ b \in Times /\ a \in Nat /\ b \in Nat
    BY <1>1, FloorTimes
  <2>2. Floor(startup') = Closer(a) /\ Floor(held'[l]) = Closer(b)
    BY <1>1, FloorCloser
  <2>3. Closer(a) \in Nat /\ Closer(b) \in Nat
    BY <2>1, CloserTimes, TimeFacts
  <2>4. LaneFloor(l)' = IF Closer(a) >= Closer(b) THEN Closer(a) ELSE Closer(b)
    BY <2>2, <2>3, MaxOfTwo DEF LaneFloor
  <2>5. LaneFloor(l) = IF a >= b THEN a ELSE b
    BY LaneFloorTimes, StoredTypes
  <2> HIDE DEF a, b
  <2>6. CASE a >= b
    <3>1. Closer(a) >= Closer(b)
      BY <2>1, <2>3, <2>6, CloserTimes
    <3> QED BY <2>4, <2>5, <2>6, <3>1
  <2>7. CASE ~(a >= b)
    <3>1. Closer(a) <= Closer(b)
      BY <2>1, <2>7, CloserTimes
    <3> QED BY <2>3, <2>4, <2>5, <2>7, <3>1
  <2> QED BY <2>6, <2>7
<1>4. /\ \A l \in Lanes : Delayed(pending'[l], LaneFloor(l)') = Closer(Delayed(pending[l], LaneFloor(l)))
      /\ \A l \in Lanes : Delayed(held'[l], Floor(startup)') = Closer(Delayed(held[l], Floor(startup)))
      /\ Delayed(row'["intake"], LaneFloor(Intake)') = Closer(Delayed(row["intake"], LaneFloor(Intake)))
      /\ Delayed(row'["execution"], Floor(startup)') = Closer(Delayed(row["execution"], Floor(startup)))
  <2>1. \A t, f, u, g : t \in Times /\ f \in Times /\ f # Never /\ u = Closer(t) /\ g = Closer(f)
                         => Delayed(u, g) = Closer(Delayed(t, f))
    BY DelayedCloser
  <2>2. ASSUME NEW l \in Lanes
        PROVE  Delayed(pending'[l], LaneFloor(l)') = Closer(Delayed(pending[l], LaneFloor(l)))
    BY <1>1, <1>3, <2>1, LaneFloorTimes, StoredTypes
  <2>3. ASSUME NEW l \in Lanes
        PROVE  Delayed(held'[l], Floor(startup)') = Closer(Delayed(held[l], Floor(startup)))
    BY <1>1, <1>2, <2>1, FloorTimes
  <2>4. Delayed(row'["intake"], LaneFloor(Intake)') = Closer(Delayed(row["intake"], LaneFloor(Intake)))
    BY <1>1, <1>3, <2>1, LaneFloorTimes, StoredTypes DEF Rows
  <2>5. Delayed(row'["execution"], Floor(startup)') = Closer(Delayed(row["execution"], Floor(startup)))
    BY <1>1, <1>2, <2>1, FloorTimes DEF Rows
  <2> QED BY <2>2, <2>3, <2>4, <2>5
<1>5. Deadlines' = {Closer(t) : t \in Deadlines}
  BY <1>1, <1>4 DEF Deadlines, Rows
<1>6. Min(Deadlines)' = Closer(Min(Deadlines))
  BY <1>5, MinCloser, DeadlineTimes, StoredTypes
<1>7. ExecutionWake' = Closer(ExecutionWake)
  BY <1>1, <1>6, CloserTimes DEF ExecutionWake
<1>8. row["discord"] \in Times /\ row'["discord"] = Closer(row["discord"])
  BY <1>1 DEF Rows
<1>9. Wake = IF row["discord"] <= ExecutionWake THEN row["discord"] ELSE ExecutionWake
  BY WakeTimes, StoredTypes
<1> DEFINE d == row["discord"]
           e == ExecutionWake
<1>10. d \in Times /\ e \in Times
  BY <1>8, WakeTimes, StoredTypes
<1>11. d \in Nat /\ e \in Nat /\ Closer(d) \in Nat /\ Closer(e) \in Nat
  BY <1>10, CloserTimes, TimeFacts
<1>12. Wake' = IF Closer(d) <= Closer(e) THEN Closer(d) ELSE Closer(e)
  BY <1>7, <1>8, <1>11, MinOfTwo DEF Wake
<1> HIDE DEF d, e
<1>13. CASE d <= e
  <2>1. Closer(d) <= Closer(e)
    BY <1>10, <1>13, CloserTimes
  <2> QED BY <1>9, <1>12, <1>13, <2>1 DEF d, e
<1>14. CASE ~(d <= e)
  <2>1. Closer(e) <= Closer(d)
    BY <1>10, <1>11, <1>14, CloserTimes
  <2>2. Wake' = Closer(e)
    BY <1>11, <1>12, <2>1
  <2>3. Wake = e
    BY <1>9, <1>14 DEF d, e
  <2> QED BY <2>2, <2>3
<1> QED BY <1>13, <1>14

-----------------------------------------------------------------------------
(* Rows, lanes and claims. *)

LEMMA JobFacts ==
  ASSUME WakesTypeOK
  PROVE  /\ job.stage \in Stages /\ job.executes \in BOOLEAN /\ job.read \subseteq Rows
         /\ job.left \in 0 .. Budget /\ job.left \in Nat
         /\ job.todo \in Seq({"notifications", "execution"}) /\ job.lanes \in Seq(Lanes)
         /\ job.failure \in {"none", "lane", "all"} /\ job.deferred \in BOOLEAN
  BY WakesAssumption DEF WakesTypeOK, Jobs

\* scheduleWork moves no row but its own, and none to a later time.
LEMMA ScheduledRow ==
  ASSUME WakesTypeOK, NEW name \in Rows, NEW time \in Times, time # Never
  PROVE  /\ [row EXCEPT ![name] = Min({@, time})] \in [Rows -> Times]
         /\ [row EXCEPT ![name] = Min({@, time})][name] # Never
         /\ \A n \in Rows \ {name} : [row EXCEPT ![name] = Min({@, time})][n] = row[n]
<1> DEFINE least == Min({row[name], time})
<1>1. row \in [Rows -> Times]
  BY DEF WakesTypeOK
<1>2. least \in Times /\ least # Never
  BY <1>1, BroughtForward
<1>3. [row EXCEPT ![name] = Min({@, time})] = [row EXCEPT ![name] = least]
  OBVIOUS
<1> HIDE DEF least
<1> QED BY <1>1, <1>2, <1>3

\* The lanes follow from where the cursor stands, and none is left out.
LEMMA Rotation ==
  ASSUME NEW S, NEW seq \in Seq(S), NEW n \in 1 .. Len(seq)
  PROVE  /\ After(seq, n) \in Seq(S)
         /\ \A i \in 1 .. Len(seq) : \E j \in 1 .. Len(After(seq, n)) : After(seq, n)[j] = seq[i]
<1> DEFINE head == SubSeq(seq, n, Len(seq))
           tail == SubSeq(seq, 1, n - 1)
<1>1. /\ head \in Seq(S) /\ Len(head) = Len(seq) - n + 1
      /\ \A i \in 1 .. Len(seq) - n + 1 : head[i] = seq[n + i - 1]
  <2>1. Len(seq) \in Int /\ \A i \in n .. Len(seq) : seq[i] \in S
    OBVIOUS
  <2> QED BY <2>1, SubSeqProperties
<1>2. /\ tail \in Seq(S) /\ Len(tail) = n - 1
      /\ \A i \in 1 .. n - 1 : tail[i] = seq[i]
  <2>1. Len(seq) \in Int /\ \A i \in 1 .. n - 1 : seq[i] \in S
    OBVIOUS
  <2> QED BY <2>1, SubSeqProperties
<1>3. After(seq, n) = head \o tail
  BY DEF After
<1> HIDE DEF head, tail
<1>4. /\ head \o tail \in Seq(S)
      /\ Len(head \o tail) = Len(head) + Len(tail)
      /\ \A i \in 1 .. Len(head) + Len(tail) :
           (head \o tail)[i] = IF i <= Len(head) THEN head[i] ELSE tail[i - Len(head)]
  BY <1>1, <1>2, ConcatProperties
<1>5. ASSUME NEW i \in 1 .. Len(seq)
      PROVE  \E j \in 1 .. Len(head \o tail) : (head \o tail)[j] = seq[i]
  <2>0. Len(seq) \in Nat /\ n \in Nat /\ i \in Nat
    OBVIOUS
  <2>1. CASE i >= n
    <3>1. i - n + 1 \in 1 .. Len(seq) - n + 1 /\ n + (i - n + 1) - 1 = i
      BY <2>0, <2>1
    <3>2. (head \o tail)[i - n + 1] = seq[i] /\ i - n + 1 \in 1 .. Len(head \o tail)
      BY <1>1, <1>2, <1>4, <2>0, <3>1
    <3> QED BY <3>2
  <2>2. CASE i < n
    <3>1. /\ i + Len(head) \in 1 .. Len(head) + Len(tail) /\ ~(i + Len(head) <= Len(head))
          /\ (i + Len(head)) - Len(head) = i /\ i \in 1 .. n - 1
      BY <1>1, <1>2, <2>0, <2>2
    <3>2. (head \o tail)[i + Len(head)] = seq[i]
      BY <1>2, <1>4, <3>1
    <3> QED BY <1>4, <3>1, <3>2
  <2> QED BY <2>0, <2>1, <2>2
<1> QED BY <1>3, <1>4, <1>5

\* A claim that is refused leaves a row for execution that the run has not read.
LEMMA RefusedWork ==
  ASSUME WakesTypeOK, DeferredInv, NEW next \in Jobs, next.read = job.read, Refused(next)
  PROVE  /\ row' \in [Rows -> Times]
         /\ row'["execution"] # Never /\ \A n \in Rows \ {"execution"} : row'[n] = row[n]
         /\ job' \in Jobs
         /\ job'.stage = next.stage /\ job'.executes = next.executes /\ job'.left = next.left
         /\ job'.todo = next.todo /\ job'.lanes = next.lanes /\ job'.failure = next.failure
         /\ "execution" \notin job'.read /\ job'.read \subseteq job.read
<1>1. "execution" \in Rows /\ 1 \in Times /\ 1 # Never /\ row \in [Rows -> Times]
  BY TimeFacts DEF Rows, WakesTypeOK
<1>2. CASE job.deferred
  <2>1. row' = row /\ job' = [next EXCEPT !.deferred = TRUE, !.read = next.read]
    BY <1>2 DEF Refused
  <2> QED BY <1>1, <1>2, <2>1 DEF DeferredInv, Jobs
<1>3. CASE ~job.deferred
  <2>1. /\ row' = [row EXCEPT !["execution"] = Min({@, 1})]
        /\ job' = [next EXCEPT !.deferred = TRUE, !.read = next.read \ {"execution"}]
    BY <1>3 DEF Refused
  <2>2. /\ row' \in [Rows -> Times] /\ row'["execution"] # Never
        /\ \A n \in Rows \ {"execution"} : row'[n] = row[n]
    BY <1>1, <2>1, ScheduledRow
  <2>3. /\ job' \in Jobs
        /\ job'.stage = next.stage /\ job'.executes = next.executes /\ job'.left = next.left
        /\ job'.todo = next.todo /\ job'.lanes = next.lanes /\ job'.failure = next.failure
        /\ job'.read = next.read \ {"execution"}
    BY <2>1 DEF Jobs
  <2> QED BY <2>2, <2>3
<1> QED BY <1>2, <1>3

-----------------------------------------------------------------------------
(* Requests. *)

LEMMA InitInv == WakesInit => WakesInv
<1> SUFFICES ASSUME WakesInit PROVE WakesInv
  OBVIOUS
<1>0. Idle \in Jobs
  BY WakesAssumption DEF Idle, Jobs, Stages
<1>5. /\ 0 \in Lanes /\ Never \in Times /\ 0 \in 0 .. MaxFaults
      /\ cursor \in [outer : {1, 2}, inner : Lanes]
  BY TimeFacts, WakesAssumption DEF Intake, WakesInit
<1>1. WakesTypeOK
  BY <1>0, <1>5 DEF WakesInit, WakesTypeOK
<1> USE DEF WakesInit, Idle
<1>2. PendingInv /\ RunInv /\ DeferredInv /\ FreshInv /\ IntakeInv /\ UnsentInv /\ NothingUnscheduled
  BY TimeFacts DEF PendingInv, RunInv, DeferredInv, FreshInv, IntakeInv, UnsentInv, NothingUnscheduled
<1>3. Wake = Never
  <2>1. \A l \in Lanes : LaneFloor(l) = 0
    BY MaxOfTwo DEF LaneFloor, Floor
  <2>2. Deadlines \subseteq {Never} /\ startup \in Deadlines
    BY <2>1, TimeFacts DEF Deadlines, Delayed, Floor, Rows
  <2>3. Deadlines = {Never}
    BY <2>2
  <2>4. Min(Deadlines) = Never
    BY <2>3, MinOfNats, TimeFacts
  <2> QED BY <2>4, <1>1, WakeTimes, StoredTypes DEF ExecutionWake, Rows
<1>4. Armed
  BY <1>3 DEF Armed
<1> QED BY <1>1, <1>2, <1>4 DEF WakesInv

\* A step of a request leaves the run where it is; it may store rows, which the run
\* has then not read.
LEMMA StoresKeep ==
  ASSUME WakesInv,
         row' \in [Rows -> Times], \A n \in Rows : row[n] # Never => row'[n] # Never,
         job' \in Jobs, job' = [job EXCEPT !.read = job'.read],
         job'.read \subseteq job.read,
         pending' \in [Lanes -> Times], pending'[Intake] \in {0, Never},
         pending'[Intake] = pending[Intake] \/ (row'["intake"] # Never /\ "intake" \notin job'.read),
         fresh' \in BOOLEAN,
         fresh' = fresh \/ (AtWork(Intake) /\ row'["intake"] # Never /\ "intake" \notin job'.read),
         unsent' \in BOOLEAN,
         unsent' = unsent \/ (row'["discord"] # Never /\ "discord" \notin job'.read),
         unarmed' = TRUE,
         UNCHANGED <<wait, alarm, cursor, rest>>
  PROVE  WakesInv'
<1> USE DEF WakesInv, wait, rest
<1>1. /\ job'.stage = job.stage /\ job'.executes = job.executes /\ job'.todo = job.todo
      /\ job'.lanes = job.lanes /\ job'.failure = job.failure /\ job'.deferred = job.deferred
  BY DEF WakesTypeOK, Jobs
<1>2. "intake" \in Rows /\ "execution" \in Rows /\ "discord" \in Rows
  BY DEF Rows
<1>3. WakesTypeOK'
  BY DEF WakesTypeOK
<1>4. PendingInv' /\ RunInv'
  BY <1>1 DEF PendingInv, RunInv
<1>5. DeferredInv' /\ FreshInv' /\ UnsentInv' /\ NothingUnscheduled'
  BY <1>1, <1>2 DEF DeferredInv, FreshInv, UnsentInv, NothingUnscheduled, AtWork
<1>6. IntakeInv'
  BY <1>1, <1>2 DEF IntakeInv, Before, Outlives
<1>7. Armed'
  BY <1>1 DEF Armed
<1> QED BY <1>3, <1>4, <1>5, <1>6, <1>7

\* What scheduling a row leaves behind.
LEMMA ScheduleStep ==
  ASSUME WakesTypeOK, NEW name \in Rows, NEW time \in Times, time # Never, Schedule(name, time)
  PROVE  /\ row' \in [Rows -> Times] /\ row'[name] # Never
         /\ \A n \in Rows : row[n] # Never => row'[n] # Never
         /\ job' \in Jobs /\ job' = [job EXCEPT !.read = job'.read]
         /\ job'.read \subseteq job.read /\ name \notin job'.read
<1>1. /\ row' \in [Rows -> Times] /\ row'[name] # Never
      /\ \A n \in Rows : row[n] # Never => row'[n] # Never
  BY ScheduledRow DEF Schedule
<1>2. job' = [job EXCEPT !.read = job.read \ {name}] /\ job \in Jobs
  BY DEF Schedule, WakesTypeOK
<1>3. job'.read = job.read \ {name} /\ job' \in Jobs
  BY <1>2 DEF Jobs
<1> QED BY <1>1, <1>2, <1>3

LEMMA HintKeeps == ASSUME WakesInv, Hint PROVE WakesInv'
<1> USE DEF WakesInv
<1>1. "intake" \in Rows /\ Schedule("intake", 0) /\ 0 \in Times /\ 0 # Never /\ Intake \in Lanes
  BY TimeFacts DEF Hint, Rows
<1>2. pending' \in [Lanes -> Times] /\ pending'[Intake] = 0
  BY <1>1 DEF Hint, WakesTypeOK
<1>3. /\ fresh' \in BOOLEAN /\ (fresh' = fresh \/ AtWork(Intake)) /\ unsent' = unsent
      /\ unsent \in BOOLEAN /\ unarmed' = TRUE /\ UNCHANGED <<wait, alarm, cursor, rest>>
  BY DEF Hint, WakesTypeOK
<1> QED BY <1>1, <1>2, <1>3, ScheduleStep, StoresKeep

LEMMA RequestKeeps ==
  ASSUME WakesInv, NEW l \in Lanes \ {Intake}, NEW time \in Dues, Request(l, time)
  PROVE  WakesInv'
<1> USE DEF WakesInv
<1>1. pending' \in [Lanes -> Times] /\ pending'[Intake] = pending[Intake]
  BY TimeFacts DEF Request, WakesTypeOK
<1>2. /\ fresh' \in BOOLEAN /\ fresh' = fresh /\ unsent' = unsent /\ unsent \in BOOLEAN
      /\ row' = row /\ row \in [Rows -> Times] /\ job' = job /\ job \in Jobs
      /\ unarmed' = TRUE /\ UNCHANGED <<wait, alarm, cursor, rest>>
  BY DEF Request, WakesTypeOK
<1>3. job' = [job EXCEPT !.read = job'.read]
  BY <1>2 DEF Jobs
<1>4. pending'[Intake] \in {0, Never}
  BY <1>1 DEF PendingInv
<1> QED BY <1>1, <1>2, <1>3, <1>4, StoresKeep

LEMMA RegisterKeeps == ASSUME WakesInv, Register PROVE WakesInv'
<1> USE DEF WakesInv
<1>1. "notifications" \in Rows /\ Schedule("notifications", 0) /\ 0 \in Times /\ 0 # Never
  BY TimeFacts DEF Register, Rows
<1>2. /\ pending' = pending /\ pending \in [Lanes -> Times] /\ pending[Intake] \in {0, Never}
      /\ fresh' = fresh /\ fresh \in BOOLEAN /\ unsent' = unsent /\ unsent \in BOOLEAN
      /\ unarmed' = TRUE /\ UNCHANGED <<wait, alarm, cursor, rest>>
  BY DEF Register, WakesTypeOK, PendingInv
<1> QED BY <1>1, <1>2, ScheduleStep, StoresKeep

LEMMA ReportKeeps == ASSUME WakesInv, Report PROVE WakesInv'
<1> USE DEF WakesInv
<1>1. "discord" \in Rows /\ Schedule("discord", 0) /\ 0 \in Times /\ 0 # Never
  BY TimeFacts DEF Report, Rows
<1>2. /\ pending' = pending /\ pending \in [Lanes -> Times] /\ pending[Intake] \in {0, Never}
      /\ fresh' = fresh /\ fresh \in BOOLEAN /\ unsent' = TRUE
      /\ unarmed' = TRUE /\ UNCHANGED <<wait, alarm, cursor, rest>>
  BY DEF Report, WakesTypeOK, PendingInv
<1> QED BY <1>1, <1>2, ScheduleStep, StoresKeep

LEMMA ArmKeeps == ASSUME WakesInv, Arm PROVE WakesInv'
<1> USE DEF WakesInv, Arm, work, wait
<1>1. alarm \in Times /\ alarm \in Nat /\ NextAlarm \in Times /\ NextAlarm \in Nat /\ Never \in Nat
  BY WakeTimes, StoredTypes, TimeFacts DEF WakesTypeOK
<1>2. alarm' = IF Wake # Never /\ NextAlarm < alarm THEN NextAlarm ELSE alarm
  BY DEF ArmEarlier
<1>3. Wake' = Wake /\ NextAlarm' = NextAlarm
  BY DEF NextAlarm, Wake, ExecutionWake, Deadlines, Delayed, LaneFloor, Floor
<1>4. alarm' \in Times /\ (alarm # Never => alarm' # Never)
      /\ (Wake # Never => alarm' <= NextAlarm)
  BY <1>1, <1>2 DEF Times, Never
<1>5. Armed'
  BY <1>3, <1>4 DEF Armed
<1>6. WakesTypeOK'
  BY <1>4 DEF WakesTypeOK
<1>7. PendingInv' /\ RunInv' /\ DeferredInv' /\ FreshInv' /\ UnsentInv' /\ NothingUnscheduled'
  BY DEF PendingInv, RunInv, DeferredInv, FreshInv, UnsentInv, NothingUnscheduled, AtWork
<1>8. IntakeInv'
  BY DEF IntakeInv, Before, Outlives
<1> QED BY <1>5, <1>6, <1>7, <1>8

LEMMA PassKeeps == ASSUME WakesInv, Pass PROVE WakesInv'
<1> USE DEF WakesInv, rest
<1>1. /\ \A l \in Lanes : pending[l] \in Times /\ held[l] \in Times
                           /\ pending'[l] = Closer(pending[l]) /\ held'[l] = Closer(held[l])
      /\ \A n \in Rows : row[n] \in Times /\ row'[n] = Closer(row[n])
      /\ startup \in Times /\ startup' = Closer(startup)
      /\ backoff \in Times /\ backoff' = Closer(backoff)
      /\ alarm \in Times /\ alarm' = Closer(alarm)
      /\ Intake \in Lanes
      /\ UNCHANGED <<fresh, unsent, cursor, job, unarmed, rest>>
  BY TimeFacts DEF WakesTypeOK, Pass
<1>2. /\ pending' \in [Lanes -> Times] /\ held' \in [Lanes -> Times] /\ row' \in [Rows -> Times]
      /\ startup' \in Times /\ backoff' \in Times /\ alarm' \in Times
  BY <1>1, CloserTimes DEF Pass
<1>3. WakesTypeOK'
  BY <1>1, <1>2 DEF WakesTypeOK
<1>4. /\ \A n \in Rows : row'[n] = Never <=> row[n] = Never
      /\ pending'[Intake] = Never <=> pending[Intake] = Never
      /\ held'[Intake] = Never <=> held[Intake] = Never
      /\ startup' = Never <=> startup = Never
      /\ alarm' = Never <=> alarm = Never
      /\ pending[Intake] = 0 => pending'[Intake] = 0
      /\ "intake" \in Rows /\ "execution" \in Rows /\ "discord" \in Rows
  BY <1>1, CloserTimes DEF Rows
<1>5. PendingInv' /\ RunInv' /\ DeferredInv' /\ FreshInv' /\ UnsentInv' /\ NothingUnscheduled'
  BY <1>1, <1>4 DEF PendingInv, RunInv, DeferredInv, FreshInv, UnsentInv, NothingUnscheduled, AtWork
<1>6. IntakeInv'
  BY <1>1, <1>4 DEF IntakeInv, Before, Outlives
<1>7. Wake \in Times /\ Wake' = Closer(Wake)
  BY <1>3, PassWake, WakeTimes, StoredTypes
<1>8. (Wake' = Never <=> Wake = Never) /\ Wake' \in Nat /\ Wake \in Nat
  BY <1>7, CloserTimes, TimeFacts
<1>9. NextAlarm' = IF Wake' >= 1 THEN Wake' ELSE 1
  BY <1>8, MaxOfTwo DEF NextAlarm
<1>10. alarm <= NextAlarm => alarm' <= NextAlarm'
  <2> SUFFICES ASSUME alarm <= NextAlarm PROVE alarm' <= NextAlarm'
    OBVIOUS
  <2>1. alarm \in Nat /\ alarm' \in Nat /\ NextAlarm = IF Wake >= 1 THEN Wake ELSE 1
    BY <1>1, <1>2, WakeTimes, StoredTypes, TimeFacts
  <2>2. CASE alarm <= Wake
    <3>1. alarm' <= Wake'
      BY <1>1, <1>7, <2>2, CloserTimes
    <3> QED BY <1>8, <1>9, <2>1, <3>1
  <2>3. CASE alarm <= 1
    <3>1. alarm' = 0
      BY <1>1, <2>3, CloserTimes
    <3> QED BY <1>8, <1>9, <3>1
  <2> QED BY <1>8, <2>1, <2>2, <2>3
<1>11. Armed'
  BY <1>1, <1>4, <1>8, <1>10 DEF Armed
<1> QED BY <1>3, <1>5, <1>6, <1>11

LEMMA EvictKeeps == ASSUME WakesInv, Evict PROVE WakesInv'
<1> USE DEF WakesInv, Evict, Idle, wait
<1>1. job' \in Jobs
  BY WakesAssumption DEF Jobs, Stages, Lanes
<1>2. faults' \in 0 .. MaxFaults
  BY WakesAssumption DEF Fault, WakesTypeOK
<1>3. WakesTypeOK'
  BY <1>1, <1>2 DEF WakesTypeOK
<1>4. /\ job'.stage = "idle" /\ job'.failure = "none" /\ ~job'.deferred /\ ~fresh'
      /\ UNCHANGED <<pending, unsent, row, wait, alarm, cursor>>
  OBVIOUS
<1>5. PendingInv' /\ RunInv' /\ DeferredInv' /\ FreshInv' /\ UnsentInv' /\ NothingUnscheduled' /\ IntakeInv'
  BY <1>4 DEF PendingInv, RunInv, DeferredInv, FreshInv, UnsentInv, NothingUnscheduled, IntakeInv
<1>6. Armed'
  BY DEF Armed
<1> QED BY <1>3, <1>5, <1>6

-----------------------------------------------------------------------------
(* The run of the alarm. *)

\* While the run goes on the alarm is set, if only for the safety interval.
LEMMA RunArmed ==
  ASSUME Armed, job.stage # "idle", job'.stage # "idle", alarm' = alarm
  PROVE  Armed'
  BY DEF Armed

LEMMA FireKeeps == ASSUME WakesInv, Fire PROVE WakesInv'
<1> USE DEF WakesInv, work, wait, rest
<1>1. Idle \in Jobs /\ Idle.failure = "none" /\ ~Idle.deferred
  BY WakesAssumption DEF Idle, Jobs, Stages
<1>2. /\ job' \in Jobs /\ job'.stage = "fired" /\ job'.failure = "none" /\ ~job'.deferred
  <2>1. job' = [Idle EXCEPT !.stage = "fired", !.left = Budget]
    BY DEF Fire
  <2>2. Budget \in 0 .. Budget /\ "fired" \in Stages
    BY WakesAssumption DEF Stages
  <2> QED BY <1>1, <2>1, <2>2 DEF Jobs
<1>3. WakesTypeOK'
  BY <1>2, TimeFacts DEF Fire, WakesTypeOK
<1>4. ~fresh
  BY DEF FreshInv, AtWork, Fire
<1>5. PendingInv' /\ RunInv' /\ DeferredInv' /\ FreshInv' /\ UnsentInv' /\ NothingUnscheduled' /\ IntakeInv'
  BY <1>2, <1>4 DEF Fire, PendingInv, RunInv, DeferredInv, FreshInv, UnsentInv, NothingUnscheduled, IntakeInv
<1>6. Armed'
  BY <1>2, TimeFacts DEF Fire, Armed
<1> QED BY <1>3, <1>5, <1>6

LEMMA LookKeeps == ASSUME WakesInv, Look PROVE WakesInv'
<1> USE DEF WakesInv, work, wait, rest
<1> DEFINE executes == ExecutionWake = 0
<1>0. executes \in BOOLEAN /\ Readable(executes) \in SUBSET Rows
  BY DEF Readable
<1>1. job' = [job EXCEPT !.stage = "store", !.executes = executes, !.read = Readable(executes)]
  BY DEF Look
<1>2. ~executes => Readable(executes) \subseteq {"discord"}
  BY DEF Readable
<1> HIDE DEF executes
<1>3. /\ job' \in Jobs /\ job'.stage = "store" /\ job'.failure = job.failure
      /\ job'.deferred = job.deferred /\ (~job'.executes => job'.read \subseteq {"discord"})
  BY <1>0, <1>1, <1>2 DEF WakesTypeOK, Jobs, Stages
<1>4. ~job.deferred /\ ~fresh /\ job.failure = "none" /\ job.stage = "fired"
  BY DEF DeferredInv, FreshInv, AtWork, RunInv, Look
<1>5. WakesTypeOK'
  BY <1>3 DEF Look, WakesTypeOK
<1>6. PendingInv' /\ RunInv' /\ DeferredInv' /\ FreshInv' /\ UnsentInv' /\ NothingUnscheduled'
  BY <1>3, <1>4 DEF Look, PendingInv, RunInv, DeferredInv, FreshInv, UnsentInv, NothingUnscheduled
<1>7. IntakeInv'
  BY <1>3 DEF IntakeInv, Before
<1>8. Armed'
  BY <1>3, <1>4, RunArmed DEF Look
<1> QED BY <1>5, <1>6, <1>7, <1>8

\* A run that executes has the execution lane before it, whichever comes first.
LEMMA ToLanesJob ==
  ASSUME WakesTypeOK
  PROVE  /\ ToLanes \in Jobs /\ ToLanes.stage = "outer" /\ ToLanes.executes = job.executes
         /\ ToLanes.read = job.read /\ ToLanes.failure = job.failure /\ ToLanes.deferred = job.deferred
         /\ job.executes => \E i \in 1 .. Len(ToLanes.todo) : ToLanes.todo[i] = "execution"
         /\ ~job.executes => ToLanes.todo = <<>>
<1> DEFINE todo == IF job.executes THEN After(Outer, cursor.outer) ELSE <<>>
<1>1. Outer \in Seq({"notifications", "execution"}) /\ Len(Outer) = 2 /\ Outer[2] = "execution"
  BY DEF Outer
<1>2. cursor.outer \in 1 .. Len(Outer)
  BY <1>1 DEF WakesTypeOK
<1>3. /\ After(Outer, cursor.outer) \in Seq({"notifications", "execution"})
      /\ \A i \in 1 .. Len(Outer) : \E j \in 1 .. Len(After(Outer, cursor.outer)) :
           After(Outer, cursor.outer)[j] = Outer[i]
  BY <1>1, <1>2, Rotation
<1>4. /\ todo \in Seq({"notifications", "execution"})
      /\ job.executes => \E i \in 1 .. Len(todo) : todo[i] = "execution"
      /\ ~job.executes => todo = <<>>
  BY <1>1, <1>3
<1>5. ToLanes = [job EXCEPT !.stage = "outer", !.todo = todo]
  BY DEF ToLanes
<1> HIDE DEF todo
<1> QED BY <1>4, <1>5 DEF WakesTypeOK, Jobs, Stages

LEMMA StoreWorkKeeps == ASSUME WakesInv, StoreWork PROVE WakesInv'
<1> USE DEF WakesInv, StoreWork, wait, rest
<1>1. ~job.deferred /\ ~fresh /\ job.failure = "none" /\ job.stage = "store"
  BY DEF DeferredInv, FreshInv, AtWork, RunInv
<1>2. WakesTypeOK'
  BY ToLanesJob DEF WakesTypeOK
<1>3. PendingInv' /\ RunInv' /\ DeferredInv' /\ FreshInv' /\ UnsentInv' /\ NothingUnscheduled'
  BY <1>1, ToLanesJob DEF PendingInv, RunInv, DeferredInv, FreshInv, UnsentInv, NothingUnscheduled
<1>4. IntakeInv'
  BY ToLanesJob DEF IntakeInv, Before
<1>5. Armed'
  BY <1>1, ToLanesJob, RunArmed
<1> QED BY <1>2, <1>3, <1>4, <1>5

LEMMA StoreWorkFailsKeeps == ASSUME WakesInv, StoreWorkFails PROVE WakesInv'
<1> USE DEF WakesInv, StoreWorkFails, wait
<1>1. ~job.deferred /\ ~fresh /\ job.failure = "none" /\ job.stage = "store"
  BY DEF DeferredInv, FreshInv, AtWork, RunInv
<1>2. /\ row' \in [Rows -> Times] /\ row'["discord"] # Never
      /\ \A n \in Rows : row[n] # Never => row'[n] # Never
      /\ "intake" \in Rows /\ "execution" \in Rows /\ "discord" \in Rows
  BY TimeFacts DEF WakesTypeOK, Rows
<1>3. /\ job' \in Jobs /\ job'.stage = "outer" /\ job'.executes = job.executes
      /\ job'.failure = job.failure /\ job'.deferred = job.deferred
      /\ job'.read = job.read \ {"discord"} /\ job'.todo = ToLanes.todo
  BY ToLanesJob DEF Jobs
<1>4. faults' \in 0 .. MaxFaults
  BY WakesAssumption DEF Fault, WakesTypeOK
<1>5. WakesTypeOK'
  BY <1>2, <1>3, <1>4 DEF WakesTypeOK
<1>6. PendingInv' /\ RunInv' /\ DeferredInv' /\ FreshInv' /\ UnsentInv' /\ NothingUnscheduled'
  BY <1>1, <1>2, <1>3, ToLanesJob DEF PendingInv, RunInv, DeferredInv, FreshInv, UnsentInv, NothingUnscheduled
<1>7. IntakeInv'
  BY <1>3, ToLanesJob DEF IntakeInv, Before
<1>8. Armed'
  BY <1>1, <1>3, RunArmed
<1> QED BY <1>5, <1>6, <1>7, <1>8

LEMMA RuntimeFailsKeeps == ASSUME WakesInv, RuntimeFails PROVE WakesInv'
<1> USE DEF WakesInv, RuntimeFails, work, wait
<1>6. job.executes /\ job.stage = "outer" /\ <<>> \in Seq({"notifications", "execution"})
  BY DEF RunInv
<1>1. /\ job' \in Jobs /\ job'.stage = "outer" /\ job'.executes /\ job'.failure = "all"
      /\ job'.read = job.read /\ job'.deferred = job.deferred /\ job'.todo = <<>>
  BY <1>6 DEF WakesTypeOK, Jobs
<1>2. faults' \in 0 .. MaxFaults
  BY WakesAssumption DEF Fault, WakesTypeOK
<1>3. WakesTypeOK'
  BY <1>1, <1>2 DEF WakesTypeOK
<1>4. PendingInv' /\ RunInv' /\ DeferredInv' /\ FreshInv' /\ UnsentInv' /\ NothingUnscheduled' /\ IntakeInv'
  BY <1>1, <1>6 DEF PendingInv, RunInv, DeferredInv, FreshInv, UnsentInv, NothingUnscheduled, IntakeInv, AtWork
<1>5. Armed'
  BY <1>1, <1>6, RunArmed
<1> QED BY <1>3, <1>4, <1>5

LEMMA NotifyKeeps == ASSUME WakesInv, Notify PROVE WakesInv'
<1> USE DEF WakesInv, wait, rest
<1>1. PICK left \in 0 .. job.left - 1, more \in BOOLEAN :
        /\ row' = IF more THEN [row EXCEPT !["notifications"] = Min({@, 1})] ELSE row
        /\ job' = [job EXCEPT !.left = left, !.todo = Tail(@),
                              !.read = IF more THEN @ \ {"notifications"} ELSE @]
  BY DEF Notify
<1>2. /\ job.stage = "outer" /\ job.todo # <<>> /\ Head(job.todo) = "notifications"
      /\ UNCHANGED <<pending, fresh, unsent, wait, alarm, unarmed, rest>>
      /\ cursor' = [cursor EXCEPT !.outer = 2]
  BY DEF Notify
<1>3. /\ row' \in [Rows -> Times] /\ \A n \in Rows : row[n] # Never => row'[n] # Never
      /\ "intake" \in Rows /\ "execution" \in Rows /\ "discord" \in Rows
  <2>1. "notifications" \in Rows /\ 1 \in Times /\ 1 # Never /\ row \in [Rows -> Times]
    BY TimeFacts DEF Rows, WakesTypeOK
  <2> QED BY <1>1, <2>1, ScheduledRow DEF Rows
<1>4. /\ Tail(job.todo) \in Seq({"notifications", "execution"})
      /\ (\E i \in 1 .. Len(job.todo) : job.todo[i] = "execution")
           => \E i \in 1 .. Len(Tail(job.todo)) : Tail(job.todo)[i] = "execution"
  <2>1. job.todo \in Seq({"notifications", "execution"}) /\ job.todo # <<>>
    BY <1>2, JobFacts
  <2>2. /\ Tail(job.todo) \in Seq({"notifications", "execution"})
        /\ \A e : e # Head(job.todo) /\ (\E i \in 1 .. Len(job.todo) : job.todo[i] = e)
                 => \E i \in 1 .. Len(Tail(job.todo)) : Tail(job.todo)[i] = e
    BY <2>1, TailFacts
  <2>3. "execution" # Head(job.todo)
    BY <1>2
  <2> QED BY <2>2, <2>3
<1>5. /\ job' \in Jobs /\ job'.stage = "outer" /\ job'.todo = Tail(job.todo)
      /\ job'.executes = job.executes /\ job'.failure = job.failure /\ job'.deferred = job.deferred
      /\ job'.read \subseteq job.read
  <2> DEFINE read == IF more THEN job.read \ {"notifications"} ELSE job.read
  <2>1. read \subseteq job.read /\ job' = [job EXCEPT !.left = left, !.todo = Tail(job.todo), !.read = read]
    BY <1>1
  <2>2. left \in 0 .. Budget
    BY JobFacts, WakesAssumption
  <2> HIDE DEF read
  <2> QED BY <1>2, <1>4, <2>1, <2>2, JobFacts DEF WakesTypeOK, Jobs
<1>6. cursor' \in [outer : {1, 2}, inner : Lanes]
  BY <1>2 DEF WakesTypeOK
<1>7. WakesTypeOK'
  BY <1>2, <1>3, <1>5, <1>6 DEF WakesTypeOK
<1>8. PendingInv' /\ RunInv' /\ DeferredInv' /\ FreshInv' /\ UnsentInv' /\ NothingUnscheduled'
  BY <1>2, <1>3, <1>5 DEF PendingInv, RunInv, DeferredInv, FreshInv, UnsentInv, NothingUnscheduled, AtWork
<1>9. IntakeInv'
  BY <1>2, <1>3, <1>4, <1>5 DEF IntakeInv, Before, Outlives
<1>10. Armed'
  BY <1>2, <1>5, RunArmed
<1> QED BY <1>7, <1>8, <1>9, <1>10

\* A step of the run within its lanes: no row is lost that was there, and none is
\* among those that were read that was not.
LEMMA LanesKeep ==
  ASSUME WakesInv, WakesTypeOK',
         job.stage \in {"outer", "inner", "turn"}, job'.stage \in {"outer", "inner", "turn"},
         \A n \in Rows : row[n] # Never => row'[n] # Never,
         job'.executes = job.executes, job'.read \subseteq job.read,
         job'.deferred => job.deferred \/ (row'["execution"] # Never /\ "execution" \notin job'.read),
         pending'[Intake] = pending[Intake], unsent' = unsent, alarm' = alarm,
         fresh' = FALSE \/ (fresh' = fresh /\ (fresh => AtWork(Intake)')),
         RunInv', IntakeInv',
         pending[Intake] # Never =>
           row'["intake"] # Never \/ row'["execution"] # Never \/ held'[Intake] # Never \/ startup' # Never
  PROVE  WakesInv'
<1> USE DEF WakesInv
<1>1. "intake" \in Rows /\ "execution" \in Rows /\ "discord" \in Rows
  BY DEF Rows
<1>2. PendingInv'
  BY DEF PendingInv
<1>3. DeferredInv' /\ FreshInv' /\ UnsentInv'
  BY <1>1 DEF DeferredInv, FreshInv, UnsentInv
<1>4. Armed'
  BY RunArmed
<1>5. NothingUnscheduled'
  BY <1>1 DEF NothingUnscheduled
<1> QED BY <1>2, <1>3, <1>4, <1>5

LEMMA ExecuteKeeps == ASSUME WakesInv, Execute PROVE WakesInv'
<1> USE DEF WakesInv, work, wait
<1> DEFINE all == [n \in 1 .. LaneCount |-> n - 1]
           lanes == After(all, cursor.inner + 1)
<1>1. PICK left \in {0, job.left - 1} :
        /\ IF left = 0 THEN Fault ELSE UNCHANGED faults
        /\ job' = [job EXCEPT !.stage = "inner", !.left = left, !.lanes = lanes]
  BY DEF Execute
<1>2. /\ job.stage = "outer" /\ job.todo # <<>> /\ job.executes /\ job.failure # "all" /\ job.left > 0
      /\ UNCHANGED <<work, wait, alarm, unarmed, evicted>> /\ cursor' = [cursor EXCEPT !.outer = 1]
  BY DEF Execute, StartsUp, RunInv
<1>3. /\ lanes \in Seq(Lanes)
      /\ \E j \in 1 .. Len(lanes) : lanes[j] = Intake
  <2>1. all \in Seq(Lanes) /\ Len(all) = LaneCount /\ all[1] = Intake /\ 1 \in 1 .. Len(all)
    BY WakesAssumption DEF Lanes, Intake
  <2>2. cursor.inner + 1 \in 1 .. Len(all)
    BY <2>1, WakesAssumption DEF WakesTypeOK, Lanes
  <2> HIDE DEF all
  <2> QED BY <2>1, <2>2, Rotation
<1> HIDE DEF lanes
<1>4. left \in 0 .. Budget
  BY <1>2, JobFacts, WakesAssumption
<1>5. /\ job' \in Jobs /\ job'.stage = "inner" /\ job'.lanes = lanes /\ job'.todo = job.todo
      /\ job'.executes = job.executes /\ job'.failure = job.failure /\ job'.read = job.read
      /\ job'.deferred = job.deferred
  BY <1>1, <1>3, <1>4 DEF WakesTypeOK, Jobs, Stages
<1>6. faults' \in 0 .. MaxFaults /\ cursor' \in [outer : {1, 2}, inner : Lanes]
  BY <1>1, <1>2, WakesAssumption DEF Fault, WakesTypeOK
<1>7. WakesTypeOK'
  BY <1>2, <1>5, <1>6 DEF WakesTypeOK
<1>8. RunInv' /\ IntakeInv'
  BY <1>2, <1>3, <1>5 DEF RunInv, IntakeInv, Before
<1>9. ~fresh
  BY <1>2 DEF FreshInv, AtWork
<1> QED BY <1>2, <1>5, <1>7, <1>8, <1>9, LanesKeep DEF NothingUnscheduled

\* An outer lane that is done or put off: what follows it is still before the run.
LEMMA ExecutionPassed ==
  ASSUME WakesInv, job.stage = "outer", job.todo # <<>>, Head(job.todo) = "execution"
  PROVE  /\ Tail(job.todo) \in Seq({"notifications", "execution"})
         /\ job.executes /\ job.failure # "all" /\ ~fresh
  BY JobFacts, TailFacts DEF WakesInv, RunInv, FreshInv, AtWork

LEMMA ExecuteFailsKeeps == ASSUME WakesInv, ExecuteFails PROVE WakesInv'
<1> USE DEF WakesInv, work
<1>1. /\ job.stage = "outer" /\ job.todo # <<>> /\ Head(job.todo) = "execution" /\ job.left > 0
      /\ UNCHANGED <<work, held, backoff, alarm, unarmed, evicted>>
      /\ cursor' = [cursor EXCEPT !.outer = 1]
      /\ startup' \in Times /\ startup' # Never
      /\ job' = [job EXCEPT !.left = @ - 1, !.failure = "lane", !.todo = Tail(@)]
  BY TimeFacts DEF ExecuteFails, StartsUp
<1>2. job.left - 1 \in 0 .. Budget
  BY <1>1, JobFacts, WakesAssumption
<1>3. /\ job' \in Jobs /\ job'.stage = "outer" /\ job'.todo = Tail(job.todo)
      /\ job'.executes = job.executes /\ job'.failure = "lane" /\ job'.read = job.read
      /\ job'.deferred = job.deferred
  BY <1>1, <1>2, ExecutionPassed DEF WakesTypeOK, Jobs
<1>4. faults' \in 0 .. MaxFaults /\ cursor' \in [outer : {1, 2}, inner : Lanes]
  BY <1>1, WakesAssumption DEF ExecuteFails, Fault, WakesTypeOK
<1>5. WakesTypeOK'
  BY <1>1, <1>3, <1>4 DEF WakesTypeOK
<1>6. RunInv' /\ IntakeInv'
  BY <1>1, <1>3, ExecutionPassed DEF RunInv, IntakeInv, Outlives
<1> QED BY <1>1, <1>3, <1>5, <1>6, ExecutionPassed, LanesKeep DEF NothingUnscheduled

LEMMA ExecuteLaterKeeps == ASSUME WakesInv, ExecuteLater PROVE WakesInv'
<1> USE DEF WakesInv, work, wait, rest
<1>1. /\ job.stage = "outer" /\ job.todo # <<>> /\ Head(job.todo) = "execution"
      /\ UNCHANGED <<work, wait, alarm, cursor, unarmed, rest>>
      /\ startup # Never
      /\ job' = [job EXCEPT !.todo = Tail(@)]
  BY WakesAssumption DEF ExecuteLater, Later, Never
<1>3. /\ job' \in Jobs /\ job'.stage = "outer" /\ job'.todo = Tail(job.todo)
      /\ job'.executes = job.executes /\ job'.failure = job.failure /\ job'.read = job.read
      /\ job'.deferred = job.deferred
  BY <1>1, ExecutionPassed DEF WakesTypeOK, Jobs
<1>5. WakesTypeOK'
  BY <1>1, <1>3 DEF WakesTypeOK
<1>6. RunInv' /\ IntakeInv'
  BY <1>1, <1>3, ExecutionPassed DEF RunInv, IntakeInv, Outlives
<1> QED BY <1>1, <1>3, <1>5, <1>6, ExecutionPassed, LanesKeep DEF NothingUnscheduled

LEMMA ExhaustedKeeps == ASSUME WakesInv, Exhausted PROVE WakesInv'
<1> USE DEF WakesInv, wait, rest
<1> DEFINE next == IF job.stage = "outer" THEN [job EXCEPT !.todo = <<>>] ELSE [job EXCEPT !.lanes = <<>>]
<1>1. /\ (job.stage = "outer" /\ job.todo # <<>>) \/ (job.stage = "inner" /\ job.lanes # <<>>)
      /\ Refused(next)
      /\ UNCHANGED <<pending, fresh, unsent, wait, alarm, cursor, unarmed, rest>>
  <2>1. (job.stage = "outer" /\ job.todo # <<>>) \/ (job.stage = "inner" /\ job.lanes # <<>>)
    BY DEF Exhausted
  <2>2. Refused(next)
    BY DEF Exhausted
  <2>3. UNCHANGED <<pending, fresh, unsent, wait, alarm, cursor, unarmed, rest>>
    BY DEF Exhausted
  <2> QED BY <2>1, <2>2, <2>3
<1>2. job.executes /\ job.failure # "all" /\ ~fresh
  BY <1>1 DEF RunInv, FreshInv, AtWork
<1>3. /\ next \in Jobs /\ next.stage = job.stage /\ next.executes = job.executes /\ next.read = job.read
      /\ next.failure = job.failure
      /\ job.stage = "inner" => next.todo = job.todo
      /\ job.stage = "outer" => next.todo = <<>>
  <2>0. <<>> \in Seq({"notifications", "execution"}) /\ <<>> \in Seq(Lanes) /\ job \in Jobs
    BY DEF WakesTypeOK
  <2>1. CASE job.stage = "outer"
    <3>1. next = [job EXCEPT !.todo = <<>>]
      BY <2>1
    <3> HIDE DEF next
    <3> QED BY <2>0, <2>1, <3>1 DEF Jobs
  <2>2. CASE job.stage = "inner"
    <3>1. next = [job EXCEPT !.lanes = <<>>]
      BY <2>2
    <3> HIDE DEF next
    <3> QED BY <2>0, <2>2, <3>1 DEF Jobs
  <2> QED BY <1>1, <2>1, <2>2
<1> HIDE DEF next
<1>4. /\ row' \in [Rows -> Times]
      /\ row'["execution"] # Never /\ \A n \in Rows \ {"execution"} : row'[n] = row[n]
      /\ job' \in Jobs /\ job'.stage = job.stage /\ job'.executes = job.executes
      /\ job'.failure = job.failure /\ job'.todo = next.todo
      /\ "execution" \notin job'.read /\ job'.read \subseteq job.read
  BY <1>1, <1>3, RefusedWork
<1>5. WakesTypeOK'
  BY <1>1, <1>4 DEF WakesTypeOK
<1>6. RunInv' /\ IntakeInv'
  BY <1>1, <1>2, <1>3, <1>4 DEF RunInv, IntakeInv, Outlives
<1>7. \A n \in Rows : row[n] # Never => row'[n] # Never
  BY <1>4
<1> QED BY <1>1, <1>2, <1>4, <1>5, <1>6, <1>7, LanesKeep DEF NothingUnscheduled

LEMMA TurnLaterKeeps == ASSUME WakesInv, TurnLater PROVE WakesInv'
<1> USE DEF WakesInv, work, wait, rest
<1>1. /\ job.stage = "inner" /\ job.lanes # <<>> /\ held[Head(job.lanes)] # Never
      /\ job' = [job EXCEPT !.lanes = Tail(@)]
      /\ UNCHANGED <<work, wait, alarm, cursor, unarmed, rest>>
  BY WakesAssumption DEF TurnLater, Later, Never
<1>2. job.executes /\ job.failure # "all" /\ ~fresh
  BY <1>1 DEF RunInv, FreshInv, AtWork
<1>3. /\ Tail(job.lanes) \in Seq(Lanes)
      /\ \A e : e # Head(job.lanes) /\ (\E i \in 1 .. Len(job.lanes) : job.lanes[i] = e)
               => \E i \in 1 .. Len(Tail(job.lanes)) : Tail(job.lanes)[i] = e
  <2>1. job.lanes \in Seq(Lanes) /\ job.lanes # <<>>
    BY <1>1, JobFacts
  <2> QED BY <2>1, TailFacts
<1>4. /\ job' \in Jobs /\ job'.stage = "inner" /\ job'.todo = job.todo /\ job'.lanes = Tail(job.lanes)
      /\ job'.executes = job.executes /\ job'.failure = job.failure /\ job'.read = job.read
      /\ job'.deferred = job.deferred
  BY <1>1, <1>3 DEF WakesTypeOK, Jobs
<1>5. WakesTypeOK'
  BY <1>1, <1>4 DEF WakesTypeOK
<1>7. RunInv'
  BY <1>1, <1>2, <1>4 DEF RunInv
<1>8. (\E i \in 1 .. Len(job.lanes) : job.lanes[i] = Intake) =>
        held[Intake] # Never \/ \E i \in 1 .. Len(Tail(job.lanes)) : Tail(job.lanes)[i] = Intake
  <2>1. CASE Head(job.lanes) = Intake
    BY <1>1, <2>1
  <2>2. CASE Head(job.lanes) # Intake
    BY <1>3, <2>2
  <2> QED BY <2>1, <2>2
<1>6. RunInv' /\ IntakeInv'
  BY <1>1, <1>2, <1>4, <1>7, <1>8 DEF IntakeInv, Before, Outlives
<1> QED BY <1>1, <1>2, <1>4, <1>5, <1>6, LanesKeep DEF NothingUnscheduled

LEMMA TurnBeginsKeeps == ASSUME WakesInv, TurnBegins PROVE WakesInv'
<1> USE DEF WakesInv, work, wait, rest
<1>1. /\ job.stage = "inner" /\ job.lanes # <<>> /\ job.left > 0
      /\ job' = [job EXCEPT !.stage = "turn", !.left = @ - 1]
      /\ cursor' = CursorAfter(Head(job.lanes))
      /\ UNCHANGED <<work, wait, alarm, unarmed, rest>>
  BY DEF TurnBegins
<1>2. job.executes /\ job.failure # "all" /\ ~fresh
  BY <1>1 DEF RunInv, FreshInv, AtWork
<1>3. Head(job.lanes) \in Lanes
  BY <1>1, JobFacts, TailFacts
<1>4. cursor' \in [outer : {1, 2}, inner : Lanes]
  <2>1. (Head(job.lanes) + 1) % LaneCount \in Lanes
    BY <1>3, WakesAssumption DEF Lanes
  <2> QED BY <1>1, <2>1 DEF CursorAfter, WakesTypeOK
<1>5. job.left - 1 \in 0 .. Budget
  BY <1>1, JobFacts, WakesAssumption
<1>6. /\ job' \in Jobs /\ job'.stage = "turn" /\ job'.todo = job.todo /\ job'.lanes = job.lanes
      /\ job'.executes = job.executes /\ job'.failure = job.failure /\ job'.read = job.read
      /\ job'.deferred = job.deferred
  BY <1>1, <1>5 DEF WakesTypeOK, Jobs, Stages
<1>7. WakesTypeOK'
  BY <1>1, <1>4, <1>6 DEF WakesTypeOK
<1>8. RunInv' /\ IntakeInv'
  BY <1>1, <1>2, <1>6 DEF RunInv, IntakeInv, Before, Outlives
<1> QED BY <1>1, <1>2, <1>6, <1>7, <1>8, LanesKeep DEF NothingUnscheduled

\* The lane at work is the first of those that are left; only its turn ends here.
LEMMA TurnFacts ==
  ASSUME WakesInv, job.stage = "turn"
  PROVE  /\ Head(job.lanes) \in Lanes /\ Tail(job.lanes) \in Seq(Lanes)
         /\ (\E i \in 1 .. Len(job.lanes) : job.lanes[i] = Intake) =>
              Head(job.lanes) = Intake \/ \E i \in 1 .. Len(Tail(job.lanes)) : Tail(job.lanes)[i] = Intake
         /\ job.executes /\ job.failure # "all" /\ job.todo # <<>>
         /\ fresh => Head(job.lanes) = Intake /\ row["intake"] # Never /\ "intake" \notin job.read
<1> USE DEF WakesInv
<1>1. job.lanes \in Seq(Lanes) /\ job.lanes # <<>>
  BY JobFacts DEF RunInv
<1>2. /\ Head(job.lanes) \in Lanes /\ Tail(job.lanes) \in Seq(Lanes)
      /\ \A e : e # Head(job.lanes) /\ (\E i \in 1 .. Len(job.lanes) : job.lanes[i] = e)
               => \E i \in 1 .. Len(Tail(job.lanes)) : Tail(job.lanes)[i] = e
  BY <1>1, TailFacts
<1>3. (\E i \in 1 .. Len(job.lanes) : job.lanes[i] = Intake) =>
        Head(job.lanes) = Intake \/ \E i \in 1 .. Len(Tail(job.lanes)) : Tail(job.lanes)[i] = Intake
  BY <1>2
<1> QED BY <1>2, <1>3 DEF RunInv, FreshInv, AtWork

LEMMA GoesOnJob ==
  ASSUME WakesInv, job.stage = "turn", NEW left \in 0 .. job.left
  PROVE  /\ GoesOn(left) \in Jobs /\ GoesOn(left).stage = "inner"
         /\ GoesOn(left).lanes = Tail(job.lanes)
         /\ GoesOn(left).todo = job.todo /\ GoesOn(left).executes = job.executes
         /\ GoesOn(left).failure = job.failure /\ GoesOn(left).read = job.read
         /\ GoesOn(left).deferred = job.deferred
<1>1. job \in Jobs /\ left \in 0 .. Budget /\ Tail(job.lanes) \in Seq(Lanes)
  BY TurnFacts, JobFacts, WakesAssumption DEF WakesInv, WakesTypeOK
<1> QED BY <1>1 DEF GoesOn, Jobs, Stages

LEMMA TurnCompletesKeeps == ASSUME WakesInv, TurnCompletes PROVE WakesInv'
<1> USE DEF WakesInv, rest
<1> DEFINE l == Head(job.lanes)
<1>1. /\ job.stage = "turn"
      /\ pending' = IF fresh \/ pending[l] # 0 THEN pending ELSE [pending EXCEPT ![l] = Never]
      /\ held' = [held EXCEPT ![l] = Never]
      /\ fresh' = FALSE
      /\ UNCHANGED <<unsent, row, startup, backoff, alarm, cursor, unarmed, rest>>
  BY DEF TurnCompletes
<1>2. PICK left \in 0 .. job.left : job' = GoesOn(left)
  BY DEF TurnCompletes
<1>3. /\ job' \in Jobs /\ job'.stage = "inner" /\ job'.lanes = Tail(job.lanes)
      /\ job'.todo = job.todo /\ job'.executes = job.executes
      /\ job'.failure = job.failure /\ job'.read = job.read /\ job'.deferred = job.deferred
  BY <1>1, <1>2, GoesOnJob
<1>4. l \in Lanes /\ Never \in Times /\ Intake \in Lanes
  BY <1>1, TurnFacts, TimeFacts
<1>5. /\ pending' \in [Lanes -> Times] /\ held' \in [Lanes -> Times]
      /\ l # Intake => pending'[Intake] = pending[Intake] /\ held'[Intake] = held[Intake]
      /\ pending'[Intake] = pending[Intake] \/ pending'[Intake] = Never
      /\ l = Intake /\ pending'[Intake] # Never => fresh
  BY <1>1, <1>4 DEF WakesTypeOK, PendingInv
<1>6. WakesTypeOK'
  BY <1>1, <1>3, <1>5 DEF WakesTypeOK
<1>7. PendingInv' /\ RunInv' /\ DeferredInv' /\ FreshInv' /\ UnsentInv'
  BY <1>1, <1>3, <1>5, TurnFacts DEF PendingInv, RunInv, DeferredInv, FreshInv, UnsentInv
<1>8. IntakeInv'
  <2> SUFFICES ASSUME pending'[Intake] # Never PROVE Before' \/ Outlives'
    BY DEF IntakeInv
  <2>1. CASE l = Intake
    BY <1>1, <1>3, <1>5, <2>1, TurnFacts DEF Outlives
  <2>2. CASE l # Intake
    BY <1>1, <1>3, <1>5, <2>2, TurnFacts DEF IntakeInv, Before, Outlives
  <2> QED BY <2>1, <2>2
<1>9. NothingUnscheduled'
  BY <1>1, <1>5, TurnFacts DEF NothingUnscheduled
<1>10. Armed'
  BY <1>1, <1>3, RunArmed
<1> QED BY <1>6, <1>7, <1>8, <1>9, <1>10

LEMMA TurnFailsKeeps == ASSUME WakesInv, TurnFails PROVE WakesInv'
<1> USE DEF WakesInv, rest
<1> DEFINE l == Head(job.lanes)
<1>1. PICK time \in Delays : held' = [held EXCEPT ![l] = time]
  BY DEF TurnFails
<1>2. /\ job.stage = "turn" /\ fresh' = FALSE
      /\ job' = [GoesOn(job.left) EXCEPT !.failure = "lane"]
      /\ UNCHANGED <<pending, unsent, row, startup, backoff, alarm, cursor, unarmed, rest>>
  BY DEF TurnFails
<1>3. /\ job' \in Jobs /\ job'.stage = "inner" /\ job'.lanes = Tail(job.lanes)
      /\ job'.todo = job.todo /\ job'.executes = job.executes
      /\ job'.failure = "lane" /\ job'.read = job.read /\ job'.deferred = job.deferred
  <2>1. job.left \in 0 .. job.left
    BY JobFacts
  <2> QED BY <1>2, <2>1, GoesOnJob DEF Jobs
<1>4. l \in Lanes /\ time \in Times /\ time # Never /\ Intake \in Lanes
  BY <1>2, TurnFacts, TimeFacts
<1>5. /\ held' \in [Lanes -> Times]
      /\ l = Intake => held'[Intake] # Never
      /\ held[Intake] # Never => held'[Intake] # Never
  BY <1>1, <1>4 DEF WakesTypeOK
<1>6. WakesTypeOK'
  BY <1>2, <1>3, <1>5 DEF WakesTypeOK
<1>7. RunInv'
  BY <1>2, <1>3, TurnFacts DEF RunInv
<1>8. IntakeInv'
  BY <1>2, <1>3, <1>5, TurnFacts DEF IntakeInv, Before, Outlives
<1> QED BY <1>2, <1>3, <1>5, <1>6, <1>7, <1>8, LanesKeep DEF NothingUnscheduled

LEMMA TurnDefersKeeps == ASSUME WakesInv, TurnDefers PROVE WakesInv'
<1> USE DEF WakesInv, wait, rest
<1>1. /\ job.stage = "turn" /\ fresh' = FALSE /\ Refused(GoesOn(0))
      /\ UNCHANGED <<pending, unsent, wait, alarm, cursor, unarmed, rest>>
  BY DEF TurnDefers
<1>2. /\ GoesOn(0) \in Jobs /\ GoesOn(0).stage = "inner" /\ GoesOn(0).read = job.read
      /\ GoesOn(0).todo = job.todo /\ GoesOn(0).executes = job.executes
      /\ GoesOn(0).failure = job.failure
  <2>1. 0 \in 0 .. job.left
    BY JobFacts
  <2> QED BY <1>1, <2>1, GoesOnJob
<1>3. /\ row' \in [Rows -> Times]
      /\ row'["execution"] # Never /\ \A n \in Rows \ {"execution"} : row'[n] = row[n]
      /\ job' \in Jobs /\ job'.stage = "inner" /\ job'.executes = job.executes
      /\ job'.failure = job.failure /\ job'.todo = job.todo
      /\ "execution" \notin job'.read /\ job'.read \subseteq job.read
  BY <1>1, <1>2, RefusedWork
<1>4. WakesTypeOK'
  BY <1>1, <1>3 DEF WakesTypeOK
<1>5. RunInv' /\ IntakeInv'
  BY <1>1, <1>3, TurnFacts DEF RunInv, IntakeInv, Outlives
<1>6. \A n \in Rows : row[n] # Never => row'[n] # Never
  BY <1>3
<1> QED BY <1>1, <1>3, <1>4, <1>5, <1>6, LanesKeep DEF NothingUnscheduled

LEMMA ExecutedKeeps == ASSUME WakesInv, Executed PROVE WakesInv'
<1> USE DEF WakesInv, work, rest
<1>1. /\ job.stage = "inner" /\ job.lanes = <<>>
      /\ startup' = IF job.failure = "none" /\ job.deferred THEN startup ELSE Never
      /\ job' = [job EXCEPT !.stage = "outer", !.todo = Tail(@)]
      /\ UNCHANGED <<work, held, backoff, alarm, cursor, unarmed, rest>>
  BY DEF Executed
<1>2. job.executes /\ job.failure # "all" /\ ~fresh /\ job.todo # <<>>
  BY <1>1 DEF RunInv, FreshInv, AtWork
<1>3. Tail(job.todo) \in Seq({"notifications", "execution"})
  BY <1>2, JobFacts, TailFacts
<1>4. /\ job' \in Jobs /\ job'.stage = "outer" /\ job'.todo = Tail(job.todo)
      /\ job'.executes = job.executes /\ job'.failure = job.failure /\ job'.read = job.read
      /\ job'.deferred = job.deferred
  BY <1>1, <1>3 DEF WakesTypeOK, Jobs, Stages
<1>5. startup' \in Times
  BY <1>1, TimeFacts DEF WakesTypeOK
<1>6. WakesTypeOK'
  BY <1>1, <1>4, <1>5 DEF WakesTypeOK
<1>7. pending[Intake] # Never =>
        \/ row["intake"] # Never /\ "intake" \notin job.read
        \/ row["execution"] # Never /\ "execution" \notin job.read
        \/ held[Intake] # Never
  <2>1. ~ \E i \in 1 .. Len(job.lanes) : job.lanes[i] = Intake
    BY <1>1
  <2> QED BY <1>1, <1>2, <2>1 DEF IntakeInv, Before, Outlives
<1>8. RunInv' /\ IntakeInv'
  BY <1>1, <1>2, <1>4, <1>7 DEF RunInv, IntakeInv, Outlives
<1> QED BY <1>1, <1>2, <1>4, <1>6, <1>7, <1>8, LanesKeep

\* A run that is over: rows it has read go, if it completed, and nothing else.
LEMMA FinishKeeps == ASSUME WakesInv, Finish PROVE WakesInv'
<1> USE DEF WakesInv
<1>1. /\ job.stage = "outer" /\ job.todo = <<>>
      /\ UNCHANGED <<pending, fresh, unsent, held, startup, cursor, faults>>
      /\ alarm' = IF Wake' = Never THEN Never ELSE NextAlarm'
      /\ job' = Idle /\ unarmed' = FALSE /\ evicted' = {}
      /\ row' = IF Outcome \in {"completed", "store-only"}
                THEN [n \in Rows |-> IF n \in job.read THEN Never ELSE row[n]]
                ELSE row
  BY DEF Finish
<1>2. backoff' \in Times
  <2>1. Outcome \in {"store-only", "failed", "deferred", "completed"}
    BY DEF Outcome
  <2>2. CASE Outcome = "store-only"
    BY <2>2 DEF Finish, WakesTypeOK
  <2>3. CASE Outcome = "completed"
    BY <2>3, TimeFacts DEF Finish
  <2>4. CASE Outcome = "deferred"
    BY <2>4, TimeFacts DEF Finish
  <2>5. CASE Outcome = "failed"
    BY <2>5, TimeFacts DEF Finish
  <2> QED BY <2>1, <2>2, <2>3, <2>4, <2>5
<1>3. row' \in [Rows -> Times]
  BY <1>1, TimeFacts DEF WakesTypeOK
<1>4. /\ job' \in Jobs /\ job'.stage = "idle" /\ job'.failure = "none" /\ ~job'.deferred
  BY <1>1, WakesAssumption DEF Idle, Jobs, Stages
<1>5. row'["discord"] \in Nat /\ startup' \in Times
  BY <1>1, <1>3, TimeFacts DEF Rows, WakesTypeOK
\* The alarm is one of the times, whatever is stored.
<1>6. NextAlarm' \in Times
  <2>1. StoredTypeOK'
    BY <1>1, <1>2, <1>3 DEF StoredTypeOK, WakesTypeOK
  <2>2. StoredTypeOK' => (NextAlarm \in Times)'
    BY NextAlarmTyped, PTL
  <2> QED BY <2>1, <2>2
<1>7. WakesTypeOK'
  BY <1>1, <1>2, <1>3, <1>4, <1>6, TimeFacts DEF WakesTypeOK
<1>8. Armed'
  <2>1. NextAlarm' <= NextAlarm'
    BY <1>6, TimeFacts
  <2> QED BY <1>1, <1>4, <2>1 DEF Armed
<1>9. ~fresh /\ "intake" \in Rows /\ "execution" \in Rows /\ "discord" \in Rows
  BY <1>1 DEF FreshInv, AtWork, Rows
<1>10. PendingInv' /\ RunInv' /\ DeferredInv' /\ FreshInv' /\ UnsentInv' /\ IntakeInv'
  BY <1>1, <1>4, <1>9 DEF PendingInv, RunInv, DeferredInv, FreshInv, UnsentInv, IntakeInv
<1>11. NothingUnscheduled'
  <2>1. CASE row' = row
    BY <1>1, <2>1 DEF NothingUnscheduled
  <2>2. CASE Outcome \in {"completed", "store-only"}
    <3>1. \A n \in Rows \ job.read : row'[n] = row[n]
      BY <1>1, <2>2
    <3>2. unsent => row'["discord"] # Never
      BY <1>1, <1>9, <3>1 DEF NothingUnscheduled, UnsentInv
    <3>3. CASE ~job.executes
      <4>1. "intake" \notin job.read /\ "execution" \notin job.read
        BY <1>1, <3>3 DEF RunInv
      <4> QED BY <1>1, <1>9, <3>1, <3>2, <4>1 DEF NothingUnscheduled
    <3>4. CASE job.executes
      <4>1. job.failure # "all"
        BY <2>2, <3>4 DEF Outcome
      <4>2. ~Before
        BY <1>1 DEF Before
      <4> QED BY <1>1, <1>9, <3>1, <3>2, <3>4, <4>1, <4>2 DEF NothingUnscheduled, IntakeInv, Outlives
    <3> QED BY <3>3, <3>4
  <2> QED BY <1>1, <2>1, <2>2
<1> QED BY <1>7, <1>8, <1>10, <1>11

-----------------------------------------------------------------------------
(* Theorems. *)

LEMMA NextKeeps == WakesInv /\ [WakesNext]_vars => WakesInv'
<1> SUFFICES ASSUME WakesInv, [WakesNext]_vars PROVE WakesInv'
  OBVIOUS
<1>1. CASE RunStep
  BY <1>1, FireKeeps, LookKeeps, StoreWorkKeeps, StoreWorkFailsKeeps, RuntimeFailsKeeps,
     NotifyKeeps, ExecuteKeeps, ExecuteFailsKeeps, ExecuteLaterKeeps, ExhaustedKeeps,
     TurnLaterKeeps, TurnBeginsKeeps, TurnCompletesKeeps, TurnFailsKeeps, TurnDefersKeeps,
     ExecutedKeeps, FinishKeeps
  DEF RunStep
<1>2. CASE Hint \/ Register \/ Report \/ Arm \/ Pass \/ Evict
  BY <1>2, HintKeeps, RegisterKeeps, ReportKeeps, ArmKeeps, PassKeeps, EvictKeeps
<1>3. CASE \E l \in Lanes \ {Intake}, time \in Dues : Request(l, time)
  BY <1>3, RequestKeeps
<1>4. CASE UNCHANGED vars
  <2> USE <1>4 DEF vars, work, wait, rest, WakesInv
  <2>1. WakesTypeOK' /\ PendingInv' /\ RunInv' /\ DeferredInv' /\ FreshInv' /\ UnsentInv'
        /\ NothingUnscheduled'
    BY DEF WakesTypeOK, PendingInv, RunInv, DeferredInv, FreshInv, UnsentInv, NothingUnscheduled, AtWork
  <2>2. IntakeInv'
    BY DEF IntakeInv, Before, Outlives
  <2>3. Wake' = Wake /\ NextAlarm' = NextAlarm
    BY DEF NextAlarm, Wake, ExecutionWake, Deadlines, Delayed, LaneFloor, Floor
  <2>4. Armed'
    BY <2>3 DEF Armed
  <2> QED BY <2>1, <2>2, <2>4
<1> QED BY <1>1, <1>2, <1>3, <1>4 DEF WakesNext

\* The inductive invariant holds in every state.
THEOREM WakesInvariant == WakesSpec => []WakesInv
  BY InitInv, NextKeeps, PTL DEF WakesSpec

\* Deadlines, cursors and the run keep their types: the cursors stay on a lane there
\* is, and the budget is never overdrawn.
THEOREM WakesTypeCorrect == WakesSpec => []WakesTypeOK
<1>1. WakesInv => WakesTypeOK
  BY DEF WakesInv
<1> QED BY <1>1, WakesInvariant, PTL

\* scheduling.ts and entry.ts: the alarm is set, and in time, while anything waits.
THEOREM WakesArmed == WakesSpec => []Armed
<1>1. WakesInv => Armed
  BY DEF WakesInv
<1> QED BY <1>1, WakesInvariant, PTL

\* work-budget.ts: no run takes work for done that it has not finished, whatever
\* requests, refusals and failures come in between.
THEOREM WakesNothingUnscheduled == WakesSpec => []NothingUnscheduled
<1>1. WakesInv => NothingUnscheduled
  BY DEF WakesInv
<1> QED BY <1>1, WakesInvariant, PTL

=============================================================================
