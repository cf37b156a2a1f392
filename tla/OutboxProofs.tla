---------------------------- MODULE OutboxProofs ----------------------------
(***************************************************************************)
(* Proofs about Outbox, for any number of bubbles, tapbacks and observers. *)
(***************************************************************************)
EXTENDS Outbox, GatewayProofs

\* The permit: one call runs, and the holder's variables are its own.
PermitInv ==
  /\ \A f \in Calls : call[f] = "running" => lock = f
  /\ \A f \in Calls : lock = f => call[f] \in {"running", "stale"}
  /\ stage = "none" <=> lock = Free
  /\ stage # "none" => cur \in {lock, Introduction}

\* Where the holder is, and what has become of the send it works on.
HolderInv ==
  /\ stage \in {"scan", "earlier", "composing"} => state[cur] = "none"
  /\ stage \in {"submitting", "polling"} => cur \in Attempts /\ inFlight = {cur}
  /\ stage \notin {"submitting", "polling"} => inFlight = {}
  /\ stage = "polling" => state[cur] # "recorded"
  /\ stage = "reacting" => cur \in Tapbacks
  /\ stage \in {"submitting", "polling", "reacting"} =>
       Attempted(cur) /\ rowID[cur] = lastID /\ cur \notin gaveUp

\* While the holder composes, everything before is resolved; afterwards only its
\* own row may be open.
AloneInv ==
  /\ stage = "composing" => Unresolved = {}
  /\ stage \in {"submitting", "polling", "reacting"} => Unresolved \subseteq {cur}

\* The check of each settler: whose row it is about, and what its answer means.
CheckTrue(x) ==
  LET s == chk[x].row
  IN chk[x].step # "idle" =>
       /\ Attempted(s)
       /\ chk[x].mode = "recent" <=> s \in Tapbacks
       /\ chk[x].step = "answered" /\ s \in Attempts =>
            /\ Landed(chk[x].verdict) => Landed(message[s])
            /\ chk[x].verdict = "failed" => Status(s) = "failed"

CheckInv ==
  /\ stage \notin {"earlier", "polling"} => chk[Holder].step = "idle"
  /\ stage = "polling" /\ chk[Holder].step # "idle" =>
       chk[Holder].row = cur /\ chk[Holder].mode = "status"
  /\ \A x \in Settlers : CheckTrue(x)

\* The ledger: rows have distinct ascending ids, requests and fences only exist
\* for attempted rows, and the outcome of a row is the gateway's verdict.
RowInv ==
  /\ \A s \in Sends : rowID[s] <= lastID /\ (rowID[s] = 0 <=> state[s] = "none")
  /\ \A s, t \in Sends : rowID[s] = rowID[t] /\ rowID[s] > 0 => s = t
  /\ \A s \in notify \cup gaveUp : Attempted(s)
  /\ \A s \in gaveUp : Live(s) => s \notin inFlight

LinkInv ==
  \A a \in Attempts :
    /\ a \in requests <=> Attempted(a)
    /\ message[a] # "absent" \/ a \in fenced => a \in requests
    /\ Landed(state[a]) => Landed(message[a])
    /\ state[a] = "failed" => Status(a) = "failed"

OutboxInv ==
  /\ OutboxTypeOK
  /\ GatewayInv
  /\ PermitInv
  /\ HolderInv
  /\ AloneInv
  /\ CheckInv
  /\ RowInv
  /\ LinkInv
  /\ EarlierToldFirst
  /\ LateOutcomeReported

-----------------------------------------------------------------------------
(* The invariant is inductive: one lemma per action. *)

\* Where the gateway does nothing, its invariant is not disturbed.
LEMMA GatewayStutter == GatewayInv /\ UNCHANGED gatewayVars => GatewayInv' /\ GatewayTypeOK'
  BY DEF gatewayVars, GatewayInv, GatewayTypeOK, Untouched, Counted, Known

\* Settling keeps the ledger well typed.
LEMMA SettleType ==
  ASSUME OutboxTypeOK, NEW x \in Settlers
  PROVE  /\ StateAfter(chk[x]) \in [Sends -> RowStates]
         /\ LateAfter(chk[x]) \subseteq Sends
         /\ NotifyAfter(chk[x]) \subseteq Sends
  BY DEF OutboxTypeOK, Check, StateAfter, LateAfter, NotifyAfter, Settles, CountsLate,
         Verdicts, RowStates

\* A settler that waits for nothing holds a well typed check.
LEMMA NoCheckType == NoCheck \in Check /\ Holder \in Settlers
  BY OutboxAssumption DEF NoCheck, Check, Sends, Modes, Verdicts, Settlers

\* An observer that asks about a row disturbs only its own check.
LEMMA ObserveInv ==
  ASSUME OutboxInv, NEW o \in Observers, Observe(o)
  PROVE  OutboxInv'
<1>1. OutboxTypeOK' /\ GatewayInv'
  BY GatewayStutter, OutboxAssumption DEF OutboxInv, Observe, OutboxTypeOK, Ask,
     ModeOf, rowVars, holderVars, Settlers, Check, Verdicts, Modes
<1>2. CheckInv'
  BY OutboxAssumption DEF OutboxInv, Observe, CheckInv, Live, Ask, ModeOf,
     gatewayVars, rowVars, holderVars, CheckTrue, Attempted, Status, OutboxTypeOK
<1>3. /\ PermitInv' /\ HolderInv' /\ AloneInv' /\ RowInv' /\ LinkInv'
      /\ EarlierToldFirst' /\ LateOutcomeReported'
  BY OutboxAssumption DEF OutboxInv, Observe, PermitInv, HolderInv, AloneInv,
     RowInv, LinkInv, EarlierToldFirst, LateOutcomeReported, Live, gatewayVars,
     rowVars, holderVars, Unresolved, Attempted, Status, Terminal
<1>4. QED
  BY <1>1, <1>2, <1>3 DEF OutboxInv

\* A message of ours in the history has a row, because only attempted bubbles are
\* requested.
LEMMA ReconcileInv ==
  ASSUME OutboxInv, NEW o \in Observers, Reconcile(o)
  PROVE  OutboxInv'
<1>1. OutboxTypeOK' /\ GatewayInv'
  BY GatewayStutter, OutboxAssumption DEF OutboxInv, Reconcile, OutboxTypeOK, Ask,
     rowVars, holderVars, Sends, Settlers, Check, Verdicts, Modes
<1>2. CheckInv'
  BY OutboxAssumption DEF OutboxInv, Reconcile, CheckInv, Ask, gatewayVars, rowVars,
     holderVars, CheckTrue, Attempted, Status, LinkInv
<1>3. /\ PermitInv' /\ HolderInv' /\ AloneInv' /\ RowInv' /\ LinkInv'
      /\ EarlierToldFirst' /\ LateOutcomeReported'
  BY OutboxAssumption DEF OutboxInv, Reconcile, PermitInv, HolderInv, AloneInv,
     RowInv, LinkInv, EarlierToldFirst, LateOutcomeReported, gatewayVars, rowVars,
     holderVars, Unresolved, Attempted, Live, Status, Terminal
<1>4. QED
  BY <1>1, <1>2, <1>3 DEF OutboxInv

\* An observer settles a row with the verdict it was given, however old: the
\* verdict is final, so it still is the truth.
LEMMA ObserverSettlesInv ==
  ASSUME OutboxInv, NEW o \in Observers, ObserverSettles(o)
  PROVE  OutboxInv'
<1>1. OutboxTypeOK' /\ GatewayInv'
  BY GatewayStutter, OutboxAssumption, SettleType DEF OutboxInv, ObserverSettles,
     OutboxTypeOK, NoCheck, holderVars, Sends, Settlers, Check, Verdicts, Modes
<1>2. HolderInv'
  BY OutboxAssumption DEF OutboxInv, ObserverSettles, HolderInv, StateAfter,
     holderVars, Attempted, Settles, Live, OutboxTypeOK, Check, Settlers, Verdicts
<1>3. AloneInv'
  BY DEF OutboxInv, ObserverSettles, AloneInv, StateAfter, NotifyAfter, holderVars,
     Unresolved, Settles, Live
<1>4. CheckInv'
  BY OutboxAssumption DEF OutboxInv, ObserverSettles, CheckInv, StateAfter, NoCheck,
     gatewayVars, holderVars, Settlers, CheckTrue, Attempted, Status, OutboxTypeOK,
     Check, Verdicts
<1>5. RowInv'
  BY OutboxAssumption DEF OutboxInv, ObserverSettles, RowInv, StateAfter,
     NotifyAfter, Attempted, Live, Settles, OutboxTypeOK, Check, Settlers, Verdicts
<1>6. LinkInv'
  BY OutboxAssumption DEF OutboxInv, ObserverSettles, LinkInv, StateAfter,
     gatewayVars, Attempted, Status, OutboxTypeOK, Check, Settlers, CheckInv,
     Verdicts, CheckTrue
<1>7. EarlierToldFirst'
  BY DEF OutboxInv, ObserverSettles, EarlierToldFirst, StateAfter, NotifyAfter,
     Unresolved, Attempted, Settles, Live
<1>8. LateOutcomeReported'
  BY DEF OutboxInv, ObserverSettles, LateOutcomeReported, StateAfter, LateAfter,
     Terminal, CountsLate, HolderInv
<1>9. PermitInv'
  BY DEF OutboxInv, ObserverSettles, PermitInv, holderVars
<1>10. QED
  BY <1>1, <1>2, <1>3, <1>4, <1>5, <1>6, <1>7, <1>8, <1>9 DEF OutboxInv

\* A failed check leaves nothing behind.
LEMMA ObserverFailsInv ==
  ASSUME OutboxInv, NEW o \in Observers, ObserverFails(o)
  PROVE  OutboxInv'
<1>1. OutboxTypeOK' /\ GatewayInv'
  BY GatewayStutter, OutboxAssumption DEF OutboxInv, ObserverFails, OutboxTypeOK,
     NoCheck, rowVars, holderVars, Sends, Settlers, Check, Verdicts, Modes
<1>2. CheckInv'
  BY DEF OutboxInv, ObserverFails, CheckInv, NoCheck, gatewayVars, rowVars,
     holderVars, CheckTrue, Attempted, Status
<1>3. /\ PermitInv' /\ HolderInv' /\ AloneInv' /\ RowInv' /\ LinkInv'
      /\ EarlierToldFirst' /\ LateOutcomeReported'
  BY OutboxAssumption DEF OutboxInv, ObserverFails, PermitInv, HolderInv, AloneInv,
     RowInv, LinkInv, EarlierToldFirst, LateOutcomeReported, gatewayVars, rowVars,
     holderVars, Unresolved, Attempted, Live, Status, Terminal
<1>4. QED
  BY <1>1, <1>2, <1>3 DEF OutboxInv

\* A waiting call holds nothing.
LEMMA InvokeInv ==
  ASSUME OutboxInv, NEW f \in Calls, Invoke(f)
  PROVE  OutboxInv'
<1>1. OutboxTypeOK' /\ GatewayInv'
  BY GatewayStutter DEF OutboxInv, Invoke, OutboxTypeOK, rowVars, holderVars,
     CallStates, Deliver, Results
<1>2. PermitInv'
  BY DEF OutboxInv, Invoke, PermitInv, holderVars, Deliver
<1>3. /\ HolderInv' /\ AloneInv' /\ CheckInv' /\ RowInv' /\ LinkInv'
      /\ EarlierToldFirst' /\ LateOutcomeReported'
  BY OutboxAssumption DEF OutboxInv, Invoke, HolderInv, AloneInv, CheckInv, RowInv,
     LinkInv, EarlierToldFirst, LateOutcomeReported, gatewayVars, rowVars,
     holderVars, Unresolved, Attempted, CheckTrue, Live, Status, Terminal, Deliver
<1>4. QED
  BY <1>1, <1>2, <1>3 DEF OutboxInv

\* Nor does a repeated one.
LEMMA RepeatInv ==
  ASSUME OutboxInv, NEW f \in Calls, Repeat(f)
  PROVE  OutboxInv'
<1>1. OutboxTypeOK' /\ GatewayInv'
  BY GatewayStutter DEF OutboxInv, Repeat, OutboxTypeOK, rowVars, holderVars,
     CallStates, Deliver, Results
<1>2. PermitInv'
  BY DEF OutboxInv, Repeat, PermitInv, holderVars, Results, Deliver
<1>3. /\ HolderInv' /\ AloneInv' /\ CheckInv' /\ RowInv' /\ LinkInv'
      /\ EarlierToldFirst' /\ LateOutcomeReported'
  BY OutboxAssumption DEF OutboxInv, Repeat, HolderInv, AloneInv, CheckInv, RowInv,
     LinkInv, EarlierToldFirst, LateOutcomeReported, gatewayVars, rowVars,
     holderVars, Unresolved, Attempted, CheckTrue, Live, Status, Terminal, Deliver
<1>4. QED
  BY <1>1, <1>2, <1>3 DEF OutboxInv

\* The permit is free, so its holder is the only running call.
LEMMA AcquireInv ==
  ASSUME OutboxInv, NEW f \in Calls, Acquire(f)
  PROVE  OutboxInv'
<1>1. OutboxTypeOK' /\ GatewayInv'
  BY GatewayStutter, OutboxAssumption DEF OutboxInv, Acquire, First, OutboxTypeOK,
     rowVars, Sends, Calls, Stages, CallStates
<1>2. PermitInv'
  BY OutboxAssumption DEF OutboxInv, Acquire, First, PermitInv, Calls, Sends,
     OutboxTypeOK
<1>3. HolderInv'
  BY DEF OutboxInv, Acquire, HolderInv, PermitInv
<1>4. AloneInv'
  BY DEF OutboxInv, Acquire, AloneInv
<1>5. CheckInv'
  BY DEF OutboxInv, Acquire, CheckInv, gatewayVars, rowVars, CheckTrue, Attempted,
     Status, PermitInv
<1>6. RowInv' /\ LinkInv' /\ EarlierToldFirst' /\ LateOutcomeReported'
  BY DEF OutboxInv, Acquire, RowInv, LinkInv, EarlierToldFirst, LateOutcomeReported,
     gatewayVars, rowVars, Unresolved, Attempted, Live, Status, Terminal
<1>7. QED
  BY <1>1, <1>2, <1>3, <1>4, <1>5, <1>6 DEF OutboxInv

\* A refused call leaves the ledger alone.
LEMMA RefusedInv ==
  ASSUME OutboxInv, Refused
  PROVE  OutboxInv'
<1>1. OutboxTypeOK' /\ GatewayInv'
  BY GatewayStutter, OutboxAssumption DEF OutboxInv, Refused, OutboxTypeOK, Return,
     rowVars, Sends, Settlers, Release, NoCheck, Check, PermitInv, Verdicts, Stages,
     CallStates, Results, Modes, Active
<1>2. PermitInv'
  BY OutboxAssumption DEF OutboxInv, Refused, PermitInv, Return, Calls, Release,
     Sends, OutboxTypeOK, Active
<1>3. HolderInv'
  BY DEF OutboxInv, Refused, HolderInv, Return, Release, Active
<1>4. AloneInv'
  BY DEF OutboxInv, Refused, AloneInv, Return, Release, Active
<1>5. CheckInv'
  BY OutboxAssumption DEF OutboxInv, Refused, CheckInv, Return, gatewayVars,
     rowVars, CheckTrue, NoCheck, Attempted, Status, Active
<1>6. RowInv' /\ LinkInv' /\ EarlierToldFirst' /\ LateOutcomeReported'
  BY OutboxAssumption DEF OutboxInv, Refused, RowInv, LinkInv, EarlierToldFirst,
     LateOutcomeReported, gatewayVars, rowVars, Unresolved, Attempted, Live, Status,
     Terminal, Active
<1>7. QED
  BY <1>1, <1>2, <1>3, <1>4, <1>5, <1>6 DEF OutboxInv

\* A call goes on only for a send without a row.
LEMMA BeforeInv ==
  ASSUME OutboxInv, Before
  PROVE  OutboxInv'
<1>1. OutboxTypeOK' /\ GatewayInv'
  BY GatewayStutter DEF OutboxInv, Before, OutboxTypeOK, rowVars, Stages, Active,
     CallStates
<1>2. PermitInv'
  BY DEF OutboxInv, Before, PermitInv, Active
<1>3. HolderInv'
  BY DEF OutboxInv, Before, HolderInv, rowVars, Active
<1>4. AloneInv'
  BY DEF OutboxInv, Before, AloneInv, Active
<1>5. CheckInv'
  BY DEF OutboxInv, Before, CheckInv, gatewayVars, rowVars, CheckTrue, Attempted,
     Status, Active
<1>6. RowInv' /\ LinkInv' /\ EarlierToldFirst' /\ LateOutcomeReported'
  BY DEF OutboxInv, Before, RowInv, LinkInv, EarlierToldFirst, LateOutcomeReported,
     gatewayVars, rowVars, Unresolved, Attempted, Live, Status, Terminal, Active
<1>7. QED
  BY <1>1, <1>2, <1>3, <1>4, <1>5, <1>6 DEF OutboxInv

\* Composing starts when nothing is unresolved.
LEMMA ClearInv ==
  ASSUME OutboxInv, Clear
  PROVE  OutboxInv'
<1>1. OutboxTypeOK' /\ GatewayInv'
  BY GatewayStutter DEF OutboxInv, Clear, OutboxTypeOK, rowVars, Stages
<1>2. PermitInv'
  BY DEF OutboxInv, Clear, PermitInv
<1>3. HolderInv'
  BY DEF OutboxInv, Clear, HolderInv, rowVars
<1>4. AloneInv'
  BY DEF OutboxInv, Clear, Unblocked, AloneInv, rowVars, Unresolved, Live
<1>5. CheckInv'
  BY DEF OutboxInv, Clear, CheckInv, gatewayVars, rowVars, CheckTrue, Attempted,
     Status
<1>6. RowInv' /\ LinkInv' /\ EarlierToldFirst' /\ LateOutcomeReported'
  BY DEF OutboxInv, Clear, RowInv, LinkInv, EarlierToldFirst, LateOutcomeReported,
     gatewayVars, rowVars, Unresolved, Attempted, Live, Status, Terminal
<1>7. QED
  BY <1>1, <1>2, <1>3, <1>4, <1>5, <1>6 DEF OutboxInv

\* The scan asks about the oldest unresolved row.
LEMMA ScanInv ==
  ASSUME OutboxInv, Scan
  PROVE  OutboxInv'
<1>1. OutboxTypeOK' /\ GatewayInv'
  BY GatewayStutter, OutboxAssumption DEF OutboxInv, Scan, OutboxTypeOK, Ask,
     ModeOf, rowVars, Settlers, Check, Verdicts, Stages, Modes
<1>2. PermitInv'
  BY DEF OutboxInv, Scan, PermitInv
<1>3. HolderInv'
  BY DEF OutboxInv, Scan, HolderInv, rowVars
<1>4. AloneInv'
  BY DEF OutboxInv, Scan, AloneInv
<1>5. CheckInv'
  BY OutboxAssumption DEF OutboxInv, Scan, CheckInv, Oldest, Ask, ModeOf,
     gatewayVars, rowVars, Unresolved, CheckTrue, Live, Attempted, Status,
     OutboxTypeOK, RowInv
<1>6. RowInv' /\ LinkInv' /\ EarlierToldFirst' /\ LateOutcomeReported'
  BY OutboxAssumption DEF OutboxInv, Scan, RowInv, LinkInv, EarlierToldFirst,
     LateOutcomeReported, gatewayVars, rowVars, Unresolved, Attempted, Live, Status,
     Terminal
<1>7. QED
  BY <1>1, <1>2, <1>3, <1>4, <1>5, <1>6 DEF OutboxInv

\* The earlier row is settled and either blocks the call, is reported or is passed
\* over.
LEMMA EarlierInv ==
  ASSUME OutboxInv, Earlier
  PROVE  OutboxInv'
<1>1. GatewayInv' /\ GatewayTypeOK'
  BY GatewayStutter DEF Earlier, OutboxInv
<1>2. /\ state' \in [Sends -> RowStates] /\ late' \subseteq Sends /\ notify' \subseteq Sends
      /\ rowID' \in [Sends -> Nat] /\ lastID' \in Nat
  BY SettleType DEF OutboxInv, Earlier, ToldAfter, OutboxTypeOK, RowStates, Settlers
<1>3. /\ call' \in [Calls -> CallStates] /\ lock' \in Calls \cup {Free}
      /\ stage' \in Stages /\ cur' \in Sends /\ polls' \in 0 .. MaxPolls
  BY OutboxAssumption DEF OutboxInv, Earlier, Return, Release, Sends, OutboxTypeOK,
     Stages, CallStates, Results
<1>4. chk' \in [Settlers -> Check]
  BY NoCheckType DEF Earlier, OutboxInv, OutboxTypeOK, Return
<1>5. OutboxTypeOK'
  BY <1>1, <1>2, <1>3, <1>4 DEF OutboxInv, Earlier, OutboxTypeOK
<1>6. PermitInv'
  BY OutboxAssumption DEF OutboxInv, Earlier, PermitInv, Return, Calls, Release,
     Sends, OutboxTypeOK
<1>7. HolderInv'
  BY DEF OutboxInv, Earlier, HolderInv, StateAfter, Return, Settles, Release, Live,
     OutboxTypeOK
<1>8. AloneInv'
  BY DEF OutboxInv, Earlier, AloneInv, Return, Release
<1>9. CheckInv'
  BY OutboxAssumption DEF OutboxInv, Earlier, CheckInv, StateAfter, Return, NoCheck,
     gatewayVars, Settlers, CheckTrue, Attempted, Status, OutboxTypeOK, Check,
     HolderInv, Verdicts
<1>10. RowInv'
  BY OutboxAssumption DEF OutboxInv, Earlier, ToldAfter, RowInv, StateAfter,
     NotifyAfter, Attempted, Live, Settles, OutboxTypeOK, Check, Settlers,
     HolderInv, Verdicts
<1>11. LinkInv'
  BY OutboxAssumption DEF OutboxInv, Earlier, LinkInv, StateAfter, gatewayVars,
     NotifyAfter, Attempted, Landed, Status, Sends, OutboxTypeOK, Check, Settlers,
     HolderInv, CheckInv, Verdicts, CheckTrue
<1>12. EarlierToldFirst'
  BY OutboxAssumption DEF OutboxInv, Earlier, ToldAfter, EarlierToldFirst,
     StateAfter, Unresolved, NotifyAfter, Attempted, Settles, Live, OutboxTypeOK,
     RowInv
<1>13. LateOutcomeReported'
  BY OutboxAssumption DEF OutboxInv, Earlier, LateOutcomeReported, StateAfter,
     LateAfter, Terminal, CountsLate, OutboxTypeOK, HolderInv
<1>14. QED
  BY <1>1, <1>2, <1>3, <1>4, <1>5, <1>6, <1>7, <1>8, <1>9, <1>10, <1>11, <1>12,
     <1>13 DEF OutboxInv

\* A failed check of an earlier row ends the call.
LEMMA EarlierFailsInv ==
  ASSUME OutboxInv, EarlierFails
  PROVE  OutboxInv'
<1>1. OutboxTypeOK' /\ GatewayInv'
  BY GatewayStutter, OutboxAssumption DEF OutboxInv, EarlierFails, OutboxTypeOK,
     Return, rowVars, Sends, Settlers, Release, NoCheck, Check, PermitInv, Verdicts,
     Stages, CallStates, Results, Modes
<1>2. PermitInv'
  BY OutboxAssumption DEF OutboxInv, EarlierFails, PermitInv, Return, Calls,
     Release, Sends, OutboxTypeOK
<1>3. HolderInv'
  BY DEF OutboxInv, EarlierFails, HolderInv, Return, Release
<1>4. AloneInv'
  BY DEF OutboxInv, EarlierFails, AloneInv, Return, Release
<1>5. CheckInv'
  BY OutboxAssumption DEF OutboxInv, EarlierFails, CheckInv, Return, gatewayVars,
     rowVars, Settlers, CheckTrue, NoCheck, Attempted, Status, OutboxTypeOK
<1>6. RowInv' /\ LinkInv' /\ EarlierToldFirst' /\ LateOutcomeReported'
  BY OutboxAssumption DEF OutboxInv, EarlierFails, RowInv, LinkInv,
     EarlierToldFirst, LateOutcomeReported, gatewayVars, rowVars, Unresolved,
     Attempted, Live, Status, Terminal
<1>7. QED
  BY <1>1, <1>2, <1>3, <1>4, <1>5, <1>6 DEF OutboxInv

\* An abandoned draft has no row.
LEMMA AbandonInv ==
  ASSUME OutboxInv, Abandon
  PROVE  OutboxInv'
<1>1. OutboxTypeOK' /\ GatewayInv'
  BY GatewayStutter, OutboxAssumption DEF OutboxInv, Abandon, OutboxTypeOK, Return,
     rowVars, Sends, Settlers, Release, NoCheck, Check, PermitInv, Verdicts, Stages,
     CallStates, Results, Modes
<1>2. PermitInv'
  BY OutboxAssumption DEF OutboxInv, Abandon, PermitInv, Return, Calls, Release,
     Sends, OutboxTypeOK
<1>3. HolderInv'
  BY DEF OutboxInv, Abandon, HolderInv, Return, Release
<1>4. AloneInv'
  BY DEF OutboxInv, Abandon, AloneInv, Return, Release
<1>5. CheckInv'
  BY OutboxAssumption DEF OutboxInv, Abandon, CheckInv, Return, gatewayVars,
     rowVars, CheckTrue, NoCheck, Attempted, Status
<1>6. RowInv' /\ LinkInv' /\ EarlierToldFirst' /\ LateOutcomeReported'
  BY OutboxAssumption DEF OutboxInv, Abandon, RowInv, LinkInv, EarlierToldFirst,
     LateOutcomeReported, gatewayVars, rowVars, Unresolved, Attempted, Live, Status,
     Terminal
<1>7. QED
  BY <1>1, <1>2, <1>3, <1>4, <1>5, <1>6 DEF OutboxInv

\* Nor has one refused by the recording statement.
LEMMA ShutInv ==
  ASSUME OutboxInv, Shut
  PROVE  OutboxInv'
<1>1. OutboxTypeOK' /\ GatewayInv'
  BY GatewayStutter, OutboxAssumption DEF OutboxInv, Shut, OutboxTypeOK, Return,
     rowVars, Sends, Settlers, Release, NoCheck, Check, PermitInv, Verdicts, Stages,
     CallStates, Results, Modes, Active
<1>2. PermitInv'
  BY OutboxAssumption DEF OutboxInv, Shut, PermitInv, Return, Calls, Release, Sends,
     OutboxTypeOK, Active
<1>3. HolderInv'
  BY DEF OutboxInv, Shut, HolderInv, Return, Release, Active
<1>4. AloneInv'
  BY DEF OutboxInv, Shut, AloneInv, Return, Release, Active
<1>5. CheckInv'
  BY OutboxAssumption DEF OutboxInv, Shut, CheckInv, Return, gatewayVars, rowVars,
     CheckTrue, NoCheck, Attempted, Status, Active
<1>6. RowInv' /\ LinkInv' /\ EarlierToldFirst' /\ LateOutcomeReported'
  BY OutboxAssumption DEF OutboxInv, Shut, RowInv, LinkInv, EarlierToldFirst,
     LateOutcomeReported, gatewayVars, rowVars, Unresolved, Attempted, Live, Status,
     Terminal, Active
<1>7. QED
  BY <1>1, <1>2, <1>3, <1>4, <1>5, <1>6 DEF OutboxInv

\* The bubble is recorded last, while nothing is unresolved, and only then
\* requested.
LEMMA RecordTextInv ==
  ASSUME OutboxInv, RecordText
  PROVE  OutboxInv'
<1>1. cur \in Attempts /\ Request(cur)
  BY DEF RecordText, Active
<1>2. GatewayInv'
  BY <1>1, GatewayClientInv DEF OutboxInv
<1>3. OutboxTypeOK'
  BY <1>2 DEF RecordText, OutboxInv, GatewayInv, OutboxTypeOK, RowStates, Stages,
     Insert, Active, CallStates
<1>4. PermitInv'
  BY DEF OutboxInv, RecordText, PermitInv, Active
<1>5. HolderInv'
  BY DEF OutboxInv, RecordText, HolderInv, Insert, Attempted, OutboxTypeOK, RowInv,
     Active
<1>6. AloneInv'
  BY DEF OutboxInv, RecordText, AloneInv, Insert, Unresolved, Live, Active
<1>7. CheckInv'
  BY OutboxAssumption DEF RecordText, OutboxInv, CheckInv, Attempted, Insert,
     Status, Request, CheckTrue
<1>8. RowInv'
  BY DEF OutboxInv, RecordText, RowInv, Insert, Attempted, OutboxTypeOK, HolderInv,
     Active
<1>9. LinkInv'
  BY OutboxAssumption DEF RecordText, OutboxInv, OutboxTypeOK, LinkInv, Attempted,
     Landed, Insert, Status, Request, Active
<1>10. EarlierToldFirst'
  BY OutboxAssumption DEF OutboxInv, RecordText, EarlierToldFirst, Insert,
     Unresolved, Live, OutboxTypeOK, RowInv, AloneInv, Active
<1>11. LateOutcomeReported'
  BY DEF OutboxInv, RecordText, LateOutcomeReported, Insert, Terminal, Active
<1>12. QED
  BY <1>1, <1>2, <1>3, <1>4, <1>5, <1>6, <1>7, <1>8, <1>9, <1>10, <1>11 DEF
     OutboxInv

\* A tapback is recorded last as well; it has no gateway identity.
LEMMA RecordTapbackInv ==
  ASSUME OutboxInv, RecordTapback
  PROVE  OutboxInv'
<1>1. OutboxTypeOK' /\ GatewayInv'
  BY GatewayStutter DEF OutboxInv, RecordTapback, OutboxTypeOK, Insert, RowStates,
     Stages, Active, CallStates
<1>2. PermitInv'
  BY DEF OutboxInv, RecordTapback, PermitInv, Active
<1>3. HolderInv'
  BY DEF OutboxInv, RecordTapback, HolderInv, Insert, Attempted, OutboxTypeOK,
     RowInv, Active
<1>4. AloneInv'
  BY DEF OutboxInv, RecordTapback, AloneInv, Insert, Unresolved, Live, Active
<1>5. CheckInv'
  BY DEF OutboxInv, RecordTapback, CheckInv, Insert, gatewayVars, CheckTrue,
     Attempted, Status, Active
<1>6. RowInv'
  BY OutboxAssumption DEF OutboxInv, RecordTapback, RowInv, Insert, Attempted, Live,
     OutboxTypeOK, Active
<1>7. LinkInv'
  BY OutboxAssumption DEF OutboxInv, RecordTapback, LinkInv, Insert, gatewayVars,
     Attempted, Status, Active
<1>8. EarlierToldFirst'
  BY OutboxAssumption DEF OutboxInv, RecordTapback, EarlierToldFirst, Insert,
     Unresolved, Live, OutboxTypeOK, RowInv, AloneInv, Active
<1>9. LateOutcomeReported'
  BY DEF OutboxInv, RecordTapback, LateOutcomeReported, Insert, Terminal, Active
<1>10. QED
  BY <1>1, <1>2, <1>3, <1>4, <1>5, <1>6, <1>7, <1>8, <1>9 DEF OutboxInv

\* An answered submit opens the row's polling.
LEMMA SubmitAnsweredInv ==
  ASSUME OutboxInv, SubmitAnswered
  PROVE  OutboxInv'
<1>1. OutboxTypeOK' /\ GatewayInv'
  BY GatewayStutter DEF OutboxInv, SubmitAnswered, OutboxTypeOK, RowStates, Stages
<1>2. PermitInv'
  BY DEF OutboxInv, SubmitAnswered, PermitInv
<1>3. HolderInv'
  BY DEF OutboxInv, SubmitAnswered, HolderInv, Attempted, OutboxTypeOK
<1>4. AloneInv'
  BY DEF OutboxInv, SubmitAnswered, AloneInv, Unresolved, Live
<1>5. CheckInv'
  BY DEF OutboxInv, SubmitAnswered, CheckInv, gatewayVars, CheckTrue, Attempted,
     Status
<1>6. RowInv'
  BY DEF OutboxInv, SubmitAnswered, RowInv, Attempted, Live
<1>7. LinkInv'
  BY DEF OutboxInv, SubmitAnswered, LinkInv, gatewayVars, Attempted, Landed, Status
<1>8. EarlierToldFirst'
  BY DEF OutboxInv, SubmitAnswered, EarlierToldFirst, Unresolved, Attempted, Live
<1>9. LateOutcomeReported'
  BY DEF OutboxInv, SubmitAnswered, LateOutcomeReported, Terminal
<1>10. QED
  BY <1>1, <1>2, <1>3, <1>4, <1>5, <1>6, <1>7, <1>8, <1>9 DEF OutboxInv

\* A failed submit leaves the row in doubt, and from now on whoever settles it
\* finds it not in flight.
LEMMA SubmitFailsInv ==
  ASSUME OutboxInv, SubmitFails
  PROVE  OutboxInv'
<1>1. OutboxTypeOK' /\ GatewayInv'
  BY GatewayStutter, OutboxAssumption DEF OutboxInv, SubmitFails, OutboxTypeOK,
     GiveUp, Return, Sends, Settlers, Release, NoCheck, RowStates, Check, PermitInv,
     Verdicts, Stages, CallStates, Results, Modes
<1>2. PermitInv'
  BY OutboxAssumption DEF OutboxInv, SubmitFails, PermitInv, Return, Calls, Release,
     Sends, OutboxTypeOK
<1>3. HolderInv'
  BY DEF OutboxInv, SubmitFails, HolderInv, Return, Release
<1>4. AloneInv'
  BY DEF OutboxInv, SubmitFails, AloneInv, Return, Release
<1>5. CheckInv'
  BY OutboxAssumption DEF OutboxInv, SubmitFails, CheckInv, Return, gatewayVars,
     CheckTrue, NoCheck, Attempted, Status
<1>6. RowInv'
  BY DEF OutboxInv, SubmitFails, RowInv, GiveUp, Attempted, Live
<1>7. LinkInv'
  BY DEF OutboxInv, SubmitFails, LinkInv, gatewayVars, Attempted, Landed, Status
<1>8. EarlierToldFirst'
  BY DEF OutboxInv, SubmitFails, EarlierToldFirst, Unresolved, Attempted, Live
<1>9. LateOutcomeReported'
  BY DEF OutboxInv, SubmitFails, LateOutcomeReported, GiveUp, Terminal
<1>10. QED
  BY <1>1, <1>2, <1>3, <1>4, <1>5, <1>6, <1>7, <1>8, <1>9 DEF OutboxInv

\* The holder asks about its own row.
LEMMA AskPollInv ==
  ASSUME OutboxInv, AskPoll
  PROVE  OutboxInv'
<1>1. OutboxTypeOK' /\ GatewayInv'
  BY GatewayStutter, OutboxAssumption DEF OutboxInv, AskPoll, OutboxTypeOK, Ask,
     rowVars, holderVars, Settlers, Check, Verdicts, Modes
<1>2. CheckInv'
  BY OutboxAssumption DEF OutboxInv, AskPoll, CheckInv, Ask, gatewayVars, rowVars,
     holderVars, CheckTrue, Attempted, Status, HolderInv
<1>3. /\ PermitInv' /\ HolderInv' /\ AloneInv' /\ RowInv' /\ LinkInv'
      /\ EarlierToldFirst' /\ LateOutcomeReported'
  BY OutboxAssumption DEF OutboxInv, AskPoll, PermitInv, HolderInv, AloneInv,
     RowInv, LinkInv, EarlierToldFirst, LateOutcomeReported, gatewayVars, rowVars,
     holderVars, Unresolved, Attempted, Live, Status, Terminal
<1>4. QED
  BY <1>1, <1>2, <1>3 DEF OutboxInv

\* A poll settles the holder's own row, which is the last of the ledger.
LEMMA PollInv ==
  ASSUME OutboxInv, Poll
  PROVE  OutboxInv'
<1>1. GatewayInv' /\ GatewayTypeOK'
  BY GatewayStutter DEF Poll, OutboxInv
<1>2. /\ state' \in [Sends -> RowStates] /\ late' \subseteq Sends /\ notify' \subseteq Sends
      /\ rowID' \in [Sends -> Nat] /\ lastID' \in Nat
  BY SettleType DEF OutboxInv, Poll, OutboxTypeOK, Settlers
<1>3. /\ call' \in [Calls -> CallStates] /\ lock' \in Calls \cup {Free}
      /\ stage' \in Stages /\ cur' \in Sends /\ polls' \in 0 .. MaxPolls
  BY OutboxAssumption DEF OutboxInv, Poll, Return, Release, Sends, OutboxTypeOK,
     Calls, PermitInv, Stages, CallStates, Results
<1>4. chk' \in [Settlers -> Check]
  BY NoCheckType DEF Poll, OutboxInv, OutboxTypeOK, Return
<1>5. OutboxTypeOK'
  BY <1>1, <1>2, <1>3, <1>4 DEF OutboxInv, Poll, OutboxTypeOK, GiveUp
<1>6. PermitInv'
  BY OutboxAssumption DEF OutboxInv, Poll, PermitInv, Return, Calls, Release, Sends,
     OutboxTypeOK
<1>7. HolderInv'
  BY DEF OutboxInv, Poll, HolderInv, Return, Attempted, Release
<1>8. AloneInv'
  BY DEF OutboxInv, Poll, AloneInv, StateAfter, NotifyAfter, Return, Unresolved,
     Settles, Release, Live
<1>9. CheckInv'
  BY OutboxAssumption DEF OutboxInv, Poll, CheckInv, StateAfter, NoCheck, Return,
     gatewayVars, Unresolved, Settlers, CheckTrue, Attempted, Status, OutboxTypeOK,
     Check, Verdicts
<1>10. RowInv'
  BY OutboxAssumption DEF OutboxInv, Poll, RowInv, StateAfter, NotifyAfter, GiveUp,
     Attempted, Live, Settles, OutboxTypeOK, Check, Settlers, HolderInv, Verdicts
<1>11. LinkInv'
  BY OutboxAssumption DEF OutboxInv, Poll, LinkInv, StateAfter, gatewayVars,
     Attempted, Status, OutboxTypeOK, Check, Settlers, CheckInv, Verdicts, CheckTrue
<1>12. EarlierToldFirst'
  BY OutboxAssumption DEF OutboxInv, Poll, EarlierToldFirst, StateAfter,
     NotifyAfter, Unresolved, Settles, Live, OutboxTypeOK, HolderInv, RowInv
<1>13. LateOutcomeReported'
  BY OutboxAssumption DEF OutboxInv, Poll, First, LateOutcomeReported, StateAfter,
     LateAfter, GiveUp, Terminal, CountsLate, HolderInv
<1>14. QED
  BY <1>1, <1>2, <1>3, <1>4, <1>5, <1>6, <1>7, <1>8, <1>9, <1>10, <1>11, <1>12,
     <1>13 DEF OutboxInv

\* The gesture rewrites the holder's own row, which is the last of the ledger.
LEMMA ReactedInv ==
  ASSUME OutboxInv, Reacted
  PROVE  OutboxInv'
<1>1. GatewayInv' /\ GatewayTypeOK'
  BY GatewayStutter DEF Reacted, OutboxInv
<1>2. /\ state' \in [Sends -> RowStates] /\ late' \subseteq Sends /\ notify' \subseteq Sends
      /\ rowID' \in [Sends -> Nat] /\ lastID' \in Nat
  BY DEF OutboxInv, Reacted, GiveUp, OutboxTypeOK, RowStates
<1>3. /\ call' \in [Calls -> CallStates] /\ lock' \in Calls \cup {Free}
      /\ stage' \in Stages /\ cur' \in Sends /\ polls' \in 0 .. MaxPolls
  BY OutboxAssumption DEF OutboxInv, Reacted, Return, GiveUp, Release, Sends,
     OutboxTypeOK, Stages, CallStates, Results
<1>4. chk' \in [Settlers -> Check]
  BY NoCheckType DEF Reacted, OutboxInv, OutboxTypeOK, Return
<1>5. OutboxTypeOK'
  BY <1>1, <1>2, <1>3, <1>4 DEF OutboxInv, Reacted, OutboxTypeOK, GiveUp
<1>6. PermitInv'
  BY OutboxAssumption DEF OutboxInv, Reacted, PermitInv, Return, GiveUp, Calls,
     Release, Sends, OutboxTypeOK
<1>7. HolderInv'
  BY DEF OutboxInv, Reacted, HolderInv, Return, GiveUp, Release
<1>8. AloneInv'
  BY DEF OutboxInv, Reacted, AloneInv, Return, GiveUp, Release
<1>9. CheckInv'
  BY OutboxAssumption DEF OutboxInv, Reacted, CheckInv, Return, GiveUp, gatewayVars,
     CheckTrue, NoCheck, Attempted, Status, OutboxTypeOK, Check
<1>10. RowInv'
  BY DEF OutboxInv, Reacted, RowInv, GiveUp, Attempted, OutboxTypeOK, HolderInv
<1>11. LinkInv'
  BY OutboxAssumption DEF OutboxInv, Reacted, LinkInv, gatewayVars, Attempted,
     Status, Sends, OutboxTypeOK, HolderInv
<1>12. EarlierToldFirst'
  BY OutboxAssumption DEF OutboxInv, Reacted, EarlierToldFirst, GiveUp, Unresolved,
     Live, OutboxTypeOK, HolderInv, RowInv
<1>13. LateOutcomeReported'
  BY DEF OutboxInv, Reacted, LateOutcomeReported, GiveUp, Terminal, OutboxTypeOK,
     HolderInv
<1>14. QED
  BY <1>1, <1>2, <1>3, <1>4, <1>5, <1>6, <1>7, <1>8, <1>9, <1>10, <1>11, <1>12,
     <1>13 DEF OutboxInv

\* An interrupted holder is no longer in flight, so its row will be settled late.
LEMMA InterruptInv ==
  ASSUME OutboxInv, Interrupt
  PROVE  OutboxInv'
<1>1. OutboxTypeOK' /\ GatewayInv'
  BY GatewayStutter, OutboxAssumption DEF OutboxInv, Interrupt, OutboxTypeOK,
     GiveUp, Return, rowVars, Sends, Settlers, Release, NoCheck, Check, Verdicts,
     Stages, CallStates, Results, Modes
<1>2. PermitInv'
  BY OutboxAssumption DEF OutboxInv, Interrupt, PermitInv, Return, Calls, Release,
     Sends, OutboxTypeOK
<1>3. HolderInv'
  BY DEF OutboxInv, Interrupt, HolderInv, Return, Release
<1>4. AloneInv'
  BY DEF OutboxInv, Interrupt, AloneInv, Return, Release
<1>5. CheckInv'
  BY OutboxAssumption DEF OutboxInv, Interrupt, CheckInv, Return, gatewayVars,
     rowVars, Settlers, CheckTrue, NoCheck, Attempted, Status, OutboxTypeOK
<1>6. RowInv'
  BY DEF OutboxInv, Interrupt, RowInv, GiveUp, Live, rowVars, Attempted
<1>7. LateOutcomeReported'
  BY DEF OutboxInv, Interrupt, LateOutcomeReported, GiveUp, Live, rowVars, Terminal
<1>8. LinkInv' /\ EarlierToldFirst'
  BY DEF OutboxInv, Interrupt, LinkInv, EarlierToldFirst, Live, gatewayVars,
     rowVars, Unresolved, Attempted, Status
<1>9. QED
  BY <1>1, <1>2, <1>3, <1>4, <1>5, <1>6, <1>7, <1>8 DEF OutboxInv

\* A restart forgets everything but the ledger.
LEMMA RestartInv ==
  ASSUME OutboxInv, Restart
  PROVE  OutboxInv'
<1>1. OutboxTypeOK' /\ GatewayInv'
  BY GatewayStutter, OutboxAssumption DEF OutboxInv, Restart, OutboxTypeOK, NoCheck,
     GiveUp, rowVars, Sends, Check, Verdicts, Stages, CallStates, Results, Modes,
     Underway
<1>2. PermitInv'
  BY OutboxAssumption DEF OutboxInv, Restart, PermitInv, Calls, Sends, Underway
<1>3. HolderInv'
  BY DEF OutboxInv, Restart, HolderInv, Underway
<1>4. AloneInv'
  BY DEF OutboxInv, Restart, AloneInv, Underway
<1>5. CheckInv'
  BY DEF OutboxInv, Restart, CheckInv, Settlers, NoCheck, CheckTrue, Underway
<1>6. RowInv'
  BY DEF OutboxInv, Restart, RowInv, GiveUp, Live, rowVars, Attempted, Underway
<1>7. LateOutcomeReported'
  BY DEF OutboxInv, Restart, LateOutcomeReported, GiveUp, Live, rowVars, Terminal,
     Underway
<1>8. LinkInv' /\ EarlierToldFirst'
  BY OutboxAssumption DEF OutboxInv, Restart, LinkInv, EarlierToldFirst, Live,
     gatewayVars, rowVars, Unresolved, Attempted, Status, Underway
<1>9. QED
  BY <1>1, <1>2, <1>3, <1>4, <1>5, <1>6, <1>7, <1>8 DEF OutboxInv

\* The operator's outcome is reported like any late one.
LEMMA ReleaseLegacyInv ==
  ASSUME OutboxInv, NEW k \in Tapbacks, ReleaseLegacy(k)
  PROVE  OutboxInv'
<1>1. OutboxTypeOK' /\ GatewayInv'
  BY GatewayStutter DEF OutboxInv, ReleaseLegacy, OutboxTypeOK, holderVars, Sends,
     RowStates
<1>2. HolderInv'
  BY DEF OutboxInv, ReleaseLegacy, HolderInv, Live, holderVars, Attempted
<1>3. AloneInv'
  BY DEF OutboxInv, ReleaseLegacy, AloneInv, Live, holderVars, Unresolved
<1>4. CheckInv'
  BY DEF OutboxInv, ReleaseLegacy, CheckInv, gatewayVars, holderVars, CheckTrue,
     Attempted, Status
<1>5. RowInv'
  BY DEF OutboxInv, ReleaseLegacy, RowInv, Live, Attempted
<1>6. LinkInv'
  BY OutboxAssumption DEF OutboxInv, ReleaseLegacy, LinkInv, gatewayVars, Attempted,
     Status
<1>7. EarlierToldFirst'
  BY DEF OutboxInv, ReleaseLegacy, EarlierToldFirst, Live, Unresolved, Attempted
<1>8. LateOutcomeReported'
  BY DEF OutboxInv, ReleaseLegacy, LateOutcomeReported, Terminal
<1>9. PermitInv'
  BY DEF OutboxInv, ReleaseLegacy, PermitInv, holderVars
<1>10. QED
  BY <1>1, <1>2, <1>3, <1>4, <1>5, <1>6, <1>7, <1>8, <1>9 DEF OutboxInv

\* What the conversation admits is not tied to the ledger: an ending leaves open
\* rows to the observers.
LEMMA StandingInv ==
  ASSUME OutboxInv, Block \/ Rebuilt \/ PersonaEnd \/ OperatorEnd
  PROVE  OutboxInv'
  BY GatewayStutter DEF OutboxInv, Block, Rebuilt, PersonaEnd, OperatorEnd,
     Standings, OutboxTypeOK, PermitInv, HolderInv, CheckInv, AloneInv, RowInv,
     LinkInv, Sends, Calls, Settlers, Live, Terminal, Attempted, Unresolved,
     rowVars, holderVars, gatewayVars, Status, EarlierToldFirst,
     LateOutcomeReported, CheckTrue

\* A new session makes the calls stale, and leaves the permit and the ledger as
\* they are.
LEMMA RebuildInv ==
  ASSUME OutboxInv, Rebuild
  PROVE  OutboxInv'
<1>1. OutboxTypeOK' /\ GatewayInv'
  BY GatewayStutter DEF OutboxInv, Rebuild, OutboxTypeOK, rowVars, holderVars,
     CallStates, Underway, Standings
<1>2. PermitInv'
  BY DEF OutboxInv, Rebuild, PermitInv, holderVars, Underway
<1>3. /\ HolderInv' /\ AloneInv' /\ CheckInv' /\ RowInv' /\ LinkInv'
      /\ EarlierToldFirst' /\ LateOutcomeReported'
  BY OutboxAssumption DEF OutboxInv, Rebuild, HolderInv, AloneInv, CheckInv, RowInv,
     LinkInv, EarlierToldFirst, LateOutcomeReported, gatewayVars, rowVars,
     holderVars, Unresolved, Attempted, CheckTrue, Live, Status, Terminal, Underway
<1>4. QED
  BY <1>1, <1>2, <1>3 DEF OutboxInv

\* Whatever the gateway does, a landed message stays landed, a failed verdict stays
\* failed, and rows and fences appear only where they were asked for.
LEMMA GatewaySteady ==
  ASSUME GatewayInv, NEW a \in Attempts,
         (\E b \in Attempts : GatewayStep(b)) \/ (\E b \in Attempts : Resolve(b))
  PROVE  /\ GatewayInv' /\ GatewayTypeOK'
         /\ Landed(message[a]) => Landed(message'[a])
         /\ Status(a) = "failed" => Status(a)' = "failed"
         /\ requests' = requests
         /\ message'[a] # "absent" => message[a] # "absent" \/ a \in requests
<1>1. [GatewayNext]_gatewayVars
  BY DEF GatewayNext
<1>2. GatewayInv' /\ GatewayTypeOK'
  BY <1>1, GatewayNextInv DEF GatewayInv
<1>3. /\ Status(a) = "failed" => Status(a)' = "failed"
      /\ Landed(Status(a)) => Landed(Status(a)')
  BY <1>1, GatewayVerdictStep
<1>4. Landed(Status(a)) <=> Landed(message[a])
  BY StatusLanded DEF GatewayInv
<1>5. Landed(Status(a)') <=> Landed(message'[a])
  BY <1>2 DEF GatewayTypeOK, MessageStates, Status, Landed
<1>6. ASSUME NEW b \in Attempts, GatewayStep(b) \/ Resolve(b)
      PROVE  /\ requests' = requests
             /\ message'[a] # "absent" => message[a] # "absent" \/ a \in requests
  <2>1. CASE Admit(b)
    BY <2>1 DEF Admit, GatewayInv, GatewayTypeOK
  <2>2. CASE Receipt(b)
    BY <2>2 DEF Receipt, GatewayInv, GatewayTypeOK
  <2>3. CASE BridgeDown(b) \/ InputRejected(b) \/ Answer(b)
    BY <2>3 DEF BridgeDown, InputRejected, Answer, Settled, GatewayInv, GatewayTypeOK
  <2>4. CASE Reply(b) \/ Submit(b) \/ AppleDecides(b) \/ LoseAnswer(b) \/ Resolve(b)
    BY <2>4 DEF Reply, Submit, AppleDecides, LoseAnswer, Resolve
  <2>5. QED
    BY <1>6, <2>1, <2>2, <2>3, <2>4 DEF GatewayStep
<1>7. QED
  BY <1>2, <1>3, <1>4, <1>5, <1>6

\* Only a fence or the gateway's own steps change what a row's verdict rests on.
LEMMA FencedOnlyAsked ==
  ASSUME GatewayInv, NEW a \in Attempts, GatewayStep(a)
  PROVE  fenced' = fenced
  BY DEF GatewayStep, Admit, Reply, BridgeDown, Submit, InputRejected, AppleDecides, Answer,
         LoseAnswer, Receipt

\* The gateway moves on its own: the ledger's outcomes and the answers on their
\* way stay true.
LEMMA GatewayMovesInv ==
  ASSUME OutboxInv, GatewayMoves
  PROVE  OutboxInv'
<1>1. PICK b \in Attempts : GatewayStep(b)
  BY DEF GatewayMoves
<1>2. UNCHANGED outboxVars
  BY DEF GatewayMoves
<1>3. \A a \in Attempts :
        /\ Landed(message[a]) => Landed(message'[a])
        /\ Status(a) = "failed" => Status(a)' = "failed"
        /\ message'[a] # "absent" => message[a] # "absent" \/ a \in requests
  BY <1>1, GatewaySteady DEF OutboxInv
<1>4. GatewayInv' /\ GatewayTypeOK' /\ requests' = requests /\ fenced' = fenced
  BY <1>1, GatewaySteady, FencedOnlyAsked DEF OutboxInv
<1>5. OutboxTypeOK'
  BY <1>2, <1>4 DEF OutboxInv, OutboxTypeOK, outboxVars, rowVars, holderVars
<1>6. PermitInv' /\ HolderInv' /\ AloneInv' /\ RowInv' /\ EarlierToldFirst' /\ LateOutcomeReported'
  BY <1>2 DEF OutboxInv, outboxVars, rowVars, holderVars, PermitInv, HolderInv, AloneInv, RowInv,
     EarlierToldFirst, LateOutcomeReported, Attempted, Unresolved, Live, Terminal
<1>7. CheckInv'
  BY <1>2, <1>3 DEF OutboxInv, outboxVars, rowVars, holderVars, CheckInv, CheckTrue, Attempted
<1>8. LinkInv'
  BY <1>2, <1>3, <1>4 DEF OutboxInv, outboxVars, rowVars, LinkInv, Attempted
<1>9. QED
  BY <1>4, <1>5, <1>6, <1>7, <1>8 DEF OutboxInv

\* An answer changes the step and the verdict of one check and nothing else.
LEMMA ToldOnly ==
  ASSUME OutboxTypeOK, NEW x \in Settlers, NEW verdict \in Verdicts, Told(x, verdict)
  PROVE  /\ chk' \in [Settlers -> Check]
         /\ chk'[x].step = "answered" /\ chk'[x].verdict = verdict
         /\ \A y \in Settlers : chk'[y].row = chk[y].row /\ chk'[y].mode = chk[y].mode
         /\ \A y \in Settlers \ {x} : chk'[y] = chk[y]
  BY DEF OutboxTypeOK, Check, Told

\* The gateway answers a check: the verdict it hands out is the truth when it is
\* handed out, and a fence is only asked for a row that exists.
LEMMA ExecuteInv ==
  ASSUME OutboxInv, NEW x \in Settlers, Execute(x)
  PROVE  OutboxInv'
<1>1. /\ UNCHANGED <<rowVars, inFlight, standing, holderVars, call, gaveUp>>
      /\ chk[x].step = "asked"
  BY DEF Execute
<1>2. PICK s \in Sends :
        s = chk[x].row /\ Attempted(s) /\ (chk[x].mode = "recent" <=> s \in Tapbacks)
  BY <1>1 DEF OutboxInv, OutboxTypeOK, CheckInv, CheckTrue, Check
<1>3. PICK verdict \in Verdicts :
        /\ Told(x, verdict)
        /\ \/ chk[x].mode = "recent" /\ UNCHANGED gatewayVars
           \/ chk[x].mode = "status" /\ UNCHANGED gatewayVars /\ verdict = Status(s)
           \/ /\ chk[x].mode = "resolve" /\ Resolve(s)
              /\ verdict = IF message[s] = "absent" THEN "failed" ELSE Status(s)
  <2>1. s \in Attempts => Status(s) \in Verdicts
    BY DEF OutboxInv, GatewayInv, GatewayTypeOK, MessageStates, Status, Verdicts
  <2>2. QED
    BY <1>2, <2>1 DEF Execute, Verdicts, Sends
<1>4. s \in Tapbacks <=> s \notin Attempts
  BY <1>2, OutboxAssumption DEF Sends
<1>5. UNCHANGED gatewayVars \/ (s \in Attempts /\ Resolve(s))
  BY <1>2, <1>3, <1>4
<1>6. \A a \in Attempts :
        /\ Landed(message[a]) => Landed(message'[a])
        /\ Status(a) = "failed" => Status(a)' = "failed"
        /\ message'[a] # "absent" \/ a \in fenced' =>
             message[a] # "absent" \/ a \in fenced \/ a = s
  BY <1>5, GatewaySteady DEF OutboxInv, Resolve, Fence, gatewayVars, Status
<1>7. GatewayInv' /\ GatewayTypeOK' /\ requests' = requests
  BY <1>5, GatewaySteady, GatewayStutter DEF OutboxInv, Resolve, gatewayVars
<1>8. ASSUME s \in Attempts
      PROVE  /\ Landed(verdict) => Landed(message'[s])
             /\ verdict = "failed" => Status(s)' = "failed"
  <2>1. Landed(Status(s)) => Landed(message'[s])
    BY <1>6, <1>8, StatusLanded DEF OutboxInv, OutboxTypeOK
  <2>2. CASE verdict = Status(s)
    BY <1>6, <1>8, <2>1, <2>2
  <2>3. CASE chk[x].mode = "resolve" /\ message[s] = "absent"
    BY <1>3, <2>3 DEF Resolve, Fence, Status, Landed
  <2>4. QED
    BY <1>2, <1>3, <1>4, <1>8, <2>2, <2>3
<1>9. /\ chk' \in [Settlers -> Check]
      /\ chk'[x].step = "answered" /\ chk'[x].verdict = verdict
      /\ \A y \in Settlers : chk'[y].row = chk[y].row /\ chk'[y].mode = chk[y].mode
      /\ \A y \in Settlers \ {x} : chk'[y] = chk[y]
  BY <1>3, ToldOnly DEF OutboxInv
<1>10. OutboxTypeOK'
  BY <1>1, <1>7, <1>9 DEF OutboxInv, OutboxTypeOK, rowVars, holderVars
<1>11. PermitInv' /\ HolderInv' /\ AloneInv' /\ RowInv' /\ EarlierToldFirst' /\ LateOutcomeReported'
  BY <1>1 DEF OutboxInv, rowVars, holderVars, PermitInv, HolderInv, AloneInv, RowInv,
     EarlierToldFirst, LateOutcomeReported, Attempted, Unresolved, Live, Terminal
<1>12. CheckInv'
  <2>1. UNCHANGED <<state, stage, cur>>
    BY <1>1 DEF rowVars, holderVars
  <2>2. Holder = x \/ chk'[Holder] = chk[Holder]
    BY <1>9 DEF Settlers
  <2>3. CheckTrue(x)'
    BY <1>2, <1>8, <1>9, <2>1 DEF CheckTrue, Attempted
  <2>4. ASSUME NEW y \in Settlers \ {x} PROVE CheckTrue(y)'
    <3>1. chk'[y] = chk[y] /\ CheckTrue(y)
      BY <1>9 DEF OutboxInv, CheckInv
    <3>2. QED
      BY <1>6, <2>1, <3>1 DEF CheckTrue, Attempted
  <2>5. QED
    BY <1>1, <1>9, <2>1, <2>2, <2>3, <2>4 DEF OutboxInv, CheckInv
<1>13. LinkInv'
  <2>1. state' = state
    BY <1>1 DEF rowVars
  <2>2. QED
    BY <1>2, <1>6, <1>7, <2>1 DEF OutboxInv, LinkInv, Attempted
<1>14. QED
  BY <1>7, <1>10, <1>11, <1>12, <1>13 DEF OutboxInv

\* A status that fails says nothing.
LEMMA StatusFailsInv ==
  ASSUME OutboxInv, NEW x \in Settlers, StatusFails(x)
  PROVE  OutboxInv'
<1>1. /\ UNCHANGED <<gatewayVars, rowVars, inFlight, standing, holderVars, call, gaveUp>>
      /\ chk[x].step # "idle"
      /\ chk' = [chk EXCEPT ![x].step = "answered", ![x].verdict = "unknown"]
  BY DEF StatusFails, Told
<1>2. GatewayInv' /\ GatewayTypeOK'
  BY <1>1, GatewayStutter DEF OutboxInv
<1>3. OutboxTypeOK'
  BY ZenonT(30), <1>1, <1>2 DEF OutboxInv, OutboxTypeOK, rowVars, holderVars, Check, Verdicts
<1>4. PermitInv' /\ HolderInv' /\ AloneInv' /\ RowInv' /\ EarlierToldFirst' /\ LateOutcomeReported'
  BY <1>1 DEF OutboxInv, rowVars, holderVars, PermitInv, HolderInv, AloneInv, RowInv,
     EarlierToldFirst, LateOutcomeReported, Attempted, Unresolved, Live, Terminal
<1>5. CheckInv'
  <2>1. /\ chk'[x].verdict = "unknown"
        /\ \A y \in Settlers : chk'[y].row = chk[y].row /\ chk'[y].mode = chk[y].mode
        /\ \A y \in Settlers \ {x} : chk'[y] = chk[y]
    BY ToldOnly DEF OutboxInv, StatusFails, Verdicts
  <2>2. UNCHANGED <<state, stage, cur, message, fenced>>
    BY <1>1 DEF rowVars, holderVars, gatewayVars
  <2>3. ASSUME NEW y \in Settlers PROVE CheckTrue(y)'
    <3>1. CheckTrue(y)
      BY DEF OutboxInv, CheckInv
    <3>2. CASE y = x
      BY <1>1, <2>1, <2>2, <3>1, <3>2 DEF CheckTrue, Attempted, Landed
    <3>3. CASE y # x
      BY <2>1, <2>2, <3>1, <3>3 DEF CheckTrue, Attempted, Status
    <3>4. QED
      BY <3>2, <3>3
  <2>4. QED
    BY <1>1, <2>1, <2>2, <2>3 DEF OutboxInv, CheckInv, Settlers
<1>6. LinkInv'
  BY <1>1 DEF OutboxInv, rowVars, gatewayVars, LinkInv, Attempted, Status
<1>7. QED
  BY <1>2, <1>3, <1>4, <1>5, <1>6 DEF OutboxInv

\* The invariant holds initially.
LEMMA OutboxInitInv == OutboxInit => OutboxInv
<1> SUFFICES ASSUME OutboxInit PROVE OutboxInv
  OBVIOUS
<1>1. GatewayInv /\ GatewayTypeOK
  BY GatewayInitInv DEF OutboxInit, GatewayInv
<1>2. OutboxTypeOK
  BY <1>1, OutboxAssumption, NoCheckType DEF OutboxInit, OutboxTypeOK, RowStates, Stages,
     Standings, CallStates, Sends, Calls, Settlers
<1>3. PermitInv /\ HolderInv /\ AloneInv /\ CheckInv
  BY OutboxAssumption DEF OutboxInit, PermitInv, HolderInv, AloneInv, CheckInv,
     CheckTrue, NoCheck, Settlers, Calls, Sends
<1>4. RowInv /\ LinkInv /\ EarlierToldFirst /\ LateOutcomeReported
  BY DEF OutboxInit, GatewayInit, RowInv, LinkInv, EarlierToldFirst, LateOutcomeReported, Sends,
     Attempted, Landed
<1>5. QED
  BY <1>1, <1>2, <1>3, <1>4 DEF OutboxInv

\* Every step of the call that holds the permit keeps the invariant.
LEMMA HolderStepInv ==
  ASSUME OutboxInv, HolderStep
  PROVE  OutboxInv'
  BY RefusedInv, BeforeInv, ClearInv, ScanInv, EarlierInv, EarlierFailsInv, AbandonInv, ShutInv,
     RecordTextInv, RecordTapbackInv, SubmitAnsweredInv, SubmitFailsInv, AskPollInv, PollInv,
     ReactedInv DEF HolderStep

\* Every step keeps the invariant.
LEMMA OutboxNextInv == OutboxInv /\ [OutboxNext]_vars => OutboxInv'
<1> SUFFICES ASSUME OutboxInv, [OutboxNext]_vars PROVE OutboxInv'
  OBVIOUS
<1>1. CASE UNCHANGED vars
  <2>1. /\ UNCHANGED gatewayVars
        /\ UNCHANGED <<rowVars, inFlight, standing, holderVars, call, chk, gaveUp>>
    BY <1>1 DEF vars, outboxVars
  <2>2. GatewayInv' /\ GatewayTypeOK'
    BY <2>1, GatewayStutter DEF OutboxInv
  <2>3. OutboxTypeOK'
    BY <2>1, <2>2 DEF OutboxInv, OutboxTypeOK, rowVars, holderVars
  <2>4. /\ PermitInv' /\ HolderInv' /\ AloneInv' /\ RowInv'
        /\ EarlierToldFirst' /\ LateOutcomeReported'
    BY <2>1 DEF OutboxInv, rowVars, holderVars, PermitInv, HolderInv, AloneInv, RowInv,
       EarlierToldFirst, LateOutcomeReported, Attempted, Unresolved, Live, Terminal
  <2>5. CheckInv' /\ LinkInv'
    BY <2>1 DEF OutboxInv, rowVars, holderVars, gatewayVars, CheckInv, CheckTrue, LinkInv,
       Attempted, Landed, Status
  <2>6. QED
    BY <2>2, <2>3, <2>4, <2>5 DEF OutboxInv
<1>2. CASE GatewayMoves
  BY <1>2, GatewayMovesInv
<1>3. CASE \E f \in Calls : Invoke(f) \/ Repeat(f) \/ Acquire(f)
  BY <1>3, InvokeInv, RepeatInv, AcquireInv
<1>4. CASE HolderStep
  BY <1>4, HolderStepInv
<1>5. CASE \E x \in Settlers : Execute(x) \/ StatusFails(x)
  BY <1>5, ExecuteInv, StatusFailsInv
<1>6. CASE \E o \in Observers : Observe(o) \/ Reconcile(o) \/ ObserverSettles(o) \/ ObserverFails(o)
  BY <1>6, ObserveInv, ReconcileInv, ObserverSettlesInv, ObserverFailsInv
<1>7. CASE \E s \in Tapbacks : ReleaseLegacy(s)
  BY <1>7, ReleaseLegacyInv
<1>8. CASE Interrupt \/ Restart \/ Block \/ Rebuild \/ Rebuilt \/ PersonaEnd \/ OperatorEnd
  BY <1>8, InterruptInv, RestartInv, StandingInv, RebuildInv
<1>9. QED
  BY <1>1, <1>2, <1>3, <1>4, <1>5, <1>6, <1>7, <1>8 DEF OutboxNext

-----------------------------------------------------------------------------
(* What follows from it. *)

\* The strengthening of all the invariants of the outbox is inductive: permit, rows,
\* checks and gateway stay tied together through every interleaving and restart.
THEOREM OutboxInvariant == OutboxSpec => []OutboxInv
  BY OutboxInitInv, OutboxNextInv, PTL DEF OutboxSpec

\* The type invariant, for any bubbles, tapbacks and observers.
THEOREM OutboxTypeCorrect == OutboxSpec => []OutboxTypeOK
<1>1. OutboxInv => OutboxTypeOK
  BY DEF OutboxInv
<1>2. QED
  BY <1>1, OutboxInvariant, PTL

\* What a row says is the verdict of the gateway, which is true of the phone.
LEMMA OutboxInvTruthful == OutboxInv => LedgerTruthful
<1> SUFFICES ASSUME OutboxInv, NEW a \in Attempts
             PROVE  /\ Landed(state[a]) => apple[a] = "accepted"
                    /\ state[a] = "failed" =>
                         /\ apple[a] # "accepted"
                         /\ bridge[a] \notin {"queued", "written", "lost"}
                         /\ message[a] # "absent" \/ a \in fenced
  BY DEF LedgerTruthful
<1>1. VerdictTruthful
  BY GatewayInvImplies DEF OutboxInv
<1>2. Landed(state[a]) => Landed(Status(a))
  BY DEF OutboxInv, LinkInv, Landed, Status
<1>3. state[a] = "failed" => Status(a) = "failed"
  BY DEF OutboxInv, LinkInv
<1>4. QED
  BY <1>1, <1>2, <1>3 DEF VerdictTruthful, Status

\* Whoever settles a row, and however late, the ledger never contradicts the phone.
THEOREM OutboxLedgerTruthful == OutboxSpec => []LedgerTruthful
  BY OutboxInvariant, OutboxInvTruthful, PTL

\* A bubble is only requested once every row before it is resolved.
LEMMA OutboxInvOrder == OutboxInv => NoOvertaking
<1> SUFFICES ASSUME OutboxInv, NEW a \in Attempts, NEW b \in Attempts,
                    Attempted(a), b \in requests, rowID[a] < rowID[b]
             PROVE  Status(a) # "unknown"
  BY DEF NoOvertaking
<1>1. Attempted(b) /\ a \in Sends /\ b \in Sends
  BY DEF OutboxInv, LinkInv, Sends
<1>2. rowID[a] > 0
  BY <1>1 DEF OutboxInv, OutboxTypeOK, RowInv, Attempted
<1>3. ~Live(a)
  BY <1>1, <1>2 DEF OutboxInv, EarlierToldFirst, Unresolved
<1>4. Landed(state[a]) \/ state[a] = "failed"
  BY <1>1, <1>3 DEF OutboxInv, OutboxTypeOK, RowStates, Live, Attempted, Landed
<1>5. QED
  BY <1>4 DEF OutboxInv, LinkInv, Landed, Status

\* Bubbles reach the phone in ledger order: no bubble is handed to the network
\* while the fate of an earlier one is open.
THEOREM OutboxNoOvertaking == OutboxSpec => []NoOvertaking
  BY OutboxInvariant, OutboxInvOrder, PTL

\* No row is attempted before every earlier outcome is settled and told.
THEOREM OutboxEarlierToldFirst == OutboxSpec => []EarlierToldFirst
<1>1. OutboxInv => EarlierToldFirst
  BY DEF OutboxInv
<1>2. QED
  BY <1>1, OutboxInvariant, PTL

\* A row that was open when its call ended is reported when it is settled.
THEOREM OutboxLateOutcomeReported == OutboxSpec => []LateOutcomeReported
<1>1. OutboxInv => LateOutcomeReported
  BY DEF OutboxInv
<1>2. QED
  BY <1>1, OutboxInvariant, PTL

\* At most one submit is unanswered, and it is the permit holder's.
THEOREM OutboxInFlightHeld == OutboxSpec => []InFlightHeld
<1>1. OutboxInv => InFlightHeld
  BY DEF OutboxInv, HolderInv, InFlightHeld
<1>2. QED
  BY <1>1, OutboxInvariant, PTL

-----------------------------------------------------------------------------
(* The outcome of a bubble is final, and the outbox implements Thread. *)

\* An outcome is written only into an open row, and only tapbacks are rewritten.
LEMMA OutcomeStep ==
  ASSUME OutboxInv, OutboxNext, NEW a \in Attempts, Terminal(a)
  PROVE  state'[a] = state[a]
<1>1. a \in Sends /\ a \notin Tapbacks /\ ~Live(a) /\ state[a] # "none"
  BY OutboxAssumption DEF Sends, Terminal, Live
<1>2. state \in [Sends -> RowStates] /\ cur \in Sends
  BY DEF OutboxInv, OutboxTypeOK
<1>3. \A c : Settles(c) => StateAfter(c)[a] = state[a]
  BY <1>1, <1>2 DEF Settles, StateAfter
<1>4. \A c : StateAfter(c)[a] = state[a]
  BY <1>3 DEF StateAfter
<1>5. CASE GatewayMoves
  BY <1>5 DEF GatewayMoves, outboxVars, rowVars
<1>6. CASE \E f \in Calls : Invoke(f) \/ Repeat(f) \/ Acquire(f)
  BY <1>6 DEF Invoke, Repeat, Acquire, rowVars
<1>7. CASE HolderStep
  <2>1. CASE Earlier
    <3>1. state[cur] = "none"
      BY <2>1 DEF Earlier, OutboxInv, HolderInv
    <3>2. StateAfter(chk[Holder]) \in [Sends -> RowStates]
      BY SettleType DEF OutboxInv, Settlers
    <3>3. QED
      BY <1>1, <1>2, <1>4, <2>1, <3>1, <3>2 DEF Earlier
  <2>2. CASE Poll
    BY <1>4, <2>2 DEF Poll
  <2>3. CASE RecordText \/ RecordTapback
    BY <1>1, <1>2, <2>3 DEF RecordText, RecordTapback, Insert, OutboxInv, HolderInv
  <2>4. CASE SubmitAnswered \/ SubmitFails
    BY <1>1, <1>2, <2>4 DEF SubmitAnswered, SubmitFails, Live
  <2>5. CASE Reacted
    BY <1>1, <1>2, <2>5 DEF Reacted, OutboxInv, HolderInv
  <2>6. CASE \/ Refused \/ Before \/ Clear \/ Scan \/ EarlierFails \/ Abandon \/ Shut \/ AskPoll
    BY <2>6 DEF Refused, Before, Clear, Scan, EarlierFails, Abandon, Shut, AskPoll, rowVars
  <2>7. QED
    BY <1>7, <2>1, <2>2, <2>3, <2>4, <2>5, <2>6 DEF HolderStep
<1>8. CASE \E x \in Settlers : Execute(x) \/ StatusFails(x)
  BY <1>8 DEF Execute, StatusFails, rowVars
<1>9. CASE \E o \in Observers : Observe(o) \/ Reconcile(o) \/ ObserverSettles(o) \/ ObserverFails(o)
  BY <1>4, <1>9 DEF Observe, Reconcile, ObserverSettles, ObserverFails, rowVars
<1>10. CASE \E s \in Tapbacks : ReleaseLegacy(s)
  BY <1>1, <1>2, <1>10 DEF ReleaseLegacy, Sends
<1>11. CASE Interrupt \/ Restart \/ Block \/ Rebuild \/ Rebuilt \/ PersonaEnd \/ OperatorEnd
  BY <1>11 DEF Interrupt, Restart, Block, Rebuild, Rebuilt, PersonaEnd, OperatorEnd, rowVars
<1>12. QED
  BY <1>5, <1>6, <1>7, <1>8, <1>9, <1>10, <1>11 DEF OutboxNext

\* However slow an observer is, the outcome of a bubble is never overwritten.
THEOREM OutboxOutcomeFinal == OutboxSpec => OutcomeFinal
<1>1. OutboxInv /\ [OutboxNext]_vars
        => [\A a \in Attempts : Terminal(a) => state'[a] = state[a]]_vars
  BY OutcomeStep
<1>2. QED
  BY <1>1, OutboxInvariant, PTL DEF OutboxSpec, OutcomeFinal

-----------------------------------------------------------------------------
(* The refinement: what each step of the outbox is to the phone. *)

\* What a bubble that is not attempted, or whose outcome is failed, looks like to
\* Apple: a decision can only come while the row is open.
LEMMA DecidedWhileOpen ==
  ASSUME OutboxInv, NEW a \in Attempts, apple[a] = "none", bridge[a] \in {"written", "lost"}
  PROVE  Live(a)
<1>1. LedgerTruthful
  BY OutboxInvTruthful
<1>2. state[a] # "failed" /\ ~Landed(state[a])
  BY <1>1 DEF LedgerTruthful
<1>3. message[a] # "absent"
  BY DEF OutboxInv, GatewayInv, Untouched
<1>4. Attempted(a)
  BY <1>3 DEF OutboxInv, LinkInv
<1>5. QED
  BY <1>2, <1>4 DEF OutboxInv, OutboxTypeOK, RowStates, Sends, Live, Landed, Attempted

\* Apple has decided nothing about a bubble without an attempted row.
LEMMA UnattemptedUndecided ==
  ASSUME OutboxInv, NEW a \in Attempts, ~Attempted(a)
  PROVE  apple[a] = "none"
<1>1. message[a] = "absent"
  BY DEF OutboxInv, LinkInv
<1>2. QED
  BY <1>1 DEF OutboxInv, GatewayInv, GatewayTypeOK, AppleStates, Untouched, Counted

\* A step that moves one bubble from one phase to the next, and no other.
PhaseStep(a, from, to) ==
  /\ BubblePhase[a] = from /\ BubblePhase'[a] = to
  /\ \A b \in Attempts \ {a} : BubblePhase'[b] = BubblePhase[b]

\* Changing the phase of one bubble is a step of the thread if it is one for that bubble.
LEMMA PhaseStepExcept ==
  ASSUME NEW a \in Attempts, NEW from, NEW to, PhaseStep(a, from, to)
  PROVE  BubblePhase' = [BubblePhase EXCEPT ![a] = to]
  BY DEF PhaseStep, BubblePhase

\* Steps that neither let Apple decide nor change the row of a bubble stutter.
LEMMA PhaseStutter ==
  ASSUME apple' = apple, \A a \in Attempts : state'[a] = state[a]
  PROVE  BubblePhase' = BubblePhase
  BY DEF BubblePhase, Live

\* The answer of a check moves an open bubble to the dead, or changes nothing: a
\* landed one has landed before.
LEMMA SettleKills ==
  ASSUME OutboxInv, OutboxInv', apple' = apple, NEW x \in Settlers,
         \A a \in Attempts : state'[a] = StateAfter(chk[x])[a]
                             \/ (state[a] = "none" /\ state'[a] = "not_sent")
  PROVE  BubblePhase' = BubblePhase \/ \E a \in Attempts : PhaseStep(a, "open", "dead")
<1>1. \A a \in Attempts : Landed(state'[a]) => apple[a] = "accepted"
  BY DEF OutboxInv, LinkInv, GatewayInv, Known, Landed
<1>2. \A a \in Attempts : a # chk[x].row \/ ~Settles(chk[x]) => StateAfter(chk[x])[a] = state[a]
  BY DEF StateAfter, OutboxInv, OutboxTypeOK, Sends
<1>3. \A a \in Attempts : state'[a] = state[a] \/ (state[a] = "none" /\ state'[a] = "not_sent")
        => BubblePhase'[a] = BubblePhase[a]
  BY DEF BubblePhase, Live
<1>4. CASE chk[x].row \notin Attempts \/ ~Settles(chk[x])
  BY <1>2, <1>3, <1>4 DEF BubblePhase
<1>5. CASE chk[x].row \in Attempts /\ Settles(chk[x])
  <2> DEFINE v == chk[x].verdict
  <2>1. PICK a \in Attempts : a = chk[x].row
    BY <1>5
  <2>2. Live(a) /\ state[a] # "none" /\ StateAfter(chk[x])[a] = v
    BY <1>5, <2>1 DEF Settles, StateAfter, OutboxInv, OutboxTypeOK, Sends, Live
  <2>3. v \in {"sent", "delivered", "failed"}
    BY <1>5 DEF Settles, OutboxInv, OutboxTypeOK, Check, Verdicts
  <2>4. state'[a] = v
    BY <2>2
  <2>5. \A b \in Attempts \ {a} : BubblePhase'[b] = BubblePhase[b]
    BY <1>2, <1>3, <2>1
  <2>6. CASE apple[a] = "accepted"
    BY <2>5, <2>6 DEF BubblePhase
  <2>7. CASE apple[a] # "accepted"
    <3>1. v = "failed"
      BY <1>1, <2>3, <2>4, <2>7 DEF Landed
    <3>2. BubblePhase[a] = "open" /\ BubblePhase'[a] = "dead"
      BY <2>2, <2>4, <2>7, <3>1 DEF BubblePhase, Live
    <3>3. QED
      BY <2>5, <3>2 DEF PhaseStep
  <2>8. QED
    BY <2>6, <2>7
<1>6. QED
  BY <1>4, <1>5

\* Recording a bubble opens it while no other one is open.
LEMMA RecordOpens ==
  ASSUME OutboxInv, RecordText
  PROVE  /\ PhaseStep(cur, "unused", "open")
         /\ \A b \in Attempts : BubblePhase[b] # "open"
<1>1. cur \in Attempts /\ state[cur] = "none" /\ Unresolved = {} /\ apple' = apple
  BY DEF RecordText, OutboxInv, HolderInv, AloneInv, Request
<1>2. state' = [state EXCEPT ![cur] = "recorded"] /\ state \in [Sends -> RowStates]
  BY DEF RecordText, Insert, OutboxInv, OutboxTypeOK
<1>3. apple[cur] = "none"
  BY <1>1, UnattemptedUndecided DEF Attempted
<1>4. \A b \in Attempts : ~Live(b)
  BY <1>1 DEF Unresolved, Sends
<1>5. QED
  BY <1>1, <1>2, <1>3, <1>4 DEF PhaseStep, BubblePhase, Live, Sends

\* Apple's decision lands an open bubble or leaves it open.
LEMMA GatewayLands ==
  ASSUME OutboxInv, GatewayMoves
  PROVE  BubblePhase' = BubblePhase \/ \E a \in Attempts : PhaseStep(a, "open", "landed")
<1>1. state' = state
  BY DEF GatewayMoves, outboxVars, rowVars
<1>2. PICK a \in Attempts : GatewayStep(a)
  BY DEF GatewayMoves
<1>3. CASE AppleDecides(a)
  <2>1. PICK outcome \in {"accepted", "rejected"} : apple' = [apple EXCEPT ![a] = outcome]
    BY <1>3 DEF AppleDecides
  <2>2. Live(a) /\ apple[a] = "none"
    BY <1>3, DecidedWhileOpen DEF AppleDecides
  <2>3. apple \in [Attempts -> AppleStates]
    BY DEF OutboxInv, GatewayInv, GatewayTypeOK
  <2>4. CASE outcome = "rejected"
    BY <1>1, <2>1, <2>2, <2>3, <2>4 DEF BubblePhase, Live
  <2>5. CASE outcome = "accepted"
    <3>1. PhaseStep(a, "open", "landed")
      BY <1>1, <2>1, <2>2, <2>3, <2>5 DEF PhaseStep, BubblePhase, Live
    <3>2. QED
      BY <3>1
  <2>6. QED
    BY <2>4, <2>5
<1>4. CASE \/ Admit(a) \/ Reply(a) \/ BridgeDown(a) \/ Submit(a) \/ InputRejected(a)
           \/ Answer(a) \/ LoseAnswer(a) \/ Receipt(a)
  BY <1>1, <1>4, PhaseStutter DEF Admit, Reply, BridgeDown, Submit, InputRejected, Answer,
     LoseAnswer, Receipt
<1>5. QED
  BY <1>2, <1>3, <1>4 DEF GatewayStep

\* Every step of the outbox is a step of the thread, or leaves it as it is.
LEMMA OutboxStepThread ==
  ASSUME OutboxInv, OutboxInv', OutboxNext
  PROVE  \/ BubblePhase' = BubblePhase
         \/ \E a \in Attempts : PhaseStep(a, "open", "landed") \/ PhaseStep(a, "open", "dead")
         \/ \E a \in Attempts : /\ PhaseStep(a, "unused", "open")
                                /\ \A b \in Attempts : BubblePhase[b] # "open"
<1>1. /\ state \in [Sends -> RowStates] /\ cur \in Sends
      /\ \A a \in Attempts : a \in Sends /\ a \notin Tapbacks
  BY OutboxAssumption DEF OutboxInv, OutboxTypeOK, Sends
<1>2. CASE GatewayMoves
  BY <1>2, GatewayLands
<1>3. CASE \E f \in Calls : Invoke(f) \/ Repeat(f) \/ Acquire(f)
  BY <1>3, PhaseStutter DEF Invoke, Repeat, Acquire, rowVars, gatewayVars
<1>4. CASE HolderStep
  <2>1. CASE RecordText
    BY <2>1, RecordOpens DEF RecordText
  <2>2. CASE Earlier
    <3>1. state[cur] = "none" /\ apple' = apple
      BY <2>2 DEF Earlier, OutboxInv, HolderInv, gatewayVars
    <3>2. StateAfter(chk[Holder]) \in [Sends -> RowStates]
      BY SettleType DEF OutboxInv, Settlers
    <3>3. \/ state' = StateAfter(chk[Holder])
          \/ state' = [StateAfter(chk[Holder]) EXCEPT ![cur] = "not_sent"]
      <4>1. CASE StateAfter(chk[Holder])[chk[Holder].row] \in {"recorded", "uncertain"}
        <5>1. ~Settles(chk[Holder])
          BY <1>1, <4>1 DEF Settles, StateAfter, OutboxInv, OutboxTypeOK, Check, Verdicts, Settlers, Live
        <5>2. QED
          BY <2>2, <4>1, <5>1 DEF Earlier, StateAfter
      <4>2. CASE StateAfter(chk[Holder])[chk[Holder].row] \notin {"recorded", "uncertain"}
        BY <2>2, <4>2 DEF Earlier
      <4>3. QED
        BY <4>1, <4>2
    <3>4. \A a \in Attempts : state'[a] = StateAfter(chk[Holder])[a]
                              \/ (state[a] = "none" /\ state'[a] = "not_sent")
      BY <1>1, <3>1, <3>2, <3>3
    <3>5. QED
      BY <3>1, <3>4, SettleKills DEF Settlers
  <2>3. CASE Poll
    BY <2>3, SettleKills DEF Poll, Settlers, gatewayVars
  <2>4. CASE RecordTapback
    BY <1>1, <2>4, PhaseStutter DEF RecordTapback, Insert, gatewayVars
  <2>5. CASE SubmitAnswered \/ SubmitFails
    <3>1. /\ apple' = apple
          /\ \/ state' = state
             \/ state[cur] = "recorded" /\ state' = [state EXCEPT ![cur] = "uncertain"]
      BY <2>5 DEF SubmitAnswered, SubmitFails, gatewayVars
    <3>2. QED
      BY <1>1, <3>1 DEF BubblePhase, Live
  <2>6. CASE Reacted
    BY <1>1, <2>6, PhaseStutter DEF Reacted, OutboxInv, HolderInv, gatewayVars
  <2>7. CASE \/ Refused \/ Before \/ Clear \/ Scan \/ EarlierFails \/ Abandon \/ Shut \/ AskPoll
    BY <2>7, PhaseStutter DEF Refused, Before, Clear, Scan, EarlierFails, Abandon, Shut, AskPoll,
       rowVars, gatewayVars
  <2>8. QED
    BY <1>4, <2>1, <2>2, <2>3, <2>4, <2>5, <2>6, <2>7 DEF HolderStep
<1>5. CASE \E x \in Settlers : Execute(x) \/ StatusFails(x)
  BY <1>5, PhaseStutter DEF Execute, StatusFails, Resolve, rowVars, gatewayVars
<1>6. CASE \E o \in Observers : Observe(o) \/ Reconcile(o) \/ ObserverFails(o)
  BY <1>6, PhaseStutter DEF Observe, Reconcile, ObserverFails, rowVars, gatewayVars
<1>7. CASE \E o \in Observers : ObserverSettles(o)
  BY <1>7, SettleKills DEF ObserverSettles, Settlers, gatewayVars
<1>8. CASE \E s \in Tapbacks : ReleaseLegacy(s)
  BY <1>1, <1>8, PhaseStutter DEF ReleaseLegacy, gatewayVars
<1>9. CASE Interrupt \/ Restart \/ Block \/ Rebuild \/ Rebuilt \/ PersonaEnd \/ OperatorEnd
  BY <1>9, PhaseStutter DEF Interrupt, Restart, Block, Rebuild, Rebuilt, PersonaEnd, OperatorEnd, rowVars,
     gatewayVars
<1>10. QED
  BY <1>2, <1>3, <1>4, <1>5, <1>6, <1>7, <1>8, <1>9 DEF OutboxNext

\* The outbox implements the thread: on the phone, bubbles come one at a time, and
\* none appears after the outbox has given it up.
THEOREM OutboxImplementsThread == OutboxSpec => ImplementsThread
<1>1. OutboxInit => Phone!Init
  BY DEF OutboxInit, GatewayInit, Phone!Init, BubblePhase, Live, Sends
<1>2. OutboxInv /\ OutboxInv' /\ [OutboxNext]_vars => [Phone!Next]_BubblePhase
  <2> SUFFICES ASSUME OutboxInv, OutboxInv', [OutboxNext]_vars
               PROVE  Phone!Next \/ BubblePhase' = BubblePhase
    OBVIOUS
  <2>1. CASE UNCHANGED vars
    BY <2>1, PhaseStutter DEF vars, gatewayVars, outboxVars, rowVars
  <2>2. ASSUME NEW a \in Attempts, PhaseStep(a, "open", "landed") PROVE Phone!Next
    <3>1. Phone!Land(a)
      BY <2>2, PhaseStepExcept DEF Phone!Land, PhaseStep
    <3>2. QED
      BY <3>1 DEF Phone!Next
  <2>3. ASSUME NEW a \in Attempts, PhaseStep(a, "open", "dead") PROVE Phone!Next
    <3>1. Phone!Kill(a)
      BY <2>3, PhaseStepExcept DEF Phone!Kill, PhaseStep
    <3>2. QED
      BY <3>1 DEF Phone!Next
  <2>4. ASSUME NEW a \in Attempts, PhaseStep(a, "unused", "open"),
               \A b \in Attempts : BubblePhase[b] # "open"
        PROVE  Phone!Next
    <3>1. Phone!Open(a)
      BY <2>4, PhaseStepExcept DEF Phone!Open, PhaseStep
    <3>2. QED
      BY <3>1 DEF Phone!Next
  <2>5. CASE OutboxNext
    BY <2>2, <2>3, <2>4, <2>5, OutboxStepThread
  <2>6. QED
    BY <2>1, <2>5
<1>3. QED
  BY <1>1, <1>2, OutboxInvariant, PTL DEF OutboxSpec, ImplementsThread, Phone!Spec

-----------------------------------------------------------------------------
(* The introduction.  As long as no tapback was attempted, the first bubble that is *)
(* attempted is the introduction, if one is needed.                                 *)

\* Nothing is in the ledger, and whoever holds the permit of a conversation that is
\* not over is about to change that with the introduction or with a tapback.
Silent == \A s \in Sends : state[s] = "none"

IntroductionInv ==
  NeedsIntroduction =>
    \/ Attempted(Introduction)
    \/ \E k \in Tapbacks : Attempted(k)
    \/ /\ Silent
       /\ stage # "none" /\ standing # "ended" => cur \in {Introduction} \cup Tapbacks

\* A row that was attempted stays attempted.
LEMMA AttemptedStays ==
  ASSUME OutboxInv, NEW s \in Sends, Attempted(s), OutboxNext
  PROVE  Attempted(s)'
<1>1. state \in [Sends -> RowStates] /\ cur \in Sends
  BY DEF OutboxInv, OutboxTypeOK
<1>2. \A x \in Settlers : StateAfter(chk[x])[s] \notin {"none", "not_sent"}
                          /\ StateAfter(chk[x]) \in [Sends -> RowStates]
  <2> SUFFICES ASSUME NEW x \in Settlers PROVE StateAfter(chk[x])[s] \notin {"none", "not_sent"}
    BY SettleType DEF OutboxInv
  <2>1. Settles(chk[x]) => chk[x].verdict \in {"sent", "delivered", "failed"}
    BY DEF Settles, OutboxInv, OutboxTypeOK, Check, Verdicts
  <2> QED BY <1>1, <2>1 DEF StateAfter, Attempted
<1>3. CASE state'[s] = state[s]
  BY <1>3 DEF Attempted
<1>4. ASSUME NEW x \in Settlers, state'[s] = StateAfter(chk[x])[s] PROVE Attempted(s)'
  BY <1>2, <1>4 DEF Attempted
<1>5. CASE GatewayMoves
  BY <1>3, <1>5 DEF GatewayMoves, outboxVars, rowVars
<1>6. CASE \E f \in Calls : Invoke(f) \/ Repeat(f) \/ Acquire(f)
  BY <1>3, <1>6 DEF Invoke, Repeat, Acquire, rowVars
<1>7. CASE HolderStep
  <2>1. CASE Earlier
    <3>1. s # cur /\ Holder \in Settlers
      BY <2>1 DEF Earlier, OutboxInv, HolderInv, Attempted, Settlers
    <3>2. state'[s] = state[s] \/ state'[s] = StateAfter(chk[Holder])[s]
      BY <1>2, <2>1, <3>1 DEF Earlier
    <3> QED BY <1>3, <1>4, <3>1, <3>2
  <2>2. CASE Poll
    BY <1>4, <2>2 DEF Poll, Settlers
  <2>3. CASE RecordText \/ RecordTapback
    BY <1>1, <1>3, <2>3 DEF RecordText, RecordTapback, Insert, OutboxInv, HolderInv, Attempted
  <2>4. CASE SubmitAnswered \/ SubmitFails \/ Reacted
    BY <1>1, <2>4 DEF SubmitAnswered, SubmitFails, Reacted, Attempted
  <2>5. CASE \/ Refused \/ Before \/ Clear \/ Scan \/ EarlierFails \/ Abandon \/ Shut \/ AskPoll
    BY <1>3, <2>5 DEF Refused, Before, Clear, Scan, EarlierFails, Abandon, Shut, AskPoll, rowVars
  <2> QED BY <1>7, <2>1, <2>2, <2>3, <2>4, <2>5 DEF HolderStep
<1>8. CASE \E x \in Settlers : Execute(x) \/ StatusFails(x)
  BY <1>3, <1>8 DEF Execute, StatusFails, rowVars
<1>9. CASE \E o \in Observers : Observe(o) \/ Reconcile(o) \/ ObserverFails(o)
  BY <1>3, <1>9 DEF Observe, Reconcile, ObserverFails, rowVars
<1>10. CASE \E o \in Observers : ObserverSettles(o)
  BY <1>4, <1>10 DEF ObserverSettles, Settlers
<1>11. CASE \E k \in Tapbacks : ReleaseLegacy(k)
  BY <1>1, <1>11 DEF ReleaseLegacy, Attempted
<1>12. CASE Interrupt \/ Restart \/ Block \/ Rebuild \/ Rebuilt \/ PersonaEnd \/ OperatorEnd
  BY <1>3, <1>12 DEF Interrupt, Restart, Block, Rebuild, Rebuilt, PersonaEnd, OperatorEnd, rowVars
<1> QED BY <1>5, <1>6, <1>7, <1>8, <1>9, <1>10, <1>11, <1>12 DEF OutboxNext

\* With an empty ledger nobody waits for a status, and nothing is under way.
LEMMA SilentFacts ==
  ASSUME OutboxInv, Silent
  PROVE  /\ \A x \in Settlers : chk[x].step = "idle"
         /\ stage \notin {"submitting", "polling", "reacting"}
         /\ \A s \in Sends : ~Live(s)
<1>1. \A s \in Sends : ~Attempted(s)
  BY DEF Silent, Attempted
<1>2. \A x \in Settlers : chk[x].row \in Sends
  BY DEF OutboxInv, OutboxTypeOK, Check
<1>3. \A x \in Settlers : chk[x].step = "idle"
  BY <1>1, <1>2 DEF OutboxInv, CheckInv, CheckTrue
<1>4. stage \notin {"submitting", "polling", "reacting"}
  BY <1>1 DEF OutboxInv, OutboxTypeOK, HolderInv
<1> QED BY <1>3, <1>4 DEF Silent, Live

LEMMA IntroductionStep ==
  ASSUME OutboxInv, IntroductionInv, OutboxNext
  PROVE  IntroductionInv'
<1>1. Introduction \in Sends /\ Tapbacks \subseteq Sends /\ Introduction \in Attempts
      /\ Attempts \cap Tapbacks = {} /\ Holder \in Settlers /\ Observers \subseteq Settlers
  BY OutboxAssumption DEF Sends, Settlers
<1>2. CASE ~NeedsIntroduction \/ Attempted(Introduction) \/ \E k \in Tapbacks : Attempted(k)
  BY <1>1, <1>2, AttemptedStays DEF IntroductionInv
<1> SUFFICES ASSUME NeedsIntroduction, Silent,
                    stage # "none" /\ standing # "ended" => cur \in {Introduction} \cup Tapbacks
             PROVE  IntroductionInv'
  BY <1>2 DEF IntroductionInv
<1>3. /\ \A x \in Settlers : chk[x].step = "idle"
      /\ stage \notin {"submitting", "polling", "reacting"}
      /\ \A s \in Sends : ~Live(s)
  BY SilentFacts
<1>4. ASSUME state' = state,
             stage' # "none" /\ standing' # "ended" => cur' \in {Introduction} \cup Tapbacks
      PROVE  IntroductionInv'
  BY <1>4 DEF IntroductionInv, Silent
<1>5. CASE UNCHANGED <<state, stage, cur, standing>>
  BY <1>4, <1>5
<1>6. CASE GatewayMoves
  BY <1>5, <1>6 DEF GatewayMoves, outboxVars, rowVars, holderVars
<1>7. CASE \E f \in Calls : Invoke(f) \/ Repeat(f)
  BY <1>5, <1>7 DEF Invoke, Repeat, rowVars, holderVars
<1>8. ASSUME NEW f \in Calls, Acquire(f) PROVE IntroductionInv'
  <2>1. state' = state /\ standing' = standing /\ cur' = First(f)
    BY <1>8 DEF Acquire, rowVars
  <2>2. standing # "ended" => IntroductionDue
    BY <1>1 DEF IntroductionDue, Silent, Sends
  <2>3. standing # "ended" => First(f) \in {Introduction} \cup Tapbacks
    BY <2>2 DEF First, Calls
  <2> QED BY <1>4, <2>1, <2>3
<1>9. CASE HolderStep
  <2>1. CASE Refused \/ EarlierFails \/ Abandon \/ Shut
    BY <1>4, <2>1 DEF Refused, EarlierFails, Abandon, Shut, Return, Release, rowVars
  <2>2. CASE Before \/ Clear \/ Scan
    BY <1>4, <2>2 DEF Before, Clear, Scan, rowVars
  <2>3. CASE RecordText \/ RecordTapback
    <3>1. cur \in {Introduction} \cup Tapbacks /\ state' = [state EXCEPT ![cur] = "recorded"]
      BY <2>3 DEF RecordText, RecordTapback, Insert, Active
    <3>2. state'[cur] = "recorded"
      BY <1>1, <3>1 DEF OutboxInv, OutboxTypeOK
    <3>3. \A s \in Sends : s = cur => Attempted(s)'
      BY <3>2 DEF Attempted
    <3>4. Attempted(Introduction)' \/ \E k \in Tapbacks : Attempted(k)'
      BY <1>1, <3>1, <3>3
    <3> QED BY <3>4 DEF IntroductionInv
  <2>4. ~(Earlier \/ SubmitAnswered \/ SubmitFails \/ AskPoll \/ Poll \/ Reacted)
    BY <1>1, <1>3 DEF Earlier, SubmitAnswered, SubmitFails, AskPoll, Poll, Reacted
  <2> QED BY <1>9, <2>1, <2>2, <2>3, <2>4 DEF HolderStep
<1>10. CASE \E x \in Settlers : Execute(x) \/ StatusFails(x)
  BY <1>3, <1>10 DEF Execute, StatusFails
<1>11. CASE \E o \in Observers : Observe(o) \/ Reconcile(o) \/ ObserverFails(o)
  BY <1>5, <1>11 DEF Observe, Reconcile, ObserverFails, rowVars, holderVars
<1>12. CASE \E o \in Observers : ObserverSettles(o)
  BY <1>1, <1>3, <1>12 DEF ObserverSettles
<1>13. CASE \E k \in Tapbacks : ReleaseLegacy(k)
  BY <1>1, <1>3, <1>13 DEF ReleaseLegacy
<1>14. CASE Interrupt \/ Restart
  BY <1>4, <1>14 DEF Interrupt, Restart, Return, Release, rowVars
<1>15. CASE Block \/ Rebuild \/ Rebuilt \/ PersonaEnd \/ OperatorEnd
  BY <1>4, <1>15 DEF Block, Rebuild, Rebuilt, PersonaEnd, OperatorEnd, rowVars, holderVars
<1> QED BY <1>6, <1>7, <1>8, <1>9, <1>10, <1>11, <1>12, <1>13, <1>14, <1>15 DEF OutboxNext

LEMMA OutboxIntroduction == OutboxSpec => []IntroductionInv
<1>1. OutboxInit => IntroductionInv
  BY DEF OutboxInit, IntroductionInv, Silent
<1>2. OutboxInv /\ IntroductionInv /\ [OutboxNext]_vars => IntroductionInv'
  <2>1. CASE UNCHANGED vars
    BY <2>1 DEF vars, outboxVars, rowVars, holderVars, IntroductionInv, Silent, Attempted
  <2> QED BY <2>1, IntroductionStep
<1> QED BY <1>1, <1>2, OutboxInvariant, PTL DEF OutboxSpec

\* Whatever takes the place of the introduction, a tapback went out before it.
THEOREM OutboxIntroducedUnlessTapback ==
  OutboxSpec => [](IntroducedFirst \/ \E k \in Tapbacks : Attempted(k))
<1>1. IntroductionInv => IntroducedFirst \/ \E k \in Tapbacks : Attempted(k)
  BY DEF IntroductionInv, IntroducedFirst, Silent, Attempted, Sends
<1> QED BY <1>1, OutboxIntroduction, PTL

\* Where a conversation has no tapbacks, a new relationship begins with the
\* introduction, whatever fails, restarts or is rebuilt meanwhile.
THEOREM OutboxIntroducedFirst ==
  ASSUME Tapbacks = {} PROVE OutboxSpec => []IntroducedFirst
<1>1. (IntroducedFirst \/ \E k \in Tapbacks : Attempted(k)) => IntroducedFirst
  OBVIOUS
<1> QED BY <1>1, OutboxIntroducedUnlessTapback, PTL

-----------------------------------------------------------------------------
(* The gateway under its real client: it never does to it what any client might not. *)

LEMMA OutboxIsClient ==
  ASSUME OutboxInv, OutboxNext
  PROVE  GatewayNext \/ UNCHANGED gatewayVars
<1>1. CASE GatewayMoves
  BY <1>1 DEF GatewayMoves, GatewayNext
<1>2. CASE \E f \in Calls : Invoke(f) \/ Repeat(f) \/ Acquire(f)
  BY <1>2 DEF Invoke, Repeat, Acquire
<1>3. CASE HolderStep
  <2>1. CASE RecordText
    BY <2>1 DEF RecordText, GatewayNext
  <2>2. CASE \/ Refused \/ Before \/ Clear \/ Scan \/ Earlier \/ EarlierFails \/ Abandon \/ Shut
             \/ RecordTapback \/ SubmitAnswered \/ SubmitFails \/ AskPoll \/ Poll \/ Reacted
    BY <2>2 DEF Refused, Before, Clear, Scan, Earlier, EarlierFails, Abandon, Shut, RecordTapback,
       SubmitAnswered, SubmitFails, AskPoll, Poll, Reacted
  <2> QED BY <1>3, <2>1, <2>2 DEF HolderStep
<1>4. ASSUME NEW x \in Settlers, Execute(x) PROVE GatewayNext \/ UNCHANGED gatewayVars
  <2>1. CASE UNCHANGED gatewayVars
    BY <2>1
  <2>2. CASE chk[x].mode = "resolve" /\ Resolve(chk[x].row)
    <3>1. chk[x].row \in Attempts
      <4>1. chk[x].row \in Sends /\ chk[x].row \notin Tapbacks
        BY <1>4, <2>2 DEF Execute, OutboxInv, OutboxTypeOK, Check, CheckInv, CheckTrue
      <4> QED BY <4>1 DEF Sends
    <3> QED BY <2>2, <3>1 DEF GatewayNext
  <2> QED BY <1>4, <2>1, <2>2 DEF Execute
<1>5. CASE \E x \in Settlers : StatusFails(x)
  BY <1>5 DEF StatusFails
<1>6. CASE \E o \in Observers : Observe(o) \/ Reconcile(o) \/ ObserverSettles(o) \/ ObserverFails(o)
  BY <1>6 DEF Observe, Reconcile, ObserverSettles, ObserverFails
<1>7. CASE \E s \in Tapbacks : ReleaseLegacy(s)
  BY <1>7 DEF ReleaseLegacy
<1>8. CASE Interrupt \/ Restart \/ Block \/ Rebuild \/ Rebuilt \/ PersonaEnd \/ OperatorEnd
  BY <1>8 DEF Interrupt, Restart, Block, Rebuild, Rebuilt, PersonaEnd, OperatorEnd
<1> QED BY <1>1, <1>2, <1>3, <1>4, <1>5, <1>6, <1>7, <1>8 DEF OutboxNext

\* The outbox uses the gateway only as its clients may: it requests and resolves
\* attempts, tapbacks are never resolved.
THEOREM OutboxImplementsGateway == OutboxSpec => GatewaySpec
<1>1. OutboxInit => GatewayInit
  BY DEF OutboxInit
<1>2. OutboxInv /\ [OutboxNext]_vars => [GatewayNext]_gatewayVars
  <2>1. CASE UNCHANGED vars
    BY <2>1 DEF vars
  <2> QED BY <2>1, OutboxIsClient
<1> QED BY <1>1, <1>2, OutboxInvariant, PTL DEF OutboxSpec, GatewaySpec

\* So an attempt of the outbox reaches the bridge at most once (history.outgoing,
\* history.fence).
THEOREM OutboxSubmittedOnce == OutboxSpec => []SubmittedOnce
  BY OutboxImplementsGateway, GatewaySubmittedOnce

\* What the outbox is told of an attempt is what happened on the phone.
THEOREM OutboxVerdictTruthful == OutboxSpec => []VerdictTruthful
  BY OutboxImplementsGateway, GatewayVerdictTruthful

\* What it was told of an attempt is never taken back.
THEOREM OutboxVerdictFinal == OutboxSpec => VerdictFinal
  BY OutboxImplementsGateway, GatewayVerdictFinal

=============================================================================
