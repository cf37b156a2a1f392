--------------------------- MODULE GatewayProofs ---------------------------
(***************************************************************************)
(* Proofs about Gateway, for any set of attempts.  Every property follows  *)
(* from one inductive invariant, which ties the row of an attempt to how   *)
(* far its bridge call is and to what Apple decided.                       *)
(***************************************************************************)
EXTENDS Gateway, TLAPS

\* An attempt without a row has never touched the bridge, and a fenced attempt
\* has no row; this is what makes a fence final.
Untouched(a) ==
  /\ message[a] = "absent" => bridge[a] = "idle"
  /\ a \in fenced => message[a] = "absent"

\* A submission is counted once, when the queued call is written.
Counted(a) ==
  /\ submissions[a] \in {0, 1}
  /\ bridge[a] \in {"idle", "queued"} => submissions[a] = 0
  /\ apple[a] # "none" => submissions[a] = 1 /\ bridge[a] # "idle" /\ bridge[a] # "queued"

\* The row of an attempt says no more than what is known.
Known(a) ==
  /\ bridge[a] = "queued" => message[a] = "pending"
  /\ bridge[a] = "written" => message[a] # "failed"
  /\ message[a] = "failed" => bridge[a] = "done" /\ apple[a] # "accepted"
  /\ message[a] \in {"sent", "delivered"} => apple[a] = "accepted"

GatewayInv ==
  /\ GatewayTypeOK
  /\ \A a \in Attempts : Untouched(a) /\ Counted(a) /\ Known(a)

\* The invariant holds initially.
LEMMA GatewayInitInv == GatewayInit => GatewayInv
  BY DEF GatewayInit, GatewayInv, GatewayTypeOK, Untouched, Counted, Known,
         MessageStates, BridgeStates, AppleStates

\* One step of the gateway, the bridge or Apple preserves the invariant.
LEMMA GatewayStepInv ==
  ASSUME GatewayInv, NEW a \in Attempts, GatewayStep(a)
  PROVE  GatewayInv'
<1> USE DEF GatewayInv, GatewayTypeOK, Untouched, Counted, Known,
            MessageStates, BridgeStates, AppleStates
<1>1. CASE Admit(a)
  BY <1>1 DEF Admit, Admissible
<1>2. CASE Reply(a)
  BY <1>2 DEF Reply
<1>3. CASE BridgeDown(a)
  BY <1>3 DEF BridgeDown, Settled
<1>4. CASE Submit(a)
  BY <1>4 DEF Submit
<1>5. CASE InputRejected(a)
  BY <1>5 DEF InputRejected, Settled
<1>6. CASE AppleDecides(a)
  BY <1>6 DEF AppleDecides
<1>7. CASE Answer(a)
  BY <1>7 DEF Answer, Settled
<1>8. CASE LoseAnswer(a)
  BY <1>8 DEF LoseAnswer
<1>9. CASE Receipt(a)
  BY <1>9 DEF Receipt
<1>10. QED
  BY <1>1, <1>2, <1>3, <1>4, <1>5, <1>6, <1>7, <1>8, <1>9 DEF GatewayStep

\* What clients ask preserves it too.
LEMMA GatewayClientInv ==
  ASSUME GatewayInv, NEW a \in Attempts, Request(a) \/ Resolve(a)
  PROVE  GatewayInv'
<1> USE DEF GatewayInv, GatewayTypeOK, Untouched, Counted, Known,
            MessageStates, BridgeStates, AppleStates
<1>1. CASE Request(a)
  BY <1>1 DEF Request
<1>2. CASE Resolve(a)
  BY <1>2 DEF Resolve, Fence
<1>3. QED
  BY <1>1, <1>2

\* The invariant is inductive: every step, and every stutter, preserves it.
LEMMA GatewayNextInv == GatewayInv /\ [GatewayNext]_gatewayVars => GatewayInv'
<1> SUFFICES ASSUME GatewayInv, [GatewayNext]_gatewayVars PROVE GatewayInv'
  OBVIOUS
<1>1. CASE UNCHANGED gatewayVars
  BY <1>1 DEF gatewayVars, GatewayInv, GatewayTypeOK, Untouched, Counted, Known
<1>2. CASE GatewayNext
  BY <1>2, GatewayStepInv, GatewayClientInv DEF GatewayNext
<1>3. QED
  BY <1>1, <1>2

\* The inductive invariant holds in every state of the gateway, whatever the
\* clients ask and the network does; the theorems below follow from it.
THEOREM GatewayInvariant == GatewaySpec => []GatewayInv
  BY GatewayInitInv, GatewayNextInv, PTL DEF GatewaySpec

\* A status says landed exactly when the row does.
LEMMA StatusLanded ==
  ASSUME GatewayTypeOK, NEW a \in Attempts
  PROVE  Landed(Status(a)) <=> Landed(message[a])
  BY DEF GatewayTypeOK, MessageStates, Status, Landed

\* No step turns a verdict into another one.
LEMMA GatewayVerdictStep ==
  ASSUME GatewayInv, [GatewayNext]_gatewayVars, NEW a \in Attempts
  PROVE  /\ Status(a) = "failed" => Status(a)' = "failed"
         /\ Landed(Status(a)) => Landed(Status(a)')
<1> USE DEF GatewayInv, GatewayTypeOK, Untouched, Known, MessageStates, Status, Landed
<1>1. CASE UNCHANGED gatewayVars
  BY <1>1 DEF gatewayVars
<1>2. ASSUME NEW b \in Attempts, GatewayStep(b) \/ Request(b) \/ Resolve(b)
      PROVE  /\ Status(a) = "failed" => Status(a)' = "failed"
             /\ Landed(Status(a)) => Landed(Status(a)')
  <2>1. CASE Admit(b) \/ Reply(b) \/ Submit(b) \/ AppleDecides(b) \/ LoseAnswer(b)
    BY <2>1 DEF Admit, Admissible, Reply, Submit, AppleDecides, LoseAnswer
  <2>2. CASE BridgeDown(b) \/ InputRejected(b) \/ Answer(b)
    BY <2>2 DEF BridgeDown, InputRejected, Answer, Settled
  <2>3. CASE Receipt(b)
    BY <2>3 DEF Receipt
  <2>4. CASE Request(b) \/ Resolve(b)
    BY <2>4 DEF Request, Resolve, Fence
  <2>5. QED
    BY <1>2, <2>1, <2>2, <2>3, <2>4 DEF GatewayStep
<1>3. QED
  BY <1>1, <1>2 DEF GatewayNext

\* The inductive invariant contains the invariants that the runs check.
LEMMA GatewayInvImplies == GatewayInv => GatewayTypeOK /\ SubmittedOnce /\ VerdictTruthful
  BY DEF GatewayInv, GatewayTypeOK, Untouched, Counted, Known, MessageStates, BridgeStates,
         AppleStates, SubmittedOnce, VerdictTruthful, Landed, Status

\* The type invariant, for any set of attempts.
THEOREM GatewayTypeCorrect == GatewaySpec => []GatewayTypeOK
  BY GatewayInvariant, GatewayInvImplies, PTL

\* No attempt reaches the bridge twice, and no fenced attempt reaches it at all:
\* the admission in history.outgoing and the fence in history.fence exclude each
\* other whatever order the two requests arrive in.
THEOREM GatewaySubmittedOnce == GatewaySpec => []SubmittedOnce
  BY GatewayInvariant, GatewayInvImplies, PTL

\* What a status says about an attempt is what happened on the phone.
THEOREM GatewayVerdictTruthful == GatewaySpec => []VerdictTruthful
  BY GatewayInvariant, GatewayInvImplies, PTL

\* A verdict, once reported, is never taken back, whatever arrives afterwards.
THEOREM GatewayVerdictFinal == GatewaySpec => VerdictFinal
<1>1. GatewayInv /\ [GatewayNext]_gatewayVars
        => [\A a \in Attempts :
              /\ Status(a) = "failed" => Status(a)' = "failed"
              /\ Landed(Status(a)) => Landed(Status(a)')]_gatewayVars
  BY GatewayVerdictStep
<1>2. QED
  BY <1>1, GatewayInvariant, PTL DEF GatewaySpec, VerdictFinal

=============================================================================
