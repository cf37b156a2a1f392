------------------------------ MODULE Gateway ------------------------------
(***************************************************************************)
(* The messaging gateway on the Mac, as the application sees it: the       *)
(* durable message history with its send_fence table (imsg                 *)
(* messages/history.ts), the adapter that admits an identified send,       *)
(* submits it to the native bridge and records what the bridge answered    *)
(* (messages/rustpush.ts, messages/bridge.ts), and what Apple did with it  *)
(* (rustpush delivery.rs).                                                 *)
(*                                                                         *)
(* The network between application and gateway keeps every submit request  *)
(* in "requests" and never takes one out: a request may arrive late, or    *)
(* more than once, or not at all, and its answer may be lost.              *)
(***************************************************************************)
EXTENDS Naturals

CONSTANT Attempts   \* attempt identities: the UUIDs minted by the outbox

VARIABLES
  requests,    \* attempts whose submit request was handed to the network
  acked,       \* attempts for which the gateway answered a submit request
  message,     \* row of the history table, by attempt
  fenced,      \* rows of the send_fence table
  bridge,      \* progress of the one bridge call made for the attempt
  apple,       \* what Apple decided about the submission
  submissions  \* history: how often the attempt was written to the bridge

gatewayVars == <<requests, acked, message, fenced, bridge, apple, submissions>>

MessageStates == {"absent", "pending", "sent", "delivered", "failed"}
BridgeStates  == {"idle", "queued", "written", "lost", "done"}
AppleStates   == {"none", "accepted", "rejected"}
Verdicts      == {"unknown", "sent", "delivered", "failed"}

GatewayTypeOK ==
  /\ requests \subseteq Attempts
  /\ acked \subseteq Attempts
  /\ message \in [Attempts -> MessageStates]
  /\ fenced \subseteq Attempts
  /\ bridge \in [Attempts -> BridgeStates]
  /\ apple \in [Attempts -> AppleStates]
  /\ submissions \in [Attempts -> Nat]

GatewayInit ==
  /\ requests = {}
  /\ acked = {}
  /\ message = [a \in Attempts |-> "absent"]
  /\ fenced = {}
  /\ bridge = [a \in Attempts |-> "idle"]
  /\ apple = [a \in Attempts |-> "none"]
  /\ submissions = [a \in Attempts |-> 0]

-----------------------------------------------------------------------------
(* What a client asks. *)

\* A client hands its submit request to the network.
Request(a) ==
  /\ requests' = requests \cup {a}
  /\ UNCHANGED <<acked, message, fenced, bridge, apple, submissions>>

\* Mutant: a missing row is taken for a rejection.
StatusMissingFailed(a) ==
  IF message[a] = "absent" THEN "failed"
  ELSE IF message[a] = "pending" THEN "unknown" ELSE message[a]

\* The status the gateway reports: a row that is still pending, or missing and
\* not fenced, says nothing; a fenced identity counts as failed.
Status(a) ==
  IF message[a] = "absent" /\ a \in fenced THEN "failed"
  ELSE IF message[a] \in {"absent", "pending"} THEN "unknown"
  ELSE message[a]

\* Mutant: resolving reads the status without fencing.
FenceNothing(a) == fenced' = fenced

\* resolveSend: a missing attempt is fenced before its status is read.
Fence(a) == fenced' = IF message[a] = "absent" THEN fenced \cup {a} ELSE fenced

Resolve(a) ==
  /\ Fence(a)
  /\ UNCHANGED <<requests, acked, message, bridge, apple, submissions>>

-----------------------------------------------------------------------------
(* What the gateway, the bridge and Apple do. *)

\* Mutant: the insert does not look at send_fence.
AdmissibleUnfenced(a) == message[a] = "absent"

\* Mutant: a failed attempt may be admitted once more.
AdmissibleAgain(a) == message[a] \in {"absent", "failed"} /\ a \notin fenced

\* A row is inserted for an identity that has none and is not fenced.
Admissible(a) == message[a] = "absent" /\ a \notin fenced

\* A submit request arrives: its row is inserted, and the one bridge call it
\* authorises is started.
Admit(a) ==
  /\ a \in requests
  /\ Admissible(a)
  /\ message' = [message EXCEPT ![a] = "pending"]
  /\ bridge' = [bridge EXCEPT ![a] = "queued"]
  /\ UNCHANGED <<requests, acked, fenced, apple, submissions>>

\* The request is answered: at once when it was not admitted, otherwise when the
\* bridge call ended or settleMillis passed, whichever comes first.
Reply(a) ==
  /\ a \in requests
  /\ message[a] # "absent" \/ a \in fenced
  /\ acked' = acked \cup {a}
  /\ UNCHANGED <<requests, message, fenced, bridge, apple, submissions>>

\* The row is settled only while it is pending.
Settled(a, state) ==
  message' = IF message[a] = "pending" THEN [message EXCEPT ![a] = state] ELSE message

\* No bridge is ready: the call fails before anything was written.
BridgeDown(a) ==
  /\ bridge[a] = "queued"
  /\ bridge' = [bridge EXCEPT ![a] = "done"]
  /\ Settled(a, "failed")
  /\ UNCHANGED <<requests, acked, fenced, apple, submissions>>

\* The request is written to a ready bridge.
Submit(a) ==
  /\ bridge[a] = "queued"
  /\ bridge' = [bridge EXCEPT ![a] = "written"]
  /\ submissions' = [submissions EXCEPT ![a] = @ + 1]
  /\ UNCHANGED <<requests, acked, message, fenced, apple>>

\* The bridge refuses the request at its input stage: nothing reached Apple.
InputRejected(a) ==
  /\ bridge[a] = "written"
  /\ apple[a] = "none"
  /\ bridge' = [bridge EXCEPT ![a] = "done"]
  /\ Settled(a, "failed")
  /\ UNCHANGED <<requests, acked, fenced, apple, submissions>>

\* Apple accepts the message for some device of the recipient, or all of them
\* reject it. A submission whose answer was lost may still be decided.
AppleDecides(a) ==
  /\ bridge[a] \in {"written", "lost"}
  /\ submissions[a] > 0
  /\ apple[a] = "none"
  /\ \E outcome \in {"accepted", "rejected"} : apple' = [apple EXCEPT ![a] = outcome]
  /\ UNCHANGED <<requests, acked, message, fenced, bridge, submissions>>

\* The bridge answers with Apple's decision, which settles the row.
Answer(a) ==
  /\ bridge[a] = "written"
  /\ apple[a] # "none"
  /\ bridge' = [bridge EXCEPT ![a] = "done"]
  /\ Settled(a, IF apple[a] = "accepted" THEN "sent" ELSE "failed")
  /\ UNCHANGED <<requests, acked, fenced, apple, submissions>>

\* Mutant: a lost answer settles the row as failed.
LoseAnswerFails(a) ==
  /\ bridge[a] \in {"queued", "written"}
  /\ bridge' = [bridge EXCEPT ![a] = "lost"]
  /\ Settled(a, "failed")
  /\ UNCHANGED <<requests, acked, fenced, apple, submissions>>

\* The answer is lost: the bridge or the gateway exits, the request times out,
\* or the devices left the outcome unconfirmed. The row stays as it is.
LoseAnswer(a) ==
  /\ bridge[a] \in {"queued", "written"}
  /\ bridge' = [bridge EXCEPT ![a] = "lost"]
  /\ UNCHANGED <<requests, acked, message, fenced, apple, submissions>>

\* A delivery or read receipt arrives from the recipient.
Receipt(a) ==
  /\ apple[a] = "accepted"
  /\ message[a] # "absent"
  /\ message' = [message EXCEPT ![a] = "delivered"]
  /\ UNCHANGED <<requests, acked, fenced, bridge, apple, submissions>>

GatewayStep(a) ==
  \/ Admit(a) \/ Reply(a) \/ BridgeDown(a) \/ Submit(a) \/ InputRejected(a)
  \/ AppleDecides(a) \/ Answer(a) \/ LoseAnswer(a) \/ Receipt(a)

\* Any client: requests and resolutions in any order, any number of times.
GatewayNext == \E a \in Attempts : GatewayStep(a) \/ Request(a) \/ Resolve(a)

GatewaySpec == GatewayInit /\ [][GatewayNext]_gatewayVars

-----------------------------------------------------------------------------
(* Properties. *)

Landed(state) == state \in {"sent", "delivered"}

\* However often a request is delivered, whatever is restarted between, and
\* whenever the identity is fenced, the attempt is written to the bridge at
\* most once, and never after its status was first reported as failed by a
\* fence (history.outgoing and history.fence race on the same identity).
SubmittedOnce ==
  \A a \in Attempts :
    /\ submissions[a] <= 1
    /\ a \in fenced => submissions[a] = 0 /\ bridge[a] = "idle"

\* A verdict is the truth about the recipient's phone: "failed" is reported only
\* when Apple has not accepted the message and no longer can, "sent" and
\* "delivered" only when it has (rustpush.ts settle treats a lost answer as doubt).
VerdictTruthful ==
  \A a \in Attempts :
    /\ Landed(Status(a)) => apple[a] = "accepted"
    /\ Status(a) = "failed" =>
         apple[a] # "accepted" /\ bridge[a] \notin {"queued", "written", "lost"}

\* A client that was told failed may send again, one that was told sent may not:
\* no later step turns one answer into the other or back into doubt.
VerdictFinal ==
  [][\A a \in Attempts :
       /\ Status(a) = "failed" => Status(a)' = "failed"
       /\ Landed(Status(a)) => Landed(Status(a)')]_gatewayVars

=============================================================================
