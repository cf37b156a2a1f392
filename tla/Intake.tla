------------------------------- MODULE Intake -------------------------------
(***************************************************************************)
(* How the messages of one user reach the persona's session                *)
(* (apps/api/src/intake): the history on the Mac, the bookmark and the     *)
(* durable queue that a poll fills, and the reader that drains the queue,  *)
(* one row at a time, into the live session of the conversation.           *)
(*                                                                         *)
(* A step ends where the code waits.  The handle's lock is held by the     *)
(* reader from its checks to the receipt of the row, and by a rebuild      *)
(* while it replaces or releases a session; it is not a variable, for the  *)
(* stages of its holders say who has it.                                   *)
(***************************************************************************)
EXTENDS Naturals, Sequences, FiniteSetsExt, SequencesExt

CONSTANTS
  MaxRows,      \* messages the user sends
  MaxSessions,  \* sessions the executor creates
  PollLimit     \* rows taken by one poll: 100 in the code

ASSUME IntakeAssumption ==
  /\ MaxRows \in Nat
  /\ MaxSessions \in Nat \ {0}
  /\ PollLimit \in Nat \ {0}

\* A message is named by its date; a session by the order of its creation.
Rows     == 1 .. MaxRows
Sessions == 1 .. MaxSessions
None     == 0

VARIABLES
  history,      \* the Mac's messages of the user; the position is the row id
  sent,         \* the date of the last message he sent
  bookmark,     \* the last row a poll acknowledged, by id and date
  pending,      \* intake_pending: the rows that wait for the reader
  session,      \* the session of the conversation
  rebuilding,   \* the session is not live before the history was replayed
  source,       \* replay_source_session_id: whose receipts bound the replay
  standing,     \* what the directory says of the conversation
  seen,         \* intake_seen: receipts of rows, by session
  present,      \* sessions that exist in the executor
  writable,     \* sessions that may write State and Memory
  transcript,   \* the rows each session was prompted with
  reader        \* how far the drain is with the head of the queue

macVars       == <<history, sent>>
queueVars     == <<bookmark, pending>>
directoryVars == <<session, rebuilding, source, standing>>
executorVars  == <<present, writable, transcript>>
intakeVars    == <<macVars, queueVars, directoryVars, seen, executorVars, reader>>

ReaderStages == {"idle", "looked", "prompting", "recording", "received"}

IntakeTypeOK ==
  /\ history \in Seq(Rows)
  /\ sent \in 0 .. MaxRows
  /\ bookmark \in [id : Nat, row : 0 .. MaxRows]
  /\ pending \in Seq(Rows)
  /\ session \in Sessions
  /\ rebuilding \in BOOLEAN
  /\ source \in Sessions \cup {None}
  /\ standing \in {"open", "blocked", "ended"}
  /\ seen \in [Sessions -> SUBSET Rows]
  /\ present \subseteq Sessions
  /\ writable \subseteq Sessions
  /\ transcript \in [Sessions -> Seq(Rows)]
  /\ reader \in [stage : ReaderStages, session : Sessions \cup {None}]

Waiting == [stage |-> "idle", session |-> None]

\* The first contact has created the conversation with its first session.
IntakeInit ==
  /\ history = <<>> /\ sent = 0
  /\ bookmark = [id |-> 0, row |-> 0] /\ pending = <<>>
  /\ session = 1 /\ rebuilding = FALSE /\ source = None /\ standing = "open"
  /\ seen = [s \in Sessions |-> {}]
  /\ present = {1} /\ writable = {1}
  /\ transcript = [s \in Sessions |-> <<>>]
  /\ reader = Waiting

-----------------------------------------------------------------------------
(* The Mac. *)

Arrive ==
  /\ sent < MaxRows
  /\ sent' = sent + 1
  /\ history' = Append(history, sent')
  /\ UNCHANGED <<queueVars, directoryVars, seen, executorVars, reader>>

\* The database of the Mac is replaced by one that lacks a message, or, by more than
\* one of these steps, several; the ids of the others start again.
Replace ==
  /\ \E i \in DOMAIN history : history' = RemoveAt(history, i)
  /\ UNCHANGED <<sent, queueVars, directoryVars, seen, executorVars, reader>>

-----------------------------------------------------------------------------
(* poll: acknowledge rows of the Mac and queue them, in one transaction. *)

\* The row the bookmark names is not where it was.
Replaced ==
  /\ bookmark.id > 0
  /\ bookmark.id > Len(history) \/ history[bookmark.id] # bookmark.row

\* Mutant: a replaced history is read from the old row id on.
AheadById == {i \in DOMAIN history : i > bookmark.id}

\* The row ids behind the bookmark; in a replaced history also that of its own row.
Ahead ==
  {i \in DOMAIN history :
     IF Replaced THEN history[i] >= bookmark.row
     ELSE i > bookmark.id \/ history[i] > bookmark.row}

\* These are the end of the history, since its rows are in order, and of them only
\* the bookmark's own can still be in the queue, which takes no row twice.
Poll ==
  LET first == Min(Ahead)
      last  == Min({first + PollLimit - 1, Len(history)})
      fresh == IF history[first] \in Range(pending) THEN first + 1 ELSE first
  IN /\ Ahead # {}
     /\ pending' = pending \o SubSeq(history, fresh, last)
     /\ bookmark' = [id |-> last, row |-> history[last]]
     /\ UNCHANGED <<macVars, directoryVars, seen, executorVars, reader>>

-----------------------------------------------------------------------------
(* What the directory answers. *)

\* lookup: a blocked or ended conversation is not found.
Current(s) == standing = "open" /\ session = s

\* Mutant: the receipt is given to whatever session the conversation has.
ReceiptedAny(s, row) ==
  IF standing # "ended" THEN [seen EXCEPT ![session] = @ \cup {row}] ELSE seen

\* markSeen: the receipt is written while the session is the conversation's.
Receipted(s, row) ==
  IF session = s /\ standing # "ended" THEN [seen EXCEPT ![s] = @ \cup {row}] ELSE seen

\* A prompt carries an id made of session and row, so a repeated one is no new one.
Prompted(s, row) ==
  IF row \in Range(transcript[s]) THEN transcript
  ELSE [transcript EXCEPT ![s] = Append(@, row)]

-----------------------------------------------------------------------------
(* drain and receive: the head of the queue goes into the live session. *)

Admitting == reader.stage \in {"prompting", "recording"}

\* receive: the conversation was restored if it had to be, and is looked up;
\* without one the row is dropped.
Look ==
  /\ reader.stage = "idle"
  /\ pending # <<>>
  /\ \/ /\ standing = "open" /\ ~rebuilding /\ session \in present
        /\ reader' = [stage |-> "looked", session |-> session]
     \/ /\ standing # "open"
        /\ reader' = [stage |-> "received", session |-> None]
  /\ UNCHANGED <<macVars, queueVars, directoryVars, seen, executorVars>>

\* admitLive: under the handle's lock the session must still be the live one.
Admissible == Current(reader.session) /\ ~rebuilding

Admit ==
  /\ reader.stage = "looked"
  /\ \/ /\ ~Admissible
        /\ reader' = Waiting
     \/ /\ Admissible
        /\ reader' = [reader EXCEPT !.stage =
             IF Head(pending) \in seen[session] THEN "received" ELSE "prompting"]
  /\ UNCHANGED <<macVars, queueVars, directoryVars, seen, executorVars>>

LivePrompt ==
  /\ reader.stage = "prompting"
  /\ reader.session \in present
  /\ transcript' = Prompted(reader.session, Head(pending))
  /\ reader' = [reader EXCEPT !.stage = "recording"]
  /\ UNCHANGED <<macVars, queueVars, directoryVars, seen, present, writable>>

\* The executor has lost the session: the prompt fails.
PromptNotFound ==
  /\ reader.stage = "prompting"
  /\ reader.session \notin present
  /\ reader' = Waiting
  /\ UNCHANGED <<macVars, queueVars, directoryVars, seen, executorVars>>

Record ==
  /\ reader.stage = "recording"
  /\ seen' = Receipted(reader.session, Head(pending))
  /\ reader' = [reader EXCEPT !.stage = "received"]
  /\ UNCHANGED <<macVars, queueVars, directoryVars, executorVars>>

\* The row leaves the queue after it was received.
Dequeue ==
  /\ reader.stage = "received"
  /\ pending' = Tail(pending)
  /\ reader' = Waiting
  /\ UNCHANGED <<macVars, bookmark, directoryVars, seen, executorVars>>

\* Mutant: a row that failed goes to the end of the queue.
ReaderFailsBehind ==
  /\ reader.stage # "idle"
  /\ reader' = Waiting
  /\ pending' = Append(Tail(pending), Head(pending))
  /\ UNCHANGED <<macVars, bookmark, directoryVars, seen, executorVars>>

\* A call of the reader fails, or 30 seconds pass: the row stays and is retried.
ReaderFails ==
  /\ reader.stage # "idle"
  /\ reader' = Waiting
  /\ UNCHANGED <<macVars, queueVars, directoryVars, seen, executorVars>>

=============================================================================
