--------------------------- MODULE RebuildProofs ----------------------------
(***************************************************************************)
(* Proofs about Rebuild and the intake beside it, for any number of rows,  *)
(* sessions, rebuilds and failures.                                        *)
(***************************************************************************)
EXTENDS Rebuild, DataLemmas

Mac     == Range(history)
Told(s) == Range(transcript[s])

\* The rows in the Mac's database and in the queue stand in the order of sending,
\* the queue ends with the bookmark, and the reader is busy with a row of it.
QueueInv ==
  /\ \A i, j \in DOMAIN history : i < j => history[i] < history[j]
  /\ \A i \in DOMAIN history :
       /\ history[i] <= sent
       /\ history[i] = bookmark.row => i <= bookmark.id
  /\ bookmark.row <= sent
  /\ bookmark.id = 0 => bookmark.row = 0
  /\ \A i, j \in DOMAIN pending : i < j => pending[i] < pending[j]
  /\ \A i \in DOMAIN pending : pending[i] <= bookmark.row
  /\ reader.stage # "idle" => pending # <<>>

\* What is ahead of a session: no row it knows was sent later.
Foremost  == IF pending = <<>> THEN bookmark.row ELSE Head(pending)
BehindInv == \A s \in Sessions : \A row \in seen[s] \cup Told(s) : row <= Foremost

\* Who holds the locks, and what cannot change meanwhile.
LockInv ==
  /\ \A x, y \in Runners : run[x].stage \in Locked /\ run[y].stage \in Locked => x = y
  /\ Admitting => LifecycleFree /\ session = reader.session /\ ~rebuilding
  /\ \A x, y \in Runners :
       run[x].stage \in Replaying /\ run[y].stage \in Replaying
         /\ run[x].target = run[y].target => x = y

\* Sessions are created in order, and one that is to come has left no trace.
SessionInv ==
  /\ session <= lastSession
  /\ rebuilding => standing # "ended" /\ source # None
  /\ source # None => source < session
  /\ \A x \in Runners :
       /\ run[x].stage # "idle" =>
            run[x].old \in 1 .. lastSession /\ run[x].target \in 1 .. lastSession
       /\ run[x].stage \in {"fencing", "creating"} => lastSession < MaxSessions
  /\ \A s \in Sessions : s > lastSession =>
       /\ s \notin present /\ s \notin writable
       /\ seen[s] = {} /\ transcript[s] = <<>> /\ saved[s] = 0

\* A rebuild of the conversation's session is needed until it is finished, and one
\* that completes is the conversation's.
Underway == Replaying \ {"removing"}
TargetInv ==
  \A x \in Runners :
    /\ run[x].stage \in Underway /\ run[x].target = session /\ standing # "ended" => rebuilding
    /\ run[x].stage \in {"releasing", "finishing"} => run[x].target = session /\ rebuilding

\* The session has a receipt of every row up to place n that the session before had.
Covered(n) ==
  \A i \in DOMAIN history : i <= n /\ history[i] \in seen[source] => history[i] \in seen[session]

CursorInv ==
  /\ \A s \in Sessions : saved[s] <= Len(history)
  /\ rebuilding /\ standing = "open" => Covered(saved[session])
  /\ \A x \in Runners :
       /\ run[x].stage \in {"replaying", "admitting", "marking"} => run[x].cursor <= Len(history)
       /\ run[x].stage \in {"admitting", "marking"} => run[x].cursor < Len(history)
       /\ run[x].stage \in {"replaying", "admitting", "marking"} /\ Current(run[x].target)
            => Covered(run[x].cursor)
       /\ run[x].stage = "settling" /\ Current(run[x].target) => Covered(Len(history))
       /\ run[x].stage \in {"releasing", "finishing"} => Covered(Len(history))
  /\ rebuilding /\ session \in writable => Covered(Len(history))

\* What a replay knows of the row it prompts.
RowInv ==
  \A x \in Runners :
    /\ run[x].stage \in {"admitting", "marking"} /\ session = run[x].target /\ standing # "ended"
         => Row(x) \in seen[source]
    /\ run[x].stage = "admitting" /\ Current(run[x].target) => Row(x) \notin seen[session]
    /\ run[x].stage = "marking" /\ Current(run[x].target) => Row(x) \in Told(session)

\* What a session that is rebuilt was told, it was told in order.
PrefixInv ==
  rebuilding /\ standing = "open" =>
    \A row \in Told(session) : \A i \in DOMAIN history :
      history[i] < row /\ history[i] \in seen[source] => history[i] \in seen[session]

\* What the reader knows of the row it prompts.
ReaderInv ==
  /\ reader.stage = "recording" => Head(pending) \in Told(session)
  /\ reader.stage = "received" /\ standing = "open" /\ Head(pending) \in Mac
       => Head(pending) \in Known

\* Without a replacement the Mac keeps everything.
KeptInv ==
  ~Replacing =>
    /\ \A i \in DOMAIN pending : pending[i] \in Mac
    /\ \A s \in Sessions : seen[s] \subseteq Mac

RebuildInv ==
  /\ RebuildTypeOK /\ QueueInv /\ BehindInv
  /\ LockInv /\ SessionInv /\ TargetInv
  /\ CursorInv /\ RowInv /\ PrefixInv /\ ReaderInv
  /\ ReceiptsTrue /\ InOrder /\ NoRowLost /\ KeptInv

-----------------------------------------------------------------------------
(* Sequences. *)

LEMMA RangeOfRows ==
  ASSUME NEW S, NEW seq \in Seq(S), NEW r
  PROVE  r \in Range(seq) <=> \E i \in 1 .. Len(seq) : seq[i] = r
  BY DEF Range

LEMMA AppendedRow ==
  ASSUME NEW S, NEW seq \in Seq(S), NEW e \in S
  PROVE  /\ Append(seq, e) \in Seq(S) /\ Len(Append(seq, e)) = Len(seq) + 1
         /\ \A i \in 1 .. Len(seq) + 1 : Append(seq, e)[i] = IF i <= Len(seq) THEN seq[i] ELSE e
         /\ Range(Append(seq, e)) = Range(seq) \cup {e}
<1>1. /\ Append(seq, e) \in Seq(S) /\ Len(Append(seq, e)) = Len(seq) + 1
      /\ \A i \in 1 .. Len(seq) + 1 : Append(seq, e)[i] = IF i <= Len(seq) THEN seq[i] ELSE e
  BY AppendProperties
<1>2. Len(seq) \in Nat
  OBVIOUS
<1>3. ASSUME NEW r PROVE r \in Range(Append(seq, e)) <=> r \in Range(seq) \cup {e}
  <2>1. r \in Range(Append(seq, e)) <=> \E i \in 1 .. Len(seq) + 1 : Append(seq, e)[i] = r
    BY <1>1, RangeOfRows
  <2>2. r \in Range(seq) <=> \E i \in 1 .. Len(seq) : seq[i] = r
    BY RangeOfRows
  <2>3. Len(seq) + 1 \in 1 .. Len(seq) + 1 /\ Append(seq, e)[Len(seq) + 1] = e
    BY <1>1, <1>2
  <2>4. \A i \in 1 .. Len(seq) : i \in 1 .. Len(seq) + 1 /\ Append(seq, e)[i] = seq[i]
    BY <1>1, <1>2
  <2>5. \A i \in 1 .. Len(seq) + 1 : i \in 1 .. Len(seq) \/ i = Len(seq) + 1
    BY <1>2
  <2> QED BY <2>1, <2>2, <2>3, <2>4, <2>5
<1> QED BY <1>1, <1>3

-----------------------------------------------------------------------------
(* Types. *)

Typed ==
  /\ IntakeTypeOK
  /\ run \in [Runners -> Runs]
  /\ saved \in [Sessions -> Nat]
  /\ lastSession \in Sessions
  /\ faults \in 0 .. MaxFaults

LEMMA Constants ==
  /\ MaxRows \in Nat /\ MaxSessions \in Nat /\ 1 \in Sessions /\ Sessions \subseteq Nat \ {0}
  /\ Rows \subseteq Nat \ {0} /\ None = 0 /\ None \notin Sessions
  /\ PollLimit \in Nat /\ PollLimit >= 1
  BY IntakeAssumption DEF Sessions, Rows, None

LEMMA RebuildInitial == RebuildInit => RebuildInv
<1> SUFFICES ASSUME RebuildInit PROVE RebuildInv
  OBVIOUS
<1> USE Constants DEF RebuildInit, IntakeInit, Idle, Waiting
<1>1. RebuildTypeOK
  <2>1. IntakeTypeOK
    <3>1. history \in Seq(Rows) /\ pending \in Seq(Rows)
      BY EmptySeq
    <3>2. transcript \in [Sessions -> Seq(Rows)] /\ seen \in [Sessions -> SUBSET Rows]
      BY EmptySeq
    <3>3. sent \in 0 .. MaxRows /\ bookmark \in [id : Nat, row : 0 .. MaxRows]
      OBVIOUS
    <3>4. present \subseteq Sessions /\ writable \subseteq Sessions /\ session \in Sessions
      OBVIOUS
    <3> QED BY <3>1, <3>2, <3>3, <3>4 DEF IntakeTypeOK, ReaderStages
  <2>2. run \in [Runners -> Runs]
    BY DEF Runs, Stages
  <2>3. saved \in [Sessions -> Nat] /\ lastSession \in Sessions /\ faults \in 0 .. MaxFaults
    BY RebuildAssumption
  <2> QED BY <2>1, <2>2, <2>3 DEF RebuildTypeOK
<1>2. QueueInv
  BY DEF QueueInv
<1>3. BehindInv /\ InOrder
  BY DEF BehindInv, InOrder, Told, Range
<1>4. LockInv /\ TargetInv
  BY DEF LockInv, TargetInv, Locked, Replaying, Underway, Admitting
<1>5. SessionInv
  BY DEF SessionInv, Sessions
<1>6. CursorInv /\ RowInv /\ PrefixInv /\ ReaderInv
  BY DEF CursorInv, RowInv, PrefixInv, ReaderInv
<1>7. ReceiptsTrue /\ NoRowLost /\ KeptInv
  BY DEF ReceiptsTrue, NoRowLost, KeptInv
<1> QED BY <1>1, <1>2, <1>3, <1>4, <1>5, <1>6, <1>7 DEF RebuildInv

\* The row that a replay is about to prompt or to mark.
LEMMA RowTyped ==
  ASSUME Typed, NEW x \in Runners, run[x].cursor < Len(history)
  PROVE  /\ run[x].cursor \in Nat /\ run[x].cursor + 1 \in 1 .. Len(history)
         /\ Row(x) \in Rows /\ Row(x) = history[run[x].cursor + 1] /\ Row(x) \in Mac
<1>1. run[x].cursor \in Nat /\ history \in Seq(Rows)
  BY DEF Typed, IntakeTypeOK, Runs
<1>2. run[x].cursor + 1 \in 1 .. Len(history)
  BY <1>1
<1>3. Row(x) \in Rows /\ Row(x) = history[run[x].cursor + 1]
  BY <1>1, <1>2 DEF Row
<1>4. Row(x) \in Mac
  BY <1>1, <1>2, <1>3, RangeOfRows DEF Mac
<1> QED BY <1>1, <1>2, <1>3, <1>4

LEMMA HeadTyped ==
  ASSUME Typed, pending # <<>>
  PROVE  /\ Head(pending) \in Rows /\ Head(pending) = pending[1] /\ 1 \in 1 .. Len(pending)
         /\ Head(pending) \in Range(pending)
<1>1. pending \in Seq(Rows)
  BY DEF Typed, IntakeTypeOK
<1>2. Head(pending) \in Rows /\ Head(pending) = pending[1] /\ 1 \in 1 .. Len(pending)
  BY <1>1, TailFacts
<1> QED BY <1>1, <1>2, RangeOfRows

\* A session is told a row once.
LEMMA PromptedFacts ==
  ASSUME Typed, NEW s \in Sessions, NEW row \in Rows
  PROVE  /\ Prompted(s, row) \in [Sessions -> Seq(Rows)]
         /\ \A t \in Sessions : t # s => Prompted(s, row)[t] = transcript[t]
         /\ Range(Prompted(s, row)[s]) = Told(s) \cup {row}
         /\ row \in Told(s) => Prompted(s, row) = transcript
         /\ row \notin Told(s) => Prompted(s, row)[s] = Append(transcript[s], row)
<1>1. transcript \in [Sessions -> Seq(Rows)] /\ transcript[s] \in Seq(Rows)
  BY DEF Typed, IntakeTypeOK
<1>2. CASE row \in Told(s)
  BY <1>1, <1>2 DEF Prompted, Told
<1>3. CASE row \notin Told(s)
  <2>1. Append(transcript[s], row) \in Seq(Rows)
        /\ Range(Append(transcript[s], row)) = Told(s) \cup {row}
    BY <1>1, AppendedRow DEF Told
  <2>2. Prompted(s, row) = [transcript EXCEPT ![s] = Append(transcript[s], row)]
    BY <1>3 DEF Prompted, Told
  <2> QED BY <1>1, <1>3, <2>1, <2>2
<1> QED BY <1>2, <1>3

\* A receipt is only given to the conversation's session.
LEMMA ReceiptedFacts ==
  ASSUME Typed, NEW s \in Sessions, NEW row \in Rows
  PROVE  /\ Receipted(s, row) \in [Sessions -> SUBSET Rows]
         /\ \A t \in Sessions : Receipted(s, row)[t] =
              IF t = s /\ session = s /\ standing # "ended" THEN seen[t] \cup {row} ELSE seen[t]
  BY DEF Receipted, Typed, IntakeTypeOK

\* The same for a step that tells a session a row, or gives it a receipt.
LEMMA ToldAfter ==
  ASSUME Typed, NEW s \in Sessions, NEW row \in Rows, transcript' = Prompted(s, row)
  PROVE  \A t \in Sessions : Told(t)' = IF t = s THEN Told(t) \cup {row} ELSE Told(t)
<1>1. Told(s)' = Told(s) \cup {row}
  <2>1. Range(transcript'[s]) = Told(s) \cup {row}
    BY PromptedFacts
  <2> QED BY <2>1 DEF Told
<1>2. ASSUME NEW t \in Sessions, t # s PROVE Told(t)' = Told(t)
  <2>1. transcript'[t] = transcript[t]
    BY <1>2, PromptedFacts
  <2> QED BY <2>1 DEF Told
<1> QED BY <1>1, <1>2

LEMMA SeenAfter ==
  ASSUME Typed, NEW s \in Sessions, NEW row \in Rows, seen' = Receipted(s, row)
  PROVE  \A t \in Sessions :
           seen'[t] = IF t = s /\ session = s /\ standing # "ended" THEN seen[t] \cup {row} ELSE seen[t]
  BY ReceiptedFacts

\* What is ahead of the bookmark is the end of the history.
LEMMA AheadFacts ==
  ASSUME Typed, QueueInv
  PROVE  /\ Ahead \in SUBSET (1 .. Len(history))
         /\ \A i \in Ahead : history[i] >= bookmark.row
         /\ \A i \in Ahead, j \in 1 .. Len(history) : i <= j => j \in Ahead
         /\ \A i \in 1 .. Len(history) : history[i] > bookmark.row => i \in Ahead
         /\ \A i \in Ahead : history[i] = bookmark.row => Replaced
<1>1. /\ history \in Seq(Rows) /\ Len(history) \in Nat
      /\ bookmark.id \in Nat /\ bookmark.row \in Nat
      /\ \A i \in 1 .. Len(history) : history[i] \in Nat /\ history[i] > 0
  <2>1. history \in Seq(Rows) /\ bookmark \in [id : Nat, row : 0 .. MaxRows]
    BY DEF Typed, IntakeTypeOK
  <2>2. \A i \in 1 .. Len(history) : history[i] \in Rows
    BY <2>1
  <2>3. \A row \in Rows : row \in Nat /\ row > 0
    BY DEF Rows
  <2>4. bookmark.id \in Nat /\ bookmark.row \in Nat
    BY <2>1
  <2> QED BY <2>1, <2>2, <2>3, <2>4
<1>2. \A i, j \in 1 .. Len(history) : i < j => history[i] < history[j]
  BY <1>1 DEF QueueInv
<1>3. Ahead \in SUBSET (1 .. Len(history))
  BY <1>1 DEF Ahead
<1>4. ASSUME NEW i \in Ahead, ~Replaced
      PROVE  history[i] > bookmark.row
  <2>1. CASE bookmark.id = 0
    BY <2>1, <1>1, <1>3 DEF QueueInv
  <2>2. CASE bookmark.id # 0
    <3>1. bookmark.id \in 1 .. Len(history) /\ history[bookmark.id] = bookmark.row
      BY <2>2, <1>1, <1>4 DEF Replaced
    <3>2. i > bookmark.id \/ history[i] > bookmark.row
      BY <1>4 DEF Ahead
    <3> QED BY <3>1, <3>2, <1>1, <1>2, <1>3
  <2> QED BY <2>1, <2>2
<1>5. ASSUME NEW i \in Ahead PROVE history[i] >= bookmark.row /\ (history[i] = bookmark.row => Replaced)
  <2>1. CASE Replaced
    BY <2>1, <1>1, <1>3 DEF Ahead
  <2>2. CASE ~Replaced
    BY <2>2, <1>1, <1>3, <1>4
  <2> QED BY <2>1, <2>2
<1>6. ASSUME NEW i \in Ahead, NEW j \in 1 .. Len(history), i <= j PROVE j \in Ahead
  <2>1. i \in 1 .. Len(history) /\ history[i] <= history[j] /\ history[i] \in Nat /\ history[j] \in Nat
    BY <1>1, <1>2, <1>3, <1>6
  <2>2. CASE Replaced
    BY <2>1, <2>2, <1>1 DEF Ahead
  <2>3. CASE ~Replaced
    BY <2>1, <2>3, <1>1, <1>6 DEF Ahead
  <2> QED BY <2>2, <2>3
<1>7. ASSUME NEW i \in 1 .. Len(history), history[i] > bookmark.row PROVE i \in Ahead
  BY <1>1, <1>7 DEF Ahead
<1> QED BY <1>3, <1>5, <1>6, <1>7

\* A poll queues the first rows of them, each once.
LEMMA PollFacts ==
  ASSUME Typed, QueueInv, Poll
  PROVE  \E first, last, fresh \in 1 .. Len(history) + 1 :
           /\ first \in Ahead /\ \A i \in Ahead : first <= i
           /\ first <= last /\ last \in 1 .. Len(history)
           /\ fresh \in {first, first + 1}
           /\ fresh = first => history[first] \notin Range(pending)
           /\ fresh = first + 1 => history[first] \in Range(pending)
           /\ bookmark' = [id |-> last, row |-> history[last]]
           /\ pending' = pending \o SubSeq(history, fresh, last)
           /\ SubSeq(history, fresh, last) \in Seq(Rows)
           /\ Len(SubSeq(history, fresh, last)) = last - fresh + 1
           /\ \A i \in 1 .. last - fresh + 1 : SubSeq(history, fresh, last)[i] = history[fresh + i - 1]
<1> DEFINE first == Min(Ahead)
           last  == Min({first + PollLimit - 1, Len(history)})
           fresh == IF history[first] \in Range(pending) THEN first + 1 ELSE first
<1>1. history \in Seq(Rows) /\ Len(history) \in Nat
  BY DEF Typed, IntakeTypeOK
<1>2. first \in Ahead /\ (\A i \in Ahead : first <= i) /\ first \in 1 .. Len(history)
  <2>1. Ahead \in SUBSET Nat /\ Ahead # {} /\ Ahead \in SUBSET (1 .. Len(history))
    BY AheadFacts, <1>1 DEF Poll
  <2> QED BY <2>1, MinOfNats
<1>3. /\ bookmark' = [id |-> last, row |-> history[last]]
      /\ pending' = pending \o SubSeq(history, fresh, last)
  BY DEF Poll
<1> HIDE DEF first
<1>4. first <= last /\ last \in 1 .. Len(history)
  <2>1. first + PollLimit - 1 \in Nat /\ first + PollLimit - 1 >= first
    BY <1>2, Constants
  <2>2. last = IF first + PollLimit - 1 <= Len(history) THEN first + PollLimit - 1 ELSE Len(history)
    BY <2>1, <1>1, MinOfTwo
  <2> QED BY <2>1, <2>2, <1>1, <1>2
<1> HIDE DEF last
<1>5. /\ fresh \in {first, first + 1} /\ fresh \in 1 .. Len(history) + 1
      /\ fresh = first => history[first] \notin Range(pending)
      /\ fresh = first + 1 => history[first] \in Range(pending)
  BY <1>1, <1>2
<1> HIDE DEF fresh
<1>6. /\ SubSeq(history, fresh, last) \in Seq(Rows)
      /\ Len(SubSeq(history, fresh, last)) = last - fresh + 1
      /\ \A i \in 1 .. last - fresh + 1 : SubSeq(history, fresh, last)[i] = history[fresh + i - 1]
  <2>1. fresh \in Int /\ last \in Int /\ fresh <= last + 1
    BY <1>1, <1>2, <1>4, <1>5
  <2>2. \A i \in fresh .. last : history[i] \in Rows
    BY <1>1, <1>2, <1>4, <1>5
  <2> QED BY <2>1, <2>2, SubSeqProperties
<1>7. first \in 1 .. Len(history) + 1 /\ last \in 1 .. Len(history) + 1
  BY <1>1, <1>2, <1>4
<1> QED BY <1>2, <1>3, <1>4, <1>5, <1>6, <1>7

-----------------------------------------------------------------------------
(* Types are kept. *)

MacTyped      == history \in Seq(Rows) /\ sent \in 0 .. MaxRows
QueueTyped    == bookmark \in [id : Nat, row : 0 .. MaxRows] /\ pending \in Seq(Rows)
SessionTyped  == session \in Sessions /\ source \in Sessions \cup {None}
StandingTyped == rebuilding \in BOOLEAN /\ standing \in {"open", "blocked", "ended"}
SeenTyped     == seen \in [Sessions -> SUBSET Rows]
ExecutorTyped == present \subseteq Sessions /\ writable \subseteq Sessions
ToldTyped     == transcript \in [Sessions -> Seq(Rows)]
ReaderTyped   == reader \in [stage : ReaderStages, session : Sessions \cup {None}]
RunTyped      == run \in [Runners -> Runs]
SavedTyped    == saved \in [Sessions -> Nat]
CountsTyped   == lastSession \in Sessions /\ faults \in 0 .. MaxFaults

LEMMA TypedParts ==
  Typed <=> /\ MacTyped /\ QueueTyped /\ SessionTyped /\ StandingTyped /\ SeenTyped
            /\ ExecutorTyped /\ ToldTyped /\ ReaderTyped /\ RunTyped /\ SavedTyped /\ CountsTyped
  BY DEF Typed, IntakeTypeOK, MacTyped, QueueTyped, SessionTyped, StandingTyped, SeenTyped,
         ExecutorTyped, ToldTyped, ReaderTyped, RunTyped, SavedTyped, CountsTyped

\* What an action leaves alone keeps its type.
LEMMA TypedKept ==
  ASSUME Typed
  PROVE  /\ UNCHANGED macVars => MacTyped'
         /\ UNCHANGED queueVars => QueueTyped'
         /\ UNCHANGED <<session, source>> => SessionTyped'
         /\ UNCHANGED <<rebuilding, standing>> => StandingTyped'
         /\ UNCHANGED seen => SeenTyped'
         /\ UNCHANGED <<present, writable>> => ExecutorTyped'
         /\ UNCHANGED transcript => ToldTyped'
         /\ UNCHANGED reader => ReaderTyped'
         /\ UNCHANGED run => RunTyped'
         /\ UNCHANGED saved => SavedTyped'
         /\ UNCHANGED <<lastSession, faults>> => CountsTyped'
<1>1. /\ MacTyped /\ QueueTyped /\ SessionTyped /\ StandingTyped /\ SeenTyped
      /\ ExecutorTyped /\ ToldTyped /\ ReaderTyped /\ RunTyped /\ SavedTyped /\ CountsTyped
  BY TypedParts
<1> QED
  BY <1>1 DEF macVars, queueVars, MacTyped, QueueTyped, SessionTyped, StandingTyped, SeenTyped,
              ExecutorTyped, ToldTyped, ReaderTyped, RunTyped, SavedTyped, CountsTyped

LEMMA TypedPartsPrimed ==
  ASSUME MacTyped', QueueTyped', SessionTyped', StandingTyped', SeenTyped',
         ExecutorTyped', ToldTyped', ReaderTyped', RunTyped', SavedTyped', CountsTyped'
  PROVE  Typed'
  BY DEF Typed, IntakeTypeOK, MacTyped, QueueTyped, SessionTyped, StandingTyped, SeenTyped,
         ExecutorTyped, ToldTyped, ReaderTyped, RunTyped, SavedTyped, CountsTyped

LEMMA FaultTypes == ASSUME Typed, Fault, lastSession' = lastSession PROVE CountsTyped'
  BY TypedParts, RebuildAssumption DEF Fault, CountsTyped

LEMMA MacTypes ==
  ASSUME Typed, QueueInv,
         (Arrive \/ ReplaceIdle \/ Poll) /\ UNCHANGED <<rebuildVars, faults>>
  PROVE  Typed'
<1>0. history \in Seq(Rows) /\ sent \in 0 .. MaxRows /\ pending \in Seq(Rows)
  BY DEF Typed, IntakeTypeOK
<1>1. MacTyped'
  <2>1. CASE Arrive
    <3>1. sent + 1 \in Rows /\ sent + 1 \in 0 .. MaxRows
      BY <2>1, <1>0, Constants DEF Arrive, Rows
    <3>2. history' = Append(history, sent + 1) /\ sent' = sent + 1
      BY <2>1 DEF Arrive
    <3> QED BY <1>0, <3>1, <3>2, AppendedRow DEF MacTyped
  <2>2. CASE ReplaceIdle
    <3>1. PICK i \in DOMAIN history : history' = RemoveAt(history, i)
      BY <2>2 DEF ReplaceIdle, Replace
    <3>2. i \in 1 .. Len(history)
      BY <1>0, <3>1
    <3> QED BY <2>2, <3>1, <3>2, <1>0, RemovedAt DEF ReplaceIdle, Replace, MacTyped
  <2>3. CASE Poll
    BY <2>3, TypedKept DEF Poll
  <2> QED BY <2>1, <2>2, <2>3
<1>2. QueueTyped'
  <2>1. CASE Poll
    <3>1. PICK first, last, fresh \in 1 .. Len(history) + 1 :
             /\ last \in 1 .. Len(history)
             /\ bookmark' = [id |-> last, row |-> history[last]]
             /\ pending' = pending \o SubSeq(history, fresh, last)
             /\ SubSeq(history, fresh, last) \in Seq(Rows)
      BY <2>1, PollFacts
    <3>2. pending' \in Seq(Rows)
      BY <1>0, <3>1, ConcatProperties
    <3>3. last \in 1 .. Len(history) /\ last \in Nat
      BY <1>0, <3>1
    <3>4. history[last] \in Rows
      BY <1>0, <3>3
    <3>5. history[last] \in 0 .. MaxRows
      BY <3>4 DEF Rows
    <3> QED BY <3>1, <3>2, <3>3, <3>5 DEF QueueTyped
  <2>2. CASE Arrive \/ ReplaceIdle
    BY <2>2, TypedKept DEF Arrive, ReplaceIdle, Replace
  <2> QED BY <2>1, <2>2
<1>3. UNCHANGED <<directoryVars, seen, executorVars, reader, rebuildVars, faults>>
  BY DEF Arrive, ReplaceIdle, Replace, Poll
<1> QED
  BY <1>1, <1>2, <1>3, TypedKept, TypedPartsPrimed DEF directoryVars, executorVars, rebuildVars

LEMMA ReaderTypes ==
  ASSUME Typed, QueueInv, LockInv,
         \/ ReaderStep /\ UNCHANGED <<rebuildVars, faults>>
         \/ ReaderFails /\ Fault /\ UNCHANGED rebuildVars
  PROVE  Typed'
<1>0. /\ reader \in [stage : ReaderStages, session : Sessions \cup {None}]
      /\ pending \in Seq(Rows) /\ session \in Sessions
  BY DEF Typed, IntakeTypeOK
<1>1. UNCHANGED <<macVars, directoryVars, present, writable, rebuildVars>>
  BY DEF ReaderStep, Look, Admit, LivePrompt, PromptNotFound, Record, Dequeue, ReaderFails, executorVars
<1>2. ReaderTyped'
  BY <1>0 DEF ReaderStep, Look, Admit, LivePrompt, PromptNotFound, Record, Dequeue, ReaderFails,
              ReaderTyped, ReaderStages, Waiting
<1>3. QueueTyped'
  <2>1. CASE Dequeue
    <3>1. pending # <<>>
      BY <2>1 DEF Dequeue, QueueInv
    <3>2. Tail(pending) \in Seq(Rows)
      BY <1>0, <3>1, TailFacts
    <3> QED BY <2>1, <3>2, TypedParts DEF Dequeue, QueueTyped
  <2>2. CASE ~Dequeue
    <3>1. UNCHANGED queueVars
      BY <2>2 DEF ReaderStep, Look, Admit, LivePrompt, PromptNotFound, Record, ReaderFails
    <3> QED BY <3>1, TypedKept
  <2> QED BY <2>1, <2>2
<1>4. reader.stage \in {"prompting", "recording"} =>
        reader.session \in Sessions /\ Head(pending) \in Rows
  <2>1. reader.stage \in {"prompting", "recording"} => pending # <<>> /\ reader.session = session
    BY DEF QueueInv, LockInv, Admitting
  <2> QED BY <2>1, <1>0, HeadTyped
<1>5. ToldTyped'
  <2>1. CASE LivePrompt
    BY <2>1, <1>4, PromptedFacts DEF LivePrompt, ToldTyped
  <2>2. CASE ~LivePrompt
    <3>1. UNCHANGED transcript
      BY <2>2 DEF ReaderStep, Look, Admit, PromptNotFound, Record, Dequeue, ReaderFails, executorVars
    <3> QED BY <3>1, TypedKept
  <2> QED BY <2>1, <2>2
<1>6. SeenTyped'
  <2>1. CASE Record
    BY <2>1, <1>4, ReceiptedFacts DEF Record, SeenTyped
  <2>2. CASE ~Record
    <3>1. UNCHANGED seen
      BY <2>2 DEF ReaderStep, Look, Admit, LivePrompt, PromptNotFound, Dequeue, ReaderFails
    <3> QED BY <3>1, TypedKept
  <2> QED BY <2>1, <2>2
<1>7. CountsTyped'
  BY FaultTypes, TypedKept DEF rebuildVars
<1> QED
  BY <1>1, <1>2, <1>3, <1>5, <1>6, <1>7, TypedKept, TypedPartsPrimed DEF directoryVars, rebuildVars

\* How the steps of a rebuild change its record.
LEMMA RunStage ==
  ASSUME RunTyped, NEW x \in Runners, NEW stage \in Stages, To(x, stage)
  PROVE  /\ run'[x] \in Runs /\ run'[x].stage = stage
         /\ run'[x].old = run[x].old /\ run'[x].target = run[x].target
         /\ run'[x].missing = run[x].missing /\ run'[x].cursor = run[x].cursor
         /\ \A y \in Runners : y # x => run'[y] = run[y]
         /\ RunTyped'
  BY DEF RunTyped, Runs, To

LEMMA RunSet ==
  ASSUME RunTyped, NEW x \in Runners, NEW r \in Runs, run' = [run EXCEPT ![x] = r]
  PROVE  run'[x] = r /\ (\A y \in Runners : y # x => run'[y] = run[y]) /\ RunTyped'
  BY DEF RunTyped

LEMMA RunMoved ==
  ASSUME RunTyped, NEW x \in Runners, NEW stage \in Stages,
         run' = [run EXCEPT ![x].stage = stage, ![x].cursor = @ + 1]
  PROVE  /\ run'[x] \in Runs /\ run'[x].stage = stage
         /\ run'[x].old = run[x].old /\ run'[x].target = run[x].target
         /\ run'[x].missing = run[x].missing /\ run'[x].cursor = run[x].cursor + 1
         /\ \A y \in Runners : y # x => run'[y] = run[y]
         /\ RunTyped'
  BY DEF RunTyped, Runs

LEMMA IdleTyped == Idle \in Runs /\ Idle.stage = "idle"
  BY Constants DEF Idle, Runs, Stages

LEMMA BeginFacts ==
  ASSUME Typed, NEW x \in Runners, Begin(x)
  PROVE  /\ run'[x].stage \in {"creating", "fencing", "sealing"}
         /\ run'[x].stage \in {"creating", "fencing"} => lastSession < MaxSessions
         /\ run'[x].stage = "sealing" => rebuilding
         /\ run'[x].old = session /\ run'[x].target = session
         /\ \A y \in Runners : y # x => run'[y] = run[y]
         /\ RunTyped'
<1> DEFINE missing == session \notin present
           begun   == [Idle EXCEPT !.old = session, !.target = session, !.missing = missing]
           r(stage) == [begun EXCEPT !.stage = stage]
<1>1. RunTyped /\ session \in Sessions
  BY TypedParts DEF SessionTyped
<1>2. ASSUME NEW stage \in Stages
      PROVE  r(stage) \in Runs /\ r(stage).stage = stage /\ r(stage).old = session /\ r(stage).target = session
  BY <1>1 DEF Idle, Runs
<1>3. PICK stage \in {"creating", "fencing", "sealing"} :
        /\ run' = [run EXCEPT ![x] = r(stage)]
        /\ stage \in {"creating", "fencing"} => lastSession < MaxSessions
        /\ stage = "sealing" => rebuilding
  <2>1. CASE /\ x \in Operators \/ missing
             /\ lastSession < MaxSessions
             /\ run' = [run EXCEPT ![x] =
                  [begun EXCEPT !.stage = IF missing THEN "creating" ELSE "fencing"]]
    BY <2>1
  <2>2. CASE /\ rebuilding
             /\ run' = [run EXCEPT ![x] = [begun EXCEPT !.stage = "sealing"]]
    BY <2>2
  <2> QED BY <2>1, <2>2 DEF Begin
<1>4. stage \in Stages
  BY <1>3 DEF Stages, Locked
<1> HIDE DEF r
<1> QED BY <1>1, <1>2, <1>3, <1>4, RunSet

\* The stages are what they are called.
LEMMA StageNames ==
  /\ {"idle", "waiting", "fencing", "creating", "sealing", "replaying", "admitting", "marking",
      "settling", "releasing", "finishing", "removing"} = Stages
  BY DEF Stages, Locked, Replaying

LEMMA RunnerTypes ==
  ASSUME Typed, LockInv, SessionInv, CursorInv, NEW x \in Runners,
         Begin(x) \/ RunnerStep(x) \/ RunnerFails(x)
  PROVE  Typed'
<1>0. /\ RunTyped /\ SavedTyped /\ run[x] \in Runs /\ ExecutorTyped /\ CountsTyped
      /\ session \in Sessions
  BY TypedParts DEF RunTyped, SessionTyped
<1>1. UNCHANGED <<macVars, queueVars, standing, reader>>
  BY DEF Begin, RunnerStep, RunnerFails, FenceOld, Create, Seal, Enter, Pass, Select, ReplayPrompt,
         Mark, Replayed, Complete, MakeWritable, Finish, RemoveOld, NotFound, intakeVars, directoryVars
<1>2. RunTyped'
  <2> USE <1>0, StageNames, IdleTyped
  <2>1. CASE Begin(x)
    BY <2>1, BeginFacts
  <2>2. CASE \/ FenceOld(x) \/ Seal(x) \/ Select(x) \/ ReplayPrompt(x) \/ Replayed(x)
             \/ MakeWritable(x) \/ Finish(x)
    BY <2>2, RunStage DEF FenceOld, Seal, Select, ReplayPrompt, Replayed, MakeWritable, Finish
  <2>3. CASE Complete(x)
    <3>1. (IF Completes(x) THEN "releasing" ELSE "removing") \in Stages
      OBVIOUS
    <3> QED BY <2>3, <3>1, RunStage DEF Complete
  <2>4. CASE RemoveOld(x) \/ NotFound(x) \/ RunnerFails(x)
    BY <2>4, RunSet DEF RemoveOld, NotFound, RunnerFails
  <2>5. CASE Create(x)
    <3>1. lastSession' \in Sessions
      <4>1. lastSession < MaxSessions
        BY <2>5 DEF Create, SessionInv
      <4> QED BY <2>5, <4>1, Constants DEF Create, CountsTyped, Sessions
    <3> QED BY <2>5, <3>1, RunSet DEF Create, RunTyped, Runs
  <2>6. CASE Enter(x)
    <3>1. CASE run' = [run EXCEPT ![x] = Idle]
      BY <3>1, RunSet
    <3>2. CASE run' = [run EXCEPT ![x].stage = "replaying", ![x].cursor = saved[run[x].target]]
      <4>1. saved[run[x].target] \in Nat
        <5>1. run[x].target \in 1 .. lastSession
          BY <2>6 DEF Enter, SessionInv
        <5> QED BY <5>1, Constants DEF SavedTyped, CountsTyped, Sessions
      <4> QED BY <3>2, <4>1 DEF RunTyped, Runs
    <3> QED BY <2>6, <3>1, <3>2 DEF Enter
  <2>7. CASE Pass(x)
    BY <2>7 DEF Pass, RunTyped, Runs
  <2>8. CASE Mark(x)
    BY <2>8, RunMoved DEF Mark
  <2> QED BY <2>1, <2>2, <2>3, <2>4, <2>5, <2>6, <2>7, <2>8 DEF RunnerStep
<1>3. SavedTyped'
  <2>1. CASE Pass(x) \/ Mark(x) \/ Replayed(x)
    <3>1. run'[x].cursor \in Nat
      BY <1>2 DEF RunTyped, Runs
    <3>2. \/ saved' = saved
          \/ saved' = [saved EXCEPT ![run[x].target] = run'[x].cursor]
          \/ saved' = [saved EXCEPT ![run[x].target] = 0]
      BY <2>1 DEF Pass, Mark, Replayed
    <3> QED BY <3>1, <3>2, <1>0 DEF SavedTyped
  <2>2. CASE ~(Pass(x) \/ Mark(x) \/ Replayed(x))
    <3>1. UNCHANGED saved
      BY <2>2 DEF Begin, RunnerStep, RunnerFails, FenceOld, Create, Seal, Enter, Select, ReplayPrompt,
         Complete, MakeWritable, Finish, RemoveOld, NotFound
    <3> QED BY <3>1, TypedKept
  <2> QED BY <2>1, <2>2
<1>4. CountsTyped'
  <2>1. CASE Create(x)
    <3>1. lastSession < MaxSessions
      BY <2>1 DEF Create, SessionInv
    <3> QED BY <2>1, <3>1, <1>0, Constants DEF Create, CountsTyped, Sessions
  <2>2. CASE RunnerFails(x)
    BY <2>2, FaultTypes DEF RunnerFails
  <2>3. CASE ~(Create(x) \/ RunnerFails(x))
    <3>1. UNCHANGED <<lastSession, faults>>
      BY <2>3 DEF Begin, RunnerStep, FenceOld, Seal, Enter, Pass, Select, ReplayPrompt, Mark,
         Replayed, Complete, MakeWritable, Finish, RemoveOld, NotFound
    <3> QED BY <3>1, TypedKept
  <2> QED BY <2>1, <2>2, <2>3
<1>5. SessionTyped' /\ StandingTyped'
  <2>1. CASE Create(x)
    <3>1. lastSession + 1 \in Sessions
      BY <2>1, <1>4 DEF Create, CountsTyped
    <3>2. SourceAfter \in Sessions \cup {None}
      BY TypedParts DEF SourceAfter, SessionTyped
    <3> QED BY <2>1, <3>1, <3>2, TypedParts DEF Create, SessionTyped, StandingTyped
  <2>2. CASE Finish(x)
    BY <2>2, TypedParts DEF Finish, SessionTyped, StandingTyped
  <2>3. CASE ~(Create(x) \/ Finish(x))
    <3>1. UNCHANGED directoryVars
      BY <2>3 DEF Begin, RunnerStep, RunnerFails, FenceOld, Seal, Enter, Pass, Select, ReplayPrompt,
         Mark, Replayed, Complete, MakeWritable, RemoveOld, NotFound, intakeVars
    <3> QED BY <3>1, TypedKept DEF directoryVars
  <2> QED BY <2>1, <2>2, <2>3
<1>6. ExecutorTyped'
  <2>1. CASE Create(x)
    <3>1. lastSession + 1 \in Sessions
      BY <2>1, <1>4 DEF Create, CountsTyped
    <3> QED BY <2>1, <3>1, <1>0 DEF Create, ExecutorTyped
  <2>2. CASE FenceOld(x) \/ Seal(x) \/ MakeWritable(x)
    BY <2>2, <1>0 DEF FenceOld, Seal, MakeWritable, ExecutorTyped
  <2>3. CASE RemoveOld(x)
    BY <2>3, <1>0 DEF RemoveOld, ExecutorTyped
  <2>4. CASE ~(Create(x) \/ FenceOld(x) \/ Seal(x) \/ MakeWritable(x) \/ RemoveOld(x))
    <3>1. UNCHANGED <<present, writable>>
      BY <2>4 DEF Begin, RunnerStep, RunnerFails, Enter, Pass, Select, ReplayPrompt,
         Mark, Replayed, Complete, Finish, NotFound, intakeVars, executorVars
    <3> QED BY <3>1, TypedKept
  <2> QED BY <2>1, <2>2, <2>3, <2>4
<1>7. run[x].stage \in {"admitting", "marking"} => run[x].target \in Sessions /\ Row(x) \in Rows
  <2>1. run[x].stage \in {"admitting", "marking"} => run[x].target \in 1 .. lastSession
    BY DEF SessionInv
  <2>2. run[x].stage \in {"admitting", "marking"} => run[x].cursor < Len(history)
    BY DEF CursorInv
  <2> QED BY <2>1, <2>2, <1>0, RowTyped, Constants DEF CountsTyped, Sessions
<1>8. ToldTyped'
  <2>1. CASE ReplayPrompt(x)
    <3>1. Prompted(run[x].target, Row(x)) \in [Sessions -> Seq(Rows)]
      BY <2>1, <1>7, PromptedFacts DEF ReplayPrompt
    <3> QED BY <2>1, <3>1, TypedParts DEF ReplayPrompt, ToldTyped
  <2>2. CASE ~ReplayPrompt(x)
    <3>1. UNCHANGED transcript
      BY <2>2 DEF Begin, RunnerStep, RunnerFails, FenceOld, Create, Seal, Enter, Pass, Select,
         Mark, Replayed, Complete, MakeWritable, Finish, RemoveOld, NotFound, intakeVars, executorVars
    <3> QED BY <3>1, TypedKept
  <2> QED BY <2>1, <2>2
<1>9. SeenTyped'
  <2>1. CASE Mark(x)
    BY <2>1, <1>7, ReceiptedFacts DEF Mark, SeenTyped
  <2>2. CASE ~Mark(x)
    <3>1. UNCHANGED seen
      BY <2>2 DEF Begin, RunnerStep, RunnerFails, FenceOld, Create, Seal, Enter, Pass, Select,
         ReplayPrompt, Replayed, Complete, MakeWritable, Finish, RemoveOld, NotFound, intakeVars
    <3> QED BY <3>1, TypedKept
  <2> QED BY <2>1, <2>2
<1> QED
  BY <1>1, <1>2, <1>3, <1>4, <1>5, <1>6, <1>8, <1>9, TypedKept, TypedPartsPrimed

LEMMA OutsideTypes ==
  ASSUME Typed, Restart \/ LoseSession \/ Block \/ End \/ Stop
  PROVE  Typed'
<1>1. UNCHANGED <<macVars, queueVars, session, source, seen, transcript, lastSession>>
  BY DEF Restart, LoseSession, Block, End, Stop, directoryVars, executorVars, rebuildVars
<1>2. /\ RunTyped /\ SavedTyped /\ StandingTyped /\ ExecutorTyped /\ ReaderTyped /\ session \in Sessions
  BY TypedParts DEF SessionTyped
<1>3. RunTyped' /\ ReaderTyped'
  BY <1>2, IdleTyped DEF Restart, LoseSession, Block, End, Stop, rebuildVars, RunTyped, ReaderTyped,
     ReaderStages, Waiting
<1>4. SavedTyped'
  BY <1>2 DEF Restart, LoseSession, Block, End, Stop, rebuildVars, SavedTyped
<1>5. StandingTyped' /\ ExecutorTyped'
  BY <1>2 DEF Restart, LoseSession, Block, End, Stop, directoryVars, executorVars, StandingTyped, ExecutorTyped
<1>6. CountsTyped'
  <2>1. CASE Fault
    BY <2>1, <1>1, FaultTypes
  <2>2. CASE ~Fault
    BY <2>2, <1>1, TypedKept DEF Restart, LoseSession, Block, End, Stop
  <2> QED BY <2>1, <2>2
<1> QED BY <1>1, <1>3, <1>4, <1>5, <1>6, TypedKept, TypedPartsPrimed

LEMMA TypedStep ==
  ASSUME Typed, QueueInv, LockInv, SessionInv, CursorInv, RebuildNext
  PROVE  Typed'
  BY MacTypes, ReaderTypes, RunnerTypes, OutsideTypes DEF RebuildNext

-----------------------------------------------------------------------------
(* The history and the queue stay in order. *)

\* What only the Mac, the polls and the reader change.
LEMMA RunnerFrame ==
  ASSUME NEW x \in Runners, Begin(x) \/ RunnerStep(x) \/ RunnerFails(x)
  PROVE  UNCHANGED <<macVars, queueVars, standing, reader>>
  BY DEF Begin, RunnerStep, RunnerFails, FenceOld, Create, Seal, Enter, Pass, Select, ReplayPrompt,
         Mark, Replayed, Complete, MakeWritable, Finish, RemoveOld, NotFound, intakeVars, directoryVars

LEMMA QueueKept ==
  ASSUME QueueInv, UNCHANGED <<macVars, queueVars>>,
         reader' = reader \/ reader'.stage = "idle" \/ pending # <<>>
  PROVE  QueueInv'
  BY DEF QueueInv, macVars, queueVars

LEMMA ArriveQueue ==
  ASSUME Typed, QueueInv, Arrive
  PROVE  QueueInv'
<1>1. /\ history \in Seq(Rows) /\ sent \in Nat /\ Len(history) \in Nat
      /\ bookmark.id \in Nat /\ bookmark.row \in Nat
  BY Constants DEF Typed, IntakeTypeOK
<1>2. sent' = sent + 1 /\ history' = Append(history, sent + 1) /\ UNCHANGED <<bookmark, pending, reader>>
  BY DEF Arrive, queueVars
<1>3. sent + 1 \in Rows
  BY <1>1, Constants DEF Arrive, Rows
<1>4. /\ Len(history') = Len(history) + 1 /\ history' \in Seq(Rows)
      /\ \A i \in 1 .. Len(history) + 1 : history'[i] = IF i <= Len(history) THEN history[i] ELSE sent + 1
  BY <1>1, <1>2, <1>3, AppendedRow
<1>5. \A i \in 1 .. Len(history) : history[i] \in Nat /\ history[i] <= sent
  <2>1. \A i \in 1 .. Len(history) : history[i] \in Rows
    BY <1>1
  <2>2. \A i \in 1 .. Len(history) : history[i] <= sent
    BY <1>1 DEF QueueInv
  <2> QED BY <2>1, <2>2, Constants
<1>6. \A i, j \in 1 .. Len(history') : i < j => history'[i] < history'[j]
  <2>1. \A i, j \in 1 .. Len(history) : i < j => history[i] < history[j]
    BY <1>1 DEF QueueInv
  <2> QED BY <1>1, <1>4, <1>5, <2>1
<1>7. \A i \in 1 .. Len(history') :
        history'[i] <= sent' /\ (history'[i] = bookmark'.row => i <= bookmark'.id)
  <2>1. \A i \in 1 .. Len(history) : history[i] = bookmark.row => i <= bookmark.id
    BY <1>1 DEF QueueInv
  <2>2. bookmark.row <= sent
    BY DEF QueueInv
  <2> QED BY <1>1, <1>2, <1>4, <1>5, <2>1, <2>2
<1>8. bookmark'.row <= sent'
  BY <1>1, <1>2 DEF QueueInv
<1>9. DOMAIN history' = 1 .. Len(history')
  BY <1>4
<1> QED
  <2>1. /\ bookmark.id = 0 => bookmark.row = 0
        /\ \A i, j \in DOMAIN pending : i < j => pending[i] < pending[j]
        /\ \A i \in DOMAIN pending : pending[i] <= bookmark.row
        /\ reader.stage # "idle" => pending # <<>>
    BY DEF QueueInv
  <2> QED BY <1>2, <1>6, <1>7, <1>8, <1>9, <2>1 DEF QueueInv

LEMMA ReplaceQueue ==
  ASSUME Typed, QueueInv, ReplaceIdle
  PROVE  QueueInv' /\ Mac' \subseteq Mac
<1>1. history \in Seq(Rows) /\ Len(history) \in Nat /\ bookmark.id \in Nat
  BY DEF Typed, IntakeTypeOK
<1>2. UNCHANGED <<sent, bookmark, pending, reader>>
  BY DEF ReplaceIdle, Replace, queueVars
<1>3. PICK k \in 1 .. Len(history) : history' = RemoveAt(history, k)
  BY <1>1 DEF ReplaceIdle, Replace
<1>4. /\ history' \in Seq(Rows) /\ Len(history') = Len(history) - 1
      /\ \A i \in 1 .. Len(history') : history'[i] = IF i < k THEN history[i] ELSE history[i + 1]
  BY <1>1, <1>3, RemovedAt
<1>5. DOMAIN history' = 1 .. Len(history') /\ DOMAIN history = 1 .. Len(history)
  BY <1>1, <1>4
<1>6. \A i \in 1 .. Len(history') : \E n \in {i, i + 1} : n \in 1 .. Len(history) /\ history'[i] = history[n]
  BY <1>1, <1>4
<1>7. \A i, j \in 1 .. Len(history') : i < j => history'[i] < history'[j]
  <2>1. \A i, j \in 1 .. Len(history) : i < j => history[i] < history[j]
    BY <1>5 DEF QueueInv
  <2> SUFFICES ASSUME NEW i \in 1 .. Len(history'), NEW j \in 1 .. Len(history'), i < j
               PROVE  history'[i] < history'[j]
    OBVIOUS
  <2>2. PICK m \in 1 .. Len(history) : history'[i] = history[m] /\ m = IF i < k THEN i ELSE i + 1
    BY SMTT(20), <1>1, <1>4
  <2>3. PICK n \in 1 .. Len(history) : history'[j] = history[n] /\ n = IF j < k THEN j ELSE j + 1
    BY SMTT(20), <1>1, <1>4
  <2>4. m < n
    BY <2>2, <2>3, <1>1, <1>4
  <2> QED BY <2>1, <2>2, <2>3, <2>4
<1>8. \A i \in 1 .. Len(history') :
        history'[i] <= sent' /\ (history'[i] = bookmark'.row => i <= bookmark'.id)
  <2>1. \A n \in 1 .. Len(history) : history[n] <= sent /\ (history[n] = bookmark.row => n <= bookmark.id)
    BY <1>5 DEF QueueInv
  <2> QED BY <1>1, <1>2, <1>6, <2>1
<1>9. Mac' \subseteq Mac
  BY <1>5, <1>6 DEF Mac, Range
<1> QED
  <2>1. /\ bookmark.row <= sent
        /\ bookmark.id = 0 => bookmark.row = 0
        /\ \A i, j \in DOMAIN pending : i < j => pending[i] < pending[j]
        /\ \A i \in DOMAIN pending : pending[i] <= bookmark.row
        /\ reader.stage # "idle" => pending # <<>>
    BY DEF QueueInv
  <2> QED BY <1>2, <1>5, <1>7, <1>8, <1>9, <2>1 DEF QueueInv

LEMMA PollQueue ==
  ASSUME Typed, QueueInv, Poll
  PROVE  /\ QueueInv'
         /\ Range(pending) \subseteq Range(pending')
         /\ pending # <<>> => Head(pending') = Head(pending)
         /\ bookmark.row <= bookmark'.row
         /\ pending = <<>> => \A i \in DOMAIN pending' : pending'[i] >= bookmark.row
         /\ \A i \in Ahead : history[i] \in Range(pending') \/ i > bookmark'.id
         /\ \A i \in DOMAIN pending' : pending'[i] \in Range(pending) \cup Mac
<1>1. /\ history \in Seq(Rows) /\ pending \in Seq(Rows) /\ Len(history) \in Nat /\ Len(pending) \in Nat
      /\ DOMAIN history = 1 .. Len(history) /\ DOMAIN pending = 1 .. Len(pending)
      /\ bookmark.row \in Nat
  <2>1. bookmark.row \in Nat
    BY Constants DEF Typed, IntakeTypeOK
  <2> QED BY <2>1 DEF Typed, IntakeTypeOK
<1>2. PICK first, last, fresh \in 1 .. Len(history) + 1 :
           /\ first \in Ahead /\ \A i \in Ahead : first <= i
           /\ first <= last /\ last \in 1 .. Len(history)
           /\ fresh \in {first, first + 1}
           /\ fresh = first => history[first] \notin Range(pending)
           /\ fresh = first + 1 => history[first] \in Range(pending)
           /\ bookmark' = [id |-> last, row |-> history[last]]
           /\ pending' = pending \o SubSeq(history, fresh, last)
           /\ SubSeq(history, fresh, last) \in Seq(Rows)
           /\ Len(SubSeq(history, fresh, last)) = last - fresh + 1
           /\ \A i \in 1 .. last - fresh + 1 : SubSeq(history, fresh, last)[i] = history[fresh + i - 1]
  BY PollFacts
<1> DEFINE old == Len(pending)
           added == last - fresh + 1
<1>3. first \in Nat /\ last \in Nat /\ fresh \in Nat /\ added \in Nat /\ first \in 1 .. Len(history)
  BY <1>1, <1>2
<1>4. /\ pending' \in Seq(Rows) /\ Len(pending') = old + added
      /\ \A i \in 1 .. old : pending'[i] = pending[i]
      /\ \A i \in 1 .. old + added : i > old =>
           /\ pending'[i] = history[fresh + (i - old) - 1]
           /\ fresh + (i - old) - 1 \in 1 .. Len(history)
           /\ fresh + (i - old) - 1 <= last
           /\ fresh + (i - old) - 1 >= fresh
  <2>1. /\ pending' \in Seq(Rows) /\ Len(pending') = old + added
        /\ \A i \in 1 .. old + added :
             pending'[i] = IF i <= old THEN pending[i] ELSE SubSeq(history, fresh, last)[i - old]
    BY SMTT(20), <1>1, <1>2, ConcatProperties
  <2>2. ASSUME NEW i \in 1 .. old + added, i > old
        PROVE  /\ pending'[i] = history[fresh + (i - old) - 1]
               /\ fresh + (i - old) - 1 \in 1 .. Len(history)
               /\ fresh + (i - old) - 1 <= last
               /\ fresh + (i - old) - 1 >= fresh
    <3>1. i - old \in 1 .. added
      BY <1>1, <1>3, <2>2
    <3>2. pending'[i] = SubSeq(history, fresh, last)[i - old]
      <4>1. ~(i <= old)
        BY <2>2, <1>1, <1>3
      <4> QED BY <4>1, <2>1
    <3>3. pending'[i] = history[fresh + (i - old) - 1]
      BY <3>1, <3>2, <1>2
    <3> QED BY <3>1, <3>3, <1>1, <1>2, <1>3
  <2>3. \A i \in 1 .. old : pending'[i] = pending[i]
    BY <2>1, <1>1, <1>3
  <2> QED BY <2>1, <2>2, <2>3
<1> HIDE DEF added
<1>5. \A i \in 1 .. Len(history) : history[i] \in Nat
  <2>1. \A i \in 1 .. Len(history) : history[i] \in Rows
    BY <1>1
  <2> QED BY <2>1, Constants
<1>6. \A i, j \in 1 .. Len(history) : i < j => history[i] < history[j]
  BY <1>1 DEF QueueInv
<1>7. history[first] >= bookmark.row
  BY <1>2, AheadFacts
<1>8. \A i \in 1 .. old : pending[i] \in Nat /\ pending[i] <= bookmark.row
  <2>1. \A i \in 1 .. old : pending[i] \in Rows
    BY <1>1
  <2>2. \A i \in 1 .. old : pending[i] <= bookmark.row
    BY <1>1 DEF QueueInv
  <2> QED BY <2>1, <2>2, Constants
<1>9. \A i \in 1 .. old, k \in 1 .. Len(history) : k >= fresh => pending[i] < history[k]
  <2> SUFFICES ASSUME NEW i \in 1 .. old, NEW k \in 1 .. Len(history), k >= fresh
               PROVE  pending[i] < history[k]
    OBVIOUS
  <2>1. history[first] <= history[k]
    BY SMTT(20), <1>2, <1>3, <1>5, <1>6
  <2>2. CASE fresh = first
    <3>1. pending[i] # history[first]
      BY <1>1, <1>2, <2>2, RangeOfRows
    <3> QED BY <3>1, <2>1, <1>1, <1>3, <1>5, <1>7, <1>8
  <2>3. CASE fresh = first + 1
    <3>1. history[first] < history[k]
      BY <2>3, <1>3, <1>6
    <3> QED BY <3>1, <1>1, <1>3, <1>5, <1>7, <1>8
  <2> QED BY <2>2, <2>3, <1>2
<1>10. \A i, j \in 1 .. old + added : i < j => pending'[i] < pending'[j]
  <2> SUFFICES ASSUME NEW i \in 1 .. old + added, NEW j \in 1 .. old + added, i < j
               PROVE  pending'[i] < pending'[j]
    OBVIOUS
  <2>1. CASE j <= old
    <3>1. i \in 1 .. old /\ j \in 1 .. old
      BY <2>1, <1>1, <1>3
    <3>2. pending[i] < pending[j]
      BY <3>1, <1>1 DEF QueueInv
    <3> QED BY <3>1, <3>2, <1>4
  <2>2. CASE i <= old /\ j > old
    <3>1. i \in 1 .. old /\ pending'[i] = pending[i]
      BY <2>2, <1>1, <1>3, <1>4
    <3>2. /\ pending'[j] = history[fresh + (j - old) - 1]
          /\ fresh + (j - old) - 1 \in 1 .. Len(history)
          /\ fresh + (j - old) - 1 >= fresh
      BY <2>2, <1>4
    <3> QED BY <3>1, <3>2, <1>9
  <2>3. CASE i > old
    <3>1. /\ pending'[i] = history[fresh + (i - old) - 1]
          /\ fresh + (i - old) - 1 \in 1 .. Len(history)
      BY <2>3, <1>4
    <3>2. /\ pending'[j] = history[fresh + (j - old) - 1]
          /\ fresh + (j - old) - 1 \in 1 .. Len(history)
      BY SMTT(20), <2>3, <1>1, <1>3, <1>4
    <3>3. fresh + (i - old) - 1 < fresh + (j - old) - 1
      BY <1>1, <1>3
    <3> QED BY <3>1, <3>2, <3>3, <1>6
  <2> QED BY <2>1, <2>2, <2>3, <1>1, <1>3
<1>11. history[first] <= history[last] /\ bookmark'.row = history[last] /\ bookmark'.id = last
  BY <1>2, <1>3, <1>5, <1>6
<1>12. \A i \in 1 .. old + added : pending'[i] <= bookmark'.row
  <2> SUFFICES ASSUME NEW i \in 1 .. old + added PROVE pending'[i] <= bookmark'.row
    OBVIOUS
  <2>1. CASE i <= old
    <3>1. i \in 1 .. old /\ pending'[i] = pending[i]
      BY <2>1, <1>1, <1>3, <1>4
    <3> QED BY <3>1, <1>1, <1>2, <1>3, <1>5, <1>7, <1>8, <1>11
  <2>2. CASE i > old
    <3>1. /\ pending'[i] = history[fresh + (i - old) - 1]
          /\ fresh + (i - old) - 1 \in 1 .. Len(history)
          /\ fresh + (i - old) - 1 <= last
      BY <2>2, <1>4
    <3>2. \A k \in 1 .. Len(history) : k <= last => history[k] <= history[last]
      <4> SUFFICES ASSUME NEW k \in 1 .. Len(history), k <= last PROVE history[k] <= history[last]
        OBVIOUS
      <4>1. k = last \/ k < last
        BY <1>3
      <4> QED BY <4>1, <1>2, <1>5, <1>6
    <3> QED BY <3>1, <3>2, <1>11
  <2> QED BY <2>1, <2>2, <1>1, <1>3
<1>13. UNCHANGED <<history, sent, reader>>
  BY DEF Poll, macVars
<1>14. QueueInv'
  <2>1. \A i \in DOMAIN history' :
          history'[i] <= sent' /\ (history'[i] = bookmark'.row => i <= bookmark'.id)
    <3>1. \A i \in 1 .. Len(history) : history[i] <= sent
      BY <1>1 DEF QueueInv
    <3>2. \A i \in 1 .. Len(history) : history[i] = history[last] => i <= last
      BY <1>2, <1>3, <1>5, <1>6
    <3> QED BY <3>1, <3>2, <1>1, <1>11, <1>13
  <2>2. bookmark'.row <= sent'
    BY <1>1, <1>2, <1>11, <1>13 DEF QueueInv
  <2>3. bookmark'.id # 0
    BY <1>2, <1>3, <1>11
  <2>4. DOMAIN pending' = 1 .. old + added
    BY <1>4
  <2>5. reader'.stage # "idle" => pending' # <<>>
    <3>1. reader.stage # "idle" => pending # <<>>
      BY DEF QueueInv
    <3>2. pending # <<>> => Len(pending) > 0
      BY <1>1
    <3> QED BY <3>1, <3>2, <1>1, <1>3, <1>4, <1>13
  <2>6. \A i, j \in DOMAIN history' : i < j => history'[i] < history'[j]
    BY <1>1, <1>6, <1>13
  <2> QED BY <2>1, <2>2, <2>3, <2>4, <2>5, <2>6, <1>10, <1>12 DEF QueueInv
<1>15. Range(pending) \subseteq Range(pending')
  <2> SUFFICES ASSUME NEW r \in Range(pending) PROVE r \in Range(pending')
    OBVIOUS
  <2>1. PICK i \in 1 .. old : pending[i] = r
    BY <1>1, RangeOfRows
  <2>2. i \in 1 .. Len(pending') /\ pending'[i] = r
    BY <2>1, <1>1, <1>3, <1>4
  <2> QED BY <2>2, <1>4, RangeOfRows
<1>16. pending # <<>> => Head(pending') = Head(pending)
  <2> SUFFICES ASSUME pending # <<>> PROVE Head(pending') = Head(pending)
    OBVIOUS
  <2>1. 1 \in 1 .. old /\ Len(pending') > 0
    BY <1>1, <1>3, <1>4
  <2>2. pending' # <<>>
    BY <2>1
  <2> QED BY <2>1, <2>2, <1>1, <1>4, TailFacts
<1>17. \A i \in 1 .. Len(pending') : pending'[i] \in Range(pending) \/ \E k \in 1 .. Len(history) : pending'[i] = history[k] /\ k >= first
  <2> SUFFICES ASSUME NEW i \in 1 .. Len(pending')
      PROVE pending'[i] \in Range(pending) \/ \E k \in 1 .. Len(history) : pending'[i] = history[k] /\ k >= first
    OBVIOUS
  <2>1. CASE i <= old
    <3>1. i \in 1 .. old /\ pending'[i] = pending[i]
      BY <2>1, <1>1, <1>3, <1>4
    <3> QED BY <3>1, <1>1, RangeOfRows
  <2>2. CASE i > old
    <3>1. fresh >= first
      BY <1>2, <1>3
    <3>2. /\ pending'[i] = history[fresh + (i - old) - 1]
          /\ fresh + (i - old) - 1 \in 1 .. Len(history)
          /\ fresh + (i - old) - 1 >= fresh
      BY <2>2, <1>4
    <3>3. fresh + (i - old) - 1 >= first
      BY <3>1, <3>2, <1>1, <1>3
    <3> QED BY <3>2, <3>3
  <2> QED BY <2>1, <2>2, <1>1, <1>3, <1>4
<1>18. \A i \in DOMAIN pending' : pending'[i] \in Range(pending) \cup Mac
  BY <1>1, <1>4, <1>17, RangeOfRows DEF Mac
<1>19. pending = <<>> => \A i \in DOMAIN pending' : pending'[i] >= bookmark.row
  <2> SUFFICES ASSUME pending = <<>>, NEW i \in 1 .. Len(pending') PROVE pending'[i] >= bookmark.row
    BY <1>4
  <2>1. PICK k \in 1 .. Len(history) : pending'[i] = history[k] /\ k >= first
    BY <1>17 DEF Range
  <2>2. history[first] <= history[k]
    BY <2>1, <1>3, <1>5, <1>6
  <2> QED BY <2>1, <2>2, <1>1, <1>3, <1>5, <1>7
<1>20. \A i \in Ahead : history[i] \in Range(pending') \/ i > bookmark'.id
  <2> SUFFICES ASSUME NEW i \in Ahead, i <= last PROVE history[i] \in Range(pending')
    <3>1. Ahead \in SUBSET (1 .. Len(history))
      BY AheadFacts
    <3> QED BY <3>1, <1>1, <1>3, <1>11
  <2>1. i \in 1 .. Len(history) /\ i \in Nat /\ first <= i
    <3>1. Ahead \in SUBSET (1 .. Len(history))
      BY AheadFacts
    <3> QED BY <3>1, <1>1, <1>2
  <2>2. CASE i < fresh
    <3>1. i = first /\ fresh = first + 1
      BY <2>1, <2>2, <1>2, <1>3
    <3> QED BY <3>1, <1>2, <1>15
  <2>3. CASE i >= fresh
    <3> DEFINE k == old + (i - fresh) + 1
    <3>1. k \in 1 .. old + added /\ k > old /\ fresh + (k - old) - 1 = i
      BY <2>1, <2>3, <1>1, <1>3 DEF added
    <3>2. pending'[k] = history[i]
      BY <3>1, <1>4
    <3> QED BY <3>1, <3>2, <1>4, RangeOfRows
  <2> QED BY <2>1, <2>2, <2>3, <1>3
<1>21. bookmark.row <= bookmark'.row
  BY <1>1, <1>2, <1>3, <1>5, <1>7, <1>11
<1> QED BY <1>14, <1>15, <1>16, <1>18, <1>19, <1>20, <1>21

LEMMA DequeueQueue ==
  ASSUME Typed, QueueInv, Dequeue
  PROVE  /\ QueueInv' /\ pending # <<>>
         /\ \A i \in DOMAIN pending' : pending'[i] >= Head(pending)
         /\ Range(pending) \subseteq Range(pending') \cup {Head(pending)}
         /\ Range(pending') \subseteq Range(pending)
         /\ Head(pending) <= bookmark'.row
<1>1. pending # <<>>
  BY DEF Dequeue, QueueInv
<1>2. pending \in Seq(Rows) /\ Len(pending) \in Nat /\ DOMAIN pending = 1 .. Len(pending) /\ bookmark.row \in Nat
  <2>1. bookmark.row \in Nat
    BY Constants DEF Typed, IntakeTypeOK
  <2> QED BY <2>1 DEF Typed, IntakeTypeOK
<1>3. /\ Head(pending) = pending[1] /\ Tail(pending) \in Seq(Rows) /\ Len(pending) \in Nat \ {0}
      /\ Len(Tail(pending)) = Len(pending) - 1
      /\ \A i \in 1 .. Len(pending) - 1 : Tail(pending)[i] = pending[i + 1]
      /\ \A e : e # Head(pending) /\ (\E i \in 1 .. Len(pending) : pending[i] = e)
               => \E i \in 1 .. Len(Tail(pending)) : Tail(pending)[i] = e
  BY <1>1, <1>2, TailFacts
<1>4. pending' = Tail(pending) /\ UNCHANGED <<history, sent, bookmark>> /\ reader'.stage = "idle"
  BY DEF Dequeue, macVars, Waiting
<1>5. \A i, j \in 1 .. Len(pending) : i < j => pending[i] < pending[j]
  BY <1>2 DEF QueueInv
<1>6. \A i \in 1 .. Len(pending) : pending[i] \in Nat /\ pending[i] <= bookmark.row
  <2>1. \A i \in 1 .. Len(pending) : pending[i] \in Rows
    BY <1>2
  <2>2. \A i \in 1 .. Len(pending) : pending[i] <= bookmark.row
    BY <1>2 DEF QueueInv
  <2> QED BY <2>1, <2>2, Constants
<1>7. DOMAIN pending' = 1 .. Len(pending) - 1 /\ 1 \in 1 .. Len(pending)
      /\ \A i \in 1 .. Len(pending) - 1 : pending'[i] = pending[i + 1] /\ i + 1 \in 1 .. Len(pending) /\ 1 < i + 1
  BY <1>3, <1>4
<1>8. QueueInv'
  <2>1. \A i, j \in DOMAIN pending' : i < j => pending'[i] < pending'[j]
    BY <1>5, <1>7
  <2>2. \A i \in DOMAIN pending' : pending'[i] <= bookmark'.row
    BY <1>4, <1>6, <1>7
  <2> QED BY <2>1, <2>2, <1>4 DEF QueueInv
<1>9. \A i \in DOMAIN pending' : pending'[i] >= Head(pending)
  <2> SUFFICES ASSUME NEW i \in 1 .. Len(pending) - 1 PROVE pending'[i] >= Head(pending)
    BY <1>7
  <2>1. pending'[i] = pending[i + 1] /\ i + 1 \in 1 .. Len(pending) /\ 1 < i + 1
    BY <1>7
  <2>2. pending[1] < pending[i + 1]
    BY <2>1, <1>5, <1>7
  <2> QED BY <2>1, <2>2, <1>3, <1>6, <1>7
<1>10. Range(pending) \subseteq Range(pending') \cup {Head(pending)}
  BY ZenonT(30), <1>2, <1>3, <1>4, RangeOfRows
<1>11. Range(pending') \subseteq Range(pending)
  BY <1>2, <1>7 DEF Range
<1>12. Head(pending) <= bookmark'.row
  BY <1>3, <1>4, <1>6, <1>7
<1> QED BY <1>1, <1>8, <1>9, <1>10, <1>11, <1>12

LEMMA QueueStep ==
  ASSUME Typed, QueueInv, RebuildNext
  PROVE  QueueInv'
<1>1. CASE Arrive \/ ReplaceIdle \/ Poll \/ Dequeue
  BY <1>1, ArriveQueue, ReplaceQueue, PollQueue, DequeueQueue
<1>2. CASE Look \/ Admit \/ LivePrompt \/ PromptNotFound \/ Record \/ ReaderFails
  <2>1. UNCHANGED <<macVars, queueVars>>
    BY <1>2 DEF Look, Admit, LivePrompt, PromptNotFound, Record, ReaderFails
  <2>2. pending # <<>>
    BY <1>2 DEF Look, Admit, LivePrompt, PromptNotFound, Record, ReaderFails, QueueInv
  <2> QED BY <2>1, <2>2, QueueKept
<1>3. CASE \E x \in Runners : Begin(x) \/ RunnerStep(x) \/ RunnerFails(x)
  BY <1>3, RunnerFrame, QueueKept
<1>4. CASE Restart \/ LoseSession \/ Block \/ End \/ Stop
  <2>1. UNCHANGED <<macVars, queueVars>> /\ (reader' = reader \/ reader'.stage = "idle")
    BY <1>4 DEF Restart, LoseSession, Block, End, Stop, Waiting
  <2> QED BY <2>1, QueueKept
<1> QED BY <1>1, <1>2, <1>3, <1>4 DEF RebuildNext, ReaderStep

-----------------------------------------------------------------------------
(* What each step of a rebuild does to its record. *)

Others(x) == \A y \in Runners : y # x => run'[y] = run[y]
Gone(x)   == run'[x].stage = "idle" /\ Others(x)
Moves(x, from, to, cursor) ==
  /\ run[x].stage = from /\ run'[x].stage = to /\ run'[x].cursor = cursor
  /\ run'[x].old = run[x].old /\ run'[x].target = run[x].target
  /\ Others(x)

LEMMA RunnerMoves ==
  ASSUME Typed, NEW x \in Runners
  PROVE  /\ FenceOld(x) => Moves(x, "fencing", "creating", run[x].cursor)
         /\ Create(x) =>
              \/ Gone(x) /\ ~Current(run[x].old)
              \/ /\ Current(run[x].old) /\ run'[x].stage = "sealing"
                 /\ run'[x].old = run[x].old /\ run'[x].target = lastSession + 1 /\ Others(x)
         /\ Seal(x) => Moves(x, "sealing", "waiting", run[x].cursor)
         /\ Enter(x) =>
              \/ Gone(x)
              \/ /\ Current(run[x].target) /\ rebuilding
                 /\ Moves(x, "waiting", "replaying", saved[run[x].target])
         /\ Pass(x) => Moves(x, "replaying", "replaying", run[x].cursor + 1)
         /\ Select(x) => Moves(x, "replaying", "admitting", run[x].cursor)
         /\ ReplayPrompt(x) => Moves(x, "admitting", "marking", run[x].cursor)
         /\ Mark(x) => Moves(x, "marking", "replaying", run[x].cursor + 1)
         /\ Replayed(x) => Moves(x, "replaying", "settling", run[x].cursor)
         /\ Complete(x) =>
              \/ Completes(x) /\ Moves(x, "settling", "releasing", run[x].cursor)
              \/ Moves(x, "settling", "removing", run[x].cursor)
         /\ MakeWritable(x) => Moves(x, "releasing", "finishing", run[x].cursor)
         /\ Finish(x) => Moves(x, "finishing", "removing", run[x].cursor)
         /\ RemoveOld(x) \/ NotFound(x) \/ RunnerFails(x) => Gone(x)
<1>0. RunTyped /\ run \in [Runners -> Runs] /\ run[x] \in Runs
  BY TypedParts DEF RunTyped
<1> USE <1>0, StageNames
<1>1. ASSUME NEW from, NEW to \in Stages, run[x].stage = from, To(x, to)
      PROVE  Moves(x, from, to, run[x].cursor)
  BY <1>1, RunStage DEF Moves, Others
<1>2. ASSUME run' = [run EXCEPT ![x] = Idle] PROVE Gone(x)
  BY <1>2, IdleTyped, RunSet DEF Gone, Others
<1>3. /\ FenceOld(x) => Moves(x, "fencing", "creating", run[x].cursor)
      /\ Seal(x) => Moves(x, "sealing", "waiting", run[x].cursor)
      /\ Select(x) => Moves(x, "replaying", "admitting", run[x].cursor)
      /\ ReplayPrompt(x) => Moves(x, "admitting", "marking", run[x].cursor)
      /\ Replayed(x) => Moves(x, "replaying", "settling", run[x].cursor)
      /\ MakeWritable(x) => Moves(x, "releasing", "finishing", run[x].cursor)
      /\ Finish(x) => Moves(x, "finishing", "removing", run[x].cursor)
  BY <1>1 DEF FenceOld, Seal, Select, ReplayPrompt, Replayed, MakeWritable, Finish
<1>4. RemoveOld(x) \/ NotFound(x) \/ RunnerFails(x) => Gone(x)
  BY <1>2 DEF RemoveOld, NotFound, RunnerFails
<1>5. Mark(x) => Moves(x, "marking", "replaying", run[x].cursor + 1)
  BY RunMoved DEF Mark, Moves, Others
<1>6. Pass(x) => Moves(x, "replaying", "replaying", run[x].cursor + 1)
  <2> SUFFICES ASSUME Pass(x) PROVE Moves(x, "replaying", "replaying", run[x].cursor + 1)
    OBVIOUS
  <2>1. run[x].stage = "replaying" /\ run' = [run EXCEPT ![x].cursor = @ + 1]
    BY DEF Pass
  <2> QED BY <2>1 DEF Moves, Others, Runs
<1>7. Complete(x) => \/ Completes(x) /\ Moves(x, "settling", "releasing", run[x].cursor)
                     \/ Moves(x, "settling", "removing", run[x].cursor)
  <2>1. CASE Completes(x)
    <3>1. Complete(x) => run[x].stage = "settling" /\ To(x, "releasing")
      BY <2>1 DEF Complete
    <3> QED BY <3>1, <2>1, <1>1
  <2>2. CASE ~Completes(x)
    <3>1. Complete(x) => run[x].stage = "settling" /\ To(x, "removing")
      BY <2>2 DEF Complete
    <3> QED BY <3>1, <1>1
  <2> QED BY <2>1, <2>2
<1>8. Enter(x) => \/ Gone(x)
                  \/ /\ Current(run[x].target) /\ rebuilding
                     /\ Moves(x, "waiting", "replaying", saved[run[x].target])
  <2>1. CASE /\ Current(run[x].target) /\ rebuilding
             /\ run[x].stage = "waiting"
             /\ run' = [run EXCEPT ![x].stage = "replaying", ![x].cursor = saved[run[x].target]]
    BY <2>1 DEF Moves, Others, Runs
  <2>2. CASE run' = [run EXCEPT ![x] = Idle]
    BY <2>2, <1>2
  <2> QED BY <2>1, <2>2 DEF Enter
<1>9. Create(x) => \/ Gone(x) /\ ~Current(run[x].old)
                   \/ /\ Current(run[x].old) /\ run'[x].stage = "sealing"
                      /\ run'[x].old = run[x].old /\ run'[x].target = lastSession + 1 /\ Others(x)
  <2>1. CASE /\ Current(run[x].old)
             /\ run' = [run EXCEPT ![x].stage = "sealing", ![x].target = lastSession + 1]
    BY <2>1 DEF Others, Runs
  <2>2. CASE ~Current(run[x].old) /\ run' = [run EXCEPT ![x] = Idle]
    BY <2>2, <1>2
  <2> QED BY <2>1, <2>2 DEF Create
<1> QED BY <1>3, <1>4, <1>5, <1>6, <1>7, <1>8, <1>9

-----------------------------------------------------------------------------
(* The locks. *)

\* Locks are kept by who has them, and given up.
LEMMA LocksKept ==
  ASSUME LockInv,
         \A y \in Runners : run'[y].stage \in Locked => run[y].stage \in Locked,
         \A y \in Runners : run'[y].stage \in Replaying =>
           run[y].stage \in Replaying /\ run'[y].target = run[y].target,
         Admitting' => /\ Admitting /\ reader'.session = reader.session
                       /\ session' = session /\ rebuilding' = rebuilding
  PROVE  LockInv'
<1>1. \A x, y \in Runners : run'[x].stage \in Locked /\ run'[y].stage \in Locked => x = y
  BY DEF LockInv
<1>2. Admitting' => LifecycleFree' /\ session' = reader'.session /\ ~rebuilding'
  BY DEF LockInv, LifecycleFree
<1>3. \A x, y \in Runners :
        run'[x].stage \in Replaying /\ run'[y].stage \in Replaying /\ run'[x].target = run'[y].target
          => x = y
  BY DEF LockInv
<1> QED BY <1>1, <1>2, <1>3 DEF LockInv

\* Who has the lifecycle lock keeps the reader out.
LEMMA LockedOut ==
  ASSUME LockInv, NEW x \in Runners, run[x].stage \in Locked
  PROVE  ~Admitting
  BY DEF LockInv, LifecycleFree

\* A rebuild that takes the lifecycle lock finds it free.
LEMMA LockTaken ==
  ASSUME LockInv, HandleFree, NEW x \in Runners, Others(x), UNCHANGED <<reader, session, rebuilding>>,
         run'[x].stage \in Replaying => run[x].stage \in Replaying /\ run'[x].target = run[x].target
  PROVE  LockInv'
<1>1. ~Admitting /\ \A y \in Runners : run[y].stage \notin Locked
  BY DEF HandleFree, LifecycleFree
<1>2. ~Admitting'
  BY <1>1 DEF Admitting
<1>3. \A y, z \in Runners : run'[y].stage \in Locked /\ run'[z].stage \in Locked => y = z
  BY <1>1 DEF Others
<1>4. \A y, z \in Runners :
        run'[y].stage \in Replaying /\ run'[z].stage \in Replaying /\ run'[y].target = run'[z].target
          => y = z
  BY DEF LockInv, Others
<1> QED BY <1>2, <1>3, <1>4 DEF LockInv

LEMMA RunnerDirectory ==
  ASSUME NEW x \in Runners, Begin(x) \/ RunnerStep(x) \/ RunnerFails(x), ~Create(x), ~Finish(x)
  PROVE  UNCHANGED directoryVars
  BY DEF Begin, RunnerStep, RunnerFails, FenceOld, Seal, Enter, Pass, Select, ReplayPrompt,
         Mark, Replayed, Complete, MakeWritable, RemoveOld, NotFound, intakeVars

LEMMA LockStep ==
  ASSUME Typed, LockInv, RebuildNext
  PROVE  LockInv'
<1>1. ASSUME NEW x \in Runners, Begin(x) \/ RunnerStep(x) \/ RunnerFails(x)
      PROVE  LockInv'
  <2>0. reader' = reader /\ (~Create(x) /\ ~Finish(x) => UNCHANGED <<session, rebuilding>>)
    BY <1>1, RunnerFrame, RunnerDirectory DEF directoryVars
  <2>1. CASE Begin(x)
    <3>1. run'[x].stage \notin Replaying /\ Others(x) /\ HandleFree
      BY <2>1, BeginFacts DEF Begin, Replaying, Others
    <3>2. UNCHANGED <<session, rebuilding>>
      BY <2>1 DEF Begin, intakeVars, directoryVars
    <3> QED BY <2>0, <3>1, <3>2, LockTaken
  <2>2. CASE Complete(x)
    <3>1. HandleFree /\ UNCHANGED <<session, rebuilding>>
      BY <2>2 DEF Complete, intakeVars, directoryVars
    <3>2. Others(x) /\ run[x].stage \in Replaying /\ run'[x].target = run[x].target
      BY <2>2, RunnerMoves DEF Moves, Replaying
    <3> QED BY <2>0, <3>1, <3>2, LockTaken
  <2>3. CASE Enter(x)
    <3>1. CASE Gone(x)
      <4>1. UNCHANGED <<session, rebuilding>>
        BY <2>3 DEF Enter, intakeVars, directoryVars
      <4> QED BY <3>1, <4>1, <2>0, LocksKept DEF Gone, Others, Locked, Replaying, Admitting
    <3>2. CASE Moves(x, "waiting", "replaying", saved[run[x].target])
      <4>1. UNCHANGED <<session, rebuilding>>
        BY <2>3 DEF Enter, intakeVars, directoryVars
      <4>2. \A y \in Runners : run[y].stage \in Replaying => run[y].target # run[x].target
        BY <2>3 DEF Enter
      <4>3. "replaying" \notin Locked
        BY DEF Locked
      <4>4. \A y, z \in Runners : run'[y].stage \in Locked /\ run'[z].stage \in Locked => y = z
        BY <3>2, <4>3 DEF LockInv, Moves, Others
      <4>5. Admitting' => LifecycleFree' /\ session' = reader'.session /\ ~rebuilding'
        BY <3>2, <4>1, <4>3, <2>0 DEF LockInv, Moves, Others, LifecycleFree, Admitting
      <4>6. \A y, z \in Runners :
              run'[y].stage \in Replaying /\ run'[z].stage \in Replaying /\ run'[y].target = run'[z].target
                => y = z
        BY <3>2, <4>2 DEF LockInv, Moves, Others
      <4> QED BY <4>4, <4>5, <4>6 DEF LockInv
    <3> QED BY <3>1, <3>2, <2>3, RunnerMoves
  <2>4. CASE Create(x)
    <3>1. run[x].stage \in Locked /\ ~Admitting
      BY <2>4, LockedOut DEF Create, Locked
    <3>2. Others(x) /\ run'[x].stage \in {"idle", "sealing"}
      BY <2>4, RunnerMoves DEF Gone
    <3> QED BY <3>1, <3>2, <2>0, LocksKept DEF Others, Locked, Replaying, Admitting
  <2>5. CASE Finish(x)
    <3>1. run[x].stage \in Locked /\ ~Admitting
      BY <2>5, LockedOut DEF Finish, Locked
    <3>2. Moves(x, "finishing", "removing", run[x].cursor)
      BY <2>5, RunnerMoves
    <3> QED BY <3>1, <3>2, <2>0, LocksKept DEF Moves, Others, Locked, Replaying, Admitting
  <2>6. CASE RemoveOld(x) \/ NotFound(x) \/ RunnerFails(x)
    <3>1. Gone(x)
      BY <2>6, RunnerMoves
    <3>2. UNCHANGED <<session, rebuilding>>
      BY <2>6 DEF RemoveOld, NotFound, RunnerFails, intakeVars, directoryVars
    <3> QED BY <3>1, <3>2, <2>0, LocksKept DEF Gone, Others, Locked, Replaying, Admitting
  <2>7. CASE \/ FenceOld(x) \/ Seal(x) \/ Pass(x) \/ Select(x) \/ ReplayPrompt(x) \/ Mark(x)
             \/ Replayed(x) \/ MakeWritable(x)
    <3>1. /\ Others(x) /\ run'[x].target = run[x].target
          /\ run'[x].stage \in Locked => run[x].stage \in Locked
          /\ run'[x].stage \in Replaying => run[x].stage \in Replaying
      BY <2>7, RunnerMoves DEF Moves, Locked, Replaying
    <3>2. UNCHANGED <<session, rebuilding>>
      BY <2>7 DEF FenceOld, Seal, Pass, Select, ReplayPrompt, Mark, Replayed, MakeWritable, intakeVars, directoryVars
    <3> QED BY <3>1, <3>2, <2>0, LocksKept DEF Others, Admitting
  <2> QED BY <1>1, <2>1, <2>2, <2>3, <2>4, <2>5, <2>6, <2>7 DEF RunnerStep
<1>2. CASE /\ Arrive \/ ReplaceIdle \/ Poll \/ ReaderStep \/ ReaderFails
           /\ UNCHANGED rebuildVars
  <2>0. run' = run /\ UNCHANGED <<session, rebuilding>>
    BY <1>2 DEF rebuildVars, Arrive, ReplaceIdle, Replace, Poll, ReaderStep, Look, Admit, LivePrompt,
            PromptNotFound, Record, Dequeue, ReaderFails, directoryVars
  <2>1. CASE HandleFree /\ Admit
    <3>1. (LifecycleFree' /\ session' = reader'.session /\ ~rebuilding') \/ ~Admitting'
      BY <2>0, <2>1, TypedParts DEF HandleFree, Admit, Admissible, Current, Admitting, Waiting, LifecycleFree,
         ReaderTyped
    <3> QED BY <3>1, <2>0 DEF LockInv
  <2>2. CASE ~(HandleFree /\ Admit)
    <3>1. Admitting' => Admitting /\ reader'.session = reader.session
      BY <1>2, <2>2, TypedParts DEF Arrive, ReplaceIdle, Replace, Poll, ReaderStep, Look, LivePrompt,
         PromptNotFound, Record, Dequeue, ReaderFails, Admitting, Waiting, ReaderTyped
    <3> QED BY <3>1, <2>0, LocksKept
  <2> QED BY <2>1, <2>2
<1>3. CASE Restart \/ LoseSession \/ Block \/ End \/ Stop
  <2>1. /\ \A y \in Runners : run'[y] = run[y] \/ run'[y] = Idle
        /\ session' = session /\ (Admitting' => Admitting /\ reader' = reader)
        /\ rebuilding' = rebuilding \/ rebuilding' = FALSE
    BY <1>3 DEF Restart, LoseSession, Block, End, Stop, directoryVars, executorVars, rebuildVars, Admitting, Waiting
  <2>2. CASE rebuilding' = rebuilding
    BY <2>1, <2>2, LocksKept DEF Idle, Locked, Replaying
  <2>3. CASE rebuilding' = FALSE
    <3>1. /\ \A y \in Runners : run'[y].stage \in Locked \cup Replaying => run'[y] = run[y]
      BY <2>1 DEF Idle, Locked, Replaying
    <3> QED BY <2>1, <2>3, <3>1 DEF LockInv, LifecycleFree
  <2> QED BY <2>1, <2>2, <2>3
<1> QED BY <1>1, <1>2, <1>3 DEF RebuildNext

-----------------------------------------------------------------------------
(* Sessions. *)

\* A session that is to come has left no trace.
Traceless(s) ==
  s \notin present /\ s \notin writable /\ seen[s] = {} /\ transcript[s] = <<>> /\ saved[s] = 0

LEMMA SessionKept ==
  ASSUME SessionInv, lastSession' = lastSession, session' = session,
         source' = source, rebuilding' = rebuilding, standing' = standing,
         \A y \in Runners :
           \/ run'[y].stage = "idle"
           \/ /\ run[y].stage # "idle"
              /\ run'[y].old = run[y].old /\ run'[y].target = run[y].target
              /\ run'[y].stage \in {"fencing", "creating"} => run[y].stage \in {"fencing", "creating"},
         \A s \in Sessions : s > lastSession /\ Traceless(s) => Traceless(s)'
  PROVE  SessionInv'
  BY DEF SessionInv, Traceless

LEMMA SessionStep ==
  ASSUME Typed, QueueInv, LockInv, SessionInv, CursorInv, RebuildNext
  PROVE  SessionInv'
<1>0. /\ session \in Sessions /\ source \in Sessions \cup {None} /\ lastSession \in Sessions
      /\ seen \in [Sessions -> SUBSET Rows] /\ transcript \in [Sessions -> Seq(Rows)]
      /\ saved \in [Sessions -> Nat] /\ RunTyped /\ session \in 1 .. lastSession
      /\ \A s \in Sessions : s \in 1 .. lastSession <=> ~(s > lastSession)
  BY SMTT(20), Constants, TypedParts
     DEF SessionTyped, CountsTyped, SeenTyped, ToldTyped, SavedTyped, SessionInv, Sessions
<1>1. ASSUME NEW x \in Runners, Begin(x) \/ RunnerStep(x) \/ RunnerFails(x)
      PROVE  SessionInv'
  <2>1. CASE Begin(x)
    <3>1. UNCHANGED <<lastSession, session, source, rebuilding, standing, present, writable, seen,
                      transcript, saved>>
      BY <2>1 DEF Begin, intakeVars, directoryVars, executorVars
    <3> QED BY <2>1, <3>1, <1>0, BeginFacts DEF SessionInv
  <2>2. CASE Create(x)
    <3>1. \A y \in Runners : y # x => run[y].stage \notin {"fencing", "creating"}
      BY <2>2 DEF LockInv, Create, Locked
    <3>2. lastSession < MaxSessions /\ lastSession' = lastSession + 1
          /\ UNCHANGED <<standing, writable, seen, transcript, saved>>
      BY <2>2 DEF Create, SessionInv
    <3>3. lastSession + 1 \in Sessions /\ 1 .. lastSession \subseteq 1 .. lastSession'
          /\ lastSession' \in 1 .. lastSession'
      BY <3>2, <1>0, Constants DEF Sessions
    <3>4. CASE Gone(x) /\ ~Current(run[x].old)
      <4>1. UNCHANGED <<session, rebuilding, source, present>>
        BY <2>2, <3>4 DEF Create
      <4> QED BY SMTT(20), <3>1, <3>2, <3>3, <3>4, <4>1, <1>0 DEF SessionInv, Gone, Others
    <3>5. CASE /\ Current(run[x].old) /\ run'[x].stage = "sealing"
               /\ run'[x].old = run[x].old /\ run'[x].target = lastSession + 1 /\ Others(x)
      <4>1. session' = lastSession + 1 /\ rebuilding' = TRUE /\ source' = SourceAfter
            /\ present' = present \cup {lastSession + 1} /\ standing = "open"
            /\ run[x].old \in 1 .. lastSession
        BY <2>2, <3>5 DEF Create, Current, SessionInv
      <4>2. SourceAfter # None /\ SourceAfter \in 1 .. lastSession
        BY <1>0, Constants DEF SourceAfter, SessionInv
      <4>3. \A y \in Runners :
              /\ run'[y].stage # "idle" =>
                   run'[y].old \in 1 .. lastSession' /\ run'[y].target \in 1 .. lastSession'
              /\ run'[y].stage \notin {"fencing", "creating"}
        BY <3>1, <3>2, <3>3, <3>5, <4>1 DEF SessionInv, Others
      <4>4. \A t \in Sessions : t > lastSession' => Traceless(t)'
        BY <3>2, <3>3, <4>1, <1>0 DEF SessionInv, Traceless
      <4>5. source' < session' /\ session' <= lastSession'
        <5>1. lastSession \in Nat
          BY <1>0, Constants DEF Sessions
        <5>2. \A t \in 1 .. lastSession : t < lastSession + 1 /\ lastSession + 1 <= lastSession + 1
          BY <5>1
        <5> QED BY <3>2, <4>1, <4>2, <5>1, <5>2
      <4> QED BY <3>2, <4>1, <4>2, <4>3, <4>4, <4>5 DEF SessionInv, Traceless
    <3> QED BY <2>2, <3>4, <3>5, RunnerMoves
  <2>3. CASE Finish(x)
    <3>1. Moves(x, "finishing", "removing", run[x].cursor)
      BY <2>3, RunnerMoves
    <3>2. UNCHANGED <<lastSession, session, standing, present, writable, seen, transcript, saved>>
      BY <2>3 DEF Finish, executorVars
    <3>3. (rebuilding' = rebuilding /\ source' = source) \/ (rebuilding' = FALSE /\ source' = None)
      BY <2>3, Zenon DEF Finish
    <3> QED BY <3>1, <3>2, <3>3 DEF SessionInv, Moves, Others
  <2>4. CASE ~Begin(x) /\ ~Create(x) /\ ~Finish(x)
    <3>1. UNCHANGED <<lastSession, session, source, rebuilding, standing>>
      BY <1>1, <2>4, RunnerDirectory DEF directoryVars, Begin, RunnerStep, RunnerFails, FenceOld, Seal,
         Enter, Pass, Select, ReplayPrompt, Mark, Replayed, Complete, MakeWritable, RemoveOld, NotFound
    <3>2. \A y \in Runners :
           \/ run'[y].stage = "idle"
           \/ /\ run[y].stage # "idle"
              /\ run'[y].old = run[y].old /\ run'[y].target = run[y].target
              /\ run'[y].stage \in {"fencing", "creating"} => run[y].stage \in {"fencing", "creating"}
      BY <1>1, <2>4, RunnerMoves DEF RunnerStep, Moves, Gone, Others
    <3>3. run[x].stage # "idle"
      BY <1>1, <2>4 DEF RunnerStep, RunnerFails, FenceOld, Seal, Enter, Pass, Select, ReplayPrompt, Mark,
         Replayed, Complete, MakeWritable, RemoveOld, NotFound
    <3>4. run[x].target \in 1 .. lastSession /\ run[x].target \in Sessions
      BY <3>3, <1>0, Constants DEF SessionInv, Sessions
    <3>5. ASSUME NEW t \in Sessions, t > lastSession, Traceless(t)
          PROVE  Traceless(t)'
      <4>1. t # run[x].target
        BY <3>4, <3>5, <1>0
      <4>2. seen'[t] = seen[t]
        <5>1. CASE Mark(x)
          <6>1. Row(x) \in Rows
            BY <5>1, RowTyped DEF Mark, CursorInv
          <6> QED BY ZenonT(30), <5>1, <6>1, <3>4, <4>1, ReceiptedFacts DEF Mark
        <5>2. CASE ~Mark(x)
          BY <1>1, <2>4, <5>2 DEF RunnerStep, RunnerFails, FenceOld, Seal, Enter, Pass, Select,
             ReplayPrompt, Replayed, Complete, MakeWritable, RemoveOld, NotFound, intakeVars
        <5> QED BY <5>1, <5>2
      <4>3. transcript'[t] = transcript[t]
        <5>1. CASE ReplayPrompt(x)
          <6>1. Row(x) \in Rows
            BY <5>1, RowTyped DEF ReplayPrompt, CursorInv
          <6> QED BY <5>1, <6>1, <3>4, <4>1, PromptedFacts DEF ReplayPrompt
        <5>2. CASE ~ReplayPrompt(x)
          BY <1>1, <2>4, <5>2 DEF RunnerStep, RunnerFails, FenceOld, Seal, Enter, Pass, Select,
             Mark, Replayed, Complete, MakeWritable, RemoveOld, NotFound, intakeVars, executorVars
        <5> QED BY <5>1, <5>2
      <4>4. t \notin writable' /\ t \notin present'
        BY <1>1, <2>4, <3>5, <4>1 DEF RunnerStep, RunnerFails, FenceOld, Seal, Enter, Pass, Select,
             ReplayPrompt, Mark, Replayed, Complete, MakeWritable, RemoveOld, NotFound, intakeVars,
             executorVars, Traceless
      <4>5. saved'[t] = saved[t]
        BY <1>1, <2>4, <4>1, <1>0 DEF RunnerStep, RunnerFails, FenceOld, Seal, Enter, Pass, Select,
             ReplayPrompt, Mark, Replayed, Complete, MakeWritable, RemoveOld, NotFound
      <4> QED BY <3>5, <4>2, <4>3, <4>4, <4>5 DEF Traceless
    <3> QED BY <3>1, <3>2, <3>5, SessionKept
  <2> QED BY <2>1, <2>2, <2>3, <2>4
<1>2. CASE /\ Arrive \/ ReplaceIdle \/ Poll \/ ReaderStep \/ ReaderFails
           /\ UNCHANGED rebuildVars
  <2>1. UNCHANGED <<run, saved, lastSession, session, source, rebuilding, standing, present, writable>>
    BY <1>2 DEF rebuildVars, Arrive, ReplaceIdle, Replace, Poll, ReaderStep, Look, Admit, LivePrompt,
            PromptNotFound, Record, Dequeue, ReaderFails, directoryVars, executorVars
  <2>2. ASSUME NEW t \in Sessions, t > lastSession
        PROVE  seen'[t] = seen[t] /\ transcript'[t] = transcript[t]
    <3>1. CASE LivePrompt
      <4>1. reader.session = session /\ pending # <<>>
        BY <3>1 DEF LivePrompt, LockInv, QueueInv, Admitting
      <4>2. Head(pending) \in Rows /\ t # session
        BY <4>1, <2>2, <1>0, HeadTyped
      <4> QED BY <3>1, <4>1, <4>2, <1>0, PromptedFacts DEF LivePrompt
    <3>2. CASE Record
      <4>1. reader.session = session /\ pending # <<>>
        BY <3>2 DEF Record, LockInv, QueueInv, Admitting
      <4>2. Head(pending) \in Rows /\ t # session
        BY <4>1, <2>2, <1>0, HeadTyped
      <4> QED BY <3>2, <4>1, <4>2, <1>0, ReceiptedFacts DEF Record, executorVars
    <3>3. CASE ~LivePrompt /\ ~Record
      BY <1>2, <3>3 DEF Arrive, ReplaceIdle, Replace, Poll, ReaderStep, Look, Admit,
            PromptNotFound, Dequeue, ReaderFails, executorVars
    <3> QED BY <3>1, <3>2, <3>3
  <2> QED BY <2>1, <2>2, SessionKept DEF Traceless, SessionInv
<1>3. CASE Restart \/ LoseSession \/ Block \/ End \/ Stop
  <2>1. /\ UNCHANGED <<lastSession, session, source, seen, transcript>>
        /\ present' \subseteq present /\ writable' \subseteq writable
        /\ \A t \in Sessions : saved'[t] = saved[t] \/ saved'[t] = 0
        /\ rebuilding' => rebuilding /\ standing' # "ended"
        /\ \A y \in Runners : run'[y] = run[y] \/ run'[y] = Idle
    BY <1>3, <1>0 DEF Restart, LoseSession, Block, End, Stop, directoryVars, executorVars, rebuildVars, SessionInv
  <2>2. \A y \in Runners : run'[y].stage # "idle" => run'[y] = run[y]
    BY <2>1, IdleTyped
  <2> QED BY <2>1, <2>2 DEF SessionInv
<1> QED BY <1>1, <1>2, <1>3 DEF RebuildNext

-----------------------------------------------------------------------------
(* The session that is rebuilt. *)

LEMMA TargetKept ==
  ASSUME TargetInv, session' = session, rebuilding' = rebuilding,
         standing' # "ended" => standing # "ended",
         \A y \in Runners :
           \/ run'[y].stage \notin Underway
           \/ /\ run[y].stage \in Underway /\ run'[y].target = run[y].target
              /\ run'[y].stage \in {"releasing", "finishing"} => run[y].stage \in {"releasing", "finishing"}
  PROVE  TargetInv'
  BY DEF TargetInv, Underway, Replaying

LEMMA TargetStep ==
  ASSUME Typed, LockInv, SessionInv, TargetInv, RebuildNext
  PROVE  TargetInv'
<1>0. /\ session \in Sessions /\ lastSession \in Nat /\ session \in 1 .. lastSession
  BY Constants, TypedParts DEF SessionTyped, CountsTyped, SessionInv, Sessions
<1>1. ASSUME NEW x \in Runners, Begin(x) \/ RunnerStep(x) \/ RunnerFails(x)
      PROVE  TargetInv'
  <2>0. standing' = standing /\ (~Create(x) /\ ~Finish(x) => UNCHANGED <<session, rebuilding>>)
    BY <1>1, RunnerFrame, RunnerDirectory DEF directoryVars
  <2>1. CASE Begin(x)
    <3>1. run'[x].stage \notin Underway /\ Others(x)
      BY <2>1, BeginFacts DEF Underway, Replaying, Others
    <3>2. ~Create(x) /\ ~Finish(x)
      BY <2>1 DEF Begin, Create, Finish
    <3> QED BY <2>0, <3>1, <3>2, TargetKept DEF Others
  <2>2. CASE Create(x)
    <3>1. \A y \in Runners : y # x => run[y].stage \notin {"releasing", "finishing"}
      BY <2>2 DEF LockInv, Create, Locked
    <3>2. CASE Gone(x) /\ ~Current(run[x].old)
      <4>1. UNCHANGED <<session, rebuilding>>
        BY <2>2, <3>2 DEF Create
      <4> QED BY <2>0, <3>2, <4>1, TargetKept DEF Gone, Others, Underway, Replaying
    <3>3. CASE Current(run[x].old) /\ run'[x].stage = "sealing" /\ Others(x)
      <4>1. rebuilding' = TRUE
        BY <2>2, <3>3 DEF Create
      <4> QED BY <3>1, <3>3, <4>1 DEF TargetInv, Others, Underway, Replaying
    <3> QED BY <2>2, <3>2, <3>3, RunnerMoves
  <2>3. CASE Finish(x)
    <3>1. Moves(x, "finishing", "removing", run[x].cursor)
      BY <2>3, RunnerMoves
    <3>2. run[x].target = session /\ session' = session
      BY <2>3 DEF Finish, TargetInv
    <3>3. \A y \in Runners : y # x /\ run[y].stage \in Underway =>
            run[y].target # session /\ run[y].stage \notin {"releasing", "finishing"}
      BY <3>2, <2>3 DEF LockInv, Finish, Locked, Replaying, Underway
    <3> QED BY <2>0, <3>1, <3>2, <3>3 DEF TargetInv, Moves, Others, Underway, Replaying
  <2>4. CASE Enter(x)
    <3>0. ~Create(x) /\ ~Finish(x)
      BY <2>4 DEF Enter, Create, Finish
    <3>1. \/ Gone(x)
          \/ /\ Current(run[x].target) /\ rebuilding
             /\ Moves(x, "waiting", "replaying", saved[run[x].target])
      BY <2>4, RunnerMoves
    <3> QED BY <2>0, <3>0, <3>1 DEF TargetInv, Moves, Gone, Others, Underway, Replaying
  <2>5. CASE Complete(x)
    <3>1. UNCHANGED <<session, rebuilding>>
      BY <2>0, <2>5 DEF Complete, Create, Finish
    <3>2. CASE Completes(x) /\ Moves(x, "settling", "releasing", run[x].cursor)
      BY <2>0, <3>1, <3>2 DEF TargetInv, Moves, Others, Underway, Replaying, Completes, Current
    <3>3. CASE Moves(x, "settling", "removing", run[x].cursor)
      BY <2>0, <3>1, <3>3, TargetKept DEF Moves, Others, Underway
    <3> QED BY <2>5, <3>2, <3>3, RunnerMoves
  <2>6. CASE \/ FenceOld(x) \/ Seal(x) \/ Pass(x) \/ Select(x) \/ ReplayPrompt(x) \/ Mark(x)
             \/ Replayed(x) \/ MakeWritable(x) \/ RemoveOld(x) \/ NotFound(x) \/ RunnerFails(x)
    <3>1. UNCHANGED <<session, rebuilding>>
      BY <2>6 DEF FenceOld, Seal, Pass, Select, ReplayPrompt, Mark, Replayed, MakeWritable,
         RemoveOld, NotFound, RunnerFails, intakeVars, directoryVars
    <3>2. /\ Others(x)
          /\ \/ run'[x].stage \notin Underway
             \/ /\ run[x].stage \in Underway /\ run'[x].target = run[x].target
                /\ run'[x].stage \in {"releasing", "finishing"} => run[x].stage \in {"releasing", "finishing"}
      BY <2>6, RunnerMoves DEF Moves, Gone, Underway, Replaying
    <3> QED BY <2>0, <3>1, <3>2, TargetKept DEF Others
  <2> QED BY <1>1, <2>1, <2>2, <2>3, <2>4, <2>5, <2>6 DEF RunnerStep
<1>2. CASE /\ Arrive \/ ReplaceIdle \/ Poll \/ ReaderStep \/ ReaderFails
           /\ UNCHANGED rebuildVars
  <2>1. UNCHANGED <<run, session, rebuilding, standing>>
    BY <1>2 DEF rebuildVars, Arrive, ReplaceIdle, Replace, Poll, ReaderStep, Look, Admit, LivePrompt,
            PromptNotFound, Record, Dequeue, ReaderFails, directoryVars
  <2> QED BY <2>1, TargetKept DEF Underway
<1>3. CASE Restart \/ LoseSession \/ Block \/ Stop
  <2>1. /\ UNCHANGED <<session, rebuilding>> /\ (standing' # "ended" => standing # "ended")
        /\ \A y \in Runners : run'[y] = run[y] \/ run'[y] = Idle
    BY <1>3 DEF Restart, LoseSession, Block, Stop, directoryVars, executorVars, rebuildVars
  <2> QED BY <2>1, TargetKept DEF Idle, Underway, Replaying
<1>4. CASE End
  <2>1. \A y \in Runners : run'[y] = run[y] /\ run[y].stage \notin {"releasing", "finishing"}
    BY <1>4 DEF End, LifecycleFree, Locked
  <2> QED BY <2>1, <1>4 DEF End, TargetInv
<1> QED BY <1>1, <1>2, <1>3, <1>4 DEF RebuildNext

-----------------------------------------------------------------------------
(* Which steps change what. *)

LEMMA Frames ==
  ASSUME RebuildNext
  PROVE  /\ ~Arrive /\ ~ReplaceIdle => UNCHANGED <<history, sent>>
         /\ ~Poll /\ ~Dequeue => UNCHANGED <<bookmark, pending>>
         /\ ~Record /\ (\A x \in Runners : ~Mark(x)) => UNCHANGED seen
         /\ ~LivePrompt /\ (\A x \in Runners : ~ReplayPrompt(x)) => UNCHANGED transcript
         /\ ~Block /\ ~End => UNCHANGED standing
         /\ ~End /\ (\A x \in Runners : ~Create(x) /\ ~Finish(x)) => UNCHANGED <<session, source, rebuilding>>
         /\ (\A x \in Runners : ~MakeWritable(x)) => writable' \subseteq writable
<1>1. CASE (Arrive \/ ReplaceIdle \/ Poll \/ ReaderStep \/ ReaderFails) /\ UNCHANGED rebuildVars
  BY <1>1 DEF Arrive, ReplaceIdle, Replace, Poll, ReaderStep, Look, Admit, LivePrompt, PromptNotFound,
     Record, Dequeue, ReaderFails, macVars, queueVars, directoryVars, executorVars
<1>2. ASSUME NEW x \in Runners, Begin(x) \/ RunnerStep(x) \/ RunnerFails(x)
      PROVE  /\ UNCHANGED <<history, sent, bookmark, pending, standing>>
             /\ ~Mark(x) => UNCHANGED seen
             /\ ~ReplayPrompt(x) => UNCHANGED transcript
             /\ ~Create(x) /\ ~Finish(x) => UNCHANGED <<session, source, rebuilding>>
             /\ ~MakeWritable(x) => writable' \subseteq writable
  <2>1. UNCHANGED <<history, sent, bookmark, pending, standing>>
    BY <1>2, RunnerFrame DEF macVars, queueVars
  <2>2. ~Create(x) /\ ~Finish(x) => UNCHANGED <<session, source, rebuilding>>
    BY <1>2, RunnerDirectory DEF directoryVars
  <2>3. ~Mark(x) => UNCHANGED seen
    BY <1>2 DEF Begin, RunnerStep, RunnerFails, FenceOld, Create, Seal, Enter, Pass, Select,
         ReplayPrompt, Replayed, Complete, MakeWritable, Finish, RemoveOld, NotFound, intakeVars
  <2>4. ~ReplayPrompt(x) => UNCHANGED transcript
    BY <1>2 DEF Begin, RunnerStep, RunnerFails, FenceOld, Create, Seal, Enter, Pass, Select,
         Mark, Replayed, Complete, MakeWritable, Finish, RemoveOld, NotFound, intakeVars, executorVars
  <2>5. ~MakeWritable(x) => writable' \subseteq writable
    BY <1>2 DEF Begin, RunnerStep, RunnerFails, FenceOld, Create, Seal, Enter, Pass, Select,
         ReplayPrompt, Mark, Replayed, Complete, Finish, RemoveOld, NotFound, intakeVars, executorVars
  <2> QED BY <2>1, <2>2, <2>3, <2>4, <2>5
<1>3. CASE Restart \/ LoseSession \/ Block \/ End \/ Stop
  BY <1>3 DEF Restart, LoseSession, Block, End, Stop, macVars, queueVars, directoryVars, executorVars
<1> QED BY <1>1, <1>2, <1>3 DEF RebuildNext

-----------------------------------------------------------------------------
(* The receipts that bound a replay. *)

BoundInv ==
  /\ standing # "ended" => (rebuilding <=> source # None)
  /\ rebuilding => source < session /\ seen[session] \subseteq seen[source]

LEMMA TypeParts == RebuildTypeOK <=> Typed /\ BoundInv
  BY DEF RebuildTypeOK, Typed, BoundInv

\* A row that is prompted or marked for the conversation's session is one that the
\* session before had received.
LEMMA RowBound ==
  ASSUME Typed, SessionInv, TargetInv, CursorInv, RowInv, NEW x \in Runners,
         run[x].stage \in {"admitting", "marking"}
  PROVE  /\ Row(x) \in Rows /\ Row(x) \in Mac /\ run[x].target \in Sessions
         /\ session = run[x].target /\ standing # "ended" =>
              rebuilding /\ source \in Sessions /\ source # session /\ source < session /\ Row(x) \in seen[source]
<1>1. Row(x) \in Rows /\ Row(x) \in Mac
  BY RowTyped DEF CursorInv
<1>2. run[x].target \in Sessions
  BY TypedParts, Constants DEF SessionInv, CountsTyped, Sessions
<1>3. session = run[x].target /\ standing # "ended" => rebuilding /\ Row(x) \in seen[source]
  BY DEF TargetInv, Underway, Replaying, RowInv
<1>4. rebuilding => source \in Sessions /\ source < session /\ source # session
  BY TypedParts, Constants DEF SessionInv, SessionTyped
<1> QED BY <1>1, <1>2, <1>3, <1>4

LEMMA BoundStep ==
  ASSUME Typed, QueueInv, LockInv, SessionInv, TargetInv, CursorInv, RowInv, BoundInv, RebuildNext
  PROVE  BoundInv'
<1>0. /\ session \in Sessions /\ source \in Sessions \cup {None} /\ lastSession \in Nat
      /\ session \in Nat /\ session <= lastSession
  BY Constants, TypedParts DEF SessionTyped, CountsTyped, SessionInv
<1>1. ASSUME NEW x \in Runners, Create(x) PROVE BoundInv'
  <2>1. CASE UNCHANGED <<session, rebuilding, source>>
    BY <1>1, <2>1 DEF Create, BoundInv
  <2>2. CASE session' = lastSession + 1 /\ rebuilding' = TRUE /\ source' = SourceAfter
    <3>1. SourceAfter \in Sessions /\ SourceAfter <= lastSession
      BY <1>0, Constants DEF SourceAfter, SessionInv
    <3>2. lastSession + 1 \in Sessions /\ lastSession + 1 > lastSession
      BY <1>1, <1>0, Constants DEF Create, SessionInv, Sessions
    <3>3. seen'[lastSession + 1] = {}
      BY <1>1, <3>2 DEF Create, SessionInv
    <3>4. SourceAfter < lastSession + 1 /\ SourceAfter # None
      BY <3>1, <1>0, Constants
    <3> QED BY <2>2, <3>3, <3>4 DEF BoundInv
  <2> QED BY <1>1, <2>1, <2>2 DEF Create
<1>2. ASSUME NEW x \in Runners, Finish(x) PROVE BoundInv'
  <2>1. UNCHANGED <<session, standing, seen>>
    BY <1>2 DEF Finish
  <2>2. (rebuilding' = rebuilding /\ source' = source) \/ (rebuilding' = FALSE /\ source' = None)
    BY <1>2, Zenon DEF Finish
  <2> QED BY <2>1, <2>2 DEF BoundInv
<1>3. ASSUME NEW x \in Runners, Mark(x) PROVE BoundInv'
  <2>1. UNCHANGED <<session, source, standing, rebuilding>> /\ seen' = Receipted(run[x].target, Row(x))
    BY <1>3 DEF Mark, directoryVars
  <2>2. Row(x) \in Rows /\ run[x].target \in Sessions
        /\ (session = run[x].target /\ standing # "ended" =>
              rebuilding /\ source \in Sessions /\ source # session /\ Row(x) \in seen[source])
    BY <1>3, RowBound DEF Mark
  <2>3. rebuilding => source \in Sessions /\ source # session
    BY <1>0, Constants DEF SessionInv
  <2>4. \A t \in Sessions :
          seen'[t] = IF t = run[x].target /\ session = run[x].target /\ standing # "ended"
                     THEN seen[t] \cup {Row(x)} ELSE seen[t]
    BY <2>1, <2>2, SeenAfter
  <2>5. rebuilding => seen'[source] = seen[source]
    BY <2>3, <2>4
  <2>6. rebuilding => seen'[session] \subseteq seen[source]
    BY <2>2, <2>3, <2>4, <1>0 DEF BoundInv
  <2>7. rebuilding' => source' < session' /\ seen'[session'] \subseteq seen'[source']
    BY <2>1, <2>5, <2>6 DEF BoundInv
  <2> QED BY <2>1, <2>7 DEF BoundInv
<1>4. CASE Record
  <2>1. UNCHANGED <<session, source, standing, rebuilding>> /\ ~rebuilding
    BY <1>4 DEF Record, directoryVars, LockInv, Admitting
  <2> QED BY <2>1 DEF BoundInv
<1>5. CASE End
  BY <1>5 DEF End, BoundInv
<1>6. CASE Block
  BY <1>6 DEF Block, BoundInv
<1>7. CASE /\ ~Record /\ ~End /\ ~Block
           /\ \A x \in Runners : ~Mark(x) /\ ~Create(x) /\ ~Finish(x)
  <2>1. UNCHANGED <<session, source, rebuilding, standing, seen>>
    BY <1>7, Frames
  <2> QED BY <2>1 DEF BoundInv
<1> QED BY <1>1, <1>2, <1>3, <1>4, <1>5, <1>6, <1>7

-----------------------------------------------------------------------------
(* No session is ahead of the queue. *)

LEMMA ForemostTyped == ASSUME Typed PROVE Foremost \in Nat
<1>1. bookmark.row \in Nat
  BY Constants DEF Typed, IntakeTypeOK
<1>2. pending # <<>> => Head(pending) \in Nat
  BY HeadTyped, Constants
<1> QED BY <1>1, <1>2 DEF Foremost

LEMMA BehindStep ==
  ASSUME Typed, QueueInv, LockInv, SessionInv, TargetInv, CursorInv, RowInv, BehindInv, RebuildNext
  PROVE  BehindInv'
<1>0. Foremost \in Nat /\ \A s \in Sessions : \A row \in seen[s] \cup Told(s) : row \in Nat
  <2>1. seen \in [Sessions -> SUBSET Rows] /\ transcript \in [Sessions -> Seq(Rows)]
    BY DEF Typed, IntakeTypeOK
  <2>2. \A s \in Sessions : \A row \in Told(s) : row \in Rows
    BY <2>1, RangeOfRows DEF Told
  <2> QED BY <2>1, <2>2, Constants, ForemostTyped
<1>1. CASE Poll \/ Dequeue
  <2>1. UNCHANGED <<seen, transcript>>
    BY <1>1 DEF Poll, Dequeue, executorVars
  <2>2. Foremost <= Foremost' /\ Foremost' \in Nat
    <3>0. Typed'
      BY TypedStep
    <3>1. Foremost' \in Nat
      <4>1. bookmark'.row \in Nat
        BY <3>0, Constants DEF Typed, IntakeTypeOK
      <4>2. pending' # <<>> => Head(pending') \in Nat
        <5>1. pending' \in Seq(Rows)
          BY <3>0 DEF Typed, IntakeTypeOK
        <5> QED BY <5>1, TailFacts, Constants
      <4> QED BY <4>1, <4>2 DEF Foremost
    <3>2. pending \in Seq(Rows) /\ pending' \in Seq(Rows)
      BY <3>0 DEF Typed, IntakeTypeOK
    <3>3. pending' # <<>> => Head(pending') = pending'[1] /\ 1 \in DOMAIN pending'
      BY <3>2, TailFacts
    <3>4. CASE Poll
      <4>1. CASE pending = <<>>
        BY <3>1, <3>3, <3>4, <4>1, PollQueue DEF Foremost
      <4>2. CASE pending # <<>>
        <5>1. Head(pending) \in Range(pending')
          BY <3>4, <4>2, PollQueue, HeadTyped
        <5>2. pending' # <<>>
          BY <5>1 DEF Range
        <5> QED BY <1>0, <3>4, <4>2, <5>2, PollQueue DEF Foremost
      <4> QED BY <4>1, <4>2
    <3>5. CASE Dequeue
      BY <3>1, <3>3, <3>5, DequeueQueue DEF Foremost
    <3> QED BY <1>1, <3>1, <3>4, <3>5
  <2> QED BY <1>0, <2>1, <2>2 DEF BehindInv, Told
<1>2. CASE LivePrompt
  <2>1. UNCHANGED <<seen, pending, bookmark>> /\ transcript' = Prompted(reader.session, Head(pending))
    BY <1>2 DEF LivePrompt, queueVars
  <2>2. pending # <<>> /\ reader.session \in Sessions
    BY <1>2, TypedParts DEF LivePrompt, QueueInv, LockInv, Admitting, SessionTyped
  <2>3. Head(pending) \in Rows /\ Foremost' = Foremost /\ Foremost = Head(pending)
    BY <2>1, <2>2, HeadTyped DEF Foremost
  <2>4. \A t \in Sessions : Told(t)' \subseteq Told(t) \cup {Head(pending)}
    BY <2>1, <2>2, <2>3, ToldAfter
  <2> QED BY <1>0, <2>1, <2>3, <2>4 DEF BehindInv
<1>3. CASE Record
  <2>1. UNCHANGED <<transcript, pending, bookmark>> /\ seen' = Receipted(reader.session, Head(pending))
    BY <1>3 DEF Record, queueVars, executorVars
  <2>2. pending # <<>> /\ reader.session \in Sessions
    BY <1>3, TypedParts DEF Record, QueueInv, LockInv, Admitting, SessionTyped
  <2>3. Head(pending) \in Rows /\ Foremost' = Foremost /\ Foremost = Head(pending)
    BY <2>1, <2>2, HeadTyped DEF Foremost
  <2>4. \A t \in Sessions : seen'[t] \subseteq seen[t] \cup {Head(pending)}
    BY <2>1, <2>2, <2>3, ReceiptedFacts
  <2> QED BY <1>0, <2>1, <2>3, <2>4 DEF BehindInv, Told
<1>4. ASSUME NEW x \in Runners, ReplayPrompt(x) PROVE BehindInv'
  <2>1. UNCHANGED <<seen, pending, bookmark>>
    BY <1>4 DEF ReplayPrompt, queueVars
  <2>2. CASE transcript' = transcript
    BY <2>1, <2>2 DEF BehindInv, Told, Foremost
  <2>3. CASE Current(run[x].target) /\ transcript' = Prompted(run[x].target, Row(x))
    <3>1. Row(x) \in Rows /\ run[x].target \in Sessions /\ source \in Sessions /\ Row(x) \in seen[source]
      BY <1>4, <2>3, RowBound DEF ReplayPrompt, Current
    <3>2. \A t \in Sessions : Told(t)' \subseteq Told(t) \cup {Row(x)}
      BY <2>3, <3>1, ToldAfter
    <3>3. Row(x) <= Foremost /\ Foremost' = Foremost
      BY <2>1, <3>1 DEF BehindInv, Foremost
    <3> QED BY <2>1, <3>2, <3>3 DEF BehindInv
  <2> QED BY <1>4, <2>2, <2>3 DEF ReplayPrompt
<1>5. ASSUME NEW x \in Runners, Mark(x) PROVE BehindInv'
  <2>1. UNCHANGED <<transcript, pending, bookmark>> /\ seen' = Receipted(run[x].target, Row(x))
    BY <1>5 DEF Mark, queueVars, executorVars
  <2>2. /\ Row(x) \in Rows /\ run[x].target \in Sessions
        /\ session = run[x].target /\ standing # "ended" => source \in Sessions /\ Row(x) \in seen[source]
    BY <1>5, RowBound DEF Mark
  <2>3. Foremost' = Foremost /\ \A t \in Sessions : Told(t)' = Told(t)
    BY <2>1 DEF Foremost, Told
  <2>4. CASE session = run[x].target /\ standing # "ended"
    <3>1. Row(x) <= Foremost
      BY <2>2, <2>4 DEF BehindInv
    <3>2. \A t \in Sessions : seen'[t] \subseteq seen[t] \cup {Row(x)}
      BY <2>1, <2>2, SeenAfter
    <3> QED BY <2>3, <3>1, <3>2 DEF BehindInv
  <2>5. CASE ~(session = run[x].target /\ standing # "ended")
    <3>1. \A t \in Sessions : seen'[t] = seen[t]
      BY <2>1, <2>2, <2>5, SeenAfter
    <3> QED BY <2>3, <3>1 DEF BehindInv
  <2> QED BY <2>4, <2>5
<1>6. CASE /\ ~Poll /\ ~Dequeue /\ ~LivePrompt /\ ~Record
           /\ \A x \in Runners : ~ReplayPrompt(x) /\ ~Mark(x)
  <2>1. UNCHANGED <<seen, transcript, pending, bookmark>>
    BY <1>6, Frames
  <2> QED BY <2>1 DEF BehindInv, Told, Foremost
<1> QED BY <1>1, <1>2, <1>3, <1>4, <1>5, <1>6

-----------------------------------------------------------------------------
(* Receipts. *)

\* The rows of the history are numbers, none later than the last that was sent.
LEMMA MacRows ==
  ASSUME Typed
  PROVE  /\ Len(history) \in Nat /\ DOMAIN history = 1 .. Len(history)
         /\ \A i \in DOMAIN history : history[i] \in Rows /\ history[i] \in Nat /\ i \in Nat
         /\ sent \in Nat /\ bookmark.row \in Nat /\ bookmark.id \in Nat
<1>1. history \in Seq(Rows) /\ sent \in 0 .. MaxRows /\ bookmark \in [id : Nat, row : 0 .. MaxRows]
  BY DEF Typed, IntakeTypeOK
<1>2. \A i \in 1 .. Len(history) : history[i] \in Rows
  BY <1>1
<1>3. sent \in Nat /\ bookmark.row \in Nat /\ bookmark.id \in Nat
  <2>1. sent \in Nat
    BY Constants DEF Typed, IntakeTypeOK
  <2>2. bookmark.row \in Nat /\ bookmark.id \in Nat
    BY Constants DEF Typed, IntakeTypeOK
  <2> QED BY <2>1, <2>2
<1>4. Len(history) \in Nat /\ DOMAIN history = 1 .. Len(history)
  BY <1>1
<1>5. \A i \in 1 .. Len(history) : i \in Nat
  BY <1>4
<1>6. \A i \in 1 .. Len(history) : history[i] \in Nat
  BY <1>2, Constants
<1> QED BY <1>2, <1>3, <1>4, <1>5, <1>6

\* What a step of the replay, and of the reader, does to the receipts.
LEMMA MarkFacts ==
  ASSUME Typed, SessionInv, TargetInv, CursorInv, RowInv, NEW x \in Runners, Mark(x)
  PROVE  /\ UNCHANGED <<history, sent, bookmark, pending, session, rebuilding, source, standing,
                        present, writable, transcript, reader, lastSession>>
         /\ Row(x) \in Rows /\ Row(x) \in Mac /\ run[x].target \in Sessions
         /\ session = run[x].target /\ standing # "ended" =>
              /\ rebuilding /\ source \in Sessions /\ source # session /\ Row(x) \in seen[source]
              /\ \A t \in Sessions : seen'[t] = IF t = session THEN seen[t] \cup {Row(x)} ELSE seen[t]
         /\ ~(session = run[x].target /\ standing # "ended") => UNCHANGED seen
<1>1. UNCHANGED <<history, sent, bookmark, pending, session, rebuilding, source, standing,
                  present, writable, transcript, reader, lastSession>>
      /\ seen' = Receipted(run[x].target, Row(x)) /\ run[x].stage = "marking"
  BY DEF Mark, macVars, queueVars, directoryVars, executorVars
<1>2. /\ Row(x) \in Rows /\ Row(x) \in Mac /\ run[x].target \in Sessions
      /\ session = run[x].target /\ standing # "ended" =>
           rebuilding /\ source \in Sessions /\ source # session /\ Row(x) \in seen[source]
  BY <1>1, RowBound
<1>3. session = run[x].target /\ standing # "ended" =>
        \A t \in Sessions : seen'[t] = IF t = session THEN seen[t] \cup {Row(x)} ELSE seen[t]
  BY <1>1, <1>2, SeenAfter
<1>4. ~(session = run[x].target /\ standing # "ended") => UNCHANGED seen
  BY <1>1 DEF Receipted
<1> QED BY <1>1, <1>2, <1>3, <1>4

LEMMA RecordFacts ==
  ASSUME Typed, QueueInv, LockInv, Record
  PROVE  /\ UNCHANGED <<history, sent, bookmark, pending, session, rebuilding, source, standing,
                        present, writable, transcript>>
         /\ pending # <<>> /\ Head(pending) \in Rows /\ reader.session = session /\ ~rebuilding
         /\ reader'.stage = "received"
         /\ standing # "ended" =>
              \A t \in Sessions : seen'[t] = IF t = session THEN seen[t] \cup {Head(pending)} ELSE seen[t]
         /\ standing = "ended" => UNCHANGED seen
<1>1. /\ UNCHANGED <<history, sent, bookmark, pending, session, rebuilding, source, standing,
                     present, writable, transcript>>
      /\ seen' = Receipted(reader.session, Head(pending)) /\ reader.stage = "recording"
  BY DEF Record, macVars, queueVars, directoryVars, executorVars
<1>2. pending # <<>> /\ reader.session = session /\ ~rebuilding
  BY <1>1 DEF QueueInv, LockInv, Admitting
<1>3. Head(pending) \in Rows
  BY <1>2, HeadTyped
<1>4. session \in Sessions
  BY TypedParts DEF SessionTyped
<1>5. standing # "ended" =>
        \A t \in Sessions : seen'[t] = IF t = session THEN seen[t] \cup {Head(pending)} ELSE seen[t]
  BY <1>1, <1>2, <1>3, <1>4, SeenAfter
<1>6. standing = "ended" => UNCHANGED seen
  BY <1>1 DEF Receipted
<1>7. reader'.stage = "received"
  BY TypedParts DEF Record, ReaderTyped
<1> QED BY <1>1, <1>2, <1>3, <1>5, <1>6, <1>7

\* While a session is rebuilt only its own receipts are added.
LEMMA SeenGrows ==
  ASSUME Typed, QueueInv, LockInv, SessionInv, TargetInv, CursorInv, RowInv, RebuildNext, rebuilding
  PROVE  /\ source \in Sessions /\ source # session
         /\ seen[session] \subseteq seen'[session] /\ seen'[source] = seen[source]
<1>0. session \in Sessions /\ source \in Sessions /\ source # session
  <2>1. session \in Sessions /\ source \in Sessions \cup {None} /\ source # None /\ source < session
    BY TypedParts DEF SessionInv, SessionTyped
  <2> QED BY <2>1, Constants
<1>1. ASSUME NEW x \in Runners, Mark(x) PROVE seen[session] \subseteq seen'[session] /\ seen'[source] = seen[source]
  BY <1>0, <1>1, MarkFacts
<1>2. ~Record
  BY RecordFacts
<1>3. CASE \A x \in Runners : ~Mark(x)
  <2>1. UNCHANGED seen
    BY <1>2, <1>3, Frames
  <2> QED BY <2>1, <1>0
<1> QED BY <1>0, <1>1, <1>3

\* Nobody knows the next message.
LEMMA NewMessage ==
  ASSUME Typed, QueueInv, BehindInv
  PROVE  \A s \in Sessions : sent + 1 \notin seen[s] \cup Told(s)
<1>1. Foremost <= sent /\ Foremost \in Nat
  <2>1. pending # <<>> => Head(pending) <= bookmark.row /\ Head(pending) \in Nat
    <3>1. pending # <<>> => Head(pending) = pending[1] /\ 1 \in 1 .. Len(pending) /\ Head(pending) \in Nat
      BY HeadTyped, Constants
    <3>2. DOMAIN pending = 1 .. Len(pending)
      BY DEF Typed, IntakeTypeOK
    <3> QED BY <3>1, <3>2 DEF QueueInv
  <2> QED BY <2>1, MacRows DEF Foremost, QueueInv
<1> QED BY <1>1, MacRows DEF BehindInv

\* Whatever was covered stays so, a new message of his included: it has no receipt.
LEMMA CoveredKept ==
  ASSUME Typed, QueueInv, LockInv, SessionInv, TargetInv, CursorInv, RowInv, BehindInv, RebuildNext,
         rebuilding, ~ReplaceIdle, session' = session, source' = source
  PROVE  /\ \A n \in Nat : Covered(n) => Covered(n)'
         /\ Covered(Len(history)) => Covered(Len(history))'
<1>0. /\ source \in Sessions /\ seen[session] \subseteq seen'[session] /\ seen'[source] = seen[source]
  BY SeenGrows
<1>1. CASE history' = history
  BY <1>0, <1>1, MacRows DEF Covered
<1>2. CASE Arrive
  <2>1. /\ history' = Append(history, sent + 1) /\ sent + 1 \in Rows /\ history \in Seq(Rows)
    BY <1>2, MacRows, Constants DEF Arrive, Rows, Typed, IntakeTypeOK
  <2>2. /\ Len(history') = Len(history) + 1 /\ DOMAIN history' = 1 .. Len(history) + 1
        /\ \A i \in 1 .. Len(history) + 1 : history'[i] = IF i <= Len(history) THEN history[i] ELSE sent + 1
    BY <2>1, AppendedRow
  <2>3. sent + 1 \notin seen[source]
    BY <1>0, NewMessage
  <2>4. \A i \in DOMAIN history' : history'[i] \in seen'[source'] =>
          i \in DOMAIN history /\ i <= Len(history) /\ history[i] = history'[i] /\ history[i] \in seen[source]
    BY <1>0, <2>2, <2>3, MacRows
  <2> QED BY <1>0, <2>2, <2>4, MacRows DEF Covered
<1> QED BY <1>1, <1>2, Frames

-----------------------------------------------------------------------------
(* The cursor of a replay leaves nothing behind. *)

SavedInv ==
  /\ \A s \in Sessions : saved[s] <= Len(history)
  /\ rebuilding /\ standing = "open" => Covered(saved[session])
CursorAt(x) ==
  /\ run[x].stage \in {"replaying", "admitting", "marking"} => run[x].cursor <= Len(history)
  /\ run[x].stage \in {"admitting", "marking"} => run[x].cursor < Len(history)
  /\ run[x].stage \in {"replaying", "admitting", "marking"} /\ Current(run[x].target)
       => Covered(run[x].cursor)
  /\ run[x].stage = "settling" /\ Current(run[x].target) => Covered(Len(history))
  /\ run[x].stage \in {"releasing", "finishing"} => Covered(Len(history))
LateInv == rebuilding /\ session \in writable => Covered(Len(history))

LEMMA CursorParts == CursorInv <=> SavedInv /\ (\A x \in Runners : CursorAt(x)) /\ LateInv
  BY DEF CursorInv, SavedInv, CursorAt, LateInv

LEMMA CursorTyped ==
  ASSUME Typed
  PROVE  /\ \A x \in Runners : run[x].cursor \in Nat
         /\ \A s \in Sessions : saved[s] \in Nat
         /\ session \in Sessions
<1>1. RunTyped /\ SavedTyped /\ SessionTyped
  BY TypedParts
<1> QED BY <1>1 DEF RunTyped, Runs, SavedTyped, SessionTyped

LEMMA HistoryGrows ==
  ASSUME Typed, QueueInv, LockInv, SessionInv, CursorInv, RebuildNext, ~ReplaceIdle
  PROVE  Len(history) <= Len(history') /\ Len(history') \in Nat
<1>1. Len(history) \in Nat /\ Len(history') \in Nat
  <2>1. history \in Seq(Rows) /\ history' \in Seq(Rows)
    BY TypedStep DEF Typed, IntakeTypeOK
  <2> QED BY <2>1
<1>2. CASE history' = history
  BY <1>1, <1>2
<1>3. CASE Arrive
  <2>1. history' = Append(history, sent + 1) /\ sent + 1 \in Rows /\ history \in Seq(Rows)
    BY <1>3, MacRows, Constants DEF Arrive, Rows, Typed, IntakeTypeOK
  <2>2. Len(history') = Len(history) + 1
    BY <2>1, AppendedRow
  <2> QED BY <1>1, <2>2
<1> QED BY <1>2, <1>3, Frames

\* What is underway and current is a rebuild.
LEMMA UnderwayRebuilds ==
  ASSUME TargetInv, NEW x \in Runners
  PROVE  /\ run[x].stage \in Underway /\ Current(run[x].target) => rebuilding /\ session = run[x].target
         /\ run[x].stage \in {"releasing", "finishing"} => rebuilding /\ session = run[x].target
  BY DEF TargetInv, Current

\* A rebuild that a step leaves alone is as far as it was.
LEMMA CursorOfOthers ==
  ASSUME Typed, QueueInv, LockInv, SessionInv, TargetInv, CursorInv, RowInv, BehindInv, RebuildNext,
         ~ReplaceIdle, session' = session, source' = source, standing' = "open" => standing = "open",
         NEW y \in Runners, run'[y] = run[y]
  PROVE  CursorAt(y)'
<1>1. CursorAt(y) /\ run[y].cursor \in Nat /\ Len(history) \in Nat
  BY CursorParts, CursorTyped, MacRows
<1>2. rebuilding => /\ \A n \in Nat : Covered(n) => Covered(n)'
                    /\ Covered(Len(history)) => Covered(Len(history))'
  BY CoveredKept
<1>3. Current(run[y].target)' => Current(run[y].target)
  BY DEF Current
<1>4. Len(history) <= Len(history') /\ Len(history') \in Nat
  BY HistoryGrows
<1>5. run[y].stage \in {"replaying", "admitting", "marking"} /\ Current(run[y].target)
        => Covered(run[y].cursor)'
  <2>1. run[y].stage \in {"replaying", "admitting", "marking"} /\ Current(run[y].target)
        => rebuilding /\ Covered(run[y].cursor)
    BY <1>1, UnderwayRebuilds DEF CursorAt, Underway, Replaying
  <2> QED BY <2>1, <1>1, <1>2 DEF Covered
<1>6. run[y].stage = "settling" /\ Current(run[y].target) => Covered(Len(history))'
  BY <1>1, <1>2, UnderwayRebuilds DEF CursorAt, Underway, Replaying
<1>7. run[y].stage \in {"releasing", "finishing"} => Covered(Len(history))'
  BY <1>1, <1>2, UnderwayRebuilds DEF CursorAt
<1> QED BY <1>1, <1>3, <1>4, <1>5, <1>6, <1>7 DEF CursorAt

\* A step whose rebuild, if it moves one, is where it says.
LEMMA CursorMoved ==
  ASSUME Typed, QueueInv, LockInv, SessionInv, TargetInv, CursorInv, RowInv, BehindInv, RebuildNext,
         ~ReplaceIdle, session' = session, source' = source, standing' = "open" => standing = "open",
         rebuilding' => rebuilding,
         session \in writable' => session \in writable \/ Covered(Len(history))',
         \A s \in Sessions :
           \/ saved'[s] = saved[s] \/ saved'[s] = 0
           \/ \E y \in Runners : run'[y].target = s /\ run'[y].stage = "replaying" /\ saved'[s] = run'[y].cursor,
         \A y \in Runners : run'[y] = run[y] \/ CursorAt(y)'
  PROVE  CursorInv'
<1>1. \A y \in Runners : CursorAt(y)'
  BY CursorOfOthers
<1>2. Len(history) <= Len(history') /\ Len(history') \in Nat /\ Len(history) \in Nat
  BY HistoryGrows, MacRows
<1>3. rebuilding => /\ \A n \in Nat : Covered(n) => Covered(n)'
                    /\ Covered(Len(history)) => Covered(Len(history))'
  BY CoveredKept
<1>4. SavedInv'
  <2>1. SavedInv /\ (\A s \in Sessions : saved[s] \in Nat) /\ session \in Sessions
    BY CursorParts, CursorTyped
  <2>2. \A y \in Runners :
          run'[y].stage = "replaying" =>
            /\ run'[y].cursor <= Len(history')
            /\ session' = run'[y].target /\ standing' = "open" => Covered(run[y].cursor)'
    BY <1>1 DEF CursorAt, Current
  <2>3. \A s \in Sessions : saved'[s] <= Len(history')
    BY <1>2, <2>1, <2>2 DEF SavedInv
  <2>4. ASSUME rebuilding', standing' = "open" PROVE Covered(saved[session])'
    <3>1. CASE saved'[session] = saved[session]
      <4>1. Covered(saved[session])
        BY <2>1, <2>4 DEF SavedInv
      <4> QED BY <1>3, <2>1, <2>4, <3>1, <4>1 DEF Covered
    <3>2. CASE saved'[session] = 0
      <4>1. history' \in Seq(Rows)
        BY TypedStep DEF Typed, IntakeTypeOK
      <4> QED BY <3>2, <4>1 DEF Covered
    <3>3. ASSUME NEW y \in Runners, run'[y].target = session, run'[y].stage = "replaying",
                 saved'[session] = run'[y].cursor
          PROVE  Covered(saved[session])'
      <4>1. Covered(run[y].cursor)'
        BY <2>2, <2>4, <3>3
      <4> QED BY <3>3, <4>1 DEF Covered
    <3> QED BY <2>1, <3>1, <3>2, <3>3
  <2> QED BY <2>3, <2>4 DEF SavedInv
<1>5. LateInv'
  <2>1. LateInv
    BY CursorParts
  <2> QED BY <1>3, <2>1 DEF LateInv
<1>6. SavedInv' /\ (\A y \in Runners : CursorAt(y)') /\ LateInv' => CursorInv'
  BY DEF CursorInv, SavedInv, CursorAt, LateInv
<1> QED BY <1>1, <1>4, <1>5, <1>6

\* A step that moves no rebuild towards its end and gives no permission to write.
LEMMA CursorKept ==
  ASSUME Typed, QueueInv, LockInv, SessionInv, TargetInv, CursorInv, RowInv, BehindInv, RebuildNext,
         ~ReplaceIdle, session' = session, source' = source, standing' = "open" => standing = "open",
         rebuilding' => rebuilding, session \in writable' => session \in writable,
         \A s \in Sessions : saved'[s] = saved[s] \/ saved'[s] = 0,
         \A y \in Runners : run'[y] = run[y] \/ run'[y].stage \notin Underway
  PROVE  CursorInv'
<1>1. ASSUME NEW y \in Runners, run'[y].stage \notin Underway PROVE CursorAt(y)'
  BY <1>1 DEF CursorAt, Underway, Replaying
<1> QED BY <1>1, CursorMoved

\* The row behind the cursor is not one that the session lacks.
LEMMA RowCovered ==
  ASSUME Typed, CursorInv, NEW x \in Runners, run[x].stage \in {"replaying", "marking"},
         run[x].cursor < Len(history), Current(run[x].target),
         history' = history, session' = session, source' = source, seen'[source] = seen[source],
         seen[session] \subseteq seen'[session], Row(x) \in seen[source] => Row(x) \in seen'[session]
  PROVE  \A n \in Nat : n = run[x].cursor + 1 => Covered(n)'
<1>1. Covered(run[x].cursor) /\ run[x].cursor \in Nat
  BY CursorTyped DEF CursorInv
<1>2. \A i \in DOMAIN history : i \in Nat /\ (i <= run[x].cursor + 1 => i <= run[x].cursor \/ i = run[x].cursor + 1)
  BY <1>1, MacRows
<1>3. \A i \in DOMAIN history : i <= run[x].cursor + 1 /\ history[i] \in seen[source] => history[i] \in seen'[session]
  BY <1>1, <1>2 DEF Covered, Row
<1> QED BY <1>3 DEF Covered

LEMMA EnterCursor ==
  ASSUME Typed, QueueInv, LockInv, SessionInv, TargetInv, CursorInv, RowInv, BehindInv, RebuildNext,
         NEW x \in Runners, Enter(x), ~ReplaceIdle
  PROVE  CursorInv'
<1>1. UNCHANGED <<history, session, source, standing, rebuilding, writable, seen, saved>>
  BY DEF Enter, intakeVars, macVars, directoryVars, executorVars
<1>2. CASE Gone(x)
  BY <1>1, <1>2, CursorKept DEF Gone, Others, Underway, Replaying
<1>3. CASE /\ Current(run[x].target) /\ rebuilding
           /\ Moves(x, "waiting", "replaying", saved[run[x].target])
  <2>1. saved[session] <= Len(history) /\ Covered(saved[session]) /\ session = run[x].target
    BY <1>3, CursorTyped DEF CursorInv, Current
  <2>2. CursorAt(x)'
    BY <1>1, <1>3, <2>1 DEF CursorAt, Moves, Covered
  <2> QED BY <1>1, <1>3, <2>2, CursorMoved DEF Moves, Others
<1> QED BY <1>2, <1>3, RunnerMoves

LEMMA PassCursor ==
  ASSUME Typed, QueueInv, LockInv, SessionInv, TargetInv, CursorInv, RowInv, BehindInv, RebuildNext,
         NEW x \in Runners, Pass(x), ~ReplaceIdle
  PROVE  CursorInv'
<1>1. UNCHANGED <<history, session, source, standing, rebuilding, writable, seen>>
      /\ run[x].stage = "replaying"
      /\ saved' \in {saved, [saved EXCEPT ![run[x].target] = run'[x].cursor]}
  BY DEF Pass, intakeVars, macVars, directoryVars, executorVars
<1>2. Moves(x, "replaying", "replaying", run[x].cursor + 1)
  BY RunnerMoves
<1>3. run[x].cursor \in Nat /\ run[x].cursor < Len(history) /\ Len(history) \in Nat
  BY CursorTyped, MacRows DEF Pass, Exhausted
<1>4. Current(run[x].target) => Covered(run[x].cursor)'
  <2> SUFFICES ASSUME Current(run[x].target) PROVE Covered(run[x].cursor)'
    OBVIOUS
  <2>1. rebuilding /\ session = run[x].target
    BY <1>1, UnderwayRebuilds DEF Underway, Replaying
  <2>2. Row(x) \in seen[source] => Row(x) \in seen[session]
    BY <2>1 DEF Pass, Replayable
  <2>3. \A n \in Nat : n = run[x].cursor + 1 => Covered(n)'
    BY <1>1, <1>3, <2>2, RowCovered
  <2>4. run'[x].cursor = run[x].cursor + 1 /\ run[x].cursor + 1 \in Nat
    BY <1>2, <1>3 DEF Moves
  <2> QED BY <2>3, <2>4 DEF Covered
<1>5. CursorAt(x)'
  BY <1>1, <1>2, <1>3, <1>4 DEF CursorAt, Moves, Current
<1>6. \A s \in Sessions :
        \/ saved'[s] = saved[s]
        \/ run'[x].target = s /\ run'[x].stage = "replaying" /\ saved'[s] = run'[x].cursor
  BY <1>1, <1>2, TypedParts DEF SavedTyped, Moves
<1> QED BY <1>1, <1>2, <1>5, <1>6, CursorMoved DEF Moves, Others

LEMMA MarkCursor ==
  ASSUME Typed, QueueInv, LockInv, SessionInv, TargetInv, CursorInv, RowInv, BehindInv, RebuildNext,
         NEW x \in Runners, Mark(x), ~ReplaceIdle
  PROVE  CursorInv'
<1>1. UNCHANGED <<history, session, source, standing, rebuilding, writable>>
      /\ run[x].stage = "marking"
      /\ saved' \in {saved, [saved EXCEPT ![run[x].target] = run'[x].cursor]}
  BY MarkFacts DEF Mark
<1>2. Moves(x, "marking", "replaying", run[x].cursor + 1)
  BY RunnerMoves
<1>3. run[x].cursor \in Nat /\ run[x].cursor < Len(history) /\ Len(history) \in Nat
  BY <1>1, CursorTyped, MacRows DEF CursorInv
<1>4. Current(run[x].target) => Covered(run[x].cursor)'
  <2> SUFFICES ASSUME Current(run[x].target) PROVE Covered(run[x].cursor)'
    OBVIOUS
  <2>1. session \in Sessions /\ session = run[x].target /\ standing # "ended"
    BY CursorTyped DEF Current
  <2>2. /\ Row(x) \in seen'[session] /\ seen[session] \subseteq seen'[session]
        /\ seen'[source] = seen[source]
    BY <2>1, MarkFacts
  <2>3. \A n \in Nat : n = run[x].cursor + 1 => Covered(n)'
    BY <1>1, <1>3, <2>2, RowCovered
  <2>4. run'[x].cursor = run[x].cursor + 1 /\ run[x].cursor + 1 \in Nat
    BY <1>2, <1>3 DEF Moves
  <2> QED BY <2>3, <2>4 DEF Covered
<1>5. CursorAt(x)'
  BY <1>1, <1>2, <1>3, <1>4 DEF CursorAt, Moves, Current
<1>6. \A s \in Sessions :
        \/ saved'[s] = saved[s]
        \/ run'[x].target = s /\ run'[x].stage = "replaying" /\ saved'[s] = run'[x].cursor
  BY <1>1, <1>2, TypedParts DEF SavedTyped, Moves
<1> QED BY <1>1, <1>2, <1>5, <1>6, CursorMoved DEF Moves, Others

LEMMA ForwardCursor ==
  ASSUME Typed, QueueInv, LockInv, SessionInv, TargetInv, CursorInv, RowInv, BehindInv, RebuildNext,
         NEW x \in Runners, Select(x) \/ ReplayPrompt(x) \/ Replayed(x) \/ Complete(x) \/ MakeWritable(x),
         ~ReplaceIdle
  PROVE  CursorInv'
<1>1. UNCHANGED <<history, session, source, standing, rebuilding, seen>>
  BY DEF Select, ReplayPrompt, Replayed, Complete, MakeWritable, intakeVars, macVars, directoryVars
<1>2. CursorAt(x) /\ run[x].cursor \in Nat /\ Len(history) \in Nat
  BY CursorParts, CursorTyped, MacRows
<1>3. CASE Select(x)
  <2>1. Moves(x, "replaying", "admitting", run[x].cursor) /\ run[x].cursor < Len(history)
    BY <1>2, <1>3, RunnerMoves DEF Select, Exhausted
  <2>2. CursorAt(x)'
    BY <1>1, <1>2, <2>1 DEF CursorAt, Moves, Covered, Current
  <2>3. UNCHANGED <<writable, saved>>
    BY <1>3 DEF Select, intakeVars, executorVars
  <2> QED BY <1>1, <2>1, <2>2, <2>3, CursorMoved DEF Moves, Others
<1>4. CASE ReplayPrompt(x)
  <2>1. Moves(x, "admitting", "marking", run[x].cursor)
    BY <1>4, RunnerMoves
  <2>2. CursorAt(x)'
    BY <1>1, <1>2, <2>1 DEF CursorAt, Moves, Covered, Current
  <2>3. UNCHANGED <<writable, saved>>
    BY <1>4 DEF ReplayPrompt
  <2> QED BY <1>1, <2>1, <2>2, <2>3, CursorMoved DEF Moves, Others
<1>5. CASE Replayed(x)
  <2>1. Moves(x, "replaying", "settling", run[x].cursor) /\ run[x].cursor >= Len(history)
    BY <1>5, RunnerMoves DEF Replayed, Exhausted
  <2>2. Covered(run[x].cursor) => Covered(Len(history))'
    BY <1>1, <1>2, <2>1, MacRows DEF Covered
  <2>3. CursorAt(x)'
    BY <1>1, <1>2, <2>1, <2>2 DEF CursorAt, Moves, Current
  <2>4. writable' = writable /\ \A s \in Sessions : saved'[s] = saved[s] \/ saved'[s] = 0
    BY <1>5, TypedParts DEF Replayed, intakeVars, executorVars, SavedTyped
  <2> QED BY <1>1, <2>1, <2>3, <2>4, CursorMoved DEF Moves, Others
<1>6. CASE Complete(x)
  <2>1. UNCHANGED <<writable, saved>>
    BY <1>6 DEF Complete, intakeVars, executorVars
  <2>2. CASE Completes(x) /\ Moves(x, "settling", "releasing", run[x].cursor)
    <3>1. CursorAt(x)'
      BY <1>1, <1>2, <2>2 DEF CursorAt, Moves, Covered, Completes
    <3> QED BY <1>1, <2>1, <2>2, <3>1, CursorMoved DEF Moves, Others
  <2>3. CASE Moves(x, "settling", "removing", run[x].cursor)
    BY <1>1, <2>1, <2>3, CursorKept DEF Moves, Others, Underway
  <2> QED BY <1>6, <2>2, <2>3, RunnerMoves
<1>7. CASE MakeWritable(x)
  <2>1. Moves(x, "releasing", "finishing", run[x].cursor)
    BY <1>7, RunnerMoves
  <2>2. Covered(Len(history))'
    BY <1>1, <1>2, <2>1 DEF CursorAt, Moves, Covered
  <2>3. CursorAt(x)'
    BY <2>1, <2>2 DEF CursorAt, Moves
  <2>4. saved' = saved
    BY <1>7 DEF MakeWritable
  <2> QED BY <1>1, <2>1, <2>2, <2>3, <2>4, CursorMoved DEF Moves, Others
<1> QED BY <1>3, <1>4, <1>5, <1>6, <1>7

\* The history of a replay is not replaced.
LEMMA NotReplaced == ASSUME Typed, history' = history \/ Arrive PROVE ~ReplaceIdle
<1>1. history \in Seq(Rows) /\ Len(history) \in Nat
  BY MacRows DEF Typed, IntakeTypeOK
<1>2. ReplaceIdle => Len(history') = Len(history) - 1
  BY <1>1, MacRows, RemovedAt DEF ReplaceIdle, Replace
<1>3. Arrive => Len(history') = Len(history) + 1
  <2>1. Arrive => history' = Append(history, sent + 1) /\ sent + 1 \in Rows
    BY MacRows, Constants DEF Arrive, Rows, Typed, IntakeTypeOK
  <2> QED BY <2>1, <1>1, AppendedRow
<1> QED BY <1>1, <1>2, <1>3

LEMMA ReplaceCursor ==
  ASSUME Typed, QueueInv, SessionInv, TargetInv, CursorInv, ReplaceIdle, UNCHANGED rebuildVars
  PROVE  CursorInv'
<1>1. UNCHANGED <<session, source, standing, rebuilding, seen, writable, run, saved>>
  BY DEF ReplaceIdle, Replace, rebuildVars, directoryVars, executorVars
<1>2. (\A x \in Runners : run[x].stage \notin Replaying) /\ \A s \in Sessions : saved[s] = 0
  BY DEF ReplaceIdle
<1>3. Mac' \subseteq Mac
  BY ReplaceQueue
<1>4. history' \in Seq(Rows) /\ Len(history') \in Nat /\ DOMAIN history' = 1 .. Len(history')
  <2>1. PICK i \in DOMAIN history : history' = RemoveAt(history, i)
    BY DEF ReplaceIdle, Replace
  <2>2. i \in 1 .. Len(history) /\ history \in Seq(Rows)
    BY <2>1, MacRows DEF Typed, IntakeTypeOK
  <2>3. history' \in Seq(Rows)
    BY <2>1, <2>2, RemovedAt
  <2> QED BY <2>3
<1>5. \A y \in Runners : CursorAt(y)'
  BY <1>1, <1>2 DEF CursorAt, Replaying
<1>6. SavedInv'
  BY <1>1, <1>2, <1>4, CursorTyped DEF SavedInv, Covered
<1>7. LateInv'
  <2> SUFFICES ASSUME rebuilding, session \in writable, NEW i \in DOMAIN history', history'[i] \in seen[source]
               PROVE  history'[i] \in seen[session]
    BY <1>1 DEF LateInv, Covered
  <2>1. Covered(Len(history))
    BY CursorParts DEF LateInv
  <2>2. history'[i] \in Mac
    BY <1>3 DEF Mac, Range
  <2>3. PICK n \in DOMAIN history : history[n] = history'[i]
    BY <2>2 DEF Mac, Range
  <2> QED BY <2>1, <2>3, MacRows DEF Covered
<1>8. SavedInv' /\ (\A y \in Runners : CursorAt(y)') /\ LateInv' => CursorInv'
  BY DEF CursorInv, SavedInv, CursorAt, LateInv
<1> QED BY <1>5, <1>6, <1>7, <1>8

LEMMA CreateCursor ==
  ASSUME Typed, QueueInv, LockInv, SessionInv, TargetInv, CursorInv, RowInv, BehindInv, RebuildNext,
         NEW x \in Runners, Create(x), ~ReplaceIdle
  PROVE  CursorInv'
<1>1. UNCHANGED <<history, standing, writable, seen, saved>> /\ lastSession' = lastSession + 1
  BY DEF Create, macVars
<1>2. CASE Gone(x) /\ ~Current(run[x].old)
  <2>1. UNCHANGED <<session, rebuilding, source>>
    BY <1>2 DEF Create
  <2> QED BY <1>1, <1>2, <2>1, CursorKept DEF Gone, Others, Underway, Replaying
<1>3. CASE /\ Current(run[x].old) /\ run'[x].stage = "sealing"
           /\ run'[x].target = lastSession + 1 /\ Others(x)
  <2>1. session' = lastSession + 1 /\ lastSession \in Nat
    BY <1>3, TypedParts, Constants DEF Create, CountsTyped
  <2>2. \A y \in Runners : run'[y].stage \in {"releasing", "finishing"} => FALSE
    BY <1>3 DEF LockInv, Create, Locked, Others
  <2>3. \A y \in Runners : run'[y].stage \in Underway => run'[y].target # session'
    BY <1>3, <2>1 DEF SessionInv, Others, Underway, Replaying
  <2>4. \A y \in Runners : CursorAt(y)'
    <3> SUFFICES ASSUME NEW y \in Runners PROVE CursorAt(y)'
      OBVIOUS
    <3>1. CASE y = x
      BY <1>3, <3>1 DEF CursorAt
    <3>2. CASE y # x
      <4>1. run'[y] = run[y] /\ CursorAt(y)
        BY <1>3, <3>2, CursorParts DEF Others
      <4> QED BY <1>1, <2>2, <2>3, <4>1 DEF CursorAt, Current, Underway, Replaying
    <3> QED BY <3>1, <3>2
  <2>5. session' \in Sessions /\ saved[session'] = 0 /\ session' \notin writable
    BY <1>3, <2>1, Constants DEF SessionInv, Create, Sessions
  <2>6. SavedInv'
    <3>1. \A s \in Sessions : saved[s] <= Len(history)
      BY DEF CursorInv
    <3> QED BY <1>1, <2>5, <3>1, MacRows DEF SavedInv, Covered
  <2>7. LateInv'
    BY <1>1, <2>5 DEF LateInv
  <2>8. SavedInv' /\ (\A y \in Runners : CursorAt(y)') /\ LateInv' => CursorInv'
    BY DEF CursorInv, SavedInv, CursorAt, LateInv
  <2> QED BY <2>4, <2>6, <2>7, <2>8
<1> QED BY <1>2, <1>3, RunnerMoves

LEMMA FinishCursor ==
  ASSUME Typed, LockInv, SessionInv, TargetInv, CursorInv, NEW x \in Runners, Finish(x)
  PROVE  CursorInv'
<1>1. UNCHANGED <<history, session, standing, writable, saved>> /\ rebuilding' = FALSE
      /\ session = run[x].target
  BY DEF Finish, macVars, executorVars, TargetInv
<1>2. Moves(x, "finishing", "removing", run[x].cursor)
  BY RunnerMoves
<1>3. \A y \in Runners : y # x /\ run[y].stage \in Underway =>
        run[y].target # session /\ run[y].stage \notin {"releasing", "finishing"}
  BY <1>1, <1>2 DEF LockInv, Moves, Locked, Replaying, Underway
<1>4. \A y \in Runners : CursorAt(y)'
  <2> SUFFICES ASSUME NEW y \in Runners PROVE CursorAt(y)'
    OBVIOUS
  <2>1. CASE y = x
    BY <1>2, <2>1 DEF CursorAt, Moves
  <2>2. CASE y # x
    <3>1. run'[y] = run[y] /\ CursorAt(y)
      BY <1>2, <2>2, CursorParts DEF Moves, Others
    <3> QED BY <1>1, <1>3, <2>2, <3>1 DEF CursorAt, Current, Underway, Replaying
  <2> QED BY <2>1, <2>2
<1>5. SavedInv' /\ LateInv'
  BY <1>1, CursorParts DEF SavedInv, LateInv
<1>6. SavedInv' /\ (\A y \in Runners : CursorAt(y)') /\ LateInv' => CursorInv'
  BY DEF CursorInv, SavedInv, CursorAt, LateInv
<1> QED BY <1>4, <1>5, <1>6

LEMMA CursorStep ==
  ASSUME Typed, QueueInv, LockInv, SessionInv, TargetInv, CursorInv, RowInv, BehindInv, RebuildNext
  PROVE  CursorInv'
<1>1. ASSUME NEW x \in Runners, Begin(x) \/ RunnerStep(x) \/ RunnerFails(x)
      PROVE  CursorInv'
  <2>0. history' = history /\ standing' = standing /\ ~ReplaceIdle
    BY <1>1, RunnerFrame, NotReplaced DEF macVars
  <2>1. CASE Create(x) \/ Finish(x)
    BY <2>0, <2>1, CreateCursor, FinishCursor
  <2>2. CASE \/ Enter(x) \/ Pass(x) \/ Mark(x)
             \/ Select(x) \/ ReplayPrompt(x) \/ Replayed(x) \/ Complete(x) \/ MakeWritable(x)
    BY <2>0, <2>2, EnterCursor, PassCursor, MarkCursor, ForwardCursor
  <2>3. CASE Begin(x) \/ FenceOld(x) \/ Seal(x) \/ RemoveOld(x) \/ NotFound(x) \/ RunnerFails(x)
    <3>1. Others(x) /\ run'[x].stage \notin Underway
      BY <2>3, RunnerMoves, BeginFacts DEF Moves, Gone, Others, Underway, Replaying
    <3>2. UNCHANGED <<session, source, rebuilding, saved>> /\ writable' \subseteq writable
      BY <2>3 DEF Begin, FenceOld, Seal, RemoveOld, NotFound, RunnerFails, intakeVars, directoryVars, executorVars
    <3> QED BY <2>0, <3>1, <3>2, CursorKept DEF Others
  <2> QED BY <1>1, <2>1, <2>2, <2>3 DEF RunnerStep
<1>2. CASE ReplaceIdle /\ UNCHANGED rebuildVars
  BY <1>2, ReplaceCursor
<1>3. CASE /\ Arrive \/ Poll \/ ReaderStep \/ ReaderFails
           /\ UNCHANGED rebuildVars
  <2>1. (history' = history \/ Arrive) /\ UNCHANGED <<run, saved, session, source, standing, rebuilding, writable>>
    BY <1>3 DEF rebuildVars, Arrive, Poll, ReaderStep, Look, Admit, LivePrompt, PromptNotFound, Record,
            Dequeue, ReaderFails, macVars, directoryVars, executorVars
  <2>2. ~ReplaceIdle
    BY <2>1, NotReplaced
  <2> QED BY <2>1, <2>2, CursorKept
<1>4. CASE Restart \/ LoseSession \/ Block \/ End \/ Stop
  <2>1. /\ UNCHANGED <<history, session, source>> /\ writable' \subseteq writable
        /\ standing' = "open" => standing = "open"
        /\ rebuilding' => rebuilding
        /\ \A s \in Sessions : saved'[s] = saved[s] \/ saved'[s] = 0
        /\ \A y \in Runners : run'[y] = run[y] \/ run'[y] = Idle
    BY <1>4, TypedParts DEF Restart, LoseSession, Block, End, Stop, macVars, directoryVars, executorVars,
            rebuildVars, SavedTyped
  <2>2. ~ReplaceIdle
    BY <2>1, NotReplaced
  <2>3. Idle.stage \notin Underway
    BY DEF Idle, Underway, Replaying
  <2> QED BY <2>1, <2>2, <2>3, CursorKept
<1> QED BY <1>1, <1>2, <1>3, <1>4 DEF RebuildNext

-----------------------------------------------------------------------------
(* The row that a replay prompts. *)

RowAt(x) ==
  /\ run[x].stage \in {"admitting", "marking"} /\ session = run[x].target /\ standing # "ended"
       => Row(x) \in seen[source]
  /\ run[x].stage = "admitting" /\ Current(run[x].target) => Row(x) \notin seen[session]
  /\ run[x].stage = "marking" /\ Current(run[x].target) => Row(x) \in Told(session)

LEMMA RowParts == RowInv <=> \A x \in Runners : RowAt(x)
  BY DEF RowInv, RowAt

\* What a session was told stays told.
LEMMA ToldGrows ==
  ASSUME Typed, QueueInv, LockInv, SessionInv, TargetInv, CursorInv, RowInv, RebuildNext
  PROVE  \A s \in Sessions : Told(s) \subseteq Told(s)'
<1>1. CASE LivePrompt
  <2>1. transcript' = Prompted(reader.session, Head(pending)) /\ pending # <<>> /\ reader.session \in Sessions
    BY <1>1, CursorTyped DEF LivePrompt, QueueInv, LockInv, Admitting
  <2>2. Head(pending) \in Rows
    BY <2>1, HeadTyped
  <2> QED BY <2>1, <2>2, ToldAfter
<1>2. ASSUME NEW x \in Runners, ReplayPrompt(x) PROVE \A s \in Sessions : Told(s) \subseteq Told(s)'
  <2>1. Row(x) \in Rows /\ run[x].target \in Sessions
    BY <1>2, RowBound DEF ReplayPrompt
  <2>2. CASE transcript' = transcript
    BY <2>2 DEF Told
  <2>3. CASE transcript' = Prompted(run[x].target, Row(x))
    BY <2>1, <2>3, ToldAfter
  <2> QED BY <1>2, <2>2, <2>3 DEF ReplayPrompt
<1>3. CASE UNCHANGED transcript
  BY <1>3 DEF Told
<1> QED BY <1>1, <1>2, <1>3, Frames

\* The row behind a cursor is the same while it is prompted.
LEMMA RowSame ==
  ASSUME Typed, NEW y \in Runners, history' = history \/ Arrive,
         run'[y].cursor = run[y].cursor, run[y].cursor < Len(history)
  PROVE  Row(y)' = Row(y)
<1>1. run[y].cursor + 1 \in 1 .. Len(history)
  BY RowTyped
<1>2. CASE history' = history
  BY <1>2 DEF Row
<1>3. CASE Arrive
  <2>1. history' = Append(history, sent + 1) /\ sent + 1 \in Rows /\ history \in Seq(Rows)
    BY <1>3, MacRows, Constants DEF Arrive, Rows, Typed, IntakeTypeOK
  <2>2. \A i \in 1 .. Len(history) + 1 : history'[i] = IF i <= Len(history) THEN history[i] ELSE sent + 1
    BY <2>1, AppendedRow
  <2>3. history'[run[y].cursor + 1] = history[run[y].cursor + 1]
    BY SMTT(20), <1>1, <2>2, MacRows
  <2> QED BY <2>3 DEF Row
<1> QED BY <1>2, <1>3

\* A rebuild that a step leaves alone knows what it knew.
LEMMA RowOfOthers ==
  ASSUME Typed, QueueInv, LockInv, SessionInv, TargetInv, CursorInv, RowInv, BehindInv, RebuildNext,
         history' = history \/ Arrive, session' = session, source' = source,
         standing' # "ended" => standing # "ended", standing' = "open" => standing = "open",
         NEW y \in Runners, run'[y] = run[y]
  PROVE  RowAt(y)'
<1> SUFFICES ASSUME run[y].stage \in {"admitting", "marking"}, session = run[y].target, standing' # "ended"
             PROVE  RowAt(y)'
  BY DEF RowAt, Current
<1>1. /\ RowAt(y) /\ run[y].cursor < Len(history) /\ session \in Sessions
      /\ standing # "ended" /\ run[y].stage \in Underway
  BY RowParts, CursorTyped DEF CursorInv, Underway, Replaying
<1>2. Row(y)' = Row(y)
  BY <1>1, RowSame
<1>3. rebuilding /\ seen'[source] = seen[source]
  BY <1>1, SeenGrows DEF TargetInv
<1>4. run[y].stage = "admitting" => seen'[session] = seen[session]
  <2> SUFFICES ASSUME run[y].stage = "admitting" PROVE seen'[session] = seen[session]
    OBVIOUS
  <2>1. ASSUME NEW x \in Runners, Mark(x) PROVE seen'[session] = seen[session]
    <3>1. run[x].stage = "marking"
      BY <2>1 DEF Mark
    <3>2. session # run[x].target
      BY <3>1 DEF LockInv, Replaying
    <3> QED BY <2>1, <3>2, MarkFacts
  <2>2. ~Record
    BY <1>3, RecordFacts
  <2> QED BY <2>1, <2>2, Frames
<1>5. Told(session) \subseteq Told(session)'
  BY <1>1, ToldGrows
<1> QED BY <1>1, <1>2, <1>3, <1>4, <1>5 DEF RowAt, Current

LEMMA RowKept ==
  ASSUME Typed, QueueInv, LockInv, SessionInv, TargetInv, CursorInv, RowInv, BehindInv, RebuildNext,
         history' = history \/ Arrive, session' = session, source' = source,
         standing' # "ended" => standing # "ended", standing' = "open" => standing = "open",
         \A y \in Runners : run'[y] = run[y] \/ RowAt(y)'
  PROVE  RowInv'
<1>1. \A y \in Runners : RowAt(y)'
  BY RowOfOthers
<1>2. (\A y \in Runners : RowAt(y)') => RowInv'
  BY DEF RowInv, RowAt
<1> QED BY <1>1, <1>2

LEMMA RowStep ==
  ASSUME Typed, QueueInv, LockInv, SessionInv, TargetInv, CursorInv, RowInv, BehindInv, RebuildNext
  PROVE  RowInv'
<1>0. session \in Sessions
  BY CursorTyped
<1>1. ASSUME NEW x \in Runners, Begin(x) \/ RunnerStep(x) \/ RunnerFails(x)
      PROVE  RowInv'
  <2>0. history' = history /\ standing' = standing
    BY <1>1, RunnerFrame DEF macVars
  <2>1. CASE Create(x)
    <3>1. CASE Gone(x) /\ ~Current(run[x].old)
      <4>1. UNCHANGED <<session, source>>
        BY <2>1, <3>1 DEF Create
      <4> QED BY <2>0, <3>1, <4>1, RowKept DEF Gone, Others, RowAt
    <3>2. CASE Current(run[x].old) /\ run'[x].stage = "sealing" /\ Others(x)
      <4>1. session' = lastSession + 1 /\ lastSession \in Nat
        BY <2>1, <3>2, TypedParts, Constants DEF Create, CountsTyped
      <4>2. \A y \in Runners : run'[y].stage \in {"admitting", "marking"} => run'[y].target # session'
        BY <3>2, <4>1 DEF SessionInv, Others
      <4> QED BY <4>2 DEF RowInv, Current
    <3> QED BY <2>1, <3>1, <3>2, RunnerMoves
  <2>2. CASE Finish(x)
    <3>1. session' = session /\ session = run[x].target
      BY <2>2 DEF Finish, TargetInv
    <3>2. Moves(x, "finishing", "removing", run[x].cursor)
      BY <2>2, RunnerMoves
    <3>3. \A y \in Runners : run'[y].stage \in {"admitting", "marking"} => run'[y].target # session'
      BY <3>1, <3>2 DEF LockInv, Moves, Others, Replaying
    <3> QED BY <3>3 DEF RowInv, Current
  <2>3. CASE Select(x)
    <3>1. Moves(x, "replaying", "admitting", run[x].cursor) /\ run[x].cursor < Len(history)
      BY <2>3, RunnerMoves, CursorTyped, MacRows DEF Select, Exhausted
    <3>2. UNCHANGED <<session, source, seen>>
      BY <2>3 DEF Select, intakeVars, directoryVars
    <3>3. Row(x)' = Row(x)
      BY <2>0, <3>1, RowSame DEF Moves
    <3>4. Row(x) \in seen[source] /\ Row(x) \notin seen[run[x].target]
      BY <2>3 DEF Select, Replayable
    <3>5. RowAt(x)'
      BY <3>1, <3>2, <3>3, <3>4 DEF RowAt, Moves, Current
    <3> QED BY <2>0, <3>1, <3>2, <3>5, RowKept DEF Moves, Others
  <2>4. CASE ReplayPrompt(x)
    <3>1. Moves(x, "admitting", "marking", run[x].cursor) /\ run[x].cursor < Len(history) /\ RowAt(x)
      BY <2>4, RunnerMoves, RowParts DEF CursorInv, Moves
    <3>2. UNCHANGED <<session, source, seen>>
      BY <2>4 DEF ReplayPrompt, directoryVars
    <3>3. Row(x)' = Row(x)
      BY <2>0, <3>1, RowSame DEF Moves
    <3>4. Current(run[x].target) => Row(x) \in Told(session)'
      <4>1. Row(x) \in Rows /\ run[x].target \in Sessions
        BY <2>4, RowBound DEF ReplayPrompt
      <4>2. Current(run[x].target) =>
              session = run[x].target /\ transcript' = Prompted(run[x].target, Row(x))
        BY <2>4 DEF ReplayPrompt, Current
      <4>3. Current(run[x].target) => \A t \in Sessions : t = session => Row(x) \in Told(t)'
        BY <4>1, <4>2, ToldAfter
      <4> QED BY <4>3, <3>2, <1>0 DEF Told
    <3>5. RowAt(x)'
      BY <2>0, <3>1, <3>2, <3>3, <3>4 DEF RowAt, Moves, Current, Told
    <3> QED BY <2>0, <3>1, <3>2, <3>5, RowKept DEF Moves, Others
  <2>5. CASE ~Create(x) /\ ~Finish(x) /\ ~Select(x) /\ ~ReplayPrompt(x)
    <3>1. UNCHANGED <<session, source>>
      BY <1>1, <2>5, RunnerDirectory DEF directoryVars
    <3>2. Others(x) /\ run'[x].stage \notin {"admitting", "marking"}
      BY <1>1, <2>5, RunnerMoves, BeginFacts DEF RunnerStep, Moves, Gone, Others
    <3> QED BY <2>0, <3>1, <3>2, RowKept DEF Others, RowAt
  <2> QED BY <2>1, <2>2, <2>3, <2>4, <2>5
<1>2. CASE /\ Arrive \/ Poll \/ ReaderStep \/ ReaderFails
           /\ UNCHANGED rebuildVars
  <2>1. (history' = history \/ Arrive) /\ UNCHANGED <<run, session, source, standing>>
    BY <1>2 DEF rebuildVars, Arrive, Poll, ReaderStep, Look, Admit, LivePrompt, PromptNotFound, Record,
            Dequeue, ReaderFails, macVars, directoryVars
  <2> QED BY <2>1, RowKept
<1>3. CASE ReplaceIdle /\ UNCHANGED rebuildVars
  <2>1. \A y \in Runners : run'[y].stage \notin {"admitting", "marking"}
    BY <1>3 DEF ReplaceIdle, rebuildVars, Replaying
  <2> QED BY <2>1 DEF RowInv
<1>4. CASE Restart \/ LoseSession \/ Block \/ End \/ Stop
  <2>1. /\ UNCHANGED <<history, session, source>>
        /\ standing' # "ended" => standing # "ended"
        /\ standing' = "open" => standing = "open"
        /\ \A y \in Runners : run'[y] = run[y] \/ run'[y] = Idle
    BY <1>4 DEF Restart, LoseSession, Block, End, Stop, macVars, directoryVars, rebuildVars
  <2> QED BY <2>1, RowKept DEF Idle, RowAt
<1> QED BY <1>1, <1>2, <1>3, <1>4 DEF RebuildNext

-----------------------------------------------------------------------------
(* A session that is rebuilt was told in order. *)

\* A step brings no row into the history that a session already has a receipt of.
LEMMA MacSeen ==
  ASSUME Typed, QueueInv, BehindInv, RebuildNext
  PROVE  \A s \in Sessions, i \in DOMAIN history' : history'[i] \in seen[s] => history'[i] \in Mac
<1>1. CASE history' = history
  BY <1>1 DEF Mac, Range
<1>2. CASE ReplaceIdle
  <2>1. Mac' \subseteq Mac
    BY <1>2, ReplaceQueue
  <2> QED BY <2>1 DEF Mac, Range
<1>3. CASE Arrive
  <2>1. history' = Append(history, sent + 1) /\ sent + 1 \in Rows /\ history \in Seq(Rows)
    BY <1>3, MacRows, Constants DEF Arrive, Rows, Typed, IntakeTypeOK
  <2>2. Mac' = Mac \cup {sent + 1}
    BY <2>1, AppendedRow DEF Mac
  <2>3. \A i \in DOMAIN history' : history'[i] \in Mac \cup {sent + 1}
    BY <2>2 DEF Mac, Range
  <2> QED BY <2>3, NewMessage
<1> QED BY <1>1, <1>2, <1>3, Frames

\* The same of the rows that were told while the session was rebuilt.
Behind(row) ==
  \A i \in DOMAIN history :
    history[i] < row /\ history[i] \in seen[source] => history[i] \in seen[session]

LEMMA BehindKept ==
  ASSUME Typed, QueueInv, LockInv, SessionInv, TargetInv, CursorInv, RowInv, BehindInv, RebuildNext,
         rebuilding, session' = session, source' = source
  PROVE  \A row \in Nat : Behind(row) => Behind(row)'
<1>1. /\ source \in Sessions /\ seen[session] \subseteq seen'[session] /\ seen'[source] = seen[source]
  BY SeenGrows
<1>2. \A i \in DOMAIN history' : history'[i] \in seen'[source] => \E n \in DOMAIN history : history[n] = history'[i]
  BY <1>1, MacSeen DEF Mac, Range
<1> QED BY <1>1, <1>2 DEF Behind

LEMMA ToldRows ==
  ASSUME Typed
  PROVE  \A s \in Sessions : \A row \in Told(s) : row \in Rows /\ row \in Nat
<1> SUFFICES ASSUME NEW s \in Sessions, NEW row \in Told(s) PROVE row \in Rows /\ row \in Nat
  OBVIOUS
<1>1. transcript[s] \in Seq(Rows)
  BY DEF Typed, IntakeTypeOK
<1>2. PICK i \in 1 .. Len(transcript[s]) : transcript[s][i] = row
  BY <1>1, RangeOfRows DEF Told
<1>3. row \in Rows
  BY <1>1, <1>2
<1> QED BY <1>3, Constants

LEMMA PrefixKept ==
  ASSUME Typed, QueueInv, LockInv, SessionInv, TargetInv, CursorInv, RowInv, BehindInv, PrefixInv, RebuildNext,
         session' = session, source' = source, rebuilding' => rebuilding,
         standing' = "open" => standing = "open",
         rebuilding' => \A row \in Told(session)' : row \in Told(session) \/ (row \in Nat /\ Behind(row))
  PROVE  PrefixInv'
<1>1. PrefixInv <=> (rebuilding /\ standing = "open" => \A row \in Told(session) : Behind(row))
  BY DEF PrefixInv, Behind
<1>2. rebuilding => \A row \in Nat : Behind(row) => Behind(row)'
  BY BehindKept
<1>3. \A row \in Told(session) : row \in Nat
  BY ToldRows, CursorTyped
<1>4. (rebuilding' /\ standing' = "open" => \A row \in Told(session)' : Behind(row)') => PrefixInv'
  BY DEF PrefixInv, Behind
<1> QED BY <1>1, <1>2, <1>3, <1>4

LEMMA PrefixStep ==
  ASSUME Typed, QueueInv, LockInv, SessionInv, TargetInv, CursorInv, RowInv, BehindInv, PrefixInv, RebuildNext
  PROVE  PrefixInv'
<1>0. session \in Sessions
  BY CursorTyped
<1>1. ASSUME NEW x \in Runners, Create(x) PROVE PrefixInv'
  <2>1. UNCHANGED <<history, standing, transcript, seen>>
    BY <1>1 DEF Create, macVars
  <2>2. CASE UNCHANGED <<session, rebuilding, source>>
    BY <2>1, <2>2 DEF PrefixInv, Told
  <2>3. CASE session' = lastSession + 1
    <3>1. lastSession + 1 \in Sessions /\ lastSession + 1 > lastSession
      BY <1>1, TypedParts, Constants DEF Create, SessionInv, Sessions, CountsTyped
    <3>2. Told(session)' = {}
      BY <2>1, <2>3, <3>1 DEF SessionInv, Told, Range
    <3> QED BY <3>2 DEF PrefixInv
  <2> QED BY <1>1, <2>2, <2>3 DEF Create
<1>2. ASSUME NEW x \in Runners, Finish(x) PROVE PrefixInv'
  <2>1. rebuilding' = FALSE
    BY <1>2 DEF Finish, TargetInv
  <2> QED BY <2>1 DEF PrefixInv
<1>3. CASE End
  BY <1>3 DEF End, PrefixInv
<1>4. CASE LivePrompt
  <2>1. UNCHANGED rebuilding /\ ~rebuilding
    BY <1>4 DEF LivePrompt, directoryVars, LockInv, Admitting
  <2> QED BY <2>1 DEF PrefixInv
<1>5. ASSUME NEW x \in Runners, ReplayPrompt(x) PROVE PrefixInv'
  <2>1. UNCHANGED <<session, source, rebuilding, standing>>
    BY <1>5 DEF ReplayPrompt, directoryVars
  <2>2. CASE transcript' = transcript
    <3>1. Told(session)' = Told(session)
      BY <2>1, <2>2 DEF Told
    <3> QED BY <2>1, <3>1, PrefixKept
  <2>3. CASE Current(run[x].target) /\ transcript' = Prompted(run[x].target, Row(x))
    <3>1. Row(x) \in Rows /\ run[x].target = session
      BY <1>5, <2>3, RowBound DEF ReplayPrompt, Current
    <3>2. Covered(run[x].cursor) /\ run[x].cursor \in Nat /\ run[x].cursor < Len(history)
      BY <1>5, <2>3, CursorTyped DEF ReplayPrompt, CursorInv
    <3>3. Behind(Row(x))
      <4>1. Row(x) = history[run[x].cursor + 1] /\ run[x].cursor + 1 \in DOMAIN history
        BY <3>2, RowTyped, MacRows
      <4>2. \A i \in DOMAIN history : history[i] < Row(x) => i <= run[x].cursor
        <5> SUFFICES ASSUME NEW i \in DOMAIN history, ~(i <= run[x].cursor) PROVE ~(history[i] < Row(x))
          OBVIOUS
        <5>1. i = run[x].cursor + 1 \/ run[x].cursor + 1 < i
          BY <3>2, MacRows
        <5>2. history[i] \in Nat /\ Row(x) \in Nat /\ Row(x) <= history[i]
          BY <4>1, <5>1, MacRows DEF QueueInv
        <5> QED BY <5>2
      <4> QED BY <3>2, <4>2 DEF Covered, Behind
    <3>4. Told(session)' = Told(session) \cup {Row(x)}
      <4>1. \A t \in Sessions : t = session => Told(t)' = Told(t) \cup {Row(x)}
        BY <1>0, <2>3, <3>1, ToldAfter
      <4> QED BY <1>0, <2>1, <4>1 DEF Told
    <3>5. Row(x) \in Nat
      BY <3>1, Constants
    <3>6. \A row \in Told(session)' : row \in Told(session) \/ (row \in Nat /\ Behind(row))
      BY <3>3, <3>4, <3>5
    <3> QED BY <2>1, <3>6, PrefixKept
  <2> QED BY <1>5, <2>2, <2>3 DEF ReplayPrompt
<1>6. CASE /\ ~End /\ ~LivePrompt
           /\ \A x \in Runners : ~Create(x) /\ ~Finish(x) /\ ~ReplayPrompt(x)
  <2>1. UNCHANGED <<session, source, rebuilding, transcript>> /\ (standing' = "open" => standing = "open")
    BY <1>6, Frames DEF Block
  <2>2. Told(session)' = Told(session)
    BY <2>1 DEF Told
  <2> QED BY <2>1, <2>2, PrefixKept
<1> QED BY <1>1, <1>2, <1>3, <1>4, <1>5, <1>6

-----------------------------------------------------------------------------
(* The rows the persona knows. *)

\* What is marked received stays so.
LEMMA SeenNeverShrinks ==
  ASSUME Typed, QueueInv, LockInv, SessionInv, TargetInv, CursorInv, RowInv, RebuildNext
  PROVE  \A s \in Sessions : seen[s] \subseteq seen'[s]
<1>1. CASE Record
  BY <1>1, RecordFacts
<1>2. ASSUME NEW x \in Runners, Mark(x) PROVE \A s \in Sessions : seen[s] \subseteq seen'[s]
  BY <1>2, MarkFacts
<1>3. CASE UNCHANGED seen
  BY <1>3
<1> QED BY <1>1, <1>2, <1>3, Frames

\* A rebuild that is finished forgets nothing that the Mac still has.
LEMMA KnownKept ==
  ASSUME Typed, QueueInv, LockInv, SessionInv, TargetInv, CursorInv, RowInv, BoundInv, RebuildNext,
         standing' = "open"
  PROVE  \A row \in Mac : row \in Known => row \in Known'
<1>0. /\ session \in Sessions /\ source \in Sessions \cup {None} /\ None \notin Sessions
      /\ \A s \in Sessions : seen[s] \subseteq seen'[s]
  BY TypedParts, Constants, SeenNeverShrinks DEF SessionTyped
<1>1. ASSUME NEW x \in Runners, Create(x) PROVE \A row \in Mac : row \in Known => row \in Known'
  <2>1. seen' = seen /\ standing = "open"
    BY <1>1 DEF Create
  <2>2. CASE UNCHANGED <<session, source>>
    BY <2>1, <2>2 DEF Known
  <2>3. CASE source' = SourceAfter
    <3>1. SourceAfter = (IF source = None THEN session ELSE source) /\ SourceAfter # None
      BY <1>0, <2>1 DEF SourceAfter, BoundInv
    <3> QED BY <2>1, <2>3, <3>1 DEF Known
  <2> QED BY <1>1, <2>2, <2>3 DEF Create
<1>2. ASSUME NEW x \in Runners, Finish(x) PROVE \A row \in Mac : row \in Known => row \in Known'
  <2>1. session' = session /\ seen' = seen /\ source' = None
    BY <1>2 DEF Finish, TargetInv
  <2>2. Covered(Len(history)) /\ source # None
    BY <1>2 DEF Finish, CursorInv, TargetInv, SessionInv
  <2>3. \A row \in Mac : row \in seen[source] => row \in seen[session]
    BY <2>2, MacRows DEF Covered, Mac, Range
  <2> QED BY <2>1, <2>2, <2>3 DEF Known
<1>3. CASE UNCHANGED <<session, source>>
  BY <1>0, <1>3 DEF Known
<1>4. ~End
  BY DEF End
<1> QED BY <1>1, <1>2, <1>3, <1>4, Frames

-----------------------------------------------------------------------------
(* The reader. *)

LEMMA ReaderStageKept ==
  ASSUME Typed, QueueInv, LockInv, SessionInv, TargetInv, CursorInv, RowInv, BehindInv, BoundInv, ReaderInv,
         RebuildNext, reader' = reader, ~Dequeue
  PROVE  ReaderInv'
<1>1. reader.stage # "idle" => pending # <<>>
  BY DEF QueueInv
<1>2. pending # <<>> => Head(pending') = Head(pending) /\ Head(pending) \in Rows /\ Head(pending) <= sent
  <2> SUFFICES ASSUME pending # <<>>
               PROVE  Head(pending') = Head(pending) /\ Head(pending) \in Rows /\ Head(pending) <= sent
    OBVIOUS
  <2>1. Head(pending') = Head(pending)
    BY PollQueue, Frames
  <2>2. Head(pending) \in Rows /\ Head(pending) = pending[1] /\ 1 \in 1 .. Len(pending)
    BY HeadTyped
  <2>3. DOMAIN pending = 1 .. Len(pending)
    BY DEF Typed, IntakeTypeOK
  <2>4. Head(pending) <= bookmark.row /\ bookmark.row <= sent
    BY <2>2, <2>3 DEF QueueInv
  <2>5. Head(pending) \in Nat /\ bookmark.row \in Nat /\ sent \in Nat
    BY <2>2, Constants, MacRows
  <2> QED BY <2>1, <2>2, <2>4, <2>5
<1>3. reader.stage = "recording" => Head(pending) \in Told(session)'
  <2> SUFFICES ASSUME reader.stage = "recording" PROVE Head(pending) \in Told(session)'
    OBVIOUS
  <2>1. LifecycleFree /\ session \in Sessions /\ Head(pending) \in Told(session)
    BY CursorTyped DEF LockInv, Admitting, ReaderInv
  <2>2. session' = session
    <3>1. \A x \in Runners : ~Create(x) /\ ~Finish(x)
      BY <2>1 DEF LifecycleFree, Locked, Create, Finish
    <3>2. CASE End
      BY <3>2 DEF End
    <3> QED BY <3>1, <3>2, Frames
  <2>3. \A s \in Sessions : Told(s) \subseteq Told(s)'
    BY ToldGrows
  <2> QED BY <2>1, <2>2, <2>3 DEF Told
<1>4. ASSUME reader.stage = "received", standing' = "open", Head(pending) \in Mac'
      PROVE  Head(pending) \in Known'
  <2>1. standing = "open"
    BY <1>4, Frames DEF Block, End
  <2>2. Head(pending) \in Mac
    <3>1. CASE history' = history
      BY <1>4, <3>1 DEF Mac
    <3>2. CASE ReplaceIdle
      BY <1>4, <3>2, ReplaceQueue
    <3>3. CASE Arrive
      <4>1. history' = Append(history, sent + 1) /\ sent + 1 \in Rows /\ history \in Seq(Rows)
        BY <3>3, MacRows, Constants DEF Arrive, Rows, Typed, IntakeTypeOK
      <4>2. Mac' = Mac \cup {sent + 1}
        BY <4>1, AppendedRow DEF Mac
      <4>3. Head(pending) # sent + 1
        BY <1>1, <1>2, <1>4, MacRows, Constants
      <4> QED BY <1>4, <4>2, <4>3
    <3> QED BY <3>1, <3>2, <3>3, Frames
  <2> QED BY <1>4, <2>1, <2>2, KnownKept DEF ReaderInv
<1>5. /\ reader'.stage = "recording" => Head(pending') = Head(pending)
      /\ reader'.stage = "received" => Head(pending') = Head(pending)
  BY <1>1, <1>2
<1>6. (/\ reader'.stage = "recording" => Head(pending') \in Told(session)'
       /\ reader'.stage = "received" /\ standing' = "open" /\ Head(pending') \in Mac'
            => Head(pending') \in Known') => ReaderInv'
  BY DEF ReaderInv
<1> QED BY <1>3, <1>4, <1>5, <1>6

LEMMA DrainStep ==
  ASSUME Typed, QueueInv, LockInv, SessionInv, TargetInv, CursorInv, RowInv, BehindInv, BoundInv, ReaderInv,
         RebuildNext
  PROVE  ReaderInv'
<1>0. ReaderTyped /\ session \in Sessions /\ None \notin Sessions
  BY TypedParts, Constants DEF SessionTyped
<1>1. CASE Look
  <2>1. UNCHANGED standing /\ (reader'.stage = "looked" \/ (reader'.stage = "received" /\ standing # "open"))
    BY <1>1 DEF Look, directoryVars
  <2> QED BY <2>1 DEF ReaderInv
<1>2. CASE Admit
  <2>1. UNCHANGED <<history, pending, session, source, standing, seen>>
    BY <1>2 DEF Admit, macVars, queueVars, directoryVars
  <2>2. \/ reader'.stage = "idle" \/ reader'.stage = "prompting"
        \/ reader'.stage = "received" /\ Admissible /\ Head(pending) \in seen[session]
    BY <1>0, <1>2 DEF Admit, Waiting, ReaderTyped
  <2>3. Admissible => source = None
    BY DEF Admissible, Current, BoundInv
  <2> QED BY <2>1, <2>2, <2>3 DEF ReaderInv, Known
<1>3. CASE LivePrompt
  <2>1. UNCHANGED <<pending, session>> /\ reader'.stage = "recording"
        /\ transcript' = Prompted(reader.session, Head(pending)) /\ reader.stage = "prompting"
    BY <1>0, <1>3 DEF LivePrompt, queueVars, directoryVars, ReaderTyped
  <2>2. pending # <<>> /\ reader.session = session
    BY <2>1 DEF QueueInv, LockInv, Admitting
  <2>3. Head(pending) \in Rows
    BY <2>2, HeadTyped
  <2>4. \A t \in Sessions : t = session => Told(t)' = Told(t) \cup {Head(pending)}
    BY <1>0, <2>1, <2>2, <2>3, ToldAfter
  <2>5. Head(pending) \in Told(session)'
    BY <1>0, <2>1, <2>4 DEF Told
  <2> QED BY <2>1, <2>5 DEF ReaderInv
<1>4. CASE Record
  <2>1. UNCHANGED <<pending, session, source, standing>> /\ ~rebuilding /\ reader'.stage = "received"
    BY <1>4, RecordFacts
  <2>2. standing = "open" => source = None /\ Head(pending) \in seen'[session]
    BY <1>0, <1>4, <2>1, RecordFacts DEF BoundInv
  <2> QED BY <2>1, <2>2 DEF ReaderInv, Known
<1>5. CASE reader'.stage = "idle"
  BY <1>5 DEF ReaderInv
<1>6. CASE reader' = reader /\ ~Dequeue
  BY <1>6, ReaderStageKept
<1>7. \/ Look \/ Admit \/ LivePrompt \/ Record \/ reader'.stage = "idle" \/ (reader' = reader /\ ~Dequeue)
  <2>1. CASE PromptNotFound \/ Dequeue \/ ReaderFails \/ Restart
    BY <2>1 DEF PromptNotFound, Dequeue, ReaderFails, Restart, Waiting
  <2>2. CASE Arrive \/ ReplaceIdle \/ Poll \/ LoseSession \/ Block \/ End \/ Stop
    <3>1. reader' = reader
      BY <2>2 DEF Arrive, ReplaceIdle, Replace, Poll, LoseSession, Block, End, Stop
    <3>2. Dequeue => reader'.stage = "idle"
      BY DEF Dequeue, Waiting
    <3> QED BY <3>1, <3>2
  <2>3. CASE \E x \in Runners : Begin(x) \/ RunnerStep(x) \/ RunnerFails(x)
    <3>1. reader' = reader
      BY <2>3, RunnerFrame
    <3>2. Dequeue => reader'.stage = "idle"
      BY DEF Dequeue, Waiting
    <3> QED BY <3>1, <3>2
  <2> QED BY <2>1, <2>2, <2>3 DEF RebuildNext, ReaderStep
<1> QED BY <1>1, <1>2, <1>3, <1>4, <1>5, <1>6, <1>7

-----------------------------------------------------------------------------
(* Receipts are true. *)

LEMMA ReceiptsStep ==
  ASSUME Typed, QueueInv, LockInv, SessionInv, TargetInv, CursorInv, RowInv, BoundInv, ReaderInv,
         ReceiptsTrue, RebuildNext
  PROVE  ReceiptsTrue'
<1>0. session \in Sessions /\ \A s \in Sessions : Told(s) \subseteq Told(s)'
  BY CursorTyped, ToldGrows
<1>1. ReceiptsTrue <=> (standing = "open" => seen[session] \subseteq Told(session))
  BY DEF ReceiptsTrue, Told
<1>2. (standing' = "open" => seen'[session'] \subseteq Told(session)') => ReceiptsTrue'
  BY DEF ReceiptsTrue, Told
<1>3. ASSUME NEW x \in Runners, Create(x) PROVE ReceiptsTrue'
  <2>1. UNCHANGED <<seen, standing, transcript>>
    BY <1>3 DEF Create
  <2>2. CASE session' = session
    BY <1>1, <1>2, <2>1, <2>2 DEF Told
  <2>3. CASE session' = lastSession + 1
    <3>1. lastSession + 1 \in Sessions /\ lastSession + 1 > lastSession
      BY <1>3, TypedParts, Constants DEF Create, SessionInv, Sessions, CountsTyped
    <3>2. seen[session'] = {}
      BY <2>3, <3>1 DEF SessionInv
    <3> QED BY <1>2, <2>1, <3>2
  <2> QED BY <1>3, <2>2, <2>3 DEF Create
<1>4. ASSUME session' = session, standing' = "open" => standing = "open",
             standing = "open" => seen'[session] \subseteq seen[session] \cup Told(session)
      PROVE  ReceiptsTrue'
  <2>1. Told(session) \subseteq Told(session)'
    BY <1>0, <1>4 DEF Told
  <2> QED BY <1>1, <1>2, <1>4, <2>1
<1>5. CASE Record
  <2>1. reader.stage = "recording" /\ UNCHANGED <<session, standing>>
    BY <1>5 DEF Record, directoryVars
  <2>2. Head(pending) \in Told(session)
    BY <2>1 DEF ReaderInv
  <2>3. standing = "open" => seen'[session] \subseteq seen[session] \cup Told(session)
    BY <1>0, <1>5, <2>2, RecordFacts
  <2> QED BY <1>4, <2>1, <2>3
<1>6. ASSUME NEW x \in Runners, Mark(x) PROVE ReceiptsTrue'
  <2>1. UNCHANGED <<session, standing>>
    BY <1>6, MarkFacts
  <2>2. CASE session = run[x].target /\ standing = "open"
    <3>1. Row(x) \in Told(session)
      BY <1>6, <2>2 DEF Mark, RowInv, Current
    <3>2. seen'[session] = seen[session] \cup {Row(x)}
      BY <1>0, <1>6, <2>2, MarkFacts
    <3> QED BY <1>4, <2>1, <3>1, <3>2
  <2>3. CASE ~(session = run[x].target /\ standing # "ended")
    BY <1>4, <1>6, <2>1, <2>3, MarkFacts
  <2>4. CASE standing # "open"
    BY <1>2, <2>1, <2>4
  <2> QED BY <2>2, <2>3, <2>4
<1>7. CASE ~Record /\ \A x \in Runners : ~Create(x) /\ ~Mark(x)
  <2>1. UNCHANGED seen
    BY <1>7, Frames
  <2>2. session' = session
    <3>1. ASSUME NEW x \in Runners, Finish(x) PROVE session' = session
      BY <3>1 DEF Finish
    <3>2. End => session' = session
      BY DEF End
    <3> QED BY <1>7, <3>1, <3>2, Frames
  <2>3. standing' = "open" => standing = "open"
    BY Frames DEF Block, End
  <2> QED BY <1>4, <2>1, <2>2, <2>3
<1> QED BY <1>3, <1>5, <1>6, <1>7

-----------------------------------------------------------------------------
(* The rows of a session are in order. *)

Ordered(seq) == \A i, j \in DOMAIN seq : i < j => seq[i] < seq[j]

LEMMA OrderedAppend ==
  ASSUME NEW seq \in Seq(Rows), Ordered(seq), NEW row \in Rows, \A r \in Range(seq) : r < row
  PROVE  Ordered(Append(seq, row))
<1>1. /\ Append(seq, row) \in Seq(Rows) /\ Len(Append(seq, row)) = Len(seq) + 1 /\ Len(seq) \in Nat
      /\ \A i \in 1 .. Len(seq) + 1 : Append(seq, row)[i] = IF i <= Len(seq) THEN seq[i] ELSE row
  BY AppendedRow
<1>2. \A i \in 1 .. Len(seq) : seq[i] < row
  BY RangeOfRows
<1>3. \A i, j \in 1 .. Len(seq) : i < j => seq[i] < seq[j]
  BY DEF Ordered
<1>4. \A i, j \in 1 .. Len(seq) + 1 : i < j => Append(seq, row)[i] < Append(seq, row)[j]
  BY <1>1, <1>2, <1>3
<1>5. DOMAIN Append(seq, row) = 1 .. Len(seq) + 1
  BY <1>1
<1> QED BY <1>4, <1>5 DEF Ordered

\* A session stays in order when it is told a row later than those it was told.
LEMMA OrderedTold ==
  ASSUME Typed, InOrder, NEW s \in Sessions, NEW row \in Rows, transcript' = Prompted(s, row),
         \A r \in Told(s) : r # row => r < row
  PROVE  InOrder'
<1>1. InOrder <=> \A t \in Sessions : Ordered(transcript[t])
  BY DEF InOrder, Ordered
<1>2. (\A t \in Sessions : Ordered(transcript'[t])) => InOrder'
  BY DEF InOrder, Ordered
<1>3. CASE row \in Told(s)
  <2>1. transcript' = transcript
    BY <1>3, PromptedFacts
  <2> QED BY <1>1, <1>2, <2>1
<1>4. CASE row \notin Told(s)
  <2>1. transcript'[s] = Append(transcript[s], row) /\ \A t \in Sessions : t # s => transcript'[t] = transcript[t]
    BY <1>4, PromptedFacts
  <2>2. \A r \in Range(transcript[s]) : r < row
    BY <1>4 DEF Told
  <2>3. transcript[s] \in Seq(Rows) /\ Ordered(transcript[s])
    BY <1>1 DEF Typed, IntakeTypeOK
  <2>4. Ordered(transcript'[s])
    BY <2>1, <2>2, <2>3, OrderedAppend
  <2> QED BY <1>1, <1>2, <2>1, <2>4
<1> QED BY <1>3, <1>4

LEMMA OrderStep ==
  ASSUME Typed, QueueInv, LockInv, SessionInv, TargetInv, CursorInv, RowInv, BehindInv, PrefixInv, InOrder,
         RebuildNext
  PROVE  InOrder'
<1>1. CASE LivePrompt
  <2>1. transcript' = Prompted(reader.session, Head(pending)) /\ pending # <<>> /\ reader.session \in Sessions
    BY <1>1, CursorTyped DEF LivePrompt, QueueInv, LockInv, Admitting
  <2>2. Head(pending) \in Rows /\ Head(pending) \in Nat /\ Foremost = Head(pending)
    BY <2>1, HeadTyped, Constants DEF Foremost
  <2>3. \A r \in Told(reader.session) : r <= Head(pending) /\ r \in Nat
    BY <2>1, <2>2, ToldRows DEF BehindInv
  <2>4. \A r \in Told(reader.session) : r # Head(pending) => r < Head(pending)
    BY <2>2, <2>3
  <2> QED BY <2>1, <2>2, <2>4, OrderedTold
<1>2. ASSUME NEW x \in Runners, ReplayPrompt(x) PROVE InOrder'
  <2>1. CASE transcript' = transcript
    BY <2>1 DEF InOrder
  <2>2. CASE Current(run[x].target) /\ transcript' = Prompted(run[x].target, Row(x))
    <3>1. Row(x) \in Rows /\ run[x].target \in Sessions /\ rebuilding /\ Row(x) \in seen[source]
          /\ run[x].target = session /\ standing = "open" /\ Row(x) \notin seen[session]
      BY <1>2, <2>2, RowBound DEF ReplayPrompt, Current, RowInv
    <3>2. Row(x) = history[run[x].cursor + 1] /\ run[x].cursor + 1 \in DOMAIN history
      BY <1>2, RowTyped, MacRows DEF ReplayPrompt, CursorInv
    <3>3. \A r \in Told(session) : ~(Row(x) < r) /\ r \in Nat
      BY <3>1, <3>2, ToldRows DEF PrefixInv
    <3>4. Row(x) \in Nat
      BY <3>1, Constants
    <3>5. \A r \in Told(session) : r # Row(x) => r < Row(x)
      BY <3>3, <3>4
    <3> QED BY <2>2, <3>1, <3>5, OrderedTold
  <2> QED BY <1>2, <2>1, <2>2 DEF ReplayPrompt
<1>3. CASE UNCHANGED transcript
  BY <1>3 DEF InOrder
<1> QED BY <1>1, <1>2, <1>3, Frames

LEMMA KeptStep ==
  ASSUME Typed, QueueInv, LockInv, SessionInv, TargetInv, CursorInv, RowInv, KeptInv, RebuildNext
  PROVE  KeptInv'
<1> SUFFICES ASSUME ~Replacing
             PROVE  (\A i \in DOMAIN pending' : pending'[i] \in Mac') /\ \A s \in Sessions : seen'[s] \subseteq Mac'
  BY DEF KeptInv
<1>0. (\A i \in DOMAIN pending : pending[i] \in Mac) /\ \A s \in Sessions : seen[s] \subseteq Mac
  BY DEF KeptInv
<1>1. Mac \subseteq Mac'
  <2>1. CASE history' = history
    BY <2>1 DEF Mac
  <2>2. CASE Arrive
    <3>1. history' = Append(history, sent + 1) /\ sent + 1 \in Rows /\ history \in Seq(Rows)
      BY <2>2, MacRows, Constants DEF Arrive, Rows, Typed, IntakeTypeOK
    <3> QED BY <3>1, AppendedRow DEF Mac
  <2> QED BY <2>1, <2>2, Frames DEF ReplaceIdle
<1>2. \A i \in DOMAIN pending' : pending'[i] \in Range(pending) \cup Mac
  <2>1. CASE Dequeue
    <3>1. Range(pending') \subseteq Range(pending)
      BY <2>1, DequeueQueue
    <3> QED BY <3>1 DEF Range
  <2>2. CASE pending' = pending
    BY <2>2 DEF Range
  <2> QED BY <2>1, <2>2, PollQueue, Frames
<1>3. Range(pending) \subseteq Mac
  BY <1>0 DEF Range
<1>4. \A s \in Sessions : seen'[s] \subseteq seen[s] \cup Mac
  <2>1. CASE Record
    <3>1. Head(pending) \in Mac
      BY <1>3, <2>1, RecordFacts, HeadTyped
    <3> QED BY <2>1, <3>1, RecordFacts
  <2>2. ASSUME NEW x \in Runners, Mark(x) PROVE \A s \in Sessions : seen'[s] \subseteq seen[s] \cup Mac
    BY <2>2, MarkFacts
  <2>3. CASE UNCHANGED seen
    BY <2>3
  <2> QED BY <2>1, <2>2, <2>3, Frames
<1> QED BY <1>0, <1>1, <1>2, <1>3, <1>4

-----------------------------------------------------------------------------
(* No row is lost. *)

LEMMA ArriveLoses ==
  ASSUME Typed, QueueInv, Arrive
  PROVE  \A i \in DOMAIN history' :
           \/ i \in Ahead'
           \/ i \in DOMAIN history /\ i \notin Ahead /\ history'[i] = history[i]
<1>1. UNCHANGED bookmark
  BY DEF Arrive, queueVars
<1>2. history' = Append(history, sent + 1) /\ sent + 1 \in Rows /\ history \in Seq(Rows)
  BY MacRows, Constants DEF Arrive, Rows, Typed, IntakeTypeOK
<1>3. /\ Len(history') = Len(history) + 1 /\ DOMAIN history' = 1 .. Len(history) + 1
      /\ \A i \in 1 .. Len(history) + 1 : history'[i] = IF i <= Len(history) THEN history[i] ELSE sent + 1
  BY <1>2, AppendedRow
<1>4. /\ Len(history) \in Nat /\ DOMAIN history = 1 .. Len(history) /\ sent \in Nat
      /\ bookmark.row \in Nat /\ bookmark.id \in Nat
  BY MacRows
<1>5. bookmark.row < sent + 1
  BY <1>4 DEF QueueInv
<1>6. Replaced' <=> Replaced
  <2>1. bookmark.id \in 1 .. Len(history) => history'[bookmark.id] = history[bookmark.id]
    BY <1>3, <1>4
  <2>2. bookmark.id = Len(history) + 1 => history'[bookmark.id] # bookmark.row
    BY <1>3, <1>4, <1>5
  <2> QED BY <1>1, <1>3, <1>4, <2>1, <2>2 DEF Replaced
<1>7. ASSUME NEW i \in DOMAIN history, i \in Ahead PROVE i \in Ahead'
  <2>1. i \in DOMAIN history' /\ history'[i] = history[i]
    BY <1>3, <1>4
  <2> QED BY <1>1, <1>6, <1>7, <2>1 DEF Ahead
<1>8. Len(history) + 1 \in Ahead'
  <2>1. Len(history) + 1 \in DOMAIN history' /\ history'[Len(history) + 1] = sent + 1
    BY <1>3, <1>4
  <2>2. sent + 1 > bookmark.row /\ sent + 1 >= bookmark.row
    BY <1>4, <1>5
  <2> QED BY <1>1, <2>1, <2>2 DEF Ahead
<1>9. \A i \in DOMAIN history' : i = Len(history) + 1 \/ (i \in DOMAIN history /\ history'[i] = history[i])
  BY <1>3, <1>4
<1> QED BY <1>7, <1>8, <1>9

\* The ids of a replaced database do not hide a row from the poll.
LEMMA ReplaceLoses ==
  ASSUME Typed, QueueInv, ReplaceIdle
  PROVE  \A i \in DOMAIN history' :
           \/ i \in Ahead'
           \/ \E n \in DOMAIN history : n \notin Ahead /\ history'[i] = history[n]
<1>1. UNCHANGED bookmark
  BY DEF ReplaceIdle, Replace, queueVars
<1>2. /\ Len(history) \in Nat /\ DOMAIN history = 1 .. Len(history) /\ history \in Seq(Rows)
      /\ bookmark.row \in Nat /\ bookmark.id \in Nat
      /\ \A i \in 1 .. Len(history) : history[i] \in Nat /\ history[i] # 0
  <2>1. \A i \in 1 .. Len(history) : history[i] \in Nat /\ history[i] # 0
    BY MacRows, Constants
  <2> QED BY <2>1, MacRows DEF Typed, IntakeTypeOK
<1>3. PICK k \in 1 .. Len(history) : history' = RemoveAt(history, k)
  BY <1>2 DEF ReplaceIdle, Replace
<1>4. /\ history' \in Seq(Rows) /\ Len(history') = Len(history) - 1
      /\ \A i \in 1 .. Len(history') : history'[i] = IF i < k THEN history[i] ELSE history[i + 1]
  BY <1>2, <1>3, RemovedAt
<1>5. DOMAIN history' = 1 .. Len(history) - 1
  BY <1>4
<1> SUFFICES ASSUME NEW i \in 1 .. Len(history) - 1, i \notin Ahead'
             PROVE  \E n \in DOMAIN history : n \notin Ahead /\ history'[i] = history[n]
  BY <1>5
<1>6. PICK n \in {i, i + 1} : n \in 1 .. Len(history) /\ history'[i] = history[n]
  BY <1>2, <1>4
<1>7. i \in Nat /\ n \in Nat
  BY <1>2, <1>6
<1> SUFFICES ASSUME n \in Ahead PROVE FALSE
  BY <1>2, <1>6
<1>8. history[n] >= bookmark.row /\ (history[n] = bookmark.row => Replaced)
  BY AheadFacts
<1>9. ~Replaced' /\ ~(i > bookmark.id) /\ ~(history'[i] > bookmark.row)
  <2>1. ~Replaced'
    BY <1>1, <1>5, <1>6, <1>8 DEF Ahead
  <2> QED BY <1>1, <1>5, <2>1 DEF Ahead
<1>10. history[n] = bookmark.row /\ Replaced
  BY <1>2, <1>6, <1>8, <1>9
<1>11. bookmark.id > 0 /\ bookmark.id \in 1 .. Len(history) - 1 /\ history'[bookmark.id] = bookmark.row
  <2>1. bookmark.id # 0
    BY <1>2, <1>6, <1>10 DEF QueueInv
  <2> QED BY <1>1, <1>2, <1>4, <1>9, <2>1 DEF Replaced
<1>12. bookmark.id = i
  <2>1. \A a, b \in DOMAIN history' : a < b => history'[a] < history'[b]
    BY ReplaceQueue DEF QueueInv
  <2>2. i \in DOMAIN history' /\ bookmark.id \in DOMAIN history' /\ history'[i] = history'[bookmark.id]
    BY <1>5, <1>6, <1>10, <1>11
  <2>3. ~(i < bookmark.id) /\ ~(bookmark.id < i)
    <3>1. history'[i] = bookmark.row /\ ~(bookmark.row < bookmark.row)
      BY <1>2, <1>6, <1>10
    <3> QED BY <2>1, <2>2, <3>1
  <2> QED BY <1>2, <1>7, <2>3
<1>13. n = bookmark.id
  <2>1. n <= bookmark.id
    BY <1>2, <1>6, <1>10 DEF QueueInv
  <2> QED BY <2>1, <1>6, <1>7, <1>12
<1> QED BY <1>2, <1>6, <1>7, <1>10, <1>11, <1>13 DEF Replaced

LEMMA PollLoses ==
  ASSUME Typed, QueueInv, Poll
  PROVE  \A i \in DOMAIN history :
           \/ i \in Ahead' \/ history[i] \in Range(pending')
           \/ i \notin Ahead
<1> SUFFICES ASSUME NEW i \in DOMAIN history, i > bookmark'.id PROVE i \in Ahead'
  BY PollQueue
<1>1. history' = history
  BY DEF Poll, macVars
<1>2. bookmark'.id \in DOMAIN history /\ bookmark'.row = history[bookmark'.id]
  <2>1. PICK first, last, fresh \in 1 .. Len(history) + 1 :
          last \in 1 .. Len(history) /\ bookmark' = [id |-> last, row |-> history[last]]
    BY PollFacts
  <2> QED BY <2>1, MacRows
<1>3. history[i] > bookmark'.row /\ history[i] >= bookmark'.row
  <2>1. bookmark'.id \in Nat /\ i \in Nat /\ history[i] \in Nat /\ bookmark'.row \in Nat
    BY <1>2, MacRows
  <2>2. bookmark'.row < history[i]
    BY <1>2, <2>1 DEF QueueInv
  <2> QED BY <2>1, <2>2
<1> QED BY <1>1, <1>3 DEF Ahead

LEMMA LossStep ==
  ASSUME Typed, QueueInv, LockInv, SessionInv, TargetInv, CursorInv, RowInv, BoundInv, ReaderInv, NoRowLost,
         RebuildNext
  PROVE  NoRowLost'
<1> SUFFICES ASSUME standing' = "open", NEW i \in DOMAIN history', i \notin Ahead'
             PROVE  history'[i] \in Range(pending') \cup Known'
  BY DEF NoRowLost
<1>1. standing = "open"
  BY Frames DEF Block, End
<1>2. \A n \in DOMAIN history : n \in Ahead \/ history[n] \in Range(pending) \cup Known
  BY <1>1 DEF NoRowLost
<1>3. \A n \in DOMAIN history : history[n] \in Known => history[n] \in Known'
  BY KnownKept DEF Mac, Range
<1>4. CASE Arrive \/ ReplaceIdle
  <2>1. pending' = pending
    BY <1>4 DEF Arrive, ReplaceIdle, Replace, queueVars
  <2>2. PICK n \in DOMAIN history : n \notin Ahead /\ history'[i] = history[n]
    BY <1>4, ArriveLoses, ReplaceLoses
  <2> QED BY <1>2, <1>3, <2>1, <2>2
<1>5. CASE Poll
  <2>1. history' = history /\ Range(pending) \subseteq Range(pending')
    BY <1>5, PollQueue DEF Poll, macVars
  <2> QED BY <1>2, <1>3, <1>5, <2>1, PollLoses
<1>6. CASE Dequeue
  <2>1. history' = history /\ bookmark' = bookmark /\ reader.stage = "received"
        /\ Range(pending) \subseteq Range(pending') \cup {Head(pending)}
    BY <1>6, DequeueQueue DEF Dequeue, macVars
  <2>2. i \in DOMAIN history /\ i \notin Ahead
    BY <2>1 DEF Ahead, Replaced
  <2>3. history[i] \in Mac
    BY <2>2 DEF Mac, Range
  <2>4. history[i] = Head(pending) => history[i] \in Known
    BY <1>1, <2>1, <2>3 DEF ReaderInv
  <2> QED BY <1>2, <1>3, <2>1, <2>2, <2>4
<1>7. CASE ~Arrive /\ ~ReplaceIdle /\ ~Poll /\ ~Dequeue
  <2>1. UNCHANGED <<history, bookmark, pending>>
    BY <1>7, Frames
  <2>2. i \in DOMAIN history /\ i \notin Ahead
    BY <2>1 DEF Ahead, Replaced
  <2> QED BY <1>2, <1>3, <2>1, <2>2
<1> QED BY <1>4, <1>5, <1>6, <1>7

-----------------------------------------------------------------------------
(* The theorems. *)

LEMMA RebuildStutter == ASSUME RebuildInv, UNCHANGED vars PROVE RebuildInv'
<1>1. UNCHANGED <<history, sent, bookmark, pending, session, rebuilding, source, standing, seen,
                  present, writable, transcript, reader, run, saved, lastSession, faults>>
  BY DEF vars, intakeVars, macVars, queueVars, directoryVars, executorVars, rebuildVars
<1>2. Typed' /\ BoundInv' /\ QueueInv' /\ SessionInv'
  BY <1>1, TypeParts DEF RebuildInv, Typed, IntakeTypeOK, BoundInv, QueueInv, SessionInv
<1>3. BehindInv' /\ LockInv' /\ TargetInv' /\ RowInv'
  BY <1>1 DEF RebuildInv, BehindInv, LockInv, TargetInv, RowInv, Told, Foremost, Admitting, LifecycleFree,
              Current, Row
<1>4. CursorInv' /\ PrefixInv' /\ ReaderInv' /\ KeptInv'
  BY <1>1 DEF RebuildInv, CursorInv, PrefixInv, ReaderInv, KeptInv, Covered, Current, Told, Known, Mac
<1>5. ReceiptsTrue' /\ InOrder' /\ NoRowLost'
  BY <1>1 DEF RebuildInv, ReceiptsTrue, InOrder, NoRowLost, Ahead, Replaced, Known
<1>6. RebuildTypeOK'
  BY <1>2 DEF RebuildTypeOK, Typed, BoundInv
<1> QED BY <1>2, <1>3, <1>4, <1>5, <1>6 DEF RebuildInv

LEMMA RebuildStep == ASSUME RebuildInv, RebuildNext PROVE RebuildInv'
<1>1. /\ Typed /\ BoundInv /\ QueueInv /\ BehindInv /\ LockInv /\ SessionInv /\ TargetInv /\ CursorInv
      /\ RowInv /\ PrefixInv /\ ReaderInv /\ ReceiptsTrue /\ InOrder /\ NoRowLost /\ KeptInv
  BY TypeParts DEF RebuildInv
<1>2. RebuildTypeOK'
  BY <1>1, TypedStep, BoundStep DEF RebuildTypeOK, Typed, BoundInv
<1>3. QueueInv' /\ BehindInv' /\ LockInv' /\ SessionInv' /\ TargetInv'
  BY <1>1, QueueStep, BehindStep, LockStep, SessionStep, TargetStep
<1>4. CursorInv' /\ RowInv' /\ PrefixInv' /\ ReaderInv'
  BY <1>1, CursorStep, RowStep, PrefixStep, DrainStep
<1>5. ReceiptsTrue' /\ InOrder' /\ NoRowLost' /\ KeptInv'
  BY <1>1, ReceiptsStep, OrderStep, LossStep, KeptStep
<1> QED BY <1>2, <1>3, <1>4, <1>5 DEF RebuildInv

\* The inductive invariant: the order of the queue and of what every session was
\* told, who holds which lock, and how far a replay has covered the receipts that
\* bound it.
THEOREM RebuildInvariant == RebuildSpec => []RebuildInv
<1>1. RebuildInv /\ [RebuildNext]_vars => RebuildInv'
  BY RebuildStep, RebuildStutter
<1> QED BY <1>1, RebuildInitial, PTL DEF RebuildSpec

\* The types; and the receipts that bound a replay are named exactly while the
\* history is replayed (rebuild-session.ts), those of an older session.
THEOREM RebuildTypeCorrect == RebuildSpec => []RebuildTypeOK
<1>1. RebuildInv => RebuildTypeOK
  BY DEF RebuildInv
<1> QED BY <1>1, RebuildInvariant, PTL

\* A live session was prompted with every row that is marked received for it, by
\* admitLive or by the replay (intake.ts, markSeen).
THEOREM RebuildReceiptsTrue == RebuildSpec => []ReceiptsTrue
<1>1. RebuildInv => ReceiptsTrue
  BY DEF RebuildInv
<1> QED BY <1>1, RebuildInvariant, PTL

\* The rows of every session stand in the order in which he sent them.
THEOREM RebuildInOrder == RebuildSpec => []InOrder
<1>1. RebuildInv => InOrder
  BY DEF RebuildInv
<1> QED BY <1>1, RebuildInvariant, PTL

\* No message is lost between the Mac's database and the persona, in any number of
\* polls, rebuilds, failures and replacements of the database.
THEOREM RebuildNoRowLost == RebuildSpec => []NoRowLost
<1>1. RebuildInv => NoRowLost
  BY DEF RebuildInv
<1> QED BY <1>1, RebuildInvariant, PTL

\* The permission to write is only given back to the conversation's session, while
\* it is rebuilt (rebuild-session.ts, complete).
THEOREM RebuildNeverRegained == RebuildSpec => NeverRegained
<1>1. ASSUME RebuildInv, [RebuildNext]_vars
      PROVE  [\A s \in Sessions :
                s <= lastSession /\ s \notin writable /\ (s # session \/ standing = "ended")
                  => s \notin writable']_vars
  <2> SUFFICES ASSUME RebuildNext, NEW s \in Sessions, s \notin writable, s # session \/ standing = "ended"
               PROVE  s \notin writable'
    BY <1>1
  <2>1. ASSUME NEW x \in Runners, MakeWritable(x) PROVE s \notin writable'
    <3>1. run[x].target = session /\ rebuilding
      BY <1>1, <2>1 DEF RebuildInv, TargetInv, MakeWritable
    <3>2. standing # "ended"
      BY <1>1, <3>1 DEF RebuildInv, SessionInv
    <3> QED BY <2>1, <3>1, <3>2 DEF MakeWritable
  <2> QED BY <2>1, Frames
<1> QED BY <1>1, RebuildInvariant, PTL DEF RebuildSpec, NeverRegained

\* While the history is replayed into a session no prompt makes it write: what may
\* write has been told all of it.
THEOREM RebuildReplayReadOnly == RebuildSpec => ReplayReadOnly
<1>1. ASSUME RebuildInv, [RebuildNext]_vars
      PROVE  [rebuilding /\ transcript' # transcript => session \notin writable]_vars
  <2> SUFFICES ASSUME RebuildNext, rebuilding, transcript' # transcript, session \in writable
               PROVE  FALSE
    BY <1>1
  <2>0. /\ Typed /\ LockInv /\ SessionInv /\ TargetInv /\ CursorInv /\ RowInv
    BY <1>1, TypeParts DEF RebuildInv
  <2>1. ~LivePrompt
    BY <2>0 DEF LivePrompt, LockInv, Admitting
  <2>2. ASSUME NEW x \in Runners, ReplayPrompt(x) PROVE FALSE
    <3>1. Current(run[x].target) /\ run[x].stage = "admitting"
      BY <2>2 DEF ReplayPrompt
    <3>2. Row(x) \in seen[source] /\ Row(x) \notin seen[session] /\ Row(x) \in Mac
      BY <2>0, <3>1, RowBound DEF RowInv, Current
    <3>3. Covered(Len(history))
      BY <2>0 DEF CursorInv
    <3>4. \A row \in Mac : row \in seen[source] => row \in seen[session]
      BY <2>0, <3>3, MacRows DEF Covered, Mac, Range
    <3> QED BY <3>2, <3>4
  <2> QED BY <2>1, <2>2, Frames
<1> QED BY <1>1, RebuildInvariant, PTL DEF RebuildSpec, ReplayReadOnly

-----------------------------------------------------------------------------
(* Rebuild implements Memory. *)

LEMMA KnownSteps ==
  ASSUME RebuildInv, RebuildNext, ~Replacing
  PROVE  Known' = Known \/ \E row \in Rows : Persona!Learn(row)
<1>0. /\ Typed /\ BoundInv /\ QueueInv /\ BehindInv /\ LockInv /\ SessionInv /\ TargetInv /\ CursorInv
      /\ RowInv /\ KeptInv
  BY TypeParts DEF RebuildInv
<1>1. session \in Sessions /\ source \in Sessions \cup {None} /\ None \notin Sessions
  BY <1>0, TypedParts, Constants DEF SessionTyped
<1>2. ASSUME NEW x \in Runners, Create(x) PROVE Known' = Known
  <2>1. seen' = seen
    BY <1>2 DEF Create
  <2>2. CASE UNCHANGED <<session, source>>
    BY <2>1, <2>2 DEF Known
  <2>3. CASE source' = SourceAfter /\ standing = "open"
    <3>1. SourceAfter = (IF source = None THEN session ELSE source) /\ SourceAfter # None
      BY <1>0, <1>1, <2>3 DEF SourceAfter, BoundInv
    <3> QED BY <2>1, <2>3, <3>1 DEF Known
  <2> QED BY <1>2, <2>2, <2>3 DEF Create, Current
<1>3. ASSUME NEW x \in Runners, Finish(x) PROVE Known' = Known
  <2>1. session' = session /\ seen' = seen /\ source' = None /\ rebuilding
    BY <1>0, <1>3 DEF Finish, TargetInv
  <2>2. Covered(Len(history)) /\ source # None /\ source \in Sessions
    BY <1>0, <1>1, <1>3, <2>1 DEF Finish, CursorInv, SessionInv
  <2>3. \A row \in Mac : row \in seen[source] => row \in seen[session]
    BY <1>0, <2>2, MacRows DEF Covered, Mac, Range
  <2>4. seen[source] \subseteq Mac
    BY <1>0, <2>2 DEF KeptInv
  <2>5. seen[session] \subseteq seen[source]
    BY <1>0, <2>1 DEF BoundInv
  <2>6. seen[session] = seen[source]
    BY <2>3, <2>4, <2>5
  <2> QED BY <2>1, <2>2, <2>6 DEF Known
<1>4. CASE End
  BY <1>4 DEF End, Known
<1>5. ASSUME NEW x \in Runners, Mark(x) PROVE Known' = Known
  <2>1. UNCHANGED <<session, source>>
    BY <1>0, <1>5, MarkFacts
  <2>2. CASE session = run[x].target /\ standing # "ended"
    <3>1. source \in Sessions /\ source # session /\ seen'[source] = seen[source]
      BY <1>0, <1>5, <2>2, MarkFacts
    <3> QED BY <1>1, <2>1, <3>1 DEF Known
  <2>3. CASE ~(session = run[x].target /\ standing # "ended")
    BY <1>0, <1>5, <2>1, <2>3, MarkFacts DEF Known
  <2> QED BY <2>2, <2>3
<1>6. CASE Record
  <2>1. UNCHANGED <<session, source>> /\ pending # <<>> /\ Head(pending) \in Rows /\ ~rebuilding
    BY <1>0, <1>6, RecordFacts
  <2>2. CASE standing = "ended"
    BY <1>0, <1>6, <2>1, <2>2, RecordFacts DEF Known
  <2>3. CASE standing # "ended"
    <3>1. Known = seen[session] /\ Known' = seen'[session]
      BY <1>0, <2>1, <2>3 DEF BoundInv, Known
    <3>2. Known' = Known \cup {Head(pending)}
      BY <1>0, <1>1, <1>6, <2>3, <3>1, RecordFacts
    <3>3. \A row \in Known : row <= Head(pending) /\ row \in Nat
      <4>1. \A row \in seen[session] : row \in Nat
        BY <1>0, <1>1, Constants DEF Typed, IntakeTypeOK
      <4> QED BY <1>0, <1>1, <2>1, <3>1, <4>1 DEF BehindInv, Foremost
    <3>4. CASE Head(pending) \in Known
      BY <3>2, <3>4
    <3>5. CASE Head(pending) \notin Known
      <4>1. Head(pending) \in Nat
        BY <2>1, Constants
      <4>2. \A row \in Known : row < Head(pending)
        BY <3>3, <3>5, <4>1
      <4>3. Persona!Learn(Head(pending))
        BY <3>2, <4>2 DEF Persona!Learn
      <4> QED BY <2>1, <4>3
    <3> QED BY <3>4, <3>5
  <2> QED BY <2>2, <2>3
<1>7. CASE /\ ~Record /\ ~End
           /\ \A x \in Runners : ~Create(x) /\ ~Finish(x) /\ ~Mark(x)
  BY <1>7, Frames DEF Known
<1> QED BY <1>2, <1>3, <1>4, <1>5, <1>6, <1>7

\* While the Mac's database is not replaced, intake and rebuild together are the
\* memory of Memory: every step teaches the persona a later row or none, and none
\* is forgotten.
THEOREM RebuildImplementsMemory == ASSUME ~Replacing PROVE RebuildSpec => ImplementsMemory
<1>1. RebuildInit => Persona!Init
  BY Constants DEF RebuildInit, IntakeInit, Persona!Init, Known
<1>2. RebuildInv /\ [RebuildNext]_vars => [Persona!Next]_Known
  <2> SUFFICES ASSUME RebuildInv, [RebuildNext]_vars PROVE [Persona!Next]_Known
    OBVIOUS
  <2>1. CASE RebuildNext
    BY <2>1, KnownSteps DEF Persona!Next
  <2>2. CASE UNCHANGED vars
    BY <2>2 DEF vars, intakeVars, directoryVars, Known
  <2> QED BY <2>1, <2>2
<1> QED BY <1>1, <1>2, RebuildInvariant, PTL DEF RebuildSpec, ImplementsMemory, Persona!Spec
=============================================================================
