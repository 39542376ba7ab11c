--------------------------- MODULE LiveSyncProofs ---------------------------
(***************************************************************************)
(* No interleaving of any number of requests and screens loses an update,  *)
(* and LiveSync implements LiveFeed.                                       *)
(*                                                                         *)
(* The argument: the row lock makes the copy its holder works on the       *)
(* current row, so every commit extends the blob and the committed values  *)
(* form a chain ordered by version; whatever travels to a screen is one of *)
(* them, so a higher version is a later state of the same board.           *)
(***************************************************************************)
EXTENDS LiveSync, TLAPS

RowType == row \in Rows /\ written \subseteq Rows

PhaseType == phase \in [Requests -> Phases]

HeldIsWritten == held \in [Requests -> written]

\* The row is the newest of the committed values, and these grow with the
\* version.
Chain ==
  /\ row \in written
  /\ \A p \in written : p.version <= row.version
  /\ \A p, q \in written : p.version <= q.version => p.blob \subseteq q.blob

\* The request that holds the lock works on the row as it is.
LockProtects ==
  /\ \A r \in Requests : phase[r] = "locked" => held[r] = row
  /\ \A r, q \in Requests : phase[r] = "locked" /\ phase[q] = "locked" => r = q

\* A request commits once.
NotCommitted ==
  \A r \in Requests : phase[r] \in {"new", "entered", "locked"} => r \notin events

\* Queues, snapshots and screens carry committed values only, and a snapshot is
\* never behind the screen it was read for.
QueueIsWritten ==
  /\ queue \in [Clients -> Seq(Rows)]
  /\ \A c \in Clients : \A i \in 1 .. Len(queue[c]) : queue[c][i] \in written

ScreenIsWritten ==
  /\ stream \in [Clients -> {"off", "admitted", "subscribed", "loaded",
                             "streaming", "closed"}]
  /\ initial \in [Clients -> written]
  /\ sent \in [Clients -> Nat]
  /\ shown \in [Clients -> {w.blob : w \in written}]
  /\ \A c \in Clients :
       stream[c] = "streaming"
         => \E w \in written : w.version = sent[c] /\ w.blob = shown[c]
  /\ \A c \in Clients :
       stream[c] = "loaded" => shown[c] \subseteq initial[c].blob

SyncInv ==
  /\ RowType
  /\ PhaseType
  /\ HeldIsWritten
  /\ NoLostUpdate
  /\ Chain
  /\ LockProtects
  /\ NotCommitted
  /\ QueueIsWritten
  /\ ScreenIsWritten

\* The invariant holds before the first request.
LEMMA SyncInit == Init => SyncInv
<1> SUFFICES ASSUME Init PROVE SyncInv
  OBVIOUS
<1>1. Start \in Rows
  BY DEF Start, Rows
<1>2. RowType /\ PhaseType /\ HeldIsWritten /\ NoLostUpdate
  BY <1>1 DEF Init, RowType, PhaseType, Phases, HeldIsWritten, NoLostUpdate, Start
<1>3. Chain
  BY <1>1 DEF Init, Chain, Rows
<1>4. LockProtects /\ NotCommitted
  BY DEF Init, LockProtects, NotCommitted
<1>5. QueueIsWritten
  BY DEF Init, QueueIsWritten
<1>6. ScreenIsWritten
  BY DEF Init, ScreenIsWritten, Start
<1> QED
  BY <1>2, <1>3, <1>4, <1>5, <1>6 DEF SyncInv

\* The steps that leave the row and what has been committed alone.
LEMMA QuietStep ==
  ASSUME SyncInv, UNCHANGED <<row, events, written>>,
         PhaseType', HeldIsWritten', LockProtects', NotCommitted',
         QueueIsWritten', ScreenIsWritten'
  PROVE  SyncInv'
  BY DEF SyncInv, RowType, NoLostUpdate, Chain

\* The invariant survives a request entering the handler.
LEMMA EnterKeeps ==
  ASSUME SyncInv, NEW r \in Requests, Enter(r) PROVE SyncInv'
<1> USE DEF SyncInv, Enter, alarmVars, streamVars, endVars
<1>1. PhaseType' /\ HeldIsWritten'
  BY DEF PhaseType, Phases, HeldIsWritten, Chain
<1>2. LockProtects' /\ NotCommitted'
  BY DEF PhaseType, HeldIsWritten, LockProtects, NotCommitted
<1>3. QueueIsWritten' /\ ScreenIsWritten'
  BY DEF QueueIsWritten, ScreenIsWritten
<1> QED
  BY <1>1, <1>2, <1>3, QuietStep

\* The invariant survives a request taking the row lock and reading under it.
LEMMA LockKeeps ==
  ASSUME SyncInv, NEW r \in Requests, Lock(r) PROVE SyncInv'
<1> USE DEF SyncInv, Lock, alarmVars, streamVars, endVars
<1>1. PhaseType' /\ HeldIsWritten'
  BY DEF PhaseType, Phases, HeldIsWritten, Chain, Reread
<1>2. LockProtects' /\ NotCommitted'
  BY DEF PhaseType, HeldIsWritten, LockProtects, NotCommitted, Reread, Unlocked
<1>3. QueueIsWritten' /\ ScreenIsWritten'
  BY DEF QueueIsWritten, ScreenIsWritten
<1> QED
  BY <1>1, <1>2, <1>3, QuietStep

\* The steps of a request that move nothing but its phase towards an end.
LEMMA PhaseKeeps ==
  ASSUME SyncInv, NEW r \in Requests,
         Reject(r) \/ Close(r) \/ Record(r) \/ Publish(r)
  PROVE  SyncInv'
<1> USE DEF SyncInv, alarmVars, streamVars, endVars
<1>1. UNCHANGED <<row, held, events, written, stream, queue, initial, sent, shown>>
  BY DEF Reject, Close, Record, Publish
<1>2. \E p \in {"rejected", "refused", "recorded", "published"} :
         phase' = [phase EXCEPT ![r] = p]
  BY DEF Reject, Close, Record, Publish
<1>3. PhaseType' /\ HeldIsWritten'
  BY <1>1, <1>2 DEF PhaseType, Phases, HeldIsWritten
<1>4. LockProtects' /\ NotCommitted'
  BY <1>1, <1>2 DEF PhaseType, LockProtects, NotCommitted
<1>5. QueueIsWritten' /\ ScreenIsWritten'
  BY <1>1 DEF QueueIsWritten, ScreenIsWritten
<1> QED
  BY <1>1, <1>3, <1>4, <1>5, QuietStep

\* What a commit makes of the row, by the lock.
LEMMA CommitExtends ==
  ASSUME SyncInv, NEW r \in Requests, Commit(r)
  PROVE  /\ row' = [version |-> row.version + 1, blob |-> row.blob \cup {r}]
         /\ row' \in Rows
         /\ r \notin row.blob
<1>1. held[r] = row
  BY DEF SyncInv, LockProtects, Commit
<1>2. r \notin row.blob
  BY DEF SyncInv, NotCommitted, NoLostUpdate, Commit
<1>3. row' = [version |-> row.version + 1, blob |-> row.blob \cup {r}]
  BY <1>1 DEF Commit
<1> QED
  BY <1>2, <1>3 DEF SyncInv, RowType, Rows

\* The invariant survives a commit, which moves the blob and the log together.
LEMMA CommitKeeps ==
  ASSUME SyncInv, NEW r \in Requests, Commit(r) PROVE SyncInv'
<1> DEFINE next == row'
<1>1. /\ next = [version |-> row.version + 1, blob |-> row.blob \cup {r}]
      /\ next \in Rows
  BY CommitExtends
<1>2. /\ written' = written \cup {next}
      /\ held' = [held EXCEPT ![r] = next]
      /\ events' = events \cup {r}
      /\ phase' = [phase EXCEPT ![r] = "committed"]
      /\ phase[r] = "locked"
      /\ UNCHANGED <<stream, queue, initial, sent, shown>>
  BY DEF Commit, streamVars
<1>3. row \in Rows /\ written \subseteq Rows
  BY DEF SyncInv, RowType
<1>4. RowType' /\ PhaseType' /\ HeldIsWritten'
  <2>1. RowType'
    BY <1>1, <1>2, <1>3 DEF RowType
  <2>2. PhaseType'
    BY <1>2 DEF SyncInv, PhaseType, Phases
  <2>3. HeldIsWritten'
    BY <1>2 DEF SyncInv, HeldIsWritten
  <2> QED
    BY <2>1, <2>2, <2>3
<1>5. NoLostUpdate'
  BY <1>1, <1>2 DEF SyncInv, NoLostUpdate
<1>6. Chain'
  <2>1. \A p \in written : p.version <= row.version /\ p.blob \subseteq row.blob
    BY DEF SyncInv, Chain
  <2>2. \A p \in written : p.version < next.version /\ p.blob \subseteq next.blob
    BY <1>1, <1>3, <2>1 DEF Rows
  <2>3. \A p \in written \cup {next} : p.version <= next.version
    BY <1>1, <2>2, <1>3 DEF Rows
  <2>4. ASSUME NEW p \in written \cup {next}, NEW q \in written \cup {next},
               p.version <= q.version
        PROVE  p.blob \subseteq q.blob
    <3>1. CASE q = next
      BY <2>2, <3>1
    <3>2. CASE q # next /\ p = next
      <4>1. q \in written
        BY <3>2
      <4>2. q.version < next.version /\ next.version <= q.version
        BY <2>2, <2>4, <3>2, <4>1
      <4>3. q.version \in Int /\ next.version \in Int
        BY <1>1, <1>3, <4>1 DEF Rows
      <4> QED
        BY <4>2, <4>3
    <3>3. CASE q # next /\ p # next
      BY <2>4, <3>3 DEF SyncInv, Chain
    <3> QED
      BY <3>1, <3>2, <3>3
  <2> QED
    BY <1>2, <2>3, <2>4 DEF Chain
<1>7. LockProtects' /\ NotCommitted'
  <2>1. \A q \in Requests : phase'[q] = "locked" => phase[q] = "locked" /\ q # r
    BY <1>2 DEF SyncInv, PhaseType
  <2>2. \A q \in Requests : phase'[q] # "locked"
    BY <1>2, <2>1 DEF SyncInv, LockProtects
  <2>3. NotCommitted'
    BY <1>2 DEF SyncInv, PhaseType, NotCommitted
  <2> QED
    BY <2>2, <2>3 DEF LockProtects
<1>8. QueueIsWritten'
  BY <1>2 DEF SyncInv, QueueIsWritten
<1>9. ScreenIsWritten'
  BY <1>2 DEF SyncInv, ScreenIsWritten
<1> QED
  BY <1>4, <1>5, <1>6, <1>7, <1>8, <1>9 DEF SyncInv

\* The invariant survives the queueing of an update for a screen.
LEMMA PutKeeps ==
  ASSUME SyncInv, NEW r \in Requests, NEW c \in Clients, Put(r, c)
  PROVE  SyncInv'
<1> USE DEF SyncInv, Put, actionVars, alarmVars, endVars
<1>1. held[r] \in written /\ held[r] \in Rows
  BY DEF HeldIsWritten, RowType
<1>2. QueueIsWritten'
  <2>1. queue[c] \in Seq(Rows) /\ Append(queue[c], held[r]) \in Seq(Rows)
    BY <1>1 DEF QueueIsWritten
  <2>2. \A i \in 1 .. Len(Append(queue[c], held[r])) :
          Append(queue[c], held[r])[i] \in written
    BY <1>1, <2>1 DEF QueueIsWritten
  <2> QED
    BY <2>1, <2>2 DEF QueueIsWritten
<1>3. PhaseType' /\ HeldIsWritten' /\ LockProtects' /\ NotCommitted'
  BY DEF PhaseType, HeldIsWritten, LockProtects, NotCommitted
<1>4. ScreenIsWritten'
  BY DEF ScreenIsWritten
<1> QED
  BY <1>2, <1>3, <1>4, QuietStep

\* A step that only cuts connections off.
LEMMA HangupKeeps ==
  ASSUME SyncInv, NEW cs \in SUBSET Clients, Hangup(cs), UNCHANGED written
  PROVE  QueueIsWritten' /\ ScreenIsWritten'
<1> USE DEF SyncInv, Hangup
<1>1. QueueIsWritten'
  BY DEF QueueIsWritten
<1>2. ScreenIsWritten'
  <2>1. stream' \in [Clients -> {"off", "admitted", "subscribed", "loaded",
                                 "streaming", "closed"}]
    BY DEF ScreenIsWritten
  <2>2. \A c \in Clients : \A p \in {"loaded", "streaming"} :
          stream'[c] = p => stream[c] = p
    BY DEF ScreenIsWritten
  <2> QED
    BY <2>1, <2>2 DEF ScreenIsWritten
<1> QED
  BY <1>1, <1>2

\* A stream that changes its place without sending anything.
LEMMA OpeningKeeps ==
  ASSUME SyncInv, NEW c \in Clients, Open(c) \/ Subscribe(c)
  PROVE  SyncInv'
<1> USE DEF SyncInv, actionVars, alarmVars, endVars
<1>1. /\ UNCHANGED <<actionVars, queue, initial, sent, shown>>
      /\ \E p \in {"admitted", "closed", "subscribed"} :
            stream' = [stream EXCEPT ![c] = p]
  BY DEF Open, Subscribe
<1>2. ScreenIsWritten'
  BY <1>1 DEF ScreenIsWritten
<1>3. QueueIsWritten'
  BY <1>1 DEF QueueIsWritten
<1>4. PhaseType' /\ HeldIsWritten' /\ LockProtects' /\ NotCommitted'
  BY <1>1 DEF PhaseType, HeldIsWritten, LockProtects, NotCommitted
<1> QED
  BY <1>1, <1>2, <1>3, <1>4, QuietStep

\* The invariant survives the reading of a snapshot: the row is not behind any
\* screen.
LEMMA LoadKeeps ==
  ASSUME SyncInv, NEW c \in Clients, Load(c) PROVE SyncInv'
<1> USE DEF SyncInv, Load, actionVars, alarmVars, endVars
<1>1. row \in written /\ \A w \in written : w.blob \subseteq row.blob
  BY DEF Chain
<1>2. ScreenIsWritten'
  <2>1. initial' \in [Clients -> written'] /\ shown[c] \subseteq row.blob
    BY <1>1 DEF ScreenIsWritten
  <2> QED
    BY <2>1 DEF ScreenIsWritten
<1>3. QueueIsWritten'
  BY DEF QueueIsWritten
<1>4. PhaseType' /\ HeldIsWritten' /\ LockProtects' /\ NotCommitted'
  BY DEF PhaseType, HeldIsWritten, LockProtects, NotCommitted
<1> QED
  BY <1>2, <1>3, <1>4, QuietStep

\* The invariant survives the first frame a screen is sent.
LEMMA InitialKeeps ==
  ASSUME SyncInv, NEW c \in Clients, SendInitial(c) PROVE SyncInv'
<1> USE DEF SyncInv, SendInitial, actionVars, alarmVars, endVars
<1>1. initial[c] \in written /\ initial[c] \in Rows
  BY DEF ScreenIsWritten, RowType
<1>2. ScreenIsWritten'
  <2>1. sent' \in [Clients -> Nat]
    BY <1>1 DEF ScreenIsWritten, Rows
  <2>2. shown' \in [Clients -> {w.blob : w \in written'}]
    BY <1>1 DEF ScreenIsWritten
  <2>3. \A d \in Clients : stream'[d] = "streaming" =>
          \E w \in written' : w.version = sent'[d] /\ w.blob = shown'[d]
    BY <1>1 DEF ScreenIsWritten
  <2> QED
    BY <2>1, <2>2, <2>3 DEF ScreenIsWritten
<1>3. QueueIsWritten'
  BY DEF QueueIsWritten
<1>4. PhaseType' /\ HeldIsWritten' /\ LockProtects' /\ NotCommitted'
  BY DEF PhaseType, HeldIsWritten, LockProtects, NotCommitted
<1> QED
  BY <1>2, <1>3, <1>4, QuietStep

\* The payload at the head of a queue is a committed value.
LEMMA HeadIsWritten ==
  ASSUME SyncInv, NEW c \in Clients, queue[c] # <<>>
  PROVE  /\ Head(queue[c]) \in written
         /\ Head(queue[c]) \in Rows
         /\ Tail(queue[c]) \in Seq(Rows)
         /\ \A i \in 1 .. Len(Tail(queue[c])) : Tail(queue[c])[i] \in written
<1>1. queue[c] \in Seq(Rows) /\ \A i \in 1 .. Len(queue[c]) : queue[c][i] \in written
  BY DEF SyncInv, QueueIsWritten
<1>2. Len(queue[c]) \in Nat /\ Len(queue[c]) > 0 /\ Head(queue[c]) = queue[c][1]
  BY <1>1
<1>3. Tail(queue[c]) \in Seq(Rows) /\ Len(Tail(queue[c])) = Len(queue[c]) - 1
  BY <1>1
<1>4. \A i \in 1 .. Len(Tail(queue[c])) : Tail(queue[c])[i] = queue[c][i + 1]
  BY <1>1
<1>5. Head(queue[c]) \in written
  BY <1>1, <1>2
<1> QED
  BY <1>1, <1>2, <1>3, <1>4, <1>5 DEF SyncInv, RowType

\* The invariant survives the delivery of an update.
LEMMA DeliverKeeps ==
  ASSUME SyncInv, NEW c \in Clients, Deliver(c) PROVE SyncInv'
<1> USE DEF SyncInv, Deliver, actionVars, alarmVars, endVars
<1>1. /\ Head(queue[c]) \in written
      /\ Head(queue[c]) \in Rows
      /\ Tail(queue[c]) \in Seq(Rows)
      /\ \A i \in 1 .. Len(Tail(queue[c])) : Tail(queue[c])[i] \in written
  BY HeadIsWritten
<1>2. QueueIsWritten'
  BY <1>1 DEF QueueIsWritten
<1>3. ScreenIsWritten'
  <2>1. CASE Fresh(c, Head(queue[c]))
    <3>1. /\ sent' = [sent EXCEPT ![c] = Head(queue[c]).version]
          /\ shown' = [shown EXCEPT ![c] = Head(queue[c]).blob]
          /\ UNCHANGED <<stream, initial, written>>
          /\ stream[c] = "streaming"
      BY <2>1
    <3>2. sent' \in [Clients -> Nat]
      BY <1>1, <3>1 DEF ScreenIsWritten, Rows
    <3>3. shown' \in [Clients -> {w.blob : w \in written'}]
      BY <1>1, <3>1 DEF ScreenIsWritten
    <3>4. \A d \in Clients : stream'[d] = "streaming" =>
            \E w \in written' : w.version = sent'[d] /\ w.blob = shown'[d]
      BY <1>1, <3>1 DEF ScreenIsWritten
    <3> QED
      BY <3>1, <3>2, <3>3, <3>4 DEF ScreenIsWritten
  <2>2. CASE ~Fresh(c, Head(queue[c]))
    BY <2>2 DEF ScreenIsWritten
  <2> QED
    BY <2>1, <2>2
<1>4. PhaseType' /\ HeldIsWritten' /\ LockProtects' /\ NotCommitted'
  BY DEF PhaseType, HeldIsWritten, LockProtects, NotCommitted
<1> QED
  BY <1>2, <1>3, <1>4, QuietStep

\* The invariant survives a screen losing its connection.
LEMMA CutKeeps ==
  ASSUME SyncInv, NEW c \in Clients, LoseRow(c) \/ Drop(c)
  PROVE  SyncInv'
<1> USE DEF SyncInv, LoseRow, Drop, actionVars, alarmVars, endVars
<1>1. QueueIsWritten' /\ ScreenIsWritten'
  BY HangupKeeps
<1>2. PhaseType' /\ HeldIsWritten' /\ LockProtects' /\ NotCommitted'
  BY DEF PhaseType, HeldIsWritten, LockProtects, NotCommitted
<1> QED
  BY <1>1, <1>2, QuietStep

\* The invariant survives the end of the game.
LEMMA EndKeeps ==
  ASSUME SyncInv, EndRead \/ EndCommit PROVE SyncInv'
<1> USE DEF SyncInv, EndRead, EndCommit, actionVars, alarmVars, streamVars
<1>1. QueueIsWritten' /\ ScreenIsWritten'
  BY DEF QueueIsWritten, ScreenIsWritten
<1>2. PhaseType' /\ HeldIsWritten' /\ LockProtects' /\ NotCommitted'
  BY DEF PhaseType, HeldIsWritten, LockProtects, NotCommitted
<1> QED
  BY <1>1, <1>2, QuietStep

\* The invariant survives a restart of the process.
LEMMA RestartKeeps ==
  ASSUME SyncInv, Restart PROVE SyncInv'
<1> USE DEF SyncInv, Restart
<1>1. QueueIsWritten' /\ ScreenIsWritten'
  BY HangupKeeps
<1>2. \A r \in Requests :
        phase'[r] = IF phase[r] \in {"new", "refused"} THEN phase[r] ELSE "stopped"
  OBVIOUS
<1>3. PhaseType' /\ HeldIsWritten'
  BY <1>2 DEF PhaseType, Phases, HeldIsWritten
<1>4. LockProtects' /\ NotCommitted'
  BY <1>2 DEF LockProtects, NotCommitted
<1> QED
  BY <1>1, <1>3, <1>4, QuietStep

\* The invariant survives a step that changes nothing.
LEMMA StutterKeeps ==
  ASSUME SyncInv, UNCHANGED vars PROVE SyncInv'
<1> USE DEF SyncInv, vars, actionVars, streamVars
<1>1. QueueIsWritten' /\ ScreenIsWritten'
  BY DEF QueueIsWritten, ScreenIsWritten
<1>2. PhaseType' /\ HeldIsWritten' /\ LockProtects' /\ NotCommitted'
  BY DEF PhaseType, HeldIsWritten, LockProtects, NotCommitted
<1> QED
  BY <1>1, <1>2, QuietStep

\* Every step of the handlers keeps the invariant.
LEMMA SyncNext == SyncInv /\ [Next]_vars => SyncInv'
<1> SUFFICES ASSUME SyncInv, [Next]_vars PROVE SyncInv'
  OBVIOUS
<1>1. CASE \E r \in Requests : Enter(r) \/ RequestStep(r)
  BY <1>1, EnterKeeps, LockKeeps, PhaseKeeps, CommitKeeps, PutKeeps DEF RequestStep
<1>2. CASE \E c \in Clients : StreamStep(c) \/ Drop(c)
  BY <1>2, OpeningKeeps, LoadKeeps, InitialKeeps, CutKeeps, DeliverKeeps
  DEF StreamStep
<1>3. CASE EndRead \/ EndCommit
  BY <1>3, EndKeeps
<1>4. CASE Restart
  BY <1>4, RestartKeeps
<1>5. CASE UNCHANGED vars
  BY <1>5, StutterKeeps
<1> QED
  BY <1>1, <1>2, <1>3, <1>4, <1>5 DEF Next

\* The invariant behind what follows: the lock, the chain of committed values and
\* the screens that show some of them.
THEOREM SyncInvariant == Spec => []SyncInv
  BY SyncInit, SyncNext, PTL DEF Spec

\* No update is lost and no event is written without its mutation, for any number
\* of requests, screens and failures.
THEOREM NoUpdateIsLost == Spec => []NoLostUpdate
<1>1. SyncInv => NoLostUpdate
  BY DEF SyncInv
<1> QED
  BY <1>1, SyncInvariant, PTL

----------------------------------------------------------------------------
(* LiveSync implements LiveFeed *)

\* The feed starts where the handlers do.
LEMMA FeedInit == Init => Feed!Init
<1> SUFFICES ASSUME Init PROVE Feed!Init
  OBVIOUS
<1>1. row.blob = {} /\ written = {Start} /\ Start.blob = {}
  BY DEF Init, Start
<1>2. {w.blob : w \in written} = {{}}
  BY <1>1
<1>3. shown = [c \in Clients |-> {}]
  BY DEF Init
<1> QED
  BY <1>1, <1>2, <1>3 DEF Feed!Init

\* A commit adds its action to the board.
LEMMA CommitApplies ==
  ASSUME SyncInv, NEW r \in Requests, Commit(r) PROVE Feed!Apply(r)
<1>1. /\ row' = [version |-> row.version + 1, blob |-> row.blob \cup {r}]
      /\ r \notin row.blob
  BY CommitExtends
<1>2. written' = written \cup {row'} /\ UNCHANGED shown
  BY DEF Commit, streamVars
<1>3. {w.blob : w \in written'} = {w.blob : w \in written} \cup {row'.blob}
  BY <1>2
<1> QED
  BY <1>1, <1>2, <1>3 DEF Feed!Apply

\* Sending a committed value that contains what the screen shows moves the screen
\* forward.
LEMMA SendingShows ==
  ASSUME NEW c \in Clients, NEW w \in written, shown[c] \subseteq w.blob,
         shown' = [shown EXCEPT ![c] = w.blob], UNCHANGED <<row, written>>
  PROVE  Feed!Show(c)
  BY DEF Feed!Show

\* A first frame is a step of the feed: the snapshot is not behind the screen.
LEMMA InitialShows ==
  ASSUME SyncInv, NEW c \in Clients, SendInitial(c) PROVE Feed!Show(c)
<1>1. initial[c] \in written /\ shown[c] \subseteq initial[c].blob
  BY DEF SyncInv, ScreenIsWritten, SendInitial
<1>2. shown' = [shown EXCEPT ![c] = initial[c].blob] /\ UNCHANGED <<row, written>>
  BY DEF SendInitial, actionVars
<1> QED
  BY <1>1, <1>2, SendingShows

\* So is a delivery that changes a screen; one that changes nothing is a stutter.
LEMMA DeliverShows ==
  ASSUME SyncInv, NEW c \in Clients, Deliver(c), UNCHANGED shown => FALSE
  PROVE  Feed!Show(c)
<1> DEFINE payload == Head(queue[c])
<1>1. /\ Fresh(c, payload)
      /\ stream[c] = "streaming"
      /\ queue[c] # <<>>
      /\ shown' = [shown EXCEPT ![c] = payload.blob]
      /\ UNCHANGED <<row, written>>
  BY DEF Deliver, actionVars
<1>2. payload \in written /\ payload \in Rows
  BY <1>1, HeadIsWritten
<1>3. PICK w \in written : w.version = sent[c] /\ w.blob = shown[c]
  BY <1>1 DEF SyncInv, ScreenIsWritten
<1>4. w.version <= payload.version
  BY <1>1, <1>2, <1>3 DEF Fresh, SyncInv, RowType, Rows
<1>5. w.blob \subseteq payload.blob
  BY <1>2, <1>4 DEF SyncInv, Chain
<1> QED
  BY <1>1, <1>2, <1>3, <1>5, SendingShows

\* Every step of the handlers is a step of the feed or a stutter.
LEMMA FeedNext == SyncInv /\ [Next]_vars => [Feed!Next]_(Feed!vars)
<1> SUFFICES ASSUME SyncInv, [Next]_vars PROVE Feed!Next \/ UNCHANGED Feed!vars
  OBVIOUS
<1> USE DEF Feed!vars
<1>1. ASSUME NEW r \in Requests, Commit(r) PROVE Feed!Next
  BY <1>1, CommitApplies DEF Feed!Next
<1>2. ASSUME NEW c \in Clients, SendInitial(c) PROVE Feed!Next
  BY <1>2, InitialShows DEF Feed!Next
<1>3. ASSUME NEW c \in Clients, Deliver(c)
      PROVE  Feed!Next \/ UNCHANGED Feed!vars
  <2>1. UNCHANGED <<row, written>>
    BY <1>3 DEF Deliver, actionVars
  <2> QED
    BY <1>3, <2>1, DeliverShows DEF Feed!Next
<1>4. ASSUME NEW r \in Requests, Enter(r) \/ RequestStep(r), ~Commit(r)
      PROVE  UNCHANGED <<row, written, shown>>
  BY <1>4 DEF RequestStep, Enter, Lock, Reject, Close, Record, Publish, Put, streamVars,
              actionVars
<1>5. ASSUME NEW c \in Clients, StreamStep(c) \/ Drop(c), ~SendInitial(c),
             ~Deliver(c)
      PROVE  UNCHANGED <<row, written, shown>>
  BY <1>5 DEF StreamStep, Open, Subscribe, Load, LoseRow, Drop, Hangup, actionVars
<1>6. EndRead \/ EndCommit \/ Restart \/ UNCHANGED vars
        => UNCHANGED <<row, written, shown>>
  BY DEF EndRead, EndCommit, Restart, Hangup, vars, actionVars, streamVars
<1>7. UNCHANGED <<row, written, shown>> => UNCHANGED Feed!vars
  OBVIOUS
<1>8. CASE \E r \in Requests : Enter(r) \/ RequestStep(r)
  BY <1>8, <1>1, <1>4, <1>7
<1>9. CASE \E c \in Clients : StreamStep(c) \/ Drop(c)
  BY <1>9, <1>2, <1>3, <1>5, <1>7
<1> HIDE DEF Feed!vars
<1> QED
  BY <1>6, <1>7, <1>8, <1>9 DEF Next

\* The requests and the streams implement the feed, for any number of them: every
\* commit adds its action to the board and no screen ever goes back.
THEOREM ImplementsFeed == Spec => FeedSpec
  BY SyncInvariant, FeedInit, FeedNext, PTL DEF Spec, FeedSpec, Feed!Spec

----------------------------------------------------------------------------
(* The rest of the state *)

\* The fan-out of a published request has only subscribed queues to reach, and
\* nothing is left on the queue of a stream that has gone.
QueuesAreSubscribed ==
  /\ audience \in [Requests -> SUBSET Clients]
  /\ \A r \in Requests : audience[r] # {} => phase[r] = "published"
  /\ \A r \in Requests : \A c \in audience[r] : Subscribed(c)
  /\ \A c \in Clients : ~Subscribed(c) => queue[c] = <<>>

\* The parts of the state that no other invariant depends on.
EndType ==
  /\ alive \in BOOLEAN
  /\ highest \in Nat
  /\ flagged \subseteq Requests
  /\ ending \in {"no", "read", "done"}
  /\ bookend \subseteq Requests
  /\ failures \in Nat

\* Together with the invariant they give the type invariant.
LEMMA TypeIs == SyncInv /\ QueuesAreSubscribed /\ EndType => TypeOK
<1> SUFFICES ASSUME SyncInv, QueuesAreSubscribed, EndType PROVE TypeOK
  OBVIOUS
<1>1. row \in Rows /\ written \subseteq Rows /\ phase \in [Requests -> Phases]
  BY DEF SyncInv, RowType, PhaseType
<1>2. events \subseteq Requests
  BY <1>1 DEF SyncInv, NoLostUpdate, Rows
<1>3. held \in [Requests -> Rows]
  BY <1>1 DEF SyncInv, HeldIsWritten
<1>4. shown \in [Clients -> SUBSET Requests]
  <2>1. \A w \in written : w.blob \in SUBSET Requests
    BY <1>1 DEF Rows
  <2> QED
    BY <2>1 DEF SyncInv, ScreenIsWritten
<1> QED
  BY <1>1, <1>2, <1>3, <1>4
  DEF SyncInv, QueueIsWritten, ScreenIsWritten, QueuesAreSubscribed, EndType, TypeOK

\* A connection that goes takes its queue along, and no fan-out reaches it any more
\* (the finally of event_gen).
LEMMA HangupUnsubscribes ==
  ASSUME SyncInv, QueuesAreSubscribed, NEW cs \in SUBSET Clients, Hangup(cs),
         NEW p \in [Requests -> Phases], phase' = p,
         \A r \in Requests : phase[r] = "published" =>
                               p[r] = "published" \/ cs = Clients
  PROVE  QueuesAreSubscribed'
<1>1. /\ stream \in [Clients -> {"off", "admitted", "subscribed", "loaded",
                              "streaming", "closed"}]
      /\ queue \in [Clients -> Seq(Rows)]
  BY DEF SyncInv, QueueIsWritten, ScreenIsWritten
<1>2. /\ audience' \in [Requests -> SUBSET Clients]
      /\ \A r \in Requests : audience'[r] = audience[r] \ cs
  BY DEF Hangup, QueuesAreSubscribed
<1>3. \A c \in Clients \ cs : (Subscribed(c)' <=> Subscribed(c)) /\ queue'[c] = queue[c]
  BY <1>1 DEF Hangup, Subscribed
<1>4. \A c \in cs : queue'[c] = <<>>
  BY <1>1 DEF Hangup
<1>5. ASSUME NEW r \in Requests, audience'[r] # {}
      PROVE  phase'[r] = "published"
  <2>1. audience[r] # {} /\ audience[r] \in SUBSET Clients /\ cs # Clients
    BY <1>2, <1>5 DEF QueuesAreSubscribed
  <2> QED
    BY <2>1 DEF QueuesAreSubscribed
<1> QED
  BY <1>2, <1>3, <1>4, <1>5 DEF QueuesAreSubscribed

\* Every step.
LEMMA TypeNext ==
  ASSUME SyncInv, QueuesAreSubscribed, EndType, [Next]_vars
  PROVE  QueuesAreSubscribed' /\ EndType'
<1>1. /\ row \in Rows /\ row.blob \subseteq Requests
      /\ phase \in [Requests -> Phases] /\ held \in [Requests -> Rows]
      /\ stream \in [Clients -> {"off", "admitted", "subscribed", "loaded",
                              "streaming", "closed"}]
      /\ queue \in [Clients -> Seq(Rows)]
  BY DEF SyncInv, RowType, PhaseType, HeldIsWritten, QueueIsWritten, ScreenIsWritten, Rows
<1>2. /\ audience \in [Requests -> SUBSET Clients]
      /\ \A r \in Requests : audience[r] # {} => phase[r] = "published"
      /\ \A r \in Requests : \A c \in audience[r] : Subscribed(c)
      /\ \A c \in Clients : ~Subscribed(c) => queue[c] = <<>>
  BY DEF QueuesAreSubscribed
<1>3. ASSUME NEW r \in Requests,
             Enter(r) \/ Lock(r) \/ Reject(r) \/ Close(r) \/ Commit(r)
               \/ Record(r)
      PROVE  QueuesAreSubscribed' /\ EndType'
  <2>1. UNCHANGED <<audience, stream, queue, endVars, failures>>
    BY <1>3 DEF Enter, Lock, Reject, Close, Commit, Record, streamVars
  <2>2. \E p \in Phases : phase' = [phase EXCEPT ![r] = p]
    BY <1>3 DEF Enter, Lock, Reject, Close, Commit, Record, Phases
  <2>3. phase[r] # "published"
    BY <1>3 DEF Enter, Lock, Reject, Close, Commit, Record
  <2>4. \A c : Subscribed(c)' <=> Subscribed(c)
    BY <2>1 DEF Subscribed
  <2>5. QueuesAreSubscribed'
    BY <1>1, <1>2, <2>1, <2>2, <2>3, <2>4 DEF QueuesAreSubscribed
  <2>6. highest' \in Nat /\ flagged' \subseteq Requests
    <3>1. highest \in Nat /\ flagged \subseteq Requests /\ held[r].version \in Nat
      BY <1>1 DEF EndType, Rows
    <3> QED
      BY <1>3, <3>1 DEF Enter, Lock, Reject, Close, Commit, Record, alarmVars
  <2> QED
    BY <2>1, <2>5, <2>6 DEF EndType, endVars
<1>4. ASSUME NEW r \in Requests, Publish(r)
      PROVE  QueuesAreSubscribed' /\ EndType'
  <2>1. UNCHANGED <<stream, queue, alarmVars, endVars, failures>>
    BY <1>4 DEF Publish, streamVars
  <2>2. \A c : Subscribed(c)' <=> Subscribed(c)
    BY <2>1 DEF Subscribed
  <2>3. QueuesAreSubscribed'
    BY <1>1, <1>2, <1>4, <2>1, <2>2 DEF Publish, QueuesAreSubscribed, Phases
  <2> QED
    BY <2>1, <2>3 DEF EndType, endVars, alarmVars
<1>5. ASSUME NEW r \in Requests, NEW c \in Clients, Put(r, c)
      PROVE  QueuesAreSubscribed' /\ EndType'
  <2>1. UNCHANGED <<stream, phase, alarmVars, endVars, failures>> /\ Subscribed(c)
    BY <1>2, <1>5 DEF Put, actionVars
  <2>2. \A d : Subscribed(d)' <=> Subscribed(d)
    BY <2>1 DEF Subscribed
  <2>3. \A d \in Clients \ {c} : queue'[d] = queue[d]
    BY <1>1, <1>5 DEF Put
  <2>4. /\ audience' \in [Requests -> SUBSET Clients]
        /\ \A q \in Requests : audience'[q] \subseteq audience[q]
    BY <1>2, <1>5 DEF Put
  <2>5. QueuesAreSubscribed'
    BY <1>2, <2>1, <2>2, <2>3, <2>4 DEF QueuesAreSubscribed
  <2> QED
    BY <2>1, <2>5 DEF EndType, endVars, alarmVars
<1>6. ASSUME NEW c \in Clients,
             Open(c) \/ Subscribe(c) \/ Load(c) \/ SendInitial(c)
      PROVE  QueuesAreSubscribed' /\ EndType'
  <2>1. UNCHANGED <<phase, audience, queue, alarmVars, endVars, failures>>
    BY <1>6 DEF Open, Subscribe, Load, SendInitial, actionVars
  <2>2. /\ \A d \in Clients : Subscribed(d) => Subscribed(d)'
        /\ \A d \in Clients : ~Subscribed(d)' => ~Subscribed(d)
    BY <1>1, <1>6 DEF Open, Subscribe, Load, SendInitial, Subscribed
  <2>3. QueuesAreSubscribed'
    BY <1>2, <2>1, <2>2 DEF QueuesAreSubscribed
  <2> QED
    BY <2>1, <2>3 DEF EndType, endVars, alarmVars
<1>7. ASSUME NEW c \in Clients, Deliver(c)
      PROVE  QueuesAreSubscribed' /\ EndType'
  <2>1. UNCHANGED <<phase, audience, stream, alarmVars, endVars, failures>> /\ Subscribed(c)
    BY <1>7 DEF Deliver, actionVars, Subscribed
  <2>2. \A d : Subscribed(d)' <=> Subscribed(d)
    BY <2>1 DEF Subscribed
  <2>3. \A d \in Clients \ {c} : queue'[d] = queue[d]
    BY <1>1, <1>7 DEF Deliver
  <2>4. QueuesAreSubscribed'
    BY <1>2, <2>1, <2>2, <2>3 DEF QueuesAreSubscribed
  <2> QED
    BY <2>1, <2>4 DEF EndType, endVars, alarmVars
<1>8. ASSUME NEW c \in Clients, LoseRow(c) \/ Drop(c)
      PROVE  QueuesAreSubscribed' /\ EndType'
  <2>1. Hangup({c}) /\ phase' = phase /\ UNCHANGED <<alarmVars, endVars>>
    BY <1>8 DEF LoseRow, Drop, actionVars
  <2>2. QueuesAreSubscribed'
    BY <1>1, <2>1, HangupUnsubscribes
  <2>3. failures' \in Nat
    BY <1>8 DEF LoseRow, Drop, EndType
  <2> QED
    BY <2>1, <2>2, <2>3 DEF EndType, endVars, alarmVars
<1>9. CASE EndRead \/ EndCommit
  <2>1. UNCHANGED <<phase, audience, stream, queue, alarmVars, failures>>
    BY <1>9 DEF EndRead, EndCommit, actionVars, streamVars
  <2>2. \A d : Subscribed(d)' <=> Subscribed(d)
    BY <2>1 DEF Subscribed
  <2>3. QueuesAreSubscribed'
    BY <1>2, <2>1, <2>2 DEF QueuesAreSubscribed
  <2>4. alive' \in BOOLEAN /\ ending' \in {"no", "read", "done"} /\ bookend' \subseteq Requests
    BY <1>1, <1>9 DEF EndRead, EndCommit, EndType
  <2> QED
    BY <2>1, <2>3, <2>4 DEF EndType, alarmVars
<1>10. CASE Restart
  <2>1. /\ Hangup(Clients)
        /\ phase' = [r \in Requests |->
                       IF phase[r] \in {"new", "refused"} THEN phase[r] ELSE "stopped"]
    BY <1>10 DEF Restart
  <2>2. phase' \in [Requests -> Phases]
    BY <1>1, <2>1 DEF Phases
  <2>3. QueuesAreSubscribed'
    BY <2>1, <2>2, HangupUnsubscribes
  <2>4. EndType'
    BY <1>10 DEF Restart, EndType
  <2> QED
    BY <2>3, <2>4
<1>11. CASE UNCHANGED vars
  <2>1. UNCHANGED <<phase, audience, stream, queue, alarmVars, endVars, failures>>
    BY <1>11 DEF vars, actionVars, streamVars
  <2>2. \A d : Subscribed(d)' <=> Subscribed(d)
    BY <2>1 DEF Subscribed
  <2>3. QueuesAreSubscribed'
    BY <1>2, <2>1, <2>2 DEF QueuesAreSubscribed
  <2> QED
    BY <2>1, <2>3 DEF EndType, alarmVars, endVars
<1> QED
  BY <1>3, <1>4, <1>5, <1>6, <1>7, <1>8, <1>9, <1>10, <1>11
  DEF Next, RequestStep, StreamStep

\* Every part of the state keeps its type; no queue outlives its stream, and a
\* fan-out only reaches queues that are read, however connections break and the
\* process restarts (subscribe, unsubscribe, publish).
THEOREM SyncTypeOK == Spec => []TypeOK
<1>1. Init => QueuesAreSubscribed /\ EndType
  BY DEF Init, QueuesAreSubscribed, EndType
<1>2. /\ SyncInv /\ QueuesAreSubscribed /\ EndType /\ [Next]_vars
      => QueuesAreSubscribed' /\ EndType'
  BY TypeNext
<1>3. SyncInv /\ QueuesAreSubscribed /\ EndType => TypeOK
  BY TypeIs
<1> QED
  BY <1>1, <1>2, <1>3, SyncInvariant, PTL DEF Spec

=============================================================================
