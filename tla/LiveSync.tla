------------------------------ MODULE LiveSync ------------------------------
(***************************************************************************)
(* Concurrent live actions and the screens that follow them.               *)
(*                                                                         *)
(* Each POST /games/{id}/live/action runs apply_live_action on a thread of *)
(* the pool: an unlocked look at the game, the row lock with a re-read of  *)
(* the blob, the mutation and its commit, the overlap instrumentation, and *)
(* the fan-out to the in-process queues.  Each screen holds a GET          *)
(* /games/{id}/live/stream, which the browser reopens when it breaks.      *)
(* end_game may read and delete the live row in the middle of it all, and  *)
(* the process may be restarted.                                           *)
(*                                                                         *)
(* Streams are coroutines of the event loop, and a session is closed by    *)
(* the loop too.  game_end is async and does not await between its first   *)
(* query and its commit: until then the loop does nothing else, while the  *)
(* threads go on.                                                          *)
(*                                                                         *)
(* The content of the blob is abstracted to the set of actions it          *)
(* reflects (LiveBoard models what an action does to it).                  *)
(***************************************************************************)
EXTENDS Integers, Sequences

CONSTANTS
  Requests,     \* action requests, each sent once
  Clients,      \* screens: an EventSource each
  MaxFailures   \* bound: dropped connections and restarts explored

ASSUME SyncAssumption == MaxFailures \in Nat

VARIABLES
  row,        \* the GameLiveState row: version and blob
  alive,      \* the row exists (end_game deletes it)
  events,     \* actions with a row in game_events
  phase,      \* phase[r]: how far request r has got
  held,       \* held[r]: the row as request r's session holds it
  audience,   \* audience[r]: the queues the fan-out of r has still to reach
  highest,    \* _last_written_version[game] (0: no entry)
  flagged,    \* requests logged and persisted as a LOST UPDATE
  stream,     \* stream[c]: how far the stream of c has got
  queue,      \* queue[c]: the asyncio.Queue subscribed for c
  initial,    \* initial[c]: the snapshot read for the first frame of c
  sent,       \* sent[c]: `version' in event_gen, the last one sent
  shown,      \* shown[c]: the blob the screen renders
  ending,     \* end_game: "no", "read" (live row loaded) or "done"
  bookend,    \* the blob end_game read, then the finalized payload
  failures,   \* dropped connections and restarts so far
  written     \* history: every value the row has had

actionVars == <<row, events, phase, held, written>>
alarmVars == <<highest, flagged>>
streamVars == <<stream, queue, initial, sent, shown>>
endVars == <<alive, ending, bookend>>
vars == <<actionVars, audience, alarmVars, streamVars, endVars, failures>>

Start == [version |-> 1, blob |-> {}]   \* start_live_game has committed

Init ==
  /\ row = Start
  /\ alive = TRUE
  /\ events = {}
  /\ phase = [r \in Requests |-> "new"]
  /\ held = [r \in Requests |-> Start]
  /\ audience = [r \in Requests |-> {}]
  /\ highest = 0
  /\ flagged = {}
  /\ stream = [c \in Clients |-> "off"]
  /\ queue = [c \in Clients |-> <<>>]
  /\ initial = [c \in Clients |-> Start]
  /\ sent = [c \in Clients |-> 0]
  /\ shown = [c \in Clients |-> {}]
  /\ ending = "no"
  /\ bookend = {}
  /\ failures = 0
  /\ written = {Start}

\* FOR UPDATE on the live row: held from the locking read to the commit, or
\* until the session of a refused request is closed.
Unlocked == \A r \in Requests : phase[r] \notin {"locked", "rejected"}

\* game_end occupies the event loop until its commit.
LoopFree == ending # "read"

----------------------------------------------------------------------------
(* apply_live_action *)

\* get_viewable_game and game.live_state: the row enters the identity map.
Enter(r) ==
  /\ phase[r] = "new"
  /\ phase' = [phase EXCEPT ![r] = IF alive THEN "entered" ELSE "refused"]
  /\ held' = [held EXCEPT ![r] = row]
  /\ UNCHANGED <<row, events, written, audience, alarmVars, streamVars,
                 endVars, failures>>

\* Variant: without populate_existing() the identity map keeps the stale row.
StaleInstance(r) == held[r]

Reread(r) == row

Lock(r) ==
  /\ phase[r] = "entered"
  /\ Unlocked
  /\ IF alive
     THEN /\ phase' = [phase EXCEPT ![r] = "locked"]
          /\ held' = [held EXCEPT ![r] = Reread(r)]
     ELSE /\ phase' = [phase EXCEPT ![r] = "refused"]
          /\ held' = held
  /\ UNCHANGED <<row, events, written, audience, alarmVars, streamVars,
                 endVars, failures>>

\* An unknown seat is refused before the lock, an action that is not allowed or
\* does not apply under it: nothing rolls that transaction back ...
Reject(r) ==
  /\ \/ /\ phase[r] = "entered"
        /\ phase' = [phase EXCEPT ![r] = "refused"]
     \/ /\ phase[r] = "locked"
        /\ phase' = [phase EXCEPT ![r] = "rejected"]
  /\ UNCHANGED <<row, held, events, written, audience, alarmVars, streamVars,
                 endVars, failures>>

\* ... before get_db_session closes the session, a callback of the loop.
Close(r) ==
  /\ phase[r] = "rejected"
  /\ LoopFree
  /\ phase' = [phase EXCEPT ![r] = "refused"]
  /\ UNCHANGED <<row, held, events, written, audience, alarmVars, streamVars,
                 endVars, failures>>

Commit(r) ==
  LET next == [version |-> held[r].version + 1, blob |-> held[r].blob \cup {r}]
  IN /\ phase[r] = "locked"
     /\ row' = next
     /\ held' = [held EXCEPT ![r] = next]
     /\ written' = written \cup {next}
     /\ events' = events \cup {r}
     /\ phase' = [phase EXCEPT ![r] = "committed"]
     /\ UNCHANGED <<audience, alarmVars, streamVars, endVars, failures>>

\* _record_live_action
Record(r) ==
  LET v == held[r].version
  IN /\ phase[r] = "committed"
     /\ flagged' = IF highest >= v THEN flagged \cup {r} ELSE flagged
     /\ highest' = IF highest > v THEN highest ELSE v
     /\ phase' = [phase EXCEPT ![r] = "recorded"]
     /\ UNCHANGED <<row, held, events, written, audience, streamVars, endVars,
                    failures>>

Subscribed(c) == stream[c] \in {"subscribed", "loaded", "streaming"}

\* publish: list(subs) is taken once ...
Publish(r) ==
  /\ phase[r] = "recorded"
  /\ audience' = [audience EXCEPT ![r] = {c \in Clients : Subscribed(c)}]
  /\ phase' = [phase EXCEPT ![r] = "published"]
  /\ UNCHANGED <<row, held, events, written, alarmVars, streamVars, endVars,
                 failures>>

\* ... and the payload of this commit is put on one queue after another (the
\* callback scheduled for it counts as queued).
Put(r, c) ==
  /\ c \in audience[r]
  /\ audience' = [audience EXCEPT ![r] = @ \ {c}]
  /\ queue' = [queue EXCEPT ![c] = Append(@, held[r])]
  /\ UNCHANGED <<actionVars, alarmVars, stream, initial, sent, shown, endVars,
                 failures>>

----------------------------------------------------------------------------
(* live_stream *)

\* The first snapshot authorizes.  Without a live row it is a 404, which an
\* EventSource does not retry.
Open(c) ==
  /\ stream[c] = "off"
  /\ LoopFree
  /\ stream' = [stream EXCEPT ![c] = IF alive THEN "admitted" ELSE "closed"]
  /\ UNCHANGED <<actionVars, audience, alarmVars, queue, initial, sent, shown,
                 endVars, failures>>

Subscribe(c) ==
  /\ stream[c] = "admitted"
  /\ LoopFree
  /\ stream' = [stream EXCEPT ![c] = "subscribed"]
  /\ UNCHANGED <<actionVars, audience, alarmVars, queue, initial, sent, shown,
                 endVars, failures>>

\* Variant: the queue of a connection that is gone stays subscribed.
LeaksQueue(cs) ==
  /\ stream' = [c \in Clients |-> IF c \in cs /\ stream[c] # "closed"
                                  THEN "off" ELSE stream[c]]
  /\ UNCHANGED <<queue, audience, initial, sent, shown>>

\* The connection is gone: its queue is dropped from the subscribers.
Hangup(cs) ==
  /\ stream' = [c \in Clients |-> IF c \in cs /\ stream[c] # "closed"
                                  THEN "off" ELSE stream[c]]
  /\ queue' = [c \in Clients |-> IF c \in cs THEN <<>> ELSE queue[c]]
  /\ audience' = [r \in Requests |-> audience[r] \ cs]
  /\ UNCHANGED <<initial, sent, shown>>

\* The second snapshot is read by a thread after subscribing ...
Load(c) ==
  /\ stream[c] = "subscribed"
  /\ alive
  /\ stream' = [stream EXCEPT ![c] = "loaded"]
  /\ initial' = [initial EXCEPT ![c] = row]
  /\ UNCHANGED <<actionVars, audience, alarmVars, queue, sent, shown, endVars,
                 failures>>

\* ... and sent by the loop, whatever has been committed or queued meanwhile.
SendInitial(c) ==
  /\ stream[c] = "loaded"
  /\ LoopFree
  /\ stream' = [stream EXCEPT ![c] = "streaming"]
  /\ sent' = [sent EXCEPT ![c] = initial[c].version]
  /\ shown' = [shown EXCEPT ![c] = initial[c].blob]
  /\ UNCHANGED <<actionVars, audience, alarmVars, queue, initial, endVars,
                 failures>>

\* The row was deleted between the two snapshots: the generator raises.
LoseRow(c) ==
  /\ stream[c] = "subscribed"
  /\ ~alive
  /\ LoopFree
  /\ Hangup({c})
  /\ UNCHANGED <<actionVars, alarmVars, endVars, failures>>

\* Variant: every published payload is forwarded.
Forwarded(c, payload) == TRUE

\* Variant: a stream waits for the version after the one it sent.
Consecutive(c, payload) == payload.version = sent[c] + 1

Fresh(c, payload) == payload.version > sent[c]

Deliver(c) ==
  /\ stream[c] = "streaming"
  /\ queue[c] # <<>>
  /\ LoopFree
  /\ queue' = [queue EXCEPT ![c] = Tail(@)]
  /\ IF Fresh(c, Head(queue[c]))
     THEN /\ sent' = [sent EXCEPT ![c] = Head(queue[c]).version]
          /\ shown' = [shown EXCEPT ![c] = Head(queue[c]).blob]
     ELSE UNCHANGED <<sent, shown>>
  /\ UNCHANGED <<actionVars, audience, alarmVars, stream, initial, endVars,
                 failures>>

----------------------------------------------------------------------------
(* end_game, as far as the live row goes *)

EndRead ==
  /\ ending = "no"
  /\ alive
  /\ ending' = "read"
  /\ bookend' = row.blob
  /\ UNCHANGED <<actionVars, audience, alarmVars, streamVars, alive, failures>>

\* The DELETE waits for the row lock, on the loop; the payload is the one read
\* before.
EndCommit ==
  /\ ending = "read"
  /\ Unlocked
  /\ ending' = "done"
  /\ alive' = FALSE
  /\ UNCHANGED <<actionVars, audience, alarmVars, streamVars, bookend, failures>>

----------------------------------------------------------------------------
(* Failures *)

\* The network, a closed laptop, a session revoked: one stream ends.
Drop(c) ==
  /\ failures < MaxFailures
  /\ failures' = failures + 1
  /\ stream[c] \in {"admitted", "subscribed", "loaded", "streaming"}
  /\ LoopFree
  /\ Hangup({c})
  /\ UNCHANGED <<actionVars, alarmVars, endVars>>

\* A redeploy: threads, queues and the instrumentation's memory are gone, open
\* transactions roll back.
Restart ==
  /\ failures < MaxFailures
  /\ failures' = failures + 1
  /\ phase' = [r \in Requests |->
                 IF phase[r] \in {"new", "refused"} THEN phase[r] ELSE "stopped"]
  /\ highest' = 0
  /\ Hangup(Clients)
  /\ ending' = IF ending = "read" THEN "no" ELSE ending
  /\ UNCHANGED <<row, held, events, written, flagged, alive, bookend>>

----------------------------------------------------------------------------

RequestStep(r) ==
  \/ Lock(r) \/ Reject(r) \/ Close(r) \/ Commit(r) \/ Record(r) \/ Publish(r)
  \/ \E c \in Clients : Put(r, c)

StreamStep(c) ==
  \/ Open(c) \/ Subscribe(c) \/ Load(c) \/ SendInitial(c) \/ LoseRow(c)
  \/ Deliver(c)

Next ==
  \/ \E r \in Requests : Enter(r) \/ RequestStep(r)
  \/ \E c \in Clients : StreamStep(c) \/ Drop(c)
  \/ EndRead
  \/ EndCommit
  \/ Restart

\* A request in a thread runs to its end, a stream keeps serving and an end_game
\* that has read goes on, each as far as the row lock and the event loop let it.
\* The browser reopens a broken EventSource.  Nobody has to act or to end the game.
Fairness ==
  /\ \A r \in Requests : WF_vars(RequestStep(r))
  /\ \A c \in Clients : WF_vars(StreamStep(c))
  /\ WF_vars(EndCommit)

Spec == Init /\ [][Next]_vars /\ Fairness

----------------------------------------------------------------------------
(* Properties *)

Rows == [version : Nat \ {0}, blob : SUBSET Requests]

Phases == {"new", "entered", "locked", "committed", "recorded", "published",
           "rejected", "refused", "stopped"}

\* The shape of the row, the requests and the streams; a queue belongs to a
\* subscribed stream and a fan-out to a published request.
TypeOK ==
  /\ row \in Rows
  /\ written \subseteq Rows
  /\ alive \in BOOLEAN
  /\ events \subseteq Requests
  /\ phase \in [Requests -> Phases]
  /\ held \in [Requests -> Rows]
  /\ audience \in [Requests -> SUBSET Clients]
  /\ highest \in Nat
  /\ flagged \subseteq Requests
  /\ stream \in [Clients -> {"off", "admitted", "subscribed", "loaded",
                             "streaming", "closed"}]
  /\ queue \in [Clients -> Seq(Rows)]
  /\ initial \in [Clients -> Rows]
  /\ sent \in [Clients -> Nat]
  /\ shown \in [Clients -> SUBSET Requests]
  /\ ending \in {"no", "read", "done"}
  /\ bookend \subseteq Requests
  /\ failures \in Nat
  /\ \A c \in Clients : ~Subscribed(c) => queue[c] = <<>>
  /\ \A r \in Requests : audience[r] # {} => phase[r] = "published"

\* No event without its mutation and no mutation lost: the blob reflects exactly
\* the actions that have a row in game_events, however the requests overlapped.
NoLostUpdate == row.blob = events

\* The abstract feed, its board being the blob and its past the committed blobs.
Feed == INSTANCE LiveFeed WITH board <- row.blob,
                               past <- {w.blob : w \in written}

\* However commits, publications, reconnections and restarts interleave, the
\* requests and streams implement the feed: every commit adds its action to the
\* board, and a screen only moves forward along states the board has had.
FeedSpec == Feed!Spec

\* end_game waits, on the event loop, for the row lock of a refused action whose
\* session only the loop can close: only a restart ends that.
Stalled == ~LoopFree /\ \E r \in Requests : phase[r] = "rejected"

\* Every screen ends up showing the last committed state, unless the game was
\* finalized and its stream refused, or the server stalled: an update committed
\* while a stream starts, breaks or overtakes another is never the one a screen
\* misses.
ScreensCatchUp ==
  \A c \in Clients : <>[](shown[c] = row.blob \/ stream[c] = "closed" \/ Stalled)

\* What routes/live_games.py:88 says of the thread the action runs in (`so it
\* never stalls open SSE streams').  It is in no run: a refused action and an
\* end_game at the same time refute it.
NeverStalled == [](~Stalled)

=============================================================================
