------------------------------ MODULE LiveFeed ------------------------------
(***************************************************************************)
(* What companion mode promises the screens around one live game: actions  *)
(* accumulate on one scoreboard, none is ever taken back by another, and a *)
(* screen only ever moves forward through states the scoreboard really     *)
(* had.  LiveSync is shown to implement it.                                *)
(***************************************************************************)

CONSTANTS Requests,   \* the actions players may send
          Clients     \* the screens that follow the game

VARIABLES
  board,   \* the actions the scoreboard reflects
  past,    \* every state the scoreboard has had, this one included
  shown    \* what each screen shows

vars == <<board, past, shown>>

Init ==
  /\ board = {}
  /\ past = {{}}
  /\ shown = [c \in Clients |-> {}]

Apply(r) ==
  /\ r \notin board
  /\ board' = board \cup {r}
  /\ past' = past \cup {board'}
  /\ UNCHANGED shown

Show(c) ==
  /\ \E state \in past :
        /\ shown[c] \subseteq state
        /\ shown' = [shown EXCEPT ![c] = state]
  /\ UNCHANGED <<board, past>>

Next ==
  \/ \E r \in Requests : Apply(r)
  \/ \E c \in Clients : Show(c)

Spec == Init /\ [][Next]_vars

=============================================================================
