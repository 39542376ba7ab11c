----------------------------- MODULE Playgroup -----------------------------
(***************************************************************************)
(* Playgroups: who is a member and who owns them, what members share with  *)
(* them, and the games and evenings linked to them                         *)
(* (app/playgroup_service.py, create_share in app/share_service.py,        *)
(* share_wishlist_to_playgroup in app/watchlist_service.py,                *)
(* app/session_service.py, set_game_playgroup in app/game_service.py, and  *)
(* the part of delete_user in app/routes/admin.py about them).             *)
(*                                                                         *)
(* Nothing here locks a row before it decides, so a request that changes   *)
(* who is a member or what is shared takes two steps, its reads and its    *)
(* commit, and others commit in between (one step when a late commit is    *)
(* not told from one of an earlier request: a join, whose check is that of *)
(* the unique index, and a deletion).  A request by which someone departs  *)
(* takes a third: its DELETE of shares finds those there when it runs, and *)
(* keeps their rows locked until the commit.  The database is PostgreSQL:  *)
(* its foreign keys are enforced.  Join codes are left out: the owner may  *)
(* switch them on and off at any time.  Names, notes, ratings and trades   *)
(* are left out (Trade has what happens to trades); one game is followed,  *)
(* and of each user one thing to share: a Showcase, or the wishlist.       *)
(***************************************************************************)
EXTENDS Integers, SequencesExt

CONSTANTS
  Users,        \* the people with an account
  Groups,       \* the identifiers of playgroups
  Host,         \* the owner of the game
  Slots,        \* bound: requests open at a time
  MaxSessions,  \* bound: sessions that exist at a time
  NoGroup,      \* the game is not linked
  NoSession,    \* no session with this identifier
  Idle          \* no request

ASSUME PlaygroupAssumption ==
  /\ Host \in Users
  /\ MaxSessions \in Nat
  /\ NoGroup \notin Groups
  /\ NoSession \notin [group : Groups, open : BOOLEAN]

VARIABLES
  accounts,   \* the users whose account exists
  playgroups, \* those that exist
  members,    \* the rows of each playgroup, in the order of joined_at
  creator,    \* created_by of each playgroup; Host when there is none
  shares,     \* who shares with the playgroup (a Share or WishlistShare row)
  sessions,   \* the play sessions, by identifier
  game,       \* the playgroup and the session of the game
  request,    \* the requests that have read and not committed
  raced       \* history: what has been decided on rows that changed meanwhile

groupVars == <<accounts, playgroups, members, creator, shares>>
gameVars == <<sessions, game>>
vars == <<groupVars, gameVars, request, raced>>

Member == [user : Users, role : {"owner", "member"}]
SessionIds == 1 .. MaxSessions

\* What a request has read and relies on (basis), the rows it will change, as long
\* as they are there (held), whether its DELETE of shares has run (cleared; at once
\* when it has none), and the shares that one found (drops).
Request == [op : {"leave", "remove", "transfer", "share", "account"},
            user : Users, group : Groups \cup {NoGroup}, target : Users,
            basis : SUBSET (Groups \X Member), held : SUBSET (Groups \X Users),
            cleared : BOOLEAN, drops : SUBSET (Groups \X Users)]

Init ==
  /\ accounts = Users
  /\ playgroups = {}
  /\ members = [g \in Groups |-> <<>>]
  /\ creator = [g \in Groups |-> Host]
  /\ shares = [g \in Groups |-> {}]
  /\ sessions = [n \in SessionIds |-> NoSession]
  /\ game = [group |-> NoGroup, session |-> 0]
  /\ request = [s \in Slots |-> Idle]
  /\ raced = {}

Rows(g) == ToSet(members[g])
In(g) == {m.user : m \in Rows(g)}
Owners(g) == {m.user : m \in {m \in Rows(g) : m.role = "owner"}}
Open == {s \in Slots : request[s] # Idle}

\* The row of u is deleted, if there is one.
Without(rows, u) ==
  IF \E k \in DOMAIN rows : rows[k].user = u
  THEN RemoveAt(rows, CHOOSE k \in DOMAIN rows : rows[k].user = u) ELSE rows

Holds(rows, u, role) ==
  [k \in DOMAIN rows |-> IF rows[k].user = u THEN [rows[k] EXCEPT !.role = role] ELSE rows[k]]

\* Variant: the old owner steps down before the new one is looked at.
SteppedDown(rows, from, to) == Holds(rows, from, "member")

\* transfer_ownership and handle_user_deletion: one steps down, the other up.
HandedOver(rows, from, to) == Holds(Holds(rows, from, "member"), to, "owner")

\* Variant: the shares stay.
StillShared(drops) == shares

\* The shares once those in drops are gone: only what a DELETE found goes.
Unshared(drops) == [g \in Groups |-> {u \in shares[g] : <<g, u>> \notin drops}]

\* The shares with g that the requests in slots S have deleted and not committed.
Locked(g, S) == {u \in Users : \E s \in S : <<g, u>> \in request[s].drops}

\* The requests no longer hold the rows that this step deletes.
Released(requests) ==
  [s \in Slots |->
     IF requests[s] = Idle THEN Idle
     ELSE [requests[s] EXCEPT !.held = {h \in @ : \E m \in ToSet(members'[h[1]]) : m.user = h[2]}]]

----------------------------------------------------------------------------
(* Requests with one step *)

\* Variant: the game is not unlinked.
LeftDangling(G) ==
  /\ playgroups' = playgroups \ G
  /\ creator' = [g \in Groups |-> IF g \in G THEN Host ELSE creator[g]]
  /\ sessions' = [n \in SessionIds |->
                    IF sessions[n] # NoSession /\ sessions[n].group \in G
                    THEN NoSession ELSE sessions[n]]
  /\ game' = game

\* The playgroups in G are gone, and with them their sessions and links.
Erased(G) ==
  /\ playgroups' = playgroups \ G
  /\ creator' = [g \in Groups |-> IF g \in G THEN Host ELSE creator[g]]
  /\ sessions' = [n \in SessionIds |->
                    IF sessions[n] # NoSession /\ sessions[n].group \in G
                    THEN NoSession ELSE sessions[n]]
  /\ game' = [group |-> IF game.group \in G THEN NoGroup ELSE game.group,
              session |-> IF game.session # 0 /\ sessions'[game.session] = NoSession
                          THEN 0 ELSE game.session]

\* create_playgroup; an identifier is not used again while a request knows it.
CreatePlaygroup(u, g) ==
  /\ u \in accounts /\ g \notin playgroups
  /\ \A s \in Open : request[s].group # g /\ \A h \in request[s].basis : h[1] # g
  /\ members' = [members EXCEPT ![g] = <<[user |-> u, role |-> "owner"]>>]
  /\ playgroups' = playgroups \cup {g}
  /\ creator' = [creator EXCEPT ![g] = u]
  /\ UNCHANGED <<accounts, shares, gameVars, request, raced>>

\* join_by_code
JoinByCode(u, g) ==
  /\ g \in playgroups /\ u \in accounts \ In(g)
  /\ members' = [members EXCEPT ![g] = Append(@, [user |-> u, role |-> "member"])]
  /\ UNCHANGED <<accounts, playgroups, creator, shares, gameVars, request, raced>>

\* delete_playgroup by an owner
DeletePlaygroup(u, g) ==
  /\ u \in Owners(g) /\ Locked(g, Open) = {}
  /\ members' = [members EXCEPT ![g] = <<>>]
  /\ shares' = [shares EXCEPT ![g] = {}]
  /\ Erased({g})
  /\ request' = Released(request)
  /\ UNCHANGED <<accounts, raced>>

\* revoke_share and unshare_wishlist_from_playgroup
Revoke(u, g) ==
  /\ u \in shares[g] \ Locked(g, Open)
  /\ shares' = [shares EXCEPT ![g] = @ \ {u}]
  /\ UNCHANGED <<accounts, playgroups, members, creator, gameVars, request, raced>>

\* get_open_session
OpenSessions(g) ==
  {n \in SessionIds : sessions[n] # NoSession /\ sessions[n].group = g /\ sessions[n].open}

\* playgroups_end_session by any member: close_session
EndSession(n) ==
  /\ sessions[n] # NoSession /\ sessions[n].open
  /\ sessions' = [sessions EXCEPT ![n].open = FALSE]
  /\ UNCHANGED <<groupVars, game, request, raced>>

\* attach_game_to_session: the session the game has, or the open one of its
\* playgroup, opened if there is none.
Attach(g) ==
  LET unused == {n \in SessionIds : sessions[n] = NoSession} IN
  \/ /\ game.session # 0
     /\ game' = [game EXCEPT !.group = g]
     /\ UNCHANGED sessions
  \/ /\ game.session = 0
     /\ \E n \in OpenSessions(g) : game' = [group |-> g, session |-> n]
     /\ UNCHANGED sessions
  \/ /\ game.session = 0 /\ OpenSessions(g) = {} /\ unused # {}
     /\ LET n == CHOOSE n \in unused : \A m \in unused : n =< m IN
        /\ sessions' = [sessions EXCEPT ![n] = [group |-> g, open |-> TRUE]]
        /\ game' = [group |-> g, session |-> n]

\* set_game_playgroup, by the owner of the game: to a playgroup he is in, or to none.
Link(g) ==
  /\ Host \in accounts \cap In(g)
  /\ Attach(g)
  /\ UNCHANGED <<groupVars, request, raced>>

Unlink ==
  /\ Host \in accounts /\ game.group # NoGroup
  /\ game' = [group |-> NoGroup, session |-> 0]
  /\ UNCHANGED <<groupVars, sessions, request, raced>>

----------------------------------------------------------------------------
(* Reading *)

RowsOf(g, U) == {<<g, m>> : m \in {m \in Rows(g) : m.user \in U}}

\* What a request of u about g and t relies on, as it is now.
Basis(op, g, u, t) ==
  CASE op \in {"remove", "transfer"} -> RowsOf(g, {u, t})
    [] op = "leave" -> RowsOf(g, IF u \in Owners(g) THEN Users ELSE {u})
    [] op = "share" -> {<<g, [user |-> v, role |-> "member"]>> : v \in In(g) \cap {u}}
    [] op = "account" -> UNION {RowsOf(h, Users) : h \in {h \in Groups : u \in Owners(h)}}
    [] OTHER -> RowsOf(g, {})

\* The rows the request will change: for an account its own and those of the
\* longest-standing others of the playgroups it owns.
Held(op, g, u, t) ==
  CASE op = "leave" -> {<<g, u>>}
    [] op = "remove" -> {<<g, t>>}
    [] op = "transfer" -> {<<g, u>>, <<g, t>>}
    [] op = "account" ->
         {<<h, u>> : h \in {h \in Groups : u \in Owners(h)}} \cup
         {<<h, Without(members[h], u)[1].user>> :
            h \in {h \in Groups : u \in Owners(h) /\ Without(members[h], u) # <<>>}}
    [] OTHER -> {}

Read(op, g, u, t) ==
  /\ u \in accounts
  /\ \E s \in Slots \ Open :
       request' = [request EXCEPT ![s] =
         [op |-> op, user |-> u, group |-> g, target |-> t,
          basis |-> Basis(op, g, u, t), held |-> Held(op, g, u, t),
          cleared |-> op \in {"transfer", "share"}, drops |-> {}]]
  /\ UNCHANGED <<groupVars, gameVars, raced>>

\* leave_playgroup: an owner only when nobody else is left.
ReadLeave(u, g) ==
  /\ u \in In(g)
  /\ u \in Owners(g) => In(g) = {u}
  /\ Read("leave", g, u, u)

\* remove_member
ReadRemove(u, g, t) ==
  /\ u \in Owners(g) /\ t \in In(g) \ Owners(g)
  /\ Read("remove", g, u, t)

\* transfer_ownership
ReadTransfer(u, g, t) ==
  /\ u \in Owners(g) /\ t \in In(g) \ {u}
  /\ Read("transfer", g, u, t)

\* create_share and share_wishlist_to_playgroup
ReadShare(u, g) ==
  /\ u \in In(g) \ shares[g]
  /\ Read("share", g, u, u)

\* handle_user_deletion, called by delete_user
ReadAccount(u) == Read("account", NoGroup, u, u)

\* What an account deletion found the account to own, and to own alone.
Owned(r) == {g \in Groups : <<g, [user |-> r.user, role |-> "owner"]>> \in r.basis}
Alone(r) == {g \in Owned(r) : \A h \in r.basis : h[1] = g => h[2].user = r.user}

\* The DELETE of the shares of the one who departs, and for an account of those with
\* the playgroups it owns alone: it waits for the rows that another has deleted.
ClearShares(s) ==
  LET r == request[s]
      there == {h \in Groups \X Users : h[2] \in shares[h[1]]}
      found == {h \in there : IF r.op = "account" THEN h[2] = r.user \/ h[1] \in Alone(r)
                              ELSE h = <<r.group, r.target>>} IN
  /\ ~r.cleared
  /\ \A h \in found : h[2] \notin Locked(h[1], Open)
  /\ request' = [request EXCEPT ![s].cleared = TRUE, ![s].drops = found]
  /\ UNCHANGED <<groupVars, gameVars, raced>>

----------------------------------------------------------------------------
(* Committing *)

\* The request in slot s is answered; late tells what it committed too late.
Answered(s, late) ==
  LET r == request[s] IN
  /\ request' = Released([request EXCEPT ![s] = Idle])
  /\ raced' = late \cup
       IF r.basis = Basis(r.op, r.group, r.user, r.target) THEN raced
       ELSE raced \cup {IF r.op = "share" THEN "shares" ELSE "roles"}

\* The request fails, or finds nothing left to change.
Refused(s) ==
  /\ UNCHANGED <<groupVars, gameVars>>
  /\ Answered(s, {})

\* The row of v goes, if it is still there.
Departed(g, v, held) ==
  /\ members' = IF <<g, v>> \in held
                THEN [members EXCEPT ![g] = Without(members[g], v)] ELSE members
  /\ UNCHANGED accounts

\* A share of the one who departs was written after the DELETE, and outlives it.
Overtaken(r, v) ==
  IF v \in shares[r.group] /\ <<r.group, v>> \notin r.drops
  THEN {"shares"} ELSE {}

\* A playgroup the last member has left is deleted, with every share left by then.
CommitLeave(s) ==
  LET r == request[s] IN
  /\ Departed(r.group, r.user, r.held)
  /\ \/ /\ members'[r.group] # <<>>
        /\ shares' = Unshared(r.drops)
        /\ UNCHANGED <<playgroups, creator, gameVars>>
        /\ Answered(s, Overtaken(r, r.user))
     \/ /\ members'[r.group] = <<>> /\ Locked(r.group, Open \ {s}) = {}
        /\ shares' = [shares EXCEPT ![r.group] = {}]
        /\ Erased({r.group})
        /\ Answered(s, {})

CommitRemove(s) ==
  LET r == request[s] IN
  /\ Departed(r.group, r.target, r.held)
  /\ shares' = Unshared(r.drops)
  /\ UNCHANGED <<playgroups, creator, gameVars>>
  /\ Answered(s, Overtaken(r, r.target))

\* An UPDATE of a row that is gone raises (StaleDataError).
CommitTransfer(s) ==
  LET r == request[s] IN
  \/ /\ Cardinality(r.held) = 2
     /\ members' = [members EXCEPT ![r.group] = HandedOver(@, r.user, r.target)]
     /\ UNCHANGED <<accounts, playgroups, creator, shares, gameVars>>
     /\ Answered(s, {})
  \/ /\ Cardinality(r.held) < 2
     /\ Refused(s)

\* The membership is not looked at again; the unique index waits for a deleted row.
CommitShare(s) ==
  LET r == request[s] IN
  \/ /\ r.group \in playgroups /\ r.user \in accounts \ Locked(r.group, Open)
     /\ shares' = [shares EXCEPT ![r.group] = @ \cup {r.user}]
     /\ UNCHANGED <<accounts, playgroups, members, creator, gameVars>>
     /\ Answered(s, {})
  \/ /\ r.group \notin playgroups \/ r.user \notin accounts
     /\ Refused(s)

\* delete_user.  The playgroups the account owned alone go, the others are handed
\* over; its rows and shares go.  It fails when a row to be changed is gone, and, for
\* the foreign keys, when a playgroup that stays was created by the account or when
\* a share it should have deleted was written after the DELETE.
CommitAccount(s) ==
  LET r == request[s]
      u == r.user
      heirs(g) == {v \in Users \ {u} : <<g, v>> \in r.held}
      after == [g \in Groups |->
                  IF g \in Alone(r) THEN <<>>
                  ELSE IF g \in Owned(r)
                       THEN Without(HandedOver(members[g], u, CHOOSE v \in heirs(g) : TRUE), u)
                       ELSE Without(members[g], u)]
      possible == /\ u \in accounts
                  /\ \A g \in Owned(r) \ Alone(r) : <<g, u>> \in r.held /\ heirs(g) # {}
                  /\ \A g \in playgroups \ Alone(r) : creator[g] # u
                  /\ \A g \in Groups, v \in Users :
                       v \in shares[g] /\ (v = u \/ g \in Alone(r)) => <<g, v>> \in r.drops IN
  \/ /\ possible
     /\ accounts' = accounts \ {u}
     /\ members' = after
     /\ shares' = Unshared(r.drops)
     /\ Erased(Alone(r))
     /\ Answered(s, {})
  \/ /\ ~possible
     /\ Refused(s)

Commit(s) ==
  LET op == request[s].op IN
  /\ request[s].cleared
  /\ \/ op = "leave" /\ CommitLeave(s)
     \/ op = "remove" /\ CommitRemove(s)
     \/ op = "transfer" /\ CommitTransfer(s)
     \/ op = "share" /\ CommitShare(s)
     \/ op = "account" /\ CommitAccount(s)

Next ==
  \/ \E u \in Users, g \in Groups :
       \/ CreatePlaygroup(u, g) \/ Revoke(u, g)
       \/ JoinByCode(u, g) \/ DeletePlaygroup(u, g)
       \/ ReadLeave(u, g) \/ ReadShare(u, g)
       \/ \E t \in Users : ReadRemove(u, g, t) \/ ReadTransfer(u, g, t)
  \/ \E u \in Users : ReadAccount(u)
  \/ \E g \in Groups : Link(g)
  \/ \E n \in SessionIds : EndSession(n)
  \/ Unlink
  \/ \E s \in Open : ClearShares(s) \/ Commit(s)

Spec == Init /\ [][Next]_vars

----------------------------------------------------------------------------
(* Properties *)

\* The state has its types and the constraints of the database hold: a user has one
\* row in a playgroup and none when the account is gone, a playgroup has one open
\* session at most, and neither a session nor a link of the game outlives it
\* (delete_user, open_session, delete_playgroup).
TypeOK ==
  /\ accounts \subseteq Users /\ playgroups \subseteq Groups
  /\ \A g \in Groups :
       /\ Rows(g) \subseteq Member /\ Len(members[g]) = Cardinality(In(g))
       /\ In(g) \cup shares[g] \subseteq accounts
       /\ creator[g] \in Users /\ (g \in playgroups => creator[g] \in accounts)
       /\ g \notin playgroups => members[g] = <<>> /\ shares[g] = {}
  /\ \A s \in Open : request[s] \in Request
  /\ \A g \in Groups : Cardinality(OpenSessions(g)) =< 1
  /\ \A n \in SessionIds : sessions[n] # NoSession => sessions[n].group \in playgroups
  /\ game.group # NoGroup => game.group \in playgroups
  /\ game.session # 0 => sessions[game.session] # NoSession
  /\ raced \subseteq {"roles", "shares"}

\* A playgroup has one owner: hand-overs, departures, account deletions and joins
\* keep it so as long as none of those that decide about an owner commits on rows
\* that changed since it read them (create_playgroup, leave_playgroup,
\* transfer_ownership, handle_user_deletion).
OneOwner ==
  "roles" \notin raced => \A g \in playgroups : Cardinality(Owners(g)) = 1

\* Only members share with a playgroup, however members and shares come and go,
\* as long as no share is written for someone who left after it was checked, or
\* between the DELETE of the shares of someone who departs and its commit
\* (leave_playgroup, remove_member, delete_user, create_share).
SharersAreMembers ==
  "shares" \notin raced => \A g \in Groups : shares[g] \subseteq In(g)

\* What leave_playgroup says ("cleanup the departing user's shares targeting this
\* playgroup", playgroup_service.py:686), with nothing excused.  It does not hold:
\* create_share commits a share that the DELETE has not seen.  In no run.
NothingSharedAfterwards ==
  \A g \in Groups : shares[g] \subseteq In(g)

\* The game sits in an evening of the playgroup it is linked to (the comment in
\* set_game_playgroup: a session belongs to a playgroup).
SessionIsOfPlaygroup ==
  game.session # 0 => sessions[game.session].group = game.group

\* An account deletion that nothing overtakes removes the account: handing the
\* playgroups over is there so that it does not stop (delete_user).
DeletionIsNotBlocked ==
  [][\A s \in Open :
       LET r == request[s] IN
       /\ r.op = "account" /\ request'[s] = Idle
       /\ r.basis = Basis(r.op, r.group, r.user, r.target)
       => r.user \notin accounts']_vars

=============================================================================
