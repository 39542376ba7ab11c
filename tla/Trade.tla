------------------------------- MODULE Trade -------------------------------
(***************************************************************************)
(* One trade between two members of a playgroup (app/trade_service.py):    *)
(* its revisions, who may answer which, how it closes, and the cleanup     *)
(* hooks that abandon it when a party leaves the playgroup, the playgroup  *)
(* is deleted or an offered card leaves a collection.  Some operations     *)
(* delete an inventory row without calling the hook.                       *)
(*                                                                         *)
(* Everything that touches an existing trade locks its row (_lock_trade,   *)
(* _abandon_query) and re-reads it, so it is one action here.  Two things  *)
(* are not covered by that lock and take two steps: a proposal is checked  *)
(* before there is a row to lock, and the deletion of an inventory row     *)
(* looks for the trades that name it before it locks any.                  *)
(*                                                                         *)
(* A revision's items are the set of inventory rows it names; quantities,  *)
(* finishes and notes are left out.                                        *)
(***************************************************************************)
EXTENDS Integers, Sequences, FiniteSetsExt

CONSTANTS
  Proposer, Recipient,
  ProposerRows,   \* the inventory rows of the proposer: the offered side
  RecipientRows,  \* those of the recipient: the requested side
  MaxRevisions    \* bound: the revisions explored (no bound in the code)

Parties == {Proposer, Recipient}
Rows == ProposerRows \cup RecipientRows

ASSUME TradeAssumption ==
  /\ Proposer # Recipient
  /\ ProposerRows \cap RecipientRows = {}
  /\ MaxRevisions \in Nat \ {0}

VARIABLES
  open,       \* the playgroup exists
  members,    \* the parties with a PlaygroupMember row in it
  shared,     \* the recipient has a Share of a Showcase to it
  listed,     \* the recipient's rows in that Showcase
  stock,      \* the inventory rows that exist
  proposal,   \* the items of a create_trade under way ({}: none)
  deleting,   \* deleting[r]: a deletion of row r under way, and whether it
              \* found the trade linked to r
  status,     \* Trade.status ("none": not created yet)
  revisions,  \* Trade.revisions, in order
  record,     \* the rows in the terminal snapshot
  seen,       \* seen[p]: the revision on the trade page p has open (0: none)
  dropped,    \* history: the rows deleted without the cleanup hook
  raced       \* history: a leave or a deletion ran through one of the two
              \* windows described above

groupVars == <<open, members, shared, listed>>
tradeVars == <<status, revisions, record>>
historyVars == <<dropped, raced>>
vars == <<groupVars, tradeVars, stock, proposal, deleting, seen, historyVars>>

Terminal == {"accepted", "declined", "cancelled", "abandoned"}

Init ==
  /\ open = TRUE
  /\ members = Parties
  /\ shared = FALSE
  /\ listed = {}
  /\ stock = Rows
  /\ proposal = {}
  /\ deleting = [r \in Rows |-> "no"]
  /\ status = "none"
  /\ revisions = <<>>
  /\ record = {}
  /\ seen = [p \in Parties |-> 0]
  /\ dropped = {}
  /\ raced = FALSE

----------------------------------------------------------------------------
(* The version on the table *)

Live == {i \in DOMAIN revisions : ~revisions[i].declined}

\* Variant: a declined counter always falls back to the original proposal.
LastOrOriginal == IF revisions[Len(revisions)].declined THEN 1 ELSE Len(revisions)

\* current_revision: the last revision that was not declined.
Current == Max(Live)

Author == revisions[Current].author

Responder == IF Author = Proposer THEN Recipient ELSE Proposer

\* The revision carries its author and its rows; `over', the revision that was
\* current when it was written, is history.
Revision(author, items, over) ==
  [author |-> author, items |-> items, declined |-> FALSE, over |-> over]

----------------------------------------------------------------------------
(* Closing *)

\* Variant: every version's items are frozen into the record.
AllItems == UNION {revisions[i].items : i \in DOMAIN revisions}

\* write_trade_terminal_snapshot: the items of the current revision only.
Snapshot == revisions[Current].items

Close(outcome) ==
  /\ status' = outcome
  /\ record' = Snapshot
  /\ UNCHANGED revisions

\* Variant: the filter on the status is dropped.
Created == status # "none"

Pending == status = "proposed"

\* _abandon_query, on the one trade there is.
Abandon == IF Pending THEN Close("abandoned") ELSE UNCHANGED tradeVars

----------------------------------------------------------------------------
(* create_trade *)

\* _require_trade_context
Context == Parties \subseteq members /\ shared

\* The offered rows exist, and the requested ones are in the Showcase the
\* recipient shares with the playgroup.
Resolves(items) == items \subseteq stock /\ items \cap RecipientRows \subseteq listed

CheckProposal(items) ==
  /\ status = "none"
  /\ proposal = {}
  /\ Context
  /\ items \cap ProposerRows # {}
  /\ items \cap RecipientRows # {}
  /\ Resolves(items)
  /\ proposal' = items
  /\ UNCHANGED <<groupVars, tradeVars, stock, deleting, seen, historyVars>>

\* A row whose deletion has looked for linked trades and found none.
Overlooked(items) == \E r \in items : deleting[r] = "unlinked"

CommitProposal ==
  /\ proposal # {}
  /\ open
  /\ proposal \subseteq stock
  /\ status' = "proposed"
  /\ revisions' = <<Revision(Proposer, proposal, 0)>>
  /\ proposal' = {}
  /\ raced' = (raced \/ Overlooked(proposal))
  /\ UNCHANGED <<groupVars, record, stock, deleting, seen, dropped>>

\* The playgroup or a row is gone, or the ShowcaseItem a requested row was picked
\* from (a row offered through a mirrored location has none): a foreign key
\* refuses the insert.
FailProposal ==
  /\ proposal # {}
  /\ \/ ~open
     \/ ~(proposal \subseteq stock)
     \/ ~(proposal \cap RecipientRows \subseteq listed)
  /\ proposal' = {}
  /\ UNCHANGED <<groupVars, tradeVars, stock, deleting, seen, historyVars>>

----------------------------------------------------------------------------
(* The trade page, and what is posted from it *)

View(p) ==
  /\ Pending
  /\ seen' = [seen EXCEPT ![p] = Current]
  /\ UNCHANGED <<groupVars, tradeVars, stock, proposal, deleting, historyVars>>

\* The page on p's screen shows a version that p wrote, or one p may answer.
ShowsOwn(p) == seen[p] # 0 /\ revisions[seen[p]].author = p
ShowsOther(p) == seen[p] # 0 /\ revisions[seen[p]].author # p

\* counter_trade: by either party, and it must change something.
Counter(p, items) ==
  /\ Pending
  /\ seen[p] # 0
  /\ Context
  /\ Resolves(items)
  /\ items # {}
  /\ items # revisions[Current].items
  /\ Len(revisions) < MaxRevisions
  /\ revisions' = Append(revisions, Revision(p, items, Current))
  /\ raced' = (raced \/ Overlooked(items))
  /\ UNCHANGED <<groupVars, status, record, stock, proposal, deleting, seen,
                 dropped>>

\* Variant: the original proposal can be declined like a counter.
NotTheAuthor(p) == p # Author

\* There is a version to fall back to, and it is not p's own counter.
MayDecline(p) == p # Author /\ Live # {Current}

\* decline_counter
DeclineCounter(p) ==
  /\ Pending
  /\ seen[p] # 0
  /\ MayDecline(p)
  /\ revisions' = [revisions EXCEPT ![Current].declined = TRUE]
  /\ UNCHANGED <<groupVars, status, record, stock, proposal, deleting, seen, historyVars>>

\* transition_trade: the form does not say which version it was shown with.
Answer(p, outcome) ==
  /\ Pending
  /\ ShowsOther(p)
  /\ p = Responder
  /\ Close(outcome)
  /\ UNCHANGED <<groupVars, stock, proposal, deleting, seen, historyVars>>

Cancel(p) ==
  /\ Pending
  /\ ShowsOwn(p)
  /\ p = Author
  /\ Close("cancelled")
  /\ UNCHANGED <<groupVars, stock, proposal, deleting, seen, historyVars>>

----------------------------------------------------------------------------
(* The playgroup, whose owner is neither party *)

\* join_by_code
Join(p) ==
  /\ open
  /\ p \notin members
  /\ members' = members \cup {p}
  /\ UNCHANGED <<open, shared, listed, tradeVars, stock, proposal, deleting,
                 seen, historyVars>>

\* leave_playgroup and remove_member
Leave(p) ==
  /\ p \in members
  /\ members' = members \ {p}
  /\ shared' = (shared /\ p # Recipient)
  /\ Abandon
  /\ raced' = (raced \/ proposal # {})
  /\ UNCHANGED <<open, listed, stock, proposal, deleting, seen, dropped>>

\* delete_playgroup, by its owner
DeletePlaygroup ==
  /\ open
  /\ open' = FALSE
  /\ members' = {}
  /\ shared' = FALSE
  /\ Abandon
  /\ raced' = (raced \/ proposal # {})
  /\ UNCHANGED <<listed, stock, proposal, deleting, seen, dropped>>

\* create_share, for a member, and revoke_share.
ToggleShare ==
  /\ shared \/ Recipient \in members
  /\ shared' = ~shared
  /\ UNCHANGED <<open, members, listed, tradeVars, stock, proposal, deleting,
                 seen, historyVars>>

\* add_showcase_item and remove_showcase_item: a trade does not depend on it.
ToggleListing(r) ==
  /\ r \in stock
  /\ listed' = IF r \in listed THEN listed \ {r} ELSE listed \cup {r}
  /\ UNCHANGED <<open, members, shared, tradeVars, stock, proposal, deleting,
                 seen, historyVars>>

----------------------------------------------------------------------------
(* Deleting an inventory row.  Most paths go through                       *)
(* clean_inventory_row_references ...                                      *)

\* Variant: only the version on the table is searched.
OnTheTable(r) == Live # {} /\ r \in revisions[Current].items

\* A TradeItem of any revision names the row.
Linked(r) == \E i \in DOMAIN revisions : r \in revisions[i].items

FindLinks(r) ==
  /\ r \in stock
  /\ deleting[r] = "no"
  /\ deleting' = [deleting EXCEPT ![r] = IF Linked(r) THEN "linked" ELSE "unlinked"]
  /\ UNCHANGED <<groupVars, tradeVars, stock, proposal, seen, historyVars>>

DeleteRow(r) ==
  /\ deleting[r] # "no"
  /\ deleting' = [deleting EXCEPT ![r] = "no"]
  /\ stock' = stock \ {r}
  /\ listed' = listed \ {r}
  /\ IF deleting[r] = "linked" THEN Abandon ELSE UNCHANGED tradeVars
  /\ UNCHANGED <<open, members, shared, proposal, seen, historyVars>>

\* ... but a row that is pulled or returned whole, a deck row set to zero and a
\* pending row removed by hand go without it: the foreign keys null or cascade,
\* and the trade is left as it is.
DropRow(r) ==
  /\ r \in stock
  /\ stock' = stock \ {r}
  /\ listed' = listed \ {r}
  /\ dropped' = dropped \cup {r}
  /\ UNCHANGED <<open, members, shared, tradeVars, proposal, deleting, seen, raced>>

----------------------------------------------------------------------------

Next ==
  \/ \E items \in SUBSET Rows : CheckProposal(items)
  \/ CommitProposal
  \/ FailProposal
  \/ \E p \in Parties : \/ View(p)
                        \/ \E items \in SUBSET Rows : Counter(p, items)
                        \/ DeclineCounter(p)
                        \/ \E outcome \in {"accepted", "declined"} : Answer(p, outcome)
                        \/ Cancel(p)
                        \/ Join(p)
                        \/ Leave(p)
  \/ DeletePlaygroup
  \/ ToggleShare
  \/ \E r \in RecipientRows : ToggleListing(r)
  \/ \E r \in Rows : FindLinks(r) \/ DeleteRow(r) \/ DropRow(r)

Spec == Init /\ [][Next]_vars

----------------------------------------------------------------------------
(* Properties *)

Revisions ==
  [author : Parties, items : SUBSET Rows, declined : BOOLEAN, over : Nat]

\* The shape of the rows.  From its creation on, a trade has a version on the
\* table: declining counters never uses the last one up.
TypeOK ==
  /\ open \in BOOLEAN
  /\ members \subseteq Parties
  /\ shared \in BOOLEAN
  /\ shared => Recipient \in members
  /\ listed \subseteq stock \cap RecipientRows
  /\ stock \subseteq Rows
  /\ proposal \subseteq Rows
  /\ deleting \in [Rows -> {"no", "linked", "unlinked"}]
  /\ status \in Terminal \cup {"none", "proposed"}
  /\ revisions \in Seq(Revisions)
  /\ record \subseteq Rows
  /\ seen \in [Parties -> 0 .. Len(revisions)]
  /\ dropped \subseteq Rows
  /\ raced \in BOOLEAN
  /\ status # "none" <=> Live # {}

\* The record of a closed trade is the version that was on the table, whatever
\* was countered, declined or deleted before and after: never the items of a
\* version nobody agreed to.
RecordIsCurrent == status \in Terminal => record = revisions[Current].items

\* As long as neither unlocked window was run through, a trade still waiting for
\* an answer is between two members, and every version it may still fall back to
\* names rows that exist, but for those deleted without the hook.
PendingIsSound ==
  Pending /\ ~raced =>
    /\ Parties \subseteq members
    /\ \A i \in Live : revisions[i].items \subseteq stock \cup dropped

\* What inventory_service.py:2974 says of the hook (`The single FK-safe cleanup
\* shared by EVERY path that session.delete()s an InventoryRow').  It is in no
\* run: a row pulled into a deck while it is offered refutes it.
EveryDeletionIsCleaned ==
  Pending /\ ~raced => \A i \in Live : revisions[i].items \subseteq stock

\* A terminal trade is the record: neither a late answer, a counter, a departure
\* nor a deletion moves it again.
ClosedIsFinal == [][(status \in Terminal) => UNCHANGED tradeVars]_vars

\* Declining a counter puts back on the table exactly the version the counter was
\* written over, after any mix of counters and refusals.
DeclineRestores ==
  [][\A i \in DOMAIN revisions :
       revisions'[i].declined # revisions[i].declined
         => Current' = revisions[i].over]_vars

\* "A Trade reaching accepted records that two parties agreed": the party that
\* accepted had the accepted version on its screen.
AcceptedWasSeen == status = "accepted" => seen[Responder] = Current

=============================================================================
