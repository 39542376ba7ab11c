----------------------------- MODULE TradeProofs -----------------------------
(***************************************************************************)
(* What holds of a trade between any two parties, for any rows and any     *)
(* number of revisions.                                                    *)
(*                                                                         *)
(* The argument: the revisions not declined form a stack.  Each was        *)
(* written over the one below it, so declining the top one uncovers it,    *)
(* and the bottom one, the original proposal, has nothing below it and     *)
(* cannot be declined.  The stack also says that there is a last one.      *)
(***************************************************************************)
EXTENDS Trade, SequenceTheorems, TLAPS

USE DEF historyVars

\* The revisions still live, each over the one below it.
Stacked ==
  /\ revisions # <<>> =>
       /\ 1 \in Live
       /\ \E top \in Live : \A i \in Live : i <= top
  /\ \A i \in Live :
       LET below == revisions[i].over IN
       /\ below < i
       /\ i # 1 => below \in Live
       /\ \A j \in Live : j < i => j <= below

\* A trade has revisions from its creation on, and is not proposed twice.
CreatedOnce ==
  /\ status = "none" <=> revisions = <<>>
  /\ proposal # {} => status = "none"

\* What the two windows leave behind while nothing has run through them.
WindowsClosed ==
  ~raced =>
    /\ proposal # {} => Parties \subseteq members
    /\ \A r \in Rows : deleting[r] = "unlinked" => ~Linked(r)

TradeInv ==
  /\ TypeOK
  /\ Stacked
  /\ CreatedOnce
  /\ WindowsClosed
  /\ RecordIsCurrent
  /\ PendingIsSound

\* The invariant holds before a trade is proposed.
LEMMA TradeInit == Init => TradeInv
<1> SUFFICES ASSUME Init PROVE TradeInv
  OBVIOUS
<1>1. Live = {}
  BY DEF Init, Live
<1>a. revisions \in Seq(Revisions) /\ seen \in [Parties -> 0 .. Len(revisions)]
  BY DEF Init
<1>2. TypeOK
  BY <1>1, <1>a DEF Init, TypeOK
<1>3. Stacked /\ CreatedOnce
  BY <1>1 DEF Init, Stacked, CreatedOnce
<1>4. WindowsClosed /\ RecordIsCurrent /\ PendingIsSound
  BY DEF Init, WindowsClosed, RecordIsCurrent, PendingIsSound, Pending, Terminal
<1> QED
  BY <1>2, <1>3, <1>4 DEF TradeInv

\* What the type of the revisions says of one of them.
LEMMA RevisionFields ==
  ASSUME TypeOK
  PROVE  /\ Len(revisions) \in Nat
         /\ DOMAIN revisions = 1 .. Len(revisions)
         /\ \A i \in DOMAIN revisions :
              /\ revisions[i] \in Revisions
              /\ revisions[i].author \in Parties
              /\ revisions[i].items \subseteq Rows
              /\ revisions[i].declined \in BOOLEAN
              /\ revisions[i].over \in Nat
<1>1. revisions \in Seq(Revisions)
  BY DEF TypeOK
<1>2. \A i \in DOMAIN revisions : revisions[i] \in Revisions
  BY <1>1
<1> QED
  BY <1>1, <1>2 DEF Revisions

\* The current revision is the top of the stack.
LEMMA CurrentIsTop ==
  ASSUME TypeOK, Stacked, revisions # <<>>
  PROVE  /\ Current \in Live
         /\ \A i \in Live : i <= Current
         /\ Live \subseteq 1 .. Len(revisions)
<1>1. Live \subseteq 1 .. Len(revisions)
  BY RevisionFields DEF Live
<1>2. PICK top \in Live : \A i \in Live : i <= top
  BY DEF Stacked
<1>3. \A i \in Live : top >= i
  BY <1>1, <1>2
<1> QED
  BY <1>1, <1>2, <1>3 DEF Current, Max

\* A step that touches neither the revisions nor which of them are declined.
LEMMA SameRevisions ==
  ASSUME UNCHANGED revisions
  PROVE  /\ Live' = Live
         /\ Current' = Current
         /\ Author' = Author
         /\ Stacked <=> Stacked'
         /\ \A r : Linked(r)' <=> Linked(r)
<1>1. Live' = Live
  BY DEF Live
<1>2. Current' = Current
  BY <1>1 DEF Current
<1> QED
  BY <1>1, <1>2 DEF Author, Stacked, Linked

\* Closing the trade, in a step that touches nothing else but the environment.
LEMMA CloseKeeps ==
  ASSUME TradeInv, Pending, NEW outcome \in Terminal, Close(outcome)
  PROVE  /\ (status # "none")' /\ (Live # {})' /\ ~Pending'
         /\ status' \in Terminal
         /\ record' \subseteq Rows
         /\ RecordIsCurrent'
         /\ UNCHANGED revisions
<1>1. revisions # <<>>
  BY DEF TradeInv, CreatedOnce, Pending
<1>2. Current \in Live /\ Current \in 1 .. Len(revisions)
  BY <1>1, CurrentIsTop DEF TradeInv
<1>3. UNCHANGED revisions /\ Live' = Live /\ Current' = Current
  BY SameRevisions DEF Close
<1>4. revisions[Current].items \subseteq Rows
  BY <1>2, RevisionFields DEF TradeInv
<1>5. status' = outcome /\ record' = revisions[Current].items
  BY DEF Close, Snapshot
<1>6. RecordIsCurrent'
  BY <1>3, <1>5 DEF RecordIsCurrent
<1>7. outcome # "none" /\ outcome # "proposed"
  BY DEF Terminal
<1> QED
  BY <1>2, <1>3, <1>4, <1>5, <1>6, <1>7 DEF Pending

\* A cleanup hook: the trade closes if it was pending and stays as it is otherwise.
LEMMA AbandonKeeps ==
  ASSUME TradeInv, Abandon
  PROVE  /\ (status # "none" => Live # {})'
         /\ ~Pending'
         /\ status' \in Terminal \cup {"none"}
         /\ status' = "none" <=> status = "none"
         /\ record' \subseteq Rows
         /\ RecordIsCurrent'
         /\ UNCHANGED revisions
<1>1. CASE Pending
  BY <1>1, CloseKeeps DEF Abandon, Terminal, Pending
<1>2. CASE ~Pending
  <2>1. UNCHANGED tradeVars
    BY <1>2 DEF Abandon
  <2>2. UNCHANGED revisions /\ Live' = Live /\ Current' = Current
    BY <2>1, SameRevisions DEF tradeVars
  <2> QED
    BY <1>2, <2>1, <2>2 DEF TradeInv, TypeOK, tradeVars, RecordIsCurrent, Pending
<1> QED
  BY <1>1, <1>2

\* A step that leaves the trade alone keeps what only speaks of the trade.
LEMMA TradeAlone ==
  ASSUME TradeInv, UNCHANGED tradeVars
  PROVE  /\ Live' = Live /\ Current' = Current /\ Stacked' /\ RecordIsCurrent'
         /\ Pending' <=> Pending
         /\ \A r : Linked(r)' <=> Linked(r)
<1>1. UNCHANGED revisions
  BY DEF tradeVars
<1> QED
  BY <1>1, SameRevisions DEF TradeInv, tradeVars, RecordIsCurrent, Pending

\* The invariant survives the checks of a proposal (create_trade before its commit).
LEMMA CheckKeeps ==
  ASSUME TradeInv, NEW items \in SUBSET Rows, CheckProposal(items)
  PROVE  TradeInv'
<1>1. UNCHANGED <<groupVars, tradeVars, stock, deleting, seen, historyVars>>
  BY DEF CheckProposal
<1>2. Live' = Live /\ Stacked' /\ RecordIsCurrent' /\ \A r : Linked(r)' <=> Linked(r)
  BY <1>1, TradeAlone
<1>3. TypeOK'
  BY <1>1, <1>2 DEF CheckProposal, TradeInv, TypeOK, groupVars, tradeVars
<1>4. CreatedOnce'
  BY <1>1 DEF CheckProposal, TradeInv, CreatedOnce, tradeVars
<1>5. WindowsClosed'
  BY <1>1, <1>2 DEF CheckProposal, Context, TradeInv, WindowsClosed, groupVars
<1>6. ~Pending'
  BY <1>1 DEF CheckProposal, Pending, tradeVars
<1> QED
  BY <1>2, <1>3, <1>4, <1>5, <1>6 DEF TradeInv, PendingIsSound

\* The invariant survives the commit of a proposal, however stale its checks are.
LEMMA CommitProposalKeeps ==
  ASSUME TradeInv, CommitProposal
  PROVE  TradeInv'
<1> DEFINE first == Revision(Proposer, proposal, 0)
<1>1. /\ revisions' = <<first>> /\ proposal' = {} /\ status' = "proposed"
      /\ proposal \subseteq stock
      /\ raced' = (raced \/ Overlooked(proposal))
      /\ UNCHANGED <<groupVars, record, stock, deleting, seen, dropped>>
  BY DEF CommitProposal
<1>2. first \in Revisions /\ first.over = 0 /\ ~first.declined /\ first.items = proposal
  BY DEF Revision, Revisions, TradeInv, TypeOK, Parties
<1>3. /\ revisions' \in Seq(Revisions) /\ Len(revisions') = 1
      /\ DOMAIN revisions' = {1} /\ revisions'[1] = first
  BY <1>1, <1>2
<1>4. Live' = {1}
  BY <1>2, <1>3 DEF Live
<1>5. revisions = <<>> /\ seen \in [Parties -> 0 .. 0]
  <2>1. revisions = <<>> /\ Len(revisions) = 0
    BY DEF CommitProposal, TradeInv, CreatedOnce
  <2> QED
    BY <2>1 DEF TradeInv, TypeOK
<1>6. seen' \in [Parties -> 0 .. Len(revisions')]
  BY <1>1, <1>3, <1>5
<1>7. TypeOK'
  BY <1>1, <1>3, <1>4, <1>6 DEF TradeInv, TypeOK, groupVars
<1>8. Stacked'
  BY <1>2, <1>3, <1>4 DEF Stacked
<1>9. CreatedOnce' /\ RecordIsCurrent'
  BY <1>1, <1>3 DEF CreatedOnce, RecordIsCurrent, Terminal
<1>10. WindowsClosed'
  <2> SUFFICES ASSUME ~raced', NEW r \in Rows, deleting[r] = "unlinked"
               PROVE  ~Linked(r)'
    BY <1>1 DEF WindowsClosed
  <2>1. r \notin proposal
    BY <1>1 DEF Overlooked
  <2> QED
    BY <1>2, <1>3, <2>1 DEF Linked
<1>11. PendingIsSound'
  <2>1. ~raced' => Parties \subseteq members
    BY <1>1 DEF CommitProposal, TradeInv, WindowsClosed
  <2> QED
    BY <1>1, <1>2, <1>3, <1>4, <2>1 DEF PendingIsSound, groupVars
<1> QED
  BY <1>7, <1>8, <1>9, <1>10, <1>11 DEF TradeInv

\* The invariant survives a proposal that is refused.
LEMMA FailProposalKeeps ==
  ASSUME TradeInv, FailProposal
  PROVE  TradeInv'
<1>1. UNCHANGED <<groupVars, tradeVars, stock, deleting, seen, historyVars>>
  BY DEF FailProposal
<1>2. /\ Live' = Live /\ Stacked' /\ RecordIsCurrent'
      /\ Pending' <=> Pending
      /\ \A r : Linked(r)' <=> Linked(r)
  BY <1>1, TradeAlone
<1>3. TypeOK'
  BY <1>1, <1>2 DEF FailProposal, TradeInv, TypeOK, groupVars, tradeVars
<1>4. CreatedOnce' /\ WindowsClosed'
  BY <1>1, <1>2 DEF FailProposal, TradeInv, CreatedOnce, WindowsClosed, tradeVars
<1>5. PendingIsSound'
  BY <1>1, <1>2 DEF TradeInv, PendingIsSound, groupVars, tradeVars
<1> QED
  BY <1>2, <1>3, <1>4, <1>5 DEF TradeInv

\* The invariant survives a party opening the trade.
LEMMA ViewKeeps ==
  ASSUME TradeInv, NEW p \in Parties, View(p)
  PROVE  TradeInv'
<1>1. UNCHANGED <<groupVars, tradeVars, stock, proposal, deleting, historyVars>>
  BY DEF View
<1>2. /\ Live' = Live /\ Stacked' /\ RecordIsCurrent'
      /\ Pending' <=> Pending
      /\ \A r : Linked(r)' <=> Linked(r)
  BY <1>1, TradeAlone
<1>3. Current \in 0 .. Len(revisions)
  <2>1. revisions # <<>>
    BY DEF View, Pending, TradeInv, CreatedOnce
  <2> QED
    BY <2>1, CurrentIsTop DEF TradeInv
<1>4. seen' \in [Parties -> 0 .. Len(revisions)]
  BY <1>3 DEF View, TradeInv, TypeOK
<1>5. TypeOK'
  BY <1>1, <1>2, <1>4 DEF TradeInv, TypeOK, groupVars, tradeVars
<1>6. CreatedOnce' /\ WindowsClosed' /\ PendingIsSound'
  BY <1>1, <1>2 DEF TradeInv, CreatedOnce, WindowsClosed, PendingIsSound,
                    groupVars, tradeVars
<1> QED
  BY <1>2, <1>5, <1>6 DEF TradeInv

\* The invariant survives a counter-offer.
LEMMA CounterKeeps ==
  ASSUME TradeInv, NEW p \in Parties, NEW items \in SUBSET Rows, Counter(p, items)
  PROVE  TradeInv'
<1> DEFINE n == Len(revisions)
           new == Revision(p, items, Current)
<1>1. /\ revisions' = Append(revisions, new)
      /\ raced' = (raced \/ Overlooked(items))
      /\ Pending /\ Context /\ items \subseteq stock
      /\ UNCHANGED <<groupVars, status, record, stock, proposal, deleting, seen, dropped>>
  BY DEF Counter, Resolves
<1>2. revisions # <<>>
  BY <1>1 DEF Pending, TradeInv, CreatedOnce
<1>3. /\ Current \in Live /\ Live \subseteq 1 .. n /\ n \in Nat
      /\ \A i \in Live : i <= Current
  BY <1>2, CurrentIsTop, RevisionFields DEF TradeInv
<1>4. new \in Revisions /\ new.over = Current /\ ~new.declined /\ new.items = items
  BY <1>3 DEF Revision, Revisions
<1>5. /\ revisions' \in Seq(Revisions) /\ Len(revisions') = n + 1
      /\ DOMAIN revisions' = 1 .. n + 1
      /\ revisions'[n + 1] = new
      /\ \A i \in 1 .. n : revisions'[i] = revisions[i]
  BY <1>1, <1>4 DEF TradeInv, TypeOK
<1>6. Live' = Live \cup {n + 1}
  <2>1. DOMAIN revisions = 1 .. n
    BY RevisionFields DEF TradeInv
  <2> QED
    BY <1>3, <1>4, <1>5, <2>1 DEF Live
<1>7. TypeOK'
  <2>1. seen' \in [Parties -> 0 .. Len(revisions')]
    BY <1>1, <1>3, <1>5 DEF TradeInv, TypeOK
  <2> QED
    BY <1>1, <1>5, <1>6, <2>1 DEF TradeInv, TypeOK, groupVars, Pending
<1>8. Stacked'
  <2>1. 1 \in Live' /\ \E top \in Live' : \A i \in Live' : i <= top
    BY <1>2, <1>3, <1>6 DEF TradeInv, Stacked
  <2>2. ASSUME NEW i \in Live'
        PROVE  /\ revisions'[i].over < i
               /\ i # 1 => revisions'[i].over \in Live'
               /\ \A j \in Live' : j < i => j <= revisions'[i].over
    <3>1. CASE i = n + 1
      BY <1>3, <1>4, <1>5, <1>6, <3>1
    <3>2. CASE i \in Live
      BY <1>3, <1>5, <1>6, <3>2 DEF TradeInv, Stacked
    <3> QED
      BY <1>6, <3>1, <3>2
  <2> QED
    BY <2>1, <2>2 DEF Stacked
<1>9. CreatedOnce'
  <2>1. revisions' # <<>>
    BY <1>3, <1>5
  <2> QED
    BY <1>1, <2>1 DEF TradeInv, CreatedOnce, Pending
<1>10. WindowsClosed'
  <2> SUFFICES ASSUME ~raced'
               PROVE  /\ proposal # {} => Parties \subseteq members
                      /\ \A r \in Rows : deleting[r] = "unlinked" => ~Linked(r)'
    BY <1>1 DEF WindowsClosed, groupVars
  <2>1. ASSUME NEW r \in Rows, deleting[r] = "unlinked"
        PROVE  ~Linked(r)'
    <3>1. r \notin items
      BY <1>1, <2>1 DEF Overlooked
    <3>2. \A i \in 1 .. n : r \notin revisions[i].items
      BY <1>1, <2>1, RevisionFields DEF TradeInv, WindowsClosed, Linked
    <3>3. \A i \in DOMAIN revisions' : i = n + 1 \/ i \in 1 .. n
      BY <1>3, <1>5
    <3> QED
      BY <1>4, <1>5, <3>1, <3>2, <3>3 DEF Linked
  <2> QED
    BY <1>1, <2>1 DEF Context
<1>11. RecordIsCurrent'
  BY <1>1 DEF RecordIsCurrent, Pending, Terminal
<1>12. PendingIsSound'
  <2> SUFFICES ASSUME ~raced', NEW i \in Live'
               PROVE  Parties \subseteq members /\ revisions'[i].items \subseteq stock \cup dropped
    BY <1>1, <1>6 DEF PendingIsSound, groupVars
  <2>1. ~raced
    BY <1>1
  <2>2. CASE i = n + 1
    BY <1>1, <1>4, <1>5, <2>2 DEF Context
  <2>3. CASE i \in Live
    BY <1>1, <1>3, <1>5, <2>1, <2>3 DEF TradeInv, PendingIsSound, Context
  <2> QED
    BY <1>6, <2>2, <2>3
<1> QED
  BY <1>7, <1>8, <1>9, <1>10, <1>11, <1>12 DEF TradeInv

\* Declining the current revision uncovers the one it was written over.
LEMMA DeclineUncovers ==
  ASSUME TradeInv, NEW p \in Parties, DeclineCounter(p)
  PROVE  /\ Current \in 1 .. Len(revisions) /\ Current # 1
         /\ Live' = Live \ {Current}
         /\ Len(revisions') = Len(revisions)
         /\ revisions' \in Seq(Revisions)
         /\ DOMAIN revisions' = DOMAIN revisions
         /\ \A i \in DOMAIN revisions :
              /\ revisions'[i].author = revisions[i].author
              /\ revisions'[i].items = revisions[i].items
              /\ revisions'[i].over = revisions[i].over
              /\ i # Current => revisions'[i].declined = revisions[i].declined
         /\ revisions[Current].over \in Live'
         /\ \A i \in Live' : i <= revisions[Current].over
<1>1. /\ revisions' = [revisions EXCEPT ![Current].declined = TRUE]
      /\ revisions # <<>> /\ Live # {Current}
  BY DEF DeclineCounter, MayDecline, Pending, TradeInv, CreatedOnce
<1>2. /\ Current \in Live /\ Live \subseteq 1 .. Len(revisions)
      /\ \A i \in Live : i <= Current
      /\ Len(revisions) \in Nat /\ DOMAIN revisions = 1 .. Len(revisions)
  BY <1>1, CurrentIsTop, RevisionFields DEF TradeInv
<1>3. \A i \in DOMAIN revisions :
        revisions'[i] = IF i = Current
                        THEN [revisions[i] EXCEPT !.declined = TRUE]
                        ELSE revisions[i]
  BY <1>1, <1>2
<1>4. \A i \in DOMAIN revisions :
        /\ revisions'[i] \in Revisions
        /\ revisions'[i].author = revisions[i].author
        /\ revisions'[i].items = revisions[i].items
        /\ revisions'[i].over = revisions[i].over
        /\ revisions'[i].declined = (i = Current \/ revisions[i].declined)
  <2> SUFFICES ASSUME NEW i \in DOMAIN revisions
               PROVE  /\ revisions'[i] \in Revisions
                      /\ revisions'[i].author = revisions[i].author
                      /\ revisions'[i].items = revisions[i].items
                      /\ revisions'[i].over = revisions[i].over
                      /\ revisions'[i].declined = (i = Current \/ revisions[i].declined)
    OBVIOUS
  <2>1. revisions[i] \in Revisions
    BY RevisionFields DEF TradeInv
  <2> QED
    BY <1>3, <2>1 DEF Revisions
<1>5. DOMAIN revisions' = DOMAIN revisions /\ revisions \in Seq(Revisions)
  BY <1>1 DEF TradeInv, TypeOK
<1>6. revisions' \in Seq(Revisions) /\ Len(revisions') = Len(revisions)
  <2> DEFINE marked == [revisions[Current] EXCEPT !.declined = TRUE]
  <2>1. marked \in Revisions
    BY <1>2, RevisionFields DEF TradeInv, Revisions
  <2>2. revisions' = [revisions EXCEPT ![Current] = marked]
    BY <1>1
  <2> HIDE DEF marked
  <2> QED
    BY <1>2, <1>5, <2>1, <2>2, ExceptSeq
<1>7. Live' = Live \ {Current}
  BY <1>4, <1>5 DEF Live
<1>8. Current # 1
  <2>1. PICK i \in Live : i # Current
    BY <1>1, <1>2
  <2> QED
    BY <1>2, <2>1
<1>9. /\ revisions[Current].over \in Live'
      /\ \A i \in Live' : i <= revisions[Current].over
  <2>1. /\ revisions[Current].over \in Live
        /\ revisions[Current].over < Current
        /\ \A j \in Live : j < Current => j <= revisions[Current].over
    BY <1>2, <1>8 DEF TradeInv, Stacked
  <2> QED
    BY <1>2, <1>7, <2>1
<1>10. \A i \in DOMAIN revisions :
         i # Current => revisions'[i].declined = revisions[i].declined
  BY <1>3
<1> QED
  BY <1>2, <1>4, <1>5, <1>6, <1>7, <1>8, <1>9, <1>10

\* The invariant survives a decline, which may restore the version before.
LEMMA DeclineKeeps ==
  ASSUME TradeInv, NEW p \in Parties, DeclineCounter(p)
  PROVE  TradeInv'
<1>1. /\ Pending
      /\ UNCHANGED <<groupVars, status, record, stock, proposal, deleting, seen, historyVars>>
  BY DEF DeclineCounter
<1>2. revisions # <<>>
  BY <1>1 DEF Pending, TradeInv, CreatedOnce
<1>3. /\ Current \in Live /\ Live \subseteq 1 .. Len(revisions)
      /\ DOMAIN revisions = 1 .. Len(revisions)
      /\ \A i \in Live : i <= Current
  BY <1>2, CurrentIsTop, RevisionFields DEF TradeInv
<1>4. Live' = Live \ {Current} /\ Live' # {}
  BY DeclineUncovers
<1>5. TypeOK'
  BY <1>1, <1>4, DeclineUncovers DEF TradeInv, TypeOK, groupVars, Pending
<1>6. Stacked'
  <2>1. 1 \in Live' /\ \E top \in Live' : \A i \in Live' : i <= top
    BY <1>2, DeclineUncovers DEF TradeInv, Stacked
  <2>2. ASSUME NEW i \in Live'
        PROVE  /\ revisions'[i].over < i
               /\ i # 1 => revisions'[i].over \in Live'
               /\ \A j \in Live' : j < i => j <= revisions'[i].over
    <3>1. i \in Live /\ i # Current /\ i <= Current
      BY <1>3, <1>4
    <3>2. revisions'[i].over = revisions[i].over
      BY <1>3, <3>1, DeclineUncovers
    <3>3. /\ revisions[i].over < i
          /\ i # 1 => revisions[i].over \in Live
          /\ \A j \in Live : j < i => j <= revisions[i].over
      BY <3>1 DEF TradeInv, Stacked
    <3>4. revisions[i].over # Current
      BY <1>3, <3>1, <3>3
    <3>5. i # 1 => revisions'[i].over \in Live'
      BY <1>4, <3>2, <3>3, <3>4
    <3>6. \A j \in Live' : j < i => j <= revisions'[i].over
      BY <1>4, <3>2, <3>3
    <3> QED
      BY <3>2, <3>3, <3>5, <3>6
  <2> QED
    BY <2>1, <2>2 DEF Stacked
<1>7. CreatedOnce'
  BY <1>1, <1>2, <1>4, DeclineUncovers DEF TradeInv, CreatedOnce, Pending
<1>8. WindowsClosed'
  <2>1. \A r : Linked(r)' <=> Linked(r)
    BY DeclineUncovers DEF Linked
  <2> QED
    BY <1>1, <2>1 DEF TradeInv, WindowsClosed, groupVars
<1>9. RecordIsCurrent'
  BY <1>1 DEF RecordIsCurrent, Pending, Terminal
<1>10. PendingIsSound'
  <2>1. \A i \in Live' : i \in Live /\ revisions'[i].items = revisions[i].items
    BY <1>3, <1>4, DeclineUncovers
  <2> QED
    BY <1>1, <2>1 DEF TradeInv, PendingIsSound, groupVars
<1> QED
  BY <1>5, <1>6, <1>7, <1>8, <1>9, <1>10 DEF TradeInv

\* A party closes the trade, by an answer or by withdrawing it.
LEMMA CloseStepKeeps ==
  ASSUME TradeInv, Pending, NEW outcome \in Terminal, Close(outcome),
         UNCHANGED <<groupVars, stock, proposal, deleting, seen, historyVars>>
  PROVE  TradeInv'
<1>1. /\ status' # "none" /\ Live' # {} /\ ~Pending' /\ status' \in Terminal
      /\ record' \subseteq Rows /\ RecordIsCurrent' /\ UNCHANGED revisions
  BY CloseKeeps
<1>2. Stacked' /\ \A r : Linked(r)' <=> Linked(r)
  BY <1>1, SameRevisions DEF TradeInv
<1>3. TypeOK'
  BY <1>1 DEF TradeInv, TypeOK, groupVars
<1>4. CreatedOnce'
  BY <1>1 DEF TradeInv, CreatedOnce, Pending
<1>5. WindowsClosed' /\ PendingIsSound'
  BY <1>1, <1>2 DEF TradeInv, WindowsClosed, PendingIsSound, groupVars
<1> QED
  BY <1>1, <1>2, <1>3, <1>4, <1>5 DEF TradeInv

\* A member or the playgroup goes, and takes the pending trade with it.
LEMMA DepartureKeeps ==
  ASSUME TradeInv, Abandon,
         members' \subseteq members, shared' \in BOOLEAN, open' \in BOOLEAN,
         shared' => shared /\ Recipient \in members',
         raced' = (raced \/ proposal # {}),
         UNCHANGED <<listed, stock, proposal, deleting, seen, dropped>>
  PROVE  TradeInv'
<1>1. /\ status' # "none" => Live' # {}
      /\ ~Pending' /\ status' \in Terminal \cup {"none"}
      /\ status' = "none" <=> status = "none"
      /\ record' \subseteq Rows /\ RecordIsCurrent' /\ UNCHANGED revisions
  BY AbandonKeeps
<1>2. /\ Live' = Live /\ Stacked' /\ \A r : Linked(r)' <=> Linked(r)
  BY <1>1, SameRevisions DEF TradeInv
<1>3. TypeOK'
  <2>1. raced' \in BOOLEAN
    BY DEF TradeInv, TypeOK
  <2> QED
    BY <1>1, <1>2, <2>1 DEF TradeInv, TypeOK
<1>4. CreatedOnce' /\ PendingIsSound'
  BY <1>1 DEF TradeInv, CreatedOnce, PendingIsSound
<1>5. WindowsClosed'
  BY <1>2 DEF TradeInv, WindowsClosed
<1> QED
  BY <1>1, <1>2, <1>3, <1>4, <1>5 DEF TradeInv

\* The invariant survives the deletion of an inventory row the trade offers.
LEMMA DeleteRowKeeps ==
  ASSUME TradeInv, NEW r \in Rows, DeleteRow(r)
  PROVE  TradeInv'
<1>1. /\ deleting' = [deleting EXCEPT ![r] = "no"]
      /\ stock' = stock \ {r} /\ listed' = listed \ {r}
      /\ UNCHANGED <<open, members, shared, proposal, seen, historyVars>>
  BY DEF DeleteRow
<1>2. /\ status' # "none" => Live' # {}
      /\ status' \in Terminal \cup {"none", "proposed"}
      /\ status' = "none" <=> status = "none"
      /\ record' \subseteq Rows /\ RecordIsCurrent' /\ UNCHANGED revisions
  <2>1. CASE deleting[r] = "linked"
    BY <2>1, AbandonKeeps DEF DeleteRow
  <2>2. CASE deleting[r] # "linked"
    <3>1. UNCHANGED tradeVars
      BY <2>2 DEF DeleteRow
    <3> QED
      BY <3>1, TradeAlone DEF TradeInv, TypeOK, tradeVars
  <2> QED
    BY <2>1, <2>2
<1>3. /\ Live' = Live /\ Stacked' /\ \A s : Linked(s)' <=> Linked(s)
  BY <1>2, SameRevisions DEF TradeInv
<1>4. TypeOK'
  <2>1. deleting' \in [Rows -> {"no", "linked", "unlinked"}]
    BY <1>1 DEF TradeInv, TypeOK
  <2> QED
    BY <1>1, <1>2, <1>3, <2>1 DEF TradeInv, TypeOK
<1>5. CreatedOnce'
  BY <1>1, <1>2 DEF TradeInv, CreatedOnce
<1>6. WindowsClosed'
  <2>1. \A s \in Rows : deleting'[s] = "unlinked" => deleting[s] = "unlinked"
    BY <1>1 DEF TradeInv, TypeOK
  <2> QED
    BY <1>1, <1>3, <2>1 DEF TradeInv, WindowsClosed
<1>7. PendingIsSound'
  <2>1. CASE deleting[r] = "linked"
    <3>1. ~Pending'
      BY <2>1, AbandonKeeps DEF DeleteRow
    <3> QED
      BY <3>1 DEF PendingIsSound
  <2>2. CASE deleting[r] # "linked"
    <3>1. UNCHANGED tradeVars /\ deleting[r] = "unlinked"
      BY <2>2 DEF DeleteRow, TradeInv, TypeOK
    <3> SUFFICES ASSUME Pending, ~raced
                 PROVE  /\ Parties \subseteq members
                        /\ \A i \in Live : revisions[i].items \subseteq stock' \cup dropped
      BY <1>1, <1>2, <1>3, <3>1 DEF PendingIsSound, Pending, tradeVars
    <3>2. \A i \in Live : r \notin revisions[i].items
      BY <3>1 DEF TradeInv, WindowsClosed, Linked, Live
    <3> QED
      BY <1>1, <3>2 DEF TradeInv, PendingIsSound
  <2> QED
    BY <2>1, <2>2
<1> QED
  BY <1>2, <1>3, <1>4, <1>5, <1>6, <1>7 DEF TradeInv

\* The invariant survives the deletion of a row without the hook.
LEMMA DropRowKeeps ==
  ASSUME TradeInv, NEW r \in Rows, DropRow(r)
  PROVE  TradeInv'
<1>1. /\ stock' = stock \ {r} /\ listed' = listed \ {r}
      /\ dropped' = dropped \cup {r}
      /\ UNCHANGED <<open, members, shared, tradeVars, proposal, deleting, seen, raced>>
  BY DEF DropRow
<1>2. /\ Live' = Live /\ Stacked' /\ RecordIsCurrent'
      /\ Pending' <=> Pending
      /\ \A s : Linked(s)' <=> Linked(s)
  BY <1>1, TradeAlone
<1>3. TypeOK'
  BY <1>1, <1>2 DEF TradeInv, TypeOK, tradeVars
<1>4. CreatedOnce' /\ WindowsClosed'
  BY <1>1, <1>2 DEF TradeInv, CreatedOnce, WindowsClosed, tradeVars
<1>5. PendingIsSound'
  BY <1>1, <1>2 DEF TradeInv, PendingIsSound, tradeVars
<1> QED
  BY <1>2, <1>3, <1>4, <1>5 DEF TradeInv

\* The environment moves and the trade does not: the playgroup gains a member, the
\* Showcase or its share changes, a deletion looks for links.
LEMMA EnvironmentKeeps ==
  ASSUME TradeInv,
         \/ \E p \in Parties : Join(p)
         \/ ToggleShare
         \/ \E r \in RecipientRows : ToggleListing(r)
         \/ \E r \in Rows : FindLinks(r)
  PROVE  TradeInv'
<1>1. /\ UNCHANGED <<tradeVars, stock, proposal, seen, historyVars, open>>
      /\ members \subseteq members' /\ members' \subseteq Parties
      /\ shared' \in BOOLEAN
      /\ shared' => Recipient \in members'
      /\ listed' \subseteq stock \cap RecipientRows
  <2>1. CASE \E p \in Parties : Join(p)
    BY <2>1 DEF Join, TradeInv, TypeOK
  <2>2. CASE ToggleShare
    <3>1. shared' \in BOOLEAN /\ (shared' => Recipient \in members)
      BY <2>2 DEF ToggleShare, TradeInv, TypeOK
    <3> QED
      BY <2>2, <3>1 DEF ToggleShare, TradeInv, TypeOK
  <2>3. CASE \E r \in RecipientRows : ToggleListing(r)
    BY <2>3 DEF ToggleListing, TradeInv, TypeOK
  <2>4. CASE \E r \in Rows : FindLinks(r)
    BY <2>4 DEF FindLinks, groupVars, TradeInv, TypeOK
  <2> QED
    BY <2>1, <2>2, <2>3, <2>4
<1>2. /\ Live' = Live /\ Stacked' /\ RecordIsCurrent'
      /\ Pending' <=> Pending
      /\ \A r : Linked(r)' <=> Linked(r)
  BY <1>1, TradeAlone
<1>3. /\ deleting' \in [Rows -> {"no", "linked", "unlinked"}]
      /\ \A r \in Rows : deleting'[r] = "unlinked"
                           => deleting[r] = "unlinked" \/ ~Linked(r)
  BY DEF Join, ToggleShare, ToggleListing, FindLinks, TradeInv, TypeOK
<1>4. TypeOK'
  BY <1>1, <1>2, <1>3 DEF TradeInv, TypeOK, tradeVars
<1>5. CreatedOnce'
  BY <1>1 DEF TradeInv, CreatedOnce, tradeVars
<1>6. WindowsClosed'
  BY <1>1, <1>2, <1>3 DEF TradeInv, WindowsClosed
<1>7. PendingIsSound'
  BY <1>1, <1>2 DEF TradeInv, PendingIsSound, tradeVars
<1> QED
  BY <1>2, <1>4, <1>5, <1>6, <1>7 DEF TradeInv

\* Every step of a trade keeps the invariant.
LEMMA TradeStep == TradeInv /\ [Next]_vars => TradeInv'
<1> SUFFICES ASSUME TradeInv, [Next]_vars PROVE TradeInv'
  OBVIOUS
<1>1. ASSUME NEW items \in SUBSET Rows, CheckProposal(items) PROVE TradeInv'
  BY <1>1, CheckKeeps
<1>2. CASE CommitProposal
  BY <1>2, CommitProposalKeeps
<1>3. CASE FailProposal
  BY <1>3, FailProposalKeeps
<1>4. ASSUME NEW p \in Parties, View(p) PROVE TradeInv'
  BY <1>4, ViewKeeps
<1>5. ASSUME NEW p \in Parties, NEW items \in SUBSET Rows, Counter(p, items)
      PROVE  TradeInv'
  BY <1>5, CounterKeeps
<1>6. ASSUME NEW p \in Parties, DeclineCounter(p) PROVE TradeInv'
  BY <1>6, DeclineKeeps
<1>7. ASSUME NEW p \in Parties, NEW outcome \in {"accepted", "declined"},
             Answer(p, outcome)
      PROVE  TradeInv'
  <2>1. outcome \in Terminal
    BY DEF Terminal
  <2> QED
    BY <1>7, <2>1, CloseStepKeeps DEF Answer
<1>8. ASSUME NEW p \in Parties, Cancel(p) PROVE TradeInv'
  <2>1. "cancelled" \in Terminal
    BY DEF Terminal
  <2> QED
    BY <1>8, <2>1, CloseStepKeeps DEF Cancel
<1>9. CASE \/ \E p \in Parties : Join(p)
           \/ ToggleShare
           \/ \E r \in RecipientRows : ToggleListing(r)
           \/ \E r \in Rows : FindLinks(r)
  BY <1>9, EnvironmentKeeps
<1>10. ASSUME NEW p \in Parties, Leave(p) PROVE TradeInv'
  <2>1. /\ members' = members \ {p} /\ shared' = (shared /\ p # Recipient)
        /\ Abandon /\ raced' = (raced \/ proposal # {})
        /\ UNCHANGED <<open, listed, stock, proposal, deleting, seen, dropped>>
    BY <1>10 DEF Leave
  <2>2. open' \in BOOLEAN /\ shared' \in BOOLEAN
    BY <2>1 DEF TradeInv, TypeOK
  <2>3. shared' => shared /\ Recipient \in members'
    BY <2>1 DEF TradeInv, TypeOK
  <2> QED
    BY <2>1, <2>2, <2>3, DepartureKeeps
<1>11. CASE DeletePlaygroup
  BY <1>11, DepartureKeeps DEF DeletePlaygroup
<1>12. ASSUME NEW r \in Rows, DeleteRow(r) PROVE TradeInv'
  BY <1>12, DeleteRowKeeps
<1>13. ASSUME NEW r \in Rows, DropRow(r) PROVE TradeInv'
  BY <1>13, DropRowKeeps
<1>14. CASE UNCHANGED vars
  <2>1. UNCHANGED <<groupVars, tradeVars, stock, proposal, deleting, seen, historyVars>>
    BY <1>14 DEF vars
  <2>2. /\ Live' = Live /\ Stacked' /\ RecordIsCurrent'
        /\ Pending' <=> Pending
        /\ \A r : Linked(r)' <=> Linked(r)
    BY <2>1, TradeAlone
  <2> QED
    BY <2>1, <2>2 DEF TradeInv, TypeOK, CreatedOnce, WindowsClosed, PendingIsSound,
                      groupVars, tradeVars
<1> QED
  BY <1>1, <1>2, <1>3, <1>4, <1>5, <1>6, <1>7, <1>8, <1>9, <1>10, <1>11, <1>12,
     <1>13, <1>14 DEF Next

\* The invariant the theorems below are read off from.
THEOREM TradeInvariant == Spec => []TradeInv
<1> QED
  BY TradeInit, TradeStep, PTL DEF Spec

\* The shape of the rows, whatever the number of revisions: a trade always has a
\* version on the table, so it can always be answered.
THEOREM TypeCorrect == Spec => []TypeOK
<1>1. TradeInv => TypeOK
  BY DEF TradeInv
<1> QED
  BY <1>1, TradeInvariant, PTL

\* The terminal snapshot is the version that was on the table, through any
\* negotiation (write_trade_terminal_snapshot, current_revision).
THEOREM RecordsAreExact == Spec => []RecordIsCurrent
<1>1. TradeInv => RecordIsCurrent
  BY DEF TradeInv
<1> QED
  BY <1>1, TradeInvariant, PTL

\* A departure or a deletion leaves an unsound trade pending only by running
\* through one of the two windows the row lock does not cover, or, as far as a row
\* goes, by not calling the cleanup hook at all.
THEOREM PendingTradesAreSound == Spec => []PendingIsSound
<1>1. TradeInv => PendingIsSound
  BY DEF TradeInv
<1> QED
  BY <1>1, TradeInvariant, PTL

\* No step touches a closed trade, its revisions or its record.
THEOREM ClosedTradesAreFinal == Spec => ClosedIsFinal
<1>1. TradeInv /\ [Next]_vars => [(status \in Terminal) => UNCHANGED tradeVars]_vars
  <2> SUFFICES ASSUME TradeInv, Next, status \in Terminal PROVE UNCHANGED tradeVars
    OBVIOUS
  <2>1. ~Pending /\ status # "none" /\ proposal = {}
    BY DEF Terminal, Pending, TradeInv, CreatedOnce
  <2>2. Abandon => UNCHANGED tradeVars
    BY <2>1 DEF Abandon
  <2> QED
    BY <2>1, <2>2 DEF Next, CheckProposal, CommitProposal, FailProposal, View, Counter,
         DeclineCounter, Answer, Cancel, Join, Leave, ToggleShare, DeletePlaygroup,
         ToggleListing, FindLinks, DeleteRow, DropRow
<1> QED
  BY <1>1, TradeInvariant, PTL DEF Spec, ClosedIsFinal

\* The negotiation is a stack: declining a counter uncovers the version under it.
THEOREM DeclinesUncover == Spec => DeclineRestores
<1> DEFINE Restores == \A i \in DOMAIN revisions :
                         revisions'[i].declined # revisions[i].declined
                           => Current' = revisions[i].over
<1>1. TradeInv /\ [Next]_vars => [Restores]_vars
  <2> SUFFICES ASSUME TradeInv, TradeInv', Next, NEW i \in DOMAIN revisions,
                      revisions'[i].declined # revisions[i].declined
               PROVE  Current' = revisions[i].over
    BY TradeStep
  <2>1. CASE \E p \in Parties : DeclineCounter(p)
    <3>1. PICK p \in Parties : DeclineCounter(p)
      BY <2>1
    <3>2. i = Current
      BY <3>1, DeclineUncovers
    <3>3. /\ revisions[i].over \in Live'
          /\ \A j \in Live' : j <= revisions[i].over
          /\ Live' = Live \ {Current}
      BY <3>1, <3>2, DeclineUncovers
    <3>4. Live' \subseteq Int
      BY <3>3, RevisionFields DEF TradeInv, Live
    <3> DEFINE top == revisions[i].over
    <3>5. top \in Live' /\ \A y \in Live' : top >= y
      BY <3>3, <3>4
    <3>6. ASSUME NEW x \in Live', \A y \in Live' : x >= y
          PROVE  x = top
      <4>1. x \in Int /\ top \in Int /\ x >= top /\ top >= x
        BY <3>4, <3>5, <3>6
      <4> QED
        BY <4>1
    <3>7. Max(Live') = top
      BY <3>5, <3>6 DEF Max
    <3> QED
      BY <3>7 DEF Current
  <2>2. CASE UNCHANGED revisions
    BY <2>2
  <2>3. CASE \E p \in Parties, items \in SUBSET Rows : Counter(p, items)
    <3>1. PICK p \in Parties, items \in SUBSET Rows : Counter(p, items)
      BY <2>3
    <3>2. i \in 1 .. Len(revisions) /\ revisions \in Seq(Revisions)
      BY RevisionFields DEF TradeInv, TypeOK
    <3>3. revisions'[i] = revisions[i]
      BY <3>1, <3>2 DEF Counter
    <3> QED
      BY <3>3
  <2>4. CASE CommitProposal
    BY <2>4 DEF CommitProposal, TradeInv, CreatedOnce
  <2> QED
    BY <2>1, <2>2, <2>3, <2>4 DEF Next, CheckProposal, FailProposal, View, Answer,
         Cancel, Join, Leave, ToggleShare, DeletePlaygroup, ToggleListing, FindLinks,
         DeleteRow, DropRow, Abandon, Close, tradeVars
<1> QED
  BY <1>1, TradeInvariant, PTL DEF Spec, DeclineRestores

=============================================================================
