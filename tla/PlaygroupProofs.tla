-------------------------- MODULE PlaygroupProofs --------------------------
(***************************************************************************)
(* Theorems about Playgroup: for any number of users, playgroups and       *)
(* requests in flight, the constraints of the database hold, a playgroup   *)
(* has one owner as long as no decision about owners commits on rows that  *)
(* have changed, and only members share as long as no share does.  The     *)
(* last part is about Alerts.                                              *)
(***************************************************************************)
EXTENDS Playgroup, Alerts, FiniteSetTheorems, SequenceTheorems, WellFoundedInduction, TLAPS

----------------------------------------------------------------------------
(* The rows of one playgroup *)

UsersIn(rows) == {m.user : m \in ToSet(rows)}
OwnersIn(rows) == {m.user : m \in {m \in ToSet(rows) : m.role = "owner"}}

\* A user has one row.
OneRowEach(rows) ==
  \A i, j \in 1 .. Len(rows) : rows[i].user = rows[j].user => i = j

\* Rows of one playgroup, as the constraints of the table allow them.
Table == {rows \in Seq(Member) : OneRowEach(rows)}

\* The rows of a table, their users and its owners.
LEMMA TableRows ==
  ASSUME NEW rows \in Table
  PROVE  /\ rows \in Seq(Member) /\ Len(rows) \in Nat
         /\ DOMAIN rows = 1 .. Len(rows)
         /\ \A k \in 1 .. Len(rows) : rows[k] \in Member
         /\ ToSet(rows) = {rows[k] : k \in 1 .. Len(rows)}
         /\ ToSet(rows) \subseteq Member
<1>1. rows \in Seq(Member)
  BY DEF Table
<1>2. Len(rows) \in Nat /\ DOMAIN rows = 1 .. Len(rows) /\ rows \in [1 .. Len(rows) -> Member]
  BY <1>1, LenProperties
<1> QED
  BY <1>1, <1>2 DEF ToSet

\* Who has a row, and who has an owner's row.
LEMMA TableUsers ==
  ASSUME NEW rows \in Table
  PROVE  /\ UsersIn(rows) \subseteq Users /\ OwnersIn(rows) \subseteq UsersIn(rows)
         /\ \A v : v \in UsersIn(rows) <=> \E k \in 1 .. Len(rows) : rows[k].user = v
         /\ \A v : v \in OwnersIn(rows) <=>
              \E k \in 1 .. Len(rows) : rows[k].user = v /\ rows[k].role = "owner"
<1>1. ToSet(rows) = {rows[k] : k \in 1 .. Len(rows)} /\ ToSet(rows) \subseteq Member
  BY TableRows
<1>2. \A m \in Member : m.user \in Users
  BY DEF Member
<1> QED
  BY <1>1, <1>2 DEF UsersIn, OwnersIn

\* An owner's row is found again: a user with that row is an owner, and has no other.
LEMMA OneRow ==
  ASSUME NEW rows \in Table, NEW m \in ToSet(rows), NEW n \in ToSet(rows), m.user = n.user
  PROVE  m = n
<1>1. ToSet(rows) = {rows[k] : k \in 1 .. Len(rows)}
  BY TableRows
<1>2. PICK i \in 1 .. Len(rows), j \in 1 .. Len(rows) : m = rows[i] /\ n = rows[j]
  BY <1>1
<1>3. i = j
  BY <1>2 DEF Table, OneRowEach
<1> QED
  BY <1>2, <1>3

\* Len counts the users.
LEMMA RowsCountUsers ==
  ASSUME NEW rows \in Table
  PROVE  Len(rows) = Cardinality(UsersIn(rows))
<1> DEFINE n == Len(rows)
           f == [k \in 1 .. n |-> rows[k].user]
<1>1. n \in Nat
  BY TableRows
<1>2. f \in Bijection(1 .. n, UsersIn(rows))
  <2>1. \A k \in 1 .. n : f[k] \in UsersIn(rows)
    BY TableUsers
  <2>2. f \in [1 .. n -> UsersIn(rows)]
    BY <2>1
  <2>3. \A i, j \in 1 .. n : f[i] = f[j] => i = j
    BY DEF Table, OneRowEach
  <2>4. \A v \in UsersIn(rows) : \E k \in 1 .. n : f[k] = v
    BY TableUsers
  <2> QED
    BY <2>2, <2>3, <2>4 DEF Bijection, Injection, Surjection, IsInjective
<1>3. ExistsBijection(1 .. n, UsersIn(rows))
  BY <1>2 DEF ExistsBijection
<1> QED
  BY <1>1, <1>3, FS_CountingElements

\* The empty table, and the one of a new playgroup.
LEMMA SmallTables ==
  ASSUME NEW u \in Users
  PROVE  /\ <<>> \in Table /\ UsersIn(<<>>) = {} /\ OwnersIn(<<>>) = {}
         /\ <<[user |-> u, role |-> "owner"]>> \in Table
         /\ UsersIn(<<[user |-> u, role |-> "owner"]>>) = {u}
         /\ OwnersIn(<<[user |-> u, role |-> "owner"]>>) = {u}
<1> DEFINE m == [user |-> u, role |-> "owner"]
<1>1. <<>> \in Table
  BY DEF Table, OneRowEach
<1>2. m \in Member /\ m.user = u /\ m.role = "owner"
  BY DEF Member
<1> HIDE DEF m
<1>3. <<m>> \in Seq(Member) /\ Len(<<m>>) = 1 /\ <<m>>[1] = m
  BY <1>2
<1>4. <<m>> \in Table
  BY <1>3 DEF Table, OneRowEach
<1>5. Len(<<>>) = 0
  OBVIOUS
<1>6. UsersIn(<<>>) = {} /\ OwnersIn(<<>>) = {}
  BY <1>1, <1>5, TableUsers
<1>7. UsersIn(<<m>>) = {u} /\ OwnersIn(<<m>>) = {u}
  BY <1>2, <1>3, <1>4, TableUsers
<1> QED
  BY <1>1, <1>4, <1>6, <1>7 DEF m

\* A table without users is empty.
LEMMA NobodyLeft ==
  ASSUME NEW rows \in Table, UsersIn(rows) = {}
  PROVE  rows = <<>>
<1>1. Len(rows) \in Nat /\ rows \in Seq(Member)
  BY TableRows
<1>2. ASSUME Len(rows) # 0 PROVE FALSE
  <2>1. 1 \in 1 .. Len(rows)
    BY <1>1, <1>2
  <2>2. rows[1].user \in UsersIn(rows)
    BY <2>1, TableUsers
  <2> QED
    BY <2>2
<1> QED
  BY <1>1, <1>2, EmptySeq

\* join_by_code adds a row of a member.
LEMMA AppendRow ==
  ASSUME NEW rows \in Table, NEW u \in Users \ UsersIn(rows)
  PROVE  /\ Append(rows, [user |-> u, role |-> "member"]) \in Table
         /\ UsersIn(Append(rows, [user |-> u, role |-> "member"])) = UsersIn(rows) \cup {u}
         /\ OwnersIn(Append(rows, [user |-> u, role |-> "member"])) = OwnersIn(rows)
<1> DEFINE m == [user |-> u, role |-> "member"]
           new == Append(rows, m)
<1>1. m \in Member /\ m.user = u /\ m.role = "member" /\ m.role # "owner"
  BY DEF Member
<1>2. rows \in Seq(Member) /\ Len(rows) \in Nat
  BY TableRows
<1> HIDE DEF m
<1>3. /\ new \in Seq(Member) /\ Len(new) = Len(rows) + 1
      /\ \A i \in 1 .. Len(rows) : new[i] = rows[i]
      /\ new[Len(rows) + 1] = m
  BY <1>1, <1>2, AppendProperties
<1>4. \A i \in 1 .. Len(rows) : rows[i].user # u
  BY TableUsers
<1> HIDE DEF new
<1>5. \A i \in 1 .. Len(new) : i \in 1 .. Len(rows) \/ i = Len(rows) + 1
  BY <1>2, <1>3
<1>6. new \in Table
  <2>1. ASSUME NEW i \in 1 .. Len(new), NEW j \in 1 .. Len(new), new[i].user = new[j].user
        PROVE  i = j
    BY <2>1, <1>1, <1>3, <1>4, <1>5 DEF Table, OneRowEach
  <2> QED
    BY <2>1, <1>3 DEF Table, OneRowEach
<1>7. \A v : v \in UsersIn(new) <=> \E k \in 1 .. Len(new) : new[k].user = v
  BY <1>6, TableUsers
<1>8. \A v : v \in UsersIn(rows) <=> \E k \in 1 .. Len(rows) : rows[k].user = v
  BY TableUsers
<1>9. \A k \in 1 .. Len(rows) : k \in 1 .. Len(new)
  BY <1>2, <1>3
<1>10. Len(rows) + 1 \in 1 .. Len(new)
  BY <1>2, <1>3
<1>11. UsersIn(new) = UsersIn(rows) \cup {u}
  BY <1>1, <1>3, <1>5, <1>7, <1>8, <1>9, <1>10
<1>12. \A v : v \in OwnersIn(new) <=>
          \E k \in 1 .. Len(new) : new[k].user = v /\ new[k].role = "owner"
  BY <1>6, TableUsers
<1>13. \A v : v \in OwnersIn(rows) <=>
          \E k \in 1 .. Len(rows) : rows[k].user = v /\ rows[k].role = "owner"
  BY TableUsers
<1>14. OwnersIn(new) = OwnersIn(rows)
  <2>1. ASSUME NEW v \in OwnersIn(new) PROVE v \in OwnersIn(rows)
    <3>1. PICK k \in 1 .. Len(new) : new[k].user = v /\ new[k].role = "owner"
      BY <1>12, <2>1
    <3>2. k \in 1 .. Len(rows)
      BY <1>1, <1>3, <1>5, <3>1
    <3> QED
      BY <1>3, <1>13, <3>1, <3>2
  <2>2. ASSUME NEW v \in OwnersIn(rows) PROVE v \in OwnersIn(new)
    <3>1. PICK k \in 1 .. Len(rows) : rows[k].user = v /\ rows[k].role = "owner"
      BY <1>13, <2>2
    <3> QED
      BY <1>3, <1>9, <1>12, <3>1
  <2> QED
    BY <2>1, <2>2
<1> QED
  BY <1>6, <1>11, <1>14 DEF new, m

\* A deleted row is its user's only one, and the other rows stay.
LEMMA WithoutRow ==
  ASSUME NEW rows \in Table, NEW u
  PROVE  /\ Without(rows, u) \in Table
         /\ UsersIn(Without(rows, u)) = UsersIn(rows) \ {u}
         /\ OwnersIn(Without(rows, u)) = OwnersIn(rows) \ {u}
<1> DEFINE n == Len(rows)
           new == Without(rows, u)
<1>1. rows \in Seq(Member) /\ n \in Nat /\ DOMAIN rows = 1 .. n
      /\ \A k \in 1 .. n : rows[k] \in Member
  BY TableRows
<1>2. CASE ~ \E k \in 1 .. n : rows[k].user = u
  <2>1. new = rows
    BY <1>1, <1>2 DEF Without
  <2>2. u \notin UsersIn(rows) /\ u \notin OwnersIn(rows)
    BY <1>2, TableUsers
  <2> QED
    BY <2>1, <2>2
<1>3. CASE \E k \in 1 .. n : rows[k].user = u
  <2> DEFINE c == CHOOSE k \in DOMAIN rows : rows[k].user = u
  <2>1. c \in 1 .. n /\ rows[c].user = u
    BY <1>1, <1>3
  <2>2. new = RemoveAt(rows, c)
    BY <1>1, <1>3 DEF Without
  <2> HIDE DEF c
  <2>3. new = SubSeq(rows, 1, c - 1) \o SubSeq(rows, c + 1, n)
    BY <2>2 DEF RemoveAt
  <2> DEFINE front == SubSeq(rows, 1, c - 1)
             back == SubSeq(rows, c + 1, n)
  <2>4. /\ front \in Seq(Member) /\ Len(front) = c - 1
        /\ \A i \in 1 .. c - 1 : front[i] = rows[i]
    <3>1. 1 \in Int /\ c - 1 \in Int /\ \A i \in 1 .. c - 1 : rows[i] \in Member
      BY <1>1, <2>1
    <3>2. /\ front \in Seq(Member)
          /\ Len(front) = IF 1 <= c - 1 THEN c - 1 - 1 + 1 ELSE 0
          /\ \A i \in 1 .. c - 1 - 1 + 1 : front[i] = rows[1 + i - 1]
      BY <3>1, SubSeqProperties
    <3> HIDE DEF front
    <3> QED
      BY <1>1, <2>1, <3>2
  <2>5. /\ back \in Seq(Member) /\ Len(back) = n - c
        /\ \A i \in 1 .. n - c : back[i] = rows[c + i]
    <3>1. c + 1 \in Int /\ n \in Int /\ \A i \in c + 1 .. n : rows[i] \in Member
      BY <1>1, <2>1
    <3>2. /\ back \in Seq(Member)
          /\ Len(back) = IF c + 1 <= n THEN n - (c + 1) + 1 ELSE 0
          /\ \A i \in 1 .. n - (c + 1) + 1 : back[i] = rows[c + 1 + i - 1]
      BY <3>1, SubSeqProperties
    <3> HIDE DEF back
    <3>3. Len(back) = n - c
      <4>1. n \in Int /\ c \in Int /\ c <= n
        BY <1>1, <2>1
      <4>2. Len(back) = IF c + 1 <= n THEN n - (c + 1) + 1 ELSE 0
        BY <3>2
      <4> HIDE DEF n
      <4> QED
        BY <4>1, <4>2
    <3>4. ASSUME NEW i \in 1 .. n - c PROVE back[i] = rows[c + i]
      <4>1. i \in 1 .. n - (c + 1) + 1 /\ c + 1 + i - 1 = c + i
        BY <1>1, <2>1
      <4>2. back[i] = rows[c + 1 + i - 1]
        BY <3>2, <4>1
      <4> QED
        BY <4>1, <4>2
    <3> QED
      BY <3>2, <3>3, <3>4
  <2> HIDE DEF front, back, new
  <2>6. /\ new \in Seq(Member) /\ Len(new) = Len(front) + Len(back)
        /\ \A i \in 1 .. Len(front) + Len(back) :
             new[i] = IF i <= Len(front) THEN front[i] ELSE back[i - Len(front)]
    <3>1. new = front \o back
      BY <2>3 DEF front, back
    <3> QED
      BY <2>4, <2>5, <3>1, ConcatProperties
  <2>7. Len(new) = n - 1
    BY <1>1, <2>1, <2>4, <2>5, <2>6
  <2>8. \A i \in 1 .. n - 1 : new[i] = rows[IF i < c THEN i ELSE i + 1]
    <3>1. ASSUME NEW i \in 1 .. n - 1, i < c PROVE new[i] = rows[i]
      BY <1>1, <2>1, <2>4, <2>5, <2>6, <3>1
    <3>2. ASSUME NEW i \in 1 .. n - 1, ~(i < c) PROVE new[i] = rows[i + 1]
      <4>1. i - (c - 1) \in 1 .. n - c /\ c + (i - (c - 1)) = i + 1
        BY <1>1, <2>1, <3>2
      <4>2. ~(i <= c - 1) /\ i \in 1 .. (c - 1) + (n - c)
        BY <1>1, <2>1, <3>2
      <4>3. new[i] = back[i - (c - 1)]
        BY <2>4, <2>5, <2>6, <4>2
      <4> QED
        BY <2>5, <4>1, <4>3
    <3> QED
      BY <3>1, <3>2
  <2>9. new \in Table
    <3>1. ASSUME NEW i \in 1 .. n - 1, NEW j \in 1 .. n - 1, new[i].user = new[j].user
          PROVE  i = j
      <4> DEFINE p == IF i < c THEN i ELSE i + 1
                 q == IF j < c THEN j ELSE j + 1
      <4>1. p \in 1 .. n /\ q \in 1 .. n /\ (p = q => i = j)
        BY <1>1, <2>1
      <4>2. rows[p].user = rows[q].user
        BY <2>8, <3>1
      <4>3. p = q
        BY <4>1, <4>2 DEF Table, OneRowEach
      <4> QED
        BY <4>1, <4>3
    <3> QED
      BY <2>6, <2>7, <3>1 DEF Table, OneRowEach
  <2>10. \A k \in 1 .. n : rows[k].user = u <=> k = c
    BY <2>1 DEF Table, OneRowEach
  <2>11. \A k \in 1 .. n : k # c => \E i \in 1 .. n - 1 : new[i] = rows[k]
    <3>1. ASSUME NEW k \in 1 .. n, k < c PROVE \E i \in 1 .. n - 1 : new[i] = rows[k]
      <4>1. k \in 1 .. n - 1
        BY <1>1, <2>1, <3>1
      <4> QED
        BY <2>8, <3>1, <4>1
    <3>2. ASSUME NEW k \in 1 .. n, k > c PROVE \E i \in 1 .. n - 1 : new[i] = rows[k]
      <4>1. k - 1 \in 1 .. n - 1 /\ ~(k - 1 < c) /\ k - 1 + 1 = k
        BY <1>1, <2>1, <3>2
      <4> QED
        BY <2>8, <4>1
    <3> QED
      BY <1>1, <2>1, <3>1, <3>2
  <2>12. \A i \in 1 .. n - 1 : \E k \in 1 .. n : k # c /\ new[i] = rows[k]
    <3>1. ASSUME NEW i \in 1 .. n - 1
          PROVE  /\ (IF i < c THEN i ELSE i + 1) \in 1 .. n
                 /\ (IF i < c THEN i ELSE i + 1) # c
      BY <1>1, <2>1
    <3> QED
      BY <2>8, <3>1
  <2>13. /\ \A v : v \in UsersIn(new) <=> \E k \in 1 .. n - 1 : new[k].user = v
         /\ \A v : v \in OwnersIn(new) <=>
              \E k \in 1 .. n - 1 : new[k].user = v /\ new[k].role = "owner"
    BY <2>7, <2>9, TableUsers
  <2>14. /\ \A v : v \in UsersIn(rows) <=> \E k \in 1 .. n : rows[k].user = v
         /\ \A v : v \in OwnersIn(rows) <=>
              \E k \in 1 .. n : rows[k].user = v /\ rows[k].role = "owner"
    BY TableUsers
  <2>15. UsersIn(new) = UsersIn(rows) \ {u}
    <3>1. ASSUME NEW v \in UsersIn(new) PROVE v \in UsersIn(rows) \ {u}
      <4>1. PICK i \in 1 .. n - 1 : new[i].user = v
        BY <2>13, <3>1
      <4>2. PICK k \in 1 .. n : k # c /\ new[i] = rows[k]
        BY <2>12
      <4> QED
        BY <2>10, <2>14, <4>1, <4>2
    <3>2. ASSUME NEW v \in UsersIn(rows) \ {u} PROVE v \in UsersIn(new)
      <4>1. PICK k \in 1 .. n : rows[k].user = v
        BY <2>14, <3>2
      <4>2. PICK i \in 1 .. n - 1 : new[i] = rows[k]
        BY <2>10, <2>11, <3>2, <4>1
      <4> QED
        BY <2>13, <4>1, <4>2
    <3> QED
      BY <3>1, <3>2
  <2>16. OwnersIn(new) = OwnersIn(rows) \ {u}
    <3>1. ASSUME NEW v \in OwnersIn(new) PROVE v \in OwnersIn(rows) \ {u}
      <4>1. PICK i \in 1 .. n - 1 : new[i].user = v /\ new[i].role = "owner"
        BY <2>13, <3>1
      <4>2. PICK k \in 1 .. n : k # c /\ new[i] = rows[k]
        BY <2>12
      <4> QED
        BY <2>10, <2>14, <4>1, <4>2
    <3>2. ASSUME NEW v \in OwnersIn(rows) \ {u} PROVE v \in OwnersIn(new)
      <4>1. PICK k \in 1 .. n : rows[k].user = v /\ rows[k].role = "owner"
        BY <2>14, <3>2
      <4>2. PICK i \in 1 .. n - 1 : new[i] = rows[k]
        BY <2>10, <2>11, <3>2, <4>1
      <4> QED
        BY <2>13, <4>1, <4>2
    <3> QED
      BY <3>1, <3>2
  <2> QED
    BY <2>9, <2>15, <2>16 DEF new
<1> QED
  BY <1>2, <1>3

\* A change of roles changes no user, and the owners as it says.
LEMMA HoldsRole ==
  ASSUME NEW rows \in Table, NEW u, NEW role \in {"owner", "member"}
  PROVE  /\ Holds(rows, u, role) \in Table
         /\ UsersIn(Holds(rows, u, role)) = UsersIn(rows)
         /\ OwnersIn(Holds(rows, u, role)) =
              IF role = "owner" /\ u \in UsersIn(rows) THEN OwnersIn(rows) \cup {u}
              ELSE OwnersIn(rows) \ {u}
<1> DEFINE n == Len(rows)
           new == Holds(rows, u, role)
<1>1. rows \in Seq(Member) /\ n \in Nat /\ DOMAIN rows = 1 .. n
      /\ \A k \in 1 .. n : rows[k] \in Member
  BY TableRows
<1>2. new = [k \in 1 .. n |-> IF rows[k].user = u THEN [rows[k] EXCEPT !.role = role] ELSE rows[k]]
  BY <1>1 DEF Holds
<1> HIDE DEF new
<1>3. ASSUME NEW k \in 1 .. n
      PROVE  /\ new[k] \in Member /\ new[k].user = rows[k].user
             /\ new[k].role = IF rows[k].user = u THEN role ELSE rows[k].role
  BY <1>1, <1>2 DEF Member
<1>4. new \in Seq(Member) /\ Len(new) = n
  <2>1. new \in [1 .. n -> Member]
    BY <1>2, <1>3
  <2>2. new \in Seq(Member)
    BY <1>1, <2>1, SeqDef
  <2> QED
    BY <1>1, <2>1, <2>2, LenProperties
<1>5. new \in Table
  BY <1>3, <1>4 DEF Table, OneRowEach
<1>6. /\ \A v : v \in UsersIn(new) <=> \E k \in 1 .. n : new[k].user = v
      /\ \A v : v \in OwnersIn(new) <=>
           \E k \in 1 .. n : new[k].user = v /\ new[k].role = "owner"
  BY <1>4, <1>5, TableUsers
<1>7. /\ \A v : v \in UsersIn(rows) <=> \E k \in 1 .. n : rows[k].user = v
      /\ \A v : v \in OwnersIn(rows) <=>
           \E k \in 1 .. n : rows[k].user = v /\ rows[k].role = "owner"
  BY TableUsers
<1>8. UsersIn(new) = UsersIn(rows)
  <2>1. ASSUME NEW v PROVE v \in UsersIn(new) <=> v \in UsersIn(rows)
    <3>1. \A k \in 1 .. n : new[k].user = v <=> rows[k].user = v
      BY <1>3
    <3> QED
      BY <1>6, <1>7, <3>1
  <2> QED
    BY <2>1
<1>9. CASE role = "owner" /\ u \in UsersIn(rows)
  <2>1. OwnersIn(new) = OwnersIn(rows) \cup {u}
    BY <1>3, <1>6, <1>7, <1>9
  <2> QED
    BY <1>5, <1>8, <1>9, <2>1 DEF new
<1>10. CASE ~(role = "owner" /\ u \in UsersIn(rows))
  <2>1. ASSUME NEW v \in OwnersIn(new) PROVE v \in OwnersIn(rows) \ {u}
    <3>1. PICK k \in 1 .. n : new[k].user = v /\ new[k].role = "owner"
      BY <1>6, <2>1
    <3>2. rows[k].user = v /\ (v = u => role = "owner")
      BY <1>3, <3>1
    <3>3. v # u
      BY <1>7, <1>10, <3>2
    <3> QED
      BY <1>3, <1>7, <3>1, <3>2, <3>3
  <2>2. ASSUME NEW v \in OwnersIn(rows) \ {u} PROVE v \in OwnersIn(new)
    <3>1. PICK k \in 1 .. n : rows[k].user = v /\ rows[k].role = "owner"
      BY <1>7, <2>2
    <3> QED
      BY <1>3, <1>6, <2>2, <3>1
  <2>3. OwnersIn(new) = OwnersIn(rows) \ {u}
    BY <2>1, <2>2
  <2> QED
    BY <1>5, <1>8, <1>10, <2>3 DEF new
<1> QED
  BY <1>9, <1>10

\* After a hand-over by the only owner to another member, that one is the only owner.
LEMMA HandOver ==
  ASSUME NEW rows \in Table, NEW u, NEW t
  PROVE  /\ HandedOver(rows, u, t) \in Table
         /\ UsersIn(HandedOver(rows, u, t)) = UsersIn(rows)
         /\ t \in UsersIn(rows) /\ OwnersIn(rows) = {u} =>
              OwnersIn(HandedOver(rows, u, t)) = {t}
<1> DEFINE mid == Holds(rows, u, "member")
<1>1. /\ mid \in Table /\ UsersIn(mid) = UsersIn(rows)
      /\ OwnersIn(mid) = OwnersIn(rows) \ {u}
  BY HoldsRole
<1> HIDE DEF mid
<1>2. /\ Holds(mid, t, "owner") \in Table /\ UsersIn(Holds(mid, t, "owner")) = UsersIn(mid)
      /\ t \in UsersIn(mid) => OwnersIn(Holds(mid, t, "owner")) = OwnersIn(mid) \cup {t}
  BY <1>1, HoldsRole
<1>3. HandedOver(rows, u, t) = Holds(mid, t, "owner")
  BY DEF HandedOver, mid
<1> QED
  BY <1>1, <1>2, <1>3

\* Numbers of which there is one have a least one.
LEMMA LeastOf ==
  ASSUME NEW S \in SUBSET Nat, S # {}
  PROVE  \E n \in S : \A m \in S : n =< m
<1>1. PICK n \in S : \A m \in S : <<m, n>> \notin OpToRel(<, Nat)
  BY NatLessThanWellFounded, WFMin, Zenon
<1>2. ASSUME NEW m \in S PROVE n =< m
  <2>1. <<m, n>> \in Nat \X Nat
    OBVIOUS
  <2>2. <<m, n>> \in OpToRel(<, Nat) <=> m < n
    BY <2>1, Zenon DEF OpToRel
  <2>3. ~(m < n)
    BY <1>1, <2>2, Zenon
  <2> QED
    BY <2>3
<1> QED
  BY <1>2

----------------------------------------------------------------------------
(* The invariant *)

Session == [group : Groups, open : BOOLEAN]

\* One playgroup: its rows, creator and shares, given the accounts, whether it is
\* there, and what has been decided on rows that had changed.
Fits(A, there, R, rows, c, sh) ==
  /\ rows \in Table /\ UsersIn(rows) \subseteq A /\ sh \subseteq A
  /\ c \in Users /\ (there => c \in A)
  /\ ~there => rows = <<>> /\ sh = {}
  /\ "roles" \notin R /\ there => \E v : OwnersIn(rows) = {v}
  /\ "shares" \notin R => sh \subseteq UsersIn(rows)

GroupsFit ==
  /\ accounts \subseteq Users /\ playgroups \subseteq Groups
  /\ raced \subseteq {"roles", "shares"}
  /\ members \in [Groups -> Table] /\ creator \in [Groups -> Users]
  /\ shares \in [Groups -> SUBSET Users]
  /\ \A g \in Groups :
       Fits(accounts, g \in playgroups, raced, members[g], creator[g], shares[g])

OwnerRow(g, u) == <<g, [user |-> u, role |-> "owner"]>>

\* What the checks of a request established about the rows it read.
Reads(r) ==
  /\ r.op # "account" => r.group \in Groups
  /\ r.op = "leave" =>
       (OwnerRow(r.group, r.user) \in r.basis => \A h \in r.basis : h[2].user = r.user)
  /\ r.op = "remove" => \A h \in r.basis : h[2].user = r.target => h[2].role = "member"
  /\ r.op = "transfer" =>
       /\ r.target # r.user /\ OwnerRow(r.group, r.user) \in r.basis
       /\ \E h \in r.basis : h[2].user = r.target
  /\ r.op = "share" => r.basis # {}

\* Besides, the rows a request holds are there.
Sound(r) ==
  /\ r \in Request /\ Reads(r)
  /\ \A h \in r.held : h[2] \in UsersIn(members[h[1]])

RequestsSound ==
  /\ request \in [Slots -> Request \cup {Idle}]
  /\ \A s \in Open : Sound(request[s])

SessionsFit ==
  /\ sessions \in [SessionIds -> Session \cup {NoSession}]
  /\ game \in [group : Groups \cup {NoGroup}, session : SessionIds \cup {0}]
  /\ \A m, n \in SessionIds :
       /\ sessions[m] # NoSession /\ sessions[n] # NoSession
       /\ sessions[m].open /\ sessions[n].open /\ sessions[m].group = sessions[n].group
       => m = n
  /\ \A n \in SessionIds : sessions[n] # NoSession => sessions[n].group \in playgroups
  /\ game.group # NoGroup => game.group \in playgroups
  /\ game.session # 0 => sessions[game.session] # NoSession

PlaygroupInv == GroupsFit /\ RequestsSound /\ SessionsFit

----------------------------------------------------------------------------
(* What the steps share *)

\* In and Owners are about the rows.
LEMMA Membership ==
  \A g \in Groups :
    /\ In(g) = UsersIn(members[g]) /\ Owners(g) = OwnersIn(members[g])
    /\ Rows(g) = ToSet(members[g])
BY DEF In, Owners, Rows, UsersIn, OwnersIn

\* A playgroup a step leaves alone still fits when more has been raced.
LEMMA FitsStill ==
  ASSUME NEW A, NEW there \in BOOLEAN, NEW R, NEW R2, NEW rows, NEW c, NEW sh,
         Fits(A, there, R, rows, c, sh), R \subseteq R2
  PROVE  Fits(A, there, R2, rows, c, sh)
BY DEF Fits

\* A step that does not take a row away keeps the requests sound.
LEMMA RequestsStay ==
  ASSUME RequestsSound, UNCHANGED request,
         \A g \in Groups : UsersIn(members[g]) \subseteq UsersIn(members'[g])
  PROVE  RequestsSound'
<1>1. ASSUME NEW s \in Slots, request[s] # Idle
      PROVE  Sound(request[s])'
  <2>1. Sound(request[s])
    BY <1>1 DEF RequestsSound, Open
  <2>2. \A h \in request[s].held : h[1] \in Groups
    BY <2>1 DEF Sound, Request
  <2> QED
    BY <2>1, <2>2 DEF Sound, Reads, OwnerRow
<1> QED
  BY <1>1 DEF RequestsSound, Open

\* Releasing the rows that are gone leaves what was read.
LEMMA ReleasedAreSound ==
  ASSUME NEW R \in [Slots -> Request \cup {Idle}],
         \A s \in Slots : R[s] # Idle => R[s] \in Request /\ Reads(R[s]),
         request' = Released(R)
  PROVE  RequestsSound'
<1>1. ASSUME NEW s \in Slots
      PROVE  /\ request'[s] \in Request \cup {Idle}
             /\ request'[s] # Idle => Sound(request[s])'
  <2>1. CASE R[s] = Idle
    BY <2>1 DEF Released
  <2>2. CASE R[s] # Idle
    <3> DEFINE r == R[s]
               left == {h \in r.held : \E m \in ToSet(members'[h[1]]) : m.user = h[2]}
               q == request'[s]
    <3>1. q = [r EXCEPT !.held = left]
      BY <2>2 DEF Released
    <3>2. r \in Request /\ Reads(r)
      BY <2>2
    <3> HIDE DEF r
    <3>3. left \subseteq r.held
      OBVIOUS
    <3>4. \A h \in left : h[2] \in UsersIn(members'[h[1]])
      BY DEF UsersIn
    <3> HIDE DEF left
    <3>5. /\ q.op = r.op /\ q.user = r.user /\ q.group = r.group /\ q.target = r.target
          /\ q.basis = r.basis /\ q.held = left /\ q \in Request
      BY <3>1, <3>2, <3>3 DEF Request
    <3> HIDE DEF q
    <3>6. Reads(q)
      BY <3>2, <3>5 DEF Reads
    <3>7. q \in Request /\ Reads(q) /\ \A h \in q.held : h[2] \in UsersIn(members'[h[1]])
      BY <3>4, <3>5, <3>6
    <3> QED
      BY <3>7 DEF Sound, Reads, OwnerRow, q
  <2> QED
    BY <2>1, <2>2
<1>2. request' \in [Slots -> Request \cup {Idle}]
  <2>1. request' = [s \in Slots |-> request'[s]]
    BY DEF Released
  <2> QED
    BY <1>1, <2>1
<1> QED
  BY <1>1, <1>2 DEF RequestsSound, Open

\* What has been read is kept by RequestsSound.
LEMMA RequestsRead ==
  ASSUME RequestsSound
  PROVE  /\ request \in [Slots -> Request \cup {Idle}]
         /\ \A s \in Slots : request[s] # Idle => request[s] \in Request /\ Reads(request[s])
BY DEF RequestsSound, Open, Sound

\* Answering a request: the others stay sound, and either its basis is current or it
\* is written down that it was not.
LEMMA AnsweredIsSound ==
  ASSUME RequestsSound, raced \subseteq {"roles", "shares"}, NEW s \in Open,
         NEW late \in SUBSET {"shares"}, Answered(s, late)
  PROVE  /\ RequestsSound'
         /\ raced \cup late \subseteq raced' /\ raced' \subseteq {"roles", "shares"}
         /\ LET r == request[s] IN
            /\ r.op # "share" /\ "roles" \notin raced' =>
                 r.basis = Basis(r.op, r.group, r.user, r.target)
            /\ r.op = "share" /\ "shares" \notin raced' =>
                 r.basis = Basis(r.op, r.group, r.user, r.target)
<1> DEFINE R == [request EXCEPT ![s] = Idle]
           r == request[s]
           current == r.basis = Basis(r.op, r.group, r.user, r.target)
<1>1. R \in [Slots -> Request \cup {Idle}]
      /\ \A t \in Slots : R[t] # Idle => R[t] \in Request /\ Reads(R[t])
  BY RequestsRead
<1>2. request' = Released(R)
  BY DEF Answered
<1>3. RequestsSound'
  <2> HIDE DEF R
  <2> QED
    BY <1>1, <1>2, ReleasedAreSound
<1>4. raced' = late \cup IF current THEN raced ELSE raced \cup {IF r.op = "share" THEN "shares" ELSE "roles"}
  BY DEF Answered
<1> HIDE DEF current, r
<1>5. /\ raced \cup late \subseteq raced' /\ raced' \subseteq {"roles", "shares"}
      /\ r.op # "share" /\ "roles" \notin raced' => current
      /\ r.op = "share" /\ "shares" \notin raced' => current
  BY <1>4
<1> QED
  BY <1>3, <1>5 DEF current, r

\* Sessions and links do not mind more playgroups.
LEMMA SessionsStay ==
  ASSUME SessionsFit, UNCHANGED gameVars, playgroups \subseteq playgroups'
  PROVE  SessionsFit'
BY DEF SessionsFit, gameVars

\* A deleted playgroup takes its sessions and links with it.
LEMMA ErasedFit ==
  ASSUME SessionsFit, NEW G \in SUBSET Groups, Erased(G)
  PROVE  SessionsFit'
<1>1. ASSUME NEW n \in SessionIds
      PROVE  /\ sessions'[n] \in Session \cup {NoSession}
             /\ sessions'[n] # NoSession =>
                  sessions[n] # NoSession /\ sessions'[n] = sessions[n] /\ sessions[n].group \notin G
  BY DEF Erased, SessionsFit
<1>2. sessions' \in [SessionIds -> Session \cup {NoSession}]
  BY <1>1 DEF Erased
<1>3. 0 \notin SessionIds
  BY DEF SessionIds
<1>4. /\ game.group \in Groups \cup {NoGroup} /\ game.session \in SessionIds \cup {0}
      /\ game' = [group |-> IF game.group \in G THEN NoGroup ELSE game.group,
                  session |-> IF game.session # 0 /\ sessions'[game.session] = NoSession
                              THEN 0 ELSE game.session]
      /\ playgroups' = playgroups \ G
  BY DEF Erased, SessionsFit
<1>5. /\ game' \in [group : Groups \cup {NoGroup}, session : SessionIds \cup {0}]
      /\ game'.group # NoGroup => game'.group = game.group /\ game.group \notin G
      /\ game'.session # 0 => sessions'[game'.session] # NoSession
  BY <1>4
<1>6. \A m, n \in SessionIds :
       /\ sessions'[m] # NoSession /\ sessions'[n] # NoSession
       /\ sessions'[m].open /\ sessions'[n].open /\ sessions'[m].group = sessions'[n].group
       => m = n
  BY <1>1 DEF SessionsFit
<1>7. \A n \in SessionIds : sessions'[n] # NoSession => sessions'[n].group \in playgroups'
  BY <1>1, <1>4 DEF SessionsFit
<1>8. game'.group # NoGroup => game'.group \in playgroups'
  BY <1>4, <1>5 DEF SessionsFit
<1> QED
  BY <1>2, <1>5, <1>6, <1>7, <1>8 DEF SessionsFit

----------------------------------------------------------------------------
(* Requests with one step *)

\* The initial state satisfies the invariant.
LEMMA PlaygroupInit == Init => PlaygroupInv
<1> SUFFICES ASSUME Init PROVE PlaygroupInv
  OBVIOUS
<1>1. Host \in Users
  BY PlaygroupAssumption
<1>2. <<>> \in Table /\ UsersIn(<<>>) = {}
  BY <1>1, SmallTables
<1>3. GroupsFit
  BY <1>1, <1>2 DEF Init, GroupsFit, Fits
<1>4. RequestsSound
  BY DEF Init, RequestsSound, Open
<1>5. SessionsFit
  BY DEF Init, SessionsFit
<1> QED
  BY <1>3, <1>4, <1>5 DEF PlaygroupInv

\* A stuttering step keeps the invariant.
LEMMA PlaygroupUnchanged ==
  ASSUME PlaygroupInv, UNCHANGED vars
  PROVE  PlaygroupInv'
BY DEF vars, groupVars, gameVars, PlaygroupInv, GroupsFit, Fits, RequestsSound, Open, Sound,
       Reads, OwnerRow, SessionsFit

\* create_playgroup: a new playgroup has its creator as its owner.
LEMMA CreateKeeps ==
  ASSUME PlaygroupInv, NEW u \in Users, NEW g \in Groups, CreatePlaygroup(u, g)
  PROVE  PlaygroupInv'
<1> DEFINE row == [user |-> u, role |-> "owner"]
<1>1. /\ u \in accounts /\ g \notin playgroups
      /\ members' = [members EXCEPT ![g] = <<row>>]
      /\ playgroups' = playgroups \cup {g} /\ creator' = [creator EXCEPT ![g] = u]
      /\ UNCHANGED <<accounts, shares, gameVars, request, raced>>
  BY DEF CreatePlaygroup
<1>2. <<row>> \in Table /\ UsersIn(<<row>>) = {u} /\ OwnersIn(<<row>>) = {u}
  BY SmallTables
<1> HIDE DEF row
<1>3. Fits(accounts, g \in playgroups, raced, members[g], creator[g], shares[g])
  BY DEF PlaygroupInv, GroupsFit
<1>4. members[g] = <<>> /\ shares[g] = {} /\ UsersIn(<<>>) = {}
  BY <1>1, <1>3, SmallTables DEF Fits
<1>5. GroupsFit'
  <2>1. ASSUME NEW h \in Groups
        PROVE  Fits(accounts', h \in playgroups', raced', members'[h], creator'[h], shares'[h])
    <3>1. CASE h = g
      <4>1. members'[h] = <<row>> /\ creator'[h] = u /\ shares'[h] = {} /\ h \in playgroups'
        BY <1>1, <1>4, <3>1 DEF PlaygroupInv, GroupsFit
      <4>2. Fits(accounts, TRUE, raced, <<row>>, u, {})
        BY <1>1, <1>2 DEF Fits
      <4> QED
        BY <1>1, <4>1, <4>2
    <3>2. CASE h # g
      <4>1. /\ members'[h] = members[h] /\ creator'[h] = creator[h] /\ shares'[h] = shares[h]
            /\ (h \in playgroups') = (h \in playgroups)
        BY <1>1, <3>2 DEF PlaygroupInv, GroupsFit
      <4>2. Fits(accounts, h \in playgroups, raced, members[h], creator[h], shares[h])
        BY DEF PlaygroupInv, GroupsFit
      <4> QED
        BY <1>1, <4>1, <4>2
    <3> QED
      BY <3>1, <3>2
  <2> QED
    BY <1>1, <1>2, <2>1 DEF PlaygroupInv, GroupsFit
<1>6. \A h \in Groups : UsersIn(members[h]) \subseteq UsersIn(members'[h])
  BY <1>1, <1>4 DEF PlaygroupInv, GroupsFit
<1>7. RequestsSound'
  BY <1>1, <1>6, RequestsStay DEF PlaygroupInv
<1>8. SessionsFit'
  BY <1>1, SessionsStay DEF PlaygroupInv
<1> QED
  BY <1>5, <1>7, <1>8 DEF PlaygroupInv

\* join_by_code: one more row, of a member who has none.
LEMMA JoinKeeps ==
  ASSUME PlaygroupInv, NEW u \in Users, NEW g \in Groups, JoinByCode(u, g)
  PROVE  PlaygroupInv'
<1> DEFINE row == [user |-> u, role |-> "member"]
           new == Append(members[g], row)
<1>1. /\ g \in playgroups /\ u \in accounts /\ u \notin In(g)
      /\ members' = [members EXCEPT ![g] = new]
      /\ UNCHANGED <<accounts, playgroups, creator, shares, gameVars, request, raced>>
  BY DEF JoinByCode
<1>2. members[g] \in Table /\ u \notin UsersIn(members[g])
  BY <1>1, Membership DEF PlaygroupInv, GroupsFit
<1>3. /\ new \in Table /\ UsersIn(new) = UsersIn(members[g]) \cup {u}
      /\ OwnersIn(new) = OwnersIn(members[g])
  BY <1>2, AppendRow
<1> HIDE DEF new
<1>4. GroupsFit'
  <2>1. ASSUME NEW h \in Groups
        PROVE  Fits(accounts', h \in playgroups', raced', members'[h], creator'[h], shares'[h])
    <3>1. Fits(accounts, h \in playgroups, raced, members[h], creator[h], shares[h])
      BY DEF PlaygroupInv, GroupsFit
    <3>2. CASE h = g
      <4>1. members'[h] = new
        BY <1>1, <3>2 DEF PlaygroupInv, GroupsFit
      <4> QED
        BY <1>1, <1>3, <3>1, <3>2, <4>1 DEF Fits
    <3>3. CASE h # g
      <4>1. members'[h] = members[h]
        BY <1>1, <3>3 DEF PlaygroupInv, GroupsFit
      <4> QED
        BY <1>1, <3>1, <4>1
    <3> QED
      BY <3>2, <3>3
  <2> QED
    BY <1>1, <1>3, <2>1 DEF PlaygroupInv, GroupsFit
<1>5. \A h \in Groups : UsersIn(members[h]) \subseteq UsersIn(members'[h])
  BY <1>1, <1>3 DEF PlaygroupInv, GroupsFit
<1>6. RequestsSound'
  BY <1>1, <1>5, RequestsStay DEF PlaygroupInv
<1>7. SessionsFit'
  BY <1>1, SessionsStay DEF PlaygroupInv
<1> QED
  BY <1>4, <1>6, <1>7 DEF PlaygroupInv

\* Playgroups that are erased, with nothing else changed, leave the others as they fit.
LEMMA ErasedGroupsFit ==
  ASSUME GroupsFit, NEW g \in Groups, Erased({g}), raced \subseteq raced',
         raced' \subseteq {"roles", "shares"},
         members' \in [Groups -> Table], members'[g] = <<>>,
         \A h \in Groups \ {g} : members'[h] = members[h],
         shares' = [shares EXCEPT ![g] = {}], UNCHANGED accounts
  PROVE  GroupsFit'
<1>1. Host \in Users
  BY PlaygroupAssumption
<1>2. /\ playgroups' = playgroups \ {g}
      /\ creator' = [h \in Groups |-> IF h \in {g} THEN Host ELSE creator[h]]
  BY DEF Erased
<1>3. <<>> \in Table /\ UsersIn(<<>>) = {}
  BY <1>1, SmallTables
<1>4. ASSUME NEW h \in Groups
      PROVE  Fits(accounts', h \in playgroups', raced', members'[h], creator'[h], shares'[h])
  <2>1. CASE h = g
    <3>1. members'[h] = <<>> /\ creator'[h] = Host /\ shares'[h] = {} /\ h \notin playgroups'
      BY <1>2, <2>1 DEF GroupsFit
    <3> QED
      BY <1>1, <1>3, <3>1 DEF Fits
  <2>2. CASE h # g
    <3>1. /\ members'[h] = members[h] /\ creator'[h] = creator[h] /\ shares'[h] = shares[h]
          /\ (h \in playgroups') = (h \in playgroups)
      BY <1>2, <2>2 DEF GroupsFit
    <3>2. Fits(accounts, h \in playgroups, raced, members[h], creator[h], shares[h])
      BY DEF GroupsFit
    <3>3. Fits(accounts, h \in playgroups, raced', members[h], creator[h], shares[h])
      BY <3>2 DEF Fits
    <3> QED
      BY <3>1, <3>3
  <2> QED
    BY <2>1, <2>2
<1> QED
  BY <1>1, <1>2, <1>4 DEF GroupsFit

\* delete_playgroup
LEMMA DeleteKeeps ==
  ASSUME PlaygroupInv, NEW u \in Users, NEW g \in Groups, DeletePlaygroup(u, g)
  PROVE  PlaygroupInv'
<1>1. /\ members' = [members EXCEPT ![g] = <<>>] /\ shares' = [shares EXCEPT ![g] = {}]
      /\ Erased({g}) /\ request' = Released(request) /\ UNCHANGED <<accounts, raced>>
  BY DEF DeletePlaygroup
<1>2. <<>> \in Table
  BY SmallTables
<1>3. GroupsFit'
  <2>1. members' \in [Groups -> Table] /\ members'[g] = <<>>
        /\ \A h \in Groups \ {g} : members'[h] = members[h]
    BY <1>1, <1>2 DEF PlaygroupInv, GroupsFit
  <2> QED
    BY <1>1, <2>1, ErasedGroupsFit DEF PlaygroupInv, GroupsFit
<1>4. RequestsSound'
  BY <1>1, RequestsRead, ReleasedAreSound DEF PlaygroupInv
<1>5. SessionsFit'
  BY <1>1, ErasedFit DEF PlaygroupInv
<1> QED
  BY <1>3, <1>4, <1>5 DEF PlaygroupInv

\* revoke_share and unshare_wishlist_from_playgroup
LEMMA RevokeKeeps ==
  ASSUME PlaygroupInv, NEW u \in Users, NEW g \in Groups, Revoke(u, g)
  PROVE  PlaygroupInv'
<1>1. /\ shares' = [shares EXCEPT ![g] = @ \ {u}]
      /\ UNCHANGED <<accounts, playgroups, members, creator, gameVars, request, raced>>
  BY DEF Revoke
<1>2. GroupsFit'
  <2>1. ASSUME NEW h \in Groups
        PROVE  Fits(accounts', h \in playgroups', raced', members'[h], creator'[h], shares'[h])
    <3>1. Fits(accounts, h \in playgroups, raced, members[h], creator[h], shares[h])
      BY DEF PlaygroupInv, GroupsFit
    <3>2. shares'[h] \subseteq shares[h]
      BY <1>1 DEF PlaygroupInv, GroupsFit
    <3> QED
      BY <1>1, <3>1, <3>2 DEF Fits
  <2> QED
    BY <1>1, <2>1 DEF PlaygroupInv, GroupsFit
<1>3. RequestsSound'
  BY <1>1, RequestsStay DEF PlaygroupInv
<1>4. SessionsFit'
  BY <1>1, SessionsStay DEF PlaygroupInv
<1> QED
  BY <1>2, <1>3, <1>4 DEF PlaygroupInv

\* Steps about the game and its evenings leave members, shares and requests alone.
LEMMA GroupsStay ==
  ASSUME PlaygroupInv, UNCHANGED <<groupVars, request, raced>>
  PROVE  GroupsFit' /\ RequestsSound'
BY DEF groupVars, PlaygroupInv, GroupsFit, Fits, RequestsSound, Open, Sound, Reads, OwnerRow

\* close_session, set_game_playgroup and attach_game_to_session: a playgroup has one open
\* session, and the game's session is there.
LEMMA EveningsKeep ==
  ASSUME PlaygroupInv,
         \/ \E n \in SessionIds : EndSession(n)
         \/ \E g \in Groups : Link(g)
         \/ Unlink
  PROVE  PlaygroupInv'
<1>1. 0 \notin SessionIds /\ NoSession \notin Session /\ NoGroup \notin Groups
  BY PlaygroupAssumption DEF SessionIds, Session
<1>2. UNCHANGED <<groupVars, request, raced>>
  BY DEF EndSession, Link, Unlink
<1>3. GroupsFit' /\ RequestsSound'
  BY <1>2, GroupsStay
<1>4. /\ sessions \in [SessionIds -> Session \cup {NoSession}]
      /\ game \in [group : Groups \cup {NoGroup}, session : SessionIds \cup {0}]
      /\ SessionsFit /\ playgroups' = playgroups
  BY <1>2 DEF PlaygroupInv, SessionsFit, groupVars
<1>5. SessionsFit'
  <2>1. CASE \E n \in SessionIds : EndSession(n)
    <3>1. PICK n \in SessionIds : EndSession(n)
      BY <2>1
    <3>2. /\ sessions[n] \in Session /\ game' = game
          /\ sessions' = [sessions EXCEPT ![n] = [sessions[n] EXCEPT !.open = FALSE]]
      BY <1>4, <3>1 DEF EndSession
    <3>3. /\ sessions'[n] \in Session /\ ~ sessions'[n].open
          /\ sessions'[n].group = sessions[n].group
      BY <1>4, <3>2 DEF Session
    <3>4. \A m \in SessionIds : m # n => sessions'[m] = sessions[m]
      BY <1>4, <3>2
    <3>5. sessions' \in [SessionIds -> Session \cup {NoSession}]
      BY <1>4, <3>2, <3>3
    <3>6. sessions[n] # NoSession /\ sessions'[n] # NoSession
      BY <1>1, <3>2, <3>3
    <3> HIDE DEF Session
    <3>7. \A m, k \in SessionIds :
           /\ sessions'[m] # NoSession /\ sessions'[k] # NoSession
           /\ sessions'[m].open /\ sessions'[k].open /\ sessions'[m].group = sessions'[k].group
           => m = k
      BY <1>4, <3>3, <3>4 DEF SessionsFit
    <3>8. \A m \in SessionIds : sessions'[m] # NoSession => sessions'[m].group \in playgroups'
      BY <1>4, <3>3, <3>4, <3>6 DEF SessionsFit
    <3>9. game'.session # 0 => sessions'[game'.session] # NoSession
      BY <1>4, <3>2, <3>4, <3>6 DEF SessionsFit
    <3>10. game'.group # NoGroup => game'.group \in playgroups'
      BY <1>4, <3>2 DEF SessionsFit
    <3> QED
      BY <1>4, <3>2, <3>5, <3>7, <3>8, <3>9, <3>10 DEF SessionsFit
  <2>2. CASE \E g \in Groups : Link(g)
    <3>1. PICK g \in Groups : Link(g)
      BY <2>2
    <3>2. Host \in In(g) /\ Attach(g)
      BY <3>1 DEF Link
    <3>3. g \in playgroups
      <4>1. Fits(accounts, g \in playgroups, raced, members[g], creator[g], shares[g])
        BY DEF PlaygroupInv, GroupsFit
      <4>2. UsersIn(<<>>) = {}
        BY PlaygroupAssumption, SmallTables
      <4> QED
        BY <3>2, <4>1, <4>2, Membership DEF Fits
    <3> DEFINE unused == {n \in SessionIds : sessions[n] = NoSession}
               least == CHOOSE n \in unused : \A m \in unused : n =< m
    <3>4. \/ game.session # 0 /\ game' = [game EXCEPT !.group = g] /\ sessions' = sessions
          \/ /\ \E n \in OpenSessions(g) : game' = [group |-> g, session |-> n]
             /\ sessions' = sessions
          \/ /\ OpenSessions(g) = {} /\ unused # {}
             /\ sessions' = [sessions EXCEPT ![least] = [group |-> g, open |-> TRUE]]
             /\ game' = [group |-> g, session |-> least]
      BY <3>2 DEF Attach
    <3>5. CASE game.session # 0 /\ game' = [game EXCEPT !.group = g] /\ sessions' = sessions
      BY <1>1, <1>4, <3>3, <3>5 DEF SessionsFit
    <3>6. CASE (\E n \in OpenSessions(g) : game' = [group |-> g, session |-> n])
               /\ sessions' = sessions
      <4>1. PICK n \in OpenSessions(g) : game' = [group |-> g, session |-> n]
        BY <3>6
      <4>2. n \in SessionIds /\ sessions[n] # NoSession
        BY <4>1 DEF OpenSessions
      <4> QED
        BY <1>1, <1>4, <3>3, <3>6, <4>1, <4>2 DEF SessionsFit
    <3>7. CASE /\ OpenSessions(g) = {} /\ unused # {}
               /\ sessions' = [sessions EXCEPT ![least] = [group |-> g, open |-> TRUE]]
               /\ game' = [group |-> g, session |-> least]
      <4>1. \E n \in unused : \A m \in unused : n =< m
        <5>1. unused \subseteq 1 .. MaxSessions /\ MaxSessions \in Nat
          BY PlaygroupAssumption DEF SessionIds
        <5> HIDE DEF unused
        <5>2. unused \subseteq Int /\ unused # {} /\ \A n \in unused : 1 =< n
          BY <3>7, <5>1
        <5> QED
          BY <5>1, <5>2, LeastOf
      <4>2. least \in SessionIds /\ sessions[least] = NoSession
        BY <4>1
      <4> HIDE DEF least, unused
      <4>3. /\ sessions'[least] = [group |-> g, open |-> TRUE]
            /\ \A m \in SessionIds : m # least => sessions'[m] = sessions[m]
        BY <1>4, <3>7, <4>2
      <4>4. sessions'[least] \in Session /\ sessions'[least] # NoSession
        <5>1. [group |-> g, open |-> TRUE] \in Session
          BY DEF Session
        <5> QED
          BY <1>1, <4>3, <5>1
      <4>5. sessions' \in [SessionIds -> Session \cup {NoSession}]
        BY <1>4, <3>7, <4>2, <4>3, <4>4
      <4>6. \A m \in SessionIds :
              ~ (sessions[m] # NoSession /\ sessions[m].open /\ sessions[m].group = g)
        BY <3>7 DEF OpenSessions
      <4> QED
        BY <1>1, <1>4, <3>3, <3>7, <4>2, <4>3, <4>4, <4>5, <4>6 DEF SessionsFit
    <3> QED
      BY <3>4, <3>5, <3>6, <3>7
  <2>3. CASE Unlink
    BY <1>4, <2>3 DEF Unlink, SessionsFit
  <2> QED
    BY <2>1, <2>2, <2>3
<1> QED
  BY <1>3, <1>5 DEF PlaygroupInv

----------------------------------------------------------------------------
(* Reading *)

\* The rows of a playgroup and what RowsOf says of them.
LEMMA RowsOfTable ==
  ASSUME GroupsFit, NEW g \in Groups, NEW U
  PROVE  /\ RowsOf(g, U) \subseteq Groups \X Member
         /\ \A h : h \in RowsOf(g, U) <=>
              \E m \in ToSet(members[g]) : h = <<g, m>> /\ m.user \in U
<1>1. members[g] \in Table
  BY DEF GroupsFit
<1>2. ToSet(members[g]) \subseteq Member
  BY <1>1, TableRows
<1> QED
  BY <1>2 DEF RowsOf, Rows

\* Having a row, and being an owner, in terms of the rows.
LEMMA WhoHasRows ==
  ASSUME GroupsFit, NEW g \in Groups
  PROVE  /\ \A v : v \in UsersIn(members[g]) <=> \E m \in ToSet(members[g]) : m.user = v
         /\ \A v : v \in OwnersIn(members[g]) <=>
              [user |-> v, role |-> "owner"] \in ToSet(members[g])
         /\ OwnersIn(members[g]) \subseteq UsersIn(members[g])
         /\ UsersIn(members[g]) \subseteq Users
<1>1. members[g] \in Table
  BY DEF GroupsFit
<1>2. ToSet(members[g]) \subseteq Member
  BY <1>1, TableRows
<1>3. \A m \in Member : m = [user |-> m.user, role |-> m.role]
  BY DEF Member
<1>4. \A v : v \in OwnersIn(members[g]) <=>
               \E m \in ToSet(members[g]) : m.user = v /\ m.role = "owner"
  BY DEF OwnersIn
<1>5. \A v : v \in OwnersIn(members[g]) <=>
               [user |-> v, role |-> "owner"] \in ToSet(members[g])
  <2>1. ASSUME NEW v, v \in OwnersIn(members[g])
        PROVE  [user |-> v, role |-> "owner"] \in ToSet(members[g])
    <3>1. PICK m \in ToSet(members[g]) : m.user = v /\ m.role = "owner"
      BY <1>4, <2>1
    <3>2. m = [user |-> v, role |-> "owner"]
      BY <1>2, <1>3, <3>1
    <3> QED
      BY <3>2
  <2>2. ASSUME NEW v, [user |-> v, role |-> "owner"] \in ToSet(members[g])
        PROVE  v \in OwnersIn(members[g])
    BY <1>4, <2>2
  <2> QED
    BY <2>1, <2>2
<1> QED
  BY <1>1, <1>5, TableUsers DEF UsersIn

\* What a request relies on are rows.
LEMMA BasisIsRows ==
  ASSUME GroupsFit, NEW u \in Users, NEW t \in Users, NEW g \in Groups \cup {NoGroup},
         NEW op \in {"leave", "remove", "transfer", "share", "account"},
         op # "account" => g \in Groups
  PROVE  Basis(op, g, u, t) \in SUBSET (Groups \X Member)
<1>1. CASE op \in {"remove", "transfer"}
  <2>1. Basis(op, g, u, t) = RowsOf(g, {u, t})
    BY <1>1 DEF Basis
  <2> QED
    BY <1>1, <2>1, RowsOfTable
<1>2. CASE op = "leave"
  <2>1. Basis(op, g, u, t) = RowsOf(g, IF u \in Owners(g) THEN Users ELSE {u})
    BY <1>2 DEF Basis
  <2> QED
    BY <1>2, <2>1, RowsOfTable
<1>3. CASE op = "share"
  <2>1. Basis(op, g, u, t) = {<<g, [user |-> v, role |-> "member"]>> : v \in In(g) \cap {u}}
    BY <1>3 DEF Basis
  <2>2. \A v \in {u} : [user |-> v, role |-> "member"] \in Member
    BY DEF Member
  <2> QED
    BY <1>3, <2>1, <2>2
<1>4. CASE op = "account"
  <2>1. Basis(op, g, u, t) = UNION {RowsOf(h, Users) : h \in {h \in Groups : u \in Owners(h)}}
    BY <1>4 DEF Basis
  <2> QED
    BY <2>1, RowsOfTable
<1> QED
  BY <1>1, <1>2, <1>3, <1>4

\* The rows a request will change are there when it has read them.
LEMMA HeldAreThere ==
  ASSUME GroupsFit, NEW u \in Users, NEW t \in Users, NEW g \in Groups \cup {NoGroup},
         NEW op \in {"leave", "remove", "transfer", "share", "account"},
         op # "account" => g \in Groups,
         op \in {"leave", "transfer"} => u \in In(g),
         op \in {"remove", "transfer"} => t \in In(g)
  PROVE  /\ Held(op, g, u, t) \in SUBSET (Groups \X Users)
         /\ \A h \in Held(op, g, u, t) : h[2] \in UsersIn(members[h[1]])
<1>1. CASE op = "leave"
  <2>1. Held(op, g, u, t) = {<<g, u>>}
    BY <1>1 DEF Held
  <2> QED
    BY <1>1, <2>1, Membership
<1>2. CASE op = "remove"
  <2>1. Held(op, g, u, t) = {<<g, t>>}
    BY <1>2 DEF Held
  <2> QED
    BY <1>2, <2>1, Membership
<1>3. CASE op = "transfer"
  <2>1. Held(op, g, u, t) = {<<g, u>>, <<g, t>>}
    BY <1>3 DEF Held
  <2> QED
    BY <1>3, <2>1, Membership
<1>4. CASE op = "share"
  <2>1. Held(op, g, u, t) = {}
    BY <1>4 DEF Held
  <2> QED
    BY <2>1
<1>5. CASE op = "account"
  <2>1. Held(op, g, u, t) =
          {<<h, u>> : h \in {h \in Groups : u \in Owners(h)}} \cup
          {<<h, Without(members[h], u)[1].user>> :
             h \in {h \in Groups : u \in Owners(h) /\ Without(members[h], u) # <<>>}}
    BY <1>5 DEF Held
  <2>2. ASSUME NEW h \in Groups, u \in Owners(h)
        PROVE  u \in UsersIn(members[h])
    BY <2>2, WhoHasRows, Membership
  <2>3. ASSUME NEW h \in Groups, Without(members[h], u) # <<>>
        PROVE  Without(members[h], u)[1].user \in UsersIn(members[h]) \cap Users
    <3> DEFINE rest == Without(members[h], u)
    <3>1. members[h] \in Table
      BY DEF GroupsFit
    <3>2. rest \in Table /\ UsersIn(rest) = UsersIn(members[h]) \ {u}
      BY <3>1, WithoutRow
    <3>3. rest \in Seq(Member) /\ rest # <<>>
      BY <2>3, <3>2, TableRows
    <3> HIDE DEF rest
    <3>4. 1 \in 1 .. Len(rest)
      BY <3>3, EmptySeq, LenProperties
    <3>5. rest[1].user \in UsersIn(rest)
      BY <3>2, <3>4, TableUsers
    <3>6. rest[1].user \in UsersIn(members[h]) \cap Users
      BY <3>2, <3>5, TableUsers
    <3> QED
      BY <3>6 DEF rest
  <2> QED
    BY <2>1, <2>2, <2>3
<1> QED
  BY <1>1, <1>2, <1>3, <1>4, <1>5

\* A request that has read soundly keeps the invariant.
LEMMA ReadKeeps ==
  ASSUME PlaygroupInv, NEW u \in Users, NEW t \in Users, NEW g \in Groups \cup {NoGroup},
         NEW op \in {"leave", "remove", "transfer", "share", "account"},
         op # "account" => g \in Groups,
         op \in {"leave", "transfer"} => u \in In(g),
         op \in {"remove", "transfer"} => t \in In(g),
         op = "leave" =>
           (OwnerRow(g, u) \in Basis(op, g, u, t) => \A h \in Basis(op, g, u, t) : h[2].user = u),
         op = "remove" => \A h \in Basis(op, g, u, t) : h[2].user = t => h[2].role = "member",
         op = "transfer" =>
           /\ t # u /\ OwnerRow(g, u) \in Basis(op, g, u, t)
           /\ \E h \in Basis(op, g, u, t) : h[2].user = t,
         op = "share" => Basis(op, g, u, t) # {},
         Read(op, g, u, t)
  PROVE  PlaygroupInv'
<1> DEFINE B == Basis(op, g, u, t)
           H == Held(op, g, u, t)
           C == op \in {"transfer", "share"}
           r == [op |-> op, user |-> u, group |-> g, target |-> t, basis |-> B, held |-> H,
                 cleared |-> C, drops |-> {}]
<1>1. GroupsFit
  BY DEF PlaygroupInv
<1>2. PICK s \in Slots \ Open : request' = [request EXCEPT ![s] = r]
  BY DEF Read
<1>3. UNCHANGED <<groupVars, gameVars, raced>>
  BY DEF Read
<1>4. B \in SUBSET (Groups \X Member)
  BY <1>1, BasisIsRows
<1>5. /\ H \in SUBSET (Groups \X Users)
      /\ \A h \in H : h[2] \in UsersIn(members[h[1]])
  BY <1>1, HeldAreThere
<1> HIDE DEF H
<1>6. r \in Request
  <2>1. C \in BOOLEAN
    OBVIOUS
  <2> HIDE DEF B, C
  <2> QED
    BY <1>4, <1>5, <2>1 DEF Request
<1>7. Reads(r)
  BY DEF Reads
<1>8. r.held = H
  OBVIOUS
<1> HIDE DEF r, B
<1>9. Sound(r)
  BY <1>5, <1>6, <1>7, <1>8 DEF Sound
<1>10. RequestsSound'
  <2>1. request \in [Slots -> Request \cup {Idle}] /\ members' = members
    BY <1>3 DEF PlaygroupInv, RequestsSound, groupVars
  <2>2. request' \in [Slots -> Request \cup {Idle}]
    BY <1>2, <1>6, <2>1
  <2>3. ASSUME NEW x \in Slots, request'[x] # Idle
        PROVE  Sound(request[x])'
    <3>1. CASE x = s
      <4>1. request'[x] = r
        BY <1>2, <2>1, <3>1
      <4> QED
        BY <1>9, <2>1, <4>1 DEF Sound, Reads, OwnerRow
    <3>2. CASE x # s
      <4>1. request'[x] = request[x]
        BY <1>2, <2>1, <3>2
      <4>2. Sound(request[x])
        BY <2>3, <4>1 DEF PlaygroupInv, RequestsSound, Open
      <4> QED
        BY <2>1, <4>1, <4>2 DEF Sound, Reads, OwnerRow
    <3> QED
      BY <3>1, <3>2
  <2> QED
    BY <2>2, <2>3 DEF RequestsSound, Open
<1>11. GroupsFit' /\ SessionsFit'
  BY <1>3 DEF PlaygroupInv, GroupsFit, Fits, SessionsFit, groupVars, gameVars
<1> QED
  BY <1>10, <1>11 DEF PlaygroupInv

\* leave_playgroup reads: an owner is alone, so what it relies on are its own rows.
LEMMA ReadLeaveKeeps ==
  ASSUME PlaygroupInv, NEW u \in Users, NEW g \in Groups, ReadLeave(u, g)
  PROVE  PlaygroupInv'
<1>1. /\ u \in In(g) /\ Read("leave", g, u, u)
      /\ u \in Owners(g) => In(g) = {u}
  BY DEF ReadLeave
<1>2. GroupsFit
  BY DEF PlaygroupInv
<1>3. Basis("leave", g, u, u) = RowsOf(g, IF u \in Owners(g) THEN Users ELSE {u})
  BY DEF Basis
<1>4. \A h \in Basis("leave", g, u, u) : h[2].user = u
  <2>1. CASE u \in Owners(g)
    BY <1>1, <1>2, <1>3, <2>1, RowsOfTable, WhoHasRows, Membership
  <2>2. CASE u \notin Owners(g)
    BY <1>2, <1>3, <2>2, RowsOfTable
  <2> QED
    BY <2>1, <2>2
<1> QED
  BY <1>1, <1>4, ReadKeeps

\* remove_member reads: the row to go is not an owner's.
LEMMA ReadRemoveKeeps ==
  ASSUME PlaygroupInv, NEW u \in Users, NEW g \in Groups, NEW t \in Users,
         ReadRemove(u, g, t)
  PROVE  PlaygroupInv'
<1>1. t \in In(g) /\ t \notin Owners(g) /\ Read("remove", g, u, t)
  BY DEF ReadRemove
<1>2. GroupsFit
  BY DEF PlaygroupInv
<1>3. Basis("remove", g, u, t) = RowsOf(g, {u, t})
  BY DEF Basis
<1>4. ASSUME NEW h \in Basis("remove", g, u, t), h[2].user = t
      PROVE  h[2].role = "member"
  <2>1. PICK m \in ToSet(members[g]) : h = <<g, m>>
    BY <1>2, <1>3, <1>4, RowsOfTable
  <2>2. m.role # "owner"
    BY <1>1, <1>4, <2>1, Membership DEF OwnersIn
  <2>3. m.role \in {"owner", "member"}
    <3>1. members[g] \in Table
      BY <1>2 DEF GroupsFit
    <3>2. m \in Member
      BY <3>1, TableRows
    <3> QED
      BY <3>2 DEF Member
  <2> QED
    BY <2>1, <2>2, <2>3
<1> QED
  BY <1>1, <1>4, ReadKeeps

\* transfer_ownership reads the rows of the owner and of another member.
LEMMA ReadTransferKeeps ==
  ASSUME PlaygroupInv, NEW u \in Users, NEW g \in Groups, NEW t \in Users,
         ReadTransfer(u, g, t)
  PROVE  PlaygroupInv'
<1>1. u \in Owners(g) /\ t \in In(g) /\ t # u /\ Read("transfer", g, u, t)
  BY DEF ReadTransfer
<1>2. GroupsFit
  BY DEF PlaygroupInv
<1>3. Basis("transfer", g, u, t) = RowsOf(g, {u, t})
  BY DEF Basis
<1>4. OwnerRow(g, u) \in Basis("transfer", g, u, t)
  <2>1. [user |-> u, role |-> "owner"] \in ToSet(members[g])
    BY <1>1, <1>2, WhoHasRows, Membership
  <2> QED
    BY <1>2, <1>3, <2>1, RowsOfTable DEF OwnerRow
<1>5. \E h \in Basis("transfer", g, u, t) : h[2].user = t
  <2>1. PICK m \in ToSet(members[g]) : m.user = t
    BY <1>1, <1>2, WhoHasRows, Membership
  <2>2. <<g, m>> \in Basis("transfer", g, u, t)
    BY <1>2, <1>3, <2>1, RowsOfTable
  <2> QED
    BY <2>1, <2>2
<1>6. u \in In(g)
  BY <1>1, <1>2, WhoHasRows, Membership
<1> QED
  BY <1>1, <1>4, <1>5, <1>6, ReadKeeps

\* create_share and share_wishlist_to_playgroup read the membership.
LEMMA ReadShareKeeps ==
  ASSUME PlaygroupInv, NEW u \in Users, NEW g \in Groups, ReadShare(u, g)
  PROVE  PlaygroupInv'
<1>1. u \in In(g) /\ Read("share", g, u, u)
  BY DEF ReadShare
<1>2. Basis("share", g, u, u) # {}
  BY <1>1 DEF Basis
<1> QED
  BY <1>1, <1>2, ReadKeeps

\* handle_user_deletion reads the playgroups of the account.
LEMMA ReadAccountKeeps ==
  ASSUME PlaygroupInv, NEW u \in Users, ReadAccount(u)
  PROVE  PlaygroupInv'
<1>1. Read("account", NoGroup, u, u)
  BY DEF ReadAccount
<1> QED
  BY <1>1, ReadKeeps

\* A request in flight has its fields and has read soundly.
LEMMA InFlight ==
  ASSUME PlaygroupInv, NEW s \in Open
  PROVE  /\ request[s].op \in {"leave", "remove", "transfer", "share", "account"}
         /\ request[s].user \in Users /\ request[s].target \in Users
         /\ request[s].op # "account" => request[s].group \in Groups
         /\ request[s].basis \in SUBSET (Groups \X Member)
         /\ request[s].held \in SUBSET (Groups \X Users)
         /\ Sound(request[s])
BY DEF PlaygroupInv, RequestsSound, Sound, Reads, Request

\* The DELETE of the shares is remembered, and nothing else has changed yet.
LEMMA ClearSharesKeeps ==
  ASSUME PlaygroupInv, NEW s \in Open, ClearShares(s)
  PROVE  PlaygroupInv'
<1> DEFINE r == request[s]
<1>1. PICK found \in SUBSET (Groups \X Users) :
        request' = [request EXCEPT ![s].cleared = TRUE, ![s].drops = found]
  <2> DEFINE there == {h \in Groups \X Users : h[2] \in shares[h[1]]}
             found == {h \in there : IF r.op = "account" THEN h[2] = r.user \/ h[1] \in Alone(r)
                                     ELSE h = <<r.group, r.target>>}
  <2>1. request' = [request EXCEPT ![s].cleared = TRUE, ![s].drops = found]
    BY DEF ClearShares
  <2>2. found \in SUBSET (Groups \X Users)
    OBVIOUS
  <2> HIDE DEF found
  <2> QED
    BY <2>1, <2>2
<1>2. UNCHANGED <<groupVars, gameVars, raced>>
  BY DEF ClearShares
<1>3. r \in Request /\ Sound(r) /\ request \in [Slots -> Request \cup {Idle}]
  BY InFlight DEF PlaygroupInv, RequestsSound, Sound
<1> DEFINE q == [r EXCEPT !.cleared = TRUE, !.drops = found]
<1>4. request' = [request EXCEPT ![s] = q]
  BY <1>1
<1> HIDE DEF r
<1>5. /\ q.op = r.op /\ q.user = r.user /\ q.group = r.group /\ q.target = r.target
      /\ q.basis = r.basis /\ q.held = r.held /\ q \in Request
  BY <1>3 DEF Request
<1> HIDE DEF q
<1>6. Sound(q)
  BY <1>3, <1>5 DEF Sound, Reads
<1>7. ASSUME NEW x \in Slots, request'[x] # Idle
      PROVE  Sound(request[x])'
  <2>1. members' = members
    BY <1>2 DEF groupVars
  <2>2. Sound(request'[x])
    <3>1. CASE x = s
      BY <1>3, <1>4, <1>6, <3>1
    <3>2. CASE x # s
      BY <1>3, <1>4, <1>7, <3>2 DEF PlaygroupInv, RequestsSound, Open
    <3> QED
      BY <3>1, <3>2
  <2> QED
    BY <2>1, <2>2 DEF Sound, Reads, OwnerRow
<1>8. request' \in [Slots -> Request \cup {Idle}]
  BY <1>3, <1>4, <1>5
<1>9. RequestsSound'
  BY <1>7, <1>8 DEF RequestsSound, Open
<1>10. GroupsFit' /\ SessionsFit'
  BY <1>2 DEF PlaygroupInv, GroupsFit, Fits, SessionsFit, groupVars, gameVars
<1> QED
  BY <1>9, <1>10 DEF PlaygroupInv

----------------------------------------------------------------------------
(* Committing *)

\* A refused request changes nothing else.
LEMMA RefusedKeeps ==
  ASSUME PlaygroupInv, NEW s \in Open, Refused(s)
  PROVE  PlaygroupInv'
<1>1. UNCHANGED <<groupVars, gameVars>> /\ Answered(s, {})
  BY DEF Refused
<1>2. /\ RequestsSound' /\ raced \subseteq raced' /\ raced' \subseteq {"roles", "shares"}
  BY <1>1, AnsweredIsSound DEF PlaygroupInv, GroupsFit
<1>3. GroupsFit'
  <2>1. ASSUME NEW h \in Groups
        PROVE  Fits(accounts', h \in playgroups', raced', members'[h], creator'[h], shares'[h])
    <3>1. Fits(accounts, h \in playgroups, raced, members[h], creator[h], shares[h])
      BY DEF PlaygroupInv, GroupsFit
    <3>2. Fits(accounts, h \in playgroups, raced', members[h], creator[h], shares[h])
      BY <1>2, <3>1 DEF Fits
    <3> QED
      BY <1>1, <3>2 DEF groupVars
  <2> QED
    BY <1>1, <1>2, <2>1 DEF PlaygroupInv, GroupsFit, groupVars
<1>4. SessionsFit'
  BY <1>1, SessionsStay DEF PlaygroupInv, groupVars
<1> QED
  BY <1>2, <1>3, <1>4 DEF PlaygroupInv

\* The row of the only user of a table is deleted: the table is empty.
LEMMA LastRow ==
  ASSUME NEW rows \in Table, NEW u, UsersIn(rows) \subseteq {u}
  PROVE  Without(rows, u) = <<>>
<1>1. Without(rows, u) \in Table /\ UsersIn(Without(rows, u)) = {}
  BY WithoutRow
<1> QED
  BY <1>1, NobodyLeft

\* A departure that leaves somebody: the rest of the table fits, if its only owner did
\* not leave it to others, and what is still shared, if none of it is of who departs.
LEMMA DepartureFits ==
  ASSUME GroupsFit, NEW g \in Groups, NEW v, NEW rows, NEW R,
         rows = members[g] \/ rows = Without(members[g], v),
         NEW sh \in SUBSET shares[g], "shares" \notin R => v \notin sh,
         raced \subseteq R, "roles" \notin R /\ rows # members[g] => v \notin OwnersIn(members[g])
  PROVE  Fits(accounts, g \in playgroups, R, rows, creator[g], sh)
<1>1. /\ members[g] \in Table
      /\ Fits(accounts, g \in playgroups, raced, members[g], creator[g], shares[g])
  BY DEF GroupsFit
<1>2. CASE rows = members[g]
  BY <1>1, <1>2 DEF Fits
<1>3. CASE rows # members[g]
  <2>1. /\ rows \in Table /\ UsersIn(rows) = UsersIn(members[g]) \ {v}
        /\ OwnersIn(rows) = OwnersIn(members[g]) \ {v}
    BY <1>1, <1>3, WithoutRow
  <2>2. g \notin playgroups => rows = <<>>
    <3> SUFFICES ASSUME g \notin playgroups PROVE rows = <<>>
      OBVIOUS
    <3>1. members[g] = <<>> /\ UsersIn(<<>>) = {}
      BY <1>1, PlaygroupAssumption, SmallTables DEF Fits
    <3> QED
      BY <2>1, <3>1, NobodyLeft
  <2>3. "roles" \notin R /\ g \in playgroups => \E w : OwnersIn(rows) = {w}
    BY <1>1, <1>3, <2>1 DEF Fits
  <2> QED
    BY <1>1, <2>1, <2>2, <2>3 DEF Fits
<1> QED
  BY <1>2, <1>3

\* Rows of one playgroup change, and its shares; others lose shares at most: they fit
\* as before.
LEMMA OneGroupChanges ==
  ASSUME GroupsFit, NEW g \in Groups, raced \subseteq raced', raced' \subseteq {"roles", "shares"},
         UNCHANGED <<accounts, playgroups, creator>>,
         members' = members \/ \E rows : members' = [members EXCEPT ![g] = rows],
         shares' \in [Groups -> SUBSET Users],
         \A h \in Groups \ {g} : shares'[h] \subseteq shares[h],
         Fits(accounts, g \in playgroups, raced', members'[g], creator[g], shares'[g])
  PROVE  GroupsFit'
<1>1. members'[g] \in Table
  BY DEF Fits
<1>2. \A h \in Groups \ {g} : members'[h] = members[h]
  BY DEF GroupsFit
<1>3. members' \in [Groups -> Table]
  <2>1. members \in [Groups -> Table]
    BY DEF GroupsFit
  <2>2. CASE members' = members
    BY <2>1, <2>2
  <2>3. CASE \E rows : members' = [members EXCEPT ![g] = rows]
    BY <1>1, <2>1, <2>3
  <2> QED
    BY <2>2, <2>3
<1>4. ASSUME NEW h \in Groups
      PROVE  Fits(accounts', h \in playgroups', raced', members'[h], creator'[h], shares'[h])
  <2>1. CASE h = g
    BY <2>1
  <2>2. CASE h # g
    <3>1. Fits(accounts, h \in playgroups, raced, members[h], creator[h], shares[h])
      BY DEF GroupsFit
    <3>2. Fits(accounts, h \in playgroups, raced', members[h], creator[h], shares'[h])
      BY <2>2, <3>1 DEF Fits
    <3> QED
      BY <1>2, <2>2, <3>2
  <2> QED
    BY <2>1, <2>2
<1> QED
  BY <1>3, <1>4 DEF GroupsFit

\* The DELETE of shares only takes shares away.
LEMMA UnsharedAreLess ==
  ASSUME GroupsFit, NEW drops
  PROVE  /\ Unshared(drops) \in [Groups -> SUBSET Users]
         /\ \A g \in Groups : Unshared(drops)[g] = {u \in shares[g] : <<g, u>> \notin drops}
BY DEF GroupsFit, Unshared

\* leave_playgroup commits: the playgroup goes with its last member.
LEMMA CommitLeaveKeeps ==
  ASSUME PlaygroupInv, NEW s \in Open, request[s].op = "leave", CommitLeave(s)
  PROVE  PlaygroupInv'
<1> DEFINE r == request[s]
           g == r.group
           u == r.user
<1>1. /\ u \in Users /\ g \in Groups /\ Sound(r) /\ r.op = "leave"
  BY InFlight
<1>2. /\ members' = IF <<g, u>> \in r.held
                    THEN [members EXCEPT ![g] = Without(members[g], u)] ELSE members
      /\ accounts' = accounts
      /\ \/ /\ members'[g] # <<>> /\ shares' = Unshared(r.drops)
            /\ UNCHANGED <<playgroups, creator, gameVars>>
            /\ Answered(s, Overtaken(r, u))
         \/ /\ members'[g] = <<>> /\ shares' = [shares EXCEPT ![g] = {}]
            /\ Erased({g}) /\ Answered(s, {})
  BY DEF CommitLeave, Departed
<1>3. GroupsFit /\ SessionsFit /\ RequestsSound
  BY DEF PlaygroupInv
<1>4. /\ RequestsSound' /\ raced \subseteq raced' /\ raced' \subseteq {"roles", "shares"}
      /\ "roles" \notin raced' => r.basis = Basis("leave", g, u, r.target)
      /\ Answered(s, Overtaken(r, u)) => Overtaken(r, u) \subseteq raced'
  <2>1. Overtaken(r, u) \subseteq {"shares"} /\ raced \subseteq {"roles", "shares"}
    BY <1>3 DEF Overtaken, GroupsFit
  <2>2. \E late \in SUBSET {"shares"} : Answered(s, late)
    BY <1>2, <2>1
  <2> QED
    BY <1>1, <1>3, <2>1, <2>2, AnsweredIsSound
<1>5. OwnerRow(g, u) \in r.basis => \A h \in r.basis : h[2].user = u
  BY <1>1 DEF Sound, Reads
<1> HIDE DEF r, g, u
<1>6. members[g] \in Table /\ Without(members[g], u) \in Table
  BY <1>1, <1>3, WithoutRow DEF GroupsFit
<1>7. /\ members' \in [Groups -> Table]
      /\ \A h \in Groups \ {g} : members'[h] = members[h]
      /\ members'[g] = members[g] \/ members'[g] = Without(members[g], u)
  BY <1>1, <1>2, <1>3, <1>6 DEF GroupsFit
<1>8. ASSUME "roles" \notin raced', u \in OwnersIn(members[g])
      PROVE  Without(members[g], u) = <<>>
  <2>1. Basis("leave", g, u, r.target) = RowsOf(g, Users)
    BY <1>1, <1>8, Membership DEF Basis
  <2>2. OwnerRow(g, u) \in RowsOf(g, Users)
    BY <1>1, <1>3, <1>8, RowsOfTable, WhoHasRows DEF OwnerRow
  <2>3. \A h \in RowsOf(g, Users) : h[2].user = u
    BY <1>4, <1>5, <1>8, <2>1, <2>2
  <2>4. ASSUME NEW v \in UsersIn(members[g]) PROVE v = u
    <3>1. PICK m \in ToSet(members[g]) : m.user = v
      BY <1>1, <1>3, WhoHasRows
    <3>2. v \in Users
      BY <1>1, <1>3, WhoHasRows
    <3>3. <<g, m>> \in RowsOf(g, Users)
      BY <1>1, <1>3, <3>1, <3>2, RowsOfTable
    <3> QED
      BY <2>3, <3>1, <3>3
  <2> QED
    BY <1>6, <2>4, LastRow
<1>9. CASE /\ members'[g] # <<>> /\ shares' = Unshared(r.drops)
           /\ UNCHANGED <<playgroups, creator, gameVars>>
           /\ Answered(s, Overtaken(r, u))
  <2>1. "roles" \notin raced' /\ members'[g] # members[g] => u \notin OwnersIn(members[g])
    BY <1>7, <1>8, <1>9
  <2>2. /\ shares' \in [Groups -> SUBSET Users] /\ \A h \in Groups : shares'[h] \subseteq shares[h]
        /\ "shares" \notin raced' => u \notin shares'[g]
    <3>1. "shares" \notin raced' => u \notin shares[g] \/ <<g, u>> \in r.drops
      BY <1>4, <1>9 DEF Overtaken, g
    <3>2. /\ shares' \in [Groups -> SUBSET Users]
          /\ \A h \in Groups : shares'[h] = {v \in shares[h] : <<h, v>> \notin r.drops}
      BY <1>3, <1>9, UnsharedAreLess
    <3> QED
      BY <1>1, <3>1, <3>2
  <2>3. Fits(accounts, g \in playgroups, raced', members'[g], creator[g], shares'[g])
    BY <1>1, <1>3, <1>4, <1>7, <2>1, <2>2, DepartureFits
  <2>4. GroupsFit'
    BY <1>1, <1>2, <1>3, <1>4, <1>9, <2>2, <2>3, OneGroupChanges
  <2>5. SessionsFit'
    BY <1>3, <1>9, SessionsStay
  <2> QED
    BY <1>4, <2>4, <2>5 DEF PlaygroupInv
<1>10. CASE /\ members'[g] = <<>> /\ shares' = [shares EXCEPT ![g] = {}]
            /\ Erased({g}) /\ Answered(s, {})
  <2>1. GroupsFit'
    BY <1>1, <1>2, <1>3, <1>4, <1>7, <1>10, ErasedGroupsFit
  <2>2. SessionsFit'
    BY <1>1, <1>3, <1>10, ErasedFit
  <2> QED
    BY <1>4, <2>1, <2>2 DEF PlaygroupInv
<1> QED
  BY <1>2, <1>9, <1>10

\* remove_member commits: who goes was no owner, or the roles had changed.
LEMMA CommitRemoveKeeps ==
  ASSUME PlaygroupInv, NEW s \in Open, request[s].op = "remove", CommitRemove(s)
  PROVE  PlaygroupInv'
<1> DEFINE r == request[s]
           g == r.group
           t == r.target
<1>1. /\ t \in Users /\ g \in Groups /\ Sound(r) /\ r.op = "remove"
  BY InFlight
<1>2. /\ members' = IF <<g, t>> \in r.held
                    THEN [members EXCEPT ![g] = Without(members[g], t)] ELSE members
      /\ accounts' = accounts /\ Answered(s, Overtaken(r, t))
      /\ shares' = Unshared(r.drops)
      /\ UNCHANGED <<playgroups, creator, gameVars>>
  BY DEF CommitRemove, Departed
<1>3. GroupsFit /\ SessionsFit /\ RequestsSound
  BY DEF PlaygroupInv
<1>4. /\ RequestsSound' /\ raced \subseteq raced' /\ raced' \subseteq {"roles", "shares"}
      /\ "roles" \notin raced' => r.basis = Basis("remove", g, r.user, t)
      /\ Overtaken(r, t) \subseteq raced'
  <2>1. Overtaken(r, t) \subseteq {"shares"} /\ raced \subseteq {"roles", "shares"}
    BY <1>3 DEF Overtaken, GroupsFit
  <2> QED
    BY <1>1, <1>2, <1>3, <2>1, AnsweredIsSound
<1>5. \A h \in r.basis : h[2].user = t => h[2].role = "member"
  BY <1>1 DEF Sound, Reads
<1>6. Basis("remove", g, r.user, t) = RowsOf(g, {r.user, t})
  BY DEF Basis
<1> HIDE DEF r, g, t
<1>7. members'[g] = members[g] \/ members'[g] = Without(members[g], t)
  BY <1>1, <1>2, <1>3 DEF GroupsFit
<1>8. ASSUME "roles" \notin raced'
      PROVE  t \notin OwnersIn(members[g])
  <2> SUFFICES ASSUME t \in OwnersIn(members[g]) PROVE FALSE
    OBVIOUS
  <2> DEFINE m == [user |-> t, role |-> "owner"]
  <2>1. m \in ToSet(members[g])
    BY <1>1, <1>3, WhoHasRows
  <2>2. m.user = t /\ m.role # "member"
    OBVIOUS
  <2> HIDE DEF m
  <2>3. <<g, m>> \in r.basis
    BY <1>1, <1>3, <1>4, <1>6, <1>8, <2>1, <2>2, RowsOfTable
  <2> QED
    BY <1>5, <2>2, <2>3
<1>9. /\ shares' \in [Groups -> SUBSET Users] /\ \A h \in Groups : shares'[h] \subseteq shares[h]
      /\ "shares" \notin raced' => t \notin shares'[g]
  <2>1. "shares" \notin raced' => t \notin shares[g] \/ <<g, t>> \in r.drops
    BY <1>4 DEF Overtaken, g
  <2>2. /\ shares' \in [Groups -> SUBSET Users]
        /\ \A h \in Groups : shares'[h] = {v \in shares[h] : <<h, v>> \notin r.drops}
    BY <1>2, <1>3, UnsharedAreLess
  <2> QED
    BY <1>1, <2>1, <2>2
<1>10. Fits(accounts, g \in playgroups, raced', members'[g], creator[g], shares'[g])
  BY <1>1, <1>3, <1>4, <1>7, <1>8, <1>9, DepartureFits
<1>11. GroupsFit'
  BY <1>1, <1>2, <1>3, <1>4, <1>9, <1>10, OneGroupChanges
<1>12. SessionsFit'
  BY <1>2, <1>3, SessionsStay
<1> QED
  BY <1>4, <1>11, <1>12 DEF PlaygroupInv

\* transfer_ownership commits: the one who was the owner hands over to a member.
LEMMA CommitTransferKeeps ==
  ASSUME PlaygroupInv, NEW s \in Open, request[s].op = "transfer", CommitTransfer(s)
  PROVE  PlaygroupInv'
<1> DEFINE r == request[s]
           g == r.group
           u == r.user
           t == r.target
           new == HandedOver(members[g], u, t)
<1>1. /\ u \in Users /\ t \in Users /\ g \in Groups /\ Sound(r) /\ r.op = "transfer"
  BY InFlight
<1>2. CASE Refused(s)
  BY <1>2, RefusedKeeps
<1>3. CASE /\ members' = [members EXCEPT ![g] = HandedOver(@, u, t)]
           /\ UNCHANGED <<accounts, playgroups, creator, shares, gameVars>>
           /\ Answered(s, {})
  <2>1. GroupsFit /\ SessionsFit /\ RequestsSound
    BY DEF PlaygroupInv
  <2>2. /\ RequestsSound' /\ raced \subseteq raced' /\ raced' \subseteq {"roles", "shares"}
        /\ "roles" \notin raced' => r.basis = Basis("transfer", g, u, t)
    BY <1>1, <1>3, <2>1, AnsweredIsSound DEF GroupsFit
  <2>3. /\ OwnerRow(g, u) \in r.basis
        /\ \E h \in r.basis : h[2].user = t
    BY <1>1 DEF Sound, Reads
  <2>4. Basis("transfer", g, u, t) = RowsOf(g, {u, t})
    BY DEF Basis
  <2> HIDE DEF r, g, u, t
  <2>5. /\ members[g] \in Table
        /\ Fits(accounts, g \in playgroups, raced, members[g], creator[g], shares[g])
    BY <1>1, <2>1 DEF GroupsFit
  <2>6. /\ new \in Table /\ UsersIn(new) = UsersIn(members[g])
        /\ t \in UsersIn(members[g]) /\ OwnersIn(members[g]) = {u} => OwnersIn(new) = {t}
    BY <2>5, HandOver
  <2>7. /\ members'[g] = new /\ \E rows : members' = [members EXCEPT ![g] = rows]
    BY <1>1, <1>3, <2>1 DEF GroupsFit
  <2> HIDE DEF new
  <2>8. ASSUME "roles" \notin raced', g \in playgroups
        PROVE  OwnersIn(new) = {t}
    <3>1. u \in OwnersIn(members[g])
      <4>1. [user |-> u, role |-> "owner"] \in ToSet(members[g])
        BY <1>1, <2>1, <2>2, <2>3, <2>4, <2>8, RowsOfTable DEF OwnerRow
      <4> QED
        BY <1>1, <2>1, <4>1, WhoHasRows
    <3>2. t \in UsersIn(members[g])
      <4>1. PICK h \in RowsOf(g, {u, t}) : h[2].user = t
        BY <2>2, <2>3, <2>4, <2>8
      <4>2. PICK m \in ToSet(members[g]) : h = <<g, m>>
        BY <1>1, <2>1, RowsOfTable
      <4> QED
        BY <1>1, <2>1, <4>1, <4>2, WhoHasRows
    <3>3. \E v : OwnersIn(members[g]) = {v}
      BY <2>2, <2>5, <2>8 DEF Fits
    <3> QED
      BY <2>6, <3>1, <3>2, <3>3
  <2>9. g \notin playgroups => new = <<>>
    <3> SUFFICES ASSUME g \notin playgroups PROVE new = <<>>
      OBVIOUS
    <3>1. members[g] = <<>> /\ UsersIn(<<>>) = {}
      BY <2>5, PlaygroupAssumption, SmallTables DEF Fits
    <3> QED
      BY <2>6, <3>1, NobodyLeft
  <2>10. Fits(accounts, g \in playgroups, raced', new, creator[g], shares[g])
    BY <2>2, <2>5, <2>6, <2>8, <2>9 DEF Fits
  <2>11. GroupsFit'
    <3>1. shares' \in [Groups -> SUBSET Users] /\ \A h \in Groups : shares'[h] = shares[h]
      BY <1>3, <2>1 DEF GroupsFit
    <3> QED
      BY <1>1, <1>3, <2>1, <2>2, <2>7, <2>10, <3>1, OneGroupChanges
  <2>12. SessionsFit'
    BY <1>3, <2>1, SessionsStay
  <2> QED
    BY <2>2, <2>11, <2>12 DEF PlaygroupInv
<1> QED
  BY <1>2, <1>3 DEF CommitTransfer

\* create_share commits: who was a member when it was checked, or a race is noted.
LEMMA CommitShareKeeps ==
  ASSUME PlaygroupInv, NEW s \in Open, request[s].op = "share", CommitShare(s)
  PROVE  PlaygroupInv'
<1> DEFINE r == request[s]
           g == r.group
           u == r.user
<1>1. u \in Users /\ g \in Groups /\ Sound(r) /\ r.op = "share"
  BY InFlight
<1>2. CASE Refused(s)
  BY <1>2, RefusedKeeps
<1>3. CASE /\ g \in playgroups /\ u \in accounts
           /\ shares' = [shares EXCEPT ![g] = @ \cup {u}]
           /\ UNCHANGED <<accounts, playgroups, members, creator, gameVars>>
           /\ Answered(s, {})
  <2>1. GroupsFit /\ SessionsFit /\ RequestsSound
    BY DEF PlaygroupInv
  <2>2. /\ RequestsSound' /\ raced \subseteq raced' /\ raced' \subseteq {"roles", "shares"}
        /\ "shares" \notin raced' => r.basis = Basis("share", g, u, r.target)
    BY <1>1, <1>3, <2>1, AnsweredIsSound DEF GroupsFit
  <2>3. r.basis # {}
    BY <1>1 DEF Sound, Reads
  <2>4. Basis("share", g, u, r.target) =
          {<<g, [user |-> v, role |-> "member"]>> : v \in In(g) \cap {u}}
    BY DEF Basis
  <2> HIDE DEF r, g, u
  <2>5. Fits(accounts, g \in playgroups, raced, members[g], creator[g], shares[g])
    BY <1>1, <2>1 DEF GroupsFit
  <2>6. ASSUME "shares" \notin raced' PROVE u \in UsersIn(members[g])
    BY <1>1, <2>2, <2>3, <2>4, <2>6, Membership
  <2>7. Fits(accounts, g \in playgroups, raced', members[g], creator[g], shares[g] \cup {u})
    BY <1>3, <2>2, <2>5, <2>6 DEF Fits
  <2>8. /\ members'[g] = members[g] /\ shares'[g] = shares[g] \cup {u}
        /\ shares' \in [Groups -> SUBSET Users]
        /\ \A h \in Groups \ {g} : shares'[h] = shares[h]
    BY <1>1, <1>3, <2>1 DEF GroupsFit
  <2>9. GroupsFit'
    BY <1>1, <1>3, <2>1, <2>2, <2>7, <2>8, OneGroupChanges
  <2>10. SessionsFit'
    BY <1>3, <2>1, SessionsStay
  <2> QED
    BY <2>2, <2>9, <2>10 DEF PlaygroupInv
<1> QED
  BY <1>2, <1>3 DEF CommitShare

----------------------------------------------------------------------------
(* Deleting an account *)

Heirs(r, g) == {v \in Users \ {r.user} : <<g, v>> \in r.held}

\* The rows of a playgroup after the account of r is gone.
Left(r, g) ==
  IF g \in Alone(r) THEN <<>>
  ELSE IF g \in Owned(r)
       THEN Without(HandedOver(members[g], r.user, CHOOSE v \in Heirs(r, g) : TRUE), r.user)
       ELSE Without(members[g], r.user)

\* CommitAccount with the definitions above.
LEMMA AccountCommits ==
  ASSUME NEW s \in Open, CommitAccount(s)
  PROVE  \/ Refused(s)
         \/ /\ request[s].user \in accounts
            /\ \A g \in Owned(request[s]) \ Alone(request[s]) : Heirs(request[s], g) # {}
            /\ \A g \in playgroups \ Alone(request[s]) : creator[g] # request[s].user
            /\ accounts' = accounts \ {request[s].user}
            /\ members' = [g \in Groups |-> Left(request[s], g)]
            /\ shares' = Unshared(request[s].drops)
            /\ \A g \in Groups, v \in Users :
                 v \in shares[g] /\ (v = request[s].user \/ g \in Alone(request[s]))
                   => <<g, v>> \in request[s].drops
            /\ Erased(Alone(request[s]))
            /\ Answered(s, {})
BY DEF CommitAccount, Heirs, Left

\* After the deletion of an account every table is one without its user, and where the
\* user was the only owner there is another.
LEMMA LeftFits ==
  ASSUME PlaygroupInv, NEW s \in Open, request[s].op = "account", NEW g \in Groups,
         NEW R, raced \subseteq R,
         "roles" \notin R => request[s].basis =
           Basis("account", request[s].group, request[s].user, request[s].target),
         Heirs(request[s], g) # {} \/ g \notin Owned(request[s]) \ Alone(request[s]),
         g \in playgroups \ Alone(request[s]) => creator[g] # request[s].user,
         NEW sh \in SUBSET shares[g], request[s].user \notin sh,
         g \in Alone(request[s]) => sh = {}
  PROVE  Fits(accounts \ {request[s].user}, g \in playgroups \ Alone(request[s]), R,
              Left(request[s], g), IF g \in Alone(request[s]) THEN Host ELSE creator[g],
              sh)
<1> DEFINE r == request[s]
           u == r.user
           A == accounts \ {u}
<1>1. u \in Users /\ Sound(r) /\ r.basis \in SUBSET (Groups \X Member)
      /\ r.held \in SUBSET (Groups \X Users)
  BY InFlight
<1>2. GroupsFit
  BY DEF PlaygroupInv
<1> DEFINE rows == members[g]
           new == Left(r, g)
           heir == CHOOSE v \in Heirs(r, g) : TRUE
<1>3. /\ rows \in Table
      /\ Fits(accounts, g \in playgroups, raced, rows, creator[g], shares[g])
  BY <1>2 DEF GroupsFit
<1>4. Host \in Users /\ <<>> \in Table /\ UsersIn(<<>>) = {}
  BY PlaygroupAssumption, SmallTables
<1>5. Basis("account", r.group, u, r.target) =
        UNION {RowsOf(h, Users) : h \in {h \in Groups : u \in Owners(h)}}
  BY DEF Basis
<1>6. \A h \in r.held : h[2] \in UsersIn(members[h[1]])
  BY <1>1 DEF Sound
<1>7. g \in playgroups \ Alone(r) => creator[g] # u
  OBVIOUS
<1>8. "roles" \notin R => r.basis = Basis("account", r.group, u, r.target)
  OBVIOUS
<1>9. Heirs(r, g) # {} \/ g \notin Owned(r) \ Alone(r)
  OBVIOUS
<1>10. Heirs(r, g) = {v \in Users \ {u} : <<g, v>> \in r.held}
  BY DEF Heirs
<1>11. Owned(r) = {h \in Groups : OwnerRow(h, u) \in r.basis}
  BY DEF Owned, OwnerRow
<1> HIDE DEF r, u, rows
<1>12. CASE g \in Alone(r)
  <2>1. new = <<>>
    BY <1>12 DEF Left
  <2>2. Fits(A, FALSE, R, <<>>, Host, {})
    BY <1>4 DEF Fits
  <2> QED
    BY <1>12, <2>1, <2>2 DEF Fits, r, u, new
<1>13. CASE g \notin Alone(r)
  <2> DEFINE mid == IF g \in Owned(r) THEN HandedOver(rows, u, heir) ELSE rows
  <2>1. new = Without(mid, u)
    BY <1>13 DEF Left, rows, u
  <2>2. /\ mid \in Table /\ UsersIn(mid) = UsersIn(rows)
        /\ g \notin Owned(r) => mid = rows
        /\ g \in Owned(r) /\ heir \in UsersIn(rows) /\ OwnersIn(rows) = {u} => OwnersIn(mid) = {heir}
    <3> HIDE DEF heir
    <3>1. /\ HandedOver(rows, u, heir) \in Table
          /\ UsersIn(HandedOver(rows, u, heir)) = UsersIn(rows)
          /\ heir \in UsersIn(rows) /\ OwnersIn(rows) = {u} =>
               OwnersIn(HandedOver(rows, u, heir)) = {heir}
      BY <1>3, HandOver
    <3> QED
      BY <1>3, <3>1
  <2> HIDE DEF mid, new
  <2>3. /\ new \in Table /\ UsersIn(new) = UsersIn(rows) \ {u}
        /\ OwnersIn(new) = OwnersIn(mid) \ {u}
    BY <2>1, <2>2, WithoutRow
  <2>4. g \notin playgroups => new = <<>>
    <3> SUFFICES ASSUME g \notin playgroups PROVE new = <<>>
      OBVIOUS
    <3>1. rows = <<>>
      BY <1>3 DEF Fits
    <3> QED
      BY <1>4, <2>3, <3>1, NobodyLeft
  <2>5. ASSUME "roles" \notin R, g \in playgroups
        PROVE  \E v : OwnersIn(new) = {v}
    <3>1. PICK v : OwnersIn(rows) = {v}
      BY <1>3, <2>5 DEF Fits
    <3>2. CASE g \in Owned(r)
      <4>1. heir \in Heirs(r, g)
        BY <1>9, <1>13, <3>2
      <4> HIDE DEF heir
      <4>2. heir \in UsersIn(rows) /\ heir # u
        <5>1. <<g, heir>> \in r.held /\ heir # u
          BY <1>10, <4>1
        <5> QED
          BY <1>6, <5>1 DEF rows
      <4>3. u \in OwnersIn(rows)
        <5>1. OwnerRow(g, u) \in UNION {RowsOf(h, Users) : h \in {h \in Groups : u \in Owners(h)}}
          BY <1>5, <1>8, <1>11, <2>5, <3>2
        <5>2. PICK h \in Groups : u \in Owners(h) /\ OwnerRow(g, u) \in RowsOf(h, Users)
          BY <5>1
        <5>3. OwnerRow(g, u)[1] = h
          BY <1>2, <5>2, RowsOfTable
        <5>4. OwnerRow(g, u)[1] = g
          BY DEF OwnerRow
        <5> QED
          BY <5>2, <5>3, <5>4, Membership DEF rows
      <4>4. OwnersIn(mid) = {heir}
        BY <2>2, <3>1, <3>2, <4>2, <4>3
      <4> QED
        BY <2>3, <4>2, <4>4
    <3>3. CASE g \notin Owned(r)
      <4>1. u \notin OwnersIn(rows)
        <5> SUFFICES ASSUME u \in OwnersIn(rows) PROVE FALSE
          OBVIOUS
        <5>1. u \in Owners(g)
          BY Membership DEF rows
        <5>2. OwnerRow(g, u) \in RowsOf(g, Users)
          <6> DEFINE m == [user |-> u, role |-> "owner"]
          <6>1. m \in ToSet(members[g])
            BY <1>2, WhoHasRows DEF rows
          <6>2. m.user \in Users /\ OwnerRow(g, u) = <<g, m>>
            BY <1>1 DEF OwnerRow
          <6> HIDE DEF m
          <6> QED
            BY <1>2, <6>1, <6>2, RowsOfTable
        <5>3. OwnerRow(g, u) \in r.basis
          BY <1>5, <1>8, <2>5, <5>1, <5>2
        <5> QED
          BY <1>11, <3>3, <5>3
      <4> QED
        BY <2>2, <2>3, <3>1, <3>3, <4>1
    <3> QED
      BY <3>2, <3>3
  <2>6. Fits(A, g \in playgroups, R, new, creator[g], sh)
    <3>1. sh \subseteq shares[g] /\ u \notin sh
      BY DEF r, u
    <3> QED
      BY <1>3, <1>7, <1>13, <2>3, <2>4, <2>5, <3>1 DEF Fits
  <2>7. (g \in playgroups \ Alone(r)) <=> (g \in playgroups)
    BY <1>13
  <2>8. Fits(A, g \in playgroups \ Alone(r), R, new, creator[g], sh)
    BY <2>6, <2>7 DEF Fits
  <2> QED
    BY <1>13, <2>8 DEF r, u, new
<1> QED
  BY <1>12, <1>13

\* delete_user commits: the playgroups owned alone go, the others have an heir.
LEMMA CommitAccountKeeps ==
  ASSUME PlaygroupInv, NEW s \in Open, request[s].op = "account", CommitAccount(s)
  PROVE  PlaygroupInv'
<1> DEFINE r == request[s]
           u == r.user
<1>1. CASE Refused(s)
  BY <1>1, RefusedKeeps
<1>2. CASE /\ u \in accounts
           /\ \A g \in Owned(r) \ Alone(r) : Heirs(r, g) # {}
           /\ \A g \in playgroups \ Alone(r) : creator[g] # u
           /\ accounts' = accounts \ {u}
           /\ members' = [g \in Groups |-> Left(r, g)]
           /\ shares' = Unshared(r.drops)
           /\ \A g \in Groups, v \in Users :
                v \in shares[g] /\ (v = u \/ g \in Alone(r)) => <<g, v>> \in r.drops
           /\ Erased(Alone(r))
           /\ Answered(s, {})
  <2>1. GroupsFit /\ SessionsFit /\ RequestsSound
    BY DEF PlaygroupInv
  <2>2. /\ RequestsSound' /\ raced \subseteq raced' /\ raced' \subseteq {"roles", "shares"}
        /\ "roles" \notin raced' => r.basis = Basis("account", r.group, u, r.target)
    BY <1>2, <2>1, AnsweredIsSound DEF GroupsFit
  <2>3. Alone(r) \subseteq Groups
    BY DEF Alone, Owned
  <2>4. /\ playgroups' = playgroups \ Alone(r)
        /\ creator' = [g \in Groups |-> IF g \in Alone(r) THEN Host ELSE creator[g]]
    BY <1>2 DEF Erased
  <2>5. ASSUME NEW g \in Groups
        PROVE  Fits(accounts', g \in playgroups', raced', members'[g], creator'[g], shares'[g])
    <3>1. Fits(accounts \ {u}, g \in playgroups \ Alone(r), raced', Left(r, g),
               IF g \in Alone(r) THEN Host ELSE creator[g],
               shares'[g])
      <4>1. Heirs(r, g) # {} \/ g \notin Owned(r) \ Alone(r)
        BY <1>2
      <4>2. g \in playgroups \ Alone(r) => creator[g] # u
        BY <1>2
      <4>3. /\ shares'[g] \subseteq shares[g] /\ u \notin shares'[g]
            /\ g \in Alone(r) => shares'[g] = {}
        <5>1. shares[g] \subseteq Users /\ shares'[g] = {v \in shares[g] : <<g, v>> \notin r.drops}
          BY <1>2, <2>1, UnsharedAreLess DEF GroupsFit
        <5> QED
          BY <1>2, <5>1
      <4> QED
        BY <2>2, <4>1, <4>2, <4>3, LeftFits
    <3> HIDE DEF r, u
    <3> QED
      BY <1>2, <2>4, <3>1
  <2> HIDE DEF r, u
  <2>6. members' \in [Groups -> Table]
    <3>1. \A g \in Groups : members'[g] \in Table
      BY <2>5 DEF Fits
    <3> QED
      BY <1>2, <3>1
  <2>7. shares' \in [Groups -> SUBSET Users]
    BY <1>2, <2>1, UnsharedAreLess
  <2>8. creator' \in [Groups -> Users]
    <3>1. \A g \in Groups : creator'[g] \in Users
      BY <2>5 DEF Fits
    <3> QED
      BY <2>4, <3>1
  <2>9. GroupsFit'
    BY <1>2, <2>1, <2>2, <2>4, <2>5, <2>6, <2>7, <2>8 DEF GroupsFit
  <2>10. SessionsFit'
    BY <1>2, <2>1, <2>3, ErasedFit
  <2> QED
    BY <2>2, <2>9, <2>10 DEF PlaygroupInv
<1> QED
  BY <1>1, <1>2, AccountCommits

----------------------------------------------------------------------------
(* The theorems *)

\* Every step keeps the invariant.
LEMMA PlaygroupStep == PlaygroupInv /\ [Next]_vars => PlaygroupInv'
<1> SUFFICES ASSUME PlaygroupInv, [Next]_vars PROVE PlaygroupInv'
  OBVIOUS
<1>1. CASE UNCHANGED vars
  BY <1>1, PlaygroupUnchanged
<1>2. CASE \E u \in Users, g \in Groups :
             \/ CreatePlaygroup(u, g) \/ Revoke(u, g)
             \/ JoinByCode(u, g) \/ DeletePlaygroup(u, g)
             \/ ReadLeave(u, g) \/ ReadShare(u, g)
             \/ \E t \in Users : ReadRemove(u, g, t) \/ ReadTransfer(u, g, t)
  BY <1>2, CreateKeeps, RevokeKeeps, JoinKeeps, DeleteKeeps, ReadLeaveKeeps, ReadShareKeeps,
     ReadRemoveKeeps, ReadTransferKeeps
<1>3. CASE \E u \in Users : ReadAccount(u)
  BY <1>3, ReadAccountKeeps
<1>4. CASE (\E g \in Groups : Link(g)) \/ (\E n \in SessionIds : EndSession(n)) \/ Unlink
  BY <1>4, EveningsKeep
<1>5. CASE \E s \in Open : ClearShares(s) \/ Commit(s)
  <2>1. PICK s \in Open : ClearShares(s) \/ Commit(s)
    BY <1>5
  <2> QED
    BY <2>1, ClearSharesKeeps, CommitLeaveKeeps, CommitRemoveKeeps, CommitTransferKeeps, CommitShareKeeps,
       CommitAccountKeeps DEF Commit
<1> QED
  BY <1>1, <1>2, <1>3, <1>4, <1>5 DEF Next

\* What the requests in flight have read, and what the tables allow, hold at every
\* moment, whatever commits in between.
THEOREM PlaygroupInvariant == Spec => []PlaygroupInv
BY PlaygroupInit, PlaygroupStep, PTL DEF Spec

\* The constraints of the database hold (delete_user, open_session, delete_playgroup),
\* also after decisions about owners that were overtaken.
THEOREM PlaygroupTypeOK == Spec => []TypeOK
<1>1. PlaygroupInv => TypeOK
  <2> SUFFICES ASSUME PlaygroupInv PROVE TypeOK
    OBVIOUS
  <2>1. accounts \subseteq Users /\ playgroups \subseteq Groups
        /\ raced \subseteq {"roles", "shares"}
    BY DEF PlaygroupInv, GroupsFit
  <2>2. ASSUME NEW g \in Groups
        PROVE  /\ Rows(g) \subseteq Member /\ Len(members[g]) = Cardinality(In(g))
               /\ In(g) \cup shares[g] \subseteq accounts
               /\ creator[g] \in Users /\ (g \in playgroups => creator[g] \in accounts)
               /\ g \notin playgroups => members[g] = <<>> /\ shares[g] = {}
    <3>1. /\ members[g] \in Table
          /\ Fits(accounts, g \in playgroups, raced, members[g], creator[g], shares[g])
      BY DEF PlaygroupInv, GroupsFit
    <3>2. Rows(g) \subseteq Member
      BY <3>1, TableRows, Membership
    <3>3. Len(members[g]) = Cardinality(In(g))
      BY <3>1, RowsCountUsers, Membership
    <3> QED
      BY <3>1, <3>2, <3>3, Membership DEF Fits
  <2>3. \A s \in Open : request[s] \in Request
    BY DEF PlaygroupInv, RequestsSound, Sound
  <2>4. ASSUME NEW g \in Groups
        PROVE  Cardinality(OpenSessions(g)) =< 1
    <3>1. \A m, n \in OpenSessions(g) : m = n
      BY DEF OpenSessions, PlaygroupInv, SessionsFit
    <3>2. CASE OpenSessions(g) = {}
      BY <3>2, FS_EmptySet
    <3>3. CASE OpenSessions(g) # {}
      <4>1. PICK n : OpenSessions(g) = {n}
        BY <3>1, <3>3
      <4> QED
        BY <4>1, FS_Singleton
    <3> QED
      BY <3>2, <3>3
  <2>5. /\ \A n \in SessionIds : sessions[n] # NoSession => sessions[n].group \in playgroups
        /\ game.group # NoGroup => game.group \in playgroups
        /\ game.session # 0 => sessions[game.session] # NoSession
    BY DEF PlaygroupInv, SessionsFit
  <2> QED
    BY <2>1, <2>2, <2>3, <2>4, <2>5 DEF TypeOK
<1> QED
  BY <1>1, PlaygroupInvariant, PTL

\* A playgroup has one owner, as long as no departure, hand-over or account deletion
\* commits on rows that have changed (create_playgroup, leave_playgroup,
\* transfer_ownership, handle_user_deletion).
THEOREM PlaygroupsHaveOneOwner == Spec => []OneOwner
<1>1. PlaygroupInv => OneOwner
  <2> SUFFICES ASSUME PlaygroupInv, "roles" \notin raced, NEW g \in playgroups
               PROVE  Cardinality(Owners(g)) = 1
    BY DEF OneOwner
  <2>1. g \in Groups
    BY DEF PlaygroupInv, GroupsFit
  <2>2. PICK v : OwnersIn(members[g]) = {v}
    BY <2>1 DEF PlaygroupInv, GroupsFit, Fits
  <2>3. Owners(g) = {v}
    BY <2>1, <2>2, Membership
  <2> QED
    BY <2>3, FS_Singleton
<1> QED
  BY <1>1, PlaygroupInvariant, PTL

\* Only members share with a playgroup, as long as no share is written after its check
\* was overtaken, or after the DELETE of the shares of someone whose departure has not
\* committed yet (leave_playgroup, remove_member, delete_user, create_share).
THEOREM OnlyMembersShare == Spec => []SharersAreMembers
<1>1. PlaygroupInv => SharersAreMembers
  <2> SUFFICES ASSUME PlaygroupInv, "shares" \notin raced, NEW g \in Groups
               PROVE  shares[g] \subseteq In(g)
    BY DEF SharersAreMembers
  <2>1. shares[g] \subseteq UsersIn(members[g])
    BY DEF PlaygroupInv, GroupsFit, Fits
  <2> QED
    BY <2>1, Membership
<1> QED
  BY <1>1, PlaygroupInvariant, PTL

----------------------------------------------------------------------------
(* Alerts: a crossing is told once, for any users and any prices.          *)
(*                                                                         *)
(* The argument: a digest that was sent is remembered in one of three      *)
(* places at every moment: in the marks of the run that sent it, in the    *)
(* watch once that run has committed, or in `unsaved' when it could not.   *)
(* As long as it is remembered the watch is not fresh, so that no second   *)
(* one is sent.                                                            *)

AlertsTypeOK ==
  /\ retail \in Prices /\ override \in Prices /\ price \in Prices
  /\ watch \in [Watchers -> Watch \cup {Gone}]
  /\ optedIn \subseteq Watchers
  /\ job \in {Off} \cup Ingest \cup Alerting
  /\ told \in [Watchers -> 0 .. 2]
  /\ unsaved \subseteq Watchers

\* A run that is looking at the watches.
Evaluating == job # Off /\ job.phase = "alerts"

\* A digest is counted for the crossing it was sent for, and no longer.
ToldIsMet == \A u \in Watchers : told[u] > 0 => Met(watch[u], price)

\* A digest that was sent is marked, or is about to be, unless its mark was lost.
ToldIsMarked ==
  \A u \in Watchers :
    told[u] > 0 /\ u \notin unsaved =>
      \/ watch[u].alerted
      \/ Evaluating /\ job.marks[u] = "set"

\* What a run holds for a user: nothing before it has evaluated the watch; a mark
\* set or cleared is for a watch that is there; and where a mark is cleared, or has
\* lost its watch, there is no digest to forget.
MarksAreSound ==
  Evaluating =>
    \A u \in Watchers :
      /\ u \in job.todo => job.marks[u] = "none"
      /\ job.marks[u] \in {"set", "clear"} => watch[u] # Gone
      /\ job.marks[u] \in {"clear", "stale"} => told[u] = 0

AlertsInv == AlertsTypeOK /\ ToldIsMet /\ ToldIsMarked /\ MarksAreSound /\ ToldOnce

\* The invariant holds of a watchlist nobody has used yet.
LEMMA AlertsInit == InitAlerts => AlertsInv
BY AlertsAssumption DEF InitAlerts, AlertsInv, AlertsTypeOK, ToldIsMet, ToldIsMarked,
     MarksAreSound, ToldOnce, Prices, Evaluating

\* What Resolve returns is a price.
LEMMA ResolveType == \A o, g \in Prices : Resolve(o, g) \in Prices
BY DEF Resolve

\* What a user who starts to watch gets.
LEMMA NewWatch == [target |-> 0, alerted |-> FALSE] \in Watch
BY AlertsAssumption DEF Watch, Prices

\* A job is of the kind its phase says.
LEMMA JobKinds ==
  ASSUME AlertsTypeOK, job # Off
  PROVE  /\ job.phase = "alerts" => job \in Alerting
         /\ job.phase = "ingest" => job \in Ingest
BY DEF AlertsTypeOK, Ingest, Alerting

\* What a user does to the watch, or the provider to the price, between two runs'
\* commits: the digests of the crossings that are over are not counted any more,
\* and the others have their watch and its mark as before.
LEMMA TrackedKeeps ==
  ASSUME AlertsInv, Tracked, AlertsTypeOK',
         \A u \in Watchers : Met(watch'[u], price') /\ told[u] > 0 =>
                            /\ watch'[u].alerted = watch[u].alerted
                            /\ Evaluating /\ job.marks[u] = "set" =>
                                 Evaluating' /\ job'.marks[u] = "set"
  PROVE  (ToldIsMet /\ ToldIsMarked /\ ToldOnce)'
<1> USE DEF AlertsInv
<1>1. \A u \in Watchers : told'[u] > 0 =>
        /\ Met(watch'[u], price') /\ told'[u] = told[u]
        /\ u \in unsaved' <=> u \in unsaved
  BY DEF Tracked
<1>2. ToldIsMet'
  BY <1>1 DEF ToldIsMet
<1>3. ToldIsMarked'
  BY <1>1 DEF ToldIsMarked
<1>4. ToldOnce'
  BY <1>1 DEF ToldOnce
<1> QED
  BY <1>2, <1>3, <1>4

\* What the tracking conjunct of every step leaves is of its type.
LEMMA TrackedTypes ==
  ASSUME AlertsTypeOK, Tracked
  PROVE  told' \in [Watchers -> 0 .. 2] /\ unsaved' \subseteq Watchers
BY DEF AlertsTypeOK, Tracked

\* The invariant survives what a user does to the watchlist.
LEMMA UsersKeepAlertsInv ==
  ASSUME AlertsInv, NEW u \in Watchers,
         \/ AddToWatchlist(u) \/ RemoveFromWatchlist(u) \/ ToggleAlerts(u)
         \/ \E t \in Prices : UpdateTargetPrice(u, t)
  PROVE  AlertsInv'
<1> USE DEF AlertsInv
<1>1. CASE AddToWatchlist(u)
  <2>1. AlertsTypeOK'
    BY <1>1, NewWatch DEF AlertsTypeOK, AddToWatchlist, prices, history
  <2>2. told[u] = 0
    BY <1>1 DEF AddToWatchlist, ToldIsMet, Met, AlertsTypeOK
  <2>3. \A v \in Watchers \ {u} : watch'[v] = watch[v]
    BY <1>1 DEF AddToWatchlist, AlertsTypeOK
  <2>4. watch'[u] # Gone
    BY <1>1, NewWatch, AlertsAssumption DEF AddToWatchlist, AlertsTypeOK
  <2>5. ToldIsMet' /\ ToldIsMarked' /\ ToldOnce'
    BY <1>1, <2>2, <2>3
    DEF AddToWatchlist, ToldIsMet, ToldIsMarked, ToldOnce, Evaluating, prices, history, Met
  <2>6. MarksAreSound'
    BY <1>1, <2>2, <2>3, <2>4
    DEF AddToWatchlist, MarksAreSound, Evaluating, history
  <2> QED
    BY <2>1, <2>5, <2>6
<1>2. CASE RemoveFromWatchlist(u)
  <2>a. Evaluating => job' \in Alerting
    <3>1. SUFFICES ASSUME Evaluating PROVE job' \in Alerting
      OBVIOUS
    <3>2. job \in Alerting
      BY <3>1, JobKinds DEF Evaluating
    <3> QED
      BY <1>2, <3>1, <3>2 DEF RemoveFromWatchlist, Evaluating, Alerting, Marks
  <2>b. ~Evaluating => job' = job
    BY <1>2 DEF RemoveFromWatchlist, Evaluating
  <2>1. job' \in {Off} \cup Ingest \cup Alerting
    BY <2>a, <2>b DEF AlertsTypeOK
  <2>2. AlertsTypeOK'
    BY <1>2, <2>1, TrackedTypes DEF AlertsTypeOK, RemoveFromWatchlist, prices
  <2>3. /\ \A v \in Watchers \ {u} : watch'[v] = watch[v]
        /\ watch'[u] = Gone
    BY <1>2 DEF RemoveFromWatchlist, AlertsTypeOK
  <2>4. /\ told'[u] = 0
        /\ \A v \in Watchers : told'[v] \in {0, told[v]}
    BY <1>2, <2>3 DEF RemoveFromWatchlist, Tracked, Met
  <2>5. Evaluating' <=> Evaluating
    BY <2>a, <2>b, AlertsAssumption DEF Evaluating, Alerting
  <2>6. Evaluating => /\ job'.todo = job.todo
                      /\ \A v \in Watchers \ {u} : job'.marks[v] = job.marks[v]
                      /\ job'.marks[u] = IF job.marks[u] = "none" THEN "none" ELSE "stale"
    BY <1>2, JobKinds DEF RemoveFromWatchlist, Evaluating, Alerting
  <2>7. ToldIsMet' /\ ToldIsMarked' /\ ToldOnce'
    BY <1>2, <2>2, <2>3, <2>5, <2>6, TrackedKeeps DEF RemoveFromWatchlist, Met
  <2>8. MarksAreSound'
    BY <2>3, <2>4, <2>5, <2>6 DEF MarksAreSound
  <2> QED
    BY <2>2, <2>7, <2>8
<1>3. CASE ToggleAlerts(u)
  BY <1>3
  DEF ToggleAlerts, AlertsTypeOK, ToldIsMet, ToldIsMarked, MarksAreSound, ToldOnce,
      Evaluating, prices, history
<1>4. ASSUME NEW t \in Prices, UpdateTargetPrice(u, t)
      PROVE  AlertsInv'
  <2>1. AlertsTypeOK'
    BY <1>4, TrackedTypes DEF AlertsTypeOK, UpdateTargetPrice, Watch, prices
  <2>2. \A v \in Watchers : /\ watch[v] # Gone => /\ watch'[v] # Gone
                                                  /\ watch'[v].alerted = watch[v].alerted
                            /\ watch[v] = Gone => watch'[v] = Gone
    BY <1>4, AlertsAssumption DEF UpdateTargetPrice, AlertsTypeOK, Watch
  <2>3. ToldIsMet' /\ ToldIsMarked' /\ ToldOnce'
    BY <1>4, <2>1, <2>2, TrackedKeeps DEF UpdateTargetPrice, Met, Evaluating
  <2>4. \A v \in Watchers : told'[v] \in {0, told[v]}
    BY <1>4 DEF UpdateTargetPrice, Tracked
  <2>5. MarksAreSound'
    BY <1>4, <2>2, <2>4 DEF UpdateTargetPrice, MarksAreSound, Evaluating
  <2> QED
    BY <2>1, <2>3, <2>5
<1> QED
  BY <1>1, <1>2, <1>3, <1>4

\* Prices are shown to the watches, which do not change.
LEMMA PricesKeepAlertsInv ==
  ASSUME AlertsInv,
         \/ \E v \in Prices : SetPriceOverride(v) \/ IngestRead(v)
         \/ IngestCommit
  PROVE  AlertsInv'
<1> USE DEF AlertsInv
<1>1. ASSUME NEW v \in Prices, SetPriceOverride(v)
      PROVE  AlertsInv'
  <2>1. AlertsTypeOK'
    BY <1>1, TrackedTypes, ResolveType DEF AlertsTypeOK, SetPriceOverride, users
  <2>2. ToldIsMet' /\ ToldIsMarked' /\ ToldOnce'
    BY <1>1, <2>1, TrackedKeeps DEF SetPriceOverride, Evaluating, users
  <2>3. \A u \in Watchers : told'[u] \in {0, told[u]}
    BY <1>1 DEF SetPriceOverride, Tracked
  <2>4. MarksAreSound'
    BY <1>1, <2>3 DEF SetPriceOverride, MarksAreSound, Evaluating, users
  <2> QED
    BY <2>1, <2>2, <2>4
<1>2. ASSUME NEW v \in Prices, IngestRead(v)
      PROVE  AlertsInv'
  <2>1. job' \in Ingest /\ ~Evaluating /\ ~Evaluating'
    BY <1>2 DEF IngestRead, Ingest, AlertsTypeOK, Evaluating
  <2>2. AlertsTypeOK'
    BY <1>2, <2>1 DEF IngestRead, AlertsTypeOK, prices, users, history
  <2> QED
    BY <1>2, <2>1, <2>2
    DEF IngestRead, ToldIsMet, ToldIsMarked, MarksAreSound, ToldOnce, prices, users, history
<1>3. CASE IngestCommit
  <2>1. job \in Ingest /\ ~Evaluating
    BY <1>3, JobKinds DEF IngestCommit, Evaluating
  <2>2. job' \in Alerting
    BY <1>3 DEF IngestCommit, Alerting, Marks, AlertsTypeOK
  <2>3. AlertsTypeOK'
    BY <1>3, <2>1, <2>2, TrackedTypes, ResolveType
    DEF IngestCommit, AlertsTypeOK, Ingest, users
  <2>4. ToldIsMet' /\ ToldIsMarked' /\ ToldOnce'
    BY <1>3, <2>1, <2>3, TrackedKeeps DEF IngestCommit, users
  <2>5. \A u \in Watchers : job'.marks[u] = "none"
    BY <1>3 DEF IngestCommit
  <2>6. MarksAreSound'
    BY <2>5 DEF MarksAreSound
  <2> QED
    BY <2>3, <2>4, <2>6
<1> QED
  BY <1>1, <1>2, <1>3

\* The run evaluates the watches.  A second digest is for a mark that was lost.
LEMMA RunKeepsAlertsInv ==
  ASSUME AlertsInv, NEW u \in Watchers,
         Skip(u) \/ \E delivered \in BOOLEAN : Send(u, delivered)
  PROVE  AlertsInv'
<1> USE DEF AlertsInv
<1>1. job \in Alerting /\ Evaluating /\ u \in job.todo /\ job.marks[u] = "none"
  BY JobKinds DEF Skip, Send, Evaluating, MarksAreSound
<1>2. ASSUME NEW delivered \in BOOLEAN, Send(u, delivered)
      PROVE  AlertsInv'
  <2>1. /\ job'.todo = job.todo \ {u}
        /\ \A v \in Watchers \ {u} : job'.marks[v] = job.marks[v]
        /\ job'.marks[u] = IF delivered THEN "set" ELSE "none"
        /\ job' \in Alerting
    BY <1>1, <1>2 DEF Send, Mark, Alerting, Marks
  <2>2. Evaluating'
    BY <2>1, AlertsAssumption DEF Evaluating, Alerting
  <2>3. /\ \A v \in Watchers \ {u} : told'[v] = told[v]
        /\ delivered => told'[u] = IF told[u] < 2 THEN told[u] + 1 ELSE told[u]
        /\ ~delivered => told' = told
        /\ told' \in [Watchers -> 0 .. 2]
    <3>1. CASE delivered
      <4>1. told' = [told EXCEPT ![u] = IF told[u] < 2 THEN told[u] + 1 ELSE told[u]]
        BY <1>2, <3>1 DEF Send
      <4>2. told \in [Watchers -> 0 .. 2] /\ told[u] \in 0 .. 2
        BY DEF AlertsTypeOK
      <4>3. (IF told[u] < 2 THEN told[u] + 1 ELSE told[u]) \in 0 .. 2
        BY <4>2
      <4> QED
        BY <3>1, <4>1, <4>2, <4>3
    <3>2. CASE ~delivered
      BY <1>2, <3>2 DEF Send, AlertsTypeOK
    <3> QED
      BY <3>1, <3>2
  <2>4. AlertsTypeOK'
    BY <1>2, <2>1, <2>3 DEF AlertsTypeOK, Send, prices, users
  <2>5. Met(watch[u], price) /\ ~watch[u].alerted
    BY <1>2 DEF Send, IsFresh, Crossing
  <2>6. ToldIsMet'
    BY <1>2, <2>3, <2>5 DEF ToldIsMet, Send, prices, users, Met
  <2>7. ToldIsMarked'
    BY <1>1, <1>2, <2>1, <2>2, <2>3, <2>5 DEF ToldIsMarked, Send, users, AlertsTypeOK
  <2>8. MarksAreSound'
    <3>1. \A v \in Watchers \ {u} : told'[v] = told[v] /\ watch'[v] = watch[v]
      BY <1>2, <2>3 DEF Send, users
    <3>2. watch'[u] # Gone /\ job'.marks[u] \in {"set", "none"} /\ u \notin job'.todo
      BY <1>2, <2>1, <2>5 DEF Send, users, Met
    <3> QED
      BY <1>1, <2>1, <3>1, <3>2 DEF MarksAreSound
  <2>9. told[u] > 0 => u \in unsaved
    BY <1>1, <2>5 DEF ToldIsMarked
  <2>10. ToldOnce'
    <3>1. told'[u] = 2 => told[u] > 0
      BY <2>3 DEF AlertsTypeOK
    <3> QED
      BY <1>2, <2>3, <2>9, <3>1 DEF ToldOnce, Send
  <2> QED
    BY <2>4, <2>6, <2>7, <2>8, <2>10
<1>3. CASE Skip(u)
  <2>1. /\ job'.todo = job.todo \ {u}
        /\ \A v \in Watchers \ {u} : job'.marks[v] = job.marks[v]
        /\ job'.marks[u] = IF watch[u] # Gone /\ watch[u].alerted /\ u \notin Crossing
                           THEN "clear" ELSE "none"
        /\ job' \in Alerting
    BY <1>1, <1>3 DEF Skip, Alerting, Marks
  <2>2. Evaluating'
    BY <2>1, AlertsAssumption DEF Evaluating, Alerting
  <2>3. AlertsTypeOK'
    BY <1>3, <2>1 DEF AlertsTypeOK, Skip, prices, users, history
  <2>4. job'.marks[u] = "clear" => watch[u] # Gone /\ told[u] = 0
    BY <2>1 DEF ToldIsMet, Crossing, AlertsTypeOK
  <2>5. ToldIsMarked'
    BY <1>1, <1>3, <2>1, <2>2 DEF ToldIsMarked, Skip, users, history
  <2>6. MarksAreSound'
    BY <1>1, <1>3, <2>1, <2>2, <2>4 DEF MarksAreSound, Skip, users, history
  <2>7. ToldIsMet' /\ ToldOnce'
    BY <1>3 DEF ToldIsMet, ToldOnce, Skip, prices, users, history
  <2> QED
    BY <2>3, <2>5, <2>6, <2>7
<1> QED
  BY <1>2, <1>3

\* The run ends: its marks go to the watches, or the digests behind them are
\* recorded as unsaved.
LEMMA EndKeepsAlertsInv ==
  ASSUME AlertsInv, AlertCommit \/ Die
  PROVE  AlertsInv'
<1> USE DEF AlertsInv
<1>1. ASSUME job # Off, Lost
      PROVE  AlertsInv'
  <2>1. /\ ~Evaluating'
        /\ unsaved \subseteq unsaved' /\ unsaved' \subseteq Watchers
        /\ Evaluating => \A u \in Watchers : job.marks[u] = "set" /\ told[u] > 0 => u \in unsaved'
    BY <1>1 DEF Lost, Evaluating, AlertsTypeOK
  <2>2. AlertsTypeOK'
    BY <1>1, <2>1 DEF AlertsTypeOK, Lost, prices, users
  <2>3. ToldIsMet' /\ MarksAreSound'
    BY <1>1, <2>1 DEF ToldIsMet, MarksAreSound, Lost, prices, users
  <2>4. ToldIsMarked' /\ ToldOnce'
    BY <1>1, <2>1 DEF ToldIsMarked, ToldOnce, Lost, prices, users
  <2> QED
    BY <2>2, <2>3, <2>4
<1>2. ASSUME AlertCommit, ~Lost
      PROVE  AlertsInv'
  <2>1. /\ job \in Alerting /\ Evaluating
        /\ \A u \in Watchers : job.marks[u] # "stale"
        /\ job' = Off
        /\ UNCHANGED <<prices, optedIn, history>>
    BY <1>2, JobKinds DEF AlertCommit, Evaluating
  <2>2. watch' = [u \in Watchers |->
           CASE job.marks[u] = "set" -> [watch[u] EXCEPT !.alerted = TRUE]
             [] job.marks[u] = "clear" -> [watch[u] EXCEPT !.alerted = FALSE]
             [] OTHER -> watch[u]]
    BY <1>2, <2>1 DEF AlertCommit
  <2>3. \A u \in Watchers :
          /\ job.marks[u] = "set" => /\ watch'[u] \in Watch
                                     /\ watch'[u].target = watch[u].target
                                     /\ watch'[u].alerted
          /\ job.marks[u] = "clear" => watch'[u] \in Watch
          /\ job.marks[u] \notin {"set", "clear"} => watch'[u] = watch[u]
    BY <2>1, <2>2 DEF MarksAreSound, AlertsTypeOK, Watch
  <2>4. AlertsTypeOK'
    BY <2>1, <2>2, <2>3 DEF AlertsTypeOK, prices, history
  <2>5. \A u \in Watchers : told[u] > 0 => /\ job.marks[u] # "clear"
                                           /\ Met(watch'[u], price)
                                           /\ watch[u].alerted => watch'[u].alerted
    BY <2>1, <2>3, AlertsAssumption DEF ToldIsMet, Met, MarksAreSound, AlertsTypeOK
  <2>6. ~Evaluating'
    BY <2>1 DEF Evaluating
  <2>7. ToldIsMet' /\ MarksAreSound' /\ ToldOnce'
    BY <2>1, <2>5, <2>6 DEF ToldIsMet, MarksAreSound, ToldOnce, prices, history
  <2>8. ToldIsMarked'
    BY <2>1, <2>3, <2>5, <2>6 DEF ToldIsMarked, history
  <2> QED
    BY <2>4, <2>7, <2>8
<1> QED
  BY <1>1, <1>2 DEF AlertCommit, Die

\* The invariant survives a step that changes nothing.
LEMMA AlertsStutter == AlertsInv /\ UNCHANGED alertVars => AlertsInv'
BY DEF alertVars, prices, users, history, AlertsInv, AlertsTypeOK, ToldIsMet, ToldIsMarked,
       MarksAreSound, ToldOnce, Evaluating

\* AlertsInv holds in every state the watchlists and the daily jobs reach.
THEOREM AlertsInvariant == SpecAlerts => []AlertsInv
<1>1. AlertsInv /\ [NextAlerts]_alertVars => AlertsInv'
  <2> SUFFICES ASSUME AlertsInv, [NextAlerts]_alertVars PROVE AlertsInv'
    OBVIOUS
  <2>1. CASE UNCHANGED alertVars
    BY <2>1, AlertsStutter
  <2>2. CASE NextAlerts
    BY <2>2, UsersKeepAlertsInv, PricesKeepAlertsInv, RunKeepsAlertsInv, EndKeepsAlertsInv
    DEF NextAlerts
  <2> QED
    BY <2>1, <2>2
<1> QED
  BY <1>1, AlertsInit, PTL DEF SpecAlerts

\* A crossing is told once, unless the run that told it could not store its mark:
\* for any users and prices, through overrides, targets, opt-outs, watches removed
\* and added, e-mails that fail and runs that are killed (run_alerts).
THEOREM CrossingsAreToldOnce == SpecAlerts => []ToldOnce
BY AlertsInvariant, PTL DEF AlertsInv

=============================================================================
