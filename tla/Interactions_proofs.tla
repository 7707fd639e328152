--------------------------- MODULE Interactions_proofs ---------------------------
(* What Interactions promises of counters, deletions and reactions, for any     *)
(* number of posts, notes, reactions, webmentions, peers and requests.          *)
EXTENDS Interactions, FiniteSetTheorems, TLAPS

-----------------------------------------------------------------------------
(* The inductive invariant. *)

RowType == row \in [Rows -> {"none", "live", "deleted"}] /\ kind \in [Sources -> Kinds]
CountType == count \in [Counters -> Int] /\ drift \subseteq Counters
FlagType == flag \in [BOOLEAN \X Notes -> Ours \cup {None}]
GoneType == tomb \subseteq gone /\ gone \subseteq Notes /\ raced \subseteq tomb
SentType ==
  /\ copies \in [Rows -> SUBSET Peers] /\ excused \in [Rows -> SUBSET Peers]
  /\ followers \subseteq Peers
\* What waits is about a row that is known, or was fetched after what it replies to.
Waiting(q) ==
  /\ q.do \in {"count", "store", "save", "mention"} /\ q.of \in Rows
  /\ q.do \in {"count", "store"} => q.of \in Posts \cup Notes /\ Known(q.of)
  /\ q.do = "store" => q.n \in Int
  /\ q.do = "save" => q.of \in Notes /\ Written(q.of)
  /\ q.do = "mention" => /\ q.of \in Sources /\ Known(About[q.of])
                         /\ q.known \in BOOLEAN /\ (q.known => Known(q.of))
PendingType == \A q \in pending : Waiting(q)
Core == RowType /\ CountType /\ FlagType /\ GoneType /\ SentType /\ PendingType

\* Nothing is about a post of ours that was not written yet.
WrittenInv == \A r \in Rows : row[r] # "none" /\ About[r] \in Posts => Known(About[r])
\* Our reactions are to notes that are known.
ReactedInv == \A o \in Ours : row[o] # "none" \/ flag[Shown(o)] = o => Known(About[o])

\* CountersAgree, of posts that are yet to come as well.
AgreeInv == \A k \in Counters : Known(k[2]) \/ k[2] \in Posts =>
  count[k] = Tally(row, kind, k) \/ k \in drift

\* Who has a copy would be told of its deletion now, or is excused.
ToldOf(r) == CASE r \in Notes -> Forward(r)
               [] r \in Posts \cup Boosting -> followers
               [] r \in Ours \ Boosting -> {By[About[r]]}
               [] OTHER -> {}
ReachInv == \A r \in Rows : copies[r] \subseteq ToldOf(r) \cup excused[r]

InteractionsInv ==
  /\ Core /\ WrittenInv /\ ReactedInv /\ AgreeInv /\ ReachInv
  /\ DeletedStaysDeleted /\ DeletionReachesCopies /\ ShownReactionStands

-----------------------------------------------------------------------------
(* Rows and counters. *)

\* The six sorts of rows, and what each may be about.
LEMMA Sorts ==
  /\ \A r \in Notes : r \in Rows /\ r \in Inbox /\ r \notin Posts \cup Ours \cup Likes \cup Boosts \cup Sources
  /\ \A r \in Posts : r \in Rows /\ r \notin Inbox \cup Notes \cup Ours \cup Likes \cup Boosts \cup Sources
  /\ \A r \in Ours : r \in Rows /\ r \notin Inbox \cup Notes \cup Posts \cup Likes \cup Boosts \cup Sources
  /\ \A r \in Likes : r \in Rows /\ r \in Inbox /\ r \notin Posts \cup Ours \cup Notes \cup Boosts \cup Sources
  /\ \A r \in Boosts : r \in Rows /\ r \in Inbox /\ r \notin Posts \cup Ours \cup Notes \cup Likes \cup Sources
  /\ \A r \in Sources : r \in Rows /\ r \notin Inbox \cup Posts \cup Ours \cup Notes \cup Likes \cup Boosts
  /\ \A r \in Rows : r # None
  BY RowsAssumption DEF Rows, Inbox, Mine

LEMMA Targets ==
  /\ \A r \in Likes \cup Boosts \cup Sources : About[r] \in Posts
  /\ \A r \in Posts \cup Notes : About[r] \in Posts \cup Notes \cup {None}
  /\ \A r \in Ours : About[r] \in Notes
  /\ \A r \in Inbox : By[r] \in Peers
  BY RowsAssumption

LEMMA KindOfEach ==
  ASSUME NEW K
  PROVE  /\ \A r \in Likes : KindOf(r, K) = "likes"
         /\ \A r \in Boosts : KindOf(r, K) = "boosts"
         /\ \A r \in Notes \cup Posts : KindOf(r, K) = "replies"
         /\ \A r \in Sources : KindOf(r, K) = K[r]
         /\ \A r \in Ours : KindOf(r, K) = "none"
  BY Sorts DEF KindOf

\* Whatever is about a known row has a counter; our own reactions have none.
LEMMA HasCounter ==
  ASSUME RowType, NEW r \in Rows, r \notin Ours, About[r] # None
  PROVE  /\ Counter(r) \in Counters /\ Counter(r)[1] = KindOf(r, kind) /\ Counter(r)[2] = About[r]
         /\ KindOf(r, kind) \in Kinds
<1>1. CASE r \in Notes \cup Posts
  BY <1>1, KindOfEach, Targets DEF Counter, Counters, Kinds
<1>2. CASE r \in Likes \cup Boosts
  BY <1>2, KindOfEach, Targets DEF Counter, Counters, Kinds
<1>3. CASE r \in Sources
  BY <1>3, KindOfEach, Targets DEF Counter, Counters, Kinds, RowType
<1> QED
  BY <1>1, <1>2, <1>3 DEF Rows, Inbox, Mine

LEMMA KnownRows ==
  ASSUME NEW x, x \in Rows
  PROVE  Known(x) <=> row[x] # "none"
  BY Sorts DEF Known

LEMMA CountedFinite ==
  ASSUME NEW R, NEW K, NEW k, NEW S \in SUBSET Rows
  PROVE  IsFiniteSet(Counted(R, K, k, S)) /\ Cardinality(Counted(R, K, k, S)) \in Nat
<1>1. Counted(R, K, k, S) \subseteq Rows
  BY DEF Counted
<1> QED
  BY <1>1, RowsAssumption, FS_Subset, FS_CardinalityType

LEMMA TallyType ==
  ASSUME NEW R, NEW K, NEW k
  PROVE  Tally(R, K, k) \in Nat /\ RepliesCount(R, k) \in Nat
  BY CountedFinite DEF Tally, RepliesCount

\* The tally is that of the same rows.
LEMMA TallyKept ==
  ASSUME NEW R, NEW K, NEW R2, NEW K2, NEW k,
         \A r \in Rows : (R[r] = "live" /\ KindOf(r, K) = k[1] /\ About[r] = k[2])
                           <=> (R2[r] = "live" /\ KindOf(r, K2) = k[1] /\ About[r] = k[2])
  PROVE  Tally(R, K, k) = Tally(R2, K2, k)
<1>1. Counted(R, K, k, Rows) = Counted(R2, K2, k, Rows)
  BY DEF Counted
<1> QED
  BY <1>1 DEF Tally

\* One row more.
LEMMA TallyMore ==
  ASSUME NEW R, NEW R2, NEW K, NEW k, NEW x \in Rows,
         R[x] # "live", R2[x] = "live", KindOf(x, K) = k[1], About[x] = k[2],
         \A r \in Rows : r # x => (R[r] = "live" <=> R2[r] = "live")
  PROVE  Tally(R2, K, k) = Tally(R, K, k) + 1
<1>1. Counted(R2, K, k, Rows) = Counted(R, K, k, Rows) \cup {x} /\ x \notin Counted(R, K, k, Rows)
  BY DEF Counted
<1> QED
  BY <1>1, CountedFinite, FS_AddElement DEF Tally

-----------------------------------------------------------------------------
(* Types. *)

\* A row that is known stays known, and a status that was deleted stays deleted.
Lasting ==
  /\ \A r \in Rows : row[r] # "none" => row'[r] # "none"
  /\ \A r \in Rows \ Sources : row[r] = "deleted" => row'[r] = "deleted"

LEMMA RowNext ==
  ASSUME Core, [Next]_vars
  PROVE  RowType' /\ Lasting
<1> USE Sorts DEF Core, RowType, Lasting
<1>1. ASSUME NEW n \in Notes, Create(n) \/ Read(n) \/ AnnounceNote(n) \/ Vanish(n) PROVE RowType' /\ Lasting
  BY <1>1 DEF Create, Read, AnnounceNote, Vanish, Process, SaveObject, tables
<1>2. ASSUME NEW r \in Rows, NEW untold, Known(r), Revert(r, untold), UNCHANGED kind PROVE RowType' /\ Lasting
  BY <1>2 DEF Revert, Known
<1>3. ASSUME NEW n \in Notes, Delete(n) PROVE RowType' /\ Lasting
  BY <1>2, <1>3 DEF Delete
<1>4. ASSUME NEW l \in Likes \cup Boosts, Like(l) \/ Announce(l) \/ Undo(l) PROVE RowType' /\ Lasting
  BY <1>4 DEF Like, Announce, Undo, Known
<1>5. ASSUME NEW a \in Peers, DeleteActor(a) PROVE RowType' /\ Lasting
  BY <1>5 DEF DeleteActor
<1>6. ASSUME NEW p \in Posts, SendCreate(p) \/ SendDelete(p) \/ SendUpdate(p) PROVE RowType' /\ Lasting
  BY <1>6 DEF SendCreate, SendDelete, SendUpdate, Known, tables
<1>7. ASSUME NEW o \in Ours, React(o) \/ SendUndo(o) PROVE RowType' /\ Lasting
  BY <1>7 DEF React, SendUndo, Known
<1>8. ASSUME NEW r \in Inbox, ForceDelete(r) PROVE RowType' /\ Lasting
  BY <1>2, <1>8 DEF ForceDelete, Rows
<1>9. ASSUME NEW q \in pending, Save(q) PROVE RowType' /\ Lasting
  BY <1>9 DEF Save, SaveObject, PendingType, Waiting
<1>10. ASSUME NEW q \in pending, NEW t \in Kinds, WriteMention(q, t) PROVE RowType' /\ Lasting
  <2>1. q.of \in Sources /\ "mentions" \in Kinds
    BY <1>10 DEF WriteMention, PendingType, Waiting, Kinds
  <2> QED
    BY <1>10, <2>1 DEF WriteMention
<1>11. ASSUME NEW q \in pending, DropMention(q) PROVE RowType' /\ Lasting
  BY <1>11 DEF DropMention, PendingType, Waiting, Known
<1>12. ASSUME UNCHANGED <<row, kind>> PROVE RowType' /\ Lasting
  BY <1>12
<1>14. ASSUME NEW q \in pending, CountReplies(q) \/ StoreReplies(q) PROVE RowType' /\ Lasting
  BY <1>12, <1>14 DEF CountReplies, StoreReplies, tables
<1>15. ASSUME Restart \/ (\E a \in Peers : Follow(a) \/ Unfollow(a)) \/ UNCHANGED vars PROVE RowType' /\ Lasting
  BY <1>12, <1>15 DEF Restart, Follow, Unfollow, tables, vars
<1>16. ASSUME NEW x, Fetch(x) \/ FetchReplies(x) \/ Mention(x) PROVE RowType' /\ Lasting
  BY <1>12, <1>16 DEF Fetch, FetchReplies, Mention, tables
<1> QED
  BY <1>1, <1>3, <1>4, <1>5, <1>6, <1>7, <1>8, <1>9, <1>10, <1>11, <1>14, <1>15, <1>16
  DEF Next, Incoming, Requests, Continue

\* A counter is an integer, whether rows are counted anew or one is added.
LEMMA CountNext ==
  ASSUME Core, [Next]_vars
  PROVE  CountType'
<1> USE Sorts DEF Core, CountType
<1>1. ASSUME NEW R, NEW K, NEW ks, Recount(R, K, ks) PROVE CountType'
  BY <1>1, TallyType DEF Recount
<1>2. ASSUME NEW n \in Notes, SaveObject(n) PROVE CountType'
  <2>1. <<"replies", n>> \in Counters
    BY DEF Counters
  <2>2. Touched({n}) \subseteq Counters
    BY HasCounter DEF Touched, Known
  <2> QED
    BY <1>2, <2>1, <2>2 DEF SaveObject
<1>3. ASSUME NEW n \in Notes, Create(n) \/ Read(n) \/ AnnounceNote(n) \/ Vanish(n) PROVE CountType'
  BY <1>1, <1>2, <1>3 DEF Create, Read, AnnounceNote, Vanish, Process, tables
<1>4. ASSUME NEW r \in Inbox, NEW untold, Revert(r, untold) PROVE CountType'
  <2>1. r \in Rows /\ r \notin Ours /\ Tally(row, kind, Counter(r)) \in Nat
    BY TallyType DEF Rows
  <2>2. CASE Known(About[r])
    <3>1. Counter(r) \in Counters
      BY <2>1, <2>2, HasCounter DEF Known
    <3> QED
      BY <1>4, <2>1, <2>2, <3>1 DEF Revert, Reverted
  <2>3. CASE ~Known(About[r])
    BY <1>4, <2>3 DEF Revert
  <2> QED
    BY <2>2, <2>3
<1>5. ASSUME NEW n \in Notes, Delete(n) PROVE CountType'
  BY <1>4, <1>5 DEF Delete
<1>6. ASSUME NEW l \in Likes \cup Boosts, Like(l) \/ Announce(l) \/ Undo(l) PROVE CountType'
  <2>1. /\ Counter(l) \in Counters
        /\ Tally([row EXCEPT ![l] = "deleted"], kind, Counter(l)) \in Nat
    BY HasCounter, Targets, TallyType
  <2> QED
    BY <1>1, <1>6, <2>1 DEF Like, Announce, Undo
<1>7. ASSUME NEW a \in Peers, DeleteActor(a) PROVE CountType'
  BY <1>1, <1>7 DEF DeleteActor
<1>8. ASSUME NEW p \in Posts, SendCreate(p) \/ SendDelete(p) \/ SendUpdate(p) PROVE CountType'
  <2>1. Touched({p}) \subseteq Counters
    BY HasCounter DEF Touched, Known
  <2> QED
    BY <1>1, <1>8, <2>1 DEF SendCreate, SendDelete, SendUpdate, tables
<1>9. ASSUME NEW r \in Inbox, ForceDelete(r) PROVE CountType'
  BY <1>4, <1>9 DEF ForceDelete
<1>10. ASSUME NEW q \in pending, Save(q) PROVE CountType'
  BY <1>2, <1>10 DEF Save, PendingType, Waiting
<1>11. ASSUME NEW q \in pending, StoreReplies(q) PROVE CountType'
  <2>1. <<"replies", q.of>> \in Counters /\ q.n \in Int
    BY <1>11 DEF StoreReplies, PendingType, Waiting, Counters, Kinds
  <2> QED
    BY <1>11, <2>1 DEF StoreReplies
<1>12. ASSUME NEW q \in pending, NEW t \in Kinds, WriteMention(q, t) PROVE CountType'
  <2>1. q.of \in Sources /\ About[q.of] \in Posts /\ Counter(q.of) \in Counters
    BY <1>12, HasCounter, Targets DEF WriteMention, PendingType, Waiting
  <2> DEFINE new == IF t # "mentions" THEN t ELSE IF q.known THEN kind[q.of] ELSE "mentions"
             k == <<new, About[q.of]>>
             m == Tally([row EXCEPT ![q.of] = "live"], [kind EXCEPT ![q.of] = new], k)
  <2>2. new \in Kinds
    BY <2>1 DEF Kinds, RowType
  <2>3. k \in Counters /\ m \in Nat
    BY <2>1, <2>2, TallyType DEF Counters
  <2>4. \/ /\ count' = [count EXCEPT ![k] = m]
           /\ drift' = (drift \ {k})
                \cup (IF row[q.of] = "live" /\ new # kind[q.of] THEN {Counter(q.of)} ELSE {})
        \/ UNCHANGED <<count, drift>>
    BY <1>12 DEF WriteMention
  <2> HIDE DEF new, k, m
  <2> QED
    BY <2>1, <2>3, <2>4
<1>13. ASSUME NEW q \in pending, DropMention(q) PROVE CountType'
  BY <1>1, <1>13 DEF DropMention
<1>14. ASSUME UNCHANGED <<count, drift>> PROVE CountType'
  BY <1>14
<1>15. ASSUME NEW o \in Ours, React(o) \/ SendUndo(o) PROVE CountType'
  BY <1>14, <1>15 DEF React, SendUndo
<1>16. ASSUME NEW x, Fetch(x) \/ FetchReplies(x) \/ Mention(x) \/ CountReplies(x) PROVE CountType'
  BY <1>14, <1>16 DEF Fetch, FetchReplies, Mention, CountReplies, tables
<1>17. ASSUME Restart \/ (\E a \in Peers : Follow(a) \/ Unfollow(a)) \/ UNCHANGED vars PROVE CountType'
  BY <1>14, <1>17 DEF Restart, Follow, Unfollow, tables, vars
<1> QED
  BY <1>3, <1>5, <1>6, <1>7, <1>8, <1>9, <1>10, <1>11, <1>12, <1>13, <1>15, <1>16, <1>17
  DEF Next, Incoming, Requests, Continue

LEMMA FlagNext ==
  ASSUME Core, [Next]_vars
  PROVE  FlagType' /\ GoneType'
<1> USE Sorts DEF Core, FlagType, GoneType
<1>1. ASSUME NEW o \in Ours, React(o) \/ SendUndo(o) PROVE FlagType' /\ GoneType'
  <2>1. Shown(o) \in BOOLEAN \X Notes /\ About[o] \in Notes
    <3>1. (o \in Boosting) \in BOOLEAN
      OBVIOUS
    <3> QED
      BY <3>1, Targets DEF Shown
  <2> QED
    BY <1>1, <2>1 DEF React, SendUndo
<1>2. ASSUME NEW n \in Notes, Create(n) \/ Read(n) \/ AnnounceNote(n) \/ Vanish(n) \/ Delete(n)
      PROVE  FlagType' /\ GoneType'
  BY <1>2 DEF Create, Read, AnnounceNote, Vanish, Delete, tables, others
<1>3. ASSUME NEW a \in Peers, DeleteActor(a) PROVE FlagType' /\ GoneType'
  BY <1>3 DEF DeleteActor
<1>4. ASSUME NEW q \in pending, Save(q) PROVE FlagType' /\ GoneType'
  BY <1>4 DEF Save
<1>5. ASSUME UNCHANGED <<flag, tomb, gone, raced>> PROVE FlagType' /\ GoneType'
  BY <1>5
<1>6. ASSUME NEW l, Like(l) \/ Announce(l) \/ Undo(l) \/ ForceDelete(l) PROVE FlagType' /\ GoneType'
  BY <1>5, <1>6 DEF Like, Announce, Undo, ForceDelete, others
<1>7. ASSUME NEW p, SendCreate(p) \/ SendDelete(p) \/ SendUpdate(p) PROVE FlagType' /\ GoneType'
  BY <1>5, <1>7 DEF SendCreate, SendDelete, SendUpdate, tables, others
<1>8. ASSUME NEW x, Fetch(x) \/ FetchReplies(x) \/ Mention(x) \/ CountReplies(x) PROVE FlagType' /\ GoneType'
  BY <1>5, <1>8 DEF Fetch, FetchReplies, Mention, CountReplies, tables
<1>9. ASSUME NEW q, StoreReplies(q) \/ DropMention(q) \/ \E t \in Kinds : WriteMention(q, t)
      PROVE  FlagType' /\ GoneType'
  BY <1>5, <1>9 DEF StoreReplies, DropMention, WriteMention
<1>10. ASSUME Restart \/ (\E a \in Peers : Follow(a) \/ Unfollow(a)) \/ UNCHANGED vars
       PROVE  FlagType' /\ GoneType'
  BY <1>5, <1>10 DEF Restart, Follow, Unfollow, tables, others, vars
<1> QED
  BY <1>1, <1>2, <1>3, <1>4, <1>6, <1>7, <1>8, <1>9, <1>10 DEF Next, Incoming, Requests, Continue

LEMMA SentNext ==
  ASSUME Core, [Next]_vars
  PROVE  SentType'
<1> USE Sorts DEF Core, SentType
<1>1. ASSUME NEW n \in Notes, Create(n) \/ Read(n) \/ AnnounceNote(n) \/ Vanish(n) PROVE SentType'
  BY <1>1 DEF Create, Read, AnnounceNote, Vanish, Forward, others, wire
<1>2. ASSUME NEW r \in Rows, NEW untold, Revert(r, untold), UNCHANGED followers,
             copies' \in [Rows -> SUBSET Peers]
      PROVE  SentType'
  BY <1>2 DEF Revert
<1>3. ASSUME NEW n \in Notes, Delete(n) PROVE SentType'
  BY <1>2, <1>3 DEF Delete, wire
<1>4. ASSUME NEW l, Like(l) \/ Announce(l) \/ Undo(l) PROVE SentType'
  BY <1>4 DEF Like, Announce, Undo, others, wire
<1>5. ASSUME NEW a \in Peers, DeleteActor(a) PROVE SentType'
  BY <1>5 DEF DeleteActor
<1>6. ASSUME NEW p \in Posts, SendCreate(p) \/ SendDelete(p) \/ SendUpdate(p) PROVE SentType'
  BY <1>6 DEF SendCreate, SendDelete, SendUpdate, Send, Tell
<1>7. ASSUME NEW o \in Ours, React(o) \/ SendUndo(o) PROVE SentType'
  <2>1. By[About[o]] \in Peers
    BY Targets
  <2> QED
    BY <1>7, <2>1 DEF React, SendUndo, Send, Tell
<1>8. ASSUME NEW r \in Inbox, ForceDelete(r) PROVE SentType'
  BY <1>2, <1>8 DEF ForceDelete, Rows
<1>9. ASSUME NEW q \in pending, Save(q) PROVE SentType'
  BY <1>9 DEF Save, wire
<1>10. ASSUME NEW x, Fetch(x) \/ FetchReplies(x) \/ Mention(x) \/ CountReplies(x) PROVE SentType'
  BY <1>10 DEF Fetch, FetchReplies, Mention, CountReplies, wire
<1>11. ASSUME NEW q, StoreReplies(q) \/ DropMention(q) \/ \E t \in Kinds : WriteMention(q, t) PROVE SentType'
  BY <1>11 DEF StoreReplies, DropMention, WriteMention, wire
<1>12. ASSUME Restart \/ (\E a \in Peers : Follow(a) \/ Unfollow(a)) \/ UNCHANGED vars PROVE SentType'
  BY <1>12 DEF Restart, Follow, Unfollow, wire, others, vars
<1> QED
  BY <1>1, <1>3, <1>4, <1>5, <1>6, <1>7, <1>8, <1>9, <1>10, <1>11, <1>12
  DEF Next, Incoming, Requests, Continue

\* What waits was known when it began, and is still.
LEMMA PendingNext ==
  ASSUME Core, [Next]_vars
  PROVE  PendingType'
<1>1. \A x \in Rows : Known(x) => Known(x)'
  BY RowNext, Sorts DEF Lasting, Known
<1>2. ASSUME NEW q, Waiting(q) PROVE Waiting(q)'
  <2>1. q.do = "mention" => About[q.of] \in Rows
    BY <1>2, Targets, Sorts DEF Waiting
  <2>2. Written(q.of) => Written(q.of)'
    BY <1>1, Sorts DEF Written
  <2> QED
    BY <1>1, <1>2, <2>1, <2>2 DEF Waiting
<1>3. \A q \in pending : Waiting(q)'
  BY <1>2 DEF PendingType, Core
<1>4. ASSUME pending' \subseteq pending PROVE PendingType'
  BY <1>3, <1>4 DEF PendingType
<1>5. ASSUME NEW p \in Posts, SendCreate(p) PROVE PendingType'
  <2>1. \A x \in {About[p]} \ {None} : Waiting([do |-> "count", of |-> x])
    BY <1>5, Targets, Sorts DEF SendCreate, Waiting
  <2> QED
    BY <1>2, <1>3, <1>5, <2>1 DEF SendCreate, PendingType
<1>6. ASSUME NEW q \in pending, CountReplies(q) PROVE PendingType'
  <2> DEFINE n == RepliesCount(row, <<"replies", q.of>>)
             s == [do |-> "store", of |-> q.of, n |-> n]
  <2>1. n \in Int
    BY TallyType
  <2>2. q.of \in Posts \cup Notes /\ Known(q.of) /\ q.of \in Rows
    BY <1>6, Sorts DEF CountReplies, Core, PendingType, Waiting
  <2>3. pending' = (pending \ {q}) \cup {s}
    BY <1>6 DEF CountReplies
  <2> HIDE DEF n
  <2>4. Waiting(s)
    BY <2>1, <2>2 DEF Waiting
  <2> QED
    BY <1>2, <1>3, <2>3, <2>4 DEF PendingType
<1>7. ASSUME NEW n \in Notes, Fetch(n) PROVE PendingType'
  <2>1. Waiting([do |-> "save", of |-> n])
    BY <1>7, Sorts DEF Fetch, Served, Waiting
  <2> QED
    BY <1>2, <1>3, <1>7, <2>1 DEF Fetch, PendingType
<1>8. ASSUME NEW x \in Notes \cup Posts, FetchReplies(x) PROVE PendingType'
  <2>1. \A n \in Notes : Served(n) => Waiting([do |-> "save", of |-> n])
    BY Sorts DEF Served, Waiting
  <2> QED
    BY <1>2, <1>3, <1>8, <2>1 DEF FetchReplies, PendingType
<1>9. ASSUME NEW s \in Sources, Mention(s) PROVE PendingType'
  <2>1. Known(s) \in BOOLEAN
    BY DEF Known
  <2>2. Waiting([do |-> "mention", of |-> s, known |-> Known(s)])
    BY <1>9, <2>1, Sorts DEF Mention, Waiting
  <2> QED
    BY <1>2, <1>3, <1>9, <2>2 DEF Mention, PendingType
<1>10. ASSUME NEW q \in pending,
              StoreReplies(q) \/ Save(q) \/ DropMention(q) \/ \E t \in Kinds : WriteMention(q, t)
       PROVE  PendingType'
  BY <1>4, <1>10 DEF StoreReplies, Save, DropMention, WriteMention
<1>11. ASSUME Incoming PROVE PendingType'
  BY <1>4, <1>11 DEF Incoming, Create, Read, AnnounceNote, Vanish, Delete, Like, Announce, Undo,
                     DeleteActor, others
<1>12. ASSUME NEW x, SendDelete(x) \/ SendUpdate(x) \/ ForceDelete(x) \/ React(x) \/ SendUndo(x)
       PROVE  PendingType'
  BY <1>4, <1>12 DEF SendDelete, SendUpdate, ForceDelete, React, SendUndo
<1>13. ASSUME Restart \/ (\E a \in Peers : Follow(a) \/ Unfollow(a)) \/ UNCHANGED vars
       PROVE  PendingType'
  BY <1>4, <1>13 DEF Restart, Follow, Unfollow, others, vars
<1> QED
  BY <1>5, <1>6, <1>7, <1>8, <1>9, <1>10, <1>11, <1>12, <1>13 DEF Next, Requests, Continue

LEMMA CoreNext ==
  ASSUME Core, [Next]_vars
  PROVE  Core'
  BY RowNext, CountNext, FlagNext, SentNext, PendingNext DEF Core

-----------------------------------------------------------------------------
(* What is deleted stays deleted, and what is shown stands. *)

\* Webmentions change no other row.
LEMMA MentionRows ==
  ASSUME Core, NEW q \in pending, DropMention(q) \/ \E t \in Kinds : WriteMention(q, t)
  PROVE  q.of \in Sources /\ \A r \in Rows : r # q.of => row'[r] = row[r]
<1>1. q.of \in Sources /\ q.of \in Rows
  BY Sorts DEF DropMention, WriteMention, Core, PendingType, Waiting
<1>2. CASE DropMention(q)
  BY <1>1, <1>2 DEF DropMention, Recount, Core, RowType
<1>3. ASSUME NEW t \in Kinds, WriteMention(q, t) PROVE \A r \in Rows : r # q.of => row'[r] = row[r]
  BY <1>1, <1>3 DEF WriteMention, Core, RowType
<1> QED
  BY <1>1, <1>2, <1>3

\* A row is written after the one it is about, but for notes about notes.
LEMMA NewRows ==
  ASSUME Core, [Next]_vars, NEW r \in Rows, row[r] = "none", row'[r] # "none"
  PROVE  /\ About[r] \in Posts => Known(About[r])
         /\ r \in Ours => Known(About[r])
<1> USE Sorts, Targets DEF Core, RowType
<1>1. ASSUME NEW n \in Notes, Create(n) \/ Read(n) \/ AnnounceNote(n) PROVE r = n /\ Written(n)
  BY <1>1 DEF Create, Read, AnnounceNote, Process, SaveObject, Served
<1>2. ASSUME NEW x \in Rows, NEW untold, Known(x), Revert(x, untold) PROVE FALSE
  BY <1>2 DEF Revert, Known
<1>3. ASSUME NEW n \in Notes, Delete(n) PROVE FALSE
  BY <1>2, <1>3 DEF Delete
<1>4. ASSUME NEW l \in Likes \cup Boosts, Like(l) \/ Announce(l) \/ Undo(l) PROVE Known(About[r])
  BY <1>4 DEF Like, Announce, Undo, Known
<1>5. ASSUME NEW a \in Peers, DeleteActor(a) PROVE FALSE
  BY <1>5 DEF DeleteActor
<1>6. ASSUME NEW p \in Posts, SendCreate(p) \/ SendDelete(p) \/ SendUpdate(p)
      PROVE r = p /\ (About[r] \in Posts => Known(About[r]))
  BY <1>6 DEF SendCreate, SendDelete, SendUpdate, Known, tables
<1>7. ASSUME NEW o \in Ours, React(o) \/ SendUndo(o) PROVE Known(About[r])
  BY <1>7 DEF React, SendUndo, Known
<1>8. ASSUME NEW x \in Inbox, ForceDelete(x) PROVE FALSE
  BY <1>2, <1>8 DEF ForceDelete, Rows
<1>9. ASSUME NEW q \in pending, Save(q) PROVE r \in Notes /\ Written(r)
  BY <1>9 DEF Save, SaveObject, PendingType, Waiting
<1>10. ASSUME NEW q \in pending, NEW t \in Kinds, WriteMention(q, t) PROVE r \in Sources /\ Known(About[r])
  BY <1>10 DEF WriteMention, PendingType, Waiting
<1>11. ASSUME NEW q \in pending, DropMention(q) PROVE FALSE
  BY <1>11 DEF DropMention, PendingType, Waiting, Known
<1>12. ASSUME UNCHANGED row PROVE FALSE
  BY <1>12
<1>13. ASSUME NEW q, CountReplies(q) \/ StoreReplies(q) \/ Vanish(q) PROVE FALSE
  BY <1>12, <1>13 DEF CountReplies, StoreReplies, Vanish, tables
<1>14. ASSUME Restart \/ (\E a \in Peers : Follow(a) \/ Unfollow(a)) \/ UNCHANGED vars PROVE FALSE
  BY <1>12, <1>14 DEF Restart, Follow, Unfollow, tables, vars
<1>15. ASSUME NEW x, Fetch(x) \/ FetchReplies(x) \/ Mention(x) PROVE FALSE
  BY <1>12, <1>15 DEF Fetch, FetchReplies, Mention, tables
<1> QED
  BY <1>1, <1>3, <1>4, <1>5, <1>6, <1>7, <1>8, <1>9, <1>10, <1>11, <1>13, <1>14, <1>15
  DEF Next, Incoming, Requests, Continue, Written

LEMMA WrittenNext ==
  ASSUME Core, WrittenInv, [Next]_vars
  PROVE  WrittenInv'
<1> SUFFICES ASSUME NEW r \in Rows, row'[r] # "none", About[r] \in Posts PROVE Known(About[r])'
  BY DEF WrittenInv
<1>1. Known(About[r])
  BY NewRows DEF WrittenInv
<1> QED
  BY <1>1, RowNext, Sorts DEF Lasting, Known

\* A flag that is set is that of the reaction that was just sent.
LEMMA FlagMoves ==
  ASSUME Core, [Next]_vars, NEW o \in Ours, flag'[Shown(o)] = o
  PROVE  flag[Shown(o)] = o \/ (React(o) /\ row'[o] = "live" /\ Known(About[o]))
<1> USE DEF Core, FlagType
<1>1. ASSUME NEW x \in Ours, React(x) PROVE flag[Shown(o)] = o \/ (x = o /\ row'[o] = "live")
  <2>1. Shown(x) \in BOOLEAN \X Notes
    <3>1. (x \in Boosting) \in BOOLEAN
      OBVIOUS
    <3> QED
      BY <3>1, Targets DEF Shown
  <2> QED
    BY <1>1, <2>1, Sorts DEF React, RowType
<1>2. ASSUME NEW x \in Ours, SendUndo(x) PROVE flag[Shown(o)] = o
  <2>1. Shown(x) \in BOOLEAN \X Notes
    <3>1. (x \in Boosting) \in BOOLEAN
      OBVIOUS
    <3> QED
      BY <3>1, Targets DEF Shown
  <2>2. flag' = [flag EXCEPT ![Shown(x)] = None] /\ None # o
    BY <1>2, Sorts DEF SendUndo
  <2> QED
    BY <2>1, <2>2
<1>3. ASSUME UNCHANGED flag PROVE flag[Shown(o)] = o
  BY <1>3
<1>4. ASSUME Incoming PROVE flag[Shown(o)] = o
  BY <1>3, <1>4 DEF Incoming, Create, Read, AnnounceNote, Vanish, Delete, Like, Announce, Undo,
                     DeleteActor, tables
<1>5. ASSUME NEW p, SendCreate(p) \/ SendDelete(p) \/ SendUpdate(p) \/ ForceDelete(p) PROVE flag[Shown(o)] = o
  BY <1>3, <1>5 DEF SendCreate, SendDelete, SendUpdate, ForceDelete, tables
<1>6. ASSUME NEW x, Fetch(x) \/ FetchReplies(x) \/ Mention(x) \/ CountReplies(x) PROVE flag[Shown(o)] = o
  BY <1>3, <1>6 DEF Fetch, FetchReplies, Mention, CountReplies, tables
<1>7. ASSUME NEW q, StoreReplies(q) \/ Save(q) \/ DropMention(q) \/ \E t \in Kinds : WriteMention(q, t)
      PROVE  flag[Shown(o)] = o
  BY <1>3, <1>7 DEF StoreReplies, Save, DropMention, WriteMention
<1>8. ASSUME Restart \/ (\E a \in Peers : Follow(a) \/ Unfollow(a)) \/ UNCHANGED vars PROVE flag[Shown(o)] = o
  BY <1>3, <1>8 DEF Restart, Follow, Unfollow, tables, vars
<1> QED
  BY <1>1, <1>2, <1>4, <1>5, <1>6, <1>7, <1>8 DEF Next, Requests, Continue, React

LEMMA ReactedNext ==
  ASSUME Core, ReactedInv, [Next]_vars
  PROVE  ReactedInv'
<1> SUFFICES ASSUME NEW o \in Ours, row'[o] # "none" \/ flag'[Shown(o)] = o PROVE Known(About[o])'
  BY DEF ReactedInv
<1>1. Known(About[o])
  BY NewRows, FlagMoves, Sorts DEF ReactedInv
<1> QED
  BY <1>1, RowNext, Targets, Sorts DEF Lasting, Known

\* A reaction of ours goes when it is undone, or with the note it is to.
LEMMA ReactionGoes ==
  ASSUME Core, [Next]_vars, NEW o \in Ours, row[o] = "live", row'[o] # "live"
  PROVE  SendUndo(o) \/ row'[About[o]] = "deleted"
<1> USE Sorts, Targets DEF Core, RowType
<1>1. ASSUME NEW x \in Rows, NEW untold, Revert(x, untold), x \notin Ours PROVE row'[About[o]] = "deleted"
  BY <1>1 DEF Revert
<1>2. ASSUME NEW n \in Notes, Create(n) \/ Read(n) \/ AnnounceNote(n) \/ Vanish(n) PROVE FALSE
  BY <1>2 DEF Create, Read, AnnounceNote, Vanish, Process, SaveObject, tables
<1>3. ASSUME NEW n \in Notes, Delete(n) PROVE row'[About[o]] = "deleted"
  BY <1>1, <1>3 DEF Delete
<1>4. ASSUME NEW l \in Likes \cup Boosts, Like(l) \/ Announce(l) \/ Undo(l) PROVE FALSE
  BY <1>4 DEF Like, Announce, Undo
<1>5. ASSUME NEW a \in Peers, DeleteActor(a) PROVE row'[About[o]] = "deleted"
  BY <1>5 DEF DeleteActor
<1>6. ASSUME NEW p \in Posts, SendCreate(p) \/ SendDelete(p) \/ SendUpdate(p) PROVE FALSE
  BY <1>6 DEF SendCreate, SendDelete, SendUpdate, tables
<1>7. ASSUME NEW x \in Ours, React(x) \/ SendUndo(x) PROVE SendUndo(o)
  BY <1>7 DEF React, SendUndo
<1>8. ASSUME NEW x \in Inbox, ForceDelete(x) PROVE row'[About[o]] = "deleted"
  BY <1>1, <1>8 DEF ForceDelete, Rows
<1>9. ASSUME NEW q \in pending, Save(q) \/ DropMention(q) \/ \E t \in Kinds : WriteMention(q, t) PROVE FALSE
  <2>1. CASE Save(q)
    BY <2>1 DEF Save, SaveObject, PendingType, Waiting
  <2> QED
    BY <1>9, <2>1, MentionRows
<1>10. ASSUME NEW q, CountReplies(q) \/ StoreReplies(q) PROVE FALSE
  BY <1>10 DEF CountReplies, StoreReplies, tables
<1>11. ASSUME Restart \/ (\E a \in Peers : Follow(a) \/ Unfollow(a)) \/ UNCHANGED vars PROVE FALSE
  BY <1>11 DEF Restart, Follow, Unfollow, tables, vars
<1>12. ASSUME NEW x, Fetch(x) \/ FetchReplies(x) \/ Mention(x) PROVE FALSE
  BY <1>12 DEF Fetch, FetchReplies, Mention, tables
<1> QED
  BY <1>2, <1>3, <1>4, <1>5, <1>6, <1>7, <1>8, <1>9, <1>10, <1>11, <1>12
  DEF Next, Incoming, Requests, Continue

LEMMA ShownNext ==
  ASSUME Core, ReactedInv, ShownReactionStands, [Next]_vars
  PROVE  ShownReactionStands'
<1> SUFFICES ASSUME NEW o \in Ours, flag'[Shown(o)] = o, row'[About[o]] = "live" PROVE row'[o] = "live"
  BY DEF ShownReactionStands
<1>1. About[o] \in Notes
  BY Targets
<1>2. CASE flag[Shown(o)] = o
  <2>1. row[About[o]] # "none" /\ About[o] \in Rows \ Sources
    BY <1>1, <1>2, Sorts DEF ReactedInv, Known
  <2>2. row[About[o]] = "live"
    BY <2>1, RowNext, Sorts DEF Core, RowType, Lasting
  <2>3. row[o] = "live"
    BY <1>2, <2>2 DEF ShownReactionStands
  <2>4. ~SendUndo(o)
    <3>1. (o \in Boosting) \in BOOLEAN
      OBVIOUS
    <3>2. Shown(o) \in BOOLEAN \X Notes
      BY <1>1, <3>1 DEF Shown
    <3> QED
      BY <3>2, Sorts DEF SendUndo, Core, FlagType
  <2> QED
    BY <2>3, <2>4, ReactionGoes
<1>3. CASE flag[Shown(o)] # o
  BY <1>3, FlagMoves
<1> QED
  BY <1>2, <1>3

\* What comes to life was not seen deleted, or is saved from an old copy.
LEMMA DeletedNext ==
  ASSUME Core, DeletedStaysDeleted, [Next]_vars
  PROVE  DeletedStaysDeleted'
<1> USE Sorts DEF Core, RowType, GoneType, DeletedStaysDeleted
<1>1. ASSUME NEW n \in Notes, Create(n) PROVE DeletedStaysDeleted'
  BY <1>1 DEF Create, Process
<1>2. ASSUME NEW n \in Notes, Read(n) \/ AnnounceNote(n) PROVE DeletedStaysDeleted'
  BY <1>2 DEF Read, AnnounceNote, Process, SaveObject, Served
<1>3. ASSUME NEW n \in Notes, Delete(n) PROVE DeletedStaysDeleted'
  BY <1>3 DEF Delete, Revert, Known
<1>4. ASSUME NEW q \in pending, Save(q) PROVE DeletedStaysDeleted'
  BY <1>4 DEF Save, SaveObject, PendingType, Waiting
<1>5. ASSUME UNCHANGED <<tomb, raced>>, \A n \in Notes : row'[n] = "live" => row[n] = "live"
      PROVE  DeletedStaysDeleted'
  BY <1>5
<1>6. ASSUME NEW l \in Likes \cup Boosts, Like(l) \/ Announce(l) \/ Undo(l) PROVE DeletedStaysDeleted'
  BY <1>5, <1>6 DEF Like, Announce, Undo
<1>7. ASSUME NEW a \in Peers, DeleteActor(a) PROVE DeletedStaysDeleted'
  BY <1>5, <1>7 DEF DeleteActor
<1>8. ASSUME NEW p \in Posts, SendCreate(p) \/ SendDelete(p) \/ SendUpdate(p) PROVE DeletedStaysDeleted'
  BY <1>5, <1>8 DEF SendCreate, SendDelete, SendUpdate, tables
<1>9. ASSUME NEW o \in Ours, React(o) \/ SendUndo(o) PROVE DeletedStaysDeleted'
  BY <1>5, <1>9 DEF React, SendUndo
<1>10. ASSUME NEW r \in Inbox, ForceDelete(r) PROVE DeletedStaysDeleted'
  BY <1>5, <1>10 DEF ForceDelete, Revert
<1>11. ASSUME NEW q \in pending, DropMention(q) \/ \E t \in Kinds : WriteMention(q, t)
       PROVE  DeletedStaysDeleted'
  <2>1. UNCHANGED <<tomb, raced>>
    BY <1>11 DEF DropMention, WriteMention
  <2>2. \A n \in Notes : row'[n] = row[n]
    BY <1>11, MentionRows
  <2> QED
    BY <1>5, <2>1, <2>2
<1>12. ASSUME NEW q, CountReplies(q) \/ StoreReplies(q) \/ Vanish(q) PROVE DeletedStaysDeleted'
  BY <1>5, <1>12 DEF CountReplies, StoreReplies, Vanish, tables
<1>13. ASSUME NEW x, Fetch(x) \/ FetchReplies(x) \/ Mention(x) PROVE DeletedStaysDeleted'
  BY <1>5, <1>13 DEF Fetch, FetchReplies, Mention, tables
<1>14. ASSUME Restart \/ (\E a \in Peers : Follow(a) \/ Unfollow(a)) \/ UNCHANGED vars
       PROVE  DeletedStaysDeleted'
  BY <1>5, <1>14 DEF Restart, Follow, Unfollow, tables, vars
<1> QED
  BY <1>1, <1>2, <1>3, <1>4, <1>6, <1>7, <1>8, <1>9, <1>10, <1>11, <1>12, <1>13, <1>14
  DEF Next, Incoming, Requests, Continue

-----------------------------------------------------------------------------
(* Copies. *)

\* Who would be told of a deletion.
LEMMA Told ==
  /\ \A r \in Notes : ToldOf(r) = Forward(r)
  /\ \A r \in Posts \cup Boosting : ToldOf(r) = followers
  /\ \A r \in Ours \ Boosting : ToldOf(r) = {By[About[r]]}
  /\ \A r \in Likes \cup Boosts \cup Sources : ToldOf(r) = {}
  BY Sorts, RowsAssumption DEF ToldOf

Reach == ReachInv /\ DeletionReachesCopies

\* As long as nobody stops to follow, who would be told is told later, too.
LEMMA ToldLater ==
  ASSUME Core, [Next]_vars, followers \subseteq followers', NEW r \in Rows
  PROVE  ToldOf(r) \subseteq ToldOf(r)'
<1>1. CASE r \in Notes
  <2>1. Known(About[r]) /\ About[r] \in Posts => Known(About[r])'
    BY RowNext, Sorts DEF Lasting, Known
  <2> QED
    BY <1>1, <2>1, Sorts, RowsAssumption DEF ToldOf, Forward
<1>2. CASE r \in Posts \cup Boosting
  BY <1>2, Sorts, RowsAssumption DEF ToldOf
<1>3. CASE r \in Ours \ Boosting
  BY <1>3, Sorts, RowsAssumption DEF ToldOf
<1>4. CASE r \in Likes \cup Boosts \cup Sources
  BY <1>4, Told
<1> QED
  BY <1>1, <1>2, <1>3, <1>4 DEF Rows, Inbox, Mine

\* A step that reaches: each row has no new copy, or one that would be told of
\* its deletion; whoever has a copy of a row that it deletes is told or excused.
LEMMA ReachStep ==
  ASSUME Core, Reach, [Next]_vars, followers \subseteq followers',
         \A r \in Rows : excused[r] \subseteq excused'[r],
         \A r \in Rows : copies'[r] \subseteq copies[r] \cup ToldOf(r)' \cup excused'[r],
         \A r \in Rows : row'[r] = "deleted" =>
           \/ row[r] = "deleted" /\ copies'[r] \subseteq copies[r] \cup excused'[r]
           \/ copies'[r] \subseteq excused'[r]
  PROVE  Reach'
<1>1. ReachInv'
  BY ToldLater DEF Reach, ReachInv
<1>2. DeletionReachesCopies'
  BY DEF Reach, DeletionReachesCopies
<1> QED
  BY <1>1, <1>2 DEF Reach

\* In particular, a step that sends nothing.
LEMMA ReachQuiet ==
  ASSUME Core, Reach, [Next]_vars, followers \subseteq followers', UNCHANGED wire,
         \A r \in Rows : row'[r] = "deleted" => row[r] = "deleted" \/ ToldOf(r) = {}
  PROVE  Reach'
<1>1. \A r \in Rows : copies'[r] = copies[r] /\ excused'[r] = excused[r]
  BY DEF wire
<1>2. \A r \in Rows : ToldOf(r) = {} => copies[r] \subseteq excused[r]
  BY DEF Reach, ReachInv
<1> QED
  BY <1>1, <1>2, ReachStep

LEMMA ReachIncoming ==
  ASSUME Core, Reach, Incoming
  PROVE  Reach'
<1>0. [Next]_vars
  BY DEF Next
<1> USE Sorts DEF Core, RowType, SentType
<1>1. ASSUME NEW n \in Notes, Create(n) PROVE Reach'
  <2>1. /\ UNCHANGED <<followers, excused>> /\ \A r \in Rows : r # n => copies'[r] = copies[r] /\ row'[r] = row[r]
        /\ copies'[n] = Forward(n) /\ row'[n] = "live"
    BY <1>1 DEF Create, Process, others
  <2>2. copies'[n] \subseteq ToldOf(n)'
    BY <1>0, <2>1, Told, ToldLater
  <2> QED
    BY <1>0, <2>1, <2>2, ReachStep
<1>2. ASSUME NEW n \in Notes, Read(n) \/ AnnounceNote(n) \/ Vanish(n) PROVE Reach'
  <2>1. /\ UNCHANGED <<followers, wire>>
        /\ \A r \in Rows : row'[r] = "deleted" => row[r] = "deleted"
    BY <1>2 DEF Read, AnnounceNote, Vanish, Process, SaveObject, others, tables
  <2> QED
    BY <1>0, <2>1, ReachQuiet
<1>3. ASSUME NEW n \in Notes, Delete(n) PROVE Reach'
  <2>1. CASE ~Known(n)
    BY <1>0, <1>3, <2>1, ReachQuiet DEF Delete
  <2>2. CASE Known(n)
    <3>1. /\ UNCHANGED followers /\ Revert(n, {}) /\ copies' = [copies EXCEPT ![n] = copies[n] \ Forward(n)]
      BY <1>3, <2>2 DEF Delete
    <3>2. \A r \in Rows : excused[r] \subseteq excused'[r]
      BY <3>1 DEF Revert
    <3>3. copies[n] \subseteq Forward(n) \cup excused[n]
      BY Told DEF Reach, ReachInv
    <3>4. copies'[n] \subseteq excused'[n]
      BY <3>1, <3>2, <3>3
    <3>5. ASSUME NEW r \in Rows, r # n, row'[r] = "deleted"
          PROVE  row[r] = "deleted" \/ copies'[r] \subseteq excused'[r]
      BY <3>1, <3>5 DEF Revert
    <3> QED
      BY <1>0, <3>1, <3>2, <3>4, <3>5, ReachStep
  <2> QED
    BY <2>1, <2>2
<1>4. ASSUME NEW l \in Likes \cup Boosts, Like(l) \/ Announce(l) \/ Undo(l) PROVE Reach'
  <2>1. UNCHANGED <<followers, wire>> /\ \A r \in Rows : r # l => row'[r] = row[r]
    BY <1>4 DEF Like, Announce, Undo, others
  <2>2. ToldOf(l) = {}
    BY Told
  <2> QED
    BY <1>0, <2>1, <2>2, ReachQuiet
<1>5. ASSUME NEW a \in Peers, DeleteActor(a) PROVE Reach'
  <2>1. /\ UNCHANGED <<followers, copies>> /\ \A r \in Rows : excused[r] \subseteq excused'[r]
        /\ \A r \in Rows : row'[r] = "deleted" => row[r] = "deleted" \/ copies[r] \subseteq excused'[r]
    BY <1>5 DEF DeleteActor
  <2> QED
    BY <1>0, <2>1, ReachStep
<1> QED
  BY <1>1, <1>2, <1>3, <1>4, <1>5 DEF Incoming

LEMMA ReachRequests ==
  ASSUME Core, Reach, Requests
  PROVE  Reach'
<1>0. [Next]_vars
  BY DEF Next
<1> USE Sorts DEF Core, RowType, SentType
<1>1. ASSUME NEW p \in Posts, SendCreate(p) \/ SendUpdate(p) PROVE Reach'
  <2>1. /\ UNCHANGED followers /\ \A r \in Rows : r # p => copies'[r] = copies[r] /\ row'[r] = row[r]
        /\ copies'[p] = copies[p] \cup followers /\ \A r \in Rows : excused[r] \subseteq excused'[r]
        /\ row'[p] = "live" \/ followers \subseteq excused'[p]
    BY <1>1 DEF SendCreate, SendUpdate, Send, Known, tables
  <2>2. ToldOf(p) \subseteq ToldOf(p)' /\ ToldOf(p) = followers
    BY <1>0, <2>1, Told, ToldLater
  <2>3. row'[p] = "deleted" => row[p] = "deleted"
    BY <1>1 DEF SendCreate, SendUpdate, tables
  <2> QED
    BY <1>0, <2>1, <2>2, <2>3, ReachStep
<1>2. ASSUME NEW p \in Posts, SendDelete(p) PROVE Reach'
  <2>1. /\ UNCHANGED <<followers, excused>> /\ copies'[p] = copies[p] \ followers
        /\ \A r \in Rows : r # p => copies'[r] = copies[r] /\ row'[r] = row[r]
    BY <1>2 DEF SendDelete, Tell
  <2>2. copies[p] \subseteq followers \cup excused[p]
    BY Told DEF Reach, ReachInv
  <2> QED
    BY <1>0, <2>1, <2>2, ReachStep
<1>3. ASSUME NEW o \in Ours, React(o) PROVE Reach'
  <2>1. /\ UNCHANGED <<followers, excused>> /\ row'[o] = "live"
        /\ \A r \in Rows : r # o => copies'[r] = copies[r] /\ row'[r] = row[r]
        /\ copies'[o] = copies[o] \cup (IF o \in Boosting THEN followers ELSE {By[About[o]]})
    BY <1>3 DEF React, Send
  <2>2. ToldOf(o) \subseteq ToldOf(o)'
        /\ ToldOf(o) = IF o \in Boosting THEN followers ELSE {By[About[o]]}
    BY <1>0, <2>1, Told, ToldLater
  <2> QED
    BY <1>0, <2>1, <2>2, ReachStep
<1>4. ASSUME NEW o \in Ours, SendUndo(o) PROVE Reach'
  <2>1. /\ UNCHANGED <<followers, excused>>
        /\ \A r \in Rows : r # o => copies'[r] = copies[r] /\ row'[r] = row[r]
        /\ copies'[o] = copies[o] \ (IF o \in Boosting THEN followers ELSE {By[About[o]]})
    BY <1>4 DEF SendUndo, Tell
  <2>2. copies[o] \subseteq (IF o \in Boosting THEN followers ELSE {By[About[o]]}) \cup excused[o]
    BY Told DEF Reach, ReachInv
  <2> QED
    BY <1>0, <2>1, <2>2, ReachStep
<1>5. ASSUME NEW x \in Inbox, ForceDelete(x) PROVE Reach'
  <2>1. Revert(x, {x}) /\ UNCHANGED <<followers, copies>>
    BY <1>5 DEF ForceDelete
  <2>2. /\ \A r \in Rows : excused[r] \subseteq excused'[r]
        /\ \A r \in Rows : row'[r] = "deleted" => row[r] = "deleted" \/ copies[r] \subseteq excused'[r]
    BY <2>1 DEF Revert
  <2> QED
    BY <1>0, <2>1, <2>2, ReachStep
<1>6. ASSUME NEW x, Fetch(x) \/ FetchReplies(x) \/ Mention(x) PROVE Reach'
  <2>1. UNCHANGED <<followers, wire, row>>
    BY <1>6 DEF Fetch, FetchReplies, Mention, tables
  <2> QED
    BY <1>0, <2>1, ReachQuiet
<1> QED
  BY <1>1, <1>2, <1>3, <1>4, <1>5, <1>6 DEF Requests

LEMMA ReachNext ==
  ASSUME Core, Reach, [Next]_vars
  PROVE  Reach'
<1> USE Sorts DEF Core, RowType, SentType
<1>1. ASSUME NEW q \in pending, Save(q) PROVE Reach'
  <2>1. UNCHANGED <<followers, wire>> /\ \A r \in Rows : row'[r] = "deleted" => row[r] = "deleted"
    BY <1>1 DEF Save, SaveObject, PendingType, Waiting
  <2> QED
    BY <2>1, ReachQuiet
<1>2. ASSUME NEW q \in pending, DropMention(q) \/ \E t \in Kinds : WriteMention(q, t) PROVE Reach'
  <2>1. UNCHANGED <<followers, wire>>
    BY <1>2 DEF DropMention, WriteMention
  <2>2. ToldOf(q.of) = {} /\ \A r \in Rows : r # q.of => row'[r] = row[r]
    BY <1>2, MentionRows, Told
  <2> QED
    BY <2>1, <2>2, ReachQuiet
<1>3. ASSUME UNCHANGED <<followers, wire, row>> PROVE Reach'
  BY <1>3, ReachQuiet
<1>4. ASSUME NEW q, CountReplies(q) \/ StoreReplies(q) PROVE Reach'
  BY <1>3, <1>4 DEF CountReplies, StoreReplies, tables
<1>5. ASSUME Restart \/ UNCHANGED vars PROVE Reach'
  BY <1>3, <1>5 DEF Restart, tables, vars, others
<1>6. ASSUME NEW a \in Peers, Follow(a) PROVE Reach'
  <2>1. followers \subseteq followers' /\ UNCHANGED <<wire, row>>
    BY <1>6 DEF Follow, tables
  <2> QED
    BY <2>1, ReachQuiet
<1>7. ASSUME NEW a \in Peers, Unfollow(a) PROVE Reach'
  <2>1. /\ followers' = followers \ {a} /\ UNCHANGED <<row, copies>>
        /\ \A r \in Rows : excused[r] \subseteq excused'[r]
        /\ \A r \in Notes \cup Posts \cup Boosting : a \in copies[r] => a \in excused'[r]
    BY <1>7, RowsAssumption DEF Unfollow, tables
  <2>2. DeletionReachesCopies'
    BY <2>1 DEF Reach, DeletionReachesCopies
  <2>3. ASSUME NEW r \in Rows PROVE copies'[r] \subseteq ToldOf(r)' \cup excused'[r]
    <3>1. copies[r] \subseteq ToldOf(r) \cup excused[r]
      BY DEF Reach, ReachInv
    <3>2. CASE r \in Notes
      <4>1. Forward(r)' = Forward(r) \ {a}
        BY <2>1 DEF Forward, Known
      <4>2. ToldOf(r) = Forward(r) /\ ToldOf(r)' = Forward(r)'
        BY <3>2, RowsAssumption DEF ToldOf
      <4> QED
        BY <2>1, <3>1, <3>2, <4>1, <4>2
    <3>3. CASE r \in Posts \cup Boosting
      <4>1. ToldOf(r) = followers /\ ToldOf(r)' = followers'
        BY <3>3, RowsAssumption DEF ToldOf
      <4> QED
        BY <2>1, <3>1, <3>3, <4>1
    <3>4. CASE r \in (Ours \ Boosting) \cup Likes \cup Boosts \cup Sources
      <4>1. ToldOf(r)' = ToldOf(r)
        BY <3>4, RowsAssumption DEF ToldOf
      <4> QED
        BY <2>1, <3>1, <4>1
    <3> QED
      BY <3>2, <3>3, <3>4 DEF Rows, Inbox, Mine
  <2> QED
    BY <2>2, <2>3 DEF Reach, ReachInv
<1> QED
  BY <1>1, <1>2, <1>4, <1>5, <1>6, <1>7, ReachIncoming, ReachRequests DEF Next, Continue

-----------------------------------------------------------------------------
(* Counters. *)

\* A tally stands unless one of the rows that it counts comes or goes.
LEMMA TallyStands ==
  ASSUME Core, WrittenInv, [Next]_vars, UNCHANGED kind,
         NEW k \in Counters, Known(k[2])' \/ k[2] \in Posts,
         k[2] \in Notes => row[k[2]] # "none" \/ row'[k[2]] = "none",
         \A r \in Rows \ Ours : Known(About[r]) /\ Counter(r) = k =>
           (row'[r] = "live" <=> row[r] = "live")
  PROVE  (Known(k[2]) \/ k[2] \in Posts) /\ Tally(row', kind', k) = Tally(row, kind, k)
<1>1. k[1] \in Kinds /\ k[2] \in Posts \cup Notes /\ k = <<k[1], k[2]>>
  BY DEF Counters, Kinds
<1>2. Known(k[2]) \/ k[2] \in Posts
  BY <1>1, Sorts DEF Known
<1>3. ASSUME NEW r \in Rows, KindOf(r, kind) = k[1], About[r] = k[2]
      PROVE  row'[r] = "live" <=> row[r] = "live"
  <2>1. r \notin Ours /\ About[r] # None
    BY <1>1, <1>3, KindOfEach, Sorts DEF Kinds
  <2>2. Counter(r) = k
    BY <1>1, <1>3 DEF Counter
  <2>3. CASE row[r] = "none" /\ row'[r] = "none"
    BY <2>3
  <2>4. CASE row[r] # "none" \/ row'[r] # "none"
    <3>1. Known(About[r])
      BY <1>2, <1>3, <2>4, NewRows DEF WrittenInv
    <3> QED
      BY <2>1, <2>2, <3>1
  <2> QED
    BY <2>3, <2>4
<1> QED
  BY <1>2, <1>3, TallyKept

\* The rows that come and go have their counters counted anew, or put in drift.
LEMMA AgreeChanged ==
  ASSUME Core, WrittenInv, AgreeInv, [Next]_vars, UNCHANGED kind, NEW ks,
         \/ Recount(row', kind, ks)
         \/ UNCHANGED count /\ drift' = drift \cup ks,
         \A n \in Notes : row[n] = "none" /\ row'[n] # "none" => <<"replies", n>> \in ks,
         \A r \in Rows \ Ours : Known(About[r]) =>
           (row'[r] = "live" <=> row[r] = "live") \/ Counter(r) \in ks
  PROVE  AgreeInv'
<1> SUFFICES ASSUME NEW k \in Counters, Known(k[2])' \/ k[2] \in Posts
             PROVE  count'[k] = Tally(row', kind', k) \/ k \in drift'
  BY DEF AgreeInv
<1>1. CASE k \in ks
  BY <1>1 DEF Recount
<1>2. CASE k \notin ks
  <2>1. k[2] \in Notes => k = <<"replies", k[2]>>
    BY Sorts DEF Counters
  <2>2. (Known(k[2]) \/ k[2] \in Posts) /\ Tally(row', kind', k) = Tally(row, kind, k)
    BY <1>2, <2>1, TallyStands
  <2>3. count'[k] = count[k] /\ (k \in drift => k \in drift')
    BY <1>2 DEF Recount
  <2> QED
    BY <2>2, <2>3 DEF AgreeInv
<1> QED
  BY <1>1, <1>2

\* Nothing is counted: no row that has a counter comes or goes.
LEMMA AgreeQuiet ==
  ASSUME Core, WrittenInv, AgreeInv, [Next]_vars, UNCHANGED <<kind, count, drift>>,
         \A r \in Rows \ Ours : (row'[r] = "live" <=> row[r] = "live")
                                /\ (row[r] = "none" => row'[r] = "none")
  PROVE  AgreeInv'
<1>1. UNCHANGED count /\ drift' = drift \cup {}
  OBVIOUS
<1>2. \A n \in Notes : row[n] = "none" /\ row'[n] # "none" => <<"replies", n>> \in {}
  BY Sorts
<1> QED
  BY <1>1, <1>2, AgreeChanged

\* One counter is changed, and counts its rows or is put in drift.
LEMMA AgreeOne ==
  ASSUME Core, WrittenInv, AgreeInv, [Next]_vars, UNCHANGED kind, NEW j \in Counters,
         \A k \in Counters : k # j => count'[k] = count[k] /\ (k \in drift => k \in drift'),
         count'[j] = Tally(row', kind', j) \/ j \in drift',
         \A n \in Notes : row[n] = "none" => row'[n] = "none",
         \A r \in Rows \ Ours : Known(About[r]) =>
           (row'[r] = "live" <=> row[r] = "live") \/ Counter(r) = j
  PROVE  AgreeInv'
<1> SUFFICES ASSUME NEW k \in Counters, Known(k[2])' \/ k[2] \in Posts, k # j
             PROVE  count'[k] = Tally(row', kind', k) \/ k \in drift'
  BY DEF AgreeInv
<1>1. (Known(k[2]) \/ k[2] \in Posts) /\ Tally(row', kind', k) = Tally(row, kind, k)
  BY TallyStands
<1> QED
  BY <1>1 DEF AgreeInv

LEMMA AgreeRevert ==
  ASSUME Core, WrittenInv, AgreeInv, [Next]_vars, NEW x \in Inbox, NEW untold,
         Known(x), Revert(x, untold), UNCHANGED kind
  PROVE  AgreeInv'
<1> USE Sorts DEF Core, RowType, CountType
<1>1. x \in Rows \ Ours /\ row[x] # "none"
  BY DEF Rows, Known
<1>2. /\ row'[x] = "deleted" /\ \A r \in Rows \ Ours : r # x => row'[r] = row[r]
      /\ \A r \in Rows : row[r] = "none" => row'[r] = "none"
  BY <1>1, RowsAssumption DEF Revert
<1>3. CASE Known(About[x])
  <2> DEFINE j == Counter(x)
             m == Tally(row, kind, Counter(x))
  <2>1. j \in Counters /\ m \in Nat /\ j[1] = KindOf(x, kind) /\ j[2] = About[x]
    BY <1>1, <1>3, HasCounter, TallyType DEF Known
  <2>2. /\ count' = [count EXCEPT ![j] = m - 1]
        /\ drift' = IF row[x] = "live" THEN drift \ {j} ELSE drift \cup {j}
    BY <1>3 DEF Revert, Reverted
  <2>3. row[x] = "live" => m = Tally(row', kind, j) + 1
    <3>1. \A r \in Rows : r \notin Ours /\ r # x => row'[r] = row[r]
      BY <1>2
    <3>2. ASSUME row[x] = "live" PROVE Counted(row, kind, j, Rows) = Counted(row', kind, j, Rows) \cup {x}
      <4>1. \A r \in Rows : KindOf(r, kind) = j[1] => r \notin Ours
        BY <1>1, <1>3, <2>1, HasCounter, KindOfEach DEF Known, Kinds
      <4> QED
        BY <1>1, <1>2, <2>1, <3>2, <4>1 DEF Counted
    <3>3. x \notin Counted(row', kind, j, Rows)
      BY <1>2 DEF Counted
    <3> QED
      BY <3>2, <3>3, CountedFinite, FS_AddElement DEF Tally
  <2>4. Tally(row', kind, j) \in Nat
    BY TallyType
  <2>5. count'[j] = m - 1
    BY <2>1, <2>2
  <2>6. count'[j] = Tally(row', kind', j) \/ j \in drift'
    BY <2>1, <2>2, <2>3, <2>4, <2>5
  <2>7. \A k \in Counters : k # j => count'[k] = count[k] /\ (k \in drift => k \in drift')
    BY <2>2
  <2>8. \A r \in Rows \ Ours : (row'[r] = "live" <=> row[r] = "live") \/ Counter(r) = j
    BY <1>2
  <2> HIDE DEF j, m
  <2> QED
    BY <1>2, <2>1, <2>6, <2>7, <2>8, AgreeOne
<1>4. CASE ~Known(About[x])
  <2>1. UNCHANGED count /\ drift' = drift \cup {}
    BY <1>4 DEF Revert
  <2>2. \A r \in Rows \ Ours : Known(About[r]) => (row'[r] = "live" <=> row[r] = "live") \/ Counter(r) \in {}
    BY <1>2, <1>4
  <2>3. \A n \in Notes : row[n] = "none" /\ row'[n] # "none" => <<"replies", n>> \in {}
    BY <1>2
  <2> QED
    BY <2>1, <2>2, <2>3, AgreeChanged
<1> QED
  BY <1>3, <1>4

LEMMA AgreeIncoming ==
  ASSUME Core, WrittenInv, AgreeInv, Incoming
  PROVE  AgreeInv'
<1>0. [Next]_vars
  BY DEF Next
<1> USE Sorts DEF Core, RowType, CountType
<1>1. ASSUME NEW n \in Notes, Create(n) \/ Read(n) \/ AnnounceNote(n) PROVE AgreeInv'
  <2> DEFINE ks == {<<"replies", n>>} \cup Touched({n})
  <2>1. UNCHANGED kind /\ row' = [row EXCEPT ![n] = "live"]
    BY <1>1 DEF Create, Read, AnnounceNote, Process, SaveObject
  <2>2. \/ Recount(row', kind, ks)
        \/ UNCHANGED count /\ drift' = drift \cup ks
    BY <1>1 DEF Create, Read, AnnounceNote, Process, SaveObject
  <2>3. Known(About[n]) => Counter(n) \in ks
    BY DEF Touched
  <2>4. \A r \in Rows : r # n => row'[r] = row[r]
    BY <2>1
  <2>5. <<"replies", n>> \in ks
    OBVIOUS
  <2> HIDE DEF ks
  <2> QED
    BY <1>0, <2>1, <2>2, <2>3, <2>4, <2>5, AgreeChanged
<1>2. ASSUME NEW n \in Notes, Vanish(n) PROVE AgreeInv'
  BY <1>0, <1>2, AgreeQuiet DEF Vanish, tables
<1>3. ASSUME NEW n \in Notes, Delete(n) PROVE AgreeInv'
  <2>1. CASE Known(n)
    BY <1>0, <1>3, <2>1, AgreeRevert DEF Delete
  <2>2. CASE ~Known(n)
    BY <1>0, <1>3, <2>2, AgreeQuiet DEF Delete
  <2> QED
    BY <2>1, <2>2
<1>4. ASSUME NEW l \in Likes, Like(l) PROVE AgreeInv'
  <2>1. UNCHANGED kind /\ row' = [row EXCEPT ![l] = "live"] /\ Recount(row', kind, {Counter(l)})
    BY <1>4 DEF Like
  <2>2. \A r \in Rows : r # l => row'[r] = row[r]
    BY <2>1
  <2>3. \A n \in Notes : row'[n] = row[n]
    BY <2>2
  <2> QED
    BY <1>0, <2>1, <2>2, <2>3, AgreeChanged
<1>5. ASSUME NEW b \in Boosts, Announce(b) PROVE AgreeInv'
  <2> DEFINE j == Counter(b)
  <2>1. j \in Counters /\ j[1] = KindOf(b, kind) /\ j[2] = About[b] /\ About[b] \in Posts
    BY Targets, HasCounter
  <2>2. /\ UNCHANGED <<kind, drift>> /\ row[b] = "none" /\ row' = [row EXCEPT ![b] = "live"]
        /\ count' = [count EXCEPT ![j] = count[j] + 1]
    BY <1>5 DEF Announce
  <2>7. row'[b] = "live" /\ \A r \in Rows : r # b => row'[r] = row[r]
    BY <2>2
  <2>8. \A n \in Notes : row'[n] = row[n]
    BY <2>7
  <2> HIDE DEF j
  <2>3. Tally(row', kind, j) = Tally(row, kind, j) + 1
    <3>1. row[b] # "live" /\ row'[b] = "live" /\ b \in Rows
          /\ \A r \in Rows : r # b => (row[r] = "live" <=> row'[r] = "live")
      BY <2>2, <2>7
    <3> QED
      BY <2>1, <3>1, TallyMore
  <2>4. count'[j] = Tally(row', kind', j) \/ j \in drift'
    <3>1. count[j] = Tally(row, kind, j) \/ j \in drift
      BY <2>1 DEF AgreeInv
    <3>2. count'[j] = count[j] + 1
      BY <2>1, <2>2
    <3> QED
      BY <2>2, <2>3, <3>1, <3>2
  <2>5. \A k \in Counters : k # j => count'[k] = count[k] /\ (k \in drift => k \in drift')
    BY <2>2
  <2>6. \A r \in Rows \ Ours : (row'[r] = "live" <=> row[r] = "live") \/ Counter(r) = j
    BY <2>7 DEF j
  <2> QED
    BY <1>0, <2>1, <2>2, <2>4, <2>5, <2>6, <2>8, AgreeOne
<1>6. ASSUME NEW x \in Likes \cup Boosts, Undo(x) PROVE AgreeInv'
  <2> DEFINE j == Counter(x)
  <2>1. j \in Counters /\ j[1] = KindOf(x, kind) /\ j[2] = About[x] /\ About[x] \in Posts
    BY Targets, HasCounter
  <2>2. /\ UNCHANGED kind /\ row[x] # "none" /\ row' = [row EXCEPT ![x] = "deleted"]
        /\ \A k \in Counters : k # j => count'[k] = count[k]
        /\ x \in Boosts => count'[j] = count[j] - 1
        /\ drift' = IF x \in Boosts /\ row[x] = "live" THEN drift ELSE drift \cup {j}
    BY <1>6, <2>1 DEF Undo, Known
  <2>3. count'[j] = Tally(row', kind', j) \/ j \in drift'
    <3>1. CASE x \in Boosts /\ row[x] = "live"
      <4>1. Tally(row, kind, j) = Tally(row', kind, j) + 1
        <5>1. row'[x] # "live" /\ \A r \in Rows : r # x => (row'[r] = "live" <=> row[r] = "live")
          BY <2>2
        <5> HIDE DEF j
        <5> QED
          BY <2>1, <3>1, <5>1, TallyMore
      <4>2. Tally(row', kind, j) \in Nat
        BY TallyType
      <4>3. count[j] = Tally(row, kind, j) \/ j \in drift
        BY <2>1 DEF AgreeInv
      <4> QED
        BY <2>2, <3>1, <4>1, <4>2, <4>3
    <3>2. CASE ~(x \in Boosts /\ row[x] = "live")
      BY <2>2, <3>2
    <3> QED
      BY <3>1, <3>2
  <2>4. \A r \in Rows \ Ours : (row'[r] = "live" <=> row[r] = "live") \/ Counter(r) = j
    BY <2>2
  <2> HIDE DEF j
  <2> QED
    BY <1>0, <2>1, <2>2, <2>3, <2>4, AgreeOne
<1>7. ASSUME NEW a \in Peers, DeleteActor(a) PROVE AgreeInv'
  <2> DEFINE S == {r \in Inbox : By[r] = a /\ row[r] = "live"}
  <2>1. /\ UNCHANGED kind /\ Recount(row', kind, Touched(S))
        /\ \A r \in Rows \ Ours : row'[r] = IF r \in S THEN "deleted" ELSE row[r]
    BY <1>7 DEF DeleteActor
  <2>2. \A r \in Rows \ Ours : Known(About[r]) =>
          (row'[r] = "live" <=> row[r] = "live") \/ Counter(r) \in Touched(S)
    BY <2>1 DEF Touched
  <2>3. \A n \in Notes : row[n] = "none" => row'[n] = "none"
    BY <2>1
  <2> HIDE DEF S
  <2> QED
    BY <1>0, <2>1, <2>2, <2>3, AgreeChanged
<1> QED
  BY <1>1, <1>2, <1>3, <1>4, <1>5, <1>6, <1>7 DEF Incoming

LEMMA AgreeRequests ==
  ASSUME Core, WrittenInv, AgreeInv, Requests
  PROVE  AgreeInv'
<1>0. [Next]_vars
  BY DEF Next
<1> USE Sorts DEF Core, RowType, CountType
<1>1. ASSUME NEW p \in Posts, SendCreate(p) \/ SendDelete(p) PROVE AgreeInv'
  <2>1. UNCHANGED kind /\ \A r \in Rows : r # p => row'[r] = row[r]
    BY <1>1 DEF SendCreate, SendDelete
  <2>2. \/ Recount(row', kind, Touched({p}))
        \/ UNCHANGED count /\ drift' = drift \cup Touched({p})
    BY <1>1 DEF SendCreate, SendDelete
  <2>3. Known(About[p]) => Counter(p) \in Touched({p})
    BY DEF Touched
  <2>4. \A n \in Notes : row'[n] = row[n]
    BY <2>1
  <2> QED
    BY <1>0, <2>1, <2>2, <2>3, <2>4, AgreeChanged
<1>2. ASSUME NEW p \in Posts, SendUpdate(p) PROVE AgreeInv'
  BY <1>0, <1>2, AgreeQuiet DEF SendUpdate, tables
<1>3. ASSUME NEW o \in Ours, React(o) \/ SendUndo(o) PROVE AgreeInv'
  BY <1>0, <1>3, AgreeQuiet DEF React, SendUndo
<1>4. ASSUME NEW x \in Inbox, ForceDelete(x) PROVE AgreeInv'
  BY <1>0, <1>4, AgreeRevert DEF ForceDelete
<1>5. ASSUME NEW x, Fetch(x) \/ FetchReplies(x) \/ Mention(x) PROVE AgreeInv'
  BY <1>0, <1>5, AgreeQuiet DEF Fetch, FetchReplies, Mention, tables
<1> QED
  BY <1>1, <1>2, <1>3, <1>4, <1>5 DEF Requests

LEMMA AgreeNext ==
  ASSUME Core, WrittenInv, AgreeInv, [Next]_vars
  PROVE  AgreeInv'
<1> USE Sorts DEF Core, RowType, CountType
<1>1. ASSUME NEW q \in pending, Save(q) PROVE AgreeInv'
  <2>1. q.of \in Notes
    BY <1>1 DEF Save, PendingType, Waiting
  <2>2. CASE row[q.of] = "none"
    <3> DEFINE n == q.of
               ks == {<<"replies", n>>} \cup Touched({n})
    <3>1. UNCHANGED <<kind, count>> /\ row' = [row EXCEPT ![n] = "live"] /\ drift' = drift \cup ks
      BY <1>1, <2>2 DEF Save, SaveObject
    <3>2. Known(About[n]) => Counter(n) \in ks
      BY DEF Touched
    <3>3. \A r \in Rows : r # n => row'[r] = row[r]
      BY <3>1
    <3>4. <<"replies", n>> \in ks
      OBVIOUS
    <3> HIDE DEF n, ks
    <3> QED
      BY <3>1, <3>2, <3>3, <3>4, AgreeChanged
  <2>3. CASE row[q.of] # "none"
    BY <1>1, <2>3, AgreeQuiet DEF Save
  <2> QED
    BY <2>2, <2>3
<1>2. ASSUME NEW q \in pending, StoreReplies(q) PROVE AgreeInv'
  <2> DEFINE j == <<"replies", q.of>>
  <2>1. j \in Counters
    BY <1>2 DEF StoreReplies, PendingType, Waiting, Counters, Kinds
  <2>2. /\ UNCHANGED <<row, kind>> /\ count' = [count EXCEPT ![j] = q.n]
        /\ drift' = IF q.n = Tally(row, kind, j) THEN drift \ {j} ELSE drift \cup {j}
    BY <1>2 DEF StoreReplies
  <2>3. count'[j] = Tally(row', kind', j) \/ j \in drift'
    BY <2>1, <2>2
  <2>4. \A k \in Counters : k # j => count'[k] = count[k] /\ (k \in drift => k \in drift')
    BY <2>2
  <2> HIDE DEF j
  <2> QED
    BY <2>1, <2>2, <2>3, <2>4, AgreeOne
<1>3. ASSUME NEW q \in pending, DropMention(q) PROVE AgreeInv'
  <2>1. CASE q.known
    <3>1. q.of \in Sources /\ row[q.of] # "none"
      BY <1>3, <2>1 DEF DropMention, PendingType, Waiting, Known
    <3>2. UNCHANGED kind /\ row' = [row EXCEPT ![q.of] = "deleted"] /\ Recount(row', kind, {Counter(q.of)})
      BY <1>3, <2>1 DEF DropMention
    <3>3. \A r \in Rows : r # q.of => row'[r] = row[r]
      BY <3>2
    <3>4. \A n \in Notes : row'[n] = row[n]
      BY <3>1, <3>3
    <3> QED
      BY <3>1, <3>2, <3>3, <3>4, AgreeChanged
  <2>2. CASE ~q.known
    BY <1>3, <2>2, AgreeQuiet DEF DropMention
  <2> QED
    BY <2>1, <2>2
<1>4. ASSUME NEW q \in pending, NEW t \in Kinds, WriteMention(q, t) PROVE AgreeInv'
  <2>1. q.of \in Sources /\ q.of \in Rows \ Ours /\ About[q.of] \in Posts
    BY <1>4, MentionRows, Targets
  <2>2. CASE ~(q.known \/ row[q.of] = "none")
    BY <1>4, <2>2, AgreeQuiet DEF WriteMention
  <2>3. CASE q.known \/ row[q.of] = "none"
    <3> DEFINE s == q.of
               new == IF t # "mentions" THEN t ELSE IF q.known THEN kind[s] ELSE "mentions"
               j == <<new, About[s]>>
    <3>1. /\ row' = [row EXCEPT ![s] = "live"] /\ kind' = [kind EXCEPT ![s] = new]
          /\ count' = [count EXCEPT ![j] = Tally(row', kind', j)]
          /\ drift' = (drift \ {j}) \cup (IF row[s] = "live" /\ new # kind[s] THEN {Counter(s)} ELSE {})
      BY <1>4, <2>3 DEF WriteMention
    <3>2. new \in Kinds
      BY <2>1 DEF Kinds
    <3>3. j \in Counters
      BY <2>1, <3>2 DEF Counters
    <3> HIDE DEF new
    <3>4. ASSUME NEW k \in Counters, Known(k[2])' \/ k[2] \in Posts, k # j, k \notin drift'
          PROVE  count'[k] = Tally(row', kind', k)
      <4>1. count'[k] = count[k] /\ k \notin drift
        BY <3>1, <3>4
      <4>2. Known(k[2]) \/ k[2] \in Posts
        BY <2>1, <3>1, <3>4 DEF Known, Counters
      <4>3. k = <<k[1], k[2]>>
        BY DEF Counters
      <4>4. ASSUME NEW r \in Rows
            PROVE  (row'[r] = "live" /\ KindOf(r, kind') = k[1] /\ About[r] = k[2])
                     <=> (row[r] = "live" /\ KindOf(r, kind) = k[1] /\ About[r] = k[2])
        <5>1. CASE r # s
          <6>1. row'[r] = row[r] /\ (r \in Sources => kind'[r] = kind[r])
            BY <3>1, <5>1
          <6>2. KindOf(r, kind') = KindOf(r, kind)
            BY <6>1 DEF KindOf
          <6> QED
            BY <6>1, <6>2
        <5>2. CASE r = s
          <6>0. KindOf(s, kind') = kind'[s] /\ KindOf(s, kind) = kind[s]
            BY <2>1, KindOfEach
          <6>1. KindOf(s, kind') = new /\ KindOf(s, kind) = kind[s]
            BY <2>1, <3>1, <6>0
          <6>2. ~(KindOf(s, kind') = k[1] /\ About[s] = k[2])
            BY <3>4, <4>3, <6>1
          <6>3. ~(row[s] = "live" /\ KindOf(s, kind) = k[1] /\ About[s] = k[2])
            BY <3>1, <3>4, <4>3, <6>1, <6>2 DEF Counter
          <6> QED
            BY <5>2, <6>2, <6>3
        <5> QED
          BY <5>1, <5>2
      <4>5. Tally(row', kind', k) = Tally(row, kind, k)
        BY <4>4, TallyKept
      <4> QED
        BY <4>1, <4>2, <4>5 DEF AgreeInv
    <3>5. count'[j] = Tally(row', kind', j)
      BY <3>1, <3>3
    <3> QED
      BY <3>4, <3>5 DEF AgreeInv
  <2> QED
    BY <2>2, <2>3
<1>5. ASSUME UNCHANGED <<row, kind, count, drift>> PROVE AgreeInv'
  BY <1>5, AgreeQuiet
<1>6. ASSUME NEW q, CountReplies(q) PROVE AgreeInv'
  BY <1>5, <1>6 DEF CountReplies, tables
<1>7. ASSUME Restart \/ (\E a \in Peers : Follow(a) \/ Unfollow(a)) \/ UNCHANGED vars PROVE AgreeInv'
  BY <1>5, <1>7 DEF Restart, Follow, Unfollow, tables, vars
<1> QED
  BY <1>1, <1>2, <1>3, <1>4, <1>6, <1>7, AgreeIncoming, AgreeRequests DEF Next, Continue

-----------------------------------------------------------------------------
(* The theorems. *)

LEMMA InteractionsInit == Init => InteractionsInv
<1> SUFFICES ASSUME Init PROVE InteractionsInv
  OBVIOUS
<1> USE Sorts, Targets DEF Init
<1>1. Core
  BY DEF Core, RowType, CountType, FlagType, GoneType, SentType, PendingType, Kinds
<1>2. WrittenInv /\ ReachInv /\ DeletedStaysDeleted /\ DeletionReachesCopies
  BY DEF WrittenInv, ReachInv, DeletedStaysDeleted, DeletionReachesCopies
<1>3. ASSUME NEW o \in Ours PROVE row[o] = "none" /\ flag[Shown(o)] = None /\ o # None
  <2>1. (o \in Boosting) \in BOOLEAN
    OBVIOUS
  <2>2. Shown(o) \in BOOLEAN \X Notes
    BY <2>1 DEF Shown
  <2> QED
    BY <2>2
<1>4. ReactedInv /\ ShownReactionStands
  BY <1>3 DEF ReactedInv, ShownReactionStands
<1>5. AgreeInv
  <2>1. ASSUME NEW k \in Counters PROVE count[k] = Tally(row, kind, k)
    <3>1. Counted(row, kind, k, Rows) = {}
      BY DEF Counted
    <3> QED
      BY <3>1, FS_EmptySet DEF Tally
  <2> QED
    BY <2>1 DEF AgreeInv
<1> QED
  BY <1>1, <1>2, <1>4, <1>5 DEF InteractionsInv

LEMMA InteractionsAlways == Spec => []InteractionsInv
<1>1. InteractionsInv /\ [Next]_vars => InteractionsInv'
  BY CoreNext, WrittenNext, ReactedNext, AgreeNext, ReachNext, DeletedNext, ShownNext
     DEF InteractionsInv, Reach
<1> QED
  BY InteractionsInit, <1>1, PTL DEF Spec

\* The columns keep their types, and only what was deleted has a Delete stored.
THEOREM TypeCorrect == Spec => []TypeOK
<1>1. InteractionsInv => TypeOK
  BY DEF InteractionsInv, Core, RowType, CountType, FlagType, GoneType, SentType, PendingType,
         Waiting, TypeOK
<1> QED
  BY <1>1, InteractionsAlways, PTL

\* Next to a post stands how many likes, boosts, replies and mentions there are of
\* it, but for the counters that a named line of the code puts in drift: for any
\* thread, in whatever order activities, requests and webmentions write.
THEOREM CountersAgreeWithRows == Spec => []CountersAgree
<1>1. InteractionsInv /\ TypeOK => CountersAgree
  BY DEF InteractionsInv, AgreeInv, CountersAgree
<1> QED
  BY <1>1, InteractionsAlways, TypeCorrect, PTL

\* A note that its author deleted comes back only from a copy that a request had
\* fetched before the Delete was handled.
THEOREM DeletesAreFinal == Spec => []DeletedStaysDeleted
<1>1. InteractionsInv => DeletedStaysDeleted
  BY DEF InteractionsInv
<1> QED
  BY <1>1, InteractionsAlways, PTL

\* Whoever was sent a post, a boost or a forwarded reply, however the followers
\* changed since, is told that it is gone, or is one of those who are excused.
THEOREM DeletionsAreTold == Spec => []DeletionReachesCopies
<1>1. InteractionsInv => DeletionReachesCopies
  BY DEF InteractionsInv
<1> QED
  BY <1>1, InteractionsAlways, PTL

\* The reaction that a note shows as ours is one that was not undone.
THEOREM ShownReactionsStand == Spec => []ShownReactionStands
<1>1. InteractionsInv => ShownReactionStands
  BY DEF InteractionsInv
<1> QED
  BY <1>1, InteractionsAlways, PTL
=============================================================================
