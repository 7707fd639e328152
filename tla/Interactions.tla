----------------------------- MODULE Interactions -----------------------------
(***************************************************************************)
(* Posts, what is done to them, and the counters kept of it: the rows of   *)
(* the inbox and the outbox and the webmentions, as activitypub/boxes.py,  *)
(* app/webmentions.py and the endpoints over them write them.              *)
(*                                                                         *)
(* Incoming activities are handled one by one, each in one transaction     *)
(* that holds the write lock from its first insert: one action each.  The  *)
(* requests of the owner and the webmentions run beside them, and what     *)
(* they read before an await, or a commit, they use after it: `pending`.   *)
(*                                                                         *)
(* A counter is kept next to its object.  Most changes count the rows      *)
(* anew, some add or subtract one; `drift` says which counters may be off, *)
(* and every action that puts one there names the line that does.          *)
(***************************************************************************)
EXTENDS Integers, FiniteSets

CONSTANTS
  Posts,    \* notes of ours
  Ours,     \* Likes and Announces of ours
  Notes,    \* notes of peers
  Likes, Boosts,   \* Likes and Announces of peers, of posts of ours
  Sources,  \* pages that send webmentions to a post of ours
  About,    \* what each of them replies to, likes, boosts or mentions, or None
  By,       \* the peer behind a row that is not ours
  Boosting, \* which of ours are Announces
  Peers,    \* the actors around
  Signing,  \* those whose activities carry a linked-data signature
  None,
  MaxRequests, \* bound: requests of the owner, and webmentions
  MaxRepeats,  \* bound: Deletes and Undos of what is deleted, undone or unknown
  MaxMoves,    \* bound: follows and unfollows
  MaxCrashes   \* bound: restarts of the web process

Inbox == Notes \cup Likes \cup Boosts
MaxNewReplies == 2  \* _MAX_NEW_REPLIES_PER_CALL
Mine == Posts \cup Ours
Rows == Inbox \cup Mine \cup Sources
Kinds == {"likes", "boosts", "replies", "mentions"}
Counters == (Kinds \X Posts) \cup ({"replies"} \X Notes)

ASSUME RowsAssumption ==
  /\ IsFiniteSet(Rows) /\ None \notin Rows
  /\ Inbox \cap Mine = {} /\ Sources \cap (Inbox \cup Mine) = {} /\ Posts \cap Ours = {}
  /\ Notes \cap (Likes \cup Boosts) = {} /\ Likes \cap Boosts = {}
  /\ \A r \in Likes \cup Boosts \cup Sources : About[r] \in Posts
  /\ \A r \in Posts \cup Notes : About[r] \in Posts \cup Notes \cup {None}
  /\ \A r \in Ours : About[r] \in Notes
  /\ Boosting \subseteq Ours /\ Signing \subseteq Peers
  /\ \A r \in Inbox : By[r] \in Peers
ASSUME BoundsAssumption ==
  MaxRequests \in Nat /\ MaxRepeats \in Nat /\ MaxMoves \in Nat /\ MaxCrashes \in Nat

VARIABLES
  row,       \* "none", "live" or "deleted"
  kind,      \* webmention_type of each source
  count,     \* likes_count, announces_count, replies_count, webmentions_count
  flag,      \* liked_via_ and announced_via_outbox_object_ap_id: whether it is
             \* a boost, and the note
  tomb,      \* the notes a Delete is stored of
  followers, \* the rows of the Follower table
  gone,      \* the notes that their server has deleted
  pending,   \* what requests have read and not yet written
  requests, repeats, moves, crashes,
  \* History: nothing below is read by the code.
  copies,    \* who was sent a row, and was not told that it is gone
  excused,   \* who could not be told (see DeletionReachesCopies)
  drift,     \* the counters that may be off
  raced      \* notes saved after their Delete, from a copy fetched before it

tables == <<row, kind, count, flag, tomb>>
wire == <<copies, excused>>
others == <<followers, gone, pending, requests, repeats, moves, crashes>>
vars == <<tables, others, wire, drift, raced>>

-----------------------------------------------------------------------------
(* Counting. *)

Known(x) == x # None /\ row[x] # "none"
KindOf(r, K) == CASE r \in Likes -> "likes" [] r \in Boosts -> "boosts"
                  [] r \in Notes \cup Posts -> "replies" [] r \in Sources -> K[r]
                  [] OTHER -> "none"
Counter(r) == <<KindOf(r, kind), About[r]>>
Counted(R, K, k, S) == {r \in S : R[r] = "live" /\ KindOf(r, K) = k[1] /\ About[r] = k[2]}
\* _get_outbox_likes_count, _get_outbox_announces_count, _get_outbox_replies_count
Tally(R, K, k) == Cardinality(Counted(R, K, k, Rows))
\* _get_replies_count: webmentions are not counted.
RepliesCount(R, k) == Cardinality(Counted(R, kind, k, Rows \ Sources))

\* Counters `ks` are counted anew over the rows R.
Recount(R, K, ks) ==
  /\ count' = [k \in Counters |-> IF k \in ks THEN Tally(R, K, k) ELSE count[k]]
  /\ drift' = drift \ ks
\* A reply to a post of ours is written after the post; a server has its notes
\* until they are deleted.
Written(n) == About[n] \in Posts => Known(About[n])
Served(n) == Written(n) /\ n \notin gone
Touched(S) == {Counter(r) : r \in {x \in S : Known(About[x])}}

Forward(r) == IF Known(About[r]) /\ About[r] \in Posts /\ By[r] \in Signing
              THEN followers \ {By[r]} ELSE {}

-----------------------------------------------------------------------------
(* The incoming activities. *)

\* _process_note_object: the reply and what it replies to are counted anew.
Process(n) ==
  LET R == [row EXCEPT ![n] = "live"]
  IN  row' = R /\ Recount(R, kind, {<<"replies", n>>} \cup Touched({n}))

\* mutant: the Deletes that came first are not looked for
CreateAnyway(n) ==
  /\ row[n] = "none" /\ Written(n)
  /\ Process(n)
  /\ copies' = [copies EXCEPT ![n] = Forward(n)]
  /\ UNCHANGED <<kind, flag, tomb, others, excused, raced>>
\* _handle_create_activity: dropped when the note is known, or its Delete came
\* first; forwarded when it replies to us.
Create(n) ==
  /\ row[n] = "none" /\ Written(n) /\ n \notin tomb
  /\ Process(n)
  /\ copies' = [copies EXCEPT ![n] = Forward(n)]
  /\ UNCHANGED <<kind, flag, tomb, others, excused, raced>>

\* _handle_read_activity: the note is fetched while its server still has it.
Read(n) ==
  /\ row[n] = "none" /\ Served(n)
  /\ Process(n)
  /\ UNCHANGED <<kind, flag, tomb, others, wire, raced>>

\* save_object_to_inbox, and the announces of unknown notes: nothing is counted.
SaveObject(n) ==
  /\ row' = [row EXCEPT ![n] = "live"]
  /\ drift' = drift \cup {<<"replies", n>>} \cup Touched({n})
  /\ UNCHANGED count

\* _handle_announce_activity, of a note that is not ours and not known.
AnnounceNote(n) ==
  /\ row[n] = "none" /\ Served(n)
  /\ SaveObject(n)
  /\ UNCHANGED <<kind, flag, tomb, others, wire, raced>>

Like(l) ==
  /\ row[l] = "none" /\ Known(About[l])
  /\ LET R == [row EXCEPT ![l] = "live"] IN row' = R /\ Recount(R, kind, {Counter(l)})
  /\ UNCHANGED <<kind, flag, tomb, others, wire, raced>>

\* _handle_announce_activity, of a post of ours: one more.
Announce(b) ==
  /\ row[b] = "none" /\ Known(About[b])
  /\ row' = [row EXCEPT ![b] = "live"] /\ count' = [count EXCEPT ![Counter(b)] = @ + 1]
  /\ UNCHANGED <<kind, flag, tomb, others, wire, drift, raced>>

Repeated(fresh) == IF fresh THEN UNCHANGED repeats
                   ELSE repeats < MaxRepeats /\ repeats' = repeats + 1

\* _handle_undo_activity.  The Like is flushed as deleted before the rest are
\* counted, and one is subtracted again; an Announce may be undone twice.
Undo(r) ==
  /\ Known(r) /\ Repeated(row[r] = "live")
  /\ LET R == [row EXCEPT ![r] = "deleted"]
         k == Counter(r)
     IN  /\ row' = R
         /\ count' = [count EXCEPT ![k] = IF r \in Likes THEN Tally(R, kind, k) - 1 ELSE @ - 1]
         /\ drift' = IF r \in Boosts /\ row[r] = "live" THEN drift ELSE drift \cup {k}
  /\ UNCHANGED <<kind, flag, tomb, followers, gone, pending, requests, moves, crashes, wire, raced>>

\* mutant: one is subtracted from the counter as it is
RevertedByOne(r) == count' = [count EXCEPT ![Counter(r)] = @ - 1]
\* The counters in _revert_side_effect_for_deleted_object: r is still counted.
Reverted(r) == count' = [count EXCEPT ![Counter(r)] = Tally(row, kind, Counter(r)) - 1]

\* _revert_side_effect_for_deleted_object: one is subtracted for a row that was
\* deleted before, too; our reactions to a note go with it, untold; so does the
\* note when nothing is forwarded.
Revert(r, untold) ==
  LET mine == {o \in Ours : About[o] = r}
  IN  /\ row' = [x \in Rows |-> IF x = r \/ (x \in mine /\ row[x] = "live") THEN "deleted" ELSE row[x]]
      /\ IF Known(About[r])
         THEN /\ Reverted(r)
              /\ drift' = IF row[r] = "live" THEN drift \ {Counter(r)} ELSE drift \cup {Counter(r)}
         ELSE UNCHANGED <<count, drift>>
      /\ excused' = [x \in Rows |-> IF x \in mine \cup untold THEN excused[x] \cup copies[x]
                                    ELSE excused[x]]

\* The author deletes a note on its server.
Vanish(n) ==
  /\ n \notin gone
  /\ gone' = gone \cup {n}
  /\ UNCHANGED <<tables, followers, pending, requests, repeats, moves, crashes, wire, drift, raced>>

\* _handle_delete_activity, for a note; forwarded as its Create was.
Delete(n) ==
  /\ n \in gone /\ Repeated(n \notin tomb)
  /\ tomb' = tomb \cup {n}
  /\ IF Known(n)
     THEN Revert(n, {}) /\ copies' = [copies EXCEPT ![n] = @ \ Forward(n)]
     ELSE UNCHANGED <<row, count, drift, wire>>
  /\ UNCHANGED <<kind, flag, followers, gone, pending, requests, moves, crashes, raced>>

\* _handle_delete_activity, for an account: its live rows are reverted in turn,
\* and nothing is forwarded.
DeleteActor(a) ==
  LET S == {r \in Inbox : By[r] = a /\ row[r] = "live"}
      R == [r \in Rows |-> IF r \in S \/ (r \in Ours /\ About[r] \in S /\ row[r] = "live")
                           THEN "deleted" ELSE row[r]]
  IN  /\ S # {}
      /\ row' = R /\ Recount(R, kind, Touched(S))
      /\ gone' = gone \cup {n \in Notes : By[n] = a}
      /\ excused' = [r \in Rows |-> IF r \in S \/ (r \in Ours /\ About[r] \in S)
                                    THEN excused[r] \cup copies[r] ELSE excused[r]]
      /\ UNCHANGED <<kind, flag, tomb, followers, pending, requests, repeats, moves, crashes,
                     copies, raced>>

-----------------------------------------------------------------------------
(* The owner's requests. *)

Asked == requests < MaxRequests /\ requests' = requests + 1

Send(r, to) == copies' = [copies EXCEPT ![r] = @ \cup to]
Tell(r, to) == copies' = [copies EXCEPT ![r] = @ \ to]

\* send_create: the counter of what it replies to is refreshed after the commit.
SendCreate(p) ==
  /\ row[p] = "none" /\ (About[p] = None \/ Known(About[p])) /\ Asked
  /\ row' = [row EXCEPT ![p] = "live"]
  /\ Send(p, followers)
  /\ pending' = pending \cup {[do |-> "count", of |-> x] : x \in {About[p]} \ {None}}
  /\ drift' = drift \cup Touched({p})
  /\ UNCHANGED <<kind, count, flag, tomb, followers, gone, repeats, moves, crashes, excused, raced>>

\* The refresh: a query, then an update in another transaction.
CountReplies(q) ==
  /\ q.do = "count"
  /\ pending' = (pending \ {q})
       \cup {[do |-> "store", of |-> q.of, n |-> RepliesCount(row, <<"replies", q.of>>)]}
  /\ UNCHANGED <<tables, followers, gone, requests, repeats, moves, crashes, wire, drift, raced>>
StoreReplies(q) ==
  LET k == <<"replies", q.of>>
  IN  /\ q.do = "store"
      /\ count' = [count EXCEPT ![k] = q.n]
      /\ drift' = IF q.n = Tally(row, kind, k) THEN drift \ {k} ELSE drift \cup {k}
      /\ pending' = pending \ {q}
      /\ UNCHANGED <<row, kind, flag, tomb, followers, gone, requests, repeats, moves, crashes,
                     wire, raced>>

\* mutant: the Delete goes to the mentioned only
SendDeleteToNobody(p) ==
  LET R == [row EXCEPT ![p] = "deleted"]
  IN  /\ Known(p) /\ Asked
      /\ row' = R /\ Recount(R, kind, Touched({p}))
      /\ UNCHANGED <<kind, flag, tomb, followers, gone, pending, repeats, moves, crashes, wire, raced>>
\* send_delete: to those who follow now.  Nothing asks whether it was deleted.
SendDelete(p) ==
  LET R == [row EXCEPT ![p] = "deleted"]
  IN  /\ Known(p) /\ Asked
      /\ row' = R /\ Recount(R, kind, Touched({p}))
      /\ Tell(p, followers)
      /\ UNCHANGED <<kind, flag, tomb, followers, gone, pending, repeats, moves, crashes,
                     excused, raced>>

\* statuses_update and send_update: a deleted post can be edited, and is sent.
SendUpdate(p) ==
  /\ Known(p) /\ Asked
  /\ Send(p, followers)
  /\ excused' = [excused EXCEPT ![p] = IF row[p] = "live" THEN @ ELSE @ \cup followers]
  /\ UNCHANGED <<tables, followers, gone, pending, repeats, moves, crashes, drift, raced>>

\* send_like, send_announce, bookmarks, lookups: a note that is not known is
\* fetched, and saved in a transaction of its own.
Fetch(n) ==
  /\ row[n] = "none" /\ Served(n) /\ Asked
  /\ pending' = pending \cup {[do |-> "save", of |-> n]}
  /\ UNCHANGED <<tables, followers, gone, repeats, moves, crashes, wire, drift, raced>>
\* fetch_replies: some of the replies that a server lists, as many as a call may.
FetchReplies(x) ==
  /\ Known(x) /\ Asked
  /\ \E S \in SUBSET {n \in Notes : row[n] = "none" /\ Served(n) /\ About[n] = x} :
       /\ Cardinality(S) \in 1..MaxNewReplies
       /\ pending' = pending \cup {[do |-> "save", of |-> n] : n \in S}
  /\ UNCHANGED <<tables, followers, gone, repeats, moves, crashes, wire, drift, raced>>
Save(q) ==
  /\ q.do = "save" /\ pending' = pending \ {q}
  /\ IF row[q.of] = "none"
     THEN SaveObject(q.of) /\ raced' = IF q.of \in tomb THEN raced \cup {q.of} ELSE raced
     ELSE UNCHANGED <<row, count, drift, raced>>
  /\ UNCHANGED <<kind, flag, tomb, followers, gone, requests, repeats, moves, crashes, wire>>

Shown(o) == <<o \in Boosting, About[o]>>
\* send_like, send_announce: nothing asks whether the note is liked already.
React(o) ==
  /\ row[o] = "none" /\ Known(About[o]) /\ Asked
  /\ row' = [row EXCEPT ![o] = "live"] /\ flag' = [flag EXCEPT ![Shown(o)] = o]
  /\ Send(o, IF o \in Boosting THEN followers ELSE {By[About[o]]})
  /\ UNCHANGED <<kind, count, tomb, followers, gone, pending, repeats, moves, crashes,
                 excused, drift, raced>>

\* mutant: the note still shows the reaction that is undone
SendUndoOnly(o) ==
  /\ Known(o) /\ Asked
  /\ row' = [row EXCEPT ![o] = "deleted"]
  /\ Tell(o, IF o \in Boosting THEN followers ELSE {By[About[o]]})
  /\ UNCHANGED <<flag, kind, count, tomb, followers, gone, pending, repeats, moves, crashes,
                 excused, drift, raced>>
\* send_undo, for the reaction that is shown or for any other.
SendUndo(o) ==
  /\ Known(o) /\ Asked
  /\ row' = [row EXCEPT ![o] = "deleted"] /\ flag' = [flag EXCEPT ![Shown(o)] = None]
  /\ Tell(o, IF o \in Boosting THEN followers ELSE {By[About[o]]})
  /\ UNCHANGED <<kind, count, tomb, followers, gone, pending, repeats, moves, crashes,
                 excused, drift, raced>>

\* admin_actions_force_delete: nobody is told.
ForceDelete(r) ==
  /\ Known(r) /\ Asked
  /\ Revert(r, {r})
  /\ UNCHANGED <<kind, flag, tomb, followers, gone, pending, repeats, moves, crashes, copies, raced>>

Restart ==
  /\ crashes < MaxCrashes /\ pending # {} /\ crashes' = crashes + 1
  /\ pending' = {}
  /\ UNCHANGED <<tables, followers, gone, requests, repeats, moves, wire, drift, raced>>

-----------------------------------------------------------------------------
(* Webmentions: the row is looked up, and written after the source was     *)
(* fetched.                                                                *)

Mention(s) ==
  /\ Known(About[s]) /\ Asked
  /\ pending' = pending \cup {[do |-> "mention", of |-> s, known |-> Known(s)]}
  /\ UNCHANGED <<tables, followers, gone, repeats, moves, crashes, wire, drift, raced>>

\* The row is written as it was found: inserted - by one request only, the
\* other meets the unique index - or updated.  A type that is not recognized
\* changes nothing; one that changes leaves the counter of the old one as it is.
WriteMention(q, t) ==
  LET s == q.of
      new == IF t # "mentions" THEN t ELSE IF q.known THEN kind[s] ELSE "mentions"
      R == [row EXCEPT ![s] = "live"]
      K == [kind EXCEPT ![s] = new]
      k == <<new, About[s]>>
  IN  /\ q.do = "mention" /\ pending' = pending \ {q}
      /\ IF q.known \/ row[s] = "none"
         THEN /\ row' = R /\ kind' = K
              /\ count' = [count EXCEPT ![k] = Tally(R, K, k)]
              /\ drift' = (drift \ {k})
                   \cup (IF row[s] = "live" /\ new # kind[s] THEN {Counter(s)} ELSE {})
         ELSE UNCHANGED <<row, kind, count, drift>>
      /\ UNCHANGED <<flag, tomb, followers, gone, requests, repeats, moves, crashes, wire, raced>>

\* The source does not link to the post any more.  (When the source is gone, the
\* endpoint fails on a name that it has not assigned, and nothing is written.)
DropMention(q) ==
  /\ q.do = "mention" /\ pending' = pending \ {q}
  /\ IF q.known
     THEN LET R == [row EXCEPT ![q.of] = "deleted"]
          IN  row' = R /\ Recount(R, kind, {Counter(q.of)})
     ELSE UNCHANGED <<row, count, drift>>
  /\ UNCHANGED <<kind, flag, tomb, followers, gone, requests, repeats, moves, crashes, wire, raced>>

-----------------------------------------------------------------------------
\* The Follower table, from the outside (SocialGraph).
Follow(a) ==
  /\ a \notin followers /\ moves < MaxMoves /\ moves' = moves + 1
  /\ followers' = followers \cup {a}
  /\ UNCHANGED <<tables, gone, pending, requests, repeats, crashes, wire, drift, raced>>
Unfollow(a) ==
  /\ a \in followers /\ moves < MaxMoves /\ moves' = moves + 1
  /\ followers' = followers \ {a}
  /\ excused' = [r \in Rows |-> IF a \in copies[r] /\ r \in Notes \cup Posts \cup Boosting
                                THEN excused[r] \cup {a} ELSE excused[r]]
  /\ UNCHANGED <<tables, gone, pending, requests, repeats, crashes, copies, drift, raced>>

Init ==
  /\ row = [r \in Rows |-> "none"] /\ kind = [s \in Sources |-> "mentions"]
  /\ count = [k \in Counters |-> 0] /\ flag = [f \in BOOLEAN \X Notes |-> None]
  /\ tomb = {} /\ followers \in SUBSET Peers /\ gone = {} /\ pending = {}
  /\ requests = 0 /\ repeats = 0 /\ moves = 0 /\ crashes = 0
  /\ copies = [r \in Rows |-> {}] /\ excused = [r \in Rows |-> {}] /\ drift = {} /\ raced = {}

Incoming ==
  \/ \E n \in Notes : Create(n) \/ Read(n) \/ AnnounceNote(n) \/ Vanish(n) \/ Delete(n)
  \/ (\E l \in Likes : Like(l)) \/ (\E b \in Boosts : Announce(b))
  \/ (\E r \in Likes \cup Boosts : Undo(r)) \/ (\E a \in Peers : DeleteActor(a))
Requests ==
  \/ \E p \in Posts : SendCreate(p) \/ SendDelete(p) \/ SendUpdate(p)
  \/ (\E n \in Notes : Fetch(n)) \/ (\E x \in Notes \cup Posts : FetchReplies(x)) \/ (\E r \in Inbox : ForceDelete(r))
  \/ \E o \in Ours : React(o) \/ SendUndo(o)
  \/ \E s \in Sources : Mention(s)
Continue == \E q \in pending :
  \/ CountReplies(q) \/ StoreReplies(q) \/ Save(q) \/ DropMention(q)
  \/ \E t \in Kinds : WriteMention(q, t)
Next == Incoming \/ Requests \/ Continue \/ Restart \/ \E a \in Peers : Follow(a) \/ Unfollow(a)

Spec == Init /\ [][Next]_vars

-----------------------------------------------------------------------------
(* Properties. *)

\* The types of what the tables hold and of what was sent.
TypeOK ==
  /\ row \in [Rows -> {"none", "live", "deleted"}] /\ kind \in [Sources -> Kinds]
  /\ count \in [Counters -> Int] /\ flag \in [BOOLEAN \X Notes -> Ours \cup {None}]
  /\ tomb \subseteq gone /\ gone \subseteq Notes /\ raced \subseteq tomb
  /\ copies \in [Rows -> SUBSET Peers] /\ excused \in [Rows -> SUBSET Peers]
  /\ drift \subseteq Counters /\ \A q \in pending : q.of \in Rows

\* The counter shown next to a post says how many rows there are, except after:
\* an Undo of a Like; a second Undo or Delete; a note saved by a lookup; a reply
\* of ours, whose refresh ignores webmentions, can be overtaken, or be lost in
\* a restart; a webmention that changes its type.  Each lasts until the counter
\* is counted anew.
CountersAgree ==
  TypeOK /\ \A k \in Counters : Known(k[2]) => count[k] = Tally(row, kind, k) \/ k \in drift

\* A note whose author has deleted it does not come back, in whatever order its
\* Create, its Delete and the ways to fetch it are handled - unless a request
\* fetched it before the Delete and saved it after.
DeletedStaysDeleted == \A n \in tomb : row[n] = "live" => n \in raced

\* Whoever was sent a post, a boost or a forwarded reply is told when it is
\* deleted or undone, except: who had stopped to follow; who was sent an edit of
\* a deleted post; when the account behind it goes, or the owner removes it.
DeletionReachesCopies ==
  \A r \in Rows : row[r] = "deleted" => copies[r] \subseteq excused[r]

\* What a note shows as liked or boosted is a Like or Announce that stands.
ShownReactionStands ==
  \A o \in Ours : flag[Shown(o)] = o /\ row[About[o]] = "live" => row[o] = "live"
=============================================================================
