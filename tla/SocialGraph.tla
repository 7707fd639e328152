----------------------------- MODULE SocialGraph -----------------------------
(***************************************************************************)
(* The relationship between the local actor and one remote actor, the peer *)
(* (activitypub/boxes.py, and the API in app/mastodon/router.py that       *)
(* drives it): Follow, Accept, Reject, Undo, Block, Move and Delete in both*)
(* directions, and the Follower and Following rows.                        *)
(*                                                                         *)
(* An activity of the peer is handled in one transaction, with the state   *)
(* it was checked against: SQLite refuses to upgrade a stale snapshot, and *)
(* the worker then retries.  A request of the owner first reads, without a *)
(* transaction, and writes later: what it read may be stale by then.       *)
(* Activities of the peer arrive in any order, and each takes effect at    *)
(* most once, whatever the number of its copies (inbox.ap_id is looked up  *)
(* first).  MaxFollows, MaxRequests, MaxBlocks and Slots bound the model   *)
(* and not the code.                                                       *)
(***************************************************************************)
EXTENDS Integers, FiniteSets

CONSTANTS
  MaxFollows,   \* bound: Follow activities we send
  MaxRequests,  \* bound: Follow activities the peer sends
  MaxBlocks,    \* bound: Block activities we send
  Slots         \* bound: requests of the owner in progress at once

Ours == 1..MaxFollows
Theirs == 1..MaxRequests
Blocks == 1..MaxBlocks

ASSUME BoundsAssumption ==
  MaxFollows \in Nat /\ MaxRequests \in Nat /\ MaxBlocks \in Nat
ASSUME SlotsAssumption == IsFiniteSet(Slots)

None == 0

VARIABLES
  manual,     \* manually_approves_followers, a setting
  ours,       \* our Follow objects in the outbox
  block,      \* our Block objects in the outbox
  following,  \* the Following row: the Follow the peer accepted
  blocked,    \* actor.is_blocked
  theirs,     \* the peer's Follow objects in the inbox
  notice,     \* their PENDING_INCOMING_FOLLOWER notifications
  follower,   \* the Follower row: the Follow we accepted
  gone,       \* actor.is_deleted
  handled,    \* the peer's activities that are in the inbox
  told,       \* history: the answers we sent to each Follow of the peer
  web         \* the owner's requests in progress, and what they read

outbox == <<ours, block, following, blocked>>
inbox == <<theirs, notice, follower, gone>>
graphVars == <<manual, outbox, inbox, handled, told, web>>

Move == <<"Move", None>>     \* the peer moves to another account
Arrival == <<"Move", 1>>     \* an account that was followed moves to the peer
Activities ==
  ({"Follow", "Undo"} \X Theirs) \union ({"Accept", "Reject"} \X Ours) \union {Move, Arrival}
Idle == <<"idle", None>>
Requests ==
  ({"unfollow"} \X Ours) \union ({"unblock"} \X Blocks)
    \union ({"approve", "refuse", "remove"} \X Theirs)
    \union {<<"follow", None>>, <<"block", None>>}

GraphInit ==
  /\ manual \in BOOLEAN
  /\ ours = [g \in Ours |-> "unsent"] /\ block = [b \in Blocks |-> "unsent"]
  /\ following = None /\ blocked = FALSE
  /\ theirs = [f \in Theirs |-> "unknown"] /\ notice = [f \in Theirs |-> "none"]
  /\ follower = None /\ gone = FALSE
  /\ handled = {}
  /\ told = [f \in Theirs |-> {}]
  /\ web = [s \in Slots |-> Idle]

LiveFollows == {g \in Ours : ours[g] = "live"}
LiveBlocks == {b \in Blocks : block[b] = "live"}

-----------------------------------------------------------------------------
(* The peer's activities (save_to_inbox). *)

Handle(a) == a \notin handled /\ handled' = handled \union {a}

\* mutants: a check of the actor is forgotten
IgnoredIfGone(a) == gone
IgnoredIfBlocked(a) == blocked /\ a[1] # "Undo"

\* Only an Undo is accepted from a blocked actor, and nothing from a deleted
\* one.
Ignored(a) == gone \/ (blocked /\ a[1] # "Undo")

\* It is not kept, so another copy of it may be accepted later.
Ignore(a) == a \notin handled /\ Ignored(a) /\ UNCHANGED graphVars

\* _handle_follow_follow_activity: a request, or an Accept at once
RecvFollow(f) ==
  /\ Handle(<<"Follow", f>>) /\ ~ Ignored(<<"Follow", f>>)
  /\ theirs' = [theirs EXCEPT ![f] = "stored"]
  /\ IF manual
       THEN /\ notice' = [notice EXCEPT ![f] = "pending"]
            /\ UNCHANGED <<follower, told>>
       ELSE /\ follower = None
            /\ follower' = f
            /\ told' = [told EXCEPT ![f] = @ \union {"Accept"}]
            /\ UNCHANGED notice
  /\ UNCHANGED <<manual, outbox, gone, web>>

\* A second Follower or Following row for the actor violates a unique
\* constraint; the failed session fails the handler, and nothing is kept.
GiveUp(a) ==
  /\ a \notin handled /\ ~ Ignored(a)
  /\ \/ a[1] = "Follow" /\ ~ manual /\ follower # None
     \/ a[1] = "Accept" /\ following # None
  /\ UNCHANGED graphVars

\* _handle_undo_activity; an Undo for an unknown activity has no effect
RecvUndo(f) ==
  /\ Handle(<<"Undo", f>>) /\ ~ Ignored(<<"Undo", f>>)
  /\ IF theirs[f] = "unknown"
       THEN UNCHANGED <<theirs, follower>>
       ELSE /\ theirs' = [theirs EXCEPT ![f] = "deleted"]
            /\ follower' = IF follower = f THEN None ELSE follower
  /\ UNCHANGED <<manual, outbox, notice, gone, told, web>>

\* Accept of a Follow of ours, even of one that was undone
RecvAccept(g) ==
  /\ Handle(<<"Accept", g>>) /\ ~ Ignored(<<"Accept", g>>)
  /\ ours[g] # "unsent" /\ following = None
  /\ following' = g
  /\ UNCHANGED <<manual, ours, block, blocked, inbox, told, web>>

\* Reject of a Follow of ours removes the row, whichever Follow it is for
RecvReject(g) ==
  /\ Handle(<<"Reject", g>>) /\ ~ Ignored(<<"Reject", g>>)
  /\ ours[g] # "unsent"
  /\ following' = None
  /\ UNCHANGED <<manual, ours, block, blocked, inbox, told, web>>

\* _handle_delete_activity of the peer itself
RecvDelete ==
  /\ ~ gone /\ ~ blocked
  /\ gone' = TRUE
  /\ follower' = None
  /\ ours' = [g \in Ours |-> IF follower # None /\ ours[g] = "live" THEN "deleted"
                             ELSE ours[g]]
  /\ following' = None
  /\ theirs' = [f \in Theirs |-> IF theirs[f] = "stored" THEN "deleted" ELSE theirs[f]]
  /\ UNCHANGED <<manual, block, blocked, notice, handled, told, web>>

\* _send_follow, whoever calls it
NewFollow ==
  \E g \in Ours :
    /\ ours[g] = "unsent" /\ \A h \in Ours : h < g => ours[h] # "unsent"
    /\ ours' = [ours EXCEPT ![g] = "live"]

\* _handle_move_activity of the peer: the Follow it accepted is undone.
RecvMove ==
  /\ Handle(Move) /\ ~ Ignored(Move)
  /\ ours' = [g \in Ours |-> IF g = following THEN "undone" ELSE ours[g]]
  /\ following' = None
  /\ UNCHANGED <<manual, block, blocked, inbox, told, web>>

\* And of an account that moves to the peer: it is followed unless it is already,
\* whether or not it is blocked or was asked before.  A peer that is gone cannot
\* be fetched, and the whole Move is tried again.
RecvArrival ==
  /\ Handle(Arrival) /\ ~ gone
  /\ IF following = None THEN NewFollow ELSE UNCHANGED ours
  /\ UNCHANGED <<manual, block, following, blocked, inbox, told, web>>

-----------------------------------------------------------------------------
(* The owner's requests: the read, without a transaction. *)

Begin(s, request) ==
  /\ web[s] = Idle
  /\ web' = [web EXCEPT ![s] = request]
  /\ UNCHANGED <<manual, outbox, inbox, handled, told>>

BeginFollow(s) ==
  /\ following = None /\ LiveFollows = {}
  /\ Begin(s, <<"follow", None>>)

\* _find_own_follow_activity: the newest live Follow
BeginUnfollow(s) ==
  \E g \in LiveFollows :
    /\ \A h \in LiveFollows : h <= g
    /\ Begin(s, <<"unfollow", g>>)

BeginBlock(s) == ~ blocked /\ Begin(s, <<"block", None>>)

\* send_unblock takes the one object that names the actor and is not deleted;
\* it raises when there are several
BeginUnblock(s) ==
  /\ blocked /\ LiveFollows = {}
  /\ \E b \in Blocks : LiveBlocks = {b} /\ Begin(s, <<"unblock", b>>)

BeginAnswer(s) ==
  \E f \in Theirs, answer \in {"approve", "refuse"} :
    notice[f] = "pending" /\ Begin(s, <<answer, f>>)

BeginRemove(s) == follower # None /\ Begin(s, <<"remove", follower>>)

-----------------------------------------------------------------------------
(* The owner's requests: the transaction. *)

Done(s) == web' = [web EXCEPT ![s] = Idle]

\* fetch_actor raises for a deleted actor, and the request fails.
Fail(s) ==
  /\ \/ gone /\ web[s][1] \in {"follow", "unfollow", "block", "unblock"}
     \/ web[s][1] = "approve" /\ follower # None
  /\ Done(s)
  /\ UNCHANGED <<manual, outbox, inbox, handled, told>>

SendFollow(s) ==
  /\ web[s][1] = "follow" /\ ~ gone
  /\ NewFollow
  /\ Done(s)
  /\ UNCHANGED <<manual, block, following, blocked, inbox, handled, told>>

\* _send_undo of a Follow
SendUnfollow(s) ==
  /\ web[s][1] = "unfollow" /\ ~ gone
  /\ ours' = [ours EXCEPT ![web[s][2]] = "undone"]
  /\ following' = None
  /\ Done(s)
  /\ UNCHANGED <<manual, block, blocked, inbox, handled, told>>

\* send_block: unfollow, reject the follower, block
SendBlock(s) ==
  /\ web[s][1] = "block" /\ ~ gone
  /\ blocked' = TRUE
  /\ ours' = [g \in Ours |-> IF g = following THEN "undone" ELSE ours[g]]
  /\ following' = None
  /\ told' = [f \in Theirs |-> IF f = follower THEN told[f] \union {"Reject"} ELSE told[f]]
  /\ follower' = None
  /\ \E b \in Blocks :
       /\ block[b] = "unsent" /\ \A c \in Blocks : c < b => block[c] # "unsent"
       /\ block' = [block EXCEPT ![b] = "live"]
  /\ Done(s)
  /\ UNCHANGED <<manual, theirs, notice, gone, handled>>

\* send_unblock: _send_undo of a Block
SendUnblock(s) ==
  /\ web[s][1] = "unblock" /\ ~ gone
  /\ block' = [block EXCEPT ![web[s][2]] = "undone"]
  /\ blocked' = FALSE
  /\ Done(s)
  /\ UNCHANGED <<manual, ours, following, inbox, handled, told>>

\* send_accept, which looks neither at the Follow nor at the block
SendAccept(s) ==
  /\ web[s][1] = "approve" /\ follower = None
  /\ LET f == web[s][2]
     IN /\ follower' = f
        /\ notice' = [notice EXCEPT ![f] = "accepted"]
        /\ told' = [told EXCEPT ![f] = @ \union {"Accept"}]
  /\ Done(s)
  /\ UNCHANGED <<manual, outbox, theirs, gone, handled>>

\* send_reject answers the request and leaves the Follower row alone
SendReject(s) ==
  /\ web[s][1] = "refuse"
  /\ LET f == web[s][2]
     IN /\ notice' = [notice EXCEPT ![f] = "rejected"]
        /\ told' = [told EXCEPT ![f] = @ \union {"Reject"}]
  /\ Done(s)
  /\ UNCHANGED <<manual, outbox, theirs, follower, gone, handled>>

\* mutant: the row goes, and the follower is not told
RemoveSilently(s) ==
  /\ web[s][1] = "remove"
  /\ follower' = IF follower = web[s][2] THEN None ELSE follower
  /\ Done(s)
  /\ UNCHANGED <<manual, outbox, theirs, notice, gone, handled, told>>

\* mutant: the follower is told, and the row stays
RemoveInName(s) ==
  /\ web[s][1] = "remove"
  /\ told' = [told EXCEPT ![web[s][2]] = @ \union {"Reject"}]
  /\ Done(s)
  /\ UNCHANGED <<manual, outbox, inbox, handled>>

\* remove_follower rejects the Follow it read and deletes the row it read
RemoveFollower(s) ==
  /\ web[s][1] = "remove"
  /\ LET f == web[s][2]
     IN /\ told' = [told EXCEPT ![f] = @ \union {"Reject"}]
        /\ follower' = IF follower = f THEN None ELSE follower
  /\ Done(s)
  /\ UNCHANGED <<manual, outbox, theirs, notice, gone, handled>>

-----------------------------------------------------------------------------
Peer ==
  \/ \E f \in Theirs : RecvFollow(f) \/ RecvUndo(f)
  \/ \E g \in Ours : RecvAccept(g) \/ RecvReject(g)
  \/ \E a \in Activities : Ignore(a) \/ GiveUp(a)
  \/ RecvDelete \/ RecvMove \/ RecvArrival

Owner(s) ==
  \/ BeginFollow(s) \/ BeginUnfollow(s) \/ BeginBlock(s) \/ BeginUnblock(s)
  \/ BeginAnswer(s) \/ BeginRemove(s)
  \/ Fail(s)
  \/ SendFollow(s) \/ SendUnfollow(s) \/ SendBlock(s) \/ SendUnblock(s)
  \/ SendAccept(s) \/ SendReject(s) \/ RemoveFollower(s)

GraphNext == Peer \/ \E s \in Slots : Owner(s)

GraphSpec == GraphInit /\ [][GraphNext]_graphVars

-----------------------------------------------------------------------------
(* Properties. *)

\* Every variable has its type, and the two rows refer to activities that
\* were really exchanged.
GraphTypeOK ==
  /\ manual \in BOOLEAN
  /\ ours \in [Ours -> {"unsent", "live", "undone", "deleted"}]
  /\ block \in [Blocks -> {"unsent", "live", "undone"}]
  /\ following \in Ours \union {None} /\ blocked \in BOOLEAN
  /\ theirs \in [Theirs -> {"unknown", "stored", "deleted"}]
  /\ notice \in [Theirs -> {"none", "pending", "accepted", "rejected"}]
  /\ follower \in Theirs \union {None} /\ gone \in BOOLEAN
  /\ handled \subseteq Activities
  /\ told \in [Theirs -> SUBSET {"Accept", "Reject"}]
  /\ web \in [Slots -> Requests \union {Idle}]
  /\ following # None => ours[following] # "unsent"
  /\ follower # None => theirs[follower] # "unknown"

\* A blocked actor is not followed: neither an Accept in flight when the block
\* was made nor a request that started before it brings the row back.
BlockedNotFollowing == blocked => following = None

\* Nor is it a follower, when Follows are accepted without the owner.
BlockedHasNoFollower == ~ manual /\ blocked => follower = None

\* When Follows are accepted without the owner, the Follower row stands for a
\* Follow that is still in force: an undone one is never counted.
FollowerIsCurrent ==
  ~ manual /\ follower # None => theirs[follower] = "stored"

\* A follower we accepted, who did not leave, is never dropped without being
\* told: the peer would believe it still follows.
NoSilentDrop ==
  \A f \in Theirs :
    "Accept" \in told[f] /\ theirs[f] = "stored"
      => follower = f \/ "Reject" \in told[f]

\* Nor the other way: a peer we sent a Reject for its Follow is not counted as
\* a follower for it.  An owner who approves and refuses a request at the same
\* time does both, so it is promised to one who does one thing at a time, or
\* who has no requests to answer.
RejectedIsNotFollower ==
  (~ manual \/ Cardinality(Slots) = 1)
    => \A f \in Theirs : "Reject" \in told[f] => follower # f

\* An actor that deleted itself is not followed, whatever arrives late, and
\* follows only by the owner's late approval.
DeletedIsForgotten ==
  gone => following = None /\ (~ manual => follower = None)

\* A blocked actor has a Block that can be undone: send_unblock never raises
\* for want of one.
BlockIsOnRecord == blocked => LiveBlocks # {}

\* Follow activities pile up only as far as requests overlap, and a Move comes on
\* top: one request at a time never sends a second Follow.
Moved == IF Arrival \in handled THEN 1 ELSE 0
LiveFollowsBounded == Cardinality(LiveFollows) <= Cardinality(Slots) + Moved
==============================================================================
