-------------------------------- MODULE Quotes ---------------------------------
(***************************************************************************)
(* Quote posts (FEP-044f): asking for consent to quote, granting it, and   *)
(* taking it back, as activitypub/boxes.py does.                           *)
(*                                                                         *)
(* A stamp (QuoteAuthorization) is the consent of the quoted author to one *)
(* quoting post.  Stamps for posts of ours are rows of the outbox; those   *)
(* of peers live on their servers and are fetched to be believed.          *)
(*                                                                         *)
(* Activities arrive in any order (the retries of both queues reorder      *)
(* them), each is handled in one transaction under the write lock.  The    *)
(* owner's requests read, await, and write: `pending` holds what was read. *)
(***************************************************************************)
EXTENDS Integers, FiniteSets

CONSTANTS
  Posts,       \* posts of ours that are quoted
  Ours,        \* quoting posts of ours
  Theirs,      \* quoting posts of peers
  Quotable,    \* the posts of ours that are public or unlisted
  Policies,    \* the values of quote_policy
  None,
  MaxStamps,   \* bound: stamps per quoting post
  MaxRequests, \* bound: requests of the owner
  MaxRepeats   \* bound: further Deletes of a note

Quotes == Ours \cup Theirs
Stamps == Quotes \X (1..MaxStamps)
ASSUME QuotesAssumption ==
  /\ IsFiniteSet(Quotes) /\ Ours \cap Theirs = {} /\ Posts \cap Quotes = {}
  /\ None \notin Quotes \cup Posts /\ None \notin Stamps
  /\ Quotable \subseteq Posts
  /\ Policies \subseteq {"public", "followers", "manual", "nobody"}
  /\ MaxStamps \in Nat /\ MaxRequests \in Nat /\ MaxRepeats \in Nat

VARIABLES
  policy,   \* config.quote_policy
  Of,       \* quote_ap_id: a post of ours, or None, which stands for a peer's
  row,      \* the posts and quoting posts: "none", "live" or "deleted"
  stamp,    \* each stamp: "none", "live" or "revoked"
  state,    \* quote_state of ours: "none", "pending", "accepted", "rejected", "revoked"
  auth,     \* quote_authorization_ap_id
  verified, \* quote_is_verified of theirs
  count,    \* quotes_count
  note,     \* the stamp in the note of ours that is stored and was last sent
  asked,    \* quotes whose request waits for the owner: the notifications
  wire,     \* the activities on their way to us, and our answers to peers
  pending,  \* what requests have read and not yet written
  requests, repeats,
  \* History: not read by the code.
  drift,    \* the posts whose count may be off
  overtaken \* notes of ours that an edit has put back to an older stamp

quoting == <<state, auth, note, overtaken>>
quoted == <<verified, count, drift>>
bounds == <<requests, repeats>>
config == <<policy, Of>>
vars == <<config, row, stamp, quoting, quoted, asked, wire, pending, bounds>>

Msg(t, x, s) == [type |-> t, of |-> x, stamp |-> s]
Handled(m, sent) == wire' = (wire \ {m}) \cup sent

-----------------------------------------------------------------------------
(* Stamps. *)

Minted(x) == {s \in Stamps : s[1] = x /\ stamp[s] # "none"}
Fresh(x) == <<x, Cardinality(Minted(x)) + 1>>
CanMint(x) == Cardinality(Minted(x)) < MaxStamps
\* _mint_quote_authorization: a new stamp at every call.
Mint(x) == CanMint(x) /\ stamp' = [stamp EXCEPT ![Fresh(x)] = "live"]

\* Whose stamps are ours: quotes of a post of ours.
Local(x) == Of[x] # None

\* _verify_quote_authorization: a stamp of ours is found in the outbox, deleted
\* or not; one of a peer is fetched, which may fail.
Verified(s, reached) == s # None /\ (IF Local(s[1]) THEN stamp[s] # "none"
                                     ELSE reached /\ stamp[s] = "live")

Authorized(x) == IF x \in Ours THEN state[x] = "accepted" ELSE verified[x]
\* get_quoted_object_for_display, serialize_quote
Displayed(x) == row[x] = "live" /\ Authorized(x)

\* _get_quotes_count
QuotesCount(p, R, V) == Cardinality({x \in Theirs : Of[x] = p /\ R[x] = "live" /\ V[x]})
Recount(p, R, V) ==
  IF p = None THEN UNCHANGED <<count, drift>>
  ELSE count' = [count EXCEPT ![p] = QuotesCount(p, R, V)] /\ drift' = drift \ {p}

-----------------------------------------------------------------------------
(* Quotes of ours. *)

Asked == requests < MaxRequests /\ requests' = requests + 1

\* send_create: a post of ours is quoted at once, a peer's is asked for.
SendCreate(q) ==
  /\ row[q] = "none" /\ Asked
  /\ row' = [row EXCEPT ![q] = "live"]
  /\ IF Local(q)
     THEN /\ Mint(q) /\ UNCHANGED wire
          /\ state' = [state EXCEPT ![q] = "accepted"]
          /\ auth' = [auth EXCEPT ![q] = Fresh(q)] /\ note' = [note EXCEPT ![q] = Fresh(q)]
     ELSE /\ state' = [state EXCEPT ![q] = "pending"]
          /\ wire' = wire \cup {Msg("QuoteRequest", q, None)}   \* send_quote_request
          /\ UNCHANGED <<stamp, auth, note>>
  /\ UNCHANGED <<config, quoted, overtaken, asked, pending, repeats>>

\* _handle_quote_request_accept_or_reject: only while it is pending; what is not
\* verified is refused.  Nothing asks whether the quoting post was deleted.
Accept(m, reached) ==
  LET q == m.of
      ok == Verified(m.stamp, reached)
  IN  /\ m.type = "Accept" /\ q \in Ours /\ Handled(m, {})
      /\ IF state[q] # "pending" THEN UNCHANGED quoting
         ELSE IF ok
         THEN /\ state' = [state EXCEPT ![q] = "accepted"]
              /\ auth' = [auth EXCEPT ![q] = m.stamp]
              /\ note' = [note EXCEPT ![q] = m.stamp] /\ overtaken' = overtaken \ {q}   \* send_update
         ELSE state' = [state EXCEPT ![q] = "rejected"] /\ UNCHANGED <<auth, note, overtaken>>
      /\ UNCHANGED <<config, row, stamp, quoted, asked, pending, bounds>>
Reject(m) ==
  /\ m.type = "Reject" /\ m.of \in Ours /\ Handled(m, {})
  /\ state' = [state EXCEPT ![m.of] = IF @ = "pending" THEN "rejected" ELSE @]
  /\ UNCHANGED <<config, row, stamp, auth, note, overtaken, quoted, asked, pending, bounds>>

\* mutant: only the quotes of ours are looked for
DeleteOfOurs(m) ==
  LET s == m.stamp
      ours == {q \in Ours : auth[q] = s /\ state[q] = "accepted" /\ row[q] # "deleted"}
  IN  /\ m.type = "Delete" /\ s # None /\ ~Local(s[1]) /\ Handled(m, {})
      /\ state' = [q \in Ours |-> IF q \in ours THEN "revoked" ELSE state[q]]
      /\ UNCHANGED <<config, row, stamp, auth, note, overtaken, quoted, asked, pending, bounds>>
\* _handle_quote_authorization_delete: a peer takes back a stamp that a quote of
\* ours, or of another peer, was shown with.  A stamp that nothing shows is
\* forgotten.
Delete(m) ==
  LET s == m.stamp
      ours == {q \in Ours : auth[q] = s /\ state[q] = "accepted" /\ row[q] # "deleted"}
      theirs == {x \in Theirs : auth[x] = s /\ verified[x]}
  IN  /\ m.type = "Delete" /\ s # None /\ ~Local(s[1]) /\ Handled(m, {})
      /\ state' = [q \in Ours |-> IF q \in ours THEN "revoked" ELSE state[q]]
      /\ verified' = [x \in Theirs |-> IF x \in theirs THEN FALSE ELSE verified[x]]
      /\ UNCHANGED <<config, row, stamp, auth, note, overtaken, count, drift, asked, pending, bounds>>

\* statuses_update: the row is read, mentions and links are looked up, and
\* send_update writes the note anew, with the stamp that was read.
Edit(q) ==
  /\ row[q] # "none" /\ Asked
  /\ pending' = pending \cup {[do |-> "edit", of |-> q, stamp |-> auth[q]]}
  /\ UNCHANGED <<config, row, stamp, quoting, quoted, asked, wire, repeats>>
\* mutant: what is not in the source is dropped
WriteSource(w) ==
  /\ w.do = "edit" /\ pending' = pending \ {w}
  /\ note' = [note EXCEPT ![w.of] = None]
  /\ overtaken' = IF w.stamp = auth[w.of] THEN overtaken \ {w.of} ELSE overtaken \cup {w.of}
  /\ UNCHANGED <<config, row, stamp, state, auth, quoted, asked, wire, bounds>>
WriteEdit(w) ==
  /\ w.do = "edit" /\ pending' = pending \ {w}
  /\ note' = [note EXCEPT ![w.of] = w.stamp]
  /\ overtaken' = IF w.stamp = auth[w.of] THEN overtaken \ {w.of} ELSE overtaken \cup {w.of}
  /\ UNCHANGED <<config, row, stamp, state, auth, quoted, asked, wire, bounds>>

\* send_delete, of a quoting post or of a quoted one: its stamps stand.
SendDelete(x) ==
  /\ row[x] = "live" /\ Asked
  /\ row' = [row EXCEPT ![x] = "deleted"]
  /\ UNCHANGED <<config, stamp, quoting, quoted, asked, wire, pending, repeats>>

-----------------------------------------------------------------------------
(* Quotes of theirs. *)

\* _accept_quote_request, _reject_quote_request
Grant(x, m) == Mint(x) /\ Handled(m, {Msg("Accept", x, Fresh(x))})
Refuse(x, m) == Handled(m, {Msg("Reject", x, None)}) /\ UNCHANGED stamp

\* What quote_policy allows; under "followers", who asks may follow or not.
MayGrant(x) == Of[x] \in Quotable /\ policy \in {"public", "followers"}
MayRefuse(x) == Of[x] \notin Quotable \/ policy \in {"nobody", "followers"}

\* _handle_quote_request_activity: dropped when the post is gone.
Request(m) ==
  LET x == m.of
      here == row[Of[x]] = "live"
      manual == here /\ Of[x] \in Quotable /\ policy = "manual"
  IN  /\ m.type = "QuoteRequest" /\ Local(x)
      /\ \/ here /\ MayGrant(x) /\ Grant(x, m)
         \/ here /\ MayRefuse(x) /\ Refuse(x, m)
         \/ (manual \/ ~here) /\ Handled(m, {}) /\ UNCHANGED stamp
      /\ asked' = IF manual THEN asked \cup {x} ELSE asked
      /\ UNCHANGED <<config, row, quoting, quoted, pending, bounds>>

\* send_quote_accept, send_quote_reject, of a notification, answered or not, and
\* whether or not the quoted post is still there.
SendQuoteAccept(x) ==
  /\ x \in asked /\ Asked
  /\ Mint(x) /\ wire' = wire \cup {Msg("Accept", x, Fresh(x))}
  /\ UNCHANGED <<config, row, quoting, quoted, asked, pending, repeats>>
SendQuoteReject(x) ==
  /\ x \in asked /\ Asked
  /\ wire' = wire \cup {Msg("Reject", x, None)}
  /\ UNCHANGED <<config, row, stamp, quoting, quoted, asked, pending, repeats>>

\* _handle_create_activity, _process_inbound_quote.
Create(m, reached) ==
  LET x == m.of
      R == [row EXCEPT ![x] = "live"]
      V == [verified EXCEPT ![x] = Verified(m.stamp, reached)]
  IN  /\ m.type = "Create" /\ Handled(m, {})
      /\ row' = R /\ verified' = V /\ auth' = [auth EXCEPT ![x] = m.stamp]
      /\ IF V[x] THEN Recount(Of[x], R, V) ELSE UNCHANGED <<count, drift>>
      /\ UNCHANGED <<config, stamp, state, note, overtaken, asked, pending, bounds>>

\* _handle_update_activity: the note is replaced; its columns stay as they were.
Update(m) ==
  /\ m.type = "Update" /\ Handled(m, {})
  /\ UNCHANGED <<config, row, stamp, quoting, quoted, asked, pending, bounds>>

\* mutant: the note is not counted any more when one is subtracted
RevertCounted(x) ==
  count' = [count EXCEPT ![Of[x]] = QuotesCount(Of[x], [row EXCEPT ![x] = "deleted"], verified) - 1]
\* The counter in _revert_side_effect_for_deleted_object: x is still counted, if
\* it was not deleted before.
Revert(x) == count' = [count EXCEPT ![Of[x]] = QuotesCount(Of[x], row, verified) - 1]
\* _handle_delete_activity, of the quoting note.
DeleteNote(x) ==
  /\ row[x] # "none"
  /\ IF row[x] = "live" THEN UNCHANGED repeats ELSE repeats < MaxRepeats /\ repeats' = repeats + 1
  /\ row' = [row EXCEPT ![x] = "deleted"]
  /\ IF verified[x] /\ Local(x)
     THEN Revert(x) /\ drift' = IF row[x] = "live" THEN drift \ {Of[x]} ELSE drift \cup {Of[x]}
     ELSE UNCHANGED <<count, drift>>
  /\ UNCHANGED <<config, stamp, quoting, verified, asked, wire, pending, requests>>

\* send_quote_revoke: what is revoked is looked up, then written.
Revoke(x) ==
  /\ row[x] # "none" /\ verified[x] /\ Local(x) /\ stamp[auth[x]] = "live" /\ Asked
  /\ pending' = pending \cup {[do |-> "revoke", of |-> x, stamp |-> auth[x]]}
  /\ UNCHANGED <<config, row, stamp, quoting, quoted, asked, wire, repeats>>
WriteRevoke(w) ==
  LET V == [verified EXCEPT ![w.of] = FALSE] IN
  /\ w.do = "revoke" /\ pending' = pending \ {w}
  /\ stamp' = [stamp EXCEPT ![w.stamp] = "revoked"]
  /\ verified' = V /\ Recount(Of[w.of], row, V)
  /\ wire' = wire \cup {Msg("Delete", w.of, w.stamp)}
  /\ UNCHANGED <<config, row, quoting, asked, bounds>>

-----------------------------------------------------------------------------
(* The peers: what they send to us. *)

\* The author of a quoted post answers our request, or a peer's; and takes back.
PeerGrants(m) ==
  /\ m.type = "QuoteRequest" /\ ~Local(m.of)
  /\ \/ Grant(m.of, m)
     \/ m.of \in Ours /\ Refuse(m.of, m)
  /\ UNCHANGED <<config, row, quoting, quoted, asked, pending, bounds>>
PeerRevokes(s) ==
  /\ ~Local(s[1]) /\ stamp[s] = "live"
  /\ stamp' = [stamp EXCEPT ![s] = "revoked"] /\ wire' = wire \cup {Msg("Delete", s[1], s)}
  /\ UNCHANGED <<config, row, quoting, quoted, asked, pending, bounds>>

\* The author of a quoting post asks, publishes it - before or after it is
\* answered - and publishes the stamp it gets.
Told(x) == {m.stamp : m \in {n \in wire : n.type = "Accept" /\ n.of = x}}
PeerAsks(x) ==
  /\ Msg("QuoteRequest", x, None) \notin wire /\ CanMint(x)
  /\ Told(x) = {} \/ Local(x)
  /\ wire' = wire \cup {Msg("QuoteRequest", x, None)}
  /\ UNCHANGED <<config, row, stamp, quoting, quoted, asked, pending, bounds>>
PeerPublishes(x) ==
  /\ row[x] = "none" /\ ~\E m \in wire : m.type = "Create" /\ m.of = x
  /\ \E s \in Told(x) \cup {None} : wire' = wire \cup {Msg("Create", x, s)}
  /\ UNCHANGED <<config, row, stamp, quoting, quoted, asked, pending, bounds>>
PeerUpdates(m) ==
  /\ m.type = "Accept" /\ m.of \in Theirs /\ row[m.of] = "live" /\ auth[m.of] # m.stamp
  /\ Handled(m, {Msg("Update", m.of, m.stamp)})
  /\ UNCHANGED <<config, row, stamp, quoting, quoted, asked, pending, bounds>>

Init ==
  /\ policy \in Policies /\ Of \in [Quotes -> Posts \cup {None}]
  /\ row = [x \in Posts \cup Quotes |-> IF x \in Posts THEN "live" ELSE "none"]
  /\ stamp = [s \in Stamps |-> "none"]
  /\ state = [q \in Ours |-> "none"] /\ auth = [x \in Quotes |-> None]
  /\ verified = [x \in Theirs |-> FALSE] /\ count = [p \in Posts |-> 0]
  /\ note = [q \in Ours |-> None]
  /\ asked = {} /\ wire = {} /\ pending = {} /\ requests = 0 /\ repeats = 0
  /\ drift = {} /\ overtaken = {}

Incoming == \E m \in wire :
  \/ \E reached \in BOOLEAN : Accept(m, reached) \/ Create(m, reached)
  \/ Reject(m) \/ Delete(m) \/ Request(m) \/ Update(m)
Owner ==
  \/ \E q \in Ours : SendCreate(q) \/ Edit(q)
  \/ \E x \in Ours \cup Posts : SendDelete(x)
  \/ \E x \in Theirs : SendQuoteAccept(x) \/ SendQuoteReject(x) \/ Revoke(x)
  \/ \E w \in pending : WriteEdit(w) \/ WriteRevoke(w)
Peer ==
  \/ \E m \in wire : PeerGrants(m) \/ PeerUpdates(m)
  \/ (\E s \in Stamps : PeerRevokes(s))
  \/ \E x \in Theirs : PeerAsks(x) \/ PeerPublishes(x) \/ DeleteNote(x)
Next == Incoming \/ Owner \/ Peer

Spec == Init /\ [][Next]_vars

-----------------------------------------------------------------------------
(* Properties. *)

\* The types of the columns, and what can be on the wire.
TypeOK ==
  /\ row \in [Posts \cup Quotes -> {"none", "live", "deleted"}]
  /\ stamp \in [Stamps -> {"none", "live", "revoked"}]
  /\ state \in [Ours -> {"none", "pending", "accepted", "rejected", "revoked"}]
  /\ auth \in [Quotes -> Stamps \cup {None}] /\ note \in [Ours -> Stamps \cup {None}]
  /\ verified \in [Theirs -> BOOLEAN] /\ count \in [Posts -> Int]
  /\ \A m \in wire : m.of \in Quotes /\ m.stamp \in Stamps \cup {None}
  /\ asked \subseteq Theirs

\* A quote is shown only under a stamp that stands, or whose Delete is still on
\* its way: whichever of the stamp, its Delete and the quoting post comes first.
ShownQuoteStands ==
  \A x \in Quotes : Displayed(x) =>
    stamp[auth[x]] = "live" \/ (~Local(x) /\ Msg("Delete", x, auth[x]) \in wire)

\* quotes_count says how many verified quotes there are, except after a second
\* Delete of a quoting note, which subtracts from a count without it.
QuotesCountAgrees ==
  TypeOK /\ \A p \in Posts : count[p] = QuotesCount(p, row, verified) \/ p \in drift

\* Followers are sent the stamp of a quote that was accepted, unless an edit was
\* under way that had read the row before.
AcceptedIsAnnounced ==
  \A q \in Ours : state[q] = "accepted" => note[q] = auth[q] \/ q \in overtaken
=============================================================================
