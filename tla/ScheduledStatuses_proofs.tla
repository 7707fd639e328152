------------------------ MODULE ScheduledStatuses_proofs ------------------------
(* What ScheduledStatuses promises of the posts that clients ask for, for any   *)
(* number of posts, clients, uploads, rows, failures and restarts.              *)
EXTENDS ScheduledStatuses, FiniteSetTheorems, TLAPS

-----------------------------------------------------------------------------
(* The inductive invariant. *)

\* The requests, by what they have read.
Requests ==
  {Idle} \cup [step : {"schedule", "post", "cache"}, post : Posts]
         \cup [step : {"put", "delete"}, id : Ids, row : Row]
         \cup [step : {"read_queue", "delete_media"}, media : Media]

QueueType ==
  /\ queue \in [Ids -> Row \cup {NoRow}] /\ now \in Times
  /\ \A i \in Used : At[queue[i].post] # Immediately
RequestType ==
  /\ req \in [Clients -> Requests]
  /\ \A c \in Clients : req[c].step = "schedule" => At[req[c].post] # Immediately
  /\ \A c \in Clients : req[c].step \in {"post", "cache"} => At[req[c].post] = Immediately
PassType ==
  /\ pc \in {"idle", "pass", "send", "counts", "failed", "record"}
  /\ todo \subseteq Entry /\ current \in Entry \cup {NoEntry} /\ fresh \in BOOLEAN
  /\ loaded \in Row \cup {NoRow}
  /\ pc \in {"send", "counts", "failed", "record"} <=> current # NoEntry
  /\ pc = "record" <=> loaded # NoRow
BoundsType ==
  /\ uploads \subseteq Media /\ attached \subseteq Media
  /\ cache \in [Posts -> 0..MaxId] /\ asked \in [Posts -> 0..MaxAsks]
  /\ calls \in 0..MaxCalls /\ drops \in 0..MaxDrops /\ errors \in 0..MaxErrors
  /\ posted \in [Posts -> Nat]
  /\ queued \cup hurried \cup cancelled \cup charged \subseteq Posts
TypeInv == QueueType /\ RequestType /\ PassType /\ BoundsType

\* What the pass has yet to publish: one entry for each id.
Open == todo \cup (IF pc = "send" THEN {current} ELSE {})
PassInv ==
  /\ pc = "idle" => todo = {}
  /\ pc = "send" => current \notin todo
  /\ \A d, e \in Open : d.id = e.id => d = e

\* The rows of a post.
RowsOf(p) == {i \in Used : queue[i].post = p}

\* As long as nothing is cancelled, what the pass has yet to publish is in the
\* queue, and what was queued and is not published is.
KeptInv == cancelled = {} =>
  /\ \A e \in Open : e.id \in RowsOf(e.post)
  /\ \A p \in queued : posted[p] > 0 \/ RowsOf(p) # {}

\* Each request pays for one publication: made, queued, in the pass, or about to be
\* made by the request itself.
Claims(p) == RowsOf(p) \cup {e.id : e \in {d \in Open : d.post = p}}
Waiting(p) == {c \in Clients : req[c].step \in {"schedule", "post"} /\ req[c].post = p}
CountInv == \A p \in Posts :
  posted[p] + Cardinality(Claims(p)) + Cardinality(Waiting(p)) <= asked[p]

\* As long as no request has failed and none but POST /statuses was made ...
Quiet == drops = 0 /\ calls = 0

QuietInv == Quiet =>
  /\ cancelled = {} /\ \A c \in Clients : req[c] = Idle \/ Composing(c)
  /\ pc = "record" => current.id \in RowsOf(loaded.post)

\* ... no post is due before its time,
TimeInv == Quiet =>
  /\ \A i \in Used : queue[i].post \notin charged => At[queue[i].post] <= queue[i].next
  /\ \A e \in Open : e.post \notin charged => At[e.post] <= now
  /\ current # NoEntry /\ current.post \notin charged => At[current.post] <= now

\* ... and a post that is asked for once at a time is published once at most: nobody
\* asks for it and it is new, answered and published, past its time and published, or
\* in the queue under the id its key leads to.
Asking(p) == {c \in Clients : Composing(c) /\ req[c].post = p}
Unpublished(p) == posted[p] = 0 /\ RowsOf(p) = {}
Published(p) == posted[p] = 1 /\ RowsOf(p) = {}
Once(p) ==
  /\ \A c, d \in Asking(p) : c = d
  /\ \A c \in Asking(p) : IF req[c].step = "cache" THEN Published(p) ELSE Unpublished(p)
  /\ Asking(p) = {} =>
       \/ Unpublished(p)
       \/ At[p] = Immediately /\ Published(p) /\ cache[p] # 0
       \/ At[p] # Immediately /\ Published(p) /\ At[p] <= now
       \/ At[p] # Immediately /\ posted[p] = 0 /\ RowsOf(p) = {cache[p]} /\ cache[p] # 0
KeyInv == Quiet => \A p \in Posts \ (hurried \cup charged) : Once(p)

PostInv == TypeInv /\ PassInv /\ KeptInv /\ CountInv /\ QuietInv /\ TimeInv /\ KeyInv

-----------------------------------------------------------------------------
(* What a step leaves alone. *)

LEMMA WorkFrame ==
  ASSUME Work
  PROVE  UNCHANGED <<uploads, now, requests, errors, queued, hurried, cancelled>>
BY DEF requests, worker, history, Work, Fetch, EndPass, Send, Count, ReadRow, RecordFailure,
   Skip, Resolve, MissingMedia, Publish, Proceed, Take, Failed

LEMMA RequestFrame ==
  ASSUME NEW c \in Clients, Request(c)
  PROVE  UNCHANGED <<now, worker, charged>>
BY DEF requests, worker, history, Request, Compose, Schedule, PostNow, Remember, Load,
   Reschedule, Cancel, ReadAttached, ReadQueue, DeleteMedia, Drop, Wait, Answer, Publish

-----------------------------------------------------------------------------
(* Types. *)

\* What a request has read.
LEMMA RequestParts ==
  ASSUME RequestType, NEW c \in Clients
  PROVE  /\ req[c].step \in {"schedule", "post", "cache"} => req[c].post \in Posts
         /\ req[c].step \in {"put", "delete"} => req[c].id \in Ids /\ req[c].row \in Row
         /\ req[c].step \in {"read_queue", "delete_media"} => req[c].media \in Media
<1>1. req[c] \in Requests
  BY DEF RequestType
<1> QED
  BY <1>1 DEF Requests, Idle

LEMMA RowParts ==
  ASSUME QueueType, NEW i \in Used
  PROVE  /\ queue[i] \in Row /\ queue[i].post \in Posts /\ queue[i].at \in Times
         /\ queue[i].next \in 0..GaveUp /\ queue[i].tries \in Nat
BY DEF QueueType, Used, Row, NoRow

\* What an UPDATE makes of a row.
LEMMA UpdatedParts ==
  ASSUME NEW r \in Row, NEW old \in Row, NEW new \in Row, old.post = new.post
  PROVE  /\ Updated(r, old, new) \in Row /\ Updated(r, old, new) # NoRow
         /\ Updated(r, old, new).post = r.post
         /\ Updated(r, old, new).next \in {r.next, new.next}
<1>1. DOMAIN r = {"post", "at", "next", "tries"}
  BY DEF Row
<1>2. Updated(r, old, new) = [f \in {"post", "at", "next", "tries"} |-> IF old[f] = new[f] THEN r[f] ELSE new[f]]
  BY <1>1 DEF Updated
<1> HIDE DEF Updated
<1>3. Updated(r, old, new) \in Row
  BY <1>2 DEF Row
<1>4. Updated(r, old, new).post = r.post /\ Updated(r, old, new).next \in {r.next, new.next}
  BY <1>2
<1> QED
  BY <1>3, <1>4 DEF Row, NoRow

LEMMA MovedRow ==
  ASSUME NEW r \in Row, NEW t \in Times
  PROVE  Moved(r, t) \in Row /\ Moved(r, t).post = r.post
<1>1. t \in 0..GaveUp
  BY BoundsAssumption DEF Times, GaveUp
<1> QED
  BY <1>1 DEF Moved, Row

LEMMA AfterFailureParts ==
  ASSUME now \in Times, NEW r \in Row
  PROVE  AfterFailure(r) \in Row /\ AfterFailure(r).post = r.post /\ now <= AfterFailure(r).next
<1>1. now \in Nat /\ now <= MaxTime /\ MaxTime \in Nat /\ r.tries \in Nat /\ MaxTries \in Nat
  BY BoundsAssumption DEF Times, Row
<1> DEFINE n == IF r.tries + 1 >= MaxTries THEN GaveUp ELSE Later(now + Delay(r.tries + 1))
<1>2. ASSUME r.tries + 1 >= MaxTries PROVE n \in 0..GaveUp /\ now <= n
  BY <1>1, <1>2 DEF GaveUp
<1>3. ASSUME ~(r.tries + 1 >= MaxTries) PROVE n \in 0..GaveUp /\ now <= n
  <2>1. Delay(r.tries + 1) \in Nat
    BY <1>1, <1>3, DelayAssumption
  <2>2. Later(now + Delay(r.tries + 1)) \in 0..MaxTime /\ now <= Later(now + Delay(r.tries + 1))
    BY <1>1, <2>1 DEF Later
  <2> HIDE DEF Later, Delay
  <2> QED
    BY <1>1, <1>3, <2>2 DEF GaveUp
<1>4. n \in 0..GaveUp /\ now <= n
  BY <1>1, <1>2, <1>3
<1>5. PICK k \in Nat : k = r.tries + 1
  BY <1>1
<1> DEFINE f == [r EXCEPT !.tries = k, !.next = n]
<1>6. AfterFailure(r) = f
  BY <1>5 DEF AfterFailure
<1> HIDE DEF n
<1>7. f \in Row /\ f.post = r.post /\ f.next = n
  BY <1>4 DEF Row
<1> HIDE DEF f
<1> QED
  BY <1>4, <1>6, <1>7

LEMMA QueueNext ==
  ASSUME QueueType, RequestType, PassType, [Next]_vars
  PROVE  QueueType'
<1>1. ASSUME Fetch PROVE QueueType'
  BY <1>1 DEF Fetch, requests, history, Batch, Due, QueueType, Used
<1>2. ASSUME EndPass PROVE QueueType'
  BY <1>2 DEF EndPass, requests, history, QueueType, Used
<1>3. ASSUME Send PROVE QueueType'
  <2>1. queue' = [queue EXCEPT ![current.id] = NoRow] /\ now' = now
    BY <1>3 DEF Send
  <2> QED
    BY <2>1 DEF QueueType, Used
<1>4. ASSUME Count PROVE QueueType'
  BY <1>4 DEF Count, Proceed, requests, history, QueueType, Used
<1>5. ASSUME ReadRow PROVE QueueType'
  BY <1>5 DEF ReadRow, Proceed, requests, history, QueueType, Used
<1>6. ASSUME RecordFailure PROVE QueueType'
  <2>1. loaded \in Row
    BY <1>6 DEF RecordFailure, PassType
  <2>2. now \in Times
    BY DEF QueueType
  <2>3. AfterFailure(loaded) \in Row /\ AfterFailure(loaded).post = loaded.post
    BY <2>1, <2>2, AfterFailureParts
  <2>4. CASE queue[current.id] = NoRow
    BY <1>6, <2>4 DEF RecordFailure, QueueType, Used
  <2>5. CASE queue[current.id] # NoRow
    <3> DEFINE u == Updated(queue[current.id], loaded, AfterFailure(loaded))
    <3>1. current.id \in Ids
      BY <1>6 DEF RecordFailure, PassType, Entry, NoEntry
    <3>2. queue[current.id] \in Row
      BY <2>5, <3>1 DEF QueueType
    <3>3. u \in Row /\ u # NoRow /\ u.post = queue[current.id].post
      BY <2>1, <2>3, <3>2, UpdatedParts
    <3>4. queue' = [queue EXCEPT ![current.id] = u] /\ now' = now
      BY <1>6, <2>5 DEF RecordFailure
    <3> HIDE DEF u
    <3> QED
      BY <2>5, <3>1, <3>3, <3>4 DEF QueueType, Used
  <2> QED
    BY <2>4, <2>5
<1>7. ASSUME NEW e \in todo, Skip(e) PROVE QueueType'
  BY <1>7 DEF Skip, Take, Present, requests, history, QueueType, Used
<1>8. ASSUME NEW e \in todo, Resolve(e) PROVE QueueType'
  BY <1>8 DEF Resolve, Take, Present, requests, history, QueueType, Used
<1>9. ASSUME NEW e \in todo, MissingMedia(e) PROVE QueueType'
  BY <1>9 DEF MissingMedia, Take, Present, Failed, requests, history, QueueType, Used
<1>10. ASSUME SendFails PROVE QueueType'
  BY <1>10 DEF SendFails, Failed, requests, history, QueueType, Used
<1>11. ASSUME Crash PROVE QueueType'
  BY <1>11 DEF Crash, requests, history, QueueType, Used
<1>12. ASSUME Tick PROVE QueueType'
  BY <1>12, BoundsAssumption DEF Tick, QueueType, Used, Times
<1>13. ASSUME RestartWeb PROVE QueueType'
  BY <1>13 DEF RestartWeb, worker, history, QueueType, Used
<1>14. ASSUME NEW c \in Clients, NEW p \in Posts, Compose(c, p) PROVE QueueType'
  BY <1>14 DEF Compose, Wait, worker, QueueType, Used
<1>15. ASSUME NEW c \in Clients, Schedule(c) PROVE QueueType'
  <2>1. req[c].post \in Posts /\ At[req[c].post] # Immediately /\ At[req[c].post] \in Times
    BY <1>15, RequestParts, PostsAssumption DEF Schedule, RequestType
  <2>2. [post |-> req[c].post, at |-> At[req[c].post], next |-> At[req[c].post], tries |-> 0] \in Row
    BY <2>1, BoundsAssumption DEF Row, Times, GaveUp
  <2>3. PICK i \in Ids : queue' = [queue EXCEPT ![i] =
                    [post |-> req[c].post, at |-> At[req[c].post], next |-> At[req[c].post], tries |-> 0]]
    BY <1>15 DEF Schedule
  <2>4. now' = now
    BY <1>15 DEF Schedule
  <2> QED
    BY <2>1, <2>2, <2>3, <2>4 DEF QueueType, Used
<1>16. ASSUME NEW c \in Clients, PostNow(c) PROVE QueueType'
  BY <1>16 DEF PostNow, Wait, Publish, worker, QueueType, Used
<1>17. ASSUME NEW c \in Clients, Remember(c) PROVE QueueType'
  BY <1>17 DEF Remember, Answer, worker, history, QueueType, Used
<1>18. ASSUME NEW c \in Clients, NEW call \in {"put", "delete"}, NEW i \in Ids, Load(c, call, i)
       PROVE  QueueType'
  BY <1>18 DEF Load, Wait, worker, history, QueueType, Used
<1>19. ASSUME NEW c \in Clients, NEW t \in Times, Reschedule(c, t) PROVE QueueType'
  <2> DEFINE new == Moved(req[c].row, t)
             u == Updated(queue[req[c].id], req[c].row, new)
  <2>1. req[c].id \in Ids /\ req[c].row \in Row
    BY <1>19, RequestParts DEF Reschedule
  <2>2. new \in Row /\ new.post = req[c].row.post
    BY <2>1, MovedRow
  <2> HIDE DEF new
  <2>3. CASE queue[req[c].id] = NoRow
    BY <1>19, <2>3 DEF Reschedule, QueueType, Used
  <2>4. CASE queue[req[c].id] # NoRow
    <3>1. queue[req[c].id] \in Row
      BY <2>1, <2>4 DEF QueueType
    <3>2. u \in Row /\ u # NoRow /\ u.post = queue[req[c].id].post
      BY <2>1, <2>2, <3>1, UpdatedParts
    <3>3. queue' = [queue EXCEPT ![req[c].id] = u] /\ now' = now
      BY <1>19, <2>4 DEF Reschedule, new
    <3> HIDE DEF u
    <3> QED
      BY <2>1, <2>4, <3>2, <3>3 DEF QueueType, Used
  <2> QED
    BY <2>3, <2>4
<1>20. ASSUME NEW c \in Clients, Cancel(c) PROVE QueueType'
  <2>1. queue' = [queue EXCEPT ![req[c].id] = NoRow] /\ now' = now
    BY <1>20 DEF Cancel
  <2> QED
    BY <2>1 DEF QueueType, Used
<1>21. ASSUME NEW c \in Clients, NEW m \in Media, ReadAttached(c, m) PROVE QueueType'
  BY <1>21 DEF ReadAttached, Wait, worker, history, QueueType, Used
<1>22. ASSUME NEW c \in Clients, ReadQueue(c) PROVE QueueType'
  BY <1>22 DEF ReadQueue, Wait, Answer, worker, history, QueueType, Used
<1>23. ASSUME NEW c \in Clients, DeleteMedia(c) PROVE QueueType'
  BY <1>23 DEF DeleteMedia, Answer, worker, history, QueueType, Used
<1>24. ASSUME NEW c \in Clients, Drop(c) PROVE QueueType'
  BY <1>24 DEF Drop, Answer, worker, history, QueueType, Used
<1>25. ASSUME UNCHANGED vars PROVE QueueType'
  BY <1>25 DEF vars, requests, worker, history, QueueType, Used
<1> QED
  BY <1>1, <1>2, <1>3, <1>4, <1>5, <1>6, <1>7, <1>8, <1>9, <1>10, <1>11, <1>12, <1>13, <1>14,
     <1>15, <1>16, <1>17, <1>18, <1>19, <1>20, <1>21, <1>22, <1>23, <1>24, <1>25 DEF Next,
     Work, Request

LEMMA RequestNext ==
  ASSUME QueueType, RequestType, [Next]_vars
  PROVE  RequestType'
<1>1. ASSUME Work PROVE RequestType'
  BY <1>1, WorkFrame DEF requests, RequestType
<1>2. ASSUME SendFails PROVE RequestType'
  BY <1>2 DEF SendFails, Failed, requests, history, RequestType
<1>3. ASSUME Crash PROVE RequestType'
  BY <1>3 DEF Crash, requests, history, RequestType
<1>4. ASSUME Tick PROVE RequestType'
  BY <1>4 DEF Tick, requests, worker, history, RequestType
<1>5. ASSUME RestartWeb PROVE RequestType'
  BY <1>5 DEF RestartWeb, RequestType, Requests, Idle
<1>6. ASSUME NEW c \in Clients, NEW p \in Posts, Compose(c, p) PROVE RequestType'
  <2> DEFINE r == [step |-> IF At[p] = Immediately THEN "post" ELSE "schedule", post |-> p]
  <2>1. req' = [req EXCEPT ![c] = r] \/ UNCHANGED req
    BY <1>6 DEF Compose, Wait
  <2>2. /\ r \in Requests /\ r.post = p
        /\ r.step = "schedule" => At[p] # Immediately
        /\ r.step \in {"post", "cache"} => At[p] = Immediately
    BY DEF Requests
  <2> HIDE DEF r
  <2> QED
    BY <2>1, <2>2 DEF RequestType
<1>7. ASSUME NEW c \in Clients, Schedule(c) PROVE RequestType'
  <2>1. req' = [req EXCEPT ![c] = Idle]
    BY <1>7 DEF Schedule, Answer
  <2> QED
    BY <2>1 DEF RequestType, Requests, Idle
<1>8. ASSUME NEW c \in Clients, PostNow(c) PROVE RequestType'
  <2>1. req[c].post \in Posts /\ At[req[c].post] = Immediately
    BY <1>8, RequestParts DEF PostNow, RequestType
  <2>2. req' = [req EXCEPT ![c] = [step |-> "cache", post |-> req[c].post]]
    BY <1>8 DEF PostNow, Wait
  <2>3. [step |-> "cache", post |-> req[c].post] \in Requests
    BY <2>1 DEF Requests
  <2> QED
    BY <2>1, <2>2, <2>3 DEF RequestType
<1>9. ASSUME NEW c \in Clients, Remember(c) PROVE RequestType'
  <2>1. req' = [req EXCEPT ![c] = Idle]
    BY <1>9 DEF Remember, Answer
  <2> QED
    BY <2>1 DEF RequestType, Requests, Idle
<1>10. ASSUME NEW c \in Clients, NEW call \in {"put", "delete"}, NEW i \in Ids, Load(c, call, i)
       PROVE  RequestType'
  <2> DEFINE r == [step |-> call, id |-> i, row |-> queue[i]]
  <2>1. req' = [req EXCEPT ![c] = r]
    BY <1>10 DEF Load, Wait
  <2>2. r \in Requests /\ r.step \notin {"schedule", "post", "cache"}
    BY <1>10 DEF Load, QueueType, Requests
  <2> HIDE DEF r
  <2> QED
    BY <2>1, <2>2 DEF RequestType
<1>11. ASSUME NEW c \in Clients, NEW t \in Times, Reschedule(c, t) PROVE RequestType'
  <2>1. req' = [req EXCEPT ![c] = Idle]
    BY <1>11 DEF Reschedule, Answer
  <2> QED
    BY <2>1 DEF RequestType, Requests, Idle
<1>12. ASSUME NEW c \in Clients, Cancel(c) PROVE RequestType'
  <2>1. req' = [req EXCEPT ![c] = Idle]
    BY <1>12 DEF Cancel, Answer
  <2> QED
    BY <2>1 DEF RequestType, Requests, Idle
<1>13. ASSUME NEW c \in Clients, NEW m \in Media, ReadAttached(c, m) PROVE RequestType'
  <2> DEFINE r == [step |-> "read_queue", media |-> m]
  <2>1. req' = [req EXCEPT ![c] = r]
    BY <1>13 DEF ReadAttached, Wait
  <2>2. r \in Requests /\ r.step \notin {"schedule", "post", "cache"}
    BY DEF Requests
  <2> HIDE DEF r
  <2> QED
    BY <2>1, <2>2 DEF RequestType
<1>14. ASSUME NEW c \in Clients, ReadQueue(c) PROVE RequestType'
  <2> DEFINE r == [step |-> "delete_media", media |-> req[c].media]
  <2>1. req' = [req EXCEPT ![c] = r] \/ req' = [req EXCEPT ![c] = Idle]
    BY <1>14 DEF ReadQueue, Wait, Answer
  <2>2. r \in Requests /\ r.step \notin {"schedule", "post", "cache"}
    BY <1>14, RequestParts DEF ReadQueue, Requests
  <2>3. Idle \in Requests /\ Idle.step \notin {"schedule", "post", "cache"}
    BY DEF Requests, Idle
  <2> HIDE DEF r
  <2> QED
    BY <2>1, <2>2, <2>3 DEF RequestType
<1>15. ASSUME NEW c \in Clients, DeleteMedia(c) PROVE RequestType'
  <2>1. req' = [req EXCEPT ![c] = Idle]
    BY <1>15 DEF DeleteMedia, Answer
  <2> QED
    BY <2>1 DEF RequestType, Requests, Idle
<1>16. ASSUME NEW c \in Clients, Drop(c) PROVE RequestType'
  <2>1. req' = [req EXCEPT ![c] = Idle]
    BY <1>16 DEF Drop, Answer
  <2> QED
    BY <2>1 DEF RequestType, Requests, Idle
<1>17. ASSUME UNCHANGED vars PROVE RequestType'
  BY <1>17 DEF vars, requests, worker, history, RequestType
<1> QED
  BY <1>1, <1>2, <1>3, <1>4, <1>5, <1>6, <1>7, <1>8, <1>9, <1>10, <1>11, <1>12, <1>13, <1>14,
     <1>15, <1>16, <1>17 DEF Next, Request

LEMMA PassTypeNext ==
  ASSUME QueueType, PassType, [Next]_vars
  PROVE  PassType'
<1>1. ASSUME Fetch PROVE PassType'
  <2>1. Due \subseteq Entry
    <3> SUFFICES ASSUME NEW i \in Used, queue[i].next <= now
                 PROVE  [id |-> i, post |-> queue[i].post, next |-> queue[i].next] \in Entry
      BY DEF Due
    <3>1. queue[i].post \in Posts /\ queue[i].next \in 0..MaxTime
      BY RowParts, BoundsAssumption DEF QueueType, Times, GaveUp
    <3> QED
      BY <3>1 DEF Entry, Used
  <2>2. Batch \subseteq Entry
    BY <2>1 DEF Batch
  <2> QED
    BY <1>1, <2>2 DEF Fetch, PassType
<1>2. ASSUME EndPass PROVE PassType'
  BY <1>2 DEF EndPass, PassType
<1>3. ASSUME Send PROVE PassType'
  BY <1>3 DEF Send, PassType
<1>4. ASSUME Count PROVE PassType'
  BY <1>4 DEF Count, Proceed, PassType
<1>5. ASSUME ReadRow PROVE PassType'
  <2>1. current.id \in Ids
    BY <1>5 DEF ReadRow, PassType, Entry, NoEntry
  <2>2. queue[current.id] \in Row \cup {NoRow}
    BY <2>1 DEF QueueType
  <2> QED
    BY <1>5, <2>2 DEF ReadRow, Proceed, PassType
<1>6. ASSUME RecordFailure PROVE PassType'
  BY <1>6 DEF RecordFailure, Proceed, PassType
<1>7. ASSUME NEW e \in todo, Skip(e) PROVE PassType'
  BY <1>7 DEF Skip, Take, PassType
<1>8. ASSUME NEW e \in todo, Resolve(e) PROVE PassType'
  <2>1. e \in Entry /\ e # NoEntry
    BY <1>8 DEF PassType, Entry, NoEntry, Ids
  <2> QED
    BY <1>8, <2>1 DEF Resolve, Take, PassType
<1>9. ASSUME NEW e \in todo, MissingMedia(e) PROVE PassType'
  <2>1. e \in Entry /\ e # NoEntry
    BY <1>9 DEF PassType, Entry, NoEntry, Ids
  <2> QED
    BY <1>9, <2>1 DEF MissingMedia, Take, Failed, PassType
<1>10. ASSUME SendFails PROVE PassType'
  BY <1>10 DEF SendFails, Failed, PassType
<1>11. ASSUME Crash PROVE PassType'
  BY <1>11 DEF Crash, PassType
<1>12. ASSUME Tick PROVE PassType'
  BY <1>12 DEF Tick, worker, PassType
<1>13. ASSUME RestartWeb PROVE PassType'
  BY <1>13 DEF RestartWeb, worker, PassType
<1>14. ASSUME NEW c \in Clients, Request(c) PROVE PassType'
  BY <1>14, RequestFrame DEF worker, PassType
<1>15. ASSUME UNCHANGED vars PROVE PassType'
  BY <1>15 DEF vars, requests, worker, history, PassType, Entry, NoEntry, Row, NoRow
<1> QED
  BY <1>1, <1>2, <1>3, <1>4, <1>5, <1>6, <1>7, <1>8, <1>9, <1>10, <1>11, <1>12, <1>13, <1>14,
     <1>15 DEF Next, Work

LEMMA BoundsNext ==
  ASSUME RequestType, PassType, BoundsType, [Next]_vars
  PROVE  BoundsType'
<1>1. ASSUME Fetch PROVE BoundsType'
  BY <1>1 DEF Fetch, requests, history, BoundsType
<1>2. ASSUME EndPass PROVE BoundsType'
  BY <1>2 DEF EndPass, requests, history, BoundsType
<1>3. ASSUME Send PROVE BoundsType'
  <2>1. current.post \in Posts
    BY <1>3 DEF Send, PassType, Entry, NoEntry
  <2>2. MediaOf[current.post] \subseteq Media
    BY <2>1, PostsAssumption
  <2> QED
    BY <1>3, <2>1, <2>2 DEF Send, Publish, requests, BoundsType
<1>4. ASSUME Count PROVE BoundsType'
  BY <1>4 DEF Count, requests, history, BoundsType
<1>5. ASSUME ReadRow PROVE BoundsType'
  BY <1>5 DEF ReadRow, requests, history, BoundsType
<1>6. ASSUME RecordFailure PROVE BoundsType'
  <2>1. loaded.post \in Posts
    BY <1>6 DEF RecordFailure, PassType, Row, NoRow
  <2> QED
    BY <1>6, <2>1 DEF RecordFailure, requests, BoundsType
<1>7. ASSUME NEW e \in todo, Skip(e) PROVE BoundsType'
  BY <1>7 DEF Skip, requests, history, BoundsType
<1>8. ASSUME NEW e \in todo, Resolve(e) PROVE BoundsType'
  BY <1>8 DEF Resolve, requests, history, BoundsType
<1>9. ASSUME NEW e \in todo, MissingMedia(e) PROVE BoundsType'
  BY <1>9 DEF MissingMedia, requests, history, BoundsType
<1>10. ASSUME SendFails PROVE BoundsType'
  BY <1>10, BoundsAssumption DEF SendFails, Failed, requests, history, BoundsType
<1>11. ASSUME Crash PROVE BoundsType'
  BY <1>11, BoundsAssumption DEF Crash, requests, history, BoundsType
<1>12. ASSUME Tick PROVE BoundsType'
  BY <1>12, BoundsAssumption DEF Tick, requests, worker, history, BoundsType
<1>13. ASSUME RestartWeb PROVE BoundsType'
  BY <1>13, BoundsAssumption DEF RestartWeb, worker, history, BoundsType
<1>14. ASSUME NEW c \in Clients, NEW p \in Posts, Compose(c, p) PROVE BoundsType'
  BY <1>14, BoundsAssumption DEF Compose, Wait, worker, BoundsType
<1>15. ASSUME NEW c \in Clients, Schedule(c) PROVE BoundsType'
  <2>1. req[c].post \in Posts
    BY <1>15, RequestParts DEF Schedule
  <2> QED
    BY <1>15, <2>1 DEF Schedule, worker, Ids, BoundsType
<1>16. ASSUME NEW c \in Clients, PostNow(c) PROVE BoundsType'
  <2>1. req[c].post \in Posts
    BY <1>16, RequestParts DEF PostNow
  <2>2. MediaOf[req[c].post] \subseteq Media
    BY <2>1, PostsAssumption
  <2> QED
    BY <1>16, <2>1, <2>2 DEF PostNow, Publish, worker, BoundsType
<1>17. ASSUME NEW c \in Clients, Remember(c) PROVE BoundsType'
  <2>1. req[c].post \in Posts
    BY <1>17, RequestParts DEF Remember
  <2> QED
    BY <1>17, <2>1, BoundsAssumption DEF Remember, worker, history, BoundsType
<1>18. ASSUME NEW c \in Clients, NEW call \in {"put", "delete"}, NEW i \in Ids, Load(c, call, i)
       PROVE  BoundsType'
  BY <1>18, BoundsAssumption DEF Load, Wait, worker, history, BoundsType
<1>19. ASSUME NEW c \in Clients, NEW t \in Times, Reschedule(c, t) PROVE BoundsType'
  BY <1>19, BoundsAssumption DEF Reschedule, Answer, Updated, worker, history, BoundsType
<1>20. ASSUME NEW c \in Clients, Cancel(c) PROVE BoundsType'
  <2>1. req[c].row.post \in Posts
    BY <1>20, RequestParts DEF Cancel, Row
  <2> QED
    BY <1>20, <2>1 DEF Cancel, worker, BoundsType
<1>21. ASSUME NEW c \in Clients, NEW m \in Media, ReadAttached(c, m) PROVE BoundsType'
  BY <1>21, BoundsAssumption DEF ReadAttached, Wait, worker, history, BoundsType
<1>22. ASSUME NEW c \in Clients, ReadQueue(c) PROVE BoundsType'
  BY <1>22, BoundsAssumption DEF ReadQueue, Wait, Answer, worker, history, BoundsType
<1>23. ASSUME NEW c \in Clients, DeleteMedia(c) PROVE BoundsType'
  BY <1>23, BoundsAssumption DEF DeleteMedia, Answer, worker, history, BoundsType
<1>24. ASSUME NEW c \in Clients, Drop(c) PROVE BoundsType'
  BY <1>24, BoundsAssumption DEF Drop, Answer, worker, history, BoundsType
<1>25. ASSUME UNCHANGED vars PROVE BoundsType'
  BY <1>25 DEF vars, requests, worker, history, BoundsType
<1> QED
  BY <1>1, <1>2, <1>3, <1>4, <1>5, <1>6, <1>7, <1>8, <1>9, <1>10, <1>11, <1>12, <1>13, <1>14,
     <1>15, <1>16, <1>17, <1>18, <1>19, <1>20, <1>21, <1>22, <1>23, <1>24, <1>25 DEF Next,
     Work, Request

-----------------------------------------------------------------------------
(* The rows of a post, and what the pass has yet to publish. *)

LEMMA RowsStay ==
  ASSUME UNCHANGED queue
  PROVE  \A p : RowsOf(p)' = RowsOf(p)
BY DEF RowsOf, Used

LEMMA RowsDrop ==
  ASSUME QueueType, NEW k, queue' = [queue EXCEPT ![k] = NoRow]
  PROVE  \A p : RowsOf(p)' = RowsOf(p) \ {k}
BY DEF QueueType, RowsOf, Used

LEMMA RowsUpdated ==
  ASSUME QueueType, NEW k \in Ids, NEW u, queue[k] # NoRow, u # NoRow, u.post = queue[k].post,
         queue' = [queue EXCEPT ![k] = u]
  PROVE  \A p : RowsOf(p)' = RowsOf(p)
BY DEF QueueType, RowsOf, Used

LEMMA RowsAdd ==
  ASSUME QueueType, RequestType, NEW c \in Clients, Schedule(c)
  PROVE  \E i \in Ids : /\ i \notin Used /\ cache' = [cache EXCEPT ![req[c].post] = i]
                        /\ queue' = [queue EXCEPT ![i] = [post |-> req[c].post, at |-> At[req[c].post],
                                                          next |-> At[req[c].post], tries |-> 0]]
                        /\ \A p : RowsOf(p)' = IF p = req[c].post THEN RowsOf(p) \cup {i} ELSE RowsOf(p)
<1> DEFINE r == [post |-> req[c].post, at |-> At[req[c].post], next |-> At[req[c].post], tries |-> 0]
<1>1. PICK i \in Ids : IsNewId(i) /\ queue' = [queue EXCEPT ![i] = r] /\ cache' = [cache EXCEPT ![req[c].post] = i]
  BY DEF Schedule
<1>2. i \notin Used
  BY <1>1, BoundsAssumption DEF IsNewId, Ids
<1>3. r # NoRow /\ r.post = req[c].post
  BY DEF NoRow
<1>4. queue \in [Ids -> Row \cup {NoRow}]
  BY DEF QueueType
<1>5. queue' = [queue EXCEPT ![i] = r]
  BY <1>1
<1> HIDE DEF r
<1>6. ASSUME NEW p PROVE RowsOf(p)' = IF p = req[c].post THEN RowsOf(p) \cup {i} ELSE RowsOf(p)
  BY <1>2, <1>3, <1>4, <1>5 DEF RowsOf, Used
<1> QED
  BY <1>1, <1>2, <1>5, <1>6 DEF r

\* What most steps do not undo.
Calm ==
  /\ Open' \subseteq Open /\ \A p : RowsOf(p)' = RowsOf(p) /\ Waiting(p)' \subseteq Waiting(p)
  /\ UNCHANGED <<asked, posted, queued, hurried, cancelled>>

LEMMA RowsRecorded ==
  ASSUME QueueType, PassType, RecordFailure
  PROVE  \A p : RowsOf(p)' = RowsOf(p)
<1>1. loaded \in Row /\ now \in Times /\ current.id \in Ids
  BY DEF RecordFailure, PassType, QueueType, Entry, NoEntry
<1>2. CASE queue[current.id] = NoRow
  BY <1>2, RowsStay DEF RecordFailure
<1>3. CASE queue[current.id] # NoRow
  <2> DEFINE u == Updated(queue[current.id], loaded, AfterFailure(loaded))
  <2>1. AfterFailure(loaded) \in Row /\ AfterFailure(loaded).post = loaded.post
    BY <1>1, AfterFailureParts
  <2>2. queue[current.id] \in Row
    BY <1>1, <1>3 DEF QueueType
  <2>3. u # NoRow /\ u.post = queue[current.id].post
    BY <1>1, <2>1, <2>2, UpdatedParts
  <2>4. queue' = [queue EXCEPT ![current.id] = u]
    BY <1>3 DEF RecordFailure
  <2> HIDE DEF u
  <2> QED
    BY <1>1, <1>3, <2>3, <2>4, RowsUpdated
<1> QED
  BY <1>2, <1>3

LEMMA RowsMoved ==
  ASSUME QueueType, RequestType, NEW c \in Clients, NEW t \in Times, Reschedule(c, t)
  PROVE  \A p : RowsOf(p)' = RowsOf(p)
<1> DEFINE k == req[c].id
           new == Moved(req[c].row, t)
           u == Updated(queue[k], req[c].row, new)
<1>1. k \in Ids /\ req[c].row \in Row
  BY RequestParts DEF Reschedule
<1>2. new \in Row /\ new.post = req[c].row.post
  BY <1>1, MovedRow
<1>3. queue[k] = NoRow => UNCHANGED queue
  BY DEF Reschedule
<1>4. queue[k] # NoRow => queue' = [queue EXCEPT ![k] = u]
  BY DEF Reschedule
<1> HIDE DEF k, new
<1>5. CASE queue[k] = NoRow
  BY <1>3, <1>5, RowsStay
<1>6. CASE queue[k] # NoRow
  <2>1. queue[k] \in Row
    BY <1>1, <1>6 DEF QueueType
  <2>2. u # NoRow /\ u.post = queue[k].post
    BY <1>1, <1>2, <2>1, UpdatedParts
  <2> HIDE DEF u
  <2> QED
    BY <1>1, <1>4, <1>6, <2>2, RowsUpdated
<1> QED
  BY <1>5, <1>6

Stays ==
  \/ EndPass
  \/ Count
  \/ ReadRow
  \/ RecordFailure
  \/ \E e \in todo : Skip(e)
  \/ \E e \in todo : Resolve(e)
  \/ \E e \in todo : MissingMedia(e)
  \/ SendFails
  \/ Crash
  \/ Tick
  \/ RestartWeb
  \/ \E c \in Clients : Remember(c)
  \/ \E c \in Clients, call \in {"put", "delete"}, i \in Ids : Load(c, call, i)
  \/ \E c \in Clients, t \in Times : Reschedule(c, t)
  \/ \E c \in Clients, m \in Media : ReadAttached(c, m)
  \/ \E c \in Clients : ReadQueue(c)
  \/ \E c \in Clients : DeleteMedia(c)
  \/ \E c \in Clients : Drop(c)

LEMMA CalmNext ==
  ASSUME TypeInv, PassInv, Stays
  PROVE  Calm
<1> USE DEF TypeInv
<1>1. ASSUME EndPass PROVE Calm
  BY <1>1, RowsStay DEF EndPass, requests, history, Calm, Open, Waiting
<1>2. ASSUME Count PROVE Calm
  BY <1>2, RowsStay DEF Count, Proceed, requests, history, Calm, Open, Waiting
<1>3. ASSUME ReadRow PROVE Calm
  BY <1>3, RowsStay DEF ReadRow, Proceed, requests, history, Calm, Open, Waiting
<1>4. ASSUME RecordFailure PROVE Calm
  BY <1>4, RowsRecorded DEF RecordFailure, Proceed, requests, Calm, Open, Waiting
<1>5. ASSUME NEW e \in todo, Skip(e) PROVE Calm
  BY <1>5, RowsStay DEF Skip, Take, requests, history, Calm, Open, Waiting
<1>6. ASSUME NEW e \in todo, Resolve(e) PROVE Calm
  BY <1>6, RowsStay DEF Resolve, Take, requests, history, Calm, Open, Waiting
<1>7. ASSUME NEW e \in todo, MissingMedia(e) PROVE Calm
  BY <1>7, RowsStay DEF MissingMedia, Take, Failed, requests, history, Calm, Open, Waiting
<1>8. ASSUME SendFails PROVE Calm
  BY <1>8, RowsStay DEF SendFails, Failed, requests, history, Calm, Open, Waiting
<1>9. ASSUME Crash PROVE Calm
  BY <1>9, RowsStay DEF Crash, requests, history, Calm, Open, Waiting
<1>10. ASSUME Tick PROVE Calm
  BY <1>10, RowsStay DEF Tick, requests, worker, history, Calm, Open, Waiting
<1>11. ASSUME RestartWeb PROVE Calm
  BY <1>11, RowsStay DEF RestartWeb, worker, history, Idle, Calm, Open, Waiting
<1>12. ASSUME NEW c \in Clients, Remember(c) PROVE Calm
  <2>1. \A d \in Clients : req'[d] = req[d] \/ req'[d].step \notin {"schedule", "post"}
    BY <1>12 DEF Remember, Answer, Idle, RequestType
  <2> QED
    BY <1>12, <2>1, RowsStay DEF Remember, worker, history, Calm, Open, Waiting
<1>13. ASSUME NEW c \in Clients, NEW call \in {"put", "delete"}, NEW i \in Ids, Load(c, call, i)
       PROVE  Calm
  <2>1. \A d \in Clients : req'[d] = req[d] \/ req'[d].step \notin {"schedule", "post"}
    BY <1>13 DEF Load, Wait, Idle, RequestType
  <2> QED
    BY <1>13, <2>1, RowsStay DEF Load, worker, history, Calm, Open, Waiting
<1>14. ASSUME NEW c \in Clients, NEW t \in Times, Reschedule(c, t) PROVE Calm
  <2>1. \A d \in Clients : req'[d] = req[d] \/ req'[d].step \notin {"schedule", "post"}
    BY <1>14 DEF Reschedule, Answer, Idle, RequestType
  <2> QED
    BY <1>14, <2>1, RowsMoved DEF Reschedule, worker, history, Calm, Open, Waiting
<1>15. ASSUME NEW c \in Clients, NEW m \in Media, ReadAttached(c, m) PROVE Calm
  <2>1. \A d \in Clients : req'[d] = req[d] \/ req'[d].step \notin {"schedule", "post"}
    BY <1>15 DEF ReadAttached, Wait, Idle, RequestType
  <2> QED
    BY <1>15, <2>1, RowsStay DEF ReadAttached, worker, history, Calm, Open, Waiting
<1>16. ASSUME NEW c \in Clients, ReadQueue(c) PROVE Calm
  <2>1. \A d \in Clients : req'[d] = req[d] \/ req'[d].step \notin {"schedule", "post"}
    BY <1>16 DEF ReadQueue, Wait, Answer, Idle, RequestType
  <2> QED
    BY <1>16, <2>1, RowsStay DEF ReadQueue, worker, history, Calm, Open, Waiting
<1>17. ASSUME NEW c \in Clients, DeleteMedia(c) PROVE Calm
  <2>1. \A d \in Clients : req'[d] = req[d] \/ req'[d].step \notin {"schedule", "post"}
    BY <1>17 DEF DeleteMedia, Answer, Idle, RequestType
  <2> QED
    BY <1>17, <2>1, RowsStay DEF DeleteMedia, worker, history, Calm, Open, Waiting
<1>18. ASSUME NEW c \in Clients, Drop(c) PROVE Calm
  <2>1. \A d \in Clients : req'[d] = req[d] \/ req'[d].step \notin {"schedule", "post"}
    BY <1>18 DEF Drop, Answer, Idle, RequestType
  <2> QED
    BY <1>18, <2>1, RowsStay DEF Drop, worker, history, Calm, Open, Waiting
<1> QED
  BY <1>1, <1>2, <1>3, <1>4, <1>5, <1>6, <1>7, <1>8, <1>9, <1>10, <1>11, <1>12, <1>13, <1>14,
     <1>15, <1>16, <1>17, <1>18 DEF Stays

LEMMA CalmStutter ==
  ASSUME UNCHANGED vars
  PROVE  Calm
BY RowsStay DEF vars, requests, worker, history, Calm, Open, Waiting

LEMMA PassNext ==
  ASSUME PassInv, [Next]_vars
  PROVE  PassInv'
<1>1. ASSUME Fetch PROVE PassInv'
  <2>1. Open' = Batch /\ pc' = "pass"
    BY <1>1 DEF Fetch, Open
  <2>2. \A d, e \in Due : d.id = e.id => d = e
    BY DEF Due
  <2> QED
    BY <2>1, <2>2 DEF PassInv, Batch
<1>2. ASSUME EndPass PROVE PassInv'
  BY <1>2 DEF EndPass, PassInv, Open
<1>3. ASSUME Send PROVE PassInv'
  BY <1>3 DEF Send, PassInv, Open
<1>4. ASSUME Count PROVE PassInv'
  BY <1>4 DEF Count, Proceed, PassInv, Open
<1>5. ASSUME ReadRow PROVE PassInv'
  BY <1>5 DEF ReadRow, Proceed, PassInv, Open
<1>6. ASSUME RecordFailure PROVE PassInv'
  BY <1>6 DEF RecordFailure, Proceed, PassInv, Open
<1>7. ASSUME NEW e \in todo, Skip(e) PROVE PassInv'
  BY <1>7 DEF Skip, Take, PassInv, Open
<1>8. ASSUME NEW e \in todo, Resolve(e) PROVE PassInv'
  BY <1>8 DEF Resolve, Take, PassInv, Open
<1>9. ASSUME NEW e \in todo, MissingMedia(e) PROVE PassInv'
  BY <1>9 DEF MissingMedia, Take, Failed, PassInv, Open
<1>10. ASSUME SendFails PROVE PassInv'
  BY <1>10 DEF SendFails, Failed, PassInv, Open
<1>11. ASSUME Crash PROVE PassInv'
  BY <1>11 DEF Crash, PassInv, Open
<1>12. ASSUME Tick PROVE PassInv'
  BY <1>12 DEF Tick, worker, PassInv, Open
<1>13. ASSUME RestartWeb PROVE PassInv'
  BY <1>13 DEF RestartWeb, worker, PassInv, Open
<1>14. ASSUME NEW c \in Clients, Request(c) PROVE PassInv'
  BY <1>14, RequestFrame DEF worker, PassInv, Open
<1>15. ASSUME UNCHANGED vars PROVE PassInv'
  BY <1>15 DEF vars, requests, worker, history, PassInv, Open
<1> QED
  BY <1>1, <1>2, <1>3, <1>4, <1>5, <1>6, <1>7, <1>8, <1>9, <1>10, <1>11, <1>12, <1>13, <1>14,
     <1>15 DEF Next, Work

-----------------------------------------------------------------------------
(* What is kept. *)

LEMMA Steps ==
  ASSUME TypeInv, PassInv, [Next]_vars
  PROVE  \/ Calm \/ Fetch \/ Send
         \/ \E c \in Clients : Schedule(c) \/ PostNow(c) \/ Cancel(c) \/ \E p \in Posts : Compose(c, p)
<1>1. Stays => Calm
  BY CalmNext
<1>2. UNCHANGED vars => Calm
  BY CalmStutter
<1>3. \/ Stays \/ UNCHANGED vars \/ Fetch \/ Send
      \/ \E c \in Clients : Schedule(c) \/ PostNow(c) \/ Cancel(c) \/ \E p \in Posts : Compose(c, p)
  BY DEF Next, Work, Request, Stays
<1> QED
  BY <1>1, <1>2, <1>3

\* An entry of the pass that has not been published.
LEMMA OpenEntry ==
  ASSUME TypeInv, NEW e \in Open
  PROVE  e \in Entry /\ e.id \in Ids /\ e.post \in Posts
BY DEF TypeInv, PassType, Open, Entry, NoEntry

\* What the pass publishes, and what it has then left.
LEMMA Sending ==
  ASSUME TypeInv, PassInv, Send
  PROVE  /\ current \in Open /\ current.id \in Ids /\ current.post \in Posts
         /\ Open' = Open \ {current} /\ \A e \in Open' : e.id # current.id
         /\ \A p : RowsOf(p)' = RowsOf(p) \ {current.id}
         /\ posted' = [posted EXCEPT ![current.post] = @ + 1] /\ posted \in [Posts -> Nat]
         /\ UNCHANGED <<requests, now, queued, hurried, cancelled, charged>>
<1>1. current \in Open /\ pc = "send"
  BY DEF Send, Open
<1>2. Open' = todo /\ Open = todo \cup {current} /\ current \notin todo
  BY <1>1 DEF Send, Open, PassInv
<1>3. \A p : RowsOf(p)' = RowsOf(p) \ {current.id}
  BY RowsDrop DEF Send, TypeInv
<1> QED
  BY <1>1, <1>2, <1>3, OpenEntry DEF Send, Publish, PassInv, TypeInv, BoundsType

LEMMA Fetching ==
  ASSUME Fetch
  PROVE  /\ \A e \in Open' : e.id \in RowsOf(e.post)
         /\ UNCHANGED <<posted, queued, hurried, cancelled, charged, requests, now>>
         /\ \A p : RowsOf(p)' = RowsOf(p)
<1>1. Open' \subseteq Due
  BY DEF Fetch, Open, Batch
<1>2. \A e \in Due : e.id \in RowsOf(e.post)
  BY DEF Due, RowsOf
<1> QED
  BY <1>1, <1>2, RowsStay DEF Fetch, history

LEMMA KeptNext ==
  ASSUME TypeInv, PassInv, KeptInv, [Next]_vars
  PROVE  KeptInv'
<1> SUFFICES ASSUME cancelled' = {}
             PROVE  /\ \A e \in Open' : e.id \in RowsOf(e.post)'
                    /\ \A p \in queued' : posted'[p] > 0 \/ RowsOf(p)' # {}
  BY DEF KeptInv
<1>1. CASE Calm
  BY <1>1 DEF Calm, KeptInv
<1>2. CASE Fetch
  BY <1>2, Fetching DEF KeptInv
<1>3. CASE Send
  <2>1. cancelled = {}
    BY <1>3, Sending
  <2>2. \A p \in queued : posted[p] > 0 \/ RowsOf(p) # {}
    BY <2>1 DEF KeptInv
  <2>3. ASSUME NEW p \in queued' PROVE posted'[p] > 0 \/ RowsOf(p)' # {}
    <3>1. p \in queued /\ p \in Posts
      BY <1>3, <2>3, Sending DEF TypeInv, BoundsType
    <3>2. CASE p = current.post
      BY <1>3, <3>1, <3>2, Sending
    <3>3. CASE p # current.post
      <4>1. current.id \in RowsOf(current.post)
        BY <1>3, <2>1, Sending DEF KeptInv
      <4>2. RowsOf(p)' = RowsOf(p)
        BY <1>3, <3>3, <4>1, Sending DEF RowsOf
      <4>3. posted'[p] = posted[p]
        BY <1>3, <3>1, <3>3, Sending
      <4> QED
        BY <2>2, <3>1, <4>2, <4>3
    <3> QED
      BY <3>2, <3>3
  <2>4. ASSUME NEW e \in Open' PROVE e.id \in RowsOf(e.post)'
    BY <1>3, <2>1, Sending DEF KeptInv
  <2> QED
    BY <2>3, <2>4
<1>4. ASSUME NEW c \in Clients, Schedule(c)
      PROVE  /\ \A e \in Open' : e.id \in RowsOf(e.post)'
             /\ \A p \in queued' : posted'[p] > 0 \/ RowsOf(p)' # {}
  <2>1. PICK i \in Ids : \A p : RowsOf(p)' = IF p = req[c].post THEN RowsOf(p) \cup {i} ELSE RowsOf(p)
    BY <1>4, RowsAdd DEF TypeInv
  <2>2. Open' = Open /\ posted' = posted /\ cancelled = {} /\ queued' = queued \cup {req[c].post}
    BY <1>4 DEF Schedule, worker, Open
  <2> QED
    BY <2>1, <2>2 DEF KeptInv
<1>5. ASSUME NEW c \in Clients, PostNow(c)
      PROVE  /\ \A e \in Open' : e.id \in RowsOf(e.post)'
             /\ \A p \in queued' : posted'[p] > 0 \/ RowsOf(p)' # {}
  <2>1. Open' = Open /\ cancelled = {} /\ queued' = queued /\ \A p : RowsOf(p)' = RowsOf(p)
    BY <1>5, RowsStay DEF PostNow, worker, Open
  <2>2. \A p \in Posts : posted[p] > 0 => posted'[p] > 0
    BY <1>5 DEF PostNow, Publish, TypeInv, BoundsType
  <2>3. queued \subseteq Posts
    BY DEF TypeInv, BoundsType
  <2> QED
    BY <2>1, <2>2, <2>3 DEF KeptInv
<1>6. ASSUME NEW c \in Clients, Cancel(c) PROVE FALSE
  BY <1>6 DEF Cancel
<1>7. ASSUME NEW c \in Clients, NEW p \in Posts, Compose(c, p)
      PROVE  /\ \A e \in Open' : e.id \in RowsOf(e.post)'
             /\ \A q \in queued' : posted'[q] > 0 \/ RowsOf(q)' # {}
  BY <1>7, RowsStay DEF Compose, worker, Open, KeptInv
<1> QED
  BY <1>1, <1>2, <1>3, <1>4, <1>5, <1>6, <1>7, Steps


-----------------------------------------------------------------------------
(* What is counted. *)

LEMMA Smaller ==
  ASSUME NEW S, IsFiniteSet(S), NEW T, T \subseteq S
  PROVE  Cardinality(S) \in Nat /\ Cardinality(T) \in Nat /\ Cardinality(T) <= Cardinality(S)
BY FS_Subset, FS_CardinalityType

LEMMA SmallerByOne ==
  ASSUME NEW S, IsFiniteSet(S), NEW x \in S, NEW T, T \subseteq S \ {x}
  PROVE  Cardinality(S) \in Nat /\ Cardinality(T) \in Nat /\ Cardinality(T) + 1 <= Cardinality(S)
<1>1. IsFiniteSet(S \ {x}) /\ Cardinality(S \ {x}) = Cardinality(S) - 1
  BY FS_RemoveElement
<1>2. Cardinality(T) \in Nat /\ Cardinality(T) <= Cardinality(S \ {x})
  BY <1>1, Smaller
<1>3. Cardinality(S) \in Nat
  BY FS_CardinalityType
<1> QED
  BY <1>1, <1>2, <1>3

LEMMA LargerByOne ==
  ASSUME NEW S, IsFiniteSet(S), NEW x, NEW T, T \subseteq S \cup {x}
  PROVE  Cardinality(S) \in Nat /\ Cardinality(T) \in Nat /\ Cardinality(T) <= Cardinality(S) + 1
<1>1. IsFiniteSet(S \cup {x}) /\ Cardinality(S \cup {x}) \in Nat /\ Cardinality(S) \in Nat
      /\ Cardinality(S \cup {x}) <= Cardinality(S) + 1
  BY FS_AddElement, FS_CardinalityType
<1>2. Cardinality(T) \in Nat /\ Cardinality(T) <= Cardinality(S \cup {x})
  BY <1>1, Smaller
<1> QED
  BY <1>1, <1>2

LEMMA CountsFinite ==
  ASSUME TypeInv, NEW p
  PROVE  IsFiniteSet(Claims(p)) /\ IsFiniteSet(Waiting(p))
<1>1. IsFiniteSet(Ids)
  BY FS_Interval, BoundsAssumption DEF Ids
<1>2. Claims(p) \subseteq Ids
  BY OpenEntry DEF Claims, RowsOf, Used
<1>3. IsFiniteSet(Waiting(p))
  BY BoundsAssumption, FS_Subset DEF Waiting
<1> QED
  BY <1>1, <1>2, <1>3, FS_Subset

\* Nothing is paid for twice when no claim is new.
LEMMA CountKept ==
  ASSUME TypeInv, CountInv, NEW p \in Posts, Claims(p)' \subseteq Claims(p), Waiting(p)' \subseteq Waiting(p),
         posted'[p] = posted[p], asked'[p] = asked[p]
  PROVE  posted'[p] + Cardinality(Claims(p)') + Cardinality(Waiting(p)') <= asked'[p]
<1>1. posted[p] \in Nat /\ asked[p] \in Nat
      /\ posted[p] + Cardinality(Claims(p)) + Cardinality(Waiting(p)) <= asked[p]
  BY BoundsAssumption DEF TypeInv, BoundsType, CountInv
<1>2. /\ Cardinality(Claims(p)) \in Nat /\ Cardinality(Claims(p)') \in Nat
      /\ Cardinality(Claims(p)') <= Cardinality(Claims(p))
  BY CountsFinite, Smaller
<1>3. /\ Cardinality(Waiting(p)) \in Nat /\ Cardinality(Waiting(p)') \in Nat
      /\ Cardinality(Waiting(p)') <= Cardinality(Waiting(p))
  BY CountsFinite, Smaller
<1> QED
  BY <1>1, <1>2, <1>3

LEMMA CountNext ==
  ASSUME TypeInv, PassInv, CountInv, [Next]_vars
  PROVE  CountInv'
<1> DEFINE Paid(p) == posted'[p] + Cardinality(Claims(p)') + Cardinality(Waiting(p)') <= asked'[p]
<1> SUFFICES ASSUME NEW p \in Posts PROVE Paid(p)
  BY DEF CountInv
<1>0. /\ posted[p] \in Nat /\ asked[p] \in Nat /\ IsFiniteSet(Claims(p)) /\ IsFiniteSet(Waiting(p))
      /\ posted[p] + Cardinality(Claims(p)) + Cardinality(Waiting(p)) <= asked[p]
      /\ posted \in [Posts -> Nat] /\ asked \in [Posts -> Nat]
  BY CountsFinite, BoundsAssumption DEF TypeInv, BoundsType, CountInv
<1>1. CASE Calm
  <2>1. Claims(p)' \subseteq Claims(p) /\ Waiting(p)' \subseteq Waiting(p)
    BY <1>1 DEF Calm, Claims
  <2> QED
    BY <1>1, <2>1, CountKept DEF Calm
<1>2. CASE Fetch
  <2>1. Claims(p)' \subseteq Claims(p) /\ Waiting(p)' \subseteq Waiting(p)
    BY <1>2, Fetching DEF Claims, Waiting, requests
  <2> QED
    BY <1>2, <2>1, CountKept, Fetching DEF requests
<1>3. CASE Send
  <2>1. Waiting(p)' \subseteq Waiting(p) /\ asked'[p] = asked[p]
    BY <1>3, Sending DEF Waiting, requests
  <2>2. CASE p = current.post
    <3>1. current.id \in Claims(p) /\ Claims(p)' \subseteq Claims(p) \ {current.id}
      BY <1>3, <2>2, Sending DEF Claims
    <3>2. posted'[p] = posted[p] + 1
      BY <1>3, <2>2, Sending
    <3>3. Cardinality(Claims(p)) \in Nat /\ Cardinality(Claims(p)') \in Nat
          /\ Cardinality(Claims(p)') + 1 <= Cardinality(Claims(p))
      BY <1>0, <3>1, SmallerByOne
    <3>4. Cardinality(Waiting(p)) \in Nat /\ Cardinality(Waiting(p)') \in Nat
          /\ Cardinality(Waiting(p)') <= Cardinality(Waiting(p))
      BY <1>0, <2>1, Smaller
    <3> QED
      BY <1>0, <2>1, <3>2, <3>3, <3>4
  <2>3. CASE p # current.post
    <3>1. Claims(p)' \subseteq Claims(p) /\ posted'[p] = posted[p]
      BY <1>3, <2>3, Sending DEF Claims
    <3> QED
      BY <2>1, <3>1, CountKept
  <2> QED
    BY <2>2, <2>3
<1>4. ASSUME NEW c \in Clients, Schedule(c) PROVE Paid(p)
  <2>1. PICK i \in Ids : \A q : RowsOf(q)' = IF q = req[c].post THEN RowsOf(q) \cup {i} ELSE RowsOf(q)
    BY <1>4, RowsAdd DEF TypeInv
  <2>2. Open' = Open /\ posted' = posted /\ asked' = asked /\ req' = [req EXCEPT ![c] = Idle]
        /\ req \in [Clients -> Requests] /\ req[c].step = "schedule"
    BY <1>4 DEF Schedule, Answer, worker, Open, TypeInv, RequestType
  <2>3. CASE p = req[c].post
    <3>1. c \in Waiting(p) /\ Waiting(p)' \subseteq Waiting(p) \ {c}
      BY <2>2, <2>3 DEF Waiting, Idle
    <3>2. Claims(p)' \subseteq Claims(p) \cup {i}
      BY <2>1, <2>2 DEF Claims
    <3>3. Cardinality(Claims(p)) \in Nat /\ Cardinality(Claims(p)') \in Nat
          /\ Cardinality(Claims(p)') <= Cardinality(Claims(p)) + 1
      BY <1>0, <3>2, LargerByOne
    <3>4. Cardinality(Waiting(p)) \in Nat /\ Cardinality(Waiting(p)') \in Nat
          /\ Cardinality(Waiting(p)') + 1 <= Cardinality(Waiting(p))
      BY <1>0, <3>1, SmallerByOne
    <3> QED
      BY <1>0, <2>2, <3>3, <3>4
  <2>4. CASE p # req[c].post
    <3>1. Claims(p)' \subseteq Claims(p) /\ Waiting(p)' \subseteq Waiting(p)
      BY <2>1, <2>2, <2>4 DEF Claims, Waiting, Idle
    <3> QED
      BY <2>2, <3>1, CountKept
  <2> QED
    BY <2>3, <2>4
<1>5. ASSUME NEW c \in Clients, PostNow(c) PROVE Paid(p)
  <2>1. /\ Open' = Open /\ asked' = asked /\ \A q : RowsOf(q)' = RowsOf(q)
        /\ req' = [req EXCEPT ![c] = [step |-> "cache", post |-> req[c].post]]
        /\ req \in [Clients -> Requests] /\ req[c].step = "post"
        /\ posted' = [posted EXCEPT ![req[c].post] = @ + 1]
    BY <1>5, RowsStay DEF PostNow, Publish, Wait, worker, Open, TypeInv, RequestType
  <2>2. Claims(p)' = Claims(p)
    BY <2>1 DEF Claims
  <2>3. CASE p = req[c].post
    <3>1. c \in Waiting(p) /\ Waiting(p)' \subseteq Waiting(p) \ {c}
      BY <2>1, <2>3 DEF Waiting
    <3>2. Cardinality(Waiting(p)) \in Nat /\ Cardinality(Waiting(p)') \in Nat
          /\ Cardinality(Waiting(p)') + 1 <= Cardinality(Waiting(p))
      BY <1>0, <3>1, SmallerByOne
    <3>3. Cardinality(Claims(p)) \in Nat /\ posted'[p] = posted[p] + 1
      BY <1>0, <2>1, <2>3, FS_CardinalityType
    <3> QED
      BY <1>0, <2>1, <2>2, <3>2, <3>3
  <2>4. CASE p # req[c].post
    <3>1. Waiting(p)' \subseteq Waiting(p) /\ posted'[p] = posted[p]
      BY <1>0, <2>1, <2>4 DEF Waiting
    <3> QED
      BY <2>1, <2>2, <3>1, CountKept
  <2> QED
    BY <2>3, <2>4
<1>6. ASSUME NEW c \in Clients, Cancel(c) PROVE Paid(p)
  <2>1. \A q : RowsOf(q)' \subseteq RowsOf(q)
    BY <1>6, RowsDrop DEF Cancel, TypeInv
  <2>2. Open' = Open /\ posted' = posted /\ asked' = asked /\ req' = [req EXCEPT ![c] = Idle]
    BY <1>6 DEF Cancel, Answer, worker, Open
  <2>3. Claims(p)' \subseteq Claims(p) /\ Waiting(p)' \subseteq Waiting(p)
    BY <2>1, <2>2 DEF Claims, Waiting, Idle, TypeInv, RequestType
  <2> QED
    BY <2>2, <2>3, CountKept
<1>7. ASSUME NEW c \in Clients, NEW r \in Posts, Compose(c, r) PROVE Paid(p)
  <2>1. /\ Open' = Open /\ posted' = posted /\ \A q : RowsOf(q)' = RowsOf(q)
        /\ asked' = [asked EXCEPT ![r] = @ + 1]
        /\ \A d \in Clients : req'[d] = req[d] \/ (d = c /\ req'[d].post = r)
    BY <1>7, RowsStay DEF Compose, Wait, worker, Open, TypeInv, RequestType
  <2>2. Claims(p)' = Claims(p)
    BY <2>1 DEF Claims
  <2>3. CASE p = r
    <3>1. Waiting(p)' \subseteq Waiting(p) \cup {c}
      BY <2>1 DEF Waiting
    <3>2. Cardinality(Waiting(p)) \in Nat /\ Cardinality(Waiting(p)') \in Nat
          /\ Cardinality(Waiting(p)') <= Cardinality(Waiting(p)) + 1
      BY <1>0, <3>1, LargerByOne
    <3>3. Cardinality(Claims(p)) \in Nat /\ asked'[p] = asked[p] + 1
      BY <1>0, <2>1, <2>3, FS_CardinalityType
    <3> QED
      BY <1>0, <2>1, <2>2, <3>2, <3>3
  <2>4. CASE p # r
    <3>1. Waiting(p)' \subseteq Waiting(p) /\ asked'[p] = asked[p]
      BY <1>0, <2>1, <2>4 DEF Waiting
    <3> QED
      BY <2>1, <2>2, <3>1, CountKept
  <2> QED
    BY <2>3, <2>4
<1> QED
  BY <1>1, <1>2, <1>3, <1>4, <1>5, <1>6, <1>7, Steps


-----------------------------------------------------------------------------
(* What holds as long as nothing but POST /statuses is called, and nothing fails. *)

\* The steps that leave it so.
LEMMA QuietSteps ==
  ASSUME TypeInv, QuietInv, [Next]_vars, Quiet'
  PROVE  /\ Quiet
         /\ \/ Fetch \/ EndPass \/ Send \/ Count \/ ReadRow \/ RecordFailure
            \/ \E e \in todo : Skip(e) \/ Resolve(e) \/ MissingMedia(e)
            \/ SendFails \/ Crash \/ Tick \/ UNCHANGED vars
            \/ \E c \in Clients : Schedule(c) \/ PostNow(c) \/ Remember(c) \/ \E p \in Posts : Compose(c, p)
<1>1. drops \in Nat /\ calls \in Nat
  BY BoundsAssumption DEF TypeInv, BoundsType
<1>2. ASSUME RestartWeb PROVE FALSE
  BY <1>1, <1>2 DEF RestartWeb, Quiet
<1>3. ASSUME NEW c \in Clients, Drop(c) PROVE FALSE
  BY <1>1, <1>3 DEF Drop, Quiet
<1>4. ASSUME NEW c \in Clients, NEW call \in {"put", "delete"}, NEW i \in Ids, Load(c, call, i)
      PROVE  FALSE
  BY <1>1, <1>4 DEF Load, Quiet
<1>5. ASSUME NEW c \in Clients, NEW m \in Media, ReadAttached(c, m) PROVE FALSE
  BY <1>1, <1>5 DEF ReadAttached, Quiet
<1>6. ASSUME NEW c \in Clients, (\E t \in Times : Reschedule(c, t)) \/ Cancel(c) \/ ReadQueue(c) \/ DeleteMedia(c)
      PROVE  FALSE
  <2>1. calls' = calls /\ drops' = drops
    BY <1>6 DEF Reschedule, Cancel, ReadQueue, DeleteMedia
  <2>2. req[c] = Idle \/ Composing(c)
    BY <2>1 DEF Quiet, QuietInv
  <2>3. req[c].step \in {"put", "delete", "read_queue", "delete_media"}
    BY <1>6 DEF Reschedule, Cancel, ReadQueue, DeleteMedia
  <2> QED
    BY <2>2, <2>3 DEF Idle, Composing
<1>7. \/ Work \/ SendFails \/ Crash \/ Tick \/ UNCHANGED vars
      \/ \E c \in Clients : Schedule(c) \/ PostNow(c) \/ Remember(c) \/ \E p \in Posts : Compose(c, p)
  BY <1>2, <1>3, <1>4, <1>5, <1>6 DEF Next, Request
<1>8. UNCHANGED <<drops, calls>>
  <2>1. ASSUME NEW c \in Clients, NEW p \in Posts, Compose(c, p) PROVE UNCHANGED <<drops, calls>>
    BY <2>1 DEF Compose
  <2>2. ASSUME NEW c \in Clients, Schedule(c) \/ PostNow(c) \/ Remember(c)
        PROVE  UNCHANGED <<drops, calls>>
    BY <2>2 DEF Schedule, PostNow, Remember
  <2>3. ASSUME Work PROVE UNCHANGED <<drops, calls>>
    BY <2>3, WorkFrame DEF requests
  <2>4. ASSUME SendFails \/ Crash \/ Tick \/ UNCHANGED vars PROVE UNCHANGED <<drops, calls>>
    BY <2>4 DEF SendFails, Crash, Tick, vars, requests
  <2> QED
    BY <1>7, <2>1, <2>2, <2>3, <2>4
<1> QED
  BY <1>7, <1>8 DEF Quiet, Work

LEMMA QuietNext ==
  ASSUME TypeInv, PassInv, QuietInv, [Next]_vars
  PROVE  QuietInv'
<1> DEFINE Idling == \A c \in Clients : req[c] = Idle \/ Composing(c)
           Same == pc = "record" => current.id \in RowsOf(loaded.post)
<1> SUFFICES ASSUME Quiet' PROVE cancelled' = {} /\ Idling' /\ Same'
  BY DEF QuietInv
<1>1. Quiet
  BY QuietSteps
<1>2. cancelled = {} /\ Idling /\ Same
  BY <1>1 DEF QuietInv
<1>3. cancelled' = {}
  BY <1>2, QuietSteps
  DEF Fetch, EndPass, Send, Count, ReadRow, RecordFailure, Skip, Resolve, MissingMedia, SendFails,
      Crash, Tick, vars, history, Schedule, PostNow, Remember, Compose
<1>4. ASSUME req' = req PROVE Idling'
  BY <1>2, <1>4 DEF Composing
<1>5. ASSUME pc' = pc, current' = current, loaded' = loaded, \A p : RowsOf(p) \subseteq RowsOf(p)'
      PROVE  Same'
  <2>1. RowsOf(loaded.post) \subseteq RowsOf(loaded.post)'
    BY <1>5
  <2> QED
    BY <1>2, <1>5, <2>1
<1>6. CASE Fetch \/ EndPass \/ Send \/ Count \/ RecordFailure
           \/ (\E e \in todo : Skip(e) \/ Resolve(e) \/ MissingMedia(e))
  <2>1. pc' # "record"
    BY <1>6 DEF Fetch, EndPass, Send, Count, Proceed, RecordFailure, Skip, Resolve, MissingMedia,
       Take, Failed
  <2>2. req' = req
    BY <1>6, WorkFrame DEF Work, requests
  <2> QED
    BY <1>3, <1>4, <2>1, <2>2
<1>7. CASE SendFails \/ Crash
  <2>1. pc' # "record" /\ req' = req
    BY <1>7 DEF SendFails, Crash, Failed, requests
  <2> QED
    BY <1>3, <1>4, <2>1
<1>8. CASE ReadRow
  <2>1. req' = req
    BY <1>8 DEF ReadRow, requests
  <2>2. pc' = "record" => /\ queue[current.id] # NoRow /\ current.id \in Ids
                          /\ queue' = queue /\ current' = current /\ loaded' = queue[current.id]
    BY <1>8 DEF ReadRow, Proceed, TypeInv, PassType, Entry, NoEntry
  <2>3. Same'
    BY <2>2 DEF RowsOf, Used
  <2> QED
    BY <1>3, <1>4, <2>1, <2>3
<1>9. CASE Tick \/ UNCHANGED vars
  <2>1. UNCHANGED <<queue, req, pc, current, loaded>>
    BY <1>9 DEF Tick, vars, requests, worker
  <2>2. \A p : RowsOf(p)' = RowsOf(p)
    BY <2>1, RowsStay
  <2> QED
    BY <1>3, <1>4, <1>5, <2>1, <2>2
<1>10. ASSUME NEW c \in Clients, Schedule(c) \/ PostNow(c) \/ Remember(c) \/ \E p \in Posts : Compose(c, p)
       PROVE  Idling' /\ Same'
  <2>1. UNCHANGED <<pc, current, loaded>>
    BY <1>10 DEF Schedule, PostNow, Remember, Compose, worker
  <2>2. \A p : RowsOf(p) \subseteq RowsOf(p)'
    <3>1. CASE Schedule(c)
      BY <3>1, RowsAdd DEF TypeInv
    <3>2. CASE queue' = queue
      BY <3>2, RowsStay
    <3> QED
      BY <1>10, <3>1, <3>2 DEF PostNow, Remember, Compose
  <2>3. \A d \in Clients : req'[d] = req[d] \/ req'[d] = Idle \/ req'[d].step \in {"schedule", "post", "cache"}
    BY <1>10 DEF Schedule, PostNow, Remember, Compose, Wait, Answer, TypeInv, RequestType
  <2>4. Idling'
    BY <1>2, <2>3 DEF Composing
  <2> QED
    BY <1>5, <2>1, <2>2, <2>4
<1> QED
  BY <1>3, <1>6, <1>7, <1>8, <1>9, <1>10, QuietSteps

LEMMA TimeNext ==
  ASSUME TypeInv, PassInv, QuietInv, TimeInv, [Next]_vars
  PROVE  TimeInv'
<1> DEFINE Goal == /\ \A i \in Used' : queue'[i].post \notin charged' => At[queue'[i].post] <= queue'[i].next
                   /\ \A e \in Open' : e.post \notin charged' => At[e.post] <= now'
                   /\ current' # NoEntry /\ current'.post \notin charged' => At[current'.post] <= now'
<1> SUFFICES ASSUME Quiet' PROVE Goal
  BY DEF TimeInv
<1>1. Quiet
  BY QuietSteps
<1>2. /\ \A i \in Used : queue[i].post \notin charged => At[queue[i].post] <= queue[i].next
      /\ \A e \in Open : e.post \notin charged => At[e.post] <= now
      /\ current # NoEntry /\ current.post \notin charged => At[current.post] <= now
  BY <1>1 DEF TimeInv
<1>3. CASE Fetch
  <2>1. Open' \subseteq Due /\ UNCHANGED <<queue, now, current, charged>>
    BY <1>3 DEF Fetch, Open, Batch, history
  <2>2. ASSUME NEW e \in Due, e.post \notin charged PROVE At[e.post] <= now
    <3>1. PICK i \in Used : queue[i].next <= now /\ e.post = queue[i].post
      BY DEF Due
    <3>2. At[queue[i].post] \in Nat /\ queue[i].next \in Nat /\ now \in Nat
      BY RowParts, PostsAssumption, BoundsAssumption DEF TypeInv, QueueType, Times, GaveUp
    <3> QED
      BY <1>2, <2>2, <3>1, <3>2
  <2> QED
    BY <1>2, <2>1, <2>2 DEF Used
<1>4. CASE EndPass \/ Count \/ ReadRow \/ SendFails \/ Crash
           \/ (\E e \in todo : Skip(e) \/ Resolve(e) \/ MissingMedia(e))
  <2>1. UNCHANGED <<queue, now, charged>>
    BY <1>4 DEF EndPass, Count, ReadRow, SendFails, Crash, Skip, Resolve, MissingMedia, history
  <2>2. Open' \subseteq Open
    BY <1>4 DEF EndPass, Count, ReadRow, SendFails, Crash, Skip, Resolve, MissingMedia, Take,
       Proceed, Failed, Open
  <2>3. current' \in Open \cup {current, NoEntry}
    BY <1>4 DEF EndPass, Count, ReadRow, SendFails, Crash, Skip, Resolve, MissingMedia, Take,
       Proceed, Failed, Open
  <2> QED
    BY <1>2, <2>1, <2>2, <2>3 DEF Used
<1>5. CASE Send
  <2>1. \A i \in Used' : i \in Used /\ queue'[i] = queue[i]
    BY <1>5 DEF Send, TypeInv, QueueType, Used
  <2>2. UNCHANGED <<now, current, charged>> /\ Open' \subseteq Open
    BY <1>5, Sending DEF Send
  <2> QED
    BY <1>2, <2>1, <2>2
<1>6. CASE RecordFailure
  <2>1. /\ loaded \in Row /\ now \in Times /\ current # NoEntry /\ current.id \in Ids /\ pc = "record"
        /\ queue \in [Ids -> Row \cup {NoRow}]
    BY <1>6 DEF RecordFailure, TypeInv, PassType, QueueType, Entry, NoEntry
  <2>2. queue[current.id] \in Row /\ queue[current.id].post = loaded.post /\ queue[current.id] # NoRow
    BY <1>1, <2>1 DEF QuietInv, RowsOf, Used
  <2> DEFINE u == Updated(queue[current.id], loaded, AfterFailure(loaded))
  <2>3. AfterFailure(loaded) \in Row /\ AfterFailure(loaded).post = loaded.post /\ now <= AfterFailure(loaded).next
    BY <2>1, AfterFailureParts
  <2>4. u # NoRow /\ u.post = loaded.post /\ u.next \in {queue[current.id].next, AfterFailure(loaded).next}
    BY <2>1, <2>2, <2>3, UpdatedParts
  <2>5. queue' = [queue EXCEPT ![current.id] = u] /\ now' = now /\ current' = NoEntry
        /\ charged' = IF loaded.post = current.post THEN charged ELSE charged \cup {loaded.post}
    BY <1>6, <2>2 DEF RecordFailure, Proceed
  <2>6. Open' \subseteq Open
    BY <1>6 DEF RecordFailure, Proceed, Open
  <2>7. AfterFailure(loaded).next \in Nat /\ now \in Nat /\ loaded.post \in Posts
    BY <2>1, <2>3, BoundsAssumption DEF Row, Times, GaveUp
  <2>8. At[loaded.post] \in Nat
    BY <2>7, PostsAssumption DEF Times
  <2> HIDE DEF u
  <2>9. Used' = Used
    BY <2>1, <2>2, <2>4, <2>5 DEF Used
  <2>10. ASSUME NEW i \in Used', queue'[i].post \notin charged'
         PROVE  At[queue'[i].post] <= queue'[i].next
    <3>1. CASE i = current.id
      <4>1. queue'[i] = u /\ loaded.post \notin charged /\ loaded.post = current.post
        BY <2>1, <2>4, <2>5, <2>10, <3>1
      <4>2. At[loaded.post] <= now /\ At[loaded.post] <= queue[current.id].next
        BY <1>2, <2>1, <2>2, <2>9, <3>1, <4>1
      <4> QED
        BY <2>3, <2>4, <2>7, <2>8, <4>1, <4>2
    <3>2. CASE i # current.id
      BY <1>2, <2>1, <2>5, <2>9, <2>10, <3>2 DEF Used
    <3> QED
      BY <3>1, <3>2
  <2> QED
    BY <1>2, <2>5, <2>6, <2>10
<1>7. CASE Tick
  <2>1. UNCHANGED <<queue, current, charged>> /\ Open' = Open /\ now' = now + 1
    BY <1>7 DEF Tick, worker, history, Open
  <2>2. now \in Nat /\ \A p \in Posts : At[p] \in Nat
    BY PostsAssumption, BoundsAssumption DEF TypeInv, QueueType, Times
  <2>3. current # NoEntry => current.post \in Posts
    BY DEF TypeInv, PassType, Entry, NoEntry
  <2>4. \A e \in Open : e.post \in Posts
    BY OpenEntry
  <2> QED
    BY <1>2, <2>1, <2>2, <2>3, <2>4 DEF Used
<1>8. CASE UNCHANGED vars
  BY <1>2, <1>8 DEF vars, worker, history, Open, Used
<1>9. ASSUME NEW c \in Clients, PostNow(c) \/ Remember(c) \/ \E p \in Posts : Compose(c, p)
      PROVE  Goal
  BY <1>2, <1>9 DEF PostNow, Remember, Compose, worker, history, Open, Used
<1>10. ASSUME NEW c \in Clients, Schedule(c) PROVE Goal
  <2> DEFINE r == [post |-> req[c].post, at |-> At[req[c].post], next |-> At[req[c].post], tries |-> 0]
  <2>1. PICK i \in Ids : queue' = [queue EXCEPT ![i] = r]
    BY <1>10, RowsAdd DEF TypeInv
  <2>2. r.post = req[c].post /\ r.next = At[req[c].post]
    OBVIOUS
  <2>3. UNCHANGED <<now, current, charged>> /\ Open' = Open /\ queue \in [Ids -> Row \cup {NoRow}]
    BY <1>10 DEF Schedule, worker, Open, TypeInv, QueueType
  <2> HIDE DEF r
  <2>4. req[c].post \in Posts
    BY <1>10, RequestParts DEF Schedule, TypeInv
  <2>5. At[req[c].post] \in Nat
    BY <2>4, PostsAssumption DEF Times
  <2>6. ASSUME NEW j \in Used', queue'[j].post \notin charged'
        PROVE  At[queue'[j].post] <= queue'[j].next
    <3>1. CASE j = i
      BY <2>1, <2>2, <2>3, <2>5, <3>1
    <3>2. CASE j # i
      BY <1>2, <2>1, <2>3, <2>6, <3>2 DEF Used
    <3> QED
      BY <3>1, <3>2
  <2> QED
    BY <1>2, <2>3, <2>6
<1> QED
  BY <1>3, <1>4, <1>5, <1>6, <1>7, <1>8, <1>9, <1>10, QuietSteps

\* A step that does not touch a post.
LEMMA OnceFrame ==
  ASSUME TypeInv, NEW p \in Posts, Once(p), Asking(p)' = Asking(p),
         \A c \in Asking(p) : req'[c].step = req[c].step,
         RowsOf(p)' = RowsOf(p), posted'[p] = posted[p], cache'[p] = cache[p], now' \in {now, now + 1}
  PROVE  Once(p)'
<1>1. At[p] \in Nat /\ now \in Nat
  BY PostsAssumption, BoundsAssumption DEF Times, TypeInv, QueueType
<1>2. At[p] <= now => At[p] <= now'
  BY <1>1
<1>3. (Unpublished(p)' <=> Unpublished(p)) /\ (Published(p)' <=> Published(p))
  BY DEF Unpublished, Published
<1> QED
  BY <1>2, <1>3 DEF Once

\* The steps of the worker that publish nothing, and the clock.
LEMMA OnceRest ==
  ASSUME TypeInv, NEW p \in Posts, Once(p),
         \/ Fetch \/ EndPass \/ Count \/ ReadRow \/ RecordFailure \/ SendFails \/ Crash \/ Tick
         \/ UNCHANGED vars \/ \E e \in todo : Skip(e) \/ Resolve(e) \/ MissingMedia(e)
  PROVE  Once(p)'
<1>1. UNCHANGED <<cache, req, posted>>
  BY DEF Fetch, EndPass, Count, ReadRow, RecordFailure, Skip, Resolve, MissingMedia, SendFails,
     Crash, Tick,
         vars, requests, history
<1>2. now' \in {now, now + 1}
  BY DEF Fetch, EndPass, Count, ReadRow, RecordFailure, Skip, Resolve, MissingMedia, SendFails,
     Crash, Tick, vars
<1>3. RowsOf(p)' = RowsOf(p)
  <2>1. CASE RecordFailure
    BY <2>1, RowsRecorded DEF TypeInv
  <2>2. CASE queue' = queue
    BY <2>2, RowsStay
  <2> QED
    BY <2>1, <2>2
    DEF Fetch, EndPass, Count, ReadRow, Skip, Resolve, MissingMedia, SendFails, Crash, Tick, vars
<1>4. Asking(p)' = Asking(p)
  BY <1>1 DEF Asking, Composing
<1> QED
  BY <1>1, <1>2, <1>3, <1>4, OnceFrame

LEMMA OnceSend ==
  ASSUME TypeInv, PassInv, KeptInv, TimeInv, QuietInv, Quiet, Send,
         NEW p \in Posts \ charged, Once(p)
  PROVE  Once(p)'
<1>1. current.id \in RowsOf(current.post)
  BY Sending DEF KeptInv, QuietInv
<1>2. UNCHANGED <<cache, req, now>> /\ Asking(p)' = Asking(p)
  BY Sending DEF requests, Asking, Composing
<1>3. CASE p = current.post
  <2>1. Asking(p) = {} /\ At[p] # Immediately /\ posted[p] = 0 /\ RowsOf(p) = {cache[p]}
    BY <1>1, <1>3 DEF Once, Published, Unpublished
  <2>2. RowsOf(p)' = {} /\ posted'[p] = 1
    BY <1>1, <1>3, <2>1, Sending
  <2>3. At[p] <= now
    BY <1>3 DEF TimeInv, Send, TypeInv, PassType
  <2> QED
    BY <1>2, <2>1, <2>2, <2>3 DEF Once, Published
<1>4. CASE p # current.post
  <2>1. RowsOf(p)' = RowsOf(p)
    BY <1>1, <1>4, Sending DEF RowsOf
  <2>2. posted'[p] = posted[p]
    BY <1>4, Sending
  <2> QED
    BY <1>2, <2>1, <2>2, OnceFrame
<1> QED
  BY <1>3, <1>4

LEMMA OnceCompose ==
  ASSUME TypeInv, NEW c \in Clients, NEW q \in Posts, Compose(c, q),
         NEW p \in Posts \ hurried', Once(p)
  PROVE  Once(p)'
<1>1. UNCHANGED <<queue, cache, posted, now>> /\ RowsOf(p)' = RowsOf(p)
  BY RowsStay DEF Compose
<1>2. req \in [Clients -> Requests] /\ req[c] = Idle /\ c \notin Asking(p)
  BY DEF Compose, TypeInv, RequestType, Asking, Composing, Idle
<1>3. CASE req' = req
  <2>1. Asking(p)' = Asking(p)
    BY <1>3 DEF Asking, Composing
  <2> QED
    BY <1>1, <1>3, <2>1, OnceFrame
<1>4. CASE ~Answered(q) /\ req' = [req EXCEPT ![c] =
             [step |-> IF At[q] = Immediately THEN "post" ELSE "schedule", post |-> q]]
  <2>1. \A d \in Clients : d # c => req'[d] = req[d]
    BY <1>2, <1>4
  <2>2. req'[c].post = q /\ req'[c].step \in {"post", "schedule"}
    BY <1>2, <1>4
  <2>3. CASE p # q
    <3>1. Asking(p)' = Asking(p)
      BY <1>2, <2>1, <2>2, <2>3 DEF Asking, Composing
    <3> QED
      BY <1>1, <1>2, <2>1, <3>1, OnceFrame DEF Asking
  <2>4. CASE p = q
    <3>1. Asking(p) = {}
      BY <2>4 DEF Compose, Asking
    <3>2. Asking(p)' = {c}
      BY <1>2, <2>1, <2>2, <2>4, <3>1 DEF Asking, Composing
    <3>3. ~(At[p] # Immediately /\ At[p] <= now)
      <4>1. At[p] \in Nat /\ now \in Nat
        BY PostsAssumption, BoundsAssumption DEF Times, TypeInv, QueueType
      <4> QED
        BY <2>4, <4>1 DEF Compose
    <3>4. cache[p] \in RowsOf(p) => queue[cache[p]] # NoRow
      BY DEF RowsOf, Used
    <3>5. Unpublished(p)
      BY <1>4, <2>4, <3>1, <3>3, <3>4 DEF Once, Answered
    <3>6. Unpublished(p)'
      BY <1>1, <3>5 DEF Unpublished
    <3> QED
      BY <2>2, <3>2, <3>6 DEF Once
  <2> QED
    BY <2>3, <2>4
<1> QED
  BY <1>3, <1>4 DEF Compose, Wait

LEMMA OnceRequest ==
  ASSUME TypeInv, NEW c \in Clients, Schedule(c) \/ PostNow(c) \/ Remember(c),
         NEW p \in Posts, Once(p)
  PROVE  Once(p)'
<1> DEFINE q == req[c].post
<1>1. /\ req \in [Clients -> Requests] /\ q \in Posts /\ c \in Asking(q)
      /\ cache \in [Posts -> 0..MaxId] /\ posted \in [Posts -> Nat] /\ now' = now
  BY RequestParts
  DEF Schedule, PostNow, Remember, Asking, Composing, TypeInv, RequestType, BoundsType
<1>2. \A d \in Clients : d # c => req'[d] = req[d]
  BY <1>1 DEF Schedule, PostNow, Remember, Wait, Answer
<1>3. req'[c] = Idle \/ (req'[c].step = "cache" /\ req'[c].post = q)
  BY <1>1 DEF Schedule, PostNow, Remember, Wait, Answer
<1>4. CASE p # q
  <2>1. Asking(p)' = Asking(p)
    BY <1>1, <1>2, <1>3, <1>4 DEF Asking, Composing, Idle
  <2>2. c \notin Asking(p)
    BY <1>4 DEF Asking
  <2>3. cache'[p] = cache[p] /\ posted'[p] = posted[p]
    BY <1>1, <1>4 DEF Schedule, PostNow, Remember, Publish, history
  <2>4. RowsOf(p)' = RowsOf(p)
    BY <1>4, RowsAdd, RowsStay DEF PostNow, Remember, TypeInv
  <2> QED
    BY <1>1, <1>2, <2>1, <2>2, <2>3, <2>4, OnceFrame DEF Asking
<1>5. CASE p = q
  <2>1. Asking(p) = {c}
    BY <1>1, <1>5 DEF Once, Asking
  <2>2. ASSUME Schedule(c) PROVE Once(p)'
    <3>1. Asking(p)' = {}
      <4>1. req'[c] = Idle
        BY <1>1, <2>2 DEF Schedule, Answer
      <4> QED
        BY <1>2, <2>1, <4>1 DEF Asking, Composing, Idle
    <3>2. posted'[p] = 0 /\ RowsOf(p) = {}
      BY <2>1, <2>2 DEF Schedule, Once, Unpublished
    <3>3. PICK i \in Ids : cache' = [cache EXCEPT ![p] = i] /\ RowsOf(p)' = RowsOf(p) \cup {i}
      BY <1>5, <2>2, RowsAdd DEF TypeInv
    <3>4. cache'[p] = i /\ cache'[p] # 0
      BY <1>1, <3>3 DEF Ids
    <3>5. At[p] # Immediately
      BY <1>5, <2>2 DEF Schedule, TypeInv, RequestType
    <3> QED
      BY <3>1, <3>2, <3>3, <3>4, <3>5 DEF Once
  <2>3. ASSUME PostNow(c) PROVE Once(p)'
    <3>1. Asking(p)' = {c} /\ req'[c].step = "cache"
      BY <1>1, <1>2, <1>5, <2>1, <2>3 DEF Asking, Composing, PostNow, Wait
    <3>2. posted[p] = 0 /\ RowsOf(p) = {}
      BY <2>1, <2>3 DEF PostNow, Once, Unpublished
    <3>3. posted'[p] = 1 /\ RowsOf(p)' = {}
      BY <1>1, <1>5, <2>3, <3>2, RowsStay DEF PostNow, Publish
    <3> QED
      BY <3>1, <3>3 DEF Once, Published
  <2>4. ASSUME Remember(c) PROVE Once(p)'
    <3>1. Asking(p)' = {}
      <4>1. req'[c] = Idle
        BY <1>1, <2>4 DEF Remember, Answer
      <4> QED
        BY <1>2, <2>1, <4>1 DEF Asking, Composing, Idle
    <3>2. Published(p)
      BY <2>1, <2>4 DEF Remember, Once
    <3>3. Published(p)'
      BY <2>4, <3>2, RowsStay DEF Remember, Published, history
    <3>4. At[p] = Immediately
      BY <1>5, <2>4 DEF Remember, TypeInv, RequestType
    <3>5. cache'[p] # 0
      BY <1>1, <1>5, <2>4 DEF Remember
    <3> QED
      BY <3>1, <3>3, <3>4, <3>5 DEF Once
  <2> QED
    BY <2>2, <2>3, <2>4
<1> QED
  BY <1>4, <1>5

LEMMA KeyNext ==
  ASSUME TypeInv, PassInv, KeptInv, QuietInv, TimeInv, KeyInv, [Next]_vars
  PROVE  KeyInv'
<1> SUFFICES ASSUME Quiet', NEW p \in Posts \ (hurried' \cup charged')
             PROVE  Once(p)'
  BY DEF KeyInv
<1>1. Quiet
  BY QuietSteps
<1>2. p \notin charged /\ p \notin hurried
  BY QuietSteps
  DEF Fetch, EndPass, Send, Count, ReadRow, RecordFailure, Skip, Resolve, MissingMedia, SendFails,
      Crash, Tick, vars, history, Schedule, PostNow, Remember, Compose
<1>3. Once(p)
  BY <1>1, <1>2 DEF KeyInv
<1>4. ASSUME NEW c \in Clients, NEW q \in Posts, Compose(c, q) PROVE Once(p)'
  BY <1>3, <1>4, OnceCompose
<1>5. ASSUME NEW c \in Clients, Schedule(c) \/ PostNow(c) \/ Remember(c) PROVE Once(p)'
  BY <1>3, <1>5, OnceRequest
<1>6. CASE Send
  BY <1>1, <1>2, <1>3, <1>6, OnceSend
<1> QED
  BY <1>3, <1>4, <1>5, <1>6, OnceRest, QuietSteps


-----------------------------------------------------------------------------
(* The theorems. *)

LEMMA PostInit == Init => PostInv
<1> SUFFICES ASSUME Init PROVE PostInv
  OBVIOUS
<1>1. Used = {} /\ Open = {} /\ \A p : RowsOf(p) = {}
  BY DEF Init, Used, Open, RowsOf
<1>2. \A p : Claims(p) = {} /\ Waiting(p) = {} /\ Asking(p) = {}
  BY <1>1 DEF Init, Claims, Waiting, Asking, Composing, Idle
<1>3. QueueType /\ RequestType
  BY <1>1, BoundsAssumption DEF Init, QueueType, RequestType, Requests, Idle, Times
<1>4. PassType /\ BoundsType
  BY BoundsAssumption DEF Init, PassType, BoundsType, NoEntry, NoRow
<1>5. PassInv /\ KeptInv /\ QuietInv /\ TimeInv
  BY <1>1 DEF Init, PassInv, KeptInv, QuietInv, TimeInv
<1>6. Cardinality({}) = 0
  BY FS_EmptySet
<1>7. CountInv
  BY <1>2, <1>6 DEF Init, CountInv
<1>8. KeyInv
  BY <1>1, <1>2 DEF Init, KeyInv, Once, Unpublished
<1> QED
  BY <1>3, <1>4, <1>5, <1>7, <1>8 DEF PostInv, TypeInv

LEMMA PostNext == PostInv /\ [Next]_vars => PostInv'
BY QueueNext, RequestNext, PassTypeNext, BoundsNext, PassNext, KeptNext, CountNext, QuietNext,
   TimeNext,
   KeyNext DEF PostInv, TypeInv

LEMMA PostAlways == Spec => []PostInv
BY PostInit, PostNext, PTL DEF Spec

\* Every table, cache and count, and what the worker has in hand, keeps its type.
THEOREM TypeCorrect == Spec => []TypeOK
<1>1. ASSUME TypeInv PROVE TypeOK
  <2>1. ASSUME NEW c \in Clients
        PROVE  req[c].step \in {"idle", "schedule", "post", "cache", "put", "delete", "read_queue", "delete_media"}
    <3>1. req[c] \in Requests
      BY <1>1 DEF TypeInv, RequestType
    <3> QED
      BY <3>1 DEF Requests, Idle
  <2> QED
    BY <1>1, <2>1 DEF TypeOK, TypeInv, QueueType, PassType, BoundsType
<1> QED
  BY <1>1, PostAlways, PTL DEF PostInv

\* A post is published as often as it was asked for, at most, wherever the worker
\* crashes or fails; and once for all requests that carry its key, when one was
\* answered before the next was made and nothing takes the key away.
THEOREM NoPostTwice == Spec => []PublishedOnce
<1>1. ASSUME PostInv, NEW p \in Posts PROVE posted[p] <= asked[p]
  <2>1. posted[p] + Cardinality(Claims(p)) + Cardinality(Waiting(p)) <= asked[p]
    BY <1>1 DEF PostInv, CountInv
  <2>2. Cardinality(Claims(p)) \in Nat /\ Cardinality(Waiting(p)) \in Nat
    BY <1>1, CountsFinite, FS_CardinalityType DEF PostInv
  <2>3. posted[p] \in Nat /\ asked[p] \in Nat
    BY <1>1, BoundsAssumption DEF PostInv, TypeInv, BoundsType
  <2> QED
    BY <2>1, <2>2, <2>3
<1>2. ASSUME PostInv, Quiet, NEW p \in Posts \ (hurried \cup charged)
      PROVE  posted[p] + Cardinality(RowsOf(p)) <= 1
  <2>1. Once(p)
    BY <1>2 DEF PostInv, KeyInv
  <2>2. \/ Unpublished(p) \/ Published(p)
        \/ posted[p] = 0 /\ RowsOf(p) = {cache[p]}
    <3>1. CASE Asking(p) = {}
      BY <2>1, <3>1 DEF Once
    <3>2. ASSUME NEW c \in Asking(p) PROVE Published(p) \/ Unpublished(p)
      BY <2>1 DEF Once
    <3> QED
      BY <3>1, <3>2
  <2>3. Cardinality({}) = 0
    BY FS_EmptySet
  <2>4. Cardinality({cache[p]}) = 1
    BY FS_Singleton
  <2> QED
    BY <2>2, <2>3, <2>4 DEF Published, Unpublished
<1>3. PostInv => OnePerKey
  BY <1>2 DEF OnePerKey, Quiet, RowsOf
<1>4. PostInv /\ TypeOK => PublishedOnce
  BY <1>1, <1>3 DEF PublishedOnce
<1> QED
  BY <1>4, TypeCorrect, PostAlways, PTL

\* Neither a failure nor a crash, a PUT or a deletion of media loses a queued post.
THEOREM QueueLosesNothing == Spec => []OnlyCancellingLoses
<1>1. PostInv => OnlyCancellingLoses
  BY DEF PostInv, KeptInv, RowsOf, OnlyCancellingLoses
<1> QED
  BY <1>1, PostAlways, PTL
=============================================================================
