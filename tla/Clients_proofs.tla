--------------------------- MODULE Clients_proofs ---------------------------
(***************************************************************************)
(* How a client learns what is new.  First what PushNotifications promises *)
(* of the pushes, for any number of tokens, notifications, requests,       *)
(* failures, crashes and removals.  Then what Pages promises of the lists  *)
(* that are read page by page, for any number of rows, times and changes   *)
(* and pages of any size.                                                  *)
(***************************************************************************)
EXTENDS PushNotifications, Pages, FiniteSetTheorems, TLAPS

-----------------------------------------------------------------------------
(* The inductive invariant. *)

\* No watermark has moved since the objects were loaded.
Resting == {"idle", "fetched", "down"}

\* Numbers rise with the row ids, and are never below them.
TableInv ==
  /\ \A i \in Numbers : table[i] # 0 => i <= table[i] /\ table[i] <= born
  /\ \A i, j \in Numbers : i < j /\ table[i] # 0 /\ table[j] # 0 => table[i] < table[j]

\* A row has the endpoint of a subscription that was made.
RowInv ==
  /\ \A t \in Tokens : t \notin subs => db[t] = NoRow
  /\ \A t \in subs : 1 <= db[t].endpoint /\ db[t].endpoint <= posts[t]
  /\ \A t \in posting : posts[t] < MaxPosts

\* An object of the session has the endpoint it was loaded with, which may be older
\* than the row's but not newer.  As long as it is the row's, so is the watermark.
SessionInv ==
  /\ \A t \in held :
       /\ base[t].endpoint = mem[t].endpoint /\ base[t].mark <= mem[t].mark
       /\ 1 <= mem[t].endpoint /\ mem[t].endpoint <= posts[t]
       /\ t \in subs => mem[t].endpoint <= db[t].endpoint
       /\ t \in subs /\ mem[t].endpoint = db[t].endpoint => db[t].mark = base[t].mark
       /\ worker \in Resting \/ t \in batch => mem[t].mark = base[t].mark
       /\ mem[t].mark <= born
  /\ \A t \in subs : db[t].mark <= born
  /\ newest <= born

\* The candidates lie above the watermark, in the order of their births.
TodoInv == \A t \in current :
  /\ mem[t].mark <= newest
  /\ \A d \in todo :
       /\ mem[t].mark < d.id /\ d.id <= newest /\ d.id <= d.number /\ d.number <= born
       /\ table[d.id] # 0 => d.number <= table[d.id]
       /\ \A j \in Numbers : table[j] = d.number => j = d.id
       /\ \A e \in todo : (d.id < e.id => d.number < e.number) /\ (d.id = e.id => d = e)

\* What the histories name was born, and went to an endpoint that is not newer than
\* the row or the object; what is acknowledged is of the object's endpoint.
Histories == dealt \union pushed \union acked \union settled
Known(p) ==
  /\ p[3] <= born /\ p[2] <= posts[p[1]]
  /\ p[1] \in held => p[2] <= mem[p[1]].endpoint
  /\ p[1] \in subs => p[2] <= db[p[1]].endpoint
PairInv ==
  /\ \A p \in Histories : Known(p)
  /\ \A p \in acked : p[1] \in held /\ p[2] = mem[p[1]].endpoint
  /\ worker \in Resting => acked = {}

\* What an endpoint acknowledged lies below its watermark, and is no candidate.
AckedInv == \A t \in held, j \in Numbers :
  <<t, mem[t].endpoint, table[j]>> \in settled \union acked => j <= mem[t].mark
SettledInv == \A t \in subs, j \in Numbers :
  <<t, db[t].endpoint, table[j]>> \in settled => j <= db[t].mark
UnsettledInv == \A t \in current, d \in todo : Pair(t, d) \notin settled
AgainInv == AckedInv /\ SettledInv /\ UnsettledInv /\ "again" \notin faults

\* What is older than a push to an endpoint was dealt with or pushed too, or was
\* passed over in a batch that was committed.
Had(t, e, n) == <<t, e, n>> \in dealt \union pushed
Passed(t, e, mark) == \A p \in pushed, j \in Numbers :
  p[1] = t /\ p[2] = e /\ Selected(j) /\ table[j] < p[3] => Had(t, e, table[j]) \/ j <= mark
MemOrderInv == \A t \in held : Passed(t, mem[t].endpoint, base[t].mark)
RowOrderInv == \A t \in subs : Passed(t, db[t].endpoint, db[t].mark)
TodoOrderInv == \A t \in current, d \in todo, p \in pushed :
  p[1] = t /\ p[2] = mem[t].endpoint /\ d.number < p[3] => Had(t, mem[t].endpoint, d.number)
TodoCoverInv == \A t \in current, d \in todo, j \in Numbers :
  Selected(j) /\ table[j] < d.number =>
    \/ Had(t, mem[t].endpoint, table[j]) \/ j <= base[t].mark
    \/ \E e \in todo : e.id = j /\ e.number = table[j]
OrderInv ==
  MemOrderInv /\ RowOrderInv /\ TodoOrderInv /\ TodoCoverInv /\ "late" \notin faults

\* As long as no subscription is replaced: what lies above a watermark is younger
\* than the subscription, and what lies below it was dealt with.
Young(t, e, mark) == \A j \in Numbers :
  j > mark /\ table[j] # 0 => table[j] > since[t][e]
Below(t, e, mark) == \A j \in Numbers :
  j <= mark /\ Selected(j) /\ table[j] = j /\ j > since[t][e] => <<t, e, j>> \in dealt
FirstInv ==
  /\ \A t \in posting : posts[t] = 0
  /\ \A t \in subs : db[t].endpoint = 1
  /\ \A t \in held : mem[t].endpoint = 1
  /\ \A t \in Tokens : posts[t] > 0 => since[t][1] <= born
YoungInv ==
  /\ \A p \in pushed : p[3] > since[p[1]][p[2]]
  /\ \A t \in subs : Young(t, 1, db[t].mark)
  /\ \A t \in held : Young(t, 1, base[t].mark)
  /\ \A t \in current, d \in todo : d.number > since[t][1]
BelowInv ==
  /\ \A t \in subs : Below(t, 1, db[t].mark)
  /\ \A t \in held : Below(t, 1, mem[t].mark)
  /\ \A t \in current, j \in Numbers :
       j > mem[t].mark /\ j <= newest /\ Selected(j) /\ table[j] = j =>
         \E d \in todo : d.id = j
WaterInv == FirstInv /\ YoungInv /\ BelowInv

-----------------------------------------------------------------------------
(* Types, the table of notifications and the rows. *)

Core == TypeOK /\ TableInv /\ RowInv

LEMMA NewRowIsARow == \A e \in 0..MaxPosts, i \in 0..MaxNotifications : NewRow(e, i) \in Row
  BY SizesAssumption DEF NewRow, Row

LEMMA NoRowIsARow == NoRow \in Row
  BY SizesAssumption, NewRowIsARow DEF NoRow

\* What the columns of a row are set to.
LEMMA RowsChange ==
  ASSUME NEW r \in Row
  PROVE  /\ [r EXCEPT !.wants = ~ @] \in Row
         /\ [r EXCEPT !.waiting = FALSE] \in Row /\ [r EXCEPT !.waiting = TRUE] \in Row
  BY DEF Row

LEMMA MarksChange ==
  ASSUME NEW r \in Row, NEW i \in 0..MaxNotifications
  PROVE  [r EXCEPT !.mark = i] \in Row /\ [r EXCEPT !.tries = 0, !.mark = i] \in Row
<1>1. 0 \in 0..MaxRetries
  BY SizesAssumption
<1> QED BY <1>1 DEF Row

LEMMA ATokensRow ==
  ASSUME NEW f \in [Tokens -> Row], NEW t \in Tokens
  PROVE  /\ f[t].endpoint \in 0..MaxPosts /\ f[t].mark \in 0..MaxNotifications
         /\ f[t].tries \in 0..MaxRetries /\ f[t].waiting \in BOOLEAN
         /\ f[t].wants \in BOOLEAN /\ f[t] \in Row
  BY DEF Row

LEMMA InitIsCore == Init => Core
<1> SUFFICES ASSUME Init PROVE Core
  OBVIOUS
<1> USE SizesAssumption DEF Init
<1>1. NotificationsType /\ TableInv
  BY DEF NotificationsType, TableInv
<1>2. ClientsType
  BY NoRowIsARow DEF ClientsType
<1>3. RowInv
  BY DEF RowInv
<1>4. WorkerType
  <2>1. db \in [Tokens -> Row]
    BY NoRowIsARow
  <2>2. mem \in [Tokens -> Row] /\ base \in [Tokens -> Row]
    BY <2>1
  <2>3. locked \in BOOLEAN /\ ~ locked /\ worker = "idle"
    OBVIOUS
  <2> QED BY <2>2, <2>3 DEF WorkerType
<1>5. HistoriesType
  BY DEF HistoriesType
<1> QED BY <1>1, <1>2, <1>3, <1>4, <1>5 DEF Core, TypeOK

LEMMA ClampIsAMark ==
  ASSUME WorkerType, NEW t \in held, newest > mem[t].mark
  PROVE  /\ MarkClamped(t) \in 0..MaxNotifications /\ MarkClamped(t) < newest
         /\ MarkClamped(t) >= mem[t].mark
<1>1. mem[t].mark \in 0..MaxNotifications /\ newest \in 0..MaxNotifications
  BY ATokensRow DEF WorkerType
<1> QED BY <1>1, SizesAssumption DEF MarkClamped

LEMMA RequestsKeepCore ==
  ASSUME Core, Notify \/ Remove \/ \E t \in Tokens : Client(t)
  PROVE  Core'
<1> USE SizesAssumption DEF Core, TypeOK
<1>1. WorkerType'
  <2>1. UNCHANGED <<worker, sessionVars>>
    BY DEF Notify, Remove, Client, Authorize, Subscribe, Update, Unsubscribe, Revoke,
           Expire, Elapse
  <2> QED BY <2>1 DEF WorkerType, sessionVars
<1>2. HistoriesType'
  BY DEF HistoriesType, pushVars, Notify, Remove, Client, Authorize, Subscribe, Update,
         Unsubscribe, Revoke, Expire, Elapse
<1>3. CASE Notify
  <2>1. PICK i \in 0..MaxNotifications : IsNewest(i) /\ table' = [table EXCEPT ![i + 1] = born + 1]
    BY <1>3 DEF Notify
  <2>2. i <= born /\ \A j \in Numbers : table[j] # 0 => j <= i
    BY <2>1 DEF IsNewest, NotificationsType, TableInv, Numbers
  <2>3. i + 1 \in Numbers /\ born' = born + 1 /\ born' \in Numbers
    BY <1>3, <2>2 DEF Notify, NotificationsType, Numbers
  <2>4. NotificationsType'
    BY <2>1, <2>3 DEF NotificationsType, Numbers
  <2>5. TableInv'
    BY <2>1, <2>2, <2>3 DEF NotificationsType, TableInv, Numbers
  <2>6. ClientsType' /\ RowInv'
    BY <1>3 DEF Notify, clientVars, ClientsType, RowInv
  <2> QED BY <1>1, <1>2, <2>4, <2>5, <2>6
<1>4. CASE Remove
  <2>1. NotificationsType' /\ TableInv'
    BY <1>4 DEF Remove, NotificationsType, TableInv, Numbers
  <2>2. ClientsType' /\ RowInv'
    BY <1>4 DEF Remove, Call, ClientsType, RowInv
  <2> QED BY <1>1, <1>2, <2>1, <2>2
<1>5. ASSUME NEW t \in Tokens, Client(t) PROVE Core'
  <2>1. NotificationsType' /\ TableInv'
    BY <1>5 DEF Client, Authorize, Subscribe, Update, Unsubscribe, Revoke, Expire, Elapse,
                notifVars, NotificationsType, TableInv
  <2>2. CASE Authorize(t) \/ Expire(t)
    BY <1>1, <1>2, <2>1, <2>2 DEF Authorize, Expire, Call, ClientsType, RowInv
  <2>3. CASE Subscribe(t)
    <3>1. PICK i \in 0..MaxNotifications : db' = [db EXCEPT ![t] = NewRow(posts[t] + 1, i)]
      BY <2>3 DEF Subscribe
    <3>2. posts[t] + 1 \in 1..MaxPosts /\ posts[t] \in Nat
      BY <2>3 DEF Subscribe, ClientsType, RowInv
    <3>3. db' \in [Tokens -> Row] /\ \A u \in Tokens : u # t => db'[u] = db[u]
      BY <3>1, <3>2, NewRowIsARow DEF ClientsType
    <3>4. db'[t].endpoint = posts[t] + 1
      BY <3>1 DEF ClientsType, NewRow
    <3>5. born \in 0..MaxNotifications
      BY DEF NotificationsType
    <3>6. since' \in [Tokens -> [1..MaxPosts -> 0..MaxNotifications]]
      BY <2>3, <3>2, <3>5 DEF Subscribe, ClientsType
    <3>7. ClientsType'
      <4>1. posts' \in [Tokens -> 0..MaxPosts]
        BY <2>3, <3>2 DEF Subscribe, ClientsType
      <4>2. /\ subs' = subs \union {t} /\ posting' \subseteq posting
            /\ UNCHANGED <<revoked, expired, calls>>
        BY <2>3 DEF Subscribe
      <4> QED BY <3>3, <3>6, <4>1, <4>2 DEF ClientsType
    <3>8. RowInv'
      BY <2>3, <3>2, <3>3, <3>4 DEF Subscribe, ClientsType, RowInv
    <3> QED BY <1>1, <1>2, <2>1, <3>7, <3>8
  <2>4. CASE Update(t) \/ Elapse(t)
    <3>1. /\ db' \in [Tokens -> Row] /\ \A u \in Tokens : db'[u].endpoint = db[u].endpoint
          /\ \A u \in Tokens : u # t => db'[u] = db[u]
      <4>1. db[t] \in Row /\ db \in [Tokens -> Row]
        BY DEF ClientsType
      <4>2. db' = [db EXCEPT ![t] = [db[t] EXCEPT !.wants = ~ @]]
            \/ db' = [db EXCEPT ![t] = [db[t] EXCEPT !.waiting = FALSE]]
        BY <2>4 DEF Update, Elapse
      <4>3. [db[t] EXCEPT !.wants = ~ @].endpoint = db[t].endpoint
            /\ [db[t] EXCEPT !.waiting = FALSE].endpoint = db[t].endpoint
        BY <4>1 DEF Row
      <4> QED BY <4>1, <4>2, <4>3, RowsChange
    <3>2. t \in subs
      BY <2>4 DEF Elapse, Update, NoRow, NewRow, RowInv
    <3>3. calls' \in 0..MaxCalls
      BY <2>4 DEF Update, Elapse, Call, ClientsType
    <3>4. UNCHANGED <<subs, revoked, expired, posting, posts, since>>
      BY <2>4 DEF Update, Elapse
    <3>5. ClientsType' /\ RowInv'
      BY <3>1, <3>2, <3>3, <3>4 DEF ClientsType, RowInv
    <3> QED BY <1>1, <1>2, <2>1, <3>5
  <2>5. CASE Unsubscribe(t) \/ Revoke(t)
    <3>1. db' \in [Tokens -> Row]
      BY <2>5, NoRowIsARow DEF Unsubscribe, Revoke, ClientsType
    <3>2. ClientsType'
      <4>1. calls' \in 0..MaxCalls
        BY <2>5 DEF Unsubscribe, Revoke, Call, ClientsType
      <4>2. posts' \in [Tokens -> 0..MaxPosts]
        <5>1. posts' = posts \/ posts' = [posts EXCEPT ![t] = MaxPosts]
          BY <2>5 DEF Unsubscribe, Revoke
        <5>2. MaxPosts \in 0..MaxPosts
          OBVIOUS
        <5> QED BY <5>1, <5>2 DEF ClientsType
      <4> QED BY <2>5, <3>1, <4>1, <4>2 DEF Unsubscribe, Revoke, ClientsType
    <3>3. RowInv'
      BY <2>5 DEF Unsubscribe, Revoke, Call, ClientsType, RowInv
    <3> QED BY <1>1, <1>2, <2>1, <3>2, <3>3
  <2> QED BY <1>5, <2>2, <2>3, <2>4, <2>5 DEF Client
<1> QED BY <1>3, <1>4, <1>5

-----------------------------------------------------------------------------
(* What the steps of the worker do to its objects. *)

\* The object of t gets a watermark, and the others stay.
Moves(t, mark) ==
  /\ mem' \in [Tokens -> Row]
  /\ mem'[t].mark = mark /\ mem'[t].endpoint = mem[t].endpoint
  /\ \A u \in Tokens : u # t => mem'[u] = mem[u]

LEMMA AMarkMoves ==
  ASSUME WorkerType, NEW t \in Tokens, NEW i \in 0..MaxNotifications,
         \/ mem' = [mem EXCEPT ![t].mark = i]
         \/ mem' = [mem EXCEPT ![t].tries = 0, ![t].mark = i]
  PROVE  Moves(t, i)
<1>1. mem[t] \in Row /\ mem \in [Tokens -> Row]
  BY DEF WorkerType
<1>2. \/ mem' = [mem EXCEPT ![t] = [mem[t] EXCEPT !.mark = i]]
      \/ mem' = [mem EXCEPT ![t] = [mem[t] EXCEPT !.tries = 0, !.mark = i]]
  OBVIOUS
<1>3. /\ [mem[t] EXCEPT !.mark = i].endpoint = mem[t].endpoint
      /\ [mem[t] EXCEPT !.mark = i].mark = i
      /\ [mem[t] EXCEPT !.tries = 0, !.mark = i].endpoint = mem[t].endpoint
      /\ [mem[t] EXCEPT !.tries = 0, !.mark = i].mark = i
  BY <1>1 DEF Row
<1> QED BY <1>1, <1>2, <1>3, MarksChange DEF Moves

LEMMA AFailureMovesNoMark ==
  ASSUME WorkerType, NEW t \in Tokens, NEW e, Fail(t, e)
  PROVE  Moves(t, mem[t].mark)
<1>1. mem[t] \in Row /\ mem \in [Tokens -> Row]
  BY DEF WorkerType
<1>2. CASE UNCHANGED mem
  BY <1>1, <1>2 DEF Moves
<1>3. CASE mem[t].tries + 1 < MaxRetries
           /\ mem' = [mem EXCEPT ![t].tries = @ + 1, ![t].waiting = TRUE]
  <2>1. mem' = [mem EXCEPT ![t] = [mem[t] EXCEPT !.tries = @ + 1, !.waiting = TRUE]]
    BY <1>3
  <2>2. mem[t].tries + 1 \in 0..MaxRetries
    BY <1>1, <1>3, SizesAssumption DEF Row
  <2>3. /\ [mem[t] EXCEPT !.tries = @ + 1, !.waiting = TRUE] \in Row
        /\ [mem[t] EXCEPT !.tries = @ + 1, !.waiting = TRUE].endpoint = mem[t].endpoint
        /\ [mem[t] EXCEPT !.tries = @ + 1, !.waiting = TRUE].mark = mem[t].mark
    BY <1>1, <2>2 DEF Row
  <2> QED BY <1>1, <2>1, <2>3 DEF Moves
<1>4. mem[t].tries \in 0..MaxRetries
  BY <1>1 DEF Row
<1> QED BY <1>2, <1>3, <1>4, SizesAssumption DEF Fail

LEMMA WrittenIsARow ==
  ASSUME ClientsType, WorkerType, NEW t \in Tokens
  PROVE  /\ Written(t) \in Row /\ Written(t).endpoint = db[t].endpoint
         /\ Written(t).mark = IF mem[t].mark # base[t].mark THEN mem[t].mark ELSE db[t].mark
<1>1. db[t] \in Row /\ mem[t] \in Row /\ base[t] \in Row
  BY DEF ClientsType, WorkerType
<1> QED BY <1>1 DEF Written, Row

LEMMA APollLoads ==
  ASSUME ClientsType, WorkerType, Poll
  PROVE  /\ held' \subseteq Due /\ batch' = held'
         /\ mem' \in [Tokens -> Row] /\ base' = mem'
         /\ \A t \in held' :
              \/ /\ t \in held /\ mem'[t].endpoint = mem[t].endpoint
                 /\ mem'[t].mark = mem[t].mark
              \/ mem'[t].endpoint = db[t].endpoint /\ mem'[t].mark = db[t].mark
<1>1. PICK picked \in SUBSET Due :
        /\ batch' = picked /\ held' = picked
        /\ mem' = [t \in Tokens |->
                     IF t \in picked
                       THEN [IF t \in held THEN mem[t] ELSE db[t] EXCEPT !.waiting = FALSE]
                       ELSE NoRow]
  BY DEF Poll
<1>2. ASSUME NEW r \in Row
      PROVE  /\ [r EXCEPT !.waiting = FALSE] \in Row
             /\ [r EXCEPT !.waiting = FALSE].endpoint = r.endpoint
             /\ [r EXCEPT !.waiting = FALSE].mark = r.mark
  BY DEF Row
<1>3. \A t \in Tokens : mem[t] \in Row /\ db[t] \in Row
  BY DEF ClientsType, WorkerType
<1>4. picked \subseteq Tokens
  BY DEF Due, ClientsType
<1>5. mem' \in [Tokens -> Row]
  BY <1>1, <1>2, <1>3, NoRowIsARow
<1>6. \A t \in picked :
        \/ t \in held /\ mem'[t].endpoint = mem[t].endpoint /\ mem'[t].mark = mem[t].mark
        \/ mem'[t].endpoint = db[t].endpoint /\ mem'[t].mark = db[t].mark
  BY <1>1, <1>2, <1>3, <1>4
<1> QED BY <1>1, <1>5, <1>6 DEF Poll

LEMMA WorkLeavesTheClients ==
  ASSUME Work \/ Abort \/ Crash
  PROVE  UNCHANGED notifVars /\ (Commit \/ UNCHANGED clientVars)
<1>1. ASSUME NEW t \in batch, StartExpired(t) \/ StartCaughtUp(t) \/ Start(t)
      PROVE  UNCHANGED <<notifVars, clientVars>>
  BY <1>1 DEF StartExpired, StartCaughtUp, Start
<1>2. ASSUME NEW t \in current, NEW e \in todo, Skip(t, e) \/ Answer(t, e)
      PROVE  UNCHANGED <<notifVars, clientVars>>
  BY <1>2 DEF Skip, Answer, Accept, TooLarge, Gone, Fail
<1>3. ASSUME NEW t \in current, NEW e \in todo, Poison(t, e)
      PROVE  UNCHANGED <<notifVars, clientVars>>
  BY <1>3 DEF Poison, Rollback
<1>4. CASE LoseRow \/ Abort \/ Crash
  BY <1>4 DEF LoseRow, Abort, Crash, Rollback
<1>5. CASE PollEmpty \/ Poll \/ ReadNewest \/ Enough \/ Restart
           \/ \E t \in current : Exhausted(t)
  BY <1>5 DEF PollEmpty, Poll, ReadNewest, Enough, Restart, Exhausted
<1>6. CASE Commit
  BY <1>6 DEF Commit
<1> QED BY <1>1, <1>2, <1>3, <1>4, <1>5, <1>6 DEF Work

LEMMA WorkKeepsCore ==
  ASSUME Core, SessionInv, Work \/ Abort \/ Crash
  PROVE  Core'
<1> USE SizesAssumption DEF Core, TypeOK
<1> DEFINE Drops == LoseRow \/ Abort \/ Crash \/ \E t \in current, e \in todo : Poison(t, e)
<1>1. NotificationsType' /\ TableInv'
  <2>1. UNCHANGED notifVars
    BY WorkLeavesTheClients DEF notifVars
  <2> QED BY <2>1 DEF notifVars, NotificationsType, TableInv
<1>2. CASE Commit
  <2>1. db' \in [Tokens -> Row] /\ \A t \in Tokens \ doomed : db'[t].endpoint = db[t].endpoint
    <3>1. db' = [t \in Tokens |-> IF t \in doomed THEN NoRow
                                  ELSE IF t \in Touched THEN Written(t) ELSE db[t]]
      BY <1>2 DEF Commit
    <3> QED BY <3>1, WrittenIsARow, NoRowIsARow DEF ClientsType
  <2>2. \A t \in Tokens \ subs' : db'[t] = NoRow
    BY <1>2 DEF Commit, RowInv
  <2>3. ClientsType' /\ RowInv'
    BY <1>2, <2>1, <2>2 DEF Commit, ClientsType, RowInv
  <2>4. mem' \in [Tokens -> Row]
    BY <1>2, NoRowIsARow DEF Commit, WorkerType
  <2>5. WorkerType'
    <3>1. held' = held \ doomed /\ doomed' = {} /\ locked' = FALSE /\ batch' = {} /\ base' = mem'
          /\ newest' = 0 /\ delivered' = 0 /\ worker' = "idle" /\ current' = current
          /\ todo' = todo /\ worker = "next"
      BY <1>2 DEF Commit
    <3>2. locked' \in BOOLEAN /\ ~ locked' /\ current = {}
      BY <3>1 DEF WorkerType
    <3> QED BY <2>4, <3>1, <3>2 DEF WorkerType
  <2>6. HistoriesType'
    BY <1>2 DEF Commit, HistoriesType
  <2> QED BY <1>1, <2>3, <2>5, <2>6
<1>3. CASE ~ Commit
  <2>1. UNCHANGED clientVars
    BY <1>3, WorkLeavesTheClients
  <2>2. ClientsType' /\ RowInv'
    BY <2>1 DEF clientVars, ClientsType, RowInv
  <2>3. CASE Drops
    <3>1. Rollback /\ worker' \in {"idle", "down"} /\ losses' \in 0..MaxLosses
      BY <2>3 DEF LoseRow, Abort, Crash, Poison, HistoriesType
    <3>2. mem' \in [Tokens -> Row]
      BY <3>1, NoRowIsARow DEF Rollback, Release
    <3>3. held' = {} /\ base' = mem' /\ batch' = {} /\ current' = {} /\ todo' = {} /\ newest' = 0
          /\ delivered' = 0 /\ doomed' = {} /\ locked' = FALSE
      BY <3>1 DEF Rollback, Release
    <3>4. WorkerType'
      <4>1. locked' \in BOOLEAN /\ ~ locked' /\ worker' # "sending"
        BY <3>1, <3>3
      <4> QED BY <3>1, <3>2, <3>3, <4>1 DEF WorkerType
    <3>5. HistoriesType'
      BY <3>1 DEF Rollback, HistoriesType
    <3> QED BY <1>1, <2>2, <3>4, <3>5
  <2>4. CASE PollEmpty \/ Poll \/ ReadNewest \/ Restart
    <3>1. HistoriesType'
      BY <2>4 DEF PollEmpty, Poll, ReadNewest, Restart, HistoriesType, pushVars
    <3>2. CASE PollEmpty
      <4>1. mem' \in [Tokens -> Row]
        BY <3>2, NoRowIsARow DEF PollEmpty, Release
      <4> QED BY <1>1, <2>2, <3>1, <3>2, <4>1 DEF PollEmpty, Release, WorkerType
    <3>3. CASE Poll
      <4>1. held' \subseteq Tokens
        BY <3>3, APollLoads DEF Due, ClientsType
      <4>2. WorkerType'
        BY <3>3, <4>1, APollLoads DEF Poll, WorkerType
      <4> QED BY <1>1, <2>2, <3>1, <4>2
    <3>4. CASE ReadNewest
      BY <1>1, <2>2, <3>1, <3>4 DEF ReadNewest, WorkerType
    <3>5. CASE Restart
      BY <1>1, <2>2, <3>1, <3>5 DEF Restart, WorkerType, sessionVars
    <3> QED BY <2>4, <3>2, <3>3, <3>4, <3>5
  <2>5. ASSUME NEW t \in batch, StartExpired(t) \/ StartCaughtUp(t) \/ Start(t)
        PROVE  Core'
    <3>1. t \in held
      BY DEF WorkerType
    <3>2. CASE StartExpired(t) \/ StartCaughtUp(t)
      <4>1. HistoriesType'
        BY <3>2 DEF StartExpired, StartCaughtUp, HistoriesType, pushVars
      <4>2. WorkerType'
        BY <3>1, <3>2 DEF StartExpired, StartCaughtUp, WorkerType
      <4> QED BY <1>1, <2>2, <4>1, <4>2
    <3>3. CASE Start(t)
      <4>1. MarkClamped(t) \in 0..MaxNotifications
        BY <3>1, <3>3, ClampIsAMark DEF Start
      <4>2. Moves(t, MarkClamped(t))
        BY <3>1, <3>3, <4>1, AMarkMoves DEF Start, WorkerType
      <4>3. \A i \in Numbers : table[i] # 0 => table[i] \in Numbers
        BY DEF NotificationsType, Numbers
      <4>4. todo' \subseteq [id : Numbers, number : Numbers]
        BY <3>3, <4>3 DEF Start, Selected
      <4>5. mem[t].endpoint \in 1..MaxPosts
        BY <3>1, ATokensRow DEF SessionInv, WorkerType
      <4>6. HistoriesType'
        <5>1. dealt' \subseteq Pairs
          BY <3>1, <3>3, <4>3, <4>5 DEF Start, HistoriesType, WorkerType, Pairs
        <5> QED BY <3>3, <5>1 DEF Start, HistoriesType
      <4>7. locked' \in BOOLEAN
        BY <3>3 DEF Start, WorkerType
      <4>8. WorkerType'
        BY <3>1, <3>3, <4>2, <4>4, <4>7 DEF Start, Moves, WorkerType
      <4> QED BY <1>1, <2>2, <4>6, <4>8
    <3> QED BY <2>5, <3>2, <3>3
  <2>6. ASSUME NEW t \in current, NEW e \in todo, Skip(t, e) \/ Answer(t, e)
        PROVE  Core'
    <3>1. t \in held /\ t \in Tokens /\ e.id \in 0..MaxNotifications /\ e.number \in Numbers
      BY DEF WorkerType, Numbers
    <3>2. Pair(t, e) \in Pairs
      BY <3>1, ATokensRow DEF Pair, Pairs, SessionInv, WorkerType
    <3>3. HistoriesType'
      BY <2>6, <3>2 DEF Answer, Skip, Accept, TooLarge, Gone, Fail, Receive, HistoriesType, pushVars
    <3>4. CASE Skip(t, e) \/ Accept(t, e) \/ TooLarge(t, e)
      <4>1. Moves(t, e.id)
        BY <3>1, <3>4, AMarkMoves DEF Skip, Accept, TooLarge
      <4>2. delivered' \in 0..MaxCatchUp
        BY <3>4 DEF Skip, Accept, TooLarge, Deliverable, Candidate, WorkerType
      <4>3. WorkerType'
        BY <3>4, <4>1, <4>2 DEF Skip, Accept, TooLarge, Moves, WorkerType
      <4> QED BY <1>1, <2>2, <3>3, <4>3
    <3>5. CASE Gone(t, e)
      <4>1. WorkerType'
        BY <3>1, <3>5 DEF Gone, Candidate, NextSubscription, WorkerType
      <4> QED BY <1>1, <2>2, <3>3, <4>1
    <3>6. CASE Fail(t, e)
      <4>1. Moves(t, mem[t].mark)
        BY <3>1, <3>6, AFailureMovesNoMark
      <4>2. doomed' \subseteq doomed \union {t}
        BY <3>6 DEF Fail
      <4>3. worker' = "next" /\ current' = {} /\ todo' = {} /\ worker = "sending"
            /\ UNCHANGED <<batch, held, base, newest, delivered, locked>>
        BY <3>6 DEF Fail, NextSubscription, Deliverable, Candidate
      <4>4. doomed' \subseteq held' /\ batch' \subseteq held' \ doomed'
        BY <3>1, <4>2, <4>3 DEF WorkerType
      <4>5. WorkerType'
        BY <4>1, <4>3, <4>4 DEF Moves, WorkerType
      <4> QED BY <1>1, <2>2, <3>3, <4>5
    <3> QED BY <2>6, <3>4, <3>5, <3>6 DEF Answer
  <2>7. CASE Enough
    BY <1>1, <2>2, <2>7 DEF Enough, NextSubscription, WorkerType, HistoriesType, pushVars
  <2>8. ASSUME NEW t \in current, Exhausted(t) PROVE Core'
    <3>1. t \in Tokens /\ newest \in 0..MaxNotifications
      BY DEF WorkerType
    <3>2. Moves(t, newest)
      BY <2>8, <3>1, AMarkMoves DEF Exhausted
    <3>3. WorkerType'
      BY <2>8, <3>2 DEF Exhausted, NextSubscription, Moves, WorkerType
    <3>4. HistoriesType'
      BY <2>8 DEF Exhausted, HistoriesType, pushVars
    <3> QED BY <1>1, <2>2, <3>3, <3>4
  <2> QED BY <1>3, <2>3, <2>4, <2>5, <2>6, <2>7, <2>8 DEF Work
<1> QED BY <1>2, <1>3

-----------------------------------------------------------------------------
(* What the steps have in common: each is of one of ten kinds. *)

\* No watermark moves and nothing is loaded: a request that inserts no row, or the
\* worker that gives up a subscription or all it holds.
Still ==
  /\ UNCHANGED <<table, born, since, dealt, settled>>
  /\ subs' \subseteq subs
  /\ \A t \in subs' : db'[t].endpoint = db[t].endpoint /\ db'[t].mark = db[t].mark
  /\ \A t \in Tokens : posts[t] <= posts'[t] /\ (posts[t] = 0 => posts'[t] = 0)
  /\ \A t \in posting' : /\ t \in posting \/ posts[t] = 0 \/ "replace" \in Calls
                         /\ posts'[t] = posts[t]
  /\ held' \subseteq held /\ batch' \subseteq batch
  /\ \A t \in held' : /\ mem'[t].endpoint = mem[t].endpoint /\ mem'[t].mark = mem[t].mark
                      /\ base'[t] = base[t]
  /\ current' = {} \/ (current' = current /\ UNCHANGED <<todo, newest>>)
  /\ newest' <= born
  /\ acked' = {} \/ (acked' = acked /\ held' = held)
  /\ worker' \in Resting => worker \in Resting \/ (held' = {} /\ acked' = {})

Quiet == Still /\ UNCHANGED <<pushed, faults>>

\* The push service may have got the request, and the worker does not know.
Unsure(t, e) ==
  Still /\ Receive(Pair(t, e)) /\ current' = {} /\ \A d \in todo : e.id <= d.id

\* Everything but the table and what the clients do.
Removed ==
  /\ \A j \in Numbers : table'[j] \in {0, table[j]}
  /\ UNCHANGED <<born, subs, db, posting, posts, since, worker, batch, current, held, mem, base,
                 newest, todo, dealt, pushed, acked, settled, faults>>

Born(i) ==
  /\ i \in Nat /\ IsNewest(i) /\ i <= born /\ i + 1 \in Numbers
  /\ born' = born + 1
  /\ table'[i + 1] = born + 1 /\ \A j \in Numbers : j # i + 1 => table'[j] = table[j]
  /\ UNCHANGED <<subs, db, posting, posts, since, worker, batch, current, held, mem, base,
                 newest, todo, dealt, pushed, acked, settled, faults>>

Inserted(t, i) ==
  /\ i \in Nat /\ IsNewest(i) /\ i <= born
  /\ t \in posting /\ posting' = posting \ {t}
  /\ subs' = subs \union {t}
  /\ posts'[t] = posts[t] + 1 /\ posts[t] + 1 \in 1..MaxPosts
  /\ db'[t].endpoint = posts[t] + 1 /\ db'[t].mark = i
  /\ since'[t][posts[t] + 1] = born
  /\ \A k \in 1..MaxPosts : k # posts[t] + 1 => since'[t][k] = since[t][k]
  /\ \A u \in Tokens : u # t => db'[u] = db[u] /\ posts'[u] = posts[u] /\ since'[u] = since[u]
  /\ UNCHANGED <<table, born, worker, batch, current, held, mem, base,
                 newest, todo, dealt, pushed, acked, settled, faults>>

Loaded ==
  /\ worker = "idle" /\ worker' = "fetched" /\ current' = {} /\ held' \subseteq subs
  /\ base' = mem'
  /\ \A t \in held' :
       \/ t \in held /\ mem'[t].endpoint = mem[t].endpoint /\ mem'[t].mark = mem[t].mark
       \/ mem'[t].endpoint = db[t].endpoint /\ mem'[t].mark = db[t].mark
  /\ UNCHANGED <<table, born, subs, db, posting, posts, since,
                 newest, todo, dealt, pushed, acked, settled, faults>>

Begun(t) ==
  LET mark == MarkClamped(t) IN
  /\ t \in batch /\ t \in held /\ batch' = batch \ {t} /\ current' = {t}
  /\ Moves(t, mark) /\ mem[t].mark <= mark /\ mark < newest
  /\ todo' = {[id |-> i, number |-> table[i]] :
                i \in {j \in Numbers : mark < j /\ j <= newest /\ Selected(j)}}
  /\ dealt' = dealt \union
                {<<t, mem[t].endpoint, table[i]>> :
                   i \in {j \in Numbers : mem[t].mark < j /\ j <= mark /\ table[j] # 0}}
  /\ worker' = "sending"
  /\ UNCHANGED <<table, born, subs, db, posting, posts, since, held, base,
                 newest, pushed, acked, settled, faults>>

Popped(t, e) ==
  /\ t \in current /\ t \in held /\ e \in todo /\ \A d \in todo : e.id <= d.id
  /\ Moves(t, e.id) /\ worker = "sending"
  /\ todo' = todo \ {e} /\ dealt' = dealt \union {Pair(t, e)}
  /\ \/ UNCHANGED <<pushed, faults, acked>>
     \/ Receive(Pair(t, e)) /\ acked' = acked \union {Pair(t, e)}
  /\ UNCHANGED <<table, born, subs, db, posting, posts, since, worker, batch, current, held, base,
                 newest, settled>>

Done(t) ==
  /\ t \in current /\ t \in held /\ todo = {} /\ Moves(t, newest)
  /\ current' = {} /\ worker' = "next"
  /\ UNCHANGED <<table, born, subs, db, posting, posts, since, batch, held, base,
                 newest, dealt, pushed, acked, settled, faults>>

Committed ==
  /\ subs' = subs \ doomed /\ held' = held \ doomed
  /\ \A t \in subs' :
       /\ db'[t].endpoint = db[t].endpoint
       /\ db'[t].mark = IF t \in held /\ mem[t].mark # base[t].mark THEN mem[t].mark
                                                                  ELSE db[t].mark
  /\ \A t \in held' : mem'[t] = mem[t] /\ base'[t] = mem[t]
  /\ settled' = settled \union acked /\ acked' = {}
  /\ worker' = "idle" /\ current' = {} /\ newest' = 0
  /\ UNCHANGED <<table, born, posting, posts, since, dealt, pushed, faults>>

Step ==
  \/ Quiet \/ Removed \/ Loaded \/ Committed
  \/ \E i \in 0..MaxNotifications : Born(i) \/ \E t \in Tokens : Inserted(t, i)
  \/ \E t \in Tokens : Begun(t) \/ Done(t)
  \/ \E t \in current, e \in todo : Unsure(t, e) \/ Popped(t, e)

LEMMA TheNewestWasBorn ==
  ASSUME NotificationsType, TableInv, NEW i \in 0..MaxNotifications, IsNewest(i)
  PROVE  i <= born
  BY DEF NotificationsType, TableInv, IsNewest, Numbers

LEMMA RequestsAreSteps ==
  ASSUME Core, SessionInv, Notify \/ Remove \/ \E t \in Tokens : Client(t)
  PROVE  Step
<1> USE SizesAssumption DEF Core, TypeOK
<1>1. CASE Notify
  <2>1. PICK i \in 0..MaxNotifications : IsNewest(i) /\ table' = [table EXCEPT ![i + 1] = born + 1]
    BY <1>1 DEF Notify
  <2>2. i <= born /\ i + 1 \in Numbers
    BY <1>1, <2>1, TheNewestWasBorn DEF Notify, NotificationsType, Numbers
  <2>3. Born(i)
    BY <1>1, <2>1, <2>2 DEF Notify, Born, NotificationsType, clientVars, sessionVars, pushVars
  <2> QED BY <2>3 DEF Step
<1>2. CASE Remove
  <2>1. \A j \in Numbers : table'[j] \in {0, table[j]}
    BY <1>2 DEF Remove, NotificationsType
  <2>2. Removed
    BY <1>2, <2>1 DEF Remove, Removed, sessionVars, pushVars
  <2> QED BY <2>2 DEF Step
<1>3. ASSUME NEW t \in Tokens, Client(t) PROVE Step
  <2>1. CASE Subscribe(t)
    <3>1. PICK i \in 0..MaxNotifications :
            IsNewest(i) /\ db' = [db EXCEPT ![t] = NewRow(posts[t] + 1, i)]
      BY <2>1 DEF Subscribe
    <3>2. posts[t] + 1 \in 1..MaxPosts /\ posts[t] \in Nat
      BY <2>1 DEF Subscribe, ClientsType, RowInv
    <3>3. db'[t].endpoint = posts[t] + 1 /\ db'[t].mark = i
      BY <3>1 DEF ClientsType, NewRow
    <3>4. \A u \in Tokens : u # t => db'[u] = db[u]
      BY <3>1 DEF ClientsType
    <3>5. /\ posts'[t] = posts[t] + 1
          /\ \A u \in Tokens : u # t => posts'[u] = posts[u]
      BY <2>1 DEF Subscribe, ClientsType
    <3>6. /\ since'[t][posts[t] + 1] = born
          /\ \A k \in 1..MaxPosts : k # posts[t] + 1 => since'[t][k] = since[t][k]
          /\ \A u \in Tokens : u # t => since'[u] = since[u]
      BY <2>1, <3>2 DEF Subscribe, ClientsType
    <3>7. i <= born
      BY <3>1, TheNewestWasBorn
    <3>8. Inserted(t, i)
      BY <2>1, <3>1, <3>2, <3>3, <3>4, <3>5, <3>6, <3>7
         DEF Subscribe, Inserted, notifVars, sessionVars, pushVars
    <3> QED BY <3>8 DEF Step
  <2>2. CASE ~ Subscribe(t)
    <3>1. UNCHANGED <<table, born, worker, sessionVars, pushVars, since>>
      BY <1>3, <2>2 DEF Client, Authorize, Update, Unsubscribe, Revoke, Expire, Elapse, notifVars
    <3>2. subs' \subseteq subs
      BY <1>3, <2>2 DEF Client, Authorize, Update, Unsubscribe, Revoke, Expire, Elapse
    <3>3. \A u \in subs' : db'[u].endpoint = db[u].endpoint /\ db'[u].mark = db[u].mark
      <4>1. CASE Authorize(t) \/ Expire(t)
        BY <4>1 DEF Authorize, Expire
      <4>2. CASE Update(t) \/ Elapse(t)
        <5>1. db[t] \in Row /\ db \in [Tokens -> Row]
          BY DEF ClientsType
        <5>2. db' = [db EXCEPT ![t] = [db[t] EXCEPT !.wants = ~ @]]
              \/ db' = [db EXCEPT ![t] = [db[t] EXCEPT !.waiting = FALSE]]
          BY <4>2 DEF Update, Elapse
        <5>3. /\ [db[t] EXCEPT !.wants = ~ @].endpoint = db[t].endpoint
              /\ [db[t] EXCEPT !.wants = ~ @].mark = db[t].mark
              /\ [db[t] EXCEPT !.waiting = FALSE].endpoint = db[t].endpoint
              /\ [db[t] EXCEPT !.waiting = FALSE].mark = db[t].mark
          BY <5>1 DEF Row
        <5>4. /\ db'[t].endpoint = db[t].endpoint /\ db'[t].mark = db[t].mark
              /\ \A u \in Tokens : u # t => db'[u] = db[u]
          BY <5>1, <5>2, <5>3
        <5> QED BY <3>2, <5>4 DEF ClientsType
      <4>3. CASE Unsubscribe(t) \/ Revoke(t)
        BY <4>3 DEF Unsubscribe, Revoke, ClientsType
      <4> QED BY <1>3, <2>2, <4>1, <4>2, <4>3 DEF Client
    <3>4. \A u \in Tokens : posts[u] <= posts'[u] /\ (posts[u] = 0 => posts'[u] = 0)
      <4>1. \A u \in Tokens : posts[u] \in 0..MaxPosts
        BY DEF ClientsType
      <4>2. CASE Unsubscribe(t)
        <5>1. posts[t] > 0
          <6>1. t \in subs
            BY <4>2 DEF Unsubscribe
          <6>2. db[t].endpoint \in 0..MaxPosts
            BY ATokensRow DEF ClientsType
          <6>3. 1 <= db[t].endpoint /\ db[t].endpoint <= posts[t]
            BY <6>1 DEF RowInv
          <6> QED BY <4>1, <6>2, <6>3
        <5>2. posts' = [posts EXCEPT ![t] = MaxPosts]
          BY <4>2 DEF Unsubscribe
        <5> QED BY <4>1, <5>1, <5>2 DEF ClientsType
      <4>3. CASE posts' = posts
        BY <4>1, <4>3
      <4> QED BY <1>3, <2>2, <4>2, <4>3 DEF Client, Authorize, Update, Revoke, Expire, Elapse
    <3>5. \A u \in posting' : /\ u \in posting \/ posts[u] = 0 \/ "replace" \in Calls
                              /\ posts'[u] = posts[u]
      BY <1>3, <2>2 DEF Client, Authorize, Update, Unsubscribe, Revoke, Expire, Elapse,
                        ClientsType
    <3>6. Quiet
      BY <3>1, <3>2, <3>3, <3>4, <3>5 DEF Quiet, Still, sessionVars, pushVars, SessionInv
    <3> QED BY <3>6 DEF Step
  <2> QED BY <2>1, <2>2
<1> QED BY <1>1, <1>2, <1>3

LEMMA WorkIsAStep ==
  ASSUME Core, SessionInv, PairInv, Work \/ Abort \/ Crash
  PROVE  Step
<1> USE SizesAssumption DEF Core, TypeOK
<1> DEFINE Drops == LoseRow \/ Abort \/ Crash \/ \E t \in current, e \in todo : Poison(t, e)
<1>0. \A t \in Tokens : posts[t] <= posts[t]
  BY DEF ClientsType
<1>1. CASE Drops
  <2>1. Rollback /\ worker' \in {"idle", "down"}
    BY <1>1 DEF LoseRow, Abort, Crash, Poison
  <2>2. newest' <= born /\ held' = {} /\ acked' = {} /\ batch' = {} /\ current' = {}
    BY <2>1 DEF Rollback, Release, NotificationsType
  <2>3. Quiet
    BY <1>0, <2>1, <2>2 DEF Rollback, Quiet, Still, Resting, notifVars, clientVars
  <2> QED BY <2>3 DEF Step
<1>2. CASE PollEmpty \/ ReadNewest \/ Restart
  <2>1. newest' <= born
    <3>1. CASE ReadNewest
      BY <3>1, TheNewestWasBorn DEF ReadNewest
    <3>2. CASE PollEmpty \/ Restart
      BY <3>2 DEF PollEmpty, Restart, sessionVars, SessionInv
    <3> QED BY <1>2, <3>1, <3>2
  <2>2. current = {}
    BY <1>2 DEF PollEmpty, ReadNewest, Restart, WorkerType
  <2>3. CASE PollEmpty
    <3>1. acked = {}
      BY <2>3 DEF PollEmpty, PairInv, Resting
    <3>2. Quiet
      BY <1>0, <2>1, <2>2, <2>3, <3>1
         DEF PollEmpty, Release, Quiet, Still, Resting, notifVars, clientVars, pushVars
    <3> QED BY <3>2 DEF Step
  <2>4. CASE ReadNewest
    <3>1. Quiet
      BY <1>0, <2>1, <2>2, <2>4
         DEF ReadNewest, Quiet, Still, Resting, notifVars, clientVars, pushVars
    <3> QED BY <3>1 DEF Step
  <2>5. CASE Restart
    <3>1. Quiet
      BY <1>0, <2>1, <2>2, <2>5
         DEF Restart, Quiet, Still, Resting, notifVars, clientVars, sessionVars, pushVars
    <3> QED BY <3>1 DEF Step
  <2> QED BY <1>2, <2>3, <2>4, <2>5
<1>3. CASE Poll
  <2>1. current = {}
    BY <1>3 DEF Poll, WorkerType
  <2>2. held' \subseteq subs
    BY <1>3, APollLoads DEF Due
  <2>3. Loaded
    BY <1>3, <2>1, <2>2, APollLoads DEF Poll, Loaded, notifVars, clientVars, pushVars
  <2> QED BY <2>3 DEF Step
<1>4. ASSUME NEW t \in batch, StartExpired(t) \/ StartCaughtUp(t) PROVE Step
  <2>1. Quiet
    BY <1>0, <1>4 DEF StartExpired, StartCaughtUp, Quiet, Still, Resting, SessionInv, notifVars,
                      clientVars, pushVars
  <2> QED BY <2>1 DEF Step
<1>5. ASSUME NEW t \in batch, Start(t) PROVE Step
  <2>1. t \in held /\ t \in Tokens
    BY DEF WorkerType
  <2>2. /\ MarkClamped(t) \in 0..MaxNotifications /\ MarkClamped(t) < newest
        /\ mem[t].mark <= MarkClamped(t)
    <3>1. mem[t].mark \in 0..MaxNotifications
      BY <2>1, ATokensRow DEF WorkerType
    <3> QED BY <1>5, <2>1, <3>1, ClampIsAMark DEF Start
  <2>3. Moves(t, MarkClamped(t))
    BY <1>5, <2>1, <2>2, AMarkMoves DEF Start
  <2>4. Begun(t)
    BY <1>5, <2>1, <2>2, <2>3 DEF Start, Begun, notifVars, clientVars
  <2> QED BY <2>1, <2>4 DEF Step
<1>6. ASSUME NEW t \in current, NEW e \in todo, Skip(t, e) \/ Answer(t, e) PROVE Step
  <2>1. t \in held /\ t \in Tokens /\ e.id \in 0..MaxNotifications
    BY DEF WorkerType, Numbers
  <2>2. CASE Skip(t, e) \/ Accept(t, e) \/ TooLarge(t, e)
    <3>1. Moves(t, e.id)
      BY <2>1, <2>2, AMarkMoves DEF Skip, Accept, TooLarge
    <3>2. Popped(t, e)
      BY <2>1, <2>2, <3>1 DEF Skip, Accept, TooLarge, Deliverable, Candidate, Popped, notifVars,
                              clientVars
    <3> QED BY <3>2 DEF Step
  <2>3. CASE Gone(t, e)
    <3>1. Quiet
      BY <1>0, <2>3 DEF Gone, NextSubscription, Quiet, Still, Resting, SessionInv, notifVars,
                        clientVars, pushVars
    <3> QED BY <3>1 DEF Step
  <2>4. CASE Fail(t, e)
    <3>1. Moves(t, mem[t].mark)
      BY <2>1, <2>4, AFailureMovesNoMark
    <3>2. \A u \in held : mem'[u].endpoint = mem[u].endpoint /\ mem'[u].mark = mem[u].mark
      BY <3>1 DEF Moves, WorkerType
    <3>3. Still /\ current' = {}
      BY <1>0, <2>4, <3>2 DEF Fail, NextSubscription, Still, Resting, SessionInv, notifVars,
                              clientVars
    <3>4. /\ Receive(Pair(t, e)) \/ UNCHANGED <<pushed, faults>>
          /\ \A d \in todo : e.id <= d.id
      BY <2>4 DEF Fail, Deliverable, Candidate
    <3> QED BY <3>3, <3>4 DEF Quiet, Unsure, Step
  <2> QED BY <1>6, <2>2, <2>3, <2>4 DEF Answer
<1>7. CASE Enough
  <2>1. Quiet
    BY <1>0, <1>7 DEF Enough, NextSubscription, Quiet, Still, Resting, SessionInv, notifVars,
                      clientVars, pushVars
  <2> QED BY <2>1 DEF Step
<1>8. ASSUME NEW t \in current, Exhausted(t) PROVE Step
  <2>1. t \in held /\ t \in Tokens /\ newest \in 0..MaxNotifications
    BY DEF WorkerType
  <2>2. Moves(t, newest)
    BY <1>8, <2>1, AMarkMoves DEF Exhausted
  <2>3. Done(t)
    BY <1>8, <2>1, <2>2 DEF Exhausted, NextSubscription, Done, notifVars, clientVars, pushVars
  <2> QED BY <2>1, <2>3 DEF Step
<1>9. CASE Commit
  <2>1. \A t \in subs' :
          /\ db'[t].endpoint = db[t].endpoint
          /\ db'[t].mark = IF t \in held /\ mem[t].mark # base[t].mark THEN mem[t].mark
                                                                    ELSE db[t].mark
    <3>1. ASSUME NEW t \in subs \ doomed
          PROVE  /\ db'[t].endpoint = db[t].endpoint
                 /\ db'[t].mark = IF t \in held /\ mem[t].mark # base[t].mark THEN mem[t].mark
                                                                    ELSE db[t].mark
      <4>1. t \in Tokens /\ db'[t] = IF t \in Touched THEN Written(t) ELSE db[t]
        BY <1>9 DEF Commit, ClientsType
      <4>2. t \in held /\ mem[t].mark # base[t].mark => t \in Touched
        BY DEF Touched
      <4>3. t \in Touched => t \in held
        BY DEF Touched
      <4> QED BY <4>1, <4>2, <4>3, WrittenIsARow
    <3> QED BY <1>9, <3>1 DEF Commit
  <2>2. current = {}
    BY <1>9 DEF Commit, WorkerType
  <2>3. held' = held \ doomed /\ \A t \in held' : mem'[t] = mem[t] /\ base'[t] = mem[t]
    BY <1>9 DEF Commit, WorkerType
  <2>4. Committed
    BY <1>9, <2>1, <2>2, <2>3 DEF Commit, Committed, notifVars
  <2> QED BY <2>4 DEF Step
<1> QED BY <1>1, <1>2, <1>3, <1>4, <1>5, <1>6, <1>7, <1>8, <1>9 DEF Work

-----------------------------------------------------------------------------
(* The session and the candidates. *)

\* Everything a comparison needs to be a number.
Sizes ==
  /\ born \in Nat /\ newest \in Nat
  /\ \A i \in Numbers : i \in Nat /\ table[i] \in Nat
  /\ \A t \in Tokens :
       /\ posts[t] \in Nat
       /\ db[t].endpoint \in Nat /\ db[t].mark \in Nat
       /\ mem[t].endpoint \in Nat /\ mem[t].mark \in Nat
       /\ base[t].endpoint \in Nat /\ base[t].mark \in Nat
  /\ subs \subseteq Tokens /\ held \subseteq Tokens /\ batch \subseteq held
  /\ current \subseteq held \ batch /\ \A t, u \in current : t = u
  /\ \A d \in todo : d.id \in Numbers /\ d.number \in Numbers

LEMMA CoreHasSizes == Core => Sizes
<1> SUFFICES ASSUME Core PROVE Sizes
  OBVIOUS
<1> USE DEF Core, TypeOK
<1>1. \A t \in Tokens :
        /\ db[t].endpoint \in Nat /\ db[t].mark \in Nat
        /\ mem[t].endpoint \in Nat /\ mem[t].mark \in Nat
        /\ base[t].endpoint \in Nat /\ base[t].mark \in Nat
  <2>1. /\ db \in [Tokens -> Row] /\ mem \in [Tokens -> Row] /\ base \in [Tokens -> Row]
    BY DEF ClientsType, WorkerType
  <2> QED BY <2>1, ATokensRow
<1>2. /\ subs \subseteq Tokens /\ held \subseteq Tokens /\ batch \subseteq held
      /\ current \subseteq held \ batch /\ \A t, u \in current : t = u
      /\ \A d \in todo : d.id \in Numbers /\ d.number \in Numbers
      /\ newest \in Nat
  BY DEF ClientsType, WorkerType
<1>3. \A t \in Tokens : posts[t] \in Nat
  BY DEF ClientsType
<1>4. born \in Nat /\ \A i \in Numbers : i \in Nat /\ table[i] \in Nat
  BY DEF NotificationsType, Numbers
<1> QED BY <1>1, <1>2, <1>3, <1>4 DEF Sizes

LEMMA InitIsSession == Init => SessionInv /\ TodoInv
  BY DEF Init, SessionInv, TodoInv

LEMMA StepsKeepSession ==
  ASSUME Sizes, Sizes', TableInv, RowInv, SessionInv, TodoInv, Step
  PROVE  SessionInv' /\ TodoInv'
<1>1. ASSUME Still PROVE SessionInv' /\ TodoInv'
  <2>1. SessionInv'
    BY <1>1 DEF Still, SessionInv, Sizes, Resting
  <2>2. TodoInv'
    <3>1. CASE current' = {}
      BY <3>1 DEF TodoInv
    <3>2. CASE current' = current /\ UNCHANGED <<todo, newest>>
      <4>1. \A t \in current' : t \in held' /\ mem'[t].mark = mem[t].mark
        BY <1>1, <3>2 DEF Still, Sizes
      <4> QED BY <1>1, <3>2, <4>1 DEF Still, TodoInv
    <3> QED BY <1>1, <3>1, <3>2 DEF Still
  <2> QED BY <2>1, <2>2
<1>2. CASE Removed
  <2>1. SessionInv'
    BY <1>2 DEF Removed, SessionInv
  <2>2. TodoInv'
    BY <1>2 DEF Removed, TodoInv, Sizes
  <2> QED BY <2>1, <2>2
<1>3. ASSUME NEW i \in 0..MaxNotifications, Born(i) PROVE SessionInv' /\ TodoInv'
  <2>1. SessionInv'
    BY <1>3 DEF Born, SessionInv, Sizes
  <2>2. TodoInv'
    BY <1>3 DEF Born, TodoInv, Sizes
  <2> QED BY <2>1, <2>2
<1>4. ASSUME NEW i \in 0..MaxNotifications, NEW t \in Tokens, Inserted(t, i)
      PROVE  SessionInv' /\ TodoInv'
  <2>1. SessionInv'
    BY <1>4 DEF Inserted, SessionInv, Sizes
  <2>2. TodoInv'
    BY <1>4 DEF Inserted, TodoInv
  <2> QED BY <2>1, <2>2
<1>5. CASE Loaded
  <2>1. \A t \in held' :
          /\ mem'[t].mark <= born
          /\ 1 <= mem'[t].endpoint /\ mem'[t].endpoint <= posts[t]
          /\ mem'[t].endpoint <= db[t].endpoint
          /\ mem'[t].endpoint = db[t].endpoint => db[t].mark = mem'[t].mark
    BY <1>5 DEF Loaded, SessionInv, RowInv, Sizes, Resting
  <2>3. SessionInv'
    BY <1>5, <2>1 DEF Loaded, SessionInv, Sizes
  <2>2. TodoInv'
    BY <1>5 DEF Loaded, TodoInv
  <2> QED BY <2>2, <2>3
<1>6. ASSUME NEW t \in Tokens, Begun(t) PROVE SessionInv' /\ TodoInv'
  <2>1. mem'[t].mark = MarkClamped(t) /\ mem[t].mark <= mem'[t].mark /\ mem'[t].mark < newest
    BY <1>6 DEF Begun, Moves
  <2>2. SessionInv'
    BY <1>6, <2>1 DEF Begun, Moves, SessionInv, Sizes, Resting
  <2>3. \A d \in todo' :
          /\ d.id \in Numbers /\ d.number = table[d.id] /\ table[d.id] # 0
          /\ mem'[t].mark < d.id /\ d.id <= newest
          /\ d = [id |-> d.id, number |-> table[d.id]]
    BY <1>6, <2>1 DEF Begun, Selected
  <2>4. \A i, j \in Numbers : table[i] # 0 /\ table[i] = table[j] => i = j
    BY DEF TableInv, Sizes
  <2>5. TodoInv'
    BY <1>6, <2>1, <2>3, <2>4 DEF Begun, TodoInv, TableInv, Sizes
  <2> QED BY <2>2, <2>5
<1>7. ASSUME NEW t \in Tokens, Done(t) PROVE SessionInv' /\ TodoInv'
  <2>1. mem'[t].mark = newest /\ mem[t].mark <= newest /\ t \notin batch
    BY <1>7 DEF Done, Moves, TodoInv, Sizes
  <2>2. SessionInv'
    BY <1>7, <2>1 DEF Done, Moves, SessionInv, Sizes, Resting
  <2>3. TodoInv'
    BY <1>7 DEF Done, TodoInv
  <2> QED BY <2>2, <2>3
<1>8. ASSUME NEW t \in current, NEW e \in todo, Popped(t, e) PROVE SessionInv' /\ TodoInv'
  <2>1. /\ mem'[t].mark = e.id /\ mem[t].mark < e.id /\ e.id <= newest /\ t \notin batch
        /\ e.id <= born
    BY <1>8 DEF Popped, Moves, TodoInv, SessionInv, Sizes
  <2>2. SessionInv'
    BY <1>8, <2>1 DEF Popped, Moves, SessionInv, Sizes, Resting
  <2>3. \A d \in todo' : d \in todo /\ e.id < d.id
    BY <1>8 DEF Popped, TodoInv, Sizes
  <2>4. TodoInv'
    <3>1. \A u \in current' : /\ u \in current /\ mem'[u].mark <= newest'
                              /\ \A d \in todo' : mem'[u].mark < d.id
      BY <1>8, <2>1, <2>3 DEF Popped, Moves, TodoInv, Sizes
    <3>2. UNCHANGED <<table, born, newest>>
      BY <1>8 DEF Popped
    <3> QED BY <2>3, <3>1, <3>2 DEF TodoInv
  <2> QED BY <2>2, <2>4
<1>9. CASE Committed
  <2>1. SessionInv'
    BY <1>9 DEF Committed, SessionInv, Sizes, Resting
  <2>2. TodoInv'
    BY <1>9 DEF Committed, TodoInv
  <2> QED BY <2>1, <2>2
<1> QED BY <1>1, <1>2, <1>3, <1>4, <1>5, <1>6, <1>7, <1>8, <1>9 DEF Step, Quiet, Unsure

-----------------------------------------------------------------------------
(* The histories. *)

LEMMA InitIsPair == Init => PairInv
  BY DEF Init, PairInv, Histories

LEMMA HistoriesArePairs ==
  ASSUME HistoriesType
  PROVE  \A p \in Histories : /\ p \in Pairs /\ p = <<p[1], p[2], p[3]>>
                              /\ p[1] \in Tokens /\ p[2] \in Nat /\ p[3] \in Numbers
  BY DEF HistoriesType, Histories, Pairs

\* What is known of the pair of a candidate.
LEMMA APairIsKnown ==
  ASSUME Sizes, SessionInv, NEW t \in held, NEW n \in Nat, n <= born
  PROVE  Known(<<t, mem[t].endpoint, n>>)
  BY DEF Known, SessionInv, Sizes

LEMMA StepsKeepKnown ==
  ASSUME Sizes, Sizes', RowInv, SessionInv, Step, NEW p \in Pairs, Known(p)
  PROVE  Known(p)'
<1>0. p[1] \in Tokens /\ p[2] \in Nat /\ p[3] \in Nat /\ p = <<p[1], p[2], p[3]>>
  BY DEF Pairs, Numbers
<1>1. CASE Still
  BY <1>0, <1>1 DEF Still, Known, Sizes
<1>2. CASE Removed
  BY <1>2 DEF Removed, Known
<1>3. ASSUME NEW i \in 0..MaxNotifications, Born(i) PROVE Known(p)'
  BY <1>0, <1>3 DEF Born, Known, Sizes
<1>4. ASSUME NEW i \in 0..MaxNotifications, NEW t \in Tokens, Inserted(t, i) PROVE Known(p)'
  BY <1>0, <1>4 DEF Inserted, Known, Sizes
<1>5. CASE Loaded
  BY <1>0, <1>5 DEF Loaded, Known, Sizes
<1>6. ASSUME NEW t \in Tokens, NEW i, Moves(t, i), UNCHANGED <<born, posts, held, subs, db>>
      PROVE  Known(p)'
  BY <1>0, <1>6 DEF Moves, Known
<1>7. CASE Committed
  BY <1>0, <1>7 DEF Committed, Known, Sizes
<1> QED BY <1>1, <1>2, <1>3, <1>4, <1>5, <1>6, <1>7
        DEF Step, Quiet, Unsure, Begun, Popped, Done, Sizes

LEMMA StepsKeepPairs ==
  ASSUME Sizes, Sizes', HistoriesType, HistoriesType', TableInv, RowInv, SessionInv, TodoInv,
         PairInv, Step
  PROVE  PairInv'
<1>1. \A p \in Histories' : Known(p)
  <2>1. ASSUME NEW t \in current, NEW e \in todo
        PROVE  Known(Pair(t, e))
    <3>1. t \in held /\ e.number \in Nat /\ e.number <= born
      BY DEF TodoInv, Sizes, Numbers
    <3> QED BY <3>1, APairIsKnown DEF Pair
  <2>2. CASE \E t \in current, e \in todo : Unsure(t, e) \/ Popped(t, e)
    <3>1. Histories' \subseteq Histories \union {Pair(t, e) : t \in current, e \in todo}
      BY <2>2 DEF Unsure, Still, Popped, Receive, Histories
    <3> QED BY <2>1, <3>1 DEF PairInv
  <2>3. ASSUME NEW t \in Tokens, Begun(t) PROVE \A p \in Histories' : Known(p)
    <3>1. \A i \in Numbers : table[i] # 0 => Known(<<t, mem[t].endpoint, table[i]>>)
      BY <2>3, APairIsKnown DEF Begun, TableInv, Sizes
    <3>2. \A p \in Histories' : p \in Histories \/ \E i \in Numbers :
            table[i] # 0 /\ p = <<t, mem[t].endpoint, table[i]>>
      BY <2>3 DEF Begun, Histories
    <3> QED BY <3>1, <3>2 DEF PairInv
  <2>4. CASE Quiet \/ Removed \/ Loaded \/ Committed
             \/ \E i \in 0..MaxNotifications : Born(i) \/ \E t \in Tokens : Inserted(t, i)
    <3>1. Histories' \subseteq Histories
      BY <2>4 DEF Quiet, Still, Removed, Loaded, Committed, Born, Inserted, Histories
    <3> QED BY <3>1 DEF PairInv
  <2>5. CASE \E t \in Tokens : Done(t)
    <3>1. Histories' \subseteq Histories
      BY <2>5 DEF Done, Histories
    <3> QED BY <3>1 DEF PairInv
  <2> QED BY <2>2, <2>3, <2>4, <2>5 DEF Step
<1>2. \A p \in Histories' : Known(p)'
  BY <1>1, StepsKeepKnown DEF Histories, HistoriesType
<1>3. \A p \in acked' : p[1] \in held' /\ p[2] = mem'[p[1]].endpoint
  <2>1. CASE Still
    BY <2>1 DEF Still, PairInv
  <2>2. CASE Removed \/ Loaded \/ Committed
             \/ \E i \in 0..MaxNotifications : Born(i) \/ \E t \in Tokens : Inserted(t, i)
    BY <2>2 DEF Removed, Loaded, Committed, Born, Inserted, PairInv, Resting
  <2>3. \A p \in acked : p[1] \in Tokens
    BY DEF PairInv, Sizes
  <2>4. ASSUME NEW t \in Tokens, Begun(t) \/ Done(t)
        PROVE  \A p \in acked' : p[1] \in held' /\ p[2] = mem'[p[1]].endpoint
    BY <2>3, <2>4 DEF Begun, Done, Moves, PairInv
  <2>5. ASSUME NEW t \in current, NEW e \in todo, Popped(t, e)
        PROVE  \A p \in acked' : p[1] \in held' /\ p[2] = mem'[p[1]].endpoint
    <3>1. \A p \in acked' : p \in acked \/ p = Pair(t, e)
      BY <2>5 DEF Popped
    <3>2. t \in Tokens /\ t \in held
      BY DEF Sizes
    <3>3. \A u \in Tokens : mem'[u].endpoint = mem[u].endpoint
      BY <2>5, <3>2 DEF Popped, Moves
    <3> QED BY <2>3, <2>5, <3>1, <3>2, <3>3 DEF Popped, Pair, PairInv
  <2> QED BY <2>1, <2>2, <2>4, <2>5 DEF Step, Quiet, Unsure
<1>4. worker' \in Resting => acked' = {}
  BY DEF Step, Quiet, Unsure, Still, Removed, Loaded, Committed, Born, Inserted, Begun, Done,
         Popped, PairInv, Resting
<1> QED BY <1>2, <1>3, <1>4 DEF PairInv

-----------------------------------------------------------------------------
(* Nothing that was settled is sent again. *)

LEMMA InitIsAgain == Init => AgainInv
  BY DEF Init, AgainInv, AckedInv, SettledInv, UnsettledInv

LEMMA StepsKeepAgain ==
  ASSUME Sizes, Sizes', HistoriesType, RowInv, SessionInv, TodoInv, PairInv, AgainInv, Step
  PROVE  AgainInv'
<1> USE DEF AgainInv
<1>1. \A p \in settled \union acked : Known(p) /\ p[3] \in Numbers
  BY HistoriesArePairs DEF PairInv, Histories
<1>2. ASSUME NEW t, NEW e, NEW n, <<t, e, n>> \in settled \union acked
      PROVE  n <= born /\ n # 0 /\ e <= posts[t] /\ (t \in held => e <= mem[t].endpoint)
  <2>1. Known(<<t, e, n>>) /\ <<t, e, n>>[3] \in Numbers
    BY <1>1, <1>2
  <2> QED BY <2>1 DEF Known, Numbers
<1>3. CASE Quiet \/ \E t \in current, e \in todo : Unsure(t, e)
  <2>0. Still
    BY <1>3 DEF Quiet, Unsure
  <2>1. AckedInv' /\ SettledInv'
    BY <2>0 DEF Still, AckedInv, SettledInv
  <2>2. UnsettledInv'
    BY <2>0 DEF Still, UnsettledInv, Pair, Sizes
  <2>3. CASE Quiet
    BY <2>1, <2>2, <2>3 DEF Quiet
  <2>4. ASSUME NEW t \in current, NEW e \in todo, Receive(Pair(t, e)) PROVE AgainInv'
    BY <2>1, <2>2, <2>4 DEF Receive, UnsettledInv
  <2> QED BY <1>3, <2>3, <2>4 DEF Unsure
<1>4. CASE Removed
  <2>1. AckedInv' /\ SettledInv'
    BY <1>2, <1>4 DEF Removed, AckedInv, SettledInv
  <2>2. UnsettledInv'
    BY <1>4 DEF Removed, UnsettledInv, Pair
  <2> QED BY <1>4, <2>1, <2>2 DEF Removed
<1>5. ASSUME NEW i \in 0..MaxNotifications, Born(i) PROVE AgainInv'
  <2>1. born + 1 > born
    BY DEF Sizes
  <2>2. AckedInv' /\ SettledInv'
    BY <1>2, <1>5, <2>1 DEF Born, AckedInv, SettledInv, Sizes
  <2>3. UnsettledInv'
    BY <1>5 DEF Born, UnsettledInv, Pair
  <2> QED BY <1>5, <2>2, <2>3 DEF Born
<1>6. ASSUME NEW i \in 0..MaxNotifications, NEW t \in Tokens, Inserted(t, i) PROVE AgainInv'
  <2>1. AckedInv' /\ UnsettledInv'
    BY <1>6 DEF Inserted, AckedInv, UnsettledInv, Pair
  <2>2. \A n : <<t, posts[t] + 1, n>> \notin settled
    BY <1>2, <1>6 DEF Inserted, Sizes
  <2>3. SettledInv'
    BY <1>6, <2>2 DEF Inserted, SettledInv, Sizes
  <2> QED BY <1>6, <2>1, <2>3 DEF Inserted
<1>7. CASE Loaded
  <2>1. acked = {}
    BY <1>7 DEF Loaded, PairInv, Resting
  <2>2. AckedInv'
    BY <1>7, <2>1 DEF Loaded, AckedInv, SettledInv
  <2>3. SettledInv' /\ UnsettledInv'
    BY <1>7 DEF Loaded, SettledInv, UnsettledInv
  <2> QED BY <1>7, <2>2, <2>3 DEF Loaded
<1>8. ASSUME NEW t \in Tokens, NEW i \in Nat, Moves(t, i), mem[t].mark <= i,
             UNCHANGED <<table, held, settled, acked, subs, db>>
      PROVE  AckedInv' /\ SettledInv'
  <2>1. \A u \in held : mem'[u].endpoint = mem[u].endpoint /\ mem[u].mark <= mem'[u].mark
    BY <1>8 DEF Moves, Sizes
  <2>2. AckedInv'
    BY <1>8, <2>1 DEF AckedInv, Sizes
  <2> QED BY <1>8, <2>2 DEF SettledInv
<1>9. ASSUME NEW t \in Tokens, Begun(t) PROVE AgainInv'
  <2>1. MarkClamped(t) \in Nat /\ mem[t].mark <= MarkClamped(t) /\ Moves(t, MarkClamped(t))
        /\ mem'[t].endpoint = mem[t].endpoint
    BY <1>9 DEF Begun, Moves, Sizes
  <2>2. AckedInv' /\ SettledInv'
    BY <1>8, <1>9, <2>1 DEF Begun
  <2>3. \A d \in todo' : d.id \in Numbers /\ d.number = table[d.id] /\ mem[t].mark < d.id
    BY <1>9, <2>1 DEF Begun, Sizes
  <2>4. UnsettledInv'
    BY <1>9, <2>1, <2>3 DEF Begun, AckedInv, UnsettledInv, Pair, Sizes
  <2> QED BY <1>9, <2>2, <2>4 DEF Begun
<1>10. ASSUME NEW t \in Tokens, Done(t) PROVE AgainInv'
  <2>1. newest \in Nat /\ mem[t].mark <= newest
    BY <1>10 DEF Done, TodoInv, Sizes
  <2>2. AckedInv' /\ SettledInv'
    BY <1>8, <1>10, <2>1 DEF Done
  <2>3. UnsettledInv'
    BY <1>10 DEF Done, UnsettledInv
  <2> QED BY <1>10, <2>2, <2>3 DEF Done
<1>11. ASSUME NEW t \in current, NEW e \in todo, Popped(t, e) PROVE AgainInv'
  <2>1. t \in Tokens /\ t \in held /\ e.id \in Nat /\ mem[t].mark <= e.id
        /\ mem'[t].mark = e.id
        /\ \A j \in Numbers : table[j] = e.number => j = e.id
    BY <1>11 DEF Popped, Moves, TodoInv, Sizes, Numbers
  <2>2. \A u \in Tokens : mem'[u].endpoint = mem[u].endpoint /\ mem[u].mark <= mem'[u].mark
    BY <1>11, <2>1 DEF Popped, Moves, Sizes
  <2>3. SettledInv'
    BY <1>11 DEF Popped, SettledInv
  <2>4. UnsettledInv'
    BY <1>11, <2>2 DEF Popped, UnsettledInv, Pair, Sizes
  <2>5. AckedInv'
    <3>1. SUFFICES ASSUME NEW u \in held, NEW j \in Numbers,
                          <<u, mem[u].endpoint, table[j]>> \in settled \union acked \union {Pair(t, e)}
                   PROVE  j <= mem'[u].mark
      BY <1>11, <2>2 DEF Popped, AckedInv, Sizes
    <3>2. CASE <<u, mem[u].endpoint, table[j]>> \in settled \union acked
      <4>1. j <= mem[u].mark
        BY <3>2 DEF AckedInv
      <4> QED BY <2>2, <4>1 DEF Sizes
    <3>3. CASE <<u, mem[u].endpoint, table[j]>> = Pair(t, e)
      BY <2>1, <3>3 DEF Pair, Numbers
    <3> QED BY <3>1, <3>2, <3>3
  <2>6. "again" \notin faults'
    BY <1>11 DEF Popped, Receive, UnsettledInv
  <2> QED BY <2>3, <2>4, <2>5, <2>6
<1>12. CASE Committed
  <2>1. AckedInv'
    BY <1>12 DEF Committed, AckedInv
  <2>2. UnsettledInv'
    BY <1>12 DEF Committed, UnsettledInv
  <2>3. SettledInv'
    <3>1. SUFFICES ASSUME NEW t \in subs', NEW j \in Numbers,
                          <<t, db[t].endpoint, table[j]>> \in settled \union acked
                   PROVE  j <= db'[t].mark
      BY <1>12 DEF Committed, SettledInv
    <3>2. t \in subs /\ db'[t].mark = IF t \in held /\ mem[t].mark # base[t].mark
                                      THEN mem[t].mark ELSE db[t].mark
      BY <1>12 DEF Committed
    <3>3. CASE t \notin held
      <4>1. <<t, db[t].endpoint, table[j]>> \in settled
        BY <3>1, <3>3 DEF PairInv
      <4> QED BY <3>2, <3>3, <4>1 DEF SettledInv
    <3>4. CASE t \in held
      <4>1. db[t].endpoint = mem[t].endpoint
        BY <1>2, <3>1, <3>2, <3>4 DEF SessionInv, Sizes
      <4>2. db'[t].mark = mem[t].mark
        BY <3>2, <3>4, <4>1 DEF SessionInv
      <4> QED BY <3>1, <3>4, <4>1, <4>2 DEF AckedInv
    <3> QED BY <3>3, <3>4
  <2> QED BY <1>12, <2>1, <2>2, <2>3 DEF Committed
<1> QED BY <1>3, <1>4, <1>5, <1>6, <1>7, <1>9, <1>10, <1>11, <1>12 DEF Step

-----------------------------------------------------------------------------
(* First copies arrive in the order of the births. *)

LEMMA InitIsOrder == Init => OrderInv
  BY DEF Init, OrderInv, MemOrderInv, RowOrderInv, TodoOrderInv, TodoCoverInv, Passed

\* The next candidate may be pushed: what is older was dealt with, or lies below the
\* watermark the object was loaded with.
LEMMA TheNextMayBePushed ==
  ASSUME Sizes, TodoInv, OrderInv, NEW t \in current, NEW e \in todo,
         \A d \in todo : e.id <= d.id,
         NEW j \in Numbers, Selected(j), table[j] < e.number
  PROVE  Had(t, mem[t].endpoint, table[j]) \/ j <= base[t].mark
<1>1. ASSUME NEW d \in todo, d.number < e.number PROVE FALSE
  <2>1. e.id \in Nat /\ d.id \in Nat /\ e.number \in Nat /\ d.number \in Nat /\ e.id <= d.id
    BY DEF Sizes, Numbers
  <2>2. (e.id < d.id => e.number < d.number) /\ (e.id = d.id => e = d)
    BY DEF TodoInv
  <2> QED BY <1>1, <2>1, <2>2
<1> QED BY <1>1 DEF OrderInv, TodoCoverInv

\* What a push does to the order of those before.
LEMMA APushKeepsOrder ==
  ASSUME Sizes, SessionInv, TodoInv, OrderInv, NEW t \in current, NEW e \in todo,
         \A d \in todo : e.id <= d.id, Receive(Pair(t, e)),
         \A u \in held' : mem'[u].endpoint = mem[u].endpoint /\ base'[u].mark = base[u].mark,
         \A u \in subs' : u \in subs /\ db'[u].endpoint = db[u].endpoint /\ db'[u].mark = db[u].mark,
         dealt \subseteq dealt', held' \subseteq held, UNCHANGED table
  PROVE  MemOrderInv' /\ RowOrderInv' /\ "late" \notin faults'
<1>1. \A j \in Numbers : Selected(j) /\ table[j] < e.number =>
        Had(t, mem[t].endpoint, table[j]) \/ j <= base[t].mark
  BY TheNextMayBePushed
<1>2. pushed' = pushed \union {Pair(t, e)} /\ t \in held
  BY DEF Receive, Sizes
<1>3. MemOrderInv'
  BY <1>1, <1>2 DEF OrderInv, MemOrderInv, Passed, Had, Selected, Pair
<1>4. RowOrderInv'
  BY <1>1, <1>2 DEF OrderInv, RowOrderInv, Passed, Had, Selected, Pair, SessionInv
<1>5. "late" \notin faults'
  <2>1. \A q \in pushed : q[1] = t /\ q[2] = mem[t].endpoint /\ q[3] > e.number =>
          Pair(t, e) \in dealt \union pushed
    <3>1. ASSUME NEW q \in pushed, q[1] = t, q[2] = mem[t].endpoint, q[3] > e.number
          PROVE  Pair(t, e) \in dealt \union pushed
      BY <3>1 DEF OrderInv, TodoOrderInv, Had, Pair
    <3> QED BY <3>1
  <2> QED BY <2>1 DEF Receive, Pair, OrderInv
<1> QED BY <1>3, <1>4, <1>5

LEMMA StepsKeepOrder ==
  ASSUME Sizes, Sizes', HistoriesType, TableInv, SessionInv, TodoInv, PairInv, OrderInv, Step
  PROVE  OrderInv'
<1> USE DEF OrderInv
<1>1. \A p \in pushed : Known(p) /\ p[1] \in Tokens /\ p[2] \in Nat /\ p[3] \in Nat /\ p[3] <= born
  BY HistoriesArePairs DEF PairInv, Histories, Known, Numbers
<1>2. CASE Quiet
  <2>1. MemOrderInv' /\ RowOrderInv'
    BY <1>2 DEF Quiet, Still, MemOrderInv, RowOrderInv, Passed, Had, Selected
  <2>2. TodoOrderInv' /\ TodoCoverInv'
    <3>1. CASE current' = {}
      BY <3>1 DEF TodoOrderInv, TodoCoverInv
    <3>2. CASE current' = current /\ UNCHANGED <<todo, newest>>
      <4>1. \A t \in current' : mem'[t].endpoint = mem[t].endpoint /\ base'[t] = base[t]
        BY <1>2, <3>2 DEF Quiet, Still, Sizes
      <4> QED BY <1>2, <3>2, <4>1 DEF Quiet, Still, TodoOrderInv, TodoCoverInv, Had, Selected
    <3> QED BY <1>2, <3>1, <3>2 DEF Quiet, Still
  <2> QED BY <1>2, <2>1, <2>2 DEF Quiet
<1>3. ASSUME NEW t \in current, NEW e \in todo, Unsure(t, e) PROVE OrderInv'
  <2>1. MemOrderInv' /\ RowOrderInv' /\ "late" \notin faults'
    BY <1>3, APushKeepsOrder DEF Unsure, Still
  <2>2. TodoOrderInv' /\ TodoCoverInv'
    BY <1>3 DEF Unsure, TodoOrderInv, TodoCoverInv
  <2> QED BY <2>1, <2>2
<1>4. CASE Removed
  <2>1. \A j \in Numbers : Selected(j)' => Selected(j) /\ table'[j] = table[j]
    BY <1>4 DEF Removed, Selected
  <2>2. MemOrderInv' /\ RowOrderInv'
    BY <1>4, <2>1 DEF Removed, MemOrderInv, RowOrderInv, Passed, Had
  <2>3. TodoOrderInv' /\ TodoCoverInv'
    BY <1>4, <2>1 DEF Removed, TodoOrderInv, TodoCoverInv, Had
  <2> QED BY <1>4, <2>2, <2>3 DEF Removed
<1>5. ASSUME NEW i \in 0..MaxNotifications, Born(i) PROVE OrderInv'
  <2>1. \A j \in Numbers : \/ j = i + 1 /\ table'[j] = born + 1
                           \/ table'[j] = table[j] /\ (Selected(j)' => Selected(j))
    BY <1>5 DEF Born, Selected
  <2>2. MemOrderInv' /\ RowOrderInv'
    BY <1>1, <1>5, <2>1 DEF Born, MemOrderInv, RowOrderInv, Passed, Had, Sizes
  <2>3. \A t \in current, d \in todo : d.number <= born /\ d.number \in Nat
    BY DEF TodoInv, Sizes, Numbers
  <2>4. TodoOrderInv' /\ TodoCoverInv'
    BY <1>5, <2>1, <2>3 DEF Born, TodoOrderInv, TodoCoverInv, Had, Sizes
  <2> QED BY <1>5, <2>2, <2>4 DEF Born
<1>6. ASSUME NEW i \in 0..MaxNotifications, NEW t \in Tokens, Inserted(t, i) PROVE OrderInv'
  <2>1. MemOrderInv' /\ TodoOrderInv' /\ TodoCoverInv'
    BY <1>6 DEF Inserted, MemOrderInv, Passed, TodoOrderInv, TodoCoverInv, Had, Selected
  <2>2. \A p \in pushed : p[1] = t => p[2] # posts[t] + 1
    BY <1>1, <1>6 DEF Known, Sizes
  <2>3. RowOrderInv'
    BY <1>6, <2>2 DEF Inserted, RowOrderInv, Passed, Had, Selected, Sizes
  <2> QED BY <1>6, <2>1, <2>3 DEF Inserted
<1>7. CASE Loaded
  <2>1. RowOrderInv' /\ TodoOrderInv' /\ TodoCoverInv'
    BY <1>7 DEF Loaded, RowOrderInv, Passed, TodoOrderInv, TodoCoverInv, Had, Selected
  <2>2. \A t \in held : mem[t].mark = base[t].mark
    BY <1>7 DEF Loaded, SessionInv, Resting
  <2>3. MemOrderInv'
    BY <1>7, <2>2 DEF Loaded, MemOrderInv, RowOrderInv, Passed, Had, Selected
  <2> QED BY <1>7, <2>1, <2>3 DEF Loaded
<1>8. ASSUME NEW t \in Tokens, Begun(t) PROVE OrderInv'
  <2>1. \A u \in Tokens : mem'[u].endpoint = mem[u].endpoint
    BY <1>8 DEF Begun, Moves
  <2>2. dealt \subseteq dealt' /\ pushed' = pushed /\ table' = table
    BY <1>8 DEF Begun
  <2>3. MemOrderInv' /\ RowOrderInv'
    BY <1>8, <2>1, <2>2 DEF Begun, MemOrderInv, RowOrderInv, Passed, Had, Selected, Sizes
  <2>4. \A d \in todo' :
          /\ d.id \in Numbers /\ d.number = table[d.id] /\ Selected(d.id) /\ d.id <= newest
          /\ base[t].mark < d.id
    BY <1>8 DEF Begun, SessionInv, Sizes, Numbers, Moves
  <2>5. TodoOrderInv'
    BY <1>8, <2>1, <2>2, <2>4 DEF Begun, TodoOrderInv, MemOrderInv, Passed, Had, Sizes
  <2>6. TodoCoverInv'
    <3>1. SUFFICES ASSUME NEW d \in todo', NEW j \in Numbers, Selected(j), table[j] < d.number
                   PROVE  \/ <<t, mem[t].endpoint, table[j]>> \in dealt' \/ j <= base[t].mark
                          \/ \E e \in todo' : e.id = j /\ e.number = table[j]
      BY <1>8, <2>1, <2>2 DEF Begun, TodoCoverInv, Had, Selected
    <3>2. j <= newest
      BY <2>4, <3>1 DEF TableInv, Sizes, Selected
    <3>3. mem[t].mark = base[t].mark
      BY <1>8 DEF Begun, SessionInv
    <3>4. CASE MarkClamped(t) < j
      <4>1. [id |-> j, number |-> table[j]] \in todo'
        BY <1>8, <3>1, <3>2, <3>4 DEF Begun
      <4> QED BY <4>1
    <3>5. CASE mem[t].mark < j /\ j <= MarkClamped(t)
      BY <1>8, <3>1, <3>5 DEF Begun, Selected
    <3>6. MarkClamped(t) \in Nat
      BY <1>8 DEF Begun, Moves, Sizes
    <3> QED BY <3>3, <3>4, <3>5, <3>6 DEF Sizes
  <2> QED BY <1>8, <2>3, <2>5, <2>6 DEF Begun
<1>9. ASSUME NEW t \in Tokens, Done(t) PROVE OrderInv'
  <2>1. \A u \in Tokens : mem'[u].endpoint = mem[u].endpoint
    BY <1>9 DEF Done, Moves
  <2>2. MemOrderInv' /\ RowOrderInv'
    BY <1>9, <2>1 DEF Done, MemOrderInv, RowOrderInv, Passed, Had, Selected, Sizes
  <2>3. TodoOrderInv' /\ TodoCoverInv'
    BY <1>9 DEF Done, TodoOrderInv, TodoCoverInv
  <2> QED BY <1>9, <2>2, <2>3 DEF Done
<1>10. ASSUME NEW t \in current, NEW e \in todo, Popped(t, e) PROVE OrderInv'
  <2>1. \A u \in Tokens : mem'[u].endpoint = mem[u].endpoint
    BY <1>10 DEF Popped, Moves, Sizes
  <2>2. /\ dealt' = dealt \union {Pair(t, e)} /\ todo' = todo \ {e} /\ \A d \in todo : e.id <= d.id
        /\ UNCHANGED <<table, subs, db, current, held, base>>
        /\ UNCHANGED <<pushed, faults>> \/ Receive(Pair(t, e))
    BY <1>10 DEF Popped
  <2>3. MemOrderInv' /\ RowOrderInv' /\ "late" \notin faults'
    <3>1. CASE UNCHANGED <<pushed, faults>>
      BY <2>1, <2>2, <3>1 DEF MemOrderInv, RowOrderInv, Passed, Had, Selected, Sizes
    <3>2. CASE Receive(Pair(t, e))
      BY <2>1, <2>2, <3>2, APushKeepsOrder DEF Sizes
    <3> QED BY <2>2, <3>1, <3>2
  <2>4. \A d \in todo' : e.number < d.number
    BY <2>2 DEF TodoInv, Sizes, Numbers
  <2>5. pushed \subseteq pushed' /\ pushed' \subseteq pushed \union {Pair(t, e)}
    BY <2>2 DEF Receive
  <2>6. TodoOrderInv'
    <3>1. SUFFICES ASSUME NEW u \in current, NEW d \in todo', NEW p \in pushed',
                          p[1] = u, p[2] = mem[u].endpoint, d.number < p[3]
                   PROVE  <<u, mem[u].endpoint, d.number>> \in dealt \union pushed
      BY <2>1, <2>2, <2>5 DEF TodoOrderInv, Had, Sizes
    <3>2. p # Pair(t, e)
      <4>1. e.number \in Nat /\ d.number \in Nat
        BY <2>2 DEF Sizes, Numbers
      <4> QED BY <2>4, <3>1, <4>1 DEF Pair
    <3> QED BY <2>2, <2>5, <3>1, <3>2 DEF TodoOrderInv, Had
  <2>7. TodoCoverInv'
    <3>1. SUFFICES ASSUME NEW u \in current, NEW d \in todo', NEW j \in Numbers,
                          Selected(j), table[j] < d.number
                   PROVE  \/ <<u, mem[u].endpoint, table[j]>> \in dealt' \union pushed'
                          \/ j <= base[u].mark
                          \/ \E c \in todo' : c.id = j /\ c.number = table[j]
      BY <2>1, <2>2 DEF TodoCoverInv, Had, Selected, Sizes
    <3>2. u = t
      BY DEF Sizes
    <3> QED BY <2>2, <2>5, <3>1, <3>2 DEF TodoCoverInv, Had, Pair
  <2> QED BY <2>3, <2>6, <2>7
<1>11. CASE Committed
  <2>1. TodoOrderInv' /\ TodoCoverInv'
    BY <1>11 DEF Committed, TodoOrderInv, TodoCoverInv
  <2>2. MemOrderInv'
    BY <1>11 DEF Committed, MemOrderInv, Passed, Had, Selected, SessionInv, Sizes
  <2>3. RowOrderInv'
    <3>1. SUFFICES ASSUME NEW t \in subs', NEW p \in pushed, NEW j \in Numbers,
                          p[1] = t, p[2] = db[t].endpoint, Selected(j), table[j] < p[3]
                   PROVE  Had(t, db[t].endpoint, table[j]) \/ j <= db'[t].mark
      BY <1>11 DEF Committed, RowOrderInv, Passed, Had, Selected
    <3>2. t \in subs /\ db'[t].mark = IF t \in held /\ mem[t].mark # base[t].mark
                                      THEN mem[t].mark ELSE db[t].mark
      BY <1>11 DEF Committed
    <3>3. CASE t \in held /\ mem[t].mark # base[t].mark
      <4>1. db[t].endpoint = mem[t].endpoint
        BY <1>1, <3>1, <3>2, <3>3 DEF Known, SessionInv, Sizes
      <4>2. base[t].mark <= mem[t].mark /\ db'[t].mark = mem[t].mark
        BY <3>2, <3>3 DEF SessionInv
      <4> QED BY <3>1, <3>3, <4>1, <4>2 DEF MemOrderInv, Passed, Sizes
    <3>4. CASE ~ (t \in held /\ mem[t].mark # base[t].mark)
      BY <3>1, <3>2, <3>4 DEF RowOrderInv, Passed
    <3> QED BY <3>3, <3>4
  <2> QED BY <1>11, <2>1, <2>2, <2>3 DEF Committed
<1> QED BY <1>2, <1>3, <1>4, <1>5, <1>6, <1>7, <1>8, <1>9, <1>10, <1>11 DEF Step

-----------------------------------------------------------------------------
(* The watermark, as long as no subscription is replaced. *)

LEMMA InitIsWater == Init => WaterInv
  BY DEF Init, WaterInv, FirstInv, YoungInv, BelowInv

LEMMA StepsKeepFirst ==
  ASSUME Sizes, Sizes', "replace" \notin Calls, ClientsType, FirstInv, SessionInv, Step
  PROVE  FirstInv'
<1>1. CASE Still
  BY <1>1 DEF Still, FirstInv, Sizes
<1>2. CASE Removed
  BY <1>2 DEF Removed, FirstInv
<1>3. ASSUME NEW i \in 0..MaxNotifications, Born(i) PROVE FirstInv'
  <2>1. \A t \in Tokens : posts[t] > 0 => since[t][1] <= born + 1
    <3>1. ASSUME NEW t \in Tokens, posts[t] > 0 PROVE since[t][1] <= born + 1
      <4>1. since[t][1] <= born /\ since[t][1] \in Nat /\ born \in Nat
        BY <3>1, SizesAssumption DEF FirstInv, ClientsType, Sizes
      <4> QED BY <4>1
    <3> QED BY <3>1
  <2> QED BY <1>3, <2>1 DEF Born, FirstInv
<1>4. ASSUME NEW i \in 0..MaxNotifications, NEW t \in Tokens, Inserted(t, i) PROVE FirstInv'
  <2>1. posts[t] = 0 /\ posts'[t] = 1 /\ db'[t].endpoint = 1 /\ since'[t][1] = born
    BY <1>4 DEF Inserted, FirstInv
  <2>2. born <= born
    BY DEF Sizes
  <2>3. /\ \A u \in Tokens : u # t => db'[u] = db[u] /\ posts'[u] = posts[u] /\ since'[u] = since[u]
        /\ posting' = posting \ {t} /\ subs' = subs \union {t}
        /\ UNCHANGED <<born, held, mem>>
    BY <1>4 DEF Inserted
  <2>4. /\ \A u \in posting' : posts'[u] = 0
        /\ \A u \in Tokens : posts'[u] > 0 => since'[u][1] <= born'
    BY <1>4, <2>1, <2>2, <2>3 DEF FirstInv, ClientsType
  <2>5. (\A u \in subs' : db'[u].endpoint = 1) /\ \A u \in held' : mem'[u].endpoint = 1
    BY <2>1, <2>3 DEF FirstInv, Sizes
  <2> QED BY <2>4, <2>5 DEF FirstInv
<1>5. CASE Loaded
  BY <1>5 DEF Loaded, FirstInv
<1>6. ASSUME NEW t \in Tokens, NEW i, Moves(t, i),
             UNCHANGED <<born, posting, posts, since, held, subs, db>>
      PROVE  FirstInv'
  BY <1>6 DEF Moves, FirstInv, Sizes
<1>7. CASE Committed
  BY <1>7 DEF Committed, FirstInv
<1> QED BY <1>1, <1>2, <1>3, <1>4, <1>5, <1>6, <1>7
        DEF Step, Quiet, Unsure, Begun, Popped, Done, Sizes

LEMMA StepsKeepYoung ==
  ASSUME Sizes, Sizes', "replace" \notin Calls, ClientsType, HistoriesType, RowInv, FirstInv, SessionInv,
         TodoInv, PairInv, YoungInv, Step
  PROVE  YoungInv'
<1>1. 1 \in 1..MaxPosts /\ \A t \in Tokens : since[t][1] \in Nat
  BY SizesAssumption DEF ClientsType
<1>2. \A p \in pushed : p[1] \in Tokens /\ p[2] \in 1..MaxPosts /\ p[2] <= posts[p[1]]
  BY HistoriesArePairs DEF PairInv, Histories, Known, Pairs
<1>3. CASE Quiet
  BY <1>3 DEF Quiet, Still, YoungInv, Young, Sizes
<1>4. ASSUME NEW t \in current, NEW e \in todo, Receive(Pair(t, e)), UNCHANGED since
      PROVE  \A p \in pushed' : p[3] > since'[p[1]][p[2]]
  <2>1. mem[t].endpoint = 1
    BY DEF FirstInv, Sizes
  <2> QED BY <1>4, <2>1 DEF Receive, Pair, YoungInv
<1>5. ASSUME NEW t \in current, NEW e \in todo, Unsure(t, e) PROVE YoungInv'
  BY <1>4, <1>5 DEF Unsure, Still, YoungInv, Young, Sizes
<1>6. CASE Removed
  BY <1>6 DEF Removed, YoungInv, Young
<1>7. ASSUME NEW i \in 0..MaxNotifications, Born(i) PROVE YoungInv'
  <2>1. \A j \in Numbers : \/ j = i + 1 /\ table'[j] = born + 1
                           \/ table'[j] = table[j]
    BY <1>7 DEF Born
  <2>2. \A t \in subs \union held : posts[t] > 0 /\ since[t][1] <= born /\ since[t][1] < born + 1
    <3>1. ASSUME NEW t \in subs \union held PROVE posts[t] > 0
      BY DEF SessionInv, RowInv, Sizes
    <3> QED BY <1>1, <3>1 DEF FirstInv, Sizes
  <2> QED BY <1>7, <2>1, <2>2 DEF Born, YoungInv, Young
<1>8. ASSUME NEW i \in 0..MaxNotifications, NEW t \in Tokens, Inserted(t, i) PROVE YoungInv'
  <2>1. \A u \in Tokens, k \in 1..MaxPosts : k <= posts[u] => since'[u][k] = since[u][k]
    BY <1>8 DEF Inserted, Sizes
  <2>2. Young(t, 1, i)'
    BY <1>8 DEF Inserted, Young, IsNewest, Sizes
  <2>3. \A u \in subs \union held : 1 <= posts[u]
    BY DEF SessionInv, RowInv, Sizes
  <2> QED BY <1>1, <1>2, <1>8, <2>1, <2>2, <2>3 DEF Inserted, YoungInv, Young, Sizes
<1>9. CASE Loaded
  <2>1. \A t \in held : mem[t].mark = base[t].mark
    BY <1>9 DEF Loaded, SessionInv, Resting
  <2> QED BY <1>9, <2>1 DEF Loaded, YoungInv, Young
<1>10. ASSUME NEW t \in Tokens, Begun(t) PROVE YoungInv'
  <2>1. \A d \in todo' : d.id \in Numbers /\ d.number = table[d.id] /\ table[d.id] # 0
                         /\ base[t].mark < d.id
    BY <1>10 DEF Begun, Moves, Selected, SessionInv, Sizes
  <2>2. \A d \in todo' : d.number > since[t][1]
    BY <1>10, <2>1 DEF Begun, YoungInv, Young
  <2> QED BY <1>10, <2>2 DEF Begun, YoungInv, Young
<1>11. ASSUME NEW t \in Tokens, Done(t) PROVE YoungInv'
  BY <1>11 DEF Done, YoungInv, Young
<1>12. ASSUME NEW t \in current, NEW e \in todo, Popped(t, e) PROVE YoungInv'
  BY <1>4, <1>12 DEF Popped, YoungInv, Young
<1>13. CASE Committed
  <2>1. \A t \in held : base[t].mark <= mem[t].mark
    BY DEF SessionInv
  <2>2. \A t \in subs' : t \in subs /\ db[t].mark <= db'[t].mark
    BY <1>13 DEF Committed, SessionInv, FirstInv, Sizes
  <2> QED BY <1>13, <2>1, <2>2 DEF Committed, YoungInv, Young, Sizes
<1> QED BY <1>3, <1>5, <1>6, <1>7, <1>8, <1>9, <1>10, <1>11, <1>12, <1>13 DEF Step

LEMMA StepsKeepBelow ==
  ASSUME Sizes, Sizes', "replace" \notin Calls, ClientsType, TableInv, RowInv, FirstInv,
         SessionInv, TodoInv, BelowInv, Step
  PROVE  BelowInv'
<1>1. CASE Still
  <2>1. /\ \A t \in subs' : Below(t, 1, db[t].mark)'
        /\ \A t \in held' : Below(t, 1, mem[t].mark)'
    BY <1>1 DEF Still, BelowInv, Below, Selected
  <2>2. \A t \in current' : current' = current /\ t \in held' /\ UNCHANGED <<todo, newest>>
    BY <1>1 DEF Still, Sizes
  <2> QED BY <1>1, <2>1, <2>2 DEF Still, BelowInv, Selected
<1>2. CASE Removed
  <2>1. \A j \in Numbers : Selected(j)' => Selected(j) /\ table'[j] = table[j]
    BY <1>2 DEF Removed, Selected
  <2> QED BY <1>2, <2>1 DEF Removed, BelowInv, Below
<1>3. ASSUME NEW i \in 0..MaxNotifications, Born(i) PROVE BelowInv'
  <2>1. \A j \in Numbers : Selected(j)' /\ table'[j] = j /\ j <= born =>
          Selected(j) /\ table[j] = j
    BY <1>3 DEF Born, Selected, Sizes
  <2>2. (\A t \in subs : db[t].mark <= born) /\ (\A t \in held : mem[t].mark <= born)
        /\ newest <= born
    BY DEF SessionInv
  <2>3. \A j \in Numbers, m \in Nat : j <= m /\ m <= born => j <= born
    BY DEF Sizes
  <2> QED BY <1>3, <2>1, <2>2, <2>3 DEF Born, BelowInv, Below, Sizes
<1>4. ASSUME NEW i \in 0..MaxNotifications, NEW t \in Tokens, Inserted(t, i) PROVE BelowInv'
  <2>1. posts[t] = 0 /\ since'[t][1] = born
    BY <1>4 DEF Inserted, FirstInv
  <2>2. Below(t, 1, i)'
    BY <1>4, <2>1 DEF Inserted, Below, Selected, TableInv, Sizes
  <2>3. \A u \in Tokens : u # t => since'[u] = since[u] /\ db'[u] = db[u]
    BY <1>4 DEF Inserted
  <2>4. \A u \in held : u # t
    BY <2>1 DEF SessionInv, Sizes
  <2> QED BY <1>4, <2>2, <2>3, <2>4 DEF Inserted, BelowInv, Below, Selected, Sizes
<1>5. CASE Loaded
  BY <1>5 DEF Loaded, BelowInv, Below, Selected
<1>6. ASSUME NEW t \in Tokens, Begun(t) PROVE BelowInv'
  <2>1. mem[t].endpoint = 1 /\ t \in held
    BY <1>6 DEF Begun, FirstInv
  <2>2. Below(t, 1, mem[t].mark)'
    <3>1. SUFFICES ASSUME NEW j \in Numbers, j <= MarkClamped(t), Selected(j), table[j] = j,
                          j > since[t][1]
                   PROVE  <<t, 1, j>> \in dealt'
      BY <1>6 DEF Begun, Moves, Below, Selected
    <3>2. CASE j <= mem[t].mark
      BY <1>6, <2>1, <3>1, <3>2 DEF Begun, BelowInv, Below
    <3>3. CASE mem[t].mark < j
      BY <1>6, <2>1, <3>1, <3>3 DEF Begun, Selected
    <3> QED BY <3>2, <3>3, <2>1 DEF Sizes
  <2>3. \A u \in held : u # t => Below(u, 1, mem[u].mark)'
    BY <1>6 DEF Begun, Moves, BelowInv, Below, Selected, Sizes
  <2>4. \A u \in subs : Below(u, 1, db[u].mark)'
    BY <1>6 DEF Begun, BelowInv, Below, Selected
  <2>5. \A j \in Numbers : j > MarkClamped(t) /\ j <= newest /\ Selected(j) =>
          \E d \in todo' : d.id = j
    <3>1. ASSUME NEW j \in Numbers, j > MarkClamped(t), j <= newest, Selected(j)
          PROVE  \E d \in todo' : d.id = j
      <4>1. MarkClamped(t) \in Nat
        BY <1>6 DEF Begun, Moves, Sizes
      <4>2. [id |-> j, number |-> table[j]] \in todo'
        BY <1>6, <3>1, <4>1 DEF Begun, Sizes
      <4> QED BY <4>2
    <3> QED BY <3>1
  <2> QED BY <1>6, <2>2, <2>3, <2>4, <2>5 DEF Begun, Moves, BelowInv, Selected
<1>7. ASSUME NEW t \in Tokens, Done(t) PROVE BelowInv'
  <2>1. \A u \in held : u # t => mem'[u] = mem[u]
    BY <1>7 DEF Done, Moves, Sizes
  <2>2. Below(t, 1, mem[t].mark)'
    BY <1>7 DEF Done, Moves, BelowInv, Below, Selected, Sizes
  <2> QED BY <1>7, <2>1, <2>2 DEF Done, BelowInv, Below, Selected
<1>8. ASSUME NEW t \in current, NEW e \in todo, Popped(t, e) PROVE BelowInv'
  <2>1. \A u \in held : u # t => mem'[u] = mem[u]
    BY <1>8 DEF Popped, Moves, Sizes
  <2>2. /\ mem'[t].mark = e.id /\ mem[t].mark < e.id /\ mem[t].endpoint = 1 /\ t \in held
        /\ e.id \in Nat
    BY <1>8 DEF Popped, Moves, TodoInv, FirstInv, Sizes, Numbers
  <2>3. table[e.id] = e.id => e.number = e.id
    BY DEF TodoInv, Sizes, Numbers
  <2>4. \A j \in Numbers : mem[t].mark < j /\ j <= e.id /\ Selected(j) /\ table[j] = j => j = e.id
    <3>1. ASSUME NEW j \in Numbers, mem[t].mark < j, j <= e.id, Selected(j), table[j] = j
          PROVE  j = e.id
      <4>1. j <= newest
        BY <3>1 DEF TodoInv, Sizes
      <4>2. PICK d \in todo : d.id = j
        BY <3>1, <4>1 DEF BelowInv
      <4> QED BY <1>8, <2>2, <3>1, <4>2 DEF Popped, Sizes
    <3> QED BY <3>1
  <2>5. Below(t, 1, mem[t].mark)'
    <3>1. SUFFICES ASSUME NEW j \in Numbers, j <= e.id, Selected(j), table[j] = j,
                          j > since[t][1]
                   PROVE  <<t, 1, j>> \in dealt'
      BY <1>8, <2>2 DEF Popped, Below, Selected
    <3>2. CASE j <= mem[t].mark
      BY <1>8, <2>2, <3>1, <3>2 DEF Popped, BelowInv, Below
    <3>3. CASE mem[t].mark < j
      BY <1>8, <2>2, <2>3, <2>4, <3>1, <3>3 DEF Popped, Pair
    <3> QED BY <3>2, <3>3, <2>2 DEF Sizes
  <2>6. \A u \in subs : Below(u, 1, db[u].mark)'
    BY <1>8 DEF Popped, BelowInv, Below, Selected
  <2>7. \A u \in held : u # t => Below(u, 1, mem[u].mark)'
    BY <1>8, <2>1 DEF Popped, BelowInv, Below, Selected
  <2>8. \A j \in Numbers : j > e.id /\ j <= newest /\ Selected(j) /\ table[j] = j =>
          \E d \in todo' : d.id = j
    <3>1. ASSUME NEW j \in Numbers, j > e.id, j <= newest, Selected(j), table[j] = j
          PROVE  \E d \in todo' : d.id = j
      <4>1. PICK d \in todo : d.id = j
        BY <2>2, <3>1 DEF BelowInv, Sizes
      <4>2. d # e
        BY <2>2, <3>1, <4>1 DEF Sizes
      <4> QED BY <1>8, <4>1, <4>2 DEF Popped
    <3> QED BY <3>1
  <2>9. \A u \in current : u = t
    BY DEF Sizes
  <2> QED BY <1>8, <2>2, <2>5, <2>6, <2>7, <2>8, <2>9 DEF Popped, BelowInv, Selected
<1>9. CASE Committed
  <2>1. \A t \in subs' : Below(t, 1, db[t].mark)'
    BY <1>9 DEF Committed, BelowInv, Below, Selected
  <2>2. \A t \in held' : Below(t, 1, mem[t].mark)'
    BY <1>9 DEF Committed, BelowInv, Below, Selected
  <2> QED BY <1>9, <2>1, <2>2 DEF Committed, BelowInv
<1> QED BY <1>1, <1>2, <1>3, <1>4, <1>5, <1>6, <1>7, <1>8, <1>9 DEF Step, Quiet, Unsure

-----------------------------------------------------------------------------
(* The theorems. *)

IInv == Core /\ SessionInv /\ TodoInv /\ PairInv /\ AgainInv /\ OrderInv

LEMMA TheInvariantHolds == Spec => []IInv
<1>1. Init => IInv
  BY InitIsCore, InitIsSession, InitIsPair, InitIsAgain, InitIsOrder DEF IInv
<1>2. IInv /\ [Next]_vars => IInv'
  <2> SUFFICES ASSUME IInv, [Next]_vars PROVE IInv'
    OBVIOUS
  <2>1. CASE Next
    <3>1. Core' /\ Step
      BY <2>1, RequestsKeepCore, WorkKeepsCore, RequestsAreSteps, WorkIsAStep DEF Next, IInv
    <3>2. Sizes /\ Sizes'
      BY <3>1, CoreHasSizes, PTL DEF IInv
    <3> QED BY <3>1, <3>2, StepsKeepSession, StepsKeepPairs, StepsKeepAgain, StepsKeepOrder
            DEF IInv, Core, TypeOK
  <2>2. CASE UNCHANGED vars
    <3>1. Core' /\ SessionInv' /\ TodoInv'
      BY <2>2 DEF vars, notifVars, clientVars, sessionVars, pushVars, IInv, Core, TypeOK,
                  NotificationsType, ClientsType, WorkerType, HistoriesType, TableInv, RowInv,
                  SessionInv, TodoInv
    <3>2. PairInv' /\ AgainInv' /\ OrderInv'
      BY <2>2 DEF vars, notifVars, clientVars, sessionVars, pushVars, IInv, PairInv, Histories,
                  Known, AgainInv, AckedInv, SettledInv, UnsettledInv, Pair, OrderInv,
                  MemOrderInv, RowOrderInv, TodoOrderInv, TodoCoverInv, Passed, Had, Selected
    <3> QED BY <3>1, <3>2 DEF IInv
  <2> QED BY <2>1, <2>2
<1> QED BY <1>1, <1>2, PTL DEF Spec

\* The variables keep their types, and the worker's position, its batch and its
\* candidates fit together.
THEOREM TypeCorrect == Spec => []TypeOK
<1>1. IInv => TypeOK
  BY DEF IInv, Core
<1> QED BY <1>1, TheInvariantHolds, PTL

\* A push that was acknowledged in a committed batch is never sent again, whatever is
\* lost, replaced, removed or expires.
THEOREM SettledPushesAreNotRepeated == Spec => []NeverAgain
<1>1. IInv => NeverAgain
  BY DEF IInv, Core, AgainInv, NeverAgain
<1> QED BY <1>1, TheInvariantHolds, PTL

\* An endpoint gets first copies in the order of the births, unless a batch that passed
\* one over was not committed.
THEOREM FirstCopiesKeepTheOrder == Spec => []FirstCopiesInOrder
<1>1. IInv => FirstCopiesInOrder
  BY DEF IInv, OrderInv, FirstCopiesInOrder
<1> QED BY <1>1, TheInvariantHolds, PTL

\* As long as clients replace no subscription, nothing new falls below a watermark
\* without being dealt with, and nothing old is pushed.
THEOREM TheWatermarkIsHonest ==
  ASSUME "replace" \notin Calls
  PROVE  Spec => []BelowWatermarkIsDealtWith
<1>1. Init => WaterInv
  BY InitIsWater
<1>2. IInv /\ WaterInv /\ [Next]_vars => WaterInv'
  <2> SUFFICES ASSUME IInv, WaterInv, [Next]_vars PROVE WaterInv'
    OBVIOUS
  <2>1. CASE Next
    <3>1. Core' /\ Step
      BY <2>1, RequestsKeepCore, WorkKeepsCore, RequestsAreSteps, WorkIsAStep DEF Next, IInv
    <3>2. Sizes /\ Sizes'
      BY <3>1, CoreHasSizes, PTL DEF IInv
    <3> QED BY <3>1, <3>2, StepsKeepFirst, StepsKeepYoung, StepsKeepBelow
            DEF WaterInv, IInv, Core, TypeOK
  <2>2. CASE UNCHANGED vars
    BY <2>2 DEF vars, notifVars, clientVars, sessionVars, pushVars, WaterInv, FirstInv, YoungInv,
                BelowInv, Young, Below, Selected
  <2> QED BY <2>1, <2>2
<1>3. IInv /\ WaterInv => BelowWatermarkIsDealtWith
  <2> SUFFICES ASSUME IInv, WaterInv PROVE BelowWatermarkIsDealtWith
    OBVIOUS
  <2> QED BY DEF WaterInv, FirstInv, YoungInv, BelowInv, Below, BelowWatermarkIsDealtWith
<1> QED BY <1>1, <1>2, <1>3, TheInvariantHolds, PTL DEF Spec

-----------------------------------------------------------------------------
(* The lists that are read page by page: the inductive invariant.          *)

\* How a list is ordered, but for the home page.
Ord(r) ==
  CASE list \in ById \cup {"groups"} -> r.n
    [] list = "conversations" -> StatusId(r)
    [] OTHER -> r.at
Under(r) == \A c \in {cursor[i] : i \in DOMAIN cursor} : Ord(r) < Ord(c)

\* Rows: numbers of one table are given once, but that of a row that is gone.
RowsInv ==
  /\ IsFiniteSet(rows) /\ Cardinality(rows) <= MaxRows
  /\ \A r \in rows : /\ r.table \in Tables(list) /\ r.key \in Keys(list)
                     /\ r.n <= r.born /\ r.born <= Cardinality(InTable(r.table))
                     /\ r.table # "notification" => r.n = r.born
  /\ \A x, y \in rows : x.table = y.table /\ x.born = y.born => x = y
  /\ \A x, y \in Live : x.table = y.table /\ x.n = y.n => x = y
\* The reader: what it was shown and where it stands.
Places == {<<>>} \cup {<<r>> : r \in rows}
ReaderInv ==
  /\ floor \in Places /\ cursor \in Places /\ number \in Nat /\ changes \in Nat
  /\ there \subseteq rows /\ ends \subseteq rows /\ twice \subseteq seen
  /\ floor # <<>> => list \notin Counted \cup Probed \cup {"messages", "index"}
  /\ state = "closed" => /\ cursor = <<>> /\ floor = <<>> /\ number = 0 /\ counted = -1
                         /\ upset = {} /\ there = {}
  /\ cursor = <<>> /\ state # "done" => seen = {} /\ number = 0
  /\ cursor # <<>> /\ "restart" \notin upset => cursor[1] \notin pruned
  /\ list = "messages" => cursor = <<>>
  /\ cursor # <<>> => cursor[1] \in ends

\* What is still to be shown.
Before(r) == {x \in Live : PinnedFirst(x) > PinnedFirst(r)}
Coming(r) ==
  CASE list = "index" -> Cardinality(Before(r)) >= number * Limit
    [] list = "conversations" -> \A x \in Live : x.key = r.key => Under(x)
    [] OTHER -> Under(r)
Shown(r) == IF list \in Threaded THEN \E x \in seen : x.key = r.key ELSE r \in seen
MissInv == \A r \in About(there \ gone) :
  \/ ~AfterFloor(r) \/ Excused(r) \/ Shown(r)
  \/ state # "done" /\ Coming(r)

\* What was shown lies behind.
MayRepeat(r) ==
  \/ "restart" \in upset
  \/ list \in Merged /\ \E b \in ends : b.at > r.at /\ Second(b) = Second(r)
  \/ list = "groups" /\ \E a, b \in seen : /\ a.key = r.key /\ b.key # r.key
                                         /\ a.n > b.n /\ b.n > r.n
  \/ list = "index" /\ ({"arrival", "pin"} \cap upset # {} \/ \E x \in rows \ {r} : x.at = r.at)
Behind(r) == IF list = "index" THEN Cardinality(Before(r)) < number * Limit ELSE ~Under(r)
TwiceInv ==
  /\ state = "open" => \A r \in seen : MayRepeat(r) \/ Behind(r)
  /\ \A r \in twice : MayRepeat(r)

\* What was shown is read.
ReadInv == list \in {"notifications", "groups", "admin_notifications"} => seen \cap unread = {}

\* Each page but the last one has a new row.
PassedBy == {x \in rows : ~Under(x)}
Lost == Cardinality(ends \cap pruned)
Again == Cardinality(rows) * Lost
WalkInv ==
  /\ state # "done" =>
      IF list = "index" THEN number <= Cardinality(rows)
      ELSE IF cursor = <<>> \/ cursor[1] \in pruned THEN number <= Again
      ELSE number <= Cardinality(PassedBy) + Again
  /\ WalkEnds
PagesInv ==
  PagesTypeOK /\ RowsInv /\ ReaderInv /\ MissInv /\ TwiceInv /\ ReadInv /\ WalkInv

-----------------------------------------------------------------------------
(* Orders. *)

LEMMA EntryIs == \A r \in Entry :
  /\ r.n \in Nat /\ 1 <= r.n /\ r.n <= MaxRows /\ r.born \in Nat /\ r.born <= MaxRows
  /\ r.at \in Nat /\ r.at <= MaxTime /\ Second(r) \in Nat
  BY PagesAssumption DEF Entry, Second

LEMMA SecondIs == \A x, y \in Entry :
  /\ x.at >= y.at => Second(x) >= Second(y)
<1> SUFFICES ASSUME NEW x \in Entry, NEW y \in Entry, x.at >= y.at PROVE Second(x) >= Second(y)
  OBVIOUS
<1>1. x.at \in Nat /\ y.at \in Nat
  BY EntryIs
<1>. QED BY <1>1 DEF Second

LEMMA Digits ==
  ASSUME NEW a \in Nat, NEW b \in Nat, NEW m \in Nat, NEW p \in Nat, NEW q \in Nat,
         p < m, q < m, a * m + p >= b * m + q
  PROVE  a >= b /\ (a * m + p = b * m + q => a = b /\ p = q)
<1>1. a >= b
  <2> SUFFICES ASSUME a < b PROVE FALSE
    OBVIOUS
  <2> DEFINE d == b - a - 1
  <2>1. d \in Nat /\ b = a + 1 + d
    OBVIOUS
  <2>2. b * m = a * m + m + d * m
    BY <2>1
  <2>3. d * m >= 0 /\ a * m \in Nat /\ d * m \in Nat
    BY <2>1
  <2> HIDE DEF d
  <2>. QED BY <2>2, <2>3
<1>2. ASSUME a * m + p = b * m + q PROVE a = b /\ p = q
  <2>1. a = b
    <3> SUFFICES ASSUME a > b PROVE FALSE
      BY <1>1
    <3> DEFINE d == a - b - 1
    <3>1. d \in Nat /\ a = b + 1 + d
      OBVIOUS
    <3>2. a * m = b * m + m + d * m
      BY <3>1
    <3>3. d * m >= 0 /\ b * m \in Nat /\ d * m \in Nat
      BY <3>1
    <3> HIDE DEF d
    <3>. QED BY <1>2, <3>2, <3>3
  <2>. QED BY <1>2, <2>1
<1>. QED BY <1>1, <1>2

\* Ids are ordered by second, and then by row; two rows have two ids.
LEMMA StatusIds ==
  ASSUME NEW x \in Entry, NEW y \in Entry
  PROVE  /\ StatusId(x) \in Nat
         /\ StatusId(x) >= StatusId(y) => Second(x) >= Second(y)
         /\ StatusId(x) = StatusId(y) /\ {x.table, y.table} \subseteq {"inbox", "outbox"}
              => x.n = y.n /\ x.table = y.table
<1> DEFINE m == 2 * (MaxRows + 1)
           low(r) == 2 * r.n + (IF r.table = "inbox" THEN 1 ELSE 0)
<1>1. m \in Nat /\ MaxRows \in Nat
  BY PagesAssumption
<1>2. \A r \in Entry : low(r) \in Nat /\ low(r) < m
  <2> SUFFICES ASSUME NEW r \in Entry PROVE low(r) \in Nat /\ low(r) < m
    OBVIOUS
  <2>1. r.n \in Nat /\ r.n <= MaxRows
    BY EntryIs
  <2>. QED BY <1>1, <2>1
<1>3. \A r \in Entry : StatusId(r) = Second(r) * m + low(r)
  <2> SUFFICES ASSUME NEW r \in Entry PROVE StatusId(r) = Second(r) * m + low(r)
    OBVIOUS
  <2>1. Second(r) \in Nat /\ r.n \in Nat
    BY EntryIs
  <2> DEFINE s == Second(r)
  <2>2. s * 2 * (MaxRows + 1) = s * m
    <3> HIDE DEF s
    <3>1. s \in Nat
      BY <2>1 DEF s
    <3>. QED BY <1>1, <3>1
  <2>3. s * m \in Nat
    BY <1>1, <2>1
  <2>. QED BY <2>1, <2>2, <2>3 DEF StatusId
<1>4. Second(x) \in Nat /\ Second(y) \in Nat /\ x.n \in Nat /\ y.n \in Nat
  BY EntryIs
<1>5. low(x) = low(y) /\ {x.table, y.table} \subseteq {"inbox", "outbox"}
        => x.n = y.n /\ x.table = y.table
  BY <1>4
<1>6. low(x) \in Nat /\ low(y) \in Nat /\ low(x) < m /\ low(y) < m
  BY <1>2
<1>7. Second(x) * m + low(x) \in Nat
  BY <1>1, <1>4, <1>6
<1>8. StatusId(x) = Second(x) * m + low(x) /\ StatusId(y) = Second(y) * m + low(y)
  BY <1>3
<1> HIDE DEF m, low
<1>9. StatusId(x) >= StatusId(y) =>
        Second(x) >= Second(y) /\ (StatusId(x) = StatusId(y) => low(x) = low(y))
  <2> DEFINE a == Second(x)
             b == Second(y)
             p == low(x)
             q == low(y)
  <2> HIDE DEF a, b, p, q
  <2>1. a \in Nat /\ b \in Nat /\ p \in Nat /\ q \in Nat /\ p < m /\ q < m
    BY <1>4, <1>6 DEF a, b, p, q
  <2>2. a * m + p >= b * m + q => a >= b /\ (a * m + p = b * m + q => a = b /\ p = q)
    BY <1>1, <2>1, Digits
  <2>. QED BY <1>8, <2>2 DEF a, b, p, q
<1>10. StatusId(x) \in Nat
  BY <1>7, <1>8
<1>. QED BY <1>5, <1>9, <1>10, <1>8

\* A set that is not empty has a lowest and a highest member.
LEMMA LeastIs ==
  ASSUME NEW S, S # {}, NEW f \in [S -> Nat]
  PROVE  \E r \in S : \A x \in S : f[x] >= f[r]
<1>1. \A x \in S : f[x] \in Nat
  OBVIOUS
<1>2. \A n \in Nat : 0..n \in FiniteSubsetsOf(Nat)
  BY FS_Interval DEF FiniteSubsetsOf
<1> DEFINE T == {0..f[x] : x \in S}
<1>3. T \subseteq FiniteSubsetsOf(Nat) /\ T # {}
  BY <1>2
<1>4. IsWellFoundedOn(StrictSubsetOrdering(Nat), FiniteSubsetsOf(Nat))
  BY FS_StrictSubsetOrderingWellFounded
<1> HIDE DEF T
<1>5. PICK t \in T : \A u \in T : ~ (<<u, t>> \in StrictSubsetOrdering(Nat))
  BY <1>3, <1>4, WFMin, Zenon
<1>6. PICK r \in S : t = 0..f[r]
  BY DEF T
<1>7. ASSUME NEW x \in S, f[x] < f[r] PROVE FALSE
  <2>1. f[x] \in Nat /\ f[r] \in Nat
    OBVIOUS
  <2>2. 0..f[x] \subseteq 0..f[r] /\ f[r] \in 0..f[r] /\ f[r] \notin 0..f[x]
    BY <1>7, <2>1
  <2>3. 0..f[x] \in T /\ 0..f[x] \in SUBSET Nat /\ 0..f[r] \in SUBSET Nat
    BY <2>1 DEF T
  <2>4. 0..f[x] # 0..f[r]
    BY <2>2
  <2>5. ~ (<<0..f[x], t>> \in StrictSubsetOrdering(Nat))
    BY <1>5, <2>3
  <2> DEFINE u == 0..f[x]
             v == 0..f[r]
  <2> HIDE DEF u, v
  <2>6. u \in SUBSET Nat /\ v \in SUBSET Nat /\ u \subseteq v /\ u # v
    BY <2>2, <2>3, <2>4 DEF u, v
  <2>7. <<u, v>> \in StrictSubsetOrdering(Nat)
    BY <2>6 DEF StrictSubsetOrdering
  <2>. QED BY <1>6, <2>5, <2>7 DEF u, v
<1>. QED BY <1>7
LEMMA GreatestIs ==
  ASSUME NEW S, S # {}, NEW f \in [S -> Nat], NEW b \in Nat, \A x \in S : f[x] <= b
  PROVE  \E r \in S : \A x \in S : f[r] >= f[x]
<1> DEFINE g == [x \in S |-> b - f[x]]
<1>1. g \in [S -> Nat]
  OBVIOUS
<1>2. PICK r \in S : \A x \in S : g[x] >= g[r]
  BY <1>1, LeastIs
<1>. QED BY <1>2

\* How many rows a page of at most k has.
LEMMA PageIs ==
  ASSUME NEW S, IsFiniteSet(S), NEW k \in Nat, NEW T \in SUBSET S,
         Cardinality(T) = Min({k, Cardinality(S)})
  PROVE  /\ IsFiniteSet(T) /\ Cardinality(T) \in Nat /\ Cardinality(S) \in Nat
         /\ Cardinality(T) <= k /\ (T # S => Cardinality(T) = k /\ Cardinality(S) > k)
         /\ Cardinality(S) >= k => Cardinality(T) = k
         /\ S # {} /\ k # 0 => T # {}
<1>1. IsFiniteSet(T) /\ Cardinality(T) <= Cardinality(S) /\ (Cardinality(S) = Cardinality(T) => S = T)
  BY FS_Subset
<1>2. Cardinality(T) \in Nat /\ Cardinality(S) \in Nat
  BY <1>1, FS_CardinalityType
<1>3. \A a, b \in Nat : Min({a, b}) = IF a <= b THEN a ELSE b
  <2> SUFFICES ASSUME NEW a \in Nat, NEW b \in Nat PROVE Min({a, b}) = IF a <= b THEN a ELSE b
    OBVIOUS
  <2>1. \E x \in {a, b} : \A y \in {a, b} : x <= y
    OBVIOUS
  <2>2. Min({a, b}) \in {a, b} /\ \A y \in {a, b} : Min({a, b}) <= y
    BY <2>1 DEF Min
  <2>. QED BY <2>2
<1>4. Cardinality(T) = IF k <= Cardinality(S) THEN k ELSE Cardinality(S)
  BY <1>2, <1>3
<1>5. S # {} => Cardinality(S) # 0
  BY FS_EmptySet
<1>6. T = {} => Cardinality(T) = 0
  BY FS_EmptySet
<1>. QED BY <1>1, <1>2, <1>4, <1>5, <1>6

LEMMA MaxIs ==
  ASSUME NEW S \in SUBSET Nat, S # {}, NEW b \in Nat, \A x \in S : x <= b
  PROVE  Max(S) \in S /\ \A x \in S : x <= Max(S)
<1> DEFINE f == [x \in S |-> x]
<1>1. f \in [S -> Nat] /\ \A x \in S : f[x] <= b
  OBVIOUS
<1> HIDE DEF f
<1>2. PICK m \in S : \A x \in S : f[m] >= f[x]
  BY <1>1, GreatestIs
<1>3. \A x \in S : m >= x
  BY <1>2 DEF f
<1>4. \E m1 \in S : \A x \in S : m1 >= x
  BY <1>3
<1>5. Max(S) \in S /\ \A x \in S : Max(S) >= x
  BY <1>4 DEF Max
<1>. QED BY <1>5

-----------------------------------------------------------------------------
(* Rows, and what a page does to them. *)

Base == PagesTypeOK /\ RowsInv /\ ReaderInv

\* A page and the candidates for the cursor.
Reads(page, last) ==
  /\ state = "open" /\ page \subseteq rows \ pruned /\ last \subseteq page \cap Live
  /\ seen' = seen \cup page /\ twice' = twice \cup (page \cap seen)
  /\ number' = number + 1 /\ counted' = -1
  /\ \/ last = {} /\ state' = "done" /\ cursor' = cursor /\ ends' = ends
     \/ \E r \in last : cursor' = <<r>> /\ ends' = ends \cup {r} /\ state' = "open"
  /\ upset \subseteq upset' /\ upset' \subseteq upset \cup {"count"}
  /\ unread' \subseteq unread
  /\ list \in {"notifications", "groups", "admin_notifications"} => unread' \cap page = {}
  /\ list = "messages" => last = {}
  /\ list' = list /\ rows' = rows /\ gone' = gone /\ pruned' = pruned /\ pinned' = pinned
  /\ floor' = floor /\ changes' = changes /\ there' = there

\* What happens to the rows while nobody looks.
Alters ==
  /\ rows \subseteq rows' /\ gone \subseteq gone' /\ pruned \subseteq pruned'
  /\ gone' \ gone \subseteq rows /\ unread' \cap rows \subseteq unread
  /\ upset \subseteq upset' /\ changes' \in Nat /\ changes <= changes' /\ state # "done"
  /\ list' = list /\ floor' = floor /\ cursor' = cursor /\ number' = number
  /\ counted' = counted /\ state' = state
  /\ there' = there /\ seen' = seen /\ twice' = twice /\ ends' = ends

LEMMA RowsStay == RowsInv /\ rows' = rows /\ gone' = gone /\ list' = list => RowsInv'
  BY DEF RowsInv, InTable, Live

LEMMA ReadsBase ==
  ASSUME Base, ReadInv, NEW page, NEW last, Reads(page, last)
  PROVE  Base' /\ ReadInv'
<1> USE DEF Base, Reads
<1>1. PagesTypeOK'
  <2>1. -1 \in -1..MaxRows
    BY PagesAssumption
  <2>2. state' \in {"open", "done"}
    OBVIOUS
  <2>3. Entry' = Entry
    BY DEF Entry
  <2>. QED BY <2>1, <2>2, <2>3 DEF PagesTypeOK, Entry
<1>2. RowsInv'
  BY RowsStay
<1>3. ReaderInv'
  <2>1. number' \in Nat /\ changes' \in Nat /\ Places' = Places
    BY DEF ReaderInv, Places
  <2>2. there' \subseteq rows' /\ ends' \subseteq rows' /\ twice' \subseteq seen'
    BY DEF ReaderInv, Live
  <2>3. state' # "closed" /\ (state' # "done" => cursor' # <<>>)
    OBVIOUS
  <2>4. floor' \in Places' /\ cursor' \in Places'
    BY <2>1 DEF ReaderInv, Places, Live
  <2>5. cursor' # <<>> /\ "restart" \notin upset' => cursor'[1] \notin pruned'
    BY DEF ReaderInv, Live, PagesTypeOK
  <2>. QED BY <2>1, <2>2, <2>3, <2>4, <2>5 DEF ReaderInv
<1>4. ReadInv'
  BY DEF ReadInv
<1>. QED BY <1>1, <1>2, <1>3, <1>4

LEMMA ArriveDoes ==
  ASSUME Base, NEW t \in Tables(list), NEW key \in Keys(list), NEW at \in 0..MaxTime,
         Arrive(t, at, key)
  PROVE  Base' /\ Alters /\ Live \subseteq Live' /\ pruned' = pruned /\ pinned' = pinned /\ gone' = gone
         /\ (state = "closed" => upset' = upset) /\ (state = "open" => "arrival" \in upset')
         /\ ("restart" \in upset' => "restart" \in upset)
<1> DEFINE born1 == Cardinality(InTable(t)) + 1
           n1 == IF t = "notification" THEN 1 + Max({0} \cup {r.n : r \in InTable(t) \ gone}) ELSE born1
           e == [table |-> t, n |-> n1, born |-> born1, at |-> at, key |-> key]
<1>1. /\ Change \/ (state = "closed" /\ UNCHANGED changes)
      /\ Cardinality(rows) < MaxRows /\ rows' = rows \cup {e}
      /\ unread' = IF t = "notification" THEN unread \cup {e} ELSE unread
      /\ upset' = IF state = "open" THEN upset \cup {"arrival"} ELSE upset
      /\ UNCHANGED <<list, gone, pruned, pinned, reader, there, seen, twice, ends>>
  BY DEF Arrive
<1>2. rows \subseteq Entry /\ gone \subseteq rows /\ IsFiniteSet(rows)
  BY DEF Base, PagesTypeOK, RowsInv
<1>3. IsFiniteSet(InTable(t)) /\ Cardinality(InTable(t)) \in Nat /\ Cardinality(rows) \in Nat
      /\ Cardinality(InTable(t)) <= Cardinality(rows)
  <2>1. InTable(t) \in SUBSET rows
    BY DEF InTable
  <2>. QED BY <1>2, <2>1, FS_Subset, FS_CardinalityType
<1>4. born1 \in 1..MaxRows
  BY <1>1, <1>3, PagesAssumption
<1>5. \A x \in InTable(t) : x.born < born1 /\ x.n < born1 /\ x.n \in Nat /\ x.born \in Nat
  <2> SUFFICES ASSUME NEW x \in InTable(t) PROVE x.born < born1 /\ x.n < born1 /\ x.n \in Nat /\ x.born \in Nat
    OBVIOUS
  <2>1. x \in rows /\ x.table = t
    BY DEF InTable
  <2>2. x.n \in Nat /\ x.born \in Nat
    BY <1>2, <2>1, EntryIs
  <2>3. x.n <= x.born /\ x.born <= Cardinality(InTable(t))
    BY <2>1 DEF Base, RowsInv
  <2>. QED BY <1>3, <2>2, <2>3
<1>6. n1 \in 1..born1 /\ (t # "notification" => n1 = born1)
      /\ \A x \in InTable(t) \ gone : x.n < n1
  <2>1. CASE t # "notification"
    BY <1>4, <1>5, <2>1
  <2>2. CASE t = "notification"
    <3> DEFINE N == {0} \cup {r.n : r \in InTable(t) \ gone}
    <3>1. N \in SUBSET Nat /\ N # {} /\ \A i \in N : i <= born1 - 1
      BY <1>3, <1>5
    <3>2. born1 - 1 \in Nat
      BY <1>3
    <3>3. \A x \in InTable(t) \ gone : x.n \in N
      OBVIOUS
    <3> HIDE DEF N
    <3>4. Max(N) \in N /\ \A i \in N : i <= Max(N)
      BY <3>1, <3>2, MaxIs
    <3>5. n1 = 1 + Max(N)
      BY <2>2 DEF N
    <3>6. Max(N) \in Nat /\ Max(N) <= born1 - 1 /\ born1 \in Nat
      <4>1. born1 \in Nat
        BY <1>3
      <4>2. Max(N) \in Nat
        BY <3>1, <3>4
      <4> HIDE DEF n1, born1
      <4>3. Max(N) <= born1 - 1
        BY <3>1, <3>4
      <4>. QED BY <4>1, <4>2, <4>3
    <3>7. \A x \in InTable(t) \ gone : x.n <= Max(N) /\ x.n \in Nat
      BY <1>5, <3>3, <3>4
    <3> HIDE DEF n1, born1
    <3>. QED BY <2>2, <3>5, <3>6, <3>7
  <2>. QED BY <2>1, <2>2
<1>7. t \in {"inbox", "outbox", "notification", "other"} /\ key \in {"plain", "hidden", "wanted", "one", "two"}
  BY DEF Tables, Keys
<1> HIDE DEF born1, n1
<1>8. /\ e.table = t /\ e.n = n1 /\ e.born = born1 /\ e.at = at /\ e.key = key
      /\ e \in Entry
  <2>1. n1 \in 1..MaxRows
    BY <1>4, <1>6, PagesAssumption
  <2>. QED BY <1>4, <1>7, <2>1 DEF Entry
<1> HIDE DEF e
<1>9. e \notin rows
  BY <1>5, <1>8 DEF InTable
<1>10. \A u : InTable(u)' = IF u = t THEN InTable(t) \cup {e} ELSE InTable(u)
  BY <1>1, <1>8 DEF InTable
<1>11. Cardinality(InTable(t)') = born1 /\ Cardinality(rows') = Cardinality(rows) + 1
       /\ IsFiniteSet(rows')
  <2>1. e \notin InTable(t)
    BY <1>9 DEF InTable
  <2>2. Cardinality(InTable(t) \cup {e}) = born1
    BY <1>3, <2>1, FS_AddElement DEF born1
  <2>. QED BY <1>1, <1>2, <1>9, <1>10, <2>2, FS_AddElement
<1>12. Live' = Live \cup {e}
  BY <1>1, <1>2, <1>9 DEF Live
<1>13. RowsInv'
  <2>1. Cardinality(rows') <= MaxRows
    BY <1>1, <1>3, <1>11, PagesAssumption
  <2>2. ASSUME NEW x \in rows'
        PROVE  /\ x.table \in Tables(list) /\ x.key \in Keys(list)
               /\ x.n <= x.born /\ x.born <= Cardinality(InTable(x.table)')
               /\ x.table # "notification" => x.n = x.born
    <3>1. CASE x = e
      BY <1>4, <1>6, <1>8, <1>11, <3>1
    <3>2. CASE x \in rows
      <4>1. /\ x.table \in Tables(list) /\ x.key \in Keys(list)
            /\ x.n <= x.born /\ x.born <= Cardinality(InTable(x.table))
            /\ x.table # "notification" => x.n = x.born
        BY <3>2 DEF Base, RowsInv
      <4>2. CASE x.table = t
        <5>1. x.born < born1 /\ x.born \in Nat
          BY <1>5, <3>2, <4>2 DEF InTable
        <5>. QED BY <1>4, <1>11, <4>1, <4>2, <5>1
      <4>3. CASE x.table # t
        BY <1>10, <4>1, <4>3
      <4>. QED BY <4>2, <4>3
    <3>. QED BY <1>1, <3>1, <3>2
  <2>3. ASSUME NEW x \in rows', NEW y \in rows', x.table = y.table, x.born = y.born PROVE x = y
    <3>1. \A z \in rows : z.table = t => z.born # born1
      BY <1>4, <1>5 DEF InTable
    <3>. QED BY <1>1, <1>8, <2>3, <3>1 DEF Base, RowsInv
  <2>4. ASSUME NEW x \in Live', NEW y \in Live', x.table = y.table, x.n = y.n PROVE x = y
    <3>1. \A z \in Live : z.table = t => z.n # n1
      BY <1>5, <1>6 DEF InTable, Live
    <3>. QED BY <1>8, <1>12, <2>4, <3>1 DEF Base, RowsInv
  <2>5. list' = list
    BY <1>1
  <2>. QED BY <1>11, <2>1, <2>2, <2>3, <2>4, <2>5 DEF RowsInv
<1>14. PagesTypeOK'
  <2>1. UNCHANGED <<counted, state>>
    BY <1>1 DEF reader
  <2>. QED BY <1>1, <1>8, <2>1 DEF Base, PagesTypeOK, Entry
<1>15. changes' \in Nat /\ changes <= changes' /\ state # "done" /\ changes \in Nat
  BY <1>1 DEF Change, Base, ReaderInv
<1>16. ReaderInv'
  <2>1. UNCHANGED <<floor, cursor, number, counted, state>>
    BY <1>1 DEF reader
  <2>2. Places \subseteq Places'
    BY <1>1 DEF Places
  <2>3. state = "closed" => upset' = upset
    BY <1>1
  <2>4. "restart" \in upset' => "restart" \in upset
    BY <1>1
  <2>5. upset \subseteq upset'
    BY <1>1
  <2>. QED BY <1>1, <1>15, <2>1, <2>2, <2>3, <2>4, <2>5 DEF Base, ReaderInv
<1>17. Alters
  BY <1>1, <1>9, <1>15 DEF Alters, reader
<1>. QED BY <1>1, <1>12, <1>13, <1>14, <1>16, <1>17 DEF Base

LEMMA GoneGrows ==
  ASSUME RowsInv, rows' = rows, gone \subseteq gone', list' = list
  PROVE  RowsInv'
  BY DEF RowsInv, InTable, Live

LEMMA DeleteDoes ==
  ASSUME Base, NEW r \in rows, Delete(r)
  PROVE  Base' /\ Alters /\ rows' = rows /\ Live' \subseteq Live /\ pruned' = pruned /\ pinned' = pinned
         /\ (state = "closed" => upset' = upset) /\ (state = "open" => "removal" \in upset')
         /\ ("restart" \in upset' => "restart" \in upset)
<1>1. /\ Change /\ r \in Live /\ gone' = gone \cup {r}
      /\ upset' = IF state = "open" THEN upset \cup {"removal"} ELSE upset
      /\ UNCHANGED <<list, rows, pruned, pinned, unread, floor, cursor, number, counted, state,
                     there, seen, twice, ends>>
  BY DEF Delete, reader
<1>2. RowsInv'
  BY <1>1, GoneGrows DEF Base
<1>3. PagesTypeOK'
  BY <1>1 DEF Base, PagesTypeOK, Entry
<1>4. changes' \in Nat /\ changes <= changes' /\ state # "done"
  BY <1>1 DEF Change, Base, ReaderInv
<1>5. Live' \subseteq Live
  BY <1>1 DEF Live
<1>6. ReaderInv'
  <2>1. /\ state = "closed" => upset' = upset
        /\ "restart" \in upset' => "restart" \in upset
        /\ upset \subseteq upset' /\ Places' = Places
    BY <1>1 DEF Places
  <2>. QED BY <1>1, <1>4, <2>1 DEF Base, ReaderInv
<1>7. Alters
  BY <1>1, <1>4 DEF Alters
<1>. QED BY <1>1, <1>2, <1>3, <1>5, <1>6, <1>7 DEF Base

LEMMA PruneDoes ==
  ASSUME Base, NEW r \in rows, Prune(r)
  PROVE  Base' /\ Alters /\ rows' = rows /\ Live' \subseteq Live /\ pinned' = pinned
         /\ pruned' = pruned \cup {r} /\ changes' = changes + 1 /\ r \notin pruned
         /\ r.table = "inbox" /\ (<<r>> = cursor => "restart" \in upset')
         /\ (<<r>> # cursor /\ <<r>> # floor => upset' = upset)
<1>1. /\ Change /\ r \in rows \ pruned /\ r.table = "inbox"
      /\ gone' = gone \cup {r} /\ pruned' = pruned \cup {r}
      /\ upset' = IF <<r>> \in {cursor, floor} THEN upset \cup {"restart"} ELSE upset
      /\ UNCHANGED <<list, rows, pinned, unread, floor, cursor, number, counted, state,
                     there, seen, twice, ends>>
  BY DEF Prune, reader
<1>2. RowsInv'
  BY <1>1, GoneGrows DEF Base
<1>3. PagesTypeOK'
  BY <1>1 DEF Base, PagesTypeOK, Entry
<1>4. changes' \in Nat /\ changes <= changes' /\ state # "done" /\ changes' = changes + 1
  BY <1>1 DEF Change, Base, ReaderInv
<1>5. Live' \subseteq Live
  BY <1>1 DEF Live
<1>6. ReaderInv'
  <2>1. Places' = Places /\ upset \subseteq upset'
    BY <1>1 DEF Places
  <2>2. state = "closed" => upset' = upset
    <3>1. \A x : <<x>> # <<>>
      OBVIOUS
    <3>. QED BY <1>1, <3>1 DEF Base, ReaderInv
  <2>3. cursor # <<>> /\ "restart" \notin upset' => cursor[1] \notin pruned'
    <3> SUFFICES ASSUME cursor # <<>>, "restart" \notin upset' PROVE cursor[1] \notin pruned'
      OBVIOUS
    <3>1. cursor[1] \notin pruned
      BY <2>1 DEF Base, ReaderInv
    <3>2. PICK c \in rows : cursor = <<c>>
      BY DEF Base, ReaderInv, Places
    <3>3. cursor[1] = c
      BY <3>2
    <3>4. c # r
      BY <1>1, <3>2
    <3>. QED BY <1>1, <3>1, <3>3, <3>4
  <2>. QED BY <1>1, <1>4, <2>1, <2>2, <2>3 DEF Base, ReaderInv
<1>7. Alters
  BY <1>1, <1>4 DEF Alters
<1>. QED BY <1>1, <1>2, <1>3, <1>4, <1>5, <1>6, <1>7 DEF Base

LEMMA PinDoes ==
  ASSUME Base, NEW r \in rows, Pin(r)
  PROVE  Base' /\ Alters /\ rows' = rows /\ Live' = Live /\ pruned' = pruned
         /\ list = "index" /\ (state = "open" => "pin" \in upset')
         /\ (state = "closed" => upset' = upset) /\ ("restart" \in upset' => "restart" \in upset)
<1>1. /\ Change /\ list = "index" /\ r \in Live /\ pinned' \subseteq pinned \cup {r}
      /\ upset' = IF state = "open" THEN upset \cup {"pin"} ELSE upset
      /\ UNCHANGED <<list, rows, gone, pruned, unread, floor, cursor, number, counted, state,
                     there, seen, twice, ends>>
  BY DEF Pin, reader
<1>2. RowsInv'
  BY <1>1, RowsStay DEF Base
<1>3. PagesTypeOK'
  BY <1>1 DEF Base, PagesTypeOK, Entry
<1>4. changes' \in Nat /\ changes <= changes' /\ state # "done"
  BY <1>1 DEF Change, Base, ReaderInv
<1>5. Live' = Live
  BY <1>1 DEF Live
<1>6. ReaderInv'
  <2>1. /\ state = "closed" => upset' = upset
        /\ "restart" \in upset' => "restart" \in upset
        /\ upset \subseteq upset' /\ Places' = Places
    BY <1>1 DEF Places
  <2>. QED BY <1>1, <1>4, <2>1 DEF Base, ReaderInv
<1>7. Alters
  BY <1>1, <1>4 DEF Alters
<1>. QED BY <1>1, <1>2, <1>3, <1>5, <1>6, <1>7 DEF Base

\* The four kinds of changes.
LEMMA ChangesDo ==
  ASSUME Base, Changes
  PROVE  /\ Base' /\ Alters
         /\ \/ Live \subseteq Live' /\ gone' = gone /\ pruned' = pruned /\ pinned' = pinned
               /\ (state = "open" => "arrival" \in upset')
               /\ ("restart" \in upset' => "restart" \in upset)
            \/ Live' \subseteq Live /\ rows' = rows /\ pruned' = pruned /\ pinned' = pinned
               /\ (state = "open" => "removal" \in upset')
               /\ ("restart" \in upset' => "restart" \in upset)
            \/ Live' \subseteq Live /\ rows' = rows /\ pinned' = pinned
               /\ changes' = changes + 1
               /\ \E r \in rows \ pruned : r.table = "inbox" /\ pruned' = pruned \cup {r}
                    /\ (<<r>> = cursor => "restart" \in upset')
                    /\ (<<r>> # cursor /\ <<r>> # floor => upset' = upset)
            \/ rows' = rows /\ Live' = Live /\ pruned' = pruned /\ list = "index"
               /\ (state = "open" => "pin" \in upset')
               /\ ("restart" \in upset' => "restart" \in upset)
<1>1. CASE \E t \in Tables(list), key \in Keys(list), at \in 0..MaxTime : Arrive(t, at, key)
  <2>1. PICK t \in Tables(list), key \in Keys(list), at \in 0..MaxTime : Arrive(t, at, key)
    BY <1>1
  <2>. QED BY <2>1, ArriveDoes
<1>2. CASE \E r \in rows : Delete(r) \/ Prune(r) \/ Pin(r)
  <2>1. PICK r \in rows : Delete(r) \/ Prune(r) \/ Pin(r)
    BY <1>2
  <2>2. CASE Delete(r)
    BY <2>2, DeleteDoes
  <2>3. CASE Prune(r)
    BY <2>3, PruneDoes
  <2>4. CASE Pin(r)
    BY <2>4, PinDoes
  <2>. QED BY <2>1, <2>2, <2>3, <2>4
<1>. QED BY <1>1, <1>2 DEF Changes

-----------------------------------------------------------------------------
(* What changes leave as it was. *)

LEMMA OrdIs ==
  ASSUME PagesTypeOK, NEW r \in rows
  PROVE  Ord(r) \in Nat /\ r \in Entry
<1>1. r \in Entry
  BY DEF PagesTypeOK
<1>2. r.n \in Nat /\ r.at \in Nat /\ StatusId(r) \in Nat
  BY <1>1, EntryIs, StatusIds
<1>. QED BY <1>1, <1>2 DEF Ord

LEMMA UnderIs ==
  /\ \A r : cursor = <<>> => Under(r)
  /\ \A r, c : cursor = <<c>> => (Under(r) <=> Ord(r) < Ord(c))
<1>1. ASSUME NEW c, cursor = <<c>> PROVE {cursor[i] : i \in DOMAIN cursor} = {c}
  <2>1. DOMAIN cursor = {1} /\ cursor[1] = c
    BY <1>1
  <2>. QED BY <2>1
<1>2. ASSUME cursor = <<>> PROVE {cursor[i] : i \in DOMAIN cursor} = {}
  BY <1>2
<1>. QED BY <1>1, <1>2 DEF Under

LEMMA OrdStays == list' = list => \A r : Ord(r)' = Ord(r)
  BY DEF Ord, StatusId, Second
LEMMA UnderStays == list' = list /\ cursor' = cursor => \A r : Under(r)' = Under(r)
  BY DEF Under, Ord, StatusId, Second

LEMMA Multiplies ==
  ASSUME NEW a \in Nat, NEW b \in Nat, NEW c \in Nat, NEW d \in Nat, a <= b, c <= d
  PROVE  a * c <= b * d /\ a * c \in Nat /\ b * d \in Nat
<1>1. PICK i \in Nat : b = a + i
  <2>1. b - a \in Nat /\ b = a + (b - a)
    OBVIOUS
  <2>. QED BY <2>1
<1>2. PICK j \in Nat : d = c + j
  <2>1. d - c \in Nat /\ d = c + (d - c)
    OBVIOUS
  <2>. QED BY <2>1
<1>3. b * d = a * c + a * j + i * c + i * j
  BY <1>1, <1>2
<1>4. a * c \in Nat /\ a * j \in Nat /\ i * c \in Nat /\ i * j \in Nat
  OBVIOUS
<1>. QED BY <1>3, <1>4

LEMMA AgainIs ==
  ASSUME Base
  PROVE  /\ Again \in Nat /\ Cardinality(rows) \in Nat
         /\ Cardinality(PassedBy) \in Nat /\ Cardinality(PassedBy) <= Cardinality(rows)
         /\ Cardinality(rows) * (1 + Lost) = Cardinality(rows) + Again
         /\ IsFiniteSet(ends \cap pruned) /\ Lost \in Nat
<1>4. IsFiniteSet(ends \cap pruned) /\ Lost \in Nat
  <2>1. IsFiniteSet(rows) /\ ends \cap pruned \in SUBSET rows
    BY DEF Base, RowsInv, ReaderInv
  <2>. QED BY <2>1, FS_Subset, FS_CardinalityType DEF Lost
<1>1. IsFiniteSet(rows) /\ Lost \in Nat /\ PassedBy \in SUBSET rows
  BY <1>4 DEF Base, RowsInv, ReaderInv, PassedBy
<1>2. Cardinality(rows) \in Nat /\ Cardinality(PassedBy) \in Nat /\ Cardinality(PassedBy) <= Cardinality(rows)
  BY <1>1, FS_CardinalityType, FS_Subset
<1> DEFINE a == Cardinality(rows)
<1>3. a * Lost \in Nat /\ a * (1 + Lost) = a + a * Lost
  <2> HIDE DEF a
  <2>1. a \in Nat
    BY <1>2 DEF a
  <2>. QED BY <1>1, <2>1
<1>. QED BY <1>2, <1>3, <1>4 DEF Again

LEMMA WalkChanges ==
  ASSUME Base, WalkInv, Changes
  PROVE  WalkInv'
<1>1. Base' /\ Alters
  BY ChangesDo
<1>2. IsFiniteSet(rows) /\ IsFiniteSet(rows') /\ rows \in SUBSET rows'
      /\ number \in Nat /\ number' = number
      /\ list' = list /\ cursor' = cursor /\ state' = state /\ state # "done" /\ upset \subseteq upset'
  BY <1>1 DEF Base, RowsInv, ReaderInv, Alters
<1>10. Lost \in Nat /\ Lost' \in Nat /\ Lost <= Lost'
  <2>1. ends' = ends /\ pruned \subseteq pruned' /\ ends' \subseteq rows'
    BY <1>1 DEF Alters, Base, ReaderInv
  <2>2. IsFiniteSet(ends' \cap pruned') /\ ends \cap pruned \subseteq ends' \cap pruned'
    BY <1>2, <2>1, FS_Subset
  <2>. QED BY <2>2, FS_Subset, FS_CardinalityType DEF Lost
<1>3. Cardinality(rows) <= Cardinality(rows') /\ Cardinality(rows) \in Nat /\ Cardinality(rows') \in Nat
  BY <1>2, FS_Subset, FS_CardinalityType
<1>4. Cardinality(PassedBy) <= Cardinality(PassedBy') /\ Cardinality(PassedBy) \in Nat /\ Cardinality(PassedBy') \in Nat
  <2>1. PassedBy \in SUBSET PassedBy'
    BY <1>2, UnderStays DEF PassedBy
  <2>2. IsFiniteSet(PassedBy') /\ IsFiniteSet(PassedBy)
    <3>1. PassedBy' \in SUBSET rows' /\ PassedBy \in SUBSET rows
      BY DEF PassedBy
    <3>. QED BY <1>2, <3>1, FS_Subset
  <2>. QED BY <2>1, <2>2, FS_Subset, FS_CardinalityType
<1>5. Again <= Again' /\ Again \in Nat /\ Again' \in Nat
  BY <1>3, <1>10, Multiplies DEF Again
<1>6. WalkEnds'
  <2> DEFINE c == 1 + Lost
             d == 1 + Lost'
  <2>1. c \in Nat /\ d \in Nat /\ c <= d
    <3>1. \A m, n \in Nat : m <= n => 1 + m \in Nat /\ 1 + n \in Nat /\ 1 + m <= 1 + n
      OBVIOUS
    <3> HIDE DEF c, d
    <3>2. 1 + Lost \in Nat /\ 1 + Lost' \in Nat /\ 1 + Lost <= 1 + Lost'
      BY <1>10, <3>1
    <3>. QED BY <3>2 DEF c, d
  <2>2. number <= 1 + Cardinality(rows) * c
    BY DEF WalkInv, WalkEnds, Lost
  <2> HIDE DEF c, d
  <2>3. Cardinality(rows) * c <= Cardinality(rows') * d /\ Cardinality(rows) * c \in Nat
        /\ Cardinality(rows') * d \in Nat
    BY <1>3, <2>1, Multiplies
  <2>4. number' <= 1 + Cardinality(rows') * d
    BY <1>2, <2>2, <2>3
  <2>. QED BY <2>4 DEF WalkEnds, Lost, d
<1>7. CASE list = "index"
  BY <1>2, <1>3, <1>6, <1>7 DEF WalkInv
<1>8. CASE list # "index" /\ (cursor = <<>> \/ cursor[1] \in pruned)
  <2>1. number <= Again
    BY <1>2, <1>8 DEF WalkInv
  <2>2. pruned \subseteq pruned'
    BY <1>1 DEF Alters
  <2>3. number' <= Again'
    BY <1>2, <1>5, <2>1
  <2>. QED BY <1>2, <1>6, <1>8, <2>2, <2>3 DEF WalkInv
<1>9. CASE list # "index" /\ cursor # <<>> /\ cursor[1] \notin pruned
  <2>1. number <= Cardinality(PassedBy) + Again
    BY <1>2, <1>9 DEF WalkInv
  <2>2. CASE cursor[1] \notin pruned'
    <3>1. number' <= Cardinality(PassedBy') + Again'
      BY <1>2, <1>4, <1>5, <2>1
    <3>. QED BY <1>2, <1>6, <1>9, <2>2, <3>1 DEF WalkInv
  <2>3. CASE cursor[1] \in pruned'
    <3>1. PICK r \in rows \ pruned : pruned' = pruned \cup {r} /\ rows' = rows
      BY <1>9, <2>3, ChangesDo
    <3>2. PICK c \in rows : cursor = <<c>>
      BY <1>9 DEF Base, ReaderInv, Places
    <3>3. c = r
      BY <1>9, <2>3, <3>1, <3>2
    <3>4. Lost' = 1 + Lost
      <4>1. c \in ends /\ ends' = ends
        BY <1>1, <1>9, <3>2 DEF Base, ReaderInv, Alters
      <4>2. ends' \cap pruned' = (ends \cap pruned) \cup {c} /\ c \notin ends \cap pruned
        BY <3>1, <3>3, <4>1
      <4>3. IsFiniteSet(ends \cap pruned) /\ Lost \in Nat
        BY AgainIs
      <4>4. Cardinality((ends \cap pruned) \cup {c}) = Cardinality(ends \cap pruned) + 1
        BY <4>2, <4>3, FS_AddElement
      <4>5. Lost' = Lost + 1
        BY <4>2, <4>4 DEF Lost
      <4>. QED BY <4>3, <4>5
    <3>5. Again' = Cardinality(rows) + Again
      <4>1. Again' = Cardinality(rows) * (1 + Lost)
        BY <3>1, <3>4 DEF Again
      <4>. QED BY <4>1, AgainIs
    <3>6. number' <= Again'
      BY <1>2, <1>5, <2>1, <3>5, AgainIs
    <3>. QED BY <1>2, <1>6, <1>9, <2>3, <3>6 DEF WalkInv
  <2>. QED BY <2>2, <2>3
<1>. QED BY <1>7, <1>8, <1>9

LEMMA ReadChanges ==
  ASSUME Base, ReadInv, Changes
  PROVE  ReadInv'
<1>1. Alters /\ seen \subseteq rows
  BY ChangesDo DEF Base, PagesTypeOK
<1>. QED BY <1>1 DEF ReadInv, Alters

LEMMA BeforeIs ==
  ASSUME Base, NEW r
  PROVE  IsFiniteSet(Before(r)) /\ Cardinality(Before(r)) \in Nat
<1>1. IsFiniteSet(rows) /\ Before(r) \in SUBSET rows
  BY DEF Base, RowsInv, Before, Live
<1>. QED BY <1>1, FS_Subset, FS_CardinalityType

LEMMA MayRepeatStays ==
  ASSUME list' = list, upset \subseteq upset', ends \subseteq ends', seen \subseteq seen',
         rows \subseteq rows', NEW r, MayRepeat(r)
  PROVE  MayRepeat(r)'
<1>1. CASE "restart" \in upset
  BY <1>1 DEF MayRepeat
<1>2. CASE list \in Merged /\ \E b \in ends : b.at > r.at /\ Second(b) = Second(r)
  BY <1>2 DEF MayRepeat, Second
<1>3. CASE list = "groups" /\ \E a, b \in seen : /\ a.key = r.key /\ b.key # r.key
                                              /\ a.n > b.n /\ b.n > r.n
  BY <1>3 DEF MayRepeat
<1>4. CASE list = "index" /\ ({"arrival", "pin"} \cap upset # {} \/ \E x \in rows \ {r} : x.at = r.at)
  <2>1. {"arrival", "pin"} \cap upset' # {} \/ \E x \in rows' \ {r} : x.at = r.at
    BY <1>4
  <2>. QED BY <1>4, <2>1 DEF MayRepeat
<1>. QED BY <1>1, <1>2, <1>3, <1>4 DEF MayRepeat

LEMMA TwiceChanges ==
  ASSUME Base, TwiceInv, Changes
  PROVE  TwiceInv'
<1>1. Base' /\ Alters
  BY ChangesDo
<1>2. \A r : MayRepeat(r) => MayRepeat(r)'
  BY <1>1, MayRepeatStays DEF Alters
<1>3. \A r \in twice' : MayRepeat(r)'
  BY <1>1, <1>2 DEF TwiceInv, Alters
<1>4. ASSUME state' = "open", NEW r \in seen' PROVE MayRepeat(r)' \/ Behind(r)'
  <2>1. state = "open" /\ r \in seen /\ list' = list /\ cursor' = cursor /\ number' = number
    BY <1>1, <1>4 DEF Alters
  <2>2. CASE MayRepeat(r)
    BY <1>2, <2>2
  <2>3. CASE Behind(r) /\ list # "index"
    BY <2>1, <2>3, UnderStays DEF Behind
  <2>4. CASE Behind(r) /\ list = "index"
    <3>1. CASE {"arrival", "pin"} \cap upset' # {}
      BY <2>1, <2>4, <3>1 DEF MayRepeat
    <3>2. CASE {"arrival", "pin"} \cap upset' = {}
      <4>1. Live' \subseteq Live /\ pinned' = pinned
        BY <2>1, <3>2, ChangesDo
      <4>2. Before(r)' \in SUBSET Before(r)
        BY <4>1 DEF Before, PinnedFirst
      <4>3. Cardinality(Before(r)') <= Cardinality(Before(r)) /\ Cardinality(Before(r)) \in Nat
            /\ Cardinality(Before(r)') \in Nat
        BY <4>2, BeforeIs, FS_Subset, FS_CardinalityType
      <4>4. number * Limit \in Nat
        BY PagesAssumption DEF Base, ReaderInv
      <4>5. Cardinality(Before(r)) < number * Limit
        BY <2>4 DEF Behind
      <4>6. Cardinality(Before(r)') < number * Limit
        <5> DEFINE k == number * Limit
        <5> HIDE DEF k
        <5>1. k \in Nat /\ Cardinality(Before(r)) < k
          BY <4>4, <4>5 DEF k
        <5>2. Cardinality(Before(r)') < k
          BY <4>3, <5>1
        <5>. QED BY <5>2 DEF k
      <4>. QED BY <2>1, <2>4, <4>6 DEF Behind
    <3>. QED BY <3>1, <3>2
  <2>. QED BY <2>1, <2>2, <2>3, <2>4 DEF TwiceInv
<1>. QED BY <1>3, <1>4 DEF TwiceInv

LEMMA AboutIs ==
  ASSUME NEW S, NEW r \in About(S)
  PROVE  /\ r \in S
         /\ list \in {"home", "public"} => r.key # "hidden"
         /\ list \in {"quotes", "tag", "list", "bookmarks", "favourites"} => r.key = "wanted"
  BY DEF About

LEMMA AfterFloorStays == list' = list /\ floor' = floor => \A r : AfterFloor(r)' <=> AfterFloor(r)
  BY DEF AfterFloor, StatusId, Second

LEMMA ExcusedStays ==
  ASSUME IsFiniteSet(rows'), rows \subseteq rows', pruned \subseteq pruned', upset \subseteq upset',
         ends \subseteq ends', seen \subseteq seen', list' = list, floor' = floor,
         NEW r, Excused(r)
  PROVE  Excused(r)'
<1>1. CASE "restart" \in upset \/ \E i \in DOMAIN floor : floor[i] \in pruned
  BY <1>1 DEF Excused
<1>2. CASE AtBoundary(r)
  <2>1. AtBoundary(r)'
    BY <1>2 DEF AtBoundary, Second, Timed
  <2>. QED BY <2>1 DEF Excused
<1>3. CASE list = "tag" /\ Cardinality({x \in InTable(r.table) \ {r} : x.at >= r.at}) >= ScanLimit
  <2> DEFINE S == {x \in InTable(r.table) \ {r} : x.at >= r.at}
             T == {x \in InTable(r.table)' \ {r} : x.at >= r.at}
  <2>1. S \in SUBSET T /\ T \in SUBSET rows'
    BY DEF InTable
  <2>2. IsFiniteSet(T)
    BY <2>1, FS_Subset
  <2>3. Cardinality(S) <= Cardinality(T) /\ Cardinality(S) \in Nat /\ Cardinality(T) \in Nat
    BY <2>1, <2>2, FS_Subset, FS_CardinalityType
  <2>4. ScanLimit \in Nat /\ Cardinality(S) >= ScanLimit
    BY <1>3, PagesAssumption
  <2>5. Cardinality(T) >= ScanLimit
    <3> HIDE DEF S, T
    <3>. QED BY <2>3, <2>4
  <2>6. T = {x \in InTable(r.table) \ {r} : x.at >= r.at}'
    BY DEF InTable
  <2>. QED BY <1>3, <2>5, <2>6 DEF Excused
<1>4. CASE list = "conversations" /\ {"arrival", "removal"} \cap upset # {}
  <2>1. {"arrival", "removal"} \cap upset' # {}
    BY <1>4
  <2>. QED BY <1>4, <2>1 DEF Excused
<1>5. CASE list \in Counted /\ "count" \in upset
  BY <1>5 DEF Excused
<1>6. CASE list = "index" /\ ({"removal", "pin"} \cap upset # {} \/ \E x \in rows \ {r} : x.at = r.at)
  <2>1. {"removal", "pin"} \cap upset' # {} \/ \E x \in rows' \ {r} : x.at = r.at
    BY <1>6
  <2>. QED BY <1>6, <2>1 DEF Excused
<1>. QED BY <1>1, <1>2, <1>3, <1>4, <1>5, <1>6 DEF Excused

LEMMA MissChanges ==
  ASSUME Base, MissInv, Changes
  PROVE  MissInv'
<1>1. Base' /\ Alters
  BY ChangesDo
<1>2. /\ list' = list /\ floor' = floor /\ cursor' = cursor /\ number' = number /\ state' = state
      /\ there' = there /\ seen' = seen /\ ends' = ends /\ gone \subseteq gone' /\ state # "done"
      /\ rows \subseteq rows' /\ pruned \subseteq pruned' /\ upset \subseteq upset'
  BY <1>1 DEF Alters
<1> SUFFICES ASSUME NEW r \in About(there \ gone)',
                    AfterFloor(r)', ~Excused(r)', ~Shown(r)'
             PROVE  Coming(r)'
  BY <1>2 DEF MissInv
<1>3. r \in About(there \ gone) /\ r \in there
  BY <1>2 DEF About
<1>4. AfterFloor(r) /\ ~Shown(r)
  BY <1>2, AfterFloorStays DEF Shown
<1>5. ~Excused(r)
  <2>1. IsFiniteSet(rows')
    BY <1>1 DEF Base, RowsInv
  <2>. QED BY <1>2, <2>1, ExcusedStays
<1>6. Coming(r)
  BY <1>3, <1>4, <1>5 DEF MissInv
<1>7. state = "open"
  <2>1. state # "closed"
    BY <1>3 DEF Base, ReaderInv
  <2>. QED BY <1>2, <2>1 DEF Base, PagesTypeOK
<1>8. CASE list \notin {"index", "conversations"}
  BY <1>2, <1>6, <1>8, UnderStays DEF Coming
<1>9. CASE list = "conversations"
  <2>1. {"arrival", "removal"} \cap upset' = {}
    BY <1>2, <1>9 DEF Excused
  <2>2. Live' \subseteq Live
    BY <1>7, <1>9, <2>1, ChangesDo
  <2>. QED BY <1>2, <1>6, <1>9, <2>2, UnderStays DEF Coming
<1>10. CASE list = "index"
  <2>1. {"removal", "pin"} \cap upset' = {}
    BY <1>2, <1>10 DEF Excused
  <2>2. \A x \in rows : x.table = "outbox"
    BY <1>10 DEF Base, RowsInv, Tables, Merged, Threaded
  <2>3. Live \subseteq Live' /\ pinned' = pinned
    BY <1>7, <2>1, <2>2, ChangesDo
  <2>4. Before(r) \in SUBSET Before(r)'
    BY <2>3 DEF Before, PinnedFirst
  <2>5. IsFiniteSet(Before(r)') /\ Cardinality(Before(r)') \in Nat
    <3>1. IsFiniteSet(rows') /\ Before(r)' \in SUBSET rows'
      BY <1>1 DEF Base, RowsInv, Before, Live
    <3>. QED BY <3>1, FS_Subset, FS_CardinalityType
  <2>6. Cardinality(Before(r)') >= Cardinality(Before(r)) /\ Cardinality(Before(r)) \in Nat
    BY <2>4, <2>5, BeforeIs, FS_Subset
  <2>7. number * Limit \in Nat
    BY PagesAssumption DEF Base, ReaderInv
  <2>8. Cardinality(Before(r)') >= number * Limit
    <3> DEFINE k == number * Limit
    <3>1. k \in Nat /\ Cardinality(Before(r)) >= k
      BY <1>6, <1>10, <2>7 DEF Coming
    <3> HIDE DEF k
    <3>2. Cardinality(Before(r)') >= k
      BY <2>5, <2>6, <3>1
    <3>. QED BY <3>2 DEF k
  <2>. QED BY <1>2, <1>10, <2>8 DEF Coming
<1>. QED BY <1>8, <1>9, <1>10

\* Opening a list, and counting its rows.
Rest == RowsInv /\ MissInv /\ TwiceInv /\ ReadInv /\ WalkInv

LEMMA OpenStep ==
  ASSUME Base, Rest, NEW known \in Places, Open(known)
  PROVE  Base' /\ Rest'
<1>1. /\ state = "closed" /\ state' = "open" /\ floor' = known /\ there' = Live
      /\ known # <<>> => list \in AllLists \ (Counted \cup Probed \cup {"messages", "index"})
      /\ UNCHANGED <<list, rows, gone, pruned, pinned, unread, cursor, number, counted, changes,
                     seen, twice, ends, upset>>
  BY DEF Open, tables
<1>2. cursor = <<>> /\ number = 0 /\ seen = {} /\ upset = {} /\ there = {} /\ counted = -1
  BY <1>1 DEF Base, ReaderInv
<1>3. RowsInv'
  BY <1>1, RowsStay DEF Base
<1>4. PagesTypeOK'
  BY <1>1 DEF Base, PagesTypeOK, Entry
<1>5. ReaderInv'
  <2>1. Places' = Places
    BY <1>1 DEF Places
  <2>. QED BY <1>1, <1>2, <2>1 DEF Base, ReaderInv, Live
<1>6. \A r : Coming(r)'
  <2> TAKE r
  <2>1. cursor' = <<>> /\ number' = 0
    BY <1>1, <1>2
  <2>2. \A x : Under(x)'
    <3>1. {cursor'[i] : i \in DOMAIN cursor'} = {}
      BY <2>1
    <3>. QED BY <3>1 DEF Under
  <2>3. number' * Limit = 0
    BY <2>1, PagesAssumption
  <2>4. IsFiniteSet(Before(r)') /\ Cardinality(Before(r)') \in Nat
    <3>1. Before(r)' = Before(r)
      BY <1>1 DEF Before, PinnedFirst, Live
    <3>. QED BY <3>1, BeforeIs
  <2>. QED BY <2>2, <2>3, <2>4 DEF Coming
<1>7. MissInv'
  BY <1>1, <1>6 DEF MissInv
<1>8. TwiceInv'
  <2>1. \A r \in twice : MayRepeat(r)'
    BY <1>2 DEF Base, ReaderInv
  <2>. QED BY <1>1, <1>2, <2>1 DEF TwiceInv
<1>9. ReadInv'
  BY <1>1 DEF Rest, ReadInv
<1>10. WalkInv'
  <2>1. Again' = Again /\ Again \in Nat /\ WalkEnds' /\ Cardinality(rows) \in Nat
    BY <1>1, AgainIs DEF Again, Lost, WalkEnds, Rest, WalkInv
  <2>. QED BY <1>1, <1>2, <2>1 DEF WalkInv
<1>. QED BY <1>3, <1>4, <1>5, <1>7, <1>8, <1>9, <1>10 DEF Base, Rest

LEMMA CountStep ==
  ASSUME Base, Rest, CountRows, state = "open"
  PROVE  Base' /\ Rest'
<1>1. /\ list \in Counted /\ counted = -1 /\ counted' = Cardinality(Between(Live))
      /\ UNCHANGED <<list, rows, gone, pruned, pinned, unread, floor, cursor, number, state, changes,
                     there, seen, twice, ends, upset>>
  BY DEF CountRows, tables, history
<1>2. Cardinality(Between(Live)) \in -1..MaxRows
  <2>1. Between(Live) \in SUBSET rows
    BY DEF Between, Live
  <2>2. Cardinality(Between(Live)) \in Nat /\ Cardinality(Between(Live)) <= Cardinality(rows)
        /\ Cardinality(rows) \in Nat
    BY <2>1, FS_Subset, FS_CardinalityType DEF Base, RowsInv
  <2>. QED BY <2>2, PagesAssumption DEF Base, RowsInv
<1>3. RowsInv'
  BY <1>1, RowsStay DEF Base
<1>4. PagesTypeOK'
  BY <1>1, <1>2 DEF Base, PagesTypeOK, Entry
<1>5. ReaderInv'
  BY <1>1 DEF Base, ReaderInv, Places
<1>6. \A r : Under(r)' = Under(r) /\ Before(r)' = Before(r)
  BY <1>1, UnderStays DEF Before, PinnedFirst, Live
<1>7. \A r : Coming(r)' = Coming(r) /\ Behind(r)' = Behind(r) /\ Shown(r)' = Shown(r)
  <2> TAKE r
  <2>1. Live' = Live
    BY <1>1 DEF Live
  <2>2. Coming(r)' = Coming(r)
    BY <1>1, <1>6, <2>1 DEF Coming
  <2>3. Behind(r)' = Behind(r)
    BY <1>1, <1>6 DEF Behind
  <2>. QED BY <1>1, <2>2, <2>3 DEF Shown
<1>10. IsFiniteSet(rows)
  BY DEF Base, RowsInv
<1>11. MissInv'
  <2> SUFFICES ASSUME NEW r \in About(there \ gone)', AfterFloor(r)', ~Excused(r)', ~Shown(r)'
               PROVE  Coming(r)'
    BY <1>1 DEF MissInv
  <2>1. r \in About(there \ gone) /\ AfterFloor(r) /\ ~Shown(r)
    BY <1>1, <1>7, AfterFloorStays DEF About
  <2>2. ~Excused(r)
    BY <1>1, <1>10, ExcusedStays
  <2>. QED BY <1>7, <2>1, <2>2 DEF Rest, MissInv
<1>12. TwiceInv'
  <2>1. \A r : MayRepeat(r) => MayRepeat(r)'
    BY <1>1, MayRepeatStays
  <2>. QED BY <1>1, <1>7, <2>1 DEF Rest, TwiceInv
<1>8. ReadInv'
  BY <1>1 DEF Rest, ReadInv
<1>9. WalkInv'
  BY <1>1 DEF Rest, WalkInv, WalkEnds, Again, Lost, PassedBy, Under, Ord, StatusId, Second
<1>. QED BY <1>3, <1>4, <1>5, <1>8, <1>9, <1>11, <1>12 DEF Base, Rest

-----------------------------------------------------------------------------
(* A page of a list that is read downwards. *)

\* It lies under the cursor, and its last row is the lowest, with two exceptions.
Sorted(page, last) ==
  /\ cursor # <<>> /\ cursor[1] \notin pruned => \A r \in page : Under(r)
  /\ \A c \in last, r \in page :
       \/ Ord(r) >= Ord(c)
       \/ list \in Merged /\ c.at > r.at /\ Second(c) = Second(r)
       \/ list = "groups" /\ \E a, b \in page : /\ a.key = r.key /\ b.key # r.key
                                              /\ a.n > b.n /\ b.n > r.n

\* The next cursor.
LEMMA NextCursor ==
  ASSUME Base, NEW page, NEW last, Reads(page, last), state' # "done"
  PROVE  \E c \in last : /\ cursor' = <<c>> /\ c \in page /\ c \in Live /\ c \in rows /\ ends' = ends \cup {c}
                         /\ \A r : Under(r)' <=> Ord(r) < Ord(c)
<1>1. PICK c \in last : cursor' = <<c>> /\ ends' = ends \cup {c}
  BY DEF Reads
<1>2. {cursor'[i] : i \in DOMAIN cursor'} = {c}
  <2>1. DOMAIN cursor' = {1} /\ cursor'[1] = c
    BY <1>1
  <2>. QED BY <2>1
<1>3. \A r : Ord(r)' = Ord(r)
  BY OrdStays DEF Reads
<1>4. \A r : Under(r)' <=> Ord(r) < Ord(c)
  BY <1>2, <1>3 DEF Under
<1>. QED BY <1>1, <1>4 DEF Reads, Live

LEMMA TwiceReads ==
  ASSUME Base, TwiceInv, list # "index", NEW page, NEW last, Reads(page, last), Sorted(page, last)
  PROVE  TwiceInv'
<1>1. /\ list' = list /\ rows' = rows /\ upset \subseteq upset' /\ seen' = seen \cup page
      /\ twice' = twice \cup (page \cap seen) /\ state = "open" /\ ends \subseteq ends'
      /\ page \subseteq rows /\ seen \subseteq rows
  BY DEF Reads, Base, PagesTypeOK
<1>2. \A r : MayRepeat(r) => MayRepeat(r)'
  BY <1>1, MayRepeatStays
<1>3. \A r \in seen : MayRepeat(r) \/ ~Under(r)
  BY <1>1 DEF TwiceInv, Behind
<1>4. ASSUME "restart" \notin upset, seen # {} PROVE \A r \in page : Under(r)
  <2>1. cursor # <<>> /\ cursor[1] \notin pruned
    BY <1>1, <1>4 DEF Base, ReaderInv
  <2>. QED BY <2>1 DEF Sorted
<1>5. ASSUME "restart" \in upset PROVE \A r : MayRepeat(r)
  BY <1>5 DEF MayRepeat
<1>6. \A r \in twice' : MayRepeat(r)'
  <2> SUFFICES ASSUME NEW r \in twice' PROVE MayRepeat(r)
    BY <1>2
  <2>. QED BY <1>1, <1>3, <1>4, <1>5 DEF TwiceInv
<1>7. ASSUME state' = "open", NEW r \in seen' PROVE MayRepeat(r)' \/ Behind(r)'
  <2>1. PICK c \in last : /\ cursor' = <<c>> /\ c \in page /\ c \in rows /\ ends' = ends \cup {c}
                          /\ \A x : Under(x)' <=> Ord(x) < Ord(c)
    BY <1>7, NextCursor
  <2>2. Ord(r) \in Nat /\ Ord(c) \in Nat /\ r \in rows
    BY <1>1, <1>7, <2>1, OrdIs DEF Base
  <2>3. CASE MayRepeat(r)
    BY <1>2, <2>3
  <2>4. CASE r \in seen /\ ~MayRepeat(r)
    <3>1. "restart" \notin upset /\ seen # {} /\ ~Under(r)
      BY <1>3, <1>5, <2>4
    <3>2. Under(c)
      BY <1>4, <2>1, <3>1
    <3>3. PICK d \in rows : cursor = <<d>>
      BY <1>1, <3>1 DEF Base, ReaderInv, Places
    <3>4. ~(Ord(r) < Ord(d)) /\ Ord(c) < Ord(d) /\ Ord(d) \in Nat
      BY <3>1, <3>2, <3>3, UnderIs, OrdIs DEF Base
    <3>5. ~Under(r)'
      BY <2>1, <2>2, <3>4
    <3>. QED BY <1>1, <3>5 DEF Behind
  <2>5. CASE r \in page
    <3>1. CASE Ord(r) >= Ord(c)
      BY <1>1, <2>1, <2>2, <3>1 DEF Behind
    <3>2. CASE list \in Merged /\ c.at > r.at /\ Second(c) = Second(r)
      BY <1>1, <2>1, <3>2 DEF MayRepeat, Second
    <3>3. CASE list = "groups" /\ \E a, b \in page : /\ a.key = r.key /\ b.key # r.key
                                                   /\ a.n > b.n /\ b.n > r.n
      BY <1>1, <3>3 DEF MayRepeat
    <3>. QED BY <2>1, <2>5, <3>1, <3>2, <3>3 DEF Sorted
  <2>. QED BY <1>1, <1>7, <2>3, <2>4, <2>5
<1>. QED BY <1>6, <1>7 DEF TwiceInv

\* The page's last row is there, so that no cursor is lost by reading.
LEMMA LostStays ==
  ASSUME Base, NEW page, NEW last, Reads(page, last)
  PROVE  Lost' = Lost
<1>1. ends' \cap pruned' = ends \cap pruned
  BY DEF Reads, Base, PagesTypeOK, Live
<1>. QED BY <1>1 DEF Lost

LEMMA WalkReads ==
  ASSUME Base, WalkInv, list # "index", NEW page, NEW last, Reads(page, last), Sorted(page, last)
  PROVE  WalkInv'
<1>1. /\ list' = list /\ rows' = rows /\ state = "open" /\ pruned' = pruned
      /\ number' = number + 1 /\ page \subseteq rows
  BY DEF Reads
<1>2. number \in Nat /\ IsFiniteSet(rows)
  BY DEF Base, ReaderInv, RowsInv
<1>3. Again' = Again /\ Lost' = Lost
  BY <1>1, LostStays DEF Again
<1>4. number <= Cardinality(rows) + Again
  <2>1. number <= Again \/ number <= Cardinality(PassedBy) + Again
    BY <1>1 DEF WalkInv
  <2>. QED BY <1>2, <2>1, AgainIs
<1>5. WalkEnds'
  <2> DEFINE b == Cardinality(rows) * (1 + Lost)
  <2>1. b = Cardinality(rows) + Again /\ Again \in Nat /\ Cardinality(rows) \in Nat
    BY AgainIs
  <2> HIDE DEF b
  <2>2. number + 1 <= 1 + b
    BY <1>2, <1>4, <2>1
  <2>3. number' <= 1 + Cardinality(rows') * (1 + Lost')
    BY <1>1, <1>3, <2>2 DEF b
  <2>. QED BY <2>3 DEF WalkEnds, Lost
<1>6. ASSUME state' # "done" PROVE cursor' # <<>> /\ cursor'[1] \notin pruned' /\ number' <= Cardinality(PassedBy') + Again'
  <2>1. PICK c \in last : /\ cursor' = <<c>> /\ c \in page /\ c \in rows /\ c \in Live
                          /\ \A x : Under(x)' <=> Ord(x) < Ord(c)
    BY <1>6, NextCursor
  <2>2. c \in PassedBy' /\ PassedBy' \in SUBSET rows
    BY <1>1, <2>1, OrdIs DEF PassedBy, Base
  <2>3. IsFiniteSet(PassedBy') /\ Cardinality(PassedBy') \in Nat
    BY <1>2, <2>2, FS_Subset, FS_CardinalityType
  <2>4. cursor' # <<>> /\ cursor'[1] \notin pruned'
    BY <1>1, <2>1 DEF Live, Base, PagesTypeOK
  <2>5. CASE cursor = <<>> \/ cursor[1] \in pruned
    <3>1. number <= Again
      BY <1>1, <2>5 DEF WalkInv
    <3>2. Cardinality(PassedBy') # 0
      BY <2>2, <2>3, FS_EmptySet
    <3>3. number' <= Cardinality(PassedBy') + Again'
      BY <1>1, <1>2, <1>3, <2>3, <3>1, <3>2, AgainIs
    <3>. QED BY <2>4, <3>3
  <2>6. CASE cursor # <<>> /\ cursor[1] \notin pruned
    <3>1. number <= Cardinality(PassedBy) + Again
      BY <1>1, <2>6 DEF WalkInv
    <3>2. PICK d \in rows : cursor = <<d>>
      BY <2>6 DEF Base, ReaderInv, Places
    <3>3. Ord(c) < Ord(d) /\ Ord(c) \in Nat /\ Ord(d) \in Nat
      <4>1. Under(c)
        BY <2>1, <2>6 DEF Sorted
      <4>. QED BY <2>1, <3>2, <4>1, UnderIs, OrdIs DEF Base
    <3>4. \A x \in PassedBy : x \in PassedBy'
      <4> SUFFICES ASSUME NEW x \in PassedBy PROVE x \in PassedBy'
        OBVIOUS
      <4>1. x \in rows /\ ~(Ord(x) < Ord(d)) /\ Ord(x) \in Nat
        BY <3>2, UnderIs, OrdIs DEF PassedBy, Base
      <4>2. ~Under(x)'
        BY <2>1, <3>3, <4>1
      <4>. QED BY <1>1, <4>1, <4>2 DEF PassedBy
    <3>5. c \notin PassedBy
      BY <3>2, <3>3, UnderIs DEF PassedBy
    <3>6. PassedBy \cup {c} \in SUBSET PassedBy'
      BY <2>2, <3>4
    <3>7. IsFiniteSet(PassedBy)
      BY <2>3, <3>4, FS_Subset
    <3>8. Cardinality(PassedBy \cup {c}) = Cardinality(PassedBy) + 1
      BY <3>5, <3>7, FS_AddElement
    <3>9. Cardinality(PassedBy) + 1 <= Cardinality(PassedBy')
      BY <2>3, <3>6, <3>8, FS_Subset
    <3>10. number' <= Cardinality(PassedBy') + Again'
      BY <1>1, <1>2, <1>3, <2>3, <3>1, <3>9, AgainIs
    <3>. QED BY <2>4, <3>10
  <2>. QED BY <2>5, <2>6
<1>. QED BY <1>1, <1>5, <1>6 DEF WalkInv

-----------------------------------------------------------------------------
(* What a page of such a list leaves. *)

\* A row that the reader is still to be shown.
Waits(r) ==
  /\ r \in About(there \ gone) /\ AfterFloor(r) /\ ~Excused(r) /\ ~Shown(r) /\ Coming(r)
\* The row r is at the boundary of a page that ends with c.
Tie(c, r) == IF list \in Merged THEN c.at <= r.at /\ Second(c) = Second(r) ELSE Timed(list) /\ c.at = r.at

LEMMA WaitsIs ==
  ASSUME Base, NEW r, Waits(r)
  PROVE  /\ r \in Live /\ r \in rows /\ r \in Entry /\ r \notin pruned
         /\ "restart" \notin upset /\ \A i \in DOMAIN floor : floor[i] \notin pruned
         /\ cursor # <<>> => cursor[1] \notin pruned
<1>1. r \in there /\ r \notin gone
  BY DEF Waits, About
<1>2. "restart" \notin upset /\ \A i \in DOMAIN floor : floor[i] \notin pruned
  BY DEF Waits, Excused
<1>. QED BY <1>1, <1>2 DEF Base, ReaderInv, PagesTypeOK, Live

LEMMA MissReads ==
  ASSUME Base, MissInv, list \notin {"index", "conversations", "messages"},
         NEW page, NEW last, Reads(page, last),
         \A r : Waits(r) /\ r \notin page =>
                  /\ last = {} => Excused(r)'
                  /\ \A c \in last : Ord(r) < Ord(c) \/ Tie(c, r)
  PROVE  MissInv'
<1>1. /\ list' = list /\ floor' = floor /\ there' = there /\ gone' = gone /\ state = "open"
      /\ seen' = seen \cup page /\ rows' = rows /\ pruned' = pruned /\ upset \subseteq upset'
      /\ ends \subseteq ends' /\ IsFiniteSet(rows)
  BY DEF Reads, Base, RowsInv
<1> SUFFICES ASSUME NEW r \in About(there \ gone)', AfterFloor(r)', ~Excused(r)', ~Shown(r)'
             PROVE  state' # "done" /\ Coming(r)'
  BY DEF MissInv
<1>2. r \in About(there \ gone) /\ AfterFloor(r) /\ ~Shown(r) /\ r \notin page
  <2>1. list \notin Threaded
    <3>1. list # "conversations" /\ list # "messages"
      OBVIOUS
    <3>. QED BY <3>1 DEF Threaded
  <2>. QED BY <1>1, <2>1, AfterFloorStays DEF About, Shown
<1>3. ~Excused(r)
  BY <1>1, ExcusedStays
<1>4. Waits(r)
  BY <1>1, <1>2, <1>3 DEF MissInv, Waits
<1>5. last # {} /\ \A c \in last : Ord(r) < Ord(c) \/ Tie(c, r)
  BY <1>2, <1>4
<1>6. state' # "done"
  BY <1>5 DEF Reads
<1>7. PICK c \in last : /\ cursor' = <<c>> /\ c \in page /\ ends' = ends \cup {c}
                        /\ \A x : Under(x)' <=> Ord(x) < Ord(c)
  BY <1>6, NextCursor
<1>8. ~Tie(c, r)
  <2> SUFFICES ASSUME Tie(c, r) PROVE FALSE
    OBVIOUS
  <2>1. c \in ends' \ {r}
    BY <1>2, <1>7
  <2>2. AtBoundary(r)'
    <3>1. CASE list \in Merged
      BY <1>1, <2>1, <3>1 DEF Tie, AtBoundary, Second
    <3>2. CASE list \notin Merged
      BY <1>1, <2>1, <3>2 DEF Tie, AtBoundary, Timed
    <3>. QED BY <3>1, <3>2
  <2>. QED BY <2>2 DEF Excused
<1>9. Under(r)'
  BY <1>5, <1>7, <1>8
<1>10. list # "index" /\ list # "conversations"
  OBVIOUS
<1>. QED BY <1>1, <1>6, <1>9, <1>10 DEF Coming

\* The three orders, and the rows between the floor and the cursor.
ByTime == Merged \cup Counted \cup Probed \cup {"list"}
Numbered == ById \cup {"groups"}

LEMMA OrdOf ==
  /\ list \in ByTime => \A r : Ord(r) = r.at
  /\ list \in Numbered => \A r : Ord(r) = r.n
  /\ list = "conversations" => \A r : Ord(r) = StatusId(r)
  /\ list \in ByTime => Timed(list)
<1>1. list \in ByTime => list \notin ById \cup {"groups"} /\ list # "conversations"
  BY DEF ByTime, Merged, Counted, Probed, ById
<1>2. list \in Numbered => list \in ById \cup {"groups"}
  BY DEF Numbered
<1>3. list = "conversations" => list \notin ById \cup {"groups"}
  BY DEF ById
<1>. QED BY <1>1, <1>2, <1>3 DEF Ord, Timed

LEMMA FloorIs ==
  ASSUME Base
  PROVE  floor = <<>> \/ \E f \in rows : /\ floor = <<f>> /\ floor[1] = f /\ 1 \in DOMAIN floor
                                         /\ {floor[i] : i \in DOMAIN floor} = {f}
<1> SUFFICES ASSUME NEW f \in rows, floor = <<f>>
             PROVE  floor[1] = f /\ 1 \in DOMAIN floor /\ {floor[i] : i \in DOMAIN floor} = {f}
  BY DEF Base, ReaderInv, Places
<1>1. DOMAIN floor = {1} /\ floor[1] = f
  OBVIOUS
<1>. QED BY <1>1

LEMMA BetweenUnder ==
  ASSUME Base, list \in ByTime, NEW S \in SUBSET rows, NEW r \in Between(S), cursor # <<>>,
         cursor[1] \notin pruned
  PROVE  Under(r)
<1>1. PICK c \in rows : cursor = <<c>>
  BY DEF Base, ReaderInv, Places
<1>2. cursor[1] = c
  BY <1>1
<1>3. Resolve(cursor) = {c}
  BY <1>1, <1>2 DEF Resolve
<1>4. r.at < c.at
  BY <1>3 DEF Between
<1>. QED BY <1>1, <1>4, UnderIs, OrdOf

LEMMA BetweenHas ==
  ASSUME Base, list \in ByTime, NEW r, Waits(r), NEW S \in SUBSET rows, r \in S
  PROVE  r \in Between(S)
<1>1. Under(r) /\ AfterFloor(r)
  <2>1. list \notin {"index", "conversations"}
    BY DEF ByTime, Merged, Counted, Probed
  <2>. QED BY <2>1 DEF Waits, Coming
<1>2. CASE cursor # <<>>
  <2>1. PICK c \in rows : cursor = <<c>>
    BY <1>2 DEF Base, ReaderInv, Places
  <2>2. cursor[1] = c /\ c \notin pruned
    BY <1>2, <2>1, WaitsIs
  <2>3. Resolve(cursor) = {c}
    BY <1>2, <2>2 DEF Resolve
  <2>4. r.at < c.at
    BY <1>1, <2>1, UnderIs, OrdOf
  <2>. QED BY <1>2, <2>3, <2>4 DEF Between
<1>3. CASE cursor = <<>>
  <2>1. CASE floor = <<>>
    <3>1. Resolve(floor) = {}
      BY <2>1 DEF Resolve
    <3>. QED BY <1>3, <3>1 DEF Between
  <2>2. CASE floor # <<>>
    <3>1. PICK f \in rows : floor = <<f>> /\ floor[1] = f /\ 1 \in DOMAIN floor
                            /\ {floor[i] : i \in DOMAIN floor} = {f}
      BY <2>2, FloorIs
    <3>2. list \in Merged \cup {"list"}
      BY <2>2 DEF Base, ReaderInv, ByTime
    <3>3. r.at > f.at
      <4>1. f \in {floor[i] : i \in DOMAIN floor}
        BY <3>1
      <4>2. (CASE list \in Merged \cup {"list"} -> r.at > f.at
               [] list = "conversations" -> StatusId(r) > StatusId(f)
               [] OTHER -> r.n > f.n)
        BY <1>1, <4>1 DEF AfterFloor
      <4>3. list # "conversations"
        BY <3>2 DEF Merged
      <4>. QED BY <3>2, <4>2, <4>3
    <3>4. Resolve(floor) = {f}
      BY <2>2, <3>1, WaitsIs DEF Resolve
    <3>. QED BY <1>3, <3>3, <3>4 DEF Between
  <2>. QED BY <2>1, <2>2
<1>. QED BY <1>2, <1>3

LEMMA BetweenIdsIs ==
  ASSUME Base, NEW S \in SUBSET rows
  PROVE  /\ list \in Numbered =>
              /\ \A r \in BetweenIds(S, IdOf) : Under(r)
              /\ \A r \in S : Under(r) /\ AfterFloor(r) => r \in BetweenIds(S, IdOf)
         /\ list = "conversations" =>
              /\ \A r \in BetweenIds(S, StatusId) : Under(r)
              /\ \A r \in S : Under(r) /\ AfterFloor(r) => r \in BetweenIds(S, StatusId)
         /\ BetweenIds(S, IdOf) \subseteq S /\ BetweenIds(S, StatusId) \subseteq S
<1>1. CASE cursor = <<>>
  <2>1. \A r : Under(r)
    BY <1>1, UnderIs
  <2>2. CASE floor = <<>>
    BY <1>1, <2>1, <2>2 DEF BetweenIds
  <2>3. CASE floor # <<>>
    <3>1. PICK f \in rows : floor = <<f>> /\ floor[1] = f /\ {floor[i] : i \in DOMAIN floor} = {f}
      BY <2>3, FloorIs
    <3>2. list \in Numbered => \A r : AfterFloor(r) <=> r.n > f.n
      <4>1. list \in Numbered => list \notin Merged \cup {"list"} /\ list # "conversations"
        BY DEF Numbered, ById, Merged
      <4>. QED BY <3>1, <4>1 DEF AfterFloor
    <3>3. list = "conversations" => \A r : AfterFloor(r) <=> StatusId(r) > StatusId(f)
      <4>1. list = "conversations" => list \notin Merged \cup {"list"}
        BY DEF Merged
      <4>. QED BY <3>1, <4>1 DEF AfterFloor
    <3>. QED BY <1>1, <2>1, <2>3, <3>1, <3>2, <3>3 DEF BetweenIds, IdOf
  <2>. QED BY <2>2, <2>3
<1>2. CASE cursor # <<>>
  <2>1. PICK c \in rows : cursor = <<c>>
    BY <1>2 DEF Base, ReaderInv, Places
  <2>2. cursor[1] = c
    BY <2>1
  <2>3. \A r : Under(r) <=> Ord(r) < Ord(c)
    BY <2>1, UnderIs
  <2>. QED BY <1>2, <2>2, <2>3, OrdOf DEF BetweenIds, IdOf
<1>. QED BY <1>1, <1>2

LEMMA LowestAre ==
  ASSUME NEW page \in SUBSET Entry
  PROVE  /\ Lowest(page, AtOf) \subseteq page /\ Lowest(page, IdOf) \subseteq page
         /\ Lowest(page, StatusId) \subseteq page
         /\ \A c \in Lowest(page, AtOf), r \in page : r.at >= c.at
         /\ \A c \in Lowest(page, IdOf), r \in page : r.n >= c.n
         /\ \A c \in Lowest(page, StatusId), r \in page : StatusId(r) >= StatusId(c)
         /\ page # {} => Lowest(page, AtOf) # {} /\ Lowest(page, IdOf) # {} /\ Lowest(page, StatusId) # {}
<1>1. ASSUME page # {} PROVE Lowest(page, AtOf) # {}
  <2> DEFINE f == [r \in page |-> r.at]
  <2>1. f \in [page -> Nat]
    BY EntryIs
  <2>2. PICK r \in page : \A x \in page : f[x] >= f[r]
    <3> HIDE DEF f
    <3>. QED BY <1>1, <2>1, LeastIs
  <2>. QED BY <2>2 DEF Lowest, AtOf
<1>2. ASSUME page # {} PROVE Lowest(page, IdOf) # {}
  <2> DEFINE f == [r \in page |-> r.n]
  <2>1. f \in [page -> Nat]
    BY EntryIs
  <2>2. PICK r \in page : \A x \in page : f[x] >= f[r]
    <3> HIDE DEF f
    <3>. QED BY <1>2, <2>1, LeastIs
  <2>. QED BY <2>2 DEF Lowest, IdOf
<1>3. ASSUME page # {} PROVE Lowest(page, StatusId) # {}
  <2> DEFINE f == [r \in page |-> StatusId(r)]
  <2>1. f \in [page -> Nat]
    BY StatusIds
  <2>2. PICK r \in page : \A x \in page : f[x] >= f[r]
    <3> HIDE DEF f
    <3>. QED BY <1>3, <2>1, LeastIs
  <2>. QED BY <2>2 DEF Lowest
<1>. QED BY <1>1, <1>2, <1>3 DEF Lowest, AtOf, IdOf

-----------------------------------------------------------------------------
(* What a page is, whatever the order. *)

\* T has the rows of S, or k of them.
OfSize(T, S, k) ==
  /\ T \in SUBSET S /\ IsFiniteSet(T) /\ Cardinality(T) \in Nat /\ Cardinality(T) <= k
  /\ T # S => Cardinality(T) = k /\ Cardinality(S) > k
  /\ Cardinality(S) >= k => Cardinality(T) = k
  /\ S # {} /\ k # 0 => T # {}

LEMMA TakeIs ==
  ASSUME Base, NEW S \in SUBSET rows, NEW k \in Nat, NEW T
  PROVE  /\ T \in Take(S, k, AtOf) => OfSize(T, S, k) /\ \A x \in T, y \in S \ T : x.at >= y.at
         /\ T \in Take(S, k, IdOf) => OfSize(T, S, k) /\ \A x \in T, y \in S \ T : x.n >= y.n
         /\ T \in Take(S, k, StatusId) =>
              OfSize(T, S, k) /\ \A x \in T, y \in S \ T : StatusId(x) >= StatusId(y)
         /\ T \in Take(S, k, PinnedFirst) =>
              OfSize(T, S, k) /\ \A x \in T, y \in S \ T : PinnedFirst(x) >= PinnedFirst(y)
<1>1. IsFiniteSet(S)
  BY FS_Subset DEF Base, RowsInv
<1>2. ASSUME T \in SUBSET S, Cardinality(T) = Min({k, Cardinality(S)}) PROVE OfSize(T, S, k)
  BY <1>1, <1>2, PageIs DEF OfSize
<1>. QED BY <1>2 DEF Take, AtOf, IdOf

LEMMA ShowReads ==
  ASSUME state = "open", NEW page, NEW last, page \subseteq rows \ pruned, last \subseteq page \cap Live,
         Show(page, last), unread' \subseteq unread,
         list \in {"notifications", "groups", "admin_notifications"} => unread' \cap page = {},
         list = "messages" => last = {}
  PROVE  Reads(page, last)
  BY DEF Show, Reads, tables

LEMMA LiveIs == Base => Live \subseteq rows \ pruned /\ Live \in SUBSET rows /\ rows \subseteq Entry
  BY DEF Base, PagesTypeOK, Live

-----------------------------------------------------------------------------
(* Timelines: each box gives a page, and the newest of both are shown. *)

LEMMA MergedPage ==
  ASSUME Base, list \in Merged,
         NEW S \in SUBSET Live, NEW k \in Nat \ {0}, NEW A, NEW B,
         A \in Take(Between({x \in S : x.table = "inbox"}), k, AtOf),
         B \in Take(Between({x \in S : x.table = "outbox"}), k, AtOf),
         NEW W \in SUBSET S, NEW page, page \in Take((A \cup B) \cap W, Limit, StatusId),
         NEW r \in W, Waits(r), r \notin page,
         (k = Limit /\ W = S) \/ (list = "tag" /\ k = ScanLimit)
  PROVE  /\ page # {}
         /\ \A c \in Lowest(page, StatusId) : Ord(r) < Ord(c) \/ Tie(c, r)
<1>1. /\ r \in rows /\ r \in Entry /\ S \in SUBSET rows /\ rows \subseteq Entry /\ list \in ByTime
      /\ Limit \in Nat \ {0}
  BY WaitsIs, LiveIs, PagesAssumption DEF ByTime
<1>2. r.table \in {"inbox", "outbox"}
  <2>1. r.table \in Tables(list)
    BY <1>1 DEF Base, RowsInv
  <2>. QED BY <2>1 DEF Tables, Merged, Threaded
<1>3. PICK box \in {"inbox", "outbox"} : r.table = box
  BY <1>2
<1> DEFINE Q == {x \in S : x.table = box}
           C == IF box = "inbox" THEN A ELSE B
           T == (A \cup B) \cap W
<1>4. C \in Take(Between(Q), k, AtOf)
  BY <1>3
<1>5. r \in Between(Q) /\ Between(Q) \in SUBSET rows /\ Q \in SUBSET rows
  <2>1. Q \in SUBSET rows /\ r \in Q
    BY <1>1, <1>3
  <2>. QED BY <1>1, <2>1, BetweenHas DEF Between
<1>6. OfSize(C, Between(Q), k) /\ \A x \in C, y \in Between(Q) \ C : x.at >= y.at
  BY <1>4, <1>5, TakeIs
<1>7. A \subseteq S /\ B \subseteq S
  <2>1. Between({x \in S : x.table = "inbox"}) \in SUBSET rows
        /\ Between({x \in S : x.table = "outbox"}) \in SUBSET rows
    BY <1>1 DEF Between
  <2>2. OfSize(A, Between({x \in S : x.table = "inbox"}), k)
        /\ OfSize(B, Between({x \in S : x.table = "outbox"}), k)
    BY <2>1, TakeIs
  <2>. QED BY <2>2 DEF OfSize, Between
<1>8. T \in SUBSET rows
  BY <1>1
<1>9. OfSize(page, T, Limit) /\ \A x \in page, y \in T \ page : StatusId(x) >= StatusId(y)
  BY <1>1, <1>8, TakeIs
<1>10. C \subseteq A \cup B
  OBVIOUS
<1> HIDE DEF Q, C, T
\* A row of the same second or a later one is on the page, or left out like r.
<1>11. ASSUME NEW a \in T, a.at >= r.at, NEW c \in Lowest(page, StatusId), a \notin page \/ a = c
       PROVE  Ord(r) < Ord(c) \/ Tie(c, r)
  <2>1. c \in page /\ c \in Entry /\ a \in Entry
    BY <1>1, <1>8, <1>9 DEF Lowest, OfSize
  <2>2. StatusId(c) >= StatusId(a)
    <3>1. StatusId(c) \in Nat
      BY <2>1, StatusIds
    <3>. QED BY <1>9, <1>11, <2>1, <3>1
  <2>3. Second(c) >= Second(a) /\ Second(a) >= Second(r)
    BY <1>1, <1>11, <2>1, <2>2, StatusIds, SecondIs
  <2>4. Second(c) \in Nat /\ Second(a) \in Nat /\ Second(r) \in Nat /\ c.at \in Nat /\ r.at \in Nat
    BY <1>1, <2>1, EntryIs
  <2>5. CASE r.at < c.at
    BY <1>1, <2>5, OrdOf
  <2>6. CASE c.at <= r.at
    <3>1. Second(r) >= Second(c)
      BY <1>1, <2>1, <2>6, <2>4, SecondIs
    <3>. QED BY <2>3, <2>4, <2>6, <3>1 DEF Tie
  <2>. QED BY <2>4, <2>5, <2>6
<1>12. CASE r \in C
  <2>1. r \in T /\ r.at >= r.at
    BY <1>1, <1>10, <1>12, EntryIs DEF T
  <2>2. page # {}
    BY <1>1, <1>9, <2>1 DEF OfSize
  <2>. QED BY <1>11, <2>1, <2>2
<1>13. CASE r \notin C
  <2>1. Cardinality(C) = k /\ C \in SUBSET rows /\ IsFiniteSet(C) /\ \A x \in C : x.at >= r.at
    BY <1>5, <1>6, <1>13 DEF OfSize
  <2>2. CASE k = Limit /\ W = S
    <3>1. C \subseteq T
      BY <1>7, <1>10, <2>2 DEF T
    <3>2. C # {}
      BY <1>1, <2>1, <2>2, FS_EmptySet
    <3>3. page # {} /\ IsFiniteSet(page) /\ Cardinality(page) <= Limit
      BY <1>1, <1>9, <3>1, <3>2 DEF OfSize
    <3>4. ASSUME NEW c \in Lowest(page, StatusId) PROVE Ord(r) < Ord(c) \/ Tie(c, r)
      <4>1. c \in page
        BY DEF Lowest
      <4>2. CASE c \in C
        BY <1>11, <2>1, <3>1, <4>2
      <4>3. CASE c \notin C
        <5>1. C \cup {c} \subseteq page => Cardinality(C) + 1 <= Cardinality(page)
          <6>1. Cardinality(C \cup {c}) = Cardinality(C) + 1
            BY <2>1, <4>3, FS_AddElement
          <6>. QED BY <3>3, <6>1, FS_Subset
        <5>2. Cardinality(page) \in Nat
          BY <3>3, FS_CardinalityType
        <5>3. PICK a \in C : a \notin page
          BY <1>1, <2>1, <2>2, <3>3, <4>1, <5>1, <5>2
        <5>. QED BY <1>11, <2>1, <3>1, <5>3
      <4>. QED BY <4>2, <4>3
    <3>. QED BY <3>3, <3>4
  <2>3. CASE list = "tag" /\ k = ScanLimit
    <3> DEFINE P == {x \in InTable(r.table) \ {r} : x.at >= r.at}
    <3>1. C \subseteq P
      <4>1. \A x \in C : x \in rows /\ x.table = r.table /\ x.at >= r.at /\ x # r
        BY <1>3, <1>6, <1>13, <2>1 DEF OfSize, Between, Q
      <4>. QED BY <4>1 DEF InTable
    <3>2. P \in SUBSET rows
      BY DEF InTable
    <3>3. IsFiniteSet(P) /\ Cardinality(P) \in Nat
      BY <3>2, FS_Subset, FS_CardinalityType DEF Base, RowsInv
    <3>4. Cardinality(P) >= ScanLimit
      BY <2>1, <2>3, <3>1, <3>3, FS_Subset
    <3> HIDE DEF P
    <3>5. Excused(r)
      BY <2>3, <3>4 DEF Excused, P
    <3>. QED BY <3>5 DEF Waits
  <2>. QED BY <2>2, <2>3
<1>. QED BY <1>12, <1>13

-----------------------------------------------------------------------------
(* A page of a list that is read downwards leaves the invariant. *)

LEMMA PageStep ==
  ASSUME Base, Rest, list \notin {"index", "conversations", "messages"},
         NEW page, NEW last, Reads(page, last), Sorted(page, last),
         \A r : Waits(r) /\ r \notin page =>
                  /\ last = {} => Excused(r)'
                  /\ \A c \in last : Ord(r) < Ord(c) \/ Tie(c, r)
  PROVE  Base' /\ Rest'
<1>1. Base' /\ ReadInv'
  BY ReadsBase DEF Rest
<1>2. MissInv'
  BY MissReads DEF Rest
<1>3. TwiceInv' /\ WalkInv'
  BY TwiceReads, WalkReads DEF Rest
<1>. QED BY <1>1, <1>2, <1>3 DEF Rest, Base

\* The rows a list is about are those it looks for.
LEMMA WantedIs ==
  ASSUME Base, NEW r, Waits(r)
  PROVE  /\ r \in Live
         /\ list \in {"home", "public"} => r.key # "hidden"
         /\ list \in {"quotes", "tag", "list", "bookmarks", "favourites"} => r.key = "wanted"
<1>1. r \in About(there \ gone)
  BY DEF Waits
<1>2. r \in Live
  BY WaitsIs
<1>. QED BY <1>1, <1>2, AboutIs

LEMMA MergedStep ==
  ASSUME Base, Rest, state = "open", list \in Merged, UNCHANGED unread,
         NEW S \in SUBSET Live, NEW k \in Nat \ {0}, NEW T, T \in Both(S, k),
         NEW W \in SUBSET S, NEW page, page \in Take(T \cap W, Limit, StatusId),
         Show(page, Lowest(page, StatusId)),
         (k = Limit /\ W = S) \/ (list = "tag" /\ k = ScanLimit),
         \A r : Waits(r) => r \in W
  PROVE  Base' /\ Rest'
<1>1. PICK A \in Take(Between({x \in S : x.table = "inbox"}), k, AtOf),
           B \in Take(Between({x \in S : x.table = "outbox"}), k, AtOf) : T = A \cup B
  BY DEF Both, Fetch
<1> DEFINE SA == {x \in S : x.table = "inbox"}
           SB == {x \in S : x.table = "outbox"}
<1>2. SA \in SUBSET rows /\ SB \in SUBSET rows /\ Between(SA) \in SUBSET S /\ Between(SB) \in SUBSET S
  BY LiveIs DEF Between
<1>3. A \subseteq Between(SA) /\ B \subseteq Between(SB)
  BY <1>1, <1>2, TakeIs, LiveIs DEF OfSize
<1>4. T \cap W \in SUBSET Live /\ Limit \in Nat \ {0} /\ list \in ByTime
  BY <1>1, <1>2, <1>3, PagesAssumption DEF ByTime
<1>5. page \in SUBSET (T \cap W)
  <2>1. T \cap W \in SUBSET rows /\ Limit \in Nat
    BY <1>4, LiveIs
  <2>. QED BY <2>1, TakeIs DEF OfSize
<1>6. page \in SUBSET Entry /\ page \subseteq Live
  BY <1>4, <1>5, LiveIs
<1>7. Lowest(page, StatusId) \subseteq page
  BY <1>6, LowestAre
<1>8. list \notin {"index", "conversations", "messages", "notifications", "groups", "admin_notifications"}
  BY DEF Merged
<1>9. Reads(page, Lowest(page, StatusId))
  BY <1>6, <1>7, <1>8, LiveIs, ShowReads
<1>10. Sorted(page, Lowest(page, StatusId))
  <2>1. ASSUME cursor # <<>>, cursor[1] \notin pruned, NEW r \in page PROVE Under(r)
    <3>1. r \in Between(SA) \/ r \in Between(SB)
      BY <1>1, <1>3, <1>5
    <3>. QED BY <1>2, <1>4, <2>1, <3>1, BetweenUnder
  <2>2. ASSUME NEW c \in Lowest(page, StatusId), NEW r \in page
        PROVE  Ord(r) >= Ord(c) \/ (c.at > r.at /\ Second(c) = Second(r))
    <3>1. c \in Entry /\ r \in Entry
      BY <1>6, <1>7
    <3>2. StatusId(r) >= StatusId(c)
      BY <1>6, LowestAre
    <3>3. Second(r) >= Second(c)
      BY <3>1, <3>2, StatusIds
    <3>4. c.at >= r.at => Second(c) >= Second(r)
      BY <3>1, SecondIs
    <3>5. Second(c) \in Nat /\ Second(r) \in Nat /\ c.at \in Nat /\ r.at \in Nat
      BY <3>1, EntryIs
    <3>. QED BY <1>4, <3>3, <3>4, <3>5, OrdOf
  <2>. QED BY <2>1, <2>2 DEF Sorted
<1>11. ASSUME NEW r, Waits(r), r \notin page
       PROVE  /\ Lowest(page, StatusId) = {} => Excused(r)'
              /\ \A c \in Lowest(page, StatusId) : Ord(r) < Ord(c) \/ Tie(c, r)
  <2>1. page # {} /\ \A c \in Lowest(page, StatusId) : Ord(r) < Ord(c) \/ Tie(c, r)
    BY <1>1, <1>11, MergedPage
  <2>. QED BY <1>6, <2>1, LowestAre
<1>. QED BY <1>8, <1>9, <1>10, <1>11, PageStep

LEMMA BothIs ==
  ASSUME Base, NEW S \in SUBSET Live, NEW k \in Nat \ {0}, NEW T \in Both(S, k)
  PROVE  T \in SUBSET S
<1>1. PICK A \in Take(Between({x \in S : x.table = "inbox"}), k, AtOf),
           B \in Take(Between({x \in S : x.table = "outbox"}), k, AtOf) : T = A \cup B
  BY DEF Both, Fetch
<1>2. Between({x \in S : x.table = "inbox"}) \in SUBSET rows
      /\ Between({x \in S : x.table = "outbox"}) \in SUBSET rows
      /\ Between({x \in S : x.table = "inbox"}) \in SUBSET S
      /\ Between({x \in S : x.table = "outbox"}) \in SUBSET S
  BY LiveIs DEF Between
<1>3. A \subseteq S /\ B \subseteq S
  BY <1>2, TakeIs DEF OfSize
<1>. QED BY <1>1, <1>3

LEMMA AllOf == \A T : {r \in T : Any(r)} = T
  BY DEF Any

LEMMA TimelinesStep ==
  ASSUME Base, Rest, state = "open",
         TimelinesHome \/ TimelinesPublic \/ StatusesQuotes \/ TimelinesTag
  PROVE  Base' /\ Rest'
<1>1. Limit \in Nat \ {0} /\ ScanLimit \in Nat \ {0}
  BY PagesAssumption
<1>2. Visible \in SUBSET Live
  BY DEF Visible
<1>3. CASE TimelinesHome
  <2>1. PICK T \in Both(Visible, Limit) :
          \E page \in Take({r \in T : Any(r)}, Limit, StatusId) :
            list = "home" /\ UNCHANGED unread /\ Show(page, Lowest(page, StatusId))
    BY <1>3 DEF TimelinesHome, Timeline
  <2>10. PICK page \in Take({r \in T : Any(r)}, Limit, StatusId) :
          list = "home" /\ UNCHANGED unread /\ Show(page, Lowest(page, StatusId))
    BY <2>1
  <2>2. \A r : Waits(r) => r \in Visible
    BY <2>10, WantedIs DEF Visible
  <2>3. T \cap Visible = T
    BY <1>1, <1>2, <2>1, BothIs
  <2>. QED BY <1>1, <1>2, <2>10, <2>2, <2>3, AllOf, MergedStep DEF Merged
<1>4. CASE TimelinesPublic
  <2>1. PICK T \in Both(Visible, Limit) :
          \E page \in Take({r \in T : Any(r)}, Limit, StatusId) :
            list = "public" /\ UNCHANGED unread /\ Show(page, Lowest(page, StatusId))
    BY <1>4 DEF TimelinesPublic, Timeline
  <2>10. PICK page \in Take({r \in T : Any(r)}, Limit, StatusId) :
          list = "public" /\ UNCHANGED unread /\ Show(page, Lowest(page, StatusId))
    BY <2>1
  <2>2. \A r : Waits(r) => r \in Visible
    BY <2>10, WantedIs DEF Visible
  <2>3. T \cap Visible = T
    BY <1>1, <1>2, <2>1, BothIs
  <2>. QED BY <1>1, <1>2, <2>10, <2>2, <2>3, AllOf, MergedStep DEF Merged
<1>5. CASE StatusesQuotes
  <2> DEFINE S == {r \in Live : r.key = "wanted"}
  <2>1. PICK T \in Both(S, Limit) :
          \E page \in Take({r \in T : Any(r)}, Limit, StatusId) :
            list = "quotes" /\ UNCHANGED unread /\ Show(page, Lowest(page, StatusId))
    BY <1>5 DEF StatusesQuotes, Timeline
  <2>10. PICK page \in Take({r \in T : Any(r)}, Limit, StatusId) :
          list = "quotes" /\ UNCHANGED unread /\ Show(page, Lowest(page, StatusId))
    BY <2>1
  <2>2. \A r : Waits(r) => r \in S
    BY <2>10, WantedIs
  <2>3. S \in SUBSET Live
    OBVIOUS
  <2> HIDE DEF S
  <2>4. T \cap S = T
    BY <1>1, <2>1, <2>3, BothIs
  <2>. QED BY <1>1, <2>10, <2>2, <2>3, <2>4, AllOf, MergedStep DEF Merged
<1>6. CASE TimelinesTag
  <2>1. PICK T \in Both(Visible, ScanLimit) :
          \E page \in Take({r \in T : HasTag(r)}, Limit, StatusId) :
            list = "tag" /\ UNCHANGED unread /\ Show(page, Lowest(page, StatusId))
    BY <1>6 DEF TimelinesTag, Timeline
  <2>10. PICK page \in Take({r \in T : HasTag(r)}, Limit, StatusId) :
          list = "tag" /\ UNCHANGED unread /\ Show(page, Lowest(page, StatusId))
    BY <2>1
  <2> DEFINE W == {r \in Visible : r.key = "wanted"}
  <2>2. \A r : Waits(r) => r \in W
    BY <2>10, WantedIs DEF Visible
  <2>3. {r \in T : HasTag(r)} = T \cap W
    BY <1>1, <1>2, <2>1, BothIs DEF HasTag
  <2>4. W \in SUBSET Visible
    OBVIOUS
  <2> HIDE DEF W
  <2>. QED BY <1>1, <1>2, <2>10, <2>2, <2>3, <2>4, MergedStep DEF Merged
<1>. QED BY <1>3, <1>4, <1>5, <1>6

-----------------------------------------------------------------------------
(* Lists of one table by time: those of a list, of the owner and of an actor. *)

LEMMA TimedPage ==
  ASSUME Base, list \in ByTime, NEW S \in SUBSET Live, NEW page, page \in Take(Between(S), Limit, AtOf)
  PROVE  /\ page \in SUBSET Live /\ page \in SUBSET Entry /\ page \in SUBSET Between(S)
         /\ IsFiniteSet(Between(S)) /\ Cardinality(Between(S)) \in Nat
         /\ cursor # <<>> /\ cursor[1] \notin pruned => \A r \in page : Under(r)
         /\ \A c \in Lowest(page, AtOf) : c \in page /\ \A r \in page : Ord(r) >= Ord(c)
         /\ page # {} => Lowest(page, AtOf) # {}
         /\ \A r \in S : Waits(r) /\ r \notin page =>
              /\ page # {} /\ Cardinality(Between(S)) > Limit
              /\ \A c \in page : c.at >= r.at /\ c.at \in Nat /\ r.at \in Nat
<1>1. S \in SUBSET rows /\ Between(S) \in SUBSET S /\ rows \subseteq Entry /\ Limit \in Nat \ {0}
  BY LiveIs, PagesAssumption DEF Between
<1>2. OfSize(page, Between(S), Limit) /\ \A x \in page, y \in Between(S) \ page : x.at >= y.at
  <2>1. Between(S) \in SUBSET rows /\ Limit \in Nat
    BY <1>1
  <2>. QED BY <2>1, TakeIs
<1>3. page \in SUBSET Live /\ page \in SUBSET Entry /\ page \in SUBSET Between(S)
  BY <1>1, <1>2 DEF OfSize
<1>4. IsFiniteSet(Between(S)) /\ Cardinality(Between(S)) \in Nat
  BY <1>1, FS_Subset, FS_CardinalityType DEF Base, RowsInv
<1>5. ASSUME cursor # <<>>, cursor[1] \notin pruned, NEW r \in page PROVE Under(r)
  BY <1>1, <1>3, <1>5, BetweenUnder
<1>6. ASSUME NEW r \in S, Waits(r), r \notin page
      PROVE  /\ page # {} /\ Cardinality(Between(S)) > Limit
             /\ \A c \in page : c.at >= r.at /\ c.at \in Nat /\ r.at \in Nat
  <2>1. r \in Between(S) /\ r \in Entry
    BY <1>1, <1>6, BetweenHas, WaitsIs
  <2>2. page # {} /\ Cardinality(Between(S)) > Limit
    BY <1>1, <1>2, <1>6, <2>1 DEF OfSize
  <2>. QED BY <1>2, <1>3, <1>6, <2>1, <2>2, EntryIs
<1>7. \A c \in Lowest(page, AtOf) : c \in page /\ \A r \in page : Ord(r) >= Ord(c)
  <2>1. Lowest(page, AtOf) \subseteq page /\ \A c \in Lowest(page, AtOf), r \in page : r.at >= c.at
    BY <1>3, LowestAre
  <2>2. \A r : Ord(r) = r.at
    BY OrdOf
  <2>. QED BY <2>1, <2>2
<1>8. page # {} => Lowest(page, AtOf) # {}
  BY <1>3, LowestAre
<1>. QED BY <1>3, <1>4, <1>5, <1>6, <1>7, <1>8

LEMMA ListStep ==
  ASSUME Base, Rest, state = "open", TimelinesList
  PROVE  Base' /\ Rest'
<1> DEFINE S == {x \in {r \in Live : r.key = "wanted"} : x.table = "inbox"}
<1>1. PICK page \in Take(Between(S), Limit, AtOf) :
        list = "list" /\ UNCHANGED unread /\ Show(page, Lowest(page, AtOf))
  BY DEF TimelinesList, Fetch
<1>2. list = "list" /\ list \in ByTime /\ list \notin Merged /\ Timed(list)
  BY <1>1, OrdOf DEF ByTime, Merged
<1>3. ASSUME NEW r, Waits(r) PROVE r \in S
  <2>1. r \in Live /\ r.key = "wanted" /\ r \in rows
    BY <1>1, <1>3, WantedIs, WaitsIs
  <2>2. r.table \in Tables(list)
    BY <2>1 DEF Base, RowsInv
  <2>3. Tables("list") = {"inbox"}
    BY DEF Tables, Merged, Threaded
  <2>. QED BY <1>2, <2>1, <2>2, <2>3
<1>4. S \in SUBSET Live
  OBVIOUS
<1> HIDE DEF S
<1> DEFINE last == Lowest(page, AtOf)
<1>5. /\ page \in SUBSET Live /\ page \in SUBSET Entry
      /\ cursor # <<>> /\ cursor[1] \notin pruned => \A r \in page : Under(r)
      /\ \A c \in last : c \in page /\ \A r \in page : Ord(r) >= Ord(c)
      /\ page # {} => last # {}
      /\ \A r \in S : Waits(r) /\ r \notin page =>
           page # {} /\ \A c \in page : c.at >= r.at /\ c.at \in Nat /\ r.at \in Nat
  BY <1>1, <1>2, <1>4, TimedPage
<1>6. Show(page, last) /\ UNCHANGED unread
  BY <1>1
<1> HIDE DEF last
<1>7. Reads(page, last)
  BY <1>2, <1>5, <1>6, LiveIs, ShowReads
<1>8. Sorted(page, last)
  BY <1>5 DEF Sorted
<1>9. ASSUME NEW r, Waits(r), r \notin page
      PROVE  last # {} /\ \A c \in last : Ord(r) < Ord(c) \/ Tie(c, r)
  <2>1. last # {} /\ \A c \in last : c.at >= r.at /\ c.at \in Nat /\ r.at \in Nat
    BY <1>3, <1>5, <1>9
  <2>. QED BY <1>2, <2>1, OrdOf DEF Tie
<1>. QED BY <1>2, <1>7, <1>8, <1>9, PageStep

LEMMA FollowxStep ==
  ASSUME Base, Rest, state = "open", Followers \/ Following
  PROVE  Base' /\ Rest'
<1>1. PICK page \in Take(Between(Live), Limit, AtOf) :
        /\ list \in Probed /\ UNCHANGED unread
        /\ Show(page, {r \in Lowest(page, AtOf) : \E x \in Live : x.at < r.at})
  BY DEF Followers, Following, FollowxCollection, Probed
<1>2. /\ list \in ByTime /\ list \notin Merged /\ Timed(list)
      /\ list \notin {"index", "conversations", "messages", "notifications", "groups", "admin_notifications"}
  BY <1>1, OrdOf DEF ByTime, Merged, Probed
<1>3. ASSUME NEW r, Waits(r) PROVE r \in Live
  BY <1>3, WaitsIs
<1> DEFINE last == {r \in Lowest(page, AtOf) : \E x \in Live : x.at < r.at}
<1>5. /\ page \in SUBSET Live /\ page \in SUBSET Entry
      /\ cursor # <<>> /\ cursor[1] \notin pruned => \A r \in page : Under(r)
      /\ \A c \in Lowest(page, AtOf) : c \in page /\ \A r \in page : Ord(r) >= Ord(c)
      /\ page # {} => Lowest(page, AtOf) # {}
      /\ \A r \in Live : Waits(r) /\ r \notin page =>
           page # {} /\ \A c \in page : c.at >= r.at /\ c.at \in Nat /\ r.at \in Nat
  BY <1>1, <1>2, TimedPage
<1>6. Show(page, last) /\ UNCHANGED unread
  BY <1>1
<1>4. last \subseteq Lowest(page, AtOf) /\ \A c \in Lowest(page, AtOf) : c \notin last => \A x \in Live : ~(x.at < c.at)
  OBVIOUS
<1> HIDE DEF last
<1>7. Reads(page, last)
  BY <1>2, <1>4, <1>5, <1>6, LiveIs, ShowReads
<1>8. Sorted(page, last)
  BY <1>4, <1>5 DEF Sorted
<1>9. ASSUME NEW r, Waits(r), r \notin page
      PROVE  /\ last = {} => Excused(r)'
             /\ \A c \in last : Ord(r) < Ord(c) \/ Tie(c, r)
  <2>1. page # {} /\ \A c \in page : c.at >= r.at /\ c.at \in Nat /\ r.at \in Nat
    BY <1>3, <1>5, <1>9
  <2>2. \A c \in last : Ord(r) < Ord(c) \/ Tie(c, r)
    BY <1>2, <1>4, <1>5, <2>1, OrdOf DEF Tie
  <2>3. ASSUME last = {} PROVE Excused(r)'
    <3>1. PICK c \in Lowest(page, AtOf) : c \in page
      BY <1>5, <2>1
    <3>2. ~(r.at < c.at)
      BY <1>3, <1>4, <1>9, <2>3, <3>1
    <3>3. c.at = r.at
      BY <2>1, <3>1, <3>2
    <3>4. c \in seen' \ {r} /\ list' = list
      BY <1>7, <1>9, <3>1 DEF Reads
    <3>5. AtBoundary(r)'
      BY <1>1, <3>3, <3>4 DEF AtBoundary
    <3>. QED BY <3>5 DEF Excused
  <2>. QED BY <2>2, <2>3
<1>. QED BY <1>2, <1>7, <1>8, <1>9, PageStep

LEMMA CountedStep ==
  ASSUME Base, Rest, state = "open",
         RenderInboxPage \/ AdminOutbox \/ AdminBlocks \/ AdminMutes \/ AdminNotifications
  PROVE  Base' /\ Rest'
<1>1. list \in Counted /\ CountedPage(list)
  BY DEF RenderInboxPage, AdminOutbox, AdminBlocks, AdminMutes, AdminNotifications, Counted, CountedPage
<1>2. PICK page \in Take(Between(Live), Limit, AtOf) :
       /\ unread' = IF list = "admin_notifications" THEN unread \ page ELSE unread
       /\ seen' = seen \cup page /\ twice' = twice \cup (page \cap seen)
       /\ number' = number + 1 /\ counted' = -1
       /\ IF page = {} \/ counted <= Limit
            THEN /\ state' = "done" /\ UNCHANGED <<cursor, ends>>
                 /\ upset' = IF Cardinality(Between(Live)) > Limit
                             THEN upset \cup {"count"} ELSE upset
            ELSE /\ \E r \in Lowest(page, AtOf) : cursor' = <<r>> /\ ends' = ends \cup {r}
                 /\ state' = "open" /\ UNCHANGED upset
  BY <1>1 DEF CountedPage
<1>3. UNCHANGED <<list, rows, gone, pruned, pinned, floor, changes, there>>
  BY <1>1 DEF CountedPage, tables
<1>4. /\ list \in ByTime /\ list \notin Merged /\ Timed(list)
      /\ list \notin {"index", "conversations", "messages", "notifications", "groups"}
  BY <1>1, OrdOf DEF ByTime, Merged, Counted
<1> DEFINE last == IF page = {} \/ counted <= Limit THEN {} ELSE Lowest(page, AtOf)
<1>5. /\ page \in SUBSET Live /\ page \in SUBSET Entry
      /\ cursor # <<>> /\ cursor[1] \notin pruned => \A r \in page : Under(r)
      /\ \A c \in Lowest(page, AtOf) : c \in page /\ \A r \in page : Ord(r) >= Ord(c)
      /\ page # {} => Lowest(page, AtOf) # {}
      /\ \A r \in Live : Waits(r) /\ r \notin page =>
           /\ page # {} /\ Cardinality(Between(Live)) > Limit
           /\ \A c \in page : c.at >= r.at /\ c.at \in Nat /\ r.at \in Nat
  BY <1>2, <1>4, TimedPage
<1>6. Reads(page, last)
  <2>1. \/ last = {} /\ state' = "done" /\ cursor' = cursor /\ ends' = ends
        \/ \E r \in last : cursor' = <<r>> /\ ends' = ends \cup {r} /\ state' = "open"
    BY <1>2
  <2>2. upset \subseteq upset' /\ upset' \subseteq upset \cup {"count"}
    BY <1>2
  <2>3. unread' \subseteq unread /\ (list = "admin_notifications" => unread' \cap page = {})
    BY <1>2
  <2>4. last \subseteq page \cap Live
    BY <1>5
  <2> HIDE DEF last
  <2>. QED BY <1>2, <1>3, <1>4, <1>5, <2>1, <2>2, <2>3, <2>4, LiveIs DEF Reads
<1>7. Sorted(page, last)
  BY <1>5 DEF Sorted
<1>8. ASSUME NEW r, Waits(r), r \notin page
      PROVE  /\ last = {} => Excused(r)'
             /\ \A c \in last : Ord(r) < Ord(c) \/ Tie(c, r)
  <2>1. /\ page # {} /\ Cardinality(Between(Live)) > Limit
        /\ \A c \in page : c.at >= r.at /\ c.at \in Nat /\ r.at \in Nat
    BY <1>5, <1>8, WaitsIs
  <2>2. \A c \in last : c \in page
    BY <1>5
  <2>3. \A c \in last : Ord(r) < Ord(c) \/ Tie(c, r)
    BY <1>4, <2>1, <2>2, OrdOf DEF Tie
  <2>4. ASSUME last = {} PROVE Excused(r)'
    <3>1. "count" \in upset'
      BY <1>2, <1>5, <2>1, <2>4
    <3>. QED BY <1>1, <1>3, <3>1 DEF Excused
  <2>. QED BY <2>3, <2>4
<1> HIDE DEF last
<1>. QED BY <1>4, <1>6, <1>7, <1>8, PageStep

-----------------------------------------------------------------------------
(* Lists of one table by id, and the groups of notifications. *)

\* The rows of such a list have different numbers.
LEMMA OneRow == Base /\ list \in Numbered => \A x, y \in Live : x.n = y.n => x = y
<1> SUFFICES ASSUME Base, list \in Numbered, NEW x \in Live, NEW y \in Live, x.n = y.n PROVE x = y
  OBVIOUS
<1>1. x.table \in Tables(list) /\ y.table \in Tables(list)
  BY DEF Base, RowsInv, Live
<1>2. \A s, t \in Tables(list) : s = t
  BY DEF Numbered, ById, Tables, Merged, Threaded
<1>3. x.table = y.table
  BY <1>1, <1>2
<1>. QED BY <1>3 DEF Base, RowsInv

LEMMA ListingStep ==
  ASSUME Base, Rest, state = "open", NEW S \in SUBSET Live, NEW l \in ById, Listing(l, S),
         \A r : Waits(r) => r \in S
  PROVE  Base' /\ Rest'
<1>1. PICK page \in Take(BetweenIds(S, IdOf), Limit, IdOf) :
        /\ unread' = IF l = "notifications" THEN unread \ page ELSE unread
        /\ Show(page, Lowest(page, IdOf))
  BY DEF Listing
<1>2. /\ list = l /\ list \in Numbered /\ Limit \in Nat \ {0}
      /\ list \notin {"index", "conversations", "messages", "groups", "admin_notifications"}
  BY PagesAssumption DEF Listing, Numbered, ById
<1>3. /\ S \in SUBSET rows /\ BetweenIds(S, IdOf) \in SUBSET S
      /\ \A r \in BetweenIds(S, IdOf) : Under(r)
      /\ \A r \in S : Under(r) /\ AfterFloor(r) => r \in BetweenIds(S, IdOf)
  BY <1>2, LiveIs, BetweenIdsIs
<1>4. OfSize(page, BetweenIds(S, IdOf), Limit)
      /\ \A x \in page, y \in BetweenIds(S, IdOf) \ page : x.n >= y.n
  <2>1. BetweenIds(S, IdOf) \in SUBSET rows /\ Limit \in Nat
    BY <1>2, <1>3
  <2>. QED BY <1>1, <2>1, TakeIs
<1>5. page \in SUBSET Live /\ page \in SUBSET Entry /\ \A r \in page : Under(r)
  BY <1>3, <1>4, LiveIs DEF OfSize
<1>6. /\ Lowest(page, IdOf) \subseteq page /\ \A c \in Lowest(page, IdOf), r \in page : r.n >= c.n
      /\ page # {} => Lowest(page, IdOf) # {}
  BY <1>5, LowestAre
<1>7. Reads(page, Lowest(page, IdOf))
  <2>1. unread' \subseteq unread /\ (list = "notifications" => unread' \cap page = {})
    BY <1>1, <1>2
  <2>. QED BY <1>1, <1>2, <1>5, <1>6, <2>1, LiveIs, ShowReads
<1>8. Sorted(page, Lowest(page, IdOf))
  BY <1>2, <1>5, <1>6, OrdOf DEF Sorted
<1>9. ASSUME NEW r, Waits(r), r \notin page
      PROVE  /\ Lowest(page, IdOf) = {} => Excused(r)'
             /\ \A c \in Lowest(page, IdOf) : Ord(r) < Ord(c) \/ Tie(c, r)
  <2>1. Under(r) /\ AfterFloor(r) /\ r \in S /\ r \in Live /\ r \in Entry
    BY <1>2, <1>9, WaitsIs DEF Waits, Coming
  <2>2. r \in BetweenIds(S, IdOf)
    BY <1>3, <2>1
  <2>3. page # {}
    BY <1>2, <1>4, <1>9, <2>2 DEF OfSize
  <2>4. ASSUME NEW c \in Lowest(page, IdOf) PROVE Ord(r) < Ord(c)
    <3>1. c \in page /\ c \in Live /\ c.n \in Nat /\ r.n \in Nat
      BY <1>5, <1>6, <2>1, EntryIs
    <3>2. c.n >= r.n
      BY <1>4, <1>9, <2>2, <3>1
    <3>3. c.n # r.n
      BY <1>2, <1>9, <2>1, <3>1, OneRow
    <3>. QED BY <1>2, <3>1, <3>2, <3>3, OrdOf
  <2>. QED BY <1>6, <2>3, <2>4
<1>. QED BY <1>2, <1>7, <1>8, <1>9, PageStep

LEMMA ListingsStep ==
  ASSUME Base, Rest, state = "open",
         \/ TimelinesLocal \/ AccountsStatuses \/ BookmarksIndex \/ FavouritesIndex
         \/ PaginatedActorList \/ ScheduledStatusesIndex \/ NotificationsList
  PROVE  Base' /\ Rest'
<1> DEFINE S == {r \in Live : r.key = "wanted"}
<1>1. S \in SUBSET Live /\ Live \in SUBSET Live /\ \A r : Waits(r) => r \in Live
  BY WaitsIs
<1>2. list \in {"bookmarks", "favourites"} => \A r : Waits(r) => r \in S
  BY WantedIs
<1>3. BookmarksIndex => list = "bookmarks" /\ Listing("bookmarks", S)
  BY DEF BookmarksIndex, Listing
<1>4. FavouritesIndex => list = "favourites" /\ Listing("favourites", S)
  BY DEF FavouritesIndex, Listing
<1> HIDE DEF S
<1>5. CASE BookmarksIndex
  <2>1. "bookmarks" \in ById
    BY DEF ById
  <2>. QED BY <1>1, <1>2, <1>3, <1>5, <2>1, ListingStep
<1>6. CASE FavouritesIndex
  <2>1. "favourites" \in ById
    BY DEF ById
  <2>. QED BY <1>1, <1>2, <1>4, <1>6, <2>1, ListingStep
<1>7. CASE ~BookmarksIndex /\ ~FavouritesIndex
  <2>1. \E l \in ById : Listing(l, Live)
    BY <1>7 DEF TimelinesLocal, AccountsStatuses, PaginatedActorList, ScheduledStatusesIndex,
                NotificationsList, ById
  <2>2. PICK l \in ById : Listing(l, Live)
    BY <2>1
  <2>. QED BY <1>1, <2>2, ListingStep
<1>. QED BY <1>5, <1>6, <1>7

\* A window, up to the first row of a group too many, from which nothing newer is left out.
LEMMA GroupRowsAre ==
  ASSUME Base, list \in Numbered, NEW W \in SUBSET Live, W # {}
  PROVE  /\ GroupRows(W) # {}
         /\ \A x \in GroupRows(W), y \in W : y.n >= x.n => y \in GroupRows(W)
<1>1. W \in SUBSET Entry /\ IsFiniteSet(W) /\ Limit \in Nat \ {0}
  BY LiveIs, FS_Subset, PagesAssumption DEF Base, RowsInv
<1> DEFINE from(x) == {y \in W : y.n >= x.n}
           g(S) == Groups(S)
<1>2. \A S \in SUBSET W : IsFiniteSet(g(S)) /\ Cardinality(g(S)) \in Nat
  <2> SUFFICES ASSUME NEW S \in SUBSET W PROVE IsFiniteSet(g(S)) /\ Cardinality(g(S)) \in Nat
    OBVIOUS
  <2>1. IsFiniteSet(S)
    BY <1>1, FS_Subset
  <2> DEFINE h == [r \in S |-> r.key]
  <2>2. h \in Surjection(S, g(S))
    BY DEF Surjection, Groups
  <2> HIDE DEF h
  <2>3. IsFiniteSet(g(S))
    BY <2>1, <2>2, FS_Surjection, Zenon
  <2>. QED BY <2>3, FS_CardinalityType
<1>3. ASSUME NEW x \in GroupRows(W), NEW y \in W, y.n >= x.n PROVE y \in GroupRows(W)
  <2>1. x \in W /\ Cardinality(g(from(x))) <= Limit
    BY DEF GroupRows
  <2>2. \A z \in W : z.n \in Nat
    BY <1>1, EntryIs
  <2>3. from(y) \subseteq from(x) /\ from(x) \in SUBSET W /\ from(y) \in SUBSET W
    BY <1>3, <2>1, <2>2
  <2>4. g(from(y)) \subseteq g(from(x))
    BY <2>3 DEF Groups
  <2>5. Cardinality(g(from(y))) <= Cardinality(g(from(x)))
    BY <1>2, <2>3, <2>4, FS_Subset
  <2>6. Cardinality(g(from(y))) <= Limit
    <3> DEFINE a == Cardinality(g(from(y)))
               b == Cardinality(g(from(x)))
    <3>1. a \in Nat /\ b \in Nat /\ a <= b /\ b <= Limit
      BY <1>2, <2>1, <2>3, <2>5
    <3> HIDE DEF a, b
    <3>2. a <= Limit
      BY <1>1, <3>1
    <3>. QED BY <3>2 DEF a
  <2>. QED BY <2>6 DEF GroupRows
<1>4. GroupRows(W) # {}
  <2> DEFINE f == [r \in W |-> r.n]
  <2>1. f \in [W -> Nat] /\ MaxRows \in Nat /\ \A r \in W : f[r] <= MaxRows
    BY <1>1, EntryIs, PagesAssumption
  <2>2. PICK m \in W : \A x \in W : f[m] >= f[x]
    <3> HIDE DEF f
    <3>. QED BY <2>1, GreatestIs
  <2>3. \A x \in W : m.n >= x.n /\ x.n \in Nat
    BY <1>1, <2>2, EntryIs
  <2>4. from(m) = {m}
    BY <2>3, OneRow
  <2>5. g(from(m)) = {m.key}
    <3> HIDE DEF from
    <3>. QED BY <2>4 DEF Groups
  <2>6. Cardinality(g(from(m))) = 1
    BY <2>5, FS_Singleton
  <2>7. Cardinality(g(from(m))) <= Limit
    BY <1>1, <2>6
  <2>. QED BY <2>7 DEF GroupRows
<1>. QED BY <1>3, <1>4

LEMMA LastGroupIs ==
  ASSUME Base, list \in Numbered, NEW page \in SUBSET Live
  PROVE  /\ LastGroup(page) \subseteq page
         /\ page # {} => LastGroup(page) # {}
         /\ \A c \in LastGroup(page), z \in page : z.key = c.key => z \in LastGroup(page)
         /\ \A c \in LastGroup(page), x \in page :
              x.key # c.key => \E y \in page : y.key = x.key /\ y.n > c.n
<1>1. page \in SUBSET Entry /\ \A z \in page : z.n \in Nat /\ z.n <= MaxRows
  BY LiveIs, EntryIs
<1>2. ASSUME page # {} PROVE LastGroup(page) # {}
  <2> DEFINE N(r) == {z.n : z \in {x \in page : x.key = r.key}}
             f == [r \in page |-> Max(N(r))]
  <2>1. ASSUME NEW r \in page
        PROVE  Max(N(r)) \in N(r) /\ Max(N(r)) \in Nat /\ \A i \in N(r) : i <= Max(N(r))
    <3>1. N(r) \in SUBSET Nat /\ N(r) # {} /\ MaxRows \in Nat /\ \A i \in N(r) : i <= MaxRows
      BY <1>1, <2>1, PagesAssumption
    <3> HIDE DEF N
    <3>2. Max(N(r)) \in N(r) /\ \A i \in N(r) : i <= Max(N(r))
      BY <3>1, MaxIs
    <3>. QED BY <3>1, <3>2
  <2>2. f \in [page -> Nat]
    <3> HIDE DEF N
    <3>. QED BY <2>1
  <2>3. PICK r \in page : \A x \in page : f[x] >= f[r]
    <3> HIDE DEF f
    <3>. QED BY <1>2, <2>2, LeastIs
  <2>4. ASSUME NEW x \in page
        PROVE  \E y \in page : y.key = x.key /\ \A z \in page : z.key = r.key => z.n <= y.n
    <3>1. Max(N(x)) >= Max(N(r))
      <4> HIDE DEF N
      <4>. QED BY <2>3
    <3>2. PICK y \in page : y.key = x.key /\ y.n = Max(N(x))
      BY <2>1
    <3>3. ASSUME NEW z \in page, z.key = r.key PROVE z.n <= y.n
      <4>1. z.n \in N(r)
        BY <3>3
      <4> HIDE DEF N
      <4>2. z.n <= Max(N(r)) /\ Max(N(r)) \in Nat /\ Max(N(x)) \in Nat
        BY <2>1, <4>1
      <4>. QED BY <1>1, <3>1, <3>2, <4>2
    <3>. QED BY <3>2, <3>3
  <2>5. r \in LastGroup(page)
    BY <2>4 DEF LastGroup
  <2>. QED BY <2>5
<1>3. ASSUME NEW c \in LastGroup(page), NEW z \in page, z.key = c.key PROVE z \in LastGroup(page)
  BY <1>3 DEF LastGroup
<1>4. ASSUME NEW c \in LastGroup(page), NEW x \in page, x.key # c.key
      PROVE  \E y \in page : y.key = x.key /\ y.n > c.n
  <2>1. c \in page
    BY DEF LastGroup
  <2>2. PICK y \in page : y.key = x.key /\ \A z \in page : z.key = c.key => z.n <= y.n
    BY DEF LastGroup
  <2>3. c.n <= y.n /\ c.n # y.n
    BY <1>4, <2>1, <2>2, OneRow
  <2>. QED BY <1>1, <2>1, <2>2, <2>3
<1>. QED BY <1>2, <1>3, <1>4 DEF LastGroup

LEMMA GroupsStep ==
  ASSUME Base, Rest, state = "open", NotificationsV2List
  PROVE  Base' /\ Rest'
<1>1. PICK W \in Take(BetweenIds(Live, IdOf), Window, IdOf) :
        /\ unread' = unread \ GroupRows(W)
        /\ Show(GroupRows(W), Lowest(LastGroup(GroupRows(W)), IdOf))
  BY DEF NotificationsV2List
<1>2. /\ list = "groups" /\ list \in Numbered /\ Window \in Nat \ {0}
      /\ list \notin {"index", "conversations", "messages"}
  BY PagesAssumption DEF NotificationsV2List, Numbered
<1> DEFINE page == GroupRows(W)
           last == Lowest(LastGroup(page), IdOf)
<1>3. /\ Live \in SUBSET rows /\ BetweenIds(Live, IdOf) \in SUBSET Live
      /\ \A r \in BetweenIds(Live, IdOf) : Under(r)
      /\ \A r \in Live : Under(r) /\ AfterFloor(r) => r \in BetweenIds(Live, IdOf)
  BY <1>2, LiveIs, BetweenIdsIs
<1>4. OfSize(W, BetweenIds(Live, IdOf), Window)
      /\ \A x \in W, y \in BetweenIds(Live, IdOf) \ W : x.n >= y.n
  <2>1. BetweenIds(Live, IdOf) \in SUBSET rows /\ Window \in Nat
    BY <1>2, <1>3
  <2>. QED BY <1>1, <2>1, TakeIs
<1>5. W \in SUBSET Live /\ page \in SUBSET W /\ page \in SUBSET Live /\ page \in SUBSET Entry
      /\ \A r \in page : Under(r)
  <2>1. W \in SUBSET Live /\ \A r \in W : Under(r)
    BY <1>3, <1>4 DEF OfSize
  <2>. QED BY <2>1, LiveIs DEF GroupRows
<1>6. /\ page \in SUBSET Live => LastGroup(page) \subseteq page
      /\ page # {} => LastGroup(page) # {}
      /\ \A c \in LastGroup(page), z \in page : z.key = c.key => z \in LastGroup(page)
      /\ \A c \in LastGroup(page), x \in page :
           x.key # c.key => \E y \in page : y.key = x.key /\ y.n > c.n
  BY <1>2, <1>5, LastGroupIs
<1>7. /\ last \subseteq LastGroup(page) /\ last \subseteq page
      /\ \A c \in last, r \in LastGroup(page) : r.n >= c.n
      /\ page # {} => last # {}
  <2>1. LastGroup(page) \in SUBSET Entry
    BY <1>5, <1>6
  <2>. QED BY <1>5, <1>6, <2>1, LowestAre
<1>8. Show(page, last) /\ unread' = unread \ page
  BY <1>1
<1> HIDE DEF page, last
<1>9. Reads(page, last)
  BY <1>2, <1>5, <1>7, <1>8, LiveIs, ShowReads
<1>10. Sorted(page, last)
  <2> SUFFICES ASSUME NEW c \in last, NEW r \in page, ~(Ord(r) >= Ord(c))
               PROVE  \E a, b \in page : /\ a.key = r.key /\ b.key # r.key
                                         /\ a.n > b.n /\ b.n > r.n
    BY <1>2, <1>5 DEF Sorted
  <2>1. c.n \in Nat /\ r.n \in Nat /\ c \in page
    BY <1>5, <1>7, EntryIs
  <2>2. r.n < c.n
    BY <1>2, <2>1, OrdOf
  <2>3. r \notin LastGroup(page)
    BY <1>7, <2>1, <2>2
  <2>4. r.key # c.key
    BY <1>6, <1>7, <2>3
  <2>5. PICK y \in page : y.key = r.key /\ y.n > c.n
    BY <1>6, <1>7, <2>4
  <2>. QED BY <2>1, <2>2, <2>4, <2>5
<1>11. ASSUME NEW r, Waits(r), r \notin page
       PROVE  /\ last = {} => Excused(r)'
              /\ \A c \in last : Ord(r) < Ord(c) \/ Tie(c, r)
  <2>1. Under(r) /\ AfterFloor(r) /\ r \in Live /\ r \in Entry
    BY <1>2, <1>11, WaitsIs DEF Waits, Coming
  <2>2. r \in BetweenIds(Live, IdOf)
    BY <1>3, <2>1
  <2>3. W # {}
    BY <1>2, <1>4, <2>2 DEF OfSize
  <2>4. page # {} /\ \A x \in page, y \in W : y.n >= x.n => y \in page
    BY <1>2, <1>5, <2>3, GroupRowsAre DEF page
  <2>5. ASSUME NEW c \in last PROVE Ord(r) < Ord(c)
    <3>1. c \in page /\ c \in W /\ c \in Live /\ c.n \in Nat /\ r.n \in Nat
      BY <1>5, <1>7, <2>1, EntryIs
    <3>2. c.n # r.n
      BY <1>2, <1>11, <2>1, <3>1, OneRow
    <3>3. CASE r \in W
      BY <1>2, <1>11, <2>4, <3>1, <3>3, OrdOf
    <3>4. CASE r \notin W
      BY <1>2, <1>4, <2>2, <3>1, <3>2, <3>4, OrdOf
    <3>. QED BY <3>3, <3>4
  <2>. QED BY <1>7, <2>4, <2>5
<1>. QED BY <1>2, <1>9, <1>10, <1>11, PageStep

-----------------------------------------------------------------------------
(* Threads: the conversations of an API client, and the owner's messages. *)

\* The newest status of a thread.
LEMMA NewestIs ==
  ASSUME Base, list = "conversations", NEW r \in Live
  PROVE  \E t \in Threads : t.key = r.key /\ \A x \in Live : x.key = r.key => StatusId(x) <= StatusId(t)
<1> DEFINE S == {x \in Live : x.key = r.key}
           f == [x \in S |-> StatusId(x)]
           b == MaxTime * (2 * (MaxRows + 1)) + 2 * MaxRows + 1
<1>1. \A x \in Live : x \in Entry /\ StatusId(x) \in Nat
  BY LiveIs, StatusIds
<1>2. f \in [S -> Nat] /\ r \in S
  BY <1>1
<1>3. MaxRows \in Nat /\ MaxTime \in Nat /\ b \in Nat
  <2>1. MaxRows \in Nat /\ MaxTime \in Nat
    BY PagesAssumption
  <2>2. 2 * (MaxRows + 1) \in Nat
    BY <2>1
  <2>3. MaxTime * (2 * (MaxRows + 1)) \in Nat
    BY <2>1, <2>2
  <2>. QED BY <2>1, <2>3
<1>4. ASSUME NEW x \in S PROVE f[x] <= b
  <2>1. x \in Entry /\ x.n \in Nat /\ x.n <= MaxRows /\ Second(x) \in Nat /\ Second(x) <= MaxTime
    <3>1. x \in Entry /\ x.n \in Nat /\ x.n <= MaxRows /\ Second(x) \in Nat /\ x.at \in Nat /\ x.at <= MaxTime
      BY <1>1, EntryIs
    <3>. QED BY <1>3, <3>1 DEF Second
  <2> DEFINE s == Second(x)
             m == 2 * (MaxRows + 1)
  <2>2. StatusId(x) = s * 2 * (MaxRows + 1) + 2 * x.n + (IF x.table = "inbox" THEN 1 ELSE 0)
    BY DEF StatusId
  <2>3. s * 2 * (MaxRows + 1) = s * m
    <3> HIDE DEF s
    <3>1. s \in Nat
      BY <2>1 DEF s
    <3>. QED BY <1>3, <3>1
  <2>4. m \in Nat
    BY <1>3
  <2> HIDE DEF s, m
  <2>5. s * m <= MaxTime * m /\ s * m \in Nat /\ MaxTime * m \in Nat
    BY <1>3, <2>1, <2>4, Multiplies DEF s
  <2>6. StatusId(x) <= MaxTime * m + 2 * MaxRows + 1
    BY <1>3, <2>1, <2>2, <2>3, <2>5
  <2>. QED BY <2>6 DEF m
<1> HIDE DEF b
<1>5. PICK t \in S : \A x \in S : f[t] >= f[x]
  <2> HIDE DEF S, f
  <2>. QED BY <1>2, <1>3, <1>4, GreatestIs
<1>6. \A x \in S : StatusId(t) >= StatusId(x)
  BY <1>5
<1>7. \A x \in Live : x.key = r.key => StatusId(x) <= StatusId(t)
  BY <1>1, <1>5, <1>6
<1>8. t \in Threads
  BY <1>5, <1>7 DEF Threads
<1>. QED BY <1>5, <1>7, <1>8

LEMMA OneStatus ==
  ASSUME Base, list = "conversations", NEW x \in Live, NEW y \in Live, StatusId(x) = StatusId(y)
  PROVE  x = y
<1>1. x \in Entry /\ y \in Entry /\ StatusId(x) \in Nat
  BY LiveIs, StatusIds
<1>2. {x.table, y.table} \subseteq {"inbox", "outbox"}
  <2>1. x.table \in Tables(list) /\ y.table \in Tables(list)
    BY DEF Base, RowsInv, Live
  <2>2. Tables("conversations") = {"inbox", "outbox"}
    BY DEF Tables, Threaded
  <2>. QED BY <2>1, <2>2
<1>3. x.n = y.n /\ x.table = y.table
  BY <1>1, <1>2, StatusIds
<1>. QED BY <1>3 DEF Base, RowsInv

LEMMA ConversationsStep ==
  ASSUME Base, Rest, state = "open", ConversationsList
  PROVE  Base' /\ Rest'
<1>1. PICK page \in Take(BetweenIds(Threads, StatusId), Limit, StatusId) :
        Show(page, Lowest(page, StatusId))
  BY DEF ConversationsList
<1>2. list = "conversations" /\ UNCHANGED unread /\ Limit \in Nat \ {0}
  BY PagesAssumption DEF ConversationsList
<1> DEFINE last == Lowest(page, StatusId)
<1>3. /\ Threads \in SUBSET Live /\ Threads \in SUBSET rows /\ BetweenIds(Threads, StatusId) \in SUBSET Threads
      /\ \A r \in BetweenIds(Threads, StatusId) : Under(r)
      /\ \A r \in Threads : Under(r) /\ AfterFloor(r) => r \in BetweenIds(Threads, StatusId)
  <2>1. Threads \in SUBSET Live /\ Threads \in SUBSET rows
    BY LiveIs DEF Threads
  <2>. QED BY <1>2, <2>1, BetweenIdsIs
<1>4. OfSize(page, BetweenIds(Threads, StatusId), Limit)
      /\ \A x \in page, y \in BetweenIds(Threads, StatusId) \ page : StatusId(x) >= StatusId(y)
  <2>1. BetweenIds(Threads, StatusId) \in SUBSET rows /\ Limit \in Nat
    BY <1>2, <1>3
  <2>. QED BY <1>1, <2>1, TakeIs
<1>5. page \in SUBSET Live /\ page \in SUBSET Entry /\ \A r \in page : Under(r)
  BY <1>3, <1>4, LiveIs DEF OfSize
<1>6. /\ last \subseteq page /\ \A c \in last, r \in page : StatusId(r) >= StatusId(c)
      /\ page # {} => last # {}
  BY <1>5, LowestAre
<1> HIDE DEF last
<1>7. Reads(page, last)
  BY <1>1, <1>2, <1>5, <1>6, LiveIs, ShowReads DEF last
<1>8. Sorted(page, last)
  BY <1>2, <1>5, <1>6, OrdOf DEF Sorted
<1>9. MissInv'
  <2>1. /\ list' = list /\ floor' = floor /\ there' = there /\ gone' = gone
        /\ seen' = seen \cup page /\ rows' = rows /\ pruned' = pruned /\ upset \subseteq upset'
        /\ ends \subseteq ends' /\ IsFiniteSet(rows)
    BY <1>7 DEF Reads, Base, RowsInv
  <2> SUFFICES ASSUME NEW r \in About(there \ gone)', AfterFloor(r)', ~Excused(r)', ~Shown(r)'
               PROVE  state' # "done" /\ Coming(r)'
    BY DEF MissInv
  <2>2. list \in Threaded
    BY <1>2 DEF Threaded
  <2>3. r \in About(there \ gone) /\ AfterFloor(r) /\ ~Shown(r) /\ \A x \in page : x.key # r.key
    BY <2>1, <2>2, AfterFloorStays DEF About, Shown
  <2>4. ~Excused(r)
    BY <2>1, ExcusedStays
  <2>5. \A x \in Live : x.key = r.key => Under(x)
    BY <1>2, <2>3, <2>4 DEF MissInv, Coming, Rest
  <2>6. r \in Live
    BY <2>3, AboutIs DEF Base, ReaderInv, Live
  <2>7. PICK t \in Threads : t.key = r.key /\ \A x \in Live : x.key = r.key => StatusId(x) <= StatusId(t)
    BY <1>2, <2>6, NewestIs
  <2>8. t \in Live /\ Under(t) /\ StatusId(t) \in Nat /\ StatusId(r) \in Nat
    BY <1>3, <2>5, <2>6, <2>7, LiveIs, StatusIds
  <2>9. AfterFloor(t)
    <3>1. CASE floor = <<>>
      BY <3>1 DEF AfterFloor
    <3>2. CASE floor # <<>>
      <4>1. PICK f \in rows : floor = <<f>> /\ {floor[i] : i \in DOMAIN floor} = {f}
        BY <3>2, FloorIs
      <4>2. list \notin Merged \cup {"list"}
        BY <1>2 DEF Merged
      <4>3. \A x : AfterFloor(x) <=> StatusId(x) > StatusId(f)
        BY <1>2, <4>1, <4>2 DEF AfterFloor
      <4>4. StatusId(f) \in Nat
        BY LiveIs, StatusIds
      <4>5. StatusId(r) > StatusId(f) /\ StatusId(r) <= StatusId(t)
        BY <2>3, <2>6, <2>7, <4>3
      <4>6. StatusId(t) > StatusId(f)
        BY <2>8, <4>4, <4>5
      <4>. QED BY <4>3, <4>6
    <3>. QED BY <3>1, <3>2
  <2>10. t \in BetweenIds(Threads, StatusId) /\ t \notin page
    BY <1>3, <2>3, <2>7, <2>8, <2>9
  <2>11. last # {}
    BY <1>2, <1>4, <1>6, <2>10 DEF OfSize
  <2>12. state' # "done"
    BY <1>7, <2>11 DEF Reads
  <2>13. PICK c \in last : /\ c \in page /\ c \in Live
                           /\ \A x : Under(x)' <=> Ord(x) < Ord(c)
    BY <1>7, <2>12, NextCursor
  <2>14. StatusId(c) >= StatusId(t) /\ StatusId(c) # StatusId(t) /\ StatusId(c) \in Nat
    BY <1>2, <1>4, <1>5, <2>8, <2>10, <2>13, OneStatus, StatusIds
  <2>15. ASSUME NEW x \in Live, x.key = r.key PROVE Under(x)'
    <3>1. StatusId(x) <= StatusId(t) /\ StatusId(x) \in Nat
      BY <2>7, <2>15, LiveIs, StatusIds
    <3>2. StatusId(x) < StatusId(c)
      BY <2>8, <2>14, <3>1
    <3>3. Ord(x) < Ord(c)
      BY <1>2, <3>2, OrdOf
    <3>. QED BY <2>13, <3>3
  <2>16. Live' = Live
    BY <2>1 DEF Live
  <2>17. Coming(r)'
    BY <1>2, <2>1, <2>15, <2>16 DEF Coming
  <2>. QED BY <2>12, <2>17
<1>10. Base' /\ ReadInv'
  BY <1>7, ReadsBase DEF Rest
<1>11. TwiceInv' /\ WalkInv'
  BY <1>2, <1>7, <1>8, TwiceReads, WalkReads DEF Rest
<1>. QED BY <1>9, <1>10, <1>11 DEF Rest, Base

\* The time of the latest message of a thread in one of the boxes.
LEMMA ThreadTimeIs ==
  ASSUME Base, NEW k, NEW t
  PROVE  /\ ThreadTime(k, t) \in Int
         /\ \A x \in Live : x.key = k /\ x.table = t => x.at <= ThreadTime(k, t)
         /\ \/ ThreadTime(k, t) = -1
            \/ \E x \in Live : x.key = k /\ x.table = t /\ x.at = ThreadTime(k, t)
<1> DEFINE N == {r.at : r \in {x \in Live : x.key = k /\ x.table = t}}
           M == {-1} \cup N
<1>1. ThreadTime(k, t) = Max(M)
  BY DEF ThreadTime
<1>2. N \in SUBSET Nat /\ MaxTime \in Nat /\ \A i \in N : i <= MaxTime
  BY LiveIs, EntryIs, PagesAssumption
<1>3. \A x \in Live : x.key = k /\ x.table = t => x.at \in N
  OBVIOUS
<1>4. \A i \in N : \E x \in Live : x.key = k /\ x.table = t /\ x.at = i
  OBVIOUS
<1> HIDE DEF N
<1>5. \E m \in M : \A i \in M : m >= i
  <2>1. CASE N = {}
    BY <2>1
  <2>2. CASE N # {}
    <3>1. Max(N) \in N /\ \A i \in N : i <= Max(N)
      BY <1>2, <2>2, MaxIs
    <3>2. Max(N) \in Nat /\ Max(N) \in M
      BY <1>2, <3>1
    <3>3. \A i \in M : Max(N) >= i
      <4> SUFFICES ASSUME NEW i \in M PROVE Max(N) >= i
        OBVIOUS
      <4>1. i = -1 \/ i \in N
        OBVIOUS
      <4>. QED BY <1>2, <3>1, <3>2, <4>1
    <3>. QED BY <3>2, <3>3
  <2>. QED BY <2>1, <2>2
<1>6. Max(M) \in M /\ \A i \in M : Max(M) >= i
  BY <1>5 DEF Max
<1>7. ThreadTime(k, t) \in Int /\ (ThreadTime(k, t) = -1 \/ ThreadTime(k, t) \in N)
  <2> DEFINE m == ThreadTime(k, t)
  <2>1. m \in M
    <3> HIDE DEF M
    <3>. QED BY <1>1, <1>6
  <2> HIDE DEF m
  <2>2. m = -1 \/ m \in N
    BY <2>1
  <2>3. m \in Int
    <3>1. m \in N => m \in Nat
      BY <1>2
    <3>2. m = -1 => m \in Int
      OBVIOUS
    <3>. QED BY <2>2, <3>1, <3>2
  <2>. QED BY <2>2, <2>3 DEF m
<1>8. \A x \in Live : x.key = k /\ x.table = t => x.at <= ThreadTime(k, t)
  <2> SUFFICES ASSUME NEW x \in Live, x.key = k, x.table = t PROVE x.at <= ThreadTime(k, t)
    OBVIOUS
  <2>1. x.at \in M /\ x.at \in Nat
    BY <1>2, <1>3
  <2> HIDE DEF M
  <2>. QED BY <1>1, <1>6, <1>7, <2>1
<1>. QED BY <1>4, <1>7, <1>8

LEMMA MessagesStep ==
  ASSUME Base, Rest, state = "open", DirectMessages
  PROVE  Base' /\ Rest'
<1> DEFINE shown(k) == IF ThreadTime(k, "inbox") > ThreadTime(k, "outbox") THEN "inbox" ELSE "outbox"
           page == {r \in rows \ pruned : r.table = shown(r.key) /\ r.at = ThreadTime(r.key, r.table)}
<1>1. list = "messages" /\ UNCHANGED unread /\ Show(page, {}) /\ page \subseteq rows \ pruned
  BY DEF DirectMessages
<1>2. Reads(page, {})
  BY <1>1, ShowReads
<1>3. cursor = <<>> /\ state' = "done"
  BY <1>1, <1>2 DEF Base, ReaderInv, Reads
<1>4. Sorted(page, {})
  BY <1>3 DEF Sorted
<1>5. MissInv'
  <2>1. /\ list' = list /\ there' = there /\ gone' = gone /\ seen' = seen \cup page
    BY <1>2 DEF Reads
  <2> SUFFICES ASSUME NEW r \in About(there \ gone)'
               PROVE  Shown(r)'
    BY DEF MissInv
  <2>2. r \in Live /\ r \in rows /\ r \in Entry
    BY <2>1, LiveIs DEF About, Base, ReaderInv, Live
  <2>3. r.table \in {"inbox", "outbox"}
    <3>1. r.table \in Tables(list)
      BY <2>2 DEF Base, RowsInv
    <3>2. Tables("messages") = {"inbox", "outbox"}
      BY DEF Tables, Threaded
    <3>. QED BY <1>1, <3>1, <3>2
  <2>4. PICK t : t = shown(r.key)
    OBVIOUS
  <2>5. ThreadTime(r.key, "inbox") \in Int /\ ThreadTime(r.key, "outbox") \in Int
        /\ r.at <= ThreadTime(r.key, r.table) /\ r.at \in Nat
    BY <2>2, ThreadTimeIs, EntryIs
  <2>6. ThreadTime(r.key, t) # -1
    BY <2>3, <2>4, <2>5
  <2>7. PICK x \in Live : x.key = r.key /\ x.table = t /\ x.at = ThreadTime(r.key, t)
    BY <2>6, ThreadTimeIs
  <2>8. x \in page
    BY <2>4, <2>7, LiveIs
  <2> HIDE DEF page
  <2>9. list \in Threaded
    BY <1>1 DEF Threaded
  <2>. QED BY <2>1, <2>7, <2>8, <2>9 DEF Shown
<1>6. Base' /\ ReadInv'
  BY <1>2, ReadsBase DEF Rest
<1>7. TwiceInv' /\ WalkInv'
  <2> HIDE DEF page
  <2>. QED BY <1>1, <1>2, <1>4, TwiceReads, WalkReads DEF Rest
<1>. QED BY <1>5, <1>6, <1>7 DEF Rest, Base

-----------------------------------------------------------------------------
(* The home page, whose pages have a number. *)

LEMMA PinnedIs ==
  ASSUME Base, NEW x \in rows, NEW y \in rows
  PROVE  PinnedFirst(x) \in Nat /\ (PinnedFirst(x) = PinnedFirst(y) => x.at = y.at)
<1>1. x.at \in Nat /\ y.at \in Nat /\ x.at <= MaxTime /\ y.at <= MaxTime /\ MaxTime \in Nat
  BY LiveIs, EntryIs, PagesAssumption
<1>. QED BY <1>1 DEF PinnedFirst

\* The rows before a page, and those on it.
IndexPage(before, page) ==
  /\ before \in SUBSET Live /\ page \in SUBSET (Live \ before)
  /\ IsFiniteSet(before) /\ IsFiniteSet(page) /\ Cardinality(before) \in Nat /\ Cardinality(page) \in Nat
  /\ Cardinality(before) <= number * Limit /\ Cardinality(page) <= Limit
  /\ before # Live => Cardinality(before) = number * Limit
  /\ page # Live \ before => Cardinality(page) = Limit /\ Cardinality(Live \ before) > Limit
  /\ Live \ before # {} => page # {}
  /\ \A x \in before, y \in Live \ before : PinnedFirst(x) >= PinnedFirst(y)
  /\ \A x \in page, y \in (Live \ before) \ page : PinnedFirst(x) >= PinnedFirst(y)

LEMMA IndexPageIs ==
  ASSUME Base, NEW before, before \in Take(Live, number * Limit, PinnedFirst),
         NEW page, page \in Take(Live \ before, Limit, PinnedFirst)
  PROVE  IndexPage(before, page) /\ number * Limit \in Nat /\ Limit \in Nat \ {0} /\ number \in Nat
<1>1. number \in Nat /\ Limit \in Nat \ {0}
  BY PagesAssumption DEF Base, ReaderInv
<1> DEFINE k == number * Limit
<1>2. k \in Nat
  BY <1>1
<1>3. Live \in SUBSET rows /\ Live \ before \in SUBSET rows /\ Limit \in Nat
  BY <1>1, LiveIs
<1> HIDE DEF k
<1>4. OfSize(before, Live, k) /\ \A x \in before, y \in Live \ before : PinnedFirst(x) >= PinnedFirst(y)
  BY <1>2, <1>3, TakeIs DEF k
<1>5. OfSize(page, Live \ before, Limit)
      /\ \A x \in page, y \in (Live \ before) \ page : PinnedFirst(x) >= PinnedFirst(y)
  BY <1>3, TakeIs
<1>6. IndexPage(before, page)
  BY <1>1, <1>4, <1>5 DEF IndexPage, OfSize, k
<1>. QED BY <1>1, <1>2, <1>6 DEF k

\* How many rows come before one that is, or is not, on the page.
LEMMA IndexRanks ==
  ASSUME Base, NEW before, NEW page, IndexPage(before, page), number * Limit \in Nat, Limit \in Nat \ {0},
         NEW r \in Live
  PROVE  /\ r \in before => Cardinality(Before(r)) < number * Limit
         /\ r \in page => Cardinality(Before(r)) < number * Limit + Limit
         /\ r \notin before /\ (\A x \in rows \ {r} : x.at # r.at) =>
              Cardinality(Before(r)) >= number * Limit
         /\ r \notin before \cup page /\ (\A x \in rows \ {r} : x.at # r.at) =>
              Cardinality(Before(r)) >= number * Limit + Limit
<1> DEFINE k == number * Limit
<1>1. /\ before \in SUBSET Live /\ page \in SUBSET (Live \ before)
      /\ IsFiniteSet(before) /\ IsFiniteSet(page) /\ Cardinality(before) \in Nat /\ Cardinality(page) \in Nat
      /\ Cardinality(before) <= k /\ Cardinality(page) <= Limit
      /\ before # Live => Cardinality(before) = k
      /\ page # Live \ before => Cardinality(page) = Limit
      /\ \A x \in before, y \in Live \ before : PinnedFirst(x) >= PinnedFirst(y)
      /\ \A x \in page, y \in (Live \ before) \ page : PinnedFirst(x) >= PinnedFirst(y)
      /\ k \in Nat
  BY DEF IndexPage
<1> HIDE DEF k
<1>2. IsFiniteSet(Before(r)) /\ Cardinality(Before(r)) \in Nat /\ Before(r) \in SUBSET Live
  BY BeforeIs DEF Before
<1>3. \A x \in Live : PinnedFirst(x) \in Nat /\ x \in rows
  BY LiveIs, PinnedIs
<1>4. \A x \in Before(r) : PinnedFirst(x) > PinnedFirst(r) /\ x # r
  BY <1>3 DEF Before
<1>5. ASSUME r \in before PROVE Cardinality(Before(r)) < k
  <2>1. Before(r) \subseteq before \ {r}
    BY <1>1, <1>2, <1>3, <1>4, <1>5
  <2>2. IsFiniteSet(before \ {r}) /\ Cardinality(before \ {r}) = Cardinality(before) - 1
    BY <1>1, <1>5, FS_RemoveElement
  <2>3. Cardinality(Before(r)) <= Cardinality(before \ {r})
    BY <2>1, <2>2, FS_Subset
  <2>. QED BY <1>1, <1>2, <2>2, <2>3
<1> DEFINE U == before \cup page
<1>6. IsFiniteSet(U) /\ Cardinality(U) = Cardinality(before) + Cardinality(page)
  <2>1. before \cap page = {}
    BY <1>1
  <2>2. IsFiniteSet(U) /\ Cardinality(U) = Cardinality(before) + Cardinality(page) - Cardinality(before \cap page)
    BY <1>1, FS_Union
  <2>3. Cardinality(before \cap page) = 0
    BY <2>1, FS_EmptySet
  <2> HIDE DEF U
  <2>. QED BY <1>1, <2>2, <2>3
<1>7. ASSUME r \in page PROVE Cardinality(Before(r)) < k + Limit
  <2>1. Before(r) \subseteq U \ {r} /\ r \in U
    BY <1>1, <1>2, <1>3, <1>4, <1>7
  <2> HIDE DEF U
  <2>2. IsFiniteSet(U \ {r}) /\ Cardinality(U \ {r}) = Cardinality(U) - 1
    BY <1>6, <2>1, FS_RemoveElement
  <2>3. Cardinality(Before(r)) <= Cardinality(U \ {r})
    BY <2>1, <2>2, FS_Subset
  <2>. QED BY <1>1, <1>2, <1>6, <2>2, <2>3
<1>8. ASSUME \A x \in rows \ {r} : x.at # r.at
      PROVE  \A x \in Live \ {r} : PinnedFirst(x) >= PinnedFirst(r) => x \in Before(r)
  <2> SUFFICES ASSUME NEW x \in Live \ {r}, PinnedFirst(x) >= PinnedFirst(r) PROVE x \in Before(r)
    OBVIOUS
  <2>1. PinnedFirst(x) # PinnedFirst(r)
    BY <1>3, <1>8, PinnedIs
  <2>. QED BY <1>3, <2>1 DEF Before
<1>9. ASSUME r \notin before, \A x \in rows \ {r} : x.at # r.at PROVE Cardinality(Before(r)) >= k
  <2>1. before \subseteq Before(r)
    BY <1>1, <1>8, <1>9
  <2>2. Cardinality(before) <= Cardinality(Before(r)) /\ Cardinality(before) = k
    BY <1>1, <1>2, <1>9, <2>1, FS_Subset
  <2>. QED BY <1>2, <2>2
<1>10. ASSUME r \notin before \cup page, \A x \in rows \ {r} : x.at # r.at
       PROVE  Cardinality(Before(r)) >= k + Limit
  <2>1. U \subseteq Before(r)
    BY <1>1, <1>8, <1>10
  <2>2. Cardinality(before) = k /\ Cardinality(page) = Limit
    BY <1>1, <1>10
  <2> HIDE DEF U
  <2>3. Cardinality(U) <= Cardinality(Before(r))
    BY <1>2, <2>1, FS_Subset
  <2>. QED BY <1>1, <1>2, <1>6, <2>2, <2>3
<1>. QED BY <1>5, <1>7, <1>9, <1>10 DEF k

LEMMA IndexStep ==
  ASSUME Base, Rest, state = "open", Index
  PROVE  Base' /\ Rest'
<1>1. list = "index" /\ UNCHANGED unread
  BY DEF Index
<1>2. PICK before \in Take(Live, number * Limit, PinnedFirst) :
        \E page \in Take(Live \ before, Limit, PinnedFirst) :
          Show(page, IF Cardinality(Live \ before) > Limit THEN Lowest(page, PinnedFirst) ELSE {})
  BY DEF Index
<1>3. PICK page \in Take(Live \ before, Limit, PinnedFirst) :
        Show(page, IF Cardinality(Live \ before) > Limit THEN Lowest(page, PinnedFirst) ELSE {})
  BY <1>2
<1> DEFINE last == IF Cardinality(Live \ before) > Limit THEN Lowest(page, PinnedFirst) ELSE {}
<1>4. IndexPage(before, page) /\ number * Limit \in Nat /\ Limit \in Nat \ {0} /\ number \in Nat
  BY <1>2, <1>3, IndexPageIs
<1>5. /\ before \in SUBSET Live /\ page \in SUBSET Live /\ page \cap before = {}
      /\ page # Live \ before => Cardinality(Live \ before) > Limit
      /\ Live \ before # {} => page # {}
      /\ before # Live => Cardinality(before) = number * Limit
  BY <1>4 DEF IndexPage
<1>6. last \subseteq page
  BY DEF Lowest
<1>7. Cardinality(Live \ before) > Limit => last # {}
  <2> SUFFICES ASSUME Cardinality(Live \ before) > Limit PROVE Lowest(page, PinnedFirst) # {}
    OBVIOUS
  <2>1. page # {}
    <3>1. Live \ before # {}
      <4>1. Live \ before = {} => Cardinality(Live \ before) = 0
        BY FS_EmptySet
      <4>. QED BY <1>4, <4>1
    <3>. QED BY <1>5, <3>1
  <2> DEFINE f == [r \in page |-> PinnedFirst(r)]
  <2>2. f \in [page -> Nat]
    BY <1>5, LiveIs, PinnedIs
  <2>3. PICK r \in page : \A x \in page : f[x] >= f[r]
    <3> HIDE DEF f
    <3>. QED BY <2>1, <2>2, LeastIs
  <2>. QED BY <2>3 DEF Lowest
<1>8. Show(page, last)
  BY <1>3
<1>9. last # {} => Cardinality(Live \ before) > Limit
  OBVIOUS
<1> HIDE DEF last
<1>10. Reads(page, last)
  BY <1>1, <1>5, <1>6, <1>8, LiveIs, ShowReads
<1>11. /\ list' = list /\ floor' = floor /\ there' = there /\ gone' = gone /\ pinned' = pinned
       /\ seen' = seen \cup page /\ twice' = twice \cup (page \cap seen)
       /\ rows' = rows /\ pruned' = pruned /\ upset \subseteq upset' /\ ends \subseteq ends'
       /\ number' = number + 1 /\ IsFiniteSet(rows)
  BY <1>10 DEF Reads, Base, RowsInv
<1>12. \A r : Before(r)' = Before(r)
  BY <1>11 DEF Before, PinnedFirst, Live
<1>13. number' * Limit = number * Limit + Limit
  BY <1>4, <1>11
<1>14. MissInv'
  <2> SUFFICES ASSUME NEW r \in About(there \ gone)', AfterFloor(r)', ~Excused(r)', ~Shown(r)'
               PROVE  state' # "done" /\ Coming(r)'
    BY DEF MissInv
  <2>1. r \in About(there \ gone) /\ AfterFloor(r)
    BY <1>11, AfterFloorStays DEF About
  <2>2. list \notin Threaded
    BY <1>1 DEF Threaded
  <2>3. r \notin page /\ ~Shown(r)
    BY <1>11, <2>2 DEF Shown
  <2>4. ~Excused(r)
    BY <1>11, ExcusedStays
  <2>5. Cardinality(Before(r)) >= number * Limit
    BY <1>1, <2>1, <2>3, <2>4 DEF MissInv, Coming, Rest
  <2>6. r \in Live
    BY <2>1, AboutIs DEF Base, ReaderInv, Live
  <2>7. \A x \in rows \ {r} : x.at # r.at
    BY <1>1, <2>4 DEF Excused
  <2>8. r \notin before
    <3>1. Cardinality(Before(r)) \in Nat
      BY BeforeIs
    <3> DEFINE k == number * Limit
               n == Cardinality(Before(r))
    <3>2. n \in Nat /\ k \in Nat /\ n >= k /\ (r \in before => n < k)
      BY <1>4, <2>5, <2>6, <3>1, IndexRanks
    <3> HIDE DEF k, n
    <3>. QED BY <3>2
  <2>9. Cardinality(Before(r)) >= number * Limit + Limit
    BY <1>4, <2>3, <2>6, <2>7, <2>8, IndexRanks
  <2>10. last # {}
    BY <1>5, <1>7, <2>3, <2>6, <2>8
  <2>11. state' # "done"
    BY <1>10, <2>10 DEF Reads
  <2>12. Cardinality(Before(r)') >= number' * Limit
    BY <1>12, <1>13, <2>9
  <2>. QED BY <1>1, <1>11, <2>11, <2>12 DEF Coming
<1>15. TwiceInv'
  <2>1. \A r : MayRepeat(r) => MayRepeat(r)'
    BY <1>11, MayRepeatStays
  <2>2. \A r \in seen : MayRepeat(r) \/ Cardinality(Before(r)) < number * Limit
    BY <1>1 DEF TwiceInv, Behind, Rest
  <2>3. ASSUME NEW r \in page \cap seen PROVE MayRepeat(r)
    <3> SUFFICES ASSUME ~MayRepeat(r) PROVE FALSE
      OBVIOUS
    <3>1. \A x \in rows \ {r} : x.at # r.at
      BY <1>1 DEF MayRepeat
    <3> DEFINE k == number * Limit
               n == Cardinality(Before(r))
    <3>2. n < k
      BY <2>2
    <3>3. r \in Live /\ r \notin before
      BY <1>5
    <3>4. n \in Nat /\ k \in Nat /\ n >= k
      BY <1>4, <3>1, <3>3, IndexRanks, BeforeIs
    <3> HIDE DEF k, n
    <3>. QED BY <3>2, <3>4
  <2>4. \A r \in twice' : MayRepeat(r)'
    BY <1>11, <2>1, <2>3 DEF TwiceInv, Rest
  <2>5. ASSUME NEW r \in seen' PROVE MayRepeat(r)' \/ Behind(r)'
    <3> DEFINE k == number * Limit
               n == Cardinality(Before(r))
    <3>1. CASE MayRepeat(r)
      BY <2>1, <3>1
    <3>2. CASE ~MayRepeat(r)
      <4>1. n < k + Limit
        <5>1. CASE r \in seen
          <6>1. n < k
            BY <2>2, <3>2, <5>1
          <6>2. n \in Nat /\ k \in Nat /\ Limit \in Nat
            BY <1>4, BeforeIs
          <6> HIDE DEF k, n
          <6>. QED BY <6>1, <6>2
        <5>2. CASE r \in page
          BY <1>4, <1>5, <5>2, IndexRanks
        <5>. QED BY <1>11, <5>1, <5>2
      <4>2. Cardinality(Before(r)') < number' * Limit
        BY <1>12, <1>13, <4>1
      <4>. QED BY <1>1, <1>11, <4>2 DEF Behind
    <3>. QED BY <3>1, <3>2
  <2>. QED BY <2>4, <2>5 DEF TwiceInv
<1>16. WalkInv'
  <2>1. Cardinality(rows) \in Nat /\ number <= Cardinality(rows)
    BY <1>1, FS_CardinalityType DEF Rest, WalkInv, Base, RowsInv
  <2>2. WalkEnds'
    <3> DEFINE b == Cardinality(rows) * (1 + Lost)
    <3>1. b = Cardinality(rows) + Again /\ Again \in Nat
      BY AgainIs
    <3>2. Lost' = Lost
      BY <1>10, LostStays
    <3> HIDE DEF b
    <3>3. number + 1 <= 1 + b
      BY <1>4, <2>1, <3>1
    <3>4. number' <= 1 + Cardinality(rows') * (1 + Lost')
      BY <1>11, <3>2, <3>3 DEF b
    <3>. QED BY <3>4 DEF WalkEnds, Lost
  <2>3. ASSUME state' # "done" PROVE number' <= Cardinality(rows)
    <3>1. Cardinality(Live \ before) > Limit
      BY <1>9, <1>10, <2>3 DEF Reads
    <3>2. IsFiniteSet(Live) /\ IsFiniteSet(before) /\ IsFiniteSet(Live \ before)
      BY <1>5, <1>11, LiveIs, FS_Subset
    <3>3. Cardinality(Live \ before) \in Nat /\ Cardinality(Live) \in Nat /\ Cardinality(before) \in Nat
      BY <3>2, FS_CardinalityType
    <3>4. Cardinality(Live) = Cardinality(before) + Cardinality(Live \ before)
      <4>1. Cardinality(Live \ before) = Cardinality(Live) - Cardinality(Live \cap before)
        BY <3>2, FS_Difference
      <4>2. Live \cap before = before
        BY <1>5
      <4>3. Cardinality(Live \ before) = Cardinality(Live) - Cardinality(before)
        BY <4>1, <4>2
      <4>. QED BY <3>3, <4>3
    <3>5. Cardinality(before) = number * Limit
      <4>1. Live \ before # {}
        BY <1>4, <3>1, FS_EmptySet
      <4>. QED BY <1>5, <4>1
    <3>6. number <= number * Limit
      <4>1. number * 1 <= number * Limit
        BY <1>4, Multiplies
      <4>. QED BY <1>4, <4>1
    <3>7. Cardinality(Live) <= Cardinality(rows)
      BY <1>11, LiveIs, FS_Subset
    <3> DEFINE k == number * Limit
    <3>8. k \in Nat /\ number <= k /\ Cardinality(before) = k
      BY <1>4, <3>5, <3>6
    <3> HIDE DEF k
    <3>. QED BY <1>4, <1>11, <2>1, <3>1, <3>3, <3>4, <3>7, <3>8
  <2>. QED BY <1>1, <1>11, <2>2, <2>3 DEF WalkInv
<1>17. Base' /\ ReadInv'
  BY <1>10, ReadsBase DEF Rest
<1>. QED BY <1>14, <1>15, <1>16, <1>17 DEF Rest, Base

-----------------------------------------------------------------------------
(* The invariant, and what it says. *)

LEMMA ReadStep ==
  ASSUME Base, Rest, Read
  PROVE  Base' /\ Rest'
  BY TimelinesStep, ListStep, ListingsStep, ConversationsStep, GroupsStep, CountStep, CountedStep,
     MessagesStep, FollowxStep, IndexStep DEF Read

\* Nothing was shown yet, and nothing is there.
LEMMA PagesInits == PagesInit => PagesInv
<1> SUFFICES ASSUME PagesInit PROVE PagesInv
  OBVIOUS
<1> USE DEF PagesInit
<1>1. PagesTypeOK
  BY PagesAssumption DEF PagesTypeOK
<1>2. Cardinality({}) = 0 /\ IsFiniteSet({}) /\ MaxRows \in Nat
  BY FS_EmptySet, PagesAssumption
<1>3. RowsInv
  BY <1>2 DEF RowsInv, Live
<1>4. ReaderInv
  BY DEF ReaderInv, Places
<1>5. MissInv
  BY DEF MissInv, About
<1>6. TwiceInv /\ ReadInv
  BY DEF TwiceInv, ReadInv
<1>7. Base
  BY <1>1, <1>3, <1>4 DEF Base
<1>8. Again \in Nat /\ Cardinality(rows) = 0 /\ 0 <= Again
  BY <1>2, <1>7, AgainIs
<1>9. WalkEnds
  <2>1. ends \cap pruned = {} /\ rows = {} /\ number = 0
    OBVIOUS
  <2>2. Cardinality(rows) * (1 + Cardinality(ends \cap pruned)) = 0
    BY <1>2, <2>1
  <2>. QED BY <2>1, <2>2 DEF WalkEnds
<1>10. WalkInv
  BY <1>8, <1>9 DEF WalkInv
<1>. QED BY <1>1, <1>3, <1>4, <1>5, <1>6, <1>10 DEF PagesInv

\* Whatever a step does: one lemma for each kind of page, and those for the changes.
LEMMA PagesSteps == PagesInv /\ [PagesNext]_pagesVars => PagesInv'
<1> SUFFICES ASSUME PagesInv, [PagesNext]_pagesVars PROVE PagesInv'
  OBVIOUS
<1>1. Base /\ Rest
  BY DEF PagesInv, Base, Rest
<1>2. Base' /\ Rest' => PagesInv'
  BY DEF PagesInv, Base, Rest
<1>3. CASE Changes
  <2>1. Base'
    BY <1>1, <1>3, ChangesDo
  <2>2. MissInv' /\ TwiceInv' /\ ReadInv' /\ WalkInv'
    BY <1>1, <1>3, MissChanges, TwiceChanges, ReadChanges, WalkChanges DEF Rest
  <2>. QED BY <1>2, <2>1, <2>2 DEF Rest, Base
<1>4. ASSUME NEW known \in {<<>>} \cup {<<r>> : r \in rows}, Open(known) PROVE PagesInv'
  BY <1>1, <1>2, <1>4, OpenStep DEF Places
<1>5. CASE Read
  BY <1>1, <1>2, <1>5, ReadStep
<1>6. CASE UNCHANGED pagesVars
  <2> USE <1>6 DEF pagesVars, tables, reader, history
  <2>1. PagesTypeOK' /\ RowsInv' /\ ReaderInv'
    BY <1>1 DEF PagesTypeOK, Entry, RowsInv, ReaderInv, Places, InTable, Live, Base
  <2>2. \A r : Under(r)' = Under(r) /\ Before(r)' = Before(r)
    BY UnderStays DEF Before, PinnedFirst, Live
  <2>3. \A r : Coming(r)' = Coming(r) /\ Behind(r)' = Behind(r) /\ Shown(r)' = Shown(r)
    <3> TAKE r
    <3>1. Live' = Live
      BY DEF Live
    <3>2. Coming(r)' = Coming(r)
      BY <2>2, <3>1 DEF Coming
    <3>3. Behind(r)' = Behind(r)
      BY <2>2 DEF Behind
    <3>. QED BY <3>2, <3>3 DEF Shown
  <2>4. MissInv'
    <3>1. \A r : Excused(r)' = Excused(r) /\ AfterFloor(r)' = AfterFloor(r)
      BY DEF Excused, AfterFloor, AtBoundary, InTable, Timed, StatusId, Second
    <3>2. About(there \ gone)' = About(there \ gone)
      BY DEF About
    <3>. QED BY <1>1, <2>3, <3>1, <3>2 DEF MissInv, Rest
  <2>5. TwiceInv'
    <3>1. \A r : MayRepeat(r)' = MayRepeat(r)
      BY DEF MayRepeat, Second
    <3>. QED BY <1>1, <2>3, <3>1 DEF TwiceInv, Rest
  <2>6. ReadInv' /\ WalkInv'
    BY <1>1, <2>2 DEF ReadInv, WalkInv, WalkEnds, Again, Lost, PassedBy, Rest
  <2>. QED BY <2>1, <2>4, <2>5, <2>6 DEF PagesInv
<1>. QED BY <1>3, <1>4, <1>5, <1>6 DEF PagesNext

LEMMA PagesInvariant == PagesSpec => []PagesInv
  BY PagesInits, PagesSteps, PTL DEF PagesSpec

\* What was seen, is unread or was deleted is a row, whatever happens meanwhile.
THEOREM PagesTypeCorrect == PagesSpec => []PagesTypeOK
<1>1. PagesInv => PagesTypeOK
  BY DEF PagesInv
<1>. QED BY <1>1, PagesInvariant, PTL

\* Whoever reads a list to its end is shown every row of it that was there from
\* first to last, with the exceptions that `Excused` names.
THEOREM RowsAreShown == PagesSpec => []NothingIsMissed
<1>1. PagesInv => NothingIsMissed
  BY DEF PagesInv, MissInv, NothingIsMissed, Shown
<1>. QED BY <1>1, PagesInvariant, PTL

\* Nothing is shown in two pages, with the exceptions that `NothingTwice` names.
THEOREM RowsAreShownOnce == PagesSpec => []NothingTwice
<1>1. PagesInv => NothingTwice
  BY DEF PagesInv, TwiceInv, NothingTwice, MayRepeat
<1>. QED BY <1>1, PagesInvariant, PTL

\* Whoever reads the notifications to their end has read those that were there.
THEOREM BadgeIsCleared == PagesSpec => []BadgeClears
<1>1. PagesInv => BadgeClears
  <2> SUFFICES ASSUME PagesInv, state = "done", floor = <<>>,
                      list \in {"notifications", "groups", "admin_notifications"},
                      NEW r \in unread \cap (there \ gone)
               PROVE  Excused(r)
    BY DEF BadgeClears
  <2>1. r \notin seen
    BY DEF PagesInv, ReadInv
  <2>2. r \in About(there \ gone) /\ list \notin Threaded
    BY DEF About, Threaded
  <2>3. AfterFloor(r)
    BY DEF AfterFloor
  <2>. QED BY <2>1, <2>2, <2>3 DEF PagesInv, MissInv, Shown
<1>. QED BY <1>1, PagesInvariant, PTL

\* Whoever goes on reading comes to the last page, after at most a page for each
\* row, but for cursors that were pruned.
THEOREM WalksEnd == PagesSpec => []WalkEnds
<1>1. PagesInv => WalkEnds
  BY DEF PagesInv, WalkInv
<1>. QED BY <1>1, PagesInvariant, PTL
=============================================================================
