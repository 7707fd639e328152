-------------------------- MODULE StreamingHub_proofs --------------------------
(***************************************************************************)
(* What StreamingHub promises of tasks, frames and screens, for any number *)
(* of rows, clients, tasks, changes and failures, and any limits.          *)
(***************************************************************************)
EXTENDS StreamingHub, FiniteSetTheorems, SequenceTheorems, TLAPS

-----------------------------------------------------------------------------
(* The inductive invariant: types.                                         *)

Named == UNION {First[c] \cup Wanted[c] : c \in Clients}
Stream ==
  {"user", "public", "public:local", "public:remote", "user:notification", "direct"}
    \cup (UNION {Post[i].tags \cup Post[i].lists : i \in Rows}) \cup Named
Frame == [event : {"update", "conversation", "notification", "delete", "status.update"},
          id : Rows, streams : SUBSET Stream]
Early == {"inbox", "outbox", "status"}
Idle == {"done", "sleep"}
EditPcs == {"edits:inbox", "edits:outbox"}
Tick == [pc : Idle \cup Early \cup {"notification", "publish"} \cup EditPcs, stop : BOOLEAN,
         ask : Nat, ids : SUBSET Rows, keys : SUBSET Rows, all : SUBSET Stream,
         events : Seq(Frame)]
SocketType == [pc : {"out", "waiting", "seeding", "in", "leaving", "leaked"},
               streams : SUBSET Stream, queue : Seq(Frame)]
Mark == [gone : BOOLEAN, rev : Nat]

Known(n) == n \in Nat /\ (n = 0 \/ (n \in Rows /\ row[n].state # "none"))
Window == Max({SeedTrack, TrackLimit})

TableType ==
  /\ row \in [Rows -> [state : {"none", "live", "deleted", "pruned"}, rev : Nat]]
  /\ \A i \in Rows : row[i].rev <= changes
  /\ changes \in Nat /\ changes <= MaxChanges
HubType ==
  /\ cursor \in [Boxes -> Nat] /\ \A b \in Boxes : Known(cursor[b])
  /\ task \in Pumps \cup {NoTask}
  /\ DOMAIN tracked \subseteq {i \in Rows : BoxOf(i) \in Tracking}
  /\ \A i \in DOMAIN tracked : tracked[i] \in Mark
WindowInv == \A b \in Tracking : Cardinality(TrackedIn(DOMAIN tracked, b)) <= Window
PumpType ==
  /\ pump \in [Pumps -> Tick]
  /\ \A t \in Pumps : Known(pump[t].ask)
SubType ==
  /\ sub \in [Clients -> SocketType]
  /\ \A c \in Clients :
       /\ Len(sub[c].queue) <= QueueSize
       /\ IsFiniteSet(sub[c].streams)
       /\ Cardinality(sub[c].streams) <= Max({Cardinality(First[c]), MaxStreams})
       /\ sub[c].pc \in {"out", "waiting"} => sub[c].queue = <<>>
HistoryType ==
  /\ view \in [Clients -> [Rows -> {"none", "loaded", "told", "removed", "twice", "ghost"}]]
  /\ calls \in Nat /\ calls <= MaxCalls /\ faults \in Nat /\ faults <= MaxFaults
  /\ overlap \in BOOLEAN
TypeInv == TableType /\ HubType /\ PumpType /\ SubType /\ HistoryType

(* Tasks and ticks. *)

\* One task goes on, and only one client seeds it.
TaskInv ==
  /\ \A t \in Pumps : Running(t) /\ ~pump[t].stop <=> t = task
  /\ \A c \in Clients : sub[c].pc = "in" => task # NoTask
  /\ \A c \in Clients : sub[c].pc = "seeding" => task = NoTask
  /\ \A c, d \in Clients : sub[c].pc = "seeding" /\ sub[d].pc = "seeding" => c = d

\* The frames about a status: an update comes first, and once.
Update(e, i) == e.event = "update" /\ e.id = i
Deletion(e, i) == e.event = "delete" /\ e.id = i
Has(s, i) == \E n \in DOMAIN s : Update(s[n], i)
Ends(s, i) == \E n \in DOMAIN s : Deletion(s[n], i)
Clean(s) ==
  \A m, n \in DOMAIN s : m < n /\ s[n].event = "update"
                         => ~Update(s[m], s[n].id) /\ ~Deletion(s[m], s[n].id)

\* What a tick holds, by where it stands.
TickInv == \A t \in Pumps :
  /\ pump[t].pc \in Idle => pump[t].ids = {}
  /\ pump[t].pc \in Idle \cup Early => pump[t].events = <<>>
  /\ pump[t].pc \in EditPcs => pump[t].all # {}
  /\ Clean(pump[t].events)
GoneInv == \A i \in DOMAIN tracked : tracked[i].gone => row[i].state = "deleted"

(* Nothing is skipped. *)

\* An update that reaches the client in spite of its subscriptions.
ShownIn(i, s) == StreamsOf(i, s) \cap s
Reaches(c, e, i) == Update(e, i) /\ ShownIn(i, sub[c].streams) \subseteq e.streams
Coming2(c, i) ==
  \/ Ahead(i)
  \/ \E n \in DOMAIN sub[c].queue : Reaches(c, sub[c].queue[n], i)
  \/ \E t \in Pumps : i \in pump[t].ids /\ pump[t].pc \in Early
  \/ \E t \in Pumps : \E n \in DOMAIN pump[t].events : Reaches(c, pump[t].events[n], i)
SkipInv == \A c \in Clients, i \in Rows : Owed(c, i) => Coming2(c, i)

(* Clean streams, and deletes, as long as tasks do not overlap. *)

\* Then one task runs, and it is the one that clients wait for.
AloneInv ==
  /\ \A t, u \in Pumps : Running(t) /\ Running(u) => t = u
  /\ Registered # {} => \A t \in Pumps : Running(t) => t = task
  /\ \A c \in Clients : sub[c].pc = "seeding" => sub[c].queue = <<>>
\* The cursor is ahead of all that was fetched.
Fetched(i) == i <= cursor[BoxOf(i)]
Caught(i) == \E t \in Pumps : i \in pump[t].ids /\ pump[t].pc \in Early
CursorInv ==
  /\ \A t \in Pumps : pump[t].pc \in Boxes => pump[t].ask = cursor[pump[t].pc]
  /\ \A i \in DOMAIN tracked : Fetched(i) /\ ~Caught(i)
  /\ \A t \in Pumps : \A i \in pump[t].ids : Fetched(i)
  /\ \A t \in Pumps, i \in Rows :
       Has(pump[t].events, i) \/ Ends(pump[t].events, i) => Fetched(i)
\* The frames that are on their way to a client.
Pipe(c) == sub[c].queue \o pump[task].events
In == {c \in Clients : sub[c].pc = "in"}
Fresh(c) == \A i \in Rows :
  ~Fetched(i) \/ Caught(i) => /\ view[c][i] = "none"
                              /\ ~Has(sub[c].queue, i) /\ ~Ends(sub[c].queue, i)
Ordered(c) ==
  /\ Clean(Pipe(c))
  /\ \A i \in Rows : view[c][i] \in {"told", "removed"} => ~Has(Pipe(c), i)
ViewInv == \A c \in Clients, i \in Rows : view[c][i] \notin {"twice", "ghost"}

\* What a client shows, or will, is tracked or its deletion is on its way; and
\* the client will hear of it.
Stands(c, i) ==
  \/ <<c, i>> \in lost
  \/ i \in DOMAIN tracked /\ ~tracked[i].gone
  \/ Ends(Pipe(c), i)
Standing(c) == \A i \in Rows :
  sub[c].streams # {} /\ (view[c][i] \in {"loaded", "told"} \/ Has(Pipe(c), i)) => Stands(c, i)
\* The client hears of a deletion that is for it.
Hears(c, i, streams) == <<c, i>> \in lost \/ sub[c].streams \subseteq streams
Heard(c) == \A i \in Rows :
  /\ \A n \in DOMAIN Pipe(c) : Deletion(Pipe(c)[n], i) => Hears(c, i, Pipe(c)[n].streams)
  /\ pump[task].pc \in EditPcs /\ i \in DOMAIN tracked => Hears(c, i, pump[task].all)

ClientOK(c) == Fresh(c) /\ Ordered(c) /\ Standing(c) /\ Heard(c)
OrderInv == AloneInv /\ CursorInv /\ ViewInv /\ \A c \in In : ClientOK(c)
AloneThen == overlap \/ OrderInv
HubInv == TypeInv /\ WindowInv /\ TaskInv /\ TickInv /\ GoneInv /\ SkipInv /\ AloneThen
-----------------------------------------------------------------------------
(* Finite sets of numbers, in order.                                       *)

Upto(S, i) == {j \in S : j <= i}
From(S, i) == {j \in S : j >= i}

LEMMA RanksGrow ==
  ASSUME NEW S \in SUBSET Nat, IsFiniteSet(S), NEW i \in S, NEW k \in S
  PROVE  /\ Cardinality(Upto(S, i)) \in 1..Cardinality(S)
         /\ i < k => Cardinality(Upto(S, i)) < Cardinality(Upto(S, k))
<1>0. i \in Nat /\ k \in Nat /\ \A j \in S : j \in Nat
  OBVIOUS
<1>1. /\ Upto(S, i) \in SUBSET S /\ Upto(S, k) \in SUBSET S
      /\ i \in Upto(S, i) /\ k \in Upto(S, k)
  BY DEF Upto
<1>2. /\ IsFiniteSet(Upto(S, i)) /\ IsFiniteSet(Upto(S, k))
      /\ Cardinality(Upto(S, i)) <= Cardinality(S)
  BY <1>1, FS_Subset
<1>3. /\ Cardinality(Upto(S, i)) \in Nat /\ Cardinality(Upto(S, k)) \in Nat
      /\ Cardinality(S) \in Nat
  BY <1>2, FS_CardinalityType
<1>4. Cardinality(Upto(S, i)) # 0
  BY <1>1, <1>2, FS_EmptySet
<1>5. ASSUME i < k
      PROVE  Cardinality(Upto(S, i)) < Cardinality(Upto(S, k))
  <2>0. ~(k <= i) /\ \A j \in S : j <= i => j <= k
    BY <1>0, <1>5
  <2>1. Upto(S, i) \in SUBSET Upto(S, k) /\ k \notin Upto(S, i)
    BY <2>0 DEF Upto
  <2>2. Cardinality(Upto(S, i)) <= Cardinality(Upto(S, k))
        /\ (Cardinality(Upto(S, k)) = Cardinality(Upto(S, i)) => Upto(S, k) = Upto(S, i))
    BY <1>2, <2>1, FS_Subset
  <2>. QED BY <1>1, <1>3, <2>1, <2>2
<1>. QED BY <1>2, <1>3, <1>4, <1>5

LEMMA RanksFall ==
  ASSUME NEW S \in SUBSET Nat, IsFiniteSet(S), NEW i \in S, NEW k \in S
  PROVE  /\ Cardinality(From(S, i)) \in Nat \ {0}
         /\ i < k => Cardinality(From(S, k)) < Cardinality(From(S, i))
<1>0. i \in Nat /\ k \in Nat /\ \A j \in S : j \in Nat
  OBVIOUS
<1>1. /\ From(S, i) \in SUBSET S /\ From(S, k) \in SUBSET S
      /\ i \in From(S, i) /\ k \in From(S, k)
  BY DEF From
<1>2. IsFiniteSet(From(S, i)) /\ IsFiniteSet(From(S, k))
  BY <1>1, FS_Subset
<1>3. Cardinality(From(S, i)) \in Nat /\ Cardinality(From(S, k)) \in Nat
  BY <1>2, FS_CardinalityType
<1>4. Cardinality(From(S, i)) # 0
  BY <1>1, <1>2, FS_EmptySet
<1>5. ASSUME i < k
      PROVE  Cardinality(From(S, k)) < Cardinality(From(S, i))
  <2>0. ~(i >= k) /\ \A j \in S : j >= k => j >= i
    BY <1>0, <1>5
  <2>1. From(S, k) \in SUBSET From(S, i) /\ i \notin From(S, k)
    BY <2>0 DEF From
  <2>2. Cardinality(From(S, k)) <= Cardinality(From(S, i))
        /\ (Cardinality(From(S, i)) = Cardinality(From(S, k)) => From(S, i) = From(S, k))
    BY <1>2, <2>1, FS_Subset
  <2>. QED BY <1>1, <1>3, <2>1, <2>2
<1>. QED BY <1>3, <1>4, <1>5

\* Ascending lists each number once, the smallest first.
LEMMA AscendingLists ==
  ASSUME NEW S \in SUBSET Nat, IsFiniteSet(S)
  PROVE  /\ Cardinality(S) \in Nat
         /\ DOMAIN Ascending(S) = 1..Cardinality(S)
         /\ \A n \in 1..Cardinality(S) : Ascending(S)[n] \in S
         /\ \A i \in S : \E n \in 1..Cardinality(S) : Ascending(S)[n] = i
         /\ \A m, n \in 1..Cardinality(S) : m < n => Ascending(S)[m] < Ascending(S)[n]
<1> DEFINE rank == [i \in S |-> Cardinality(Upto(S, i))]
           N == Cardinality(S)
<1>1. N \in Nat
  BY FS_CardinalityType
<1>2. \A i \in S : rank[i] \in 1..N
  BY RanksGrow
<1>3. \A i, k \in S : i < k => rank[i] < rank[k]
  BY RanksGrow
<1>4. \A i, k \in S : rank[i] = rank[k] => i = k
  <2> SUFFICES ASSUME NEW i \in S, NEW k \in S, rank[i] = rank[k], i # k
               PROVE  FALSE
    OBVIOUS
  <2>1. rank[i] \in Nat /\ rank[k] \in Nat
    BY <1>2
  <2>2. i < k \/ k < i
    OBVIOUS
  <2>. QED BY <1>3, <2>1, <2>2
<1>5. \A n \in 1..N : \E i \in S : rank[i] = n
  <2>1. rank \in Injection(S, 1..N)
    BY <1>2, <1>4 DEF Injection, IsInjective
  <2>2. IsFiniteSet(1..N) /\ Cardinality(1..N) = N
    BY <1>1, FS_Interval
  <2>3. rank \in Surjection(S, 1..N)
    BY <2>1, <2>2, FS_Injection
  <2>. QED BY <2>3 DEF Surjection
<1>6. \A n \in 1..N : Ascending(S)[n] \in S /\ rank[Ascending(S)[n]] = n
  <2> SUFFICES ASSUME NEW n \in 1..N
               PROVE  Ascending(S)[n] \in S /\ rank[Ascending(S)[n]] = n
    OBVIOUS
  <2>1. \E i \in S : Cardinality({j \in S : j <= i}) = n
    BY <1>5 DEF Upto
  <2>2. Ascending(S)[n] = CHOOSE i \in S : Cardinality({j \in S : j <= i}) = n
    BY DEF Ascending
  <2>. QED BY <2>1, <2>2 DEF Upto
<1>7. \A i \in S : Ascending(S)[rank[i]] = i
  BY <1>2, <1>4, <1>6
<1>8. ASSUME NEW m \in 1..N, NEW n \in 1..N, m < n
      PROVE  Ascending(S)[m] < Ascending(S)[n]
  <2> DEFINE a == Ascending(S)[m]
             b == Ascending(S)[n]
  <2>1. a \in S /\ b \in S /\ rank[a] = m /\ rank[b] = n
    BY <1>6
  <2>0. a \in Nat /\ b \in Nat
    BY <2>1
  <2> HIDE DEF a, b, rank
  <2>2. a < b \/ b < a \/ a = b
    BY <2>0
  <2>3. ~(b < a)
    <3> SUFFICES ASSUME b < a PROVE FALSE
      OBVIOUS
    <3>1. rank[b] < rank[a]
      BY <1>3, <2>1
    <3>. QED BY <2>1, <3>1, <1>1, <1>8
  <2>4. a # b
    BY <2>1, <1>1, <1>8
  <2>5. a < b
    BY <2>2, <2>3, <2>4
  <2>. QED BY <2>5 DEF a, b
<1>9. DOMAIN Ascending(S) = 1..N
  BY DEF Ascending
<1>. QED BY <1>1, <1>2, <1>6, <1>7, <1>8, <1>9

\* The largest number of a finite set.
LEMMA MaxIsIn ==
  ASSUME NEW S \in SUBSET Nat, IsFiniteSet(S), S # {}
  PROVE  Max(S) \in S /\ \A j \in S : Max(S) >= j
<1> DEFINE N == Cardinality(S)
           m == Ascending(S)[N]
<1>1. N \in Nat /\ N # 0
  BY AscendingLists, FS_EmptySet
<1>2. m \in S
  BY <1>1, AscendingLists
<1>3. \A j \in S : m >= j
  <2> SUFFICES ASSUME NEW j \in S PROVE m >= j
    OBVIOUS
  <2>1. PICK n \in 1..N : Ascending(S)[n] = j
    BY AscendingLists
  <2>2. n = N \/ n < N
    BY <1>1
  <2>3. n < N => j < m
    BY <1>1, <2>1, AscendingLists
  <2>4. m \in Nat /\ j \in Nat
    BY <1>2
  <2>5. n = N => j = m
    BY <2>1
  <2> HIDE DEF m
  <2>. QED BY <2>2, <2>3, <2>4, <2>5
<1>4. \E x \in S : \A y \in S : x >= y
  BY <1>2, <1>3
<1>. QED BY <1>4 DEF Max

LEMMA LargestIs ==
  ASSUME NEW S \in SUBSET Nat, IsFiniteSet(S)
  PROVE  /\ Largest(S) \in S \cup {0}
         /\ \A j \in S : j <= Largest(S)
<1>1. CASE S = {}
  BY <1>1 DEF Largest
<1>2. CASE S # {}
  BY <1>2, MaxIsIn DEF Largest
<1>. QED BY <1>1, <1>2

LEMMA MaxOfTwo ==
  ASSUME NEW a \in Nat, NEW b \in Nat
  PROVE  Max({a, b}) \in Nat /\ Max({a, b}) >= a /\ Max({a, b}) >= b
<1>1. IsFiniteSet({b})
  BY FS_Singleton
<1>2. IsFiniteSet({b} \cup {a})
  BY <1>1, FS_AddElement
<1>3. {b} \cup {a} = {a, b}
  OBVIOUS
<1>4. IsFiniteSet({a, b}) /\ {a, b} \in SUBSET Nat /\ {a, b} # {}
  BY <1>2, <1>3
<1>5. Max({a, b}) \in {a, b} /\ \A j \in {a, b} : Max({a, b}) >= j
  BY <1>4, MaxIsIn
<1>. QED BY <1>5

\* The newest n are n at most.
LEMMA NewestBound ==
  ASSUME NEW S \in SUBSET Nat, IsFiniteSet(S), NEW n \in Nat
  PROVE  Newest(S, n) \subseteq S /\ Cardinality(Newest(S, n)) <= n
<1> DEFINE T == Newest(S, n)
           rank == [i \in T |-> Cardinality(From(S, i))]
<1>1. T \subseteq S
  BY DEF Newest
<1>2. \A i \in T : rank[i] \in 1..n
  <2> SUFFICES ASSUME NEW i \in T PROVE Cardinality(From(S, i)) \in 1..n
    OBVIOUS
  <2>1. Cardinality(From(S, i)) <= n
    BY DEF Newest, From
  <2>2. i \in S
    BY <1>1
  <2>3. Cardinality(From(S, i)) \in Nat \ {0}
    BY <2>2, RanksFall
  <2>. QED BY <2>1, <2>3
<1>3. \A i, k \in T : rank[i] = rank[k] => i = k
  <2> SUFFICES ASSUME NEW i \in T, NEW k \in T, i # k
               PROVE  Cardinality(From(S, i)) # Cardinality(From(S, k))
    OBVIOUS
  <2>1. i \in S /\ k \in S /\ i \in Nat /\ k \in Nat
    BY <1>1
  <2>3. i < k \/ k < i
    BY <2>1
  <2>2. /\ Cardinality(From(S, i)) \in Nat /\ Cardinality(From(S, k)) \in Nat
        /\ i < k => Cardinality(From(S, k)) < Cardinality(From(S, i))
        /\ k < i => Cardinality(From(S, i)) < Cardinality(From(S, k))
    BY <2>1, RanksFall
  <2>. QED BY <2>2, <2>3
<1>4. rank \in Injection(T, 1..n)
  BY <1>2, <1>3 DEF Injection, IsInjective
<1>5. IsFiniteSet(1..n) /\ Cardinality(1..n) = n
  BY FS_Interval
<1>6. Cardinality(T) <= n
  BY <1>4, <1>5, FS_Injection
<1>. QED BY <1>1, <1>6

\* What the oldest n leave out is younger than they are.
LEMMA OldestFirst ==
  ASSUME NEW S \in SUBSET Nat, IsFiniteSet(S), NEW n \in Nat,
         NEW i \in S, i \notin Oldest(S, n), NEW j \in Oldest(S, n)
  PROVE  j < i
<1>1. j \in S /\ Cardinality(Upto(S, j)) <= n /\ ~(Cardinality(Upto(S, i)) <= n)
  BY DEF Oldest, Upto
<1>2. /\ Cardinality(Upto(S, i)) \in Nat /\ Cardinality(Upto(S, j)) \in Nat
      /\ i < j => Cardinality(Upto(S, i)) < Cardinality(Upto(S, j))
  BY <1>1, RanksGrow
<1>. QED BY <1>1, <1>2

-----------------------------------------------------------------------------
(* Sequences of frames.                                                    *)

LEMMA SeqOf ==
  ASSUME NEW S, NEW k \in Nat, NEW f \in [1..k -> S]
  PROVE  f \in Seq(S) /\ Len(f) = k /\ DOMAIN f = 1..k
<1>1. f \in Seq(S)
  BY SeqDef
<1>2. Len(f) \in Nat /\ DOMAIN f = 1..Len(f) /\ DOMAIN f = 1..k
  BY <1>1, LenProperties
<1>3. Len(f) = k
  BY <1>2
<1>. QED BY <1>1, <1>2, <1>3

LEMMA Joined ==
  ASSUME NEW S, NEW s \in Seq(S), NEW t \in Seq(S)
  PROVE  /\ s \o t \in Seq(S)
         /\ Len(s) \in Nat /\ DOMAIN s = 1..Len(s)
         /\ Len(t) \in Nat /\ DOMAIN t = 1..Len(t)
         /\ DOMAIN (s \o t) = 1..(Len(s) + Len(t))
         /\ \A n \in DOMAIN s : n \in DOMAIN (s \o t) /\ (s \o t)[n] = s[n]
         /\ \A n \in DOMAIN t : Len(s) + n \in DOMAIN (s \o t) /\ (s \o t)[Len(s) + n] = t[n]
         /\ \A n \in DOMAIN (s \o t) :
              \/ n \in DOMAIN s /\ (s \o t)[n] = s[n]
              \/ n > Len(s) /\ n - Len(s) \in DOMAIN t /\ (s \o t)[n] = t[n - Len(s)]
<1>1. /\ Len(s) \in Nat /\ DOMAIN s = 1..Len(s)
      /\ Len(t) \in Nat /\ DOMAIN t = 1..Len(t)
  BY LenProperties
<1>2. /\ s \o t \in Seq(S)
      /\ Len(s \o t) = Len(s) + Len(t)
      /\ \A i \in 1..(Len(s) + Len(t)) : (s \o t)[i] =
            IF i <= Len(s) THEN s[i] ELSE t[i - Len(s)]
  BY ConcatProperties
<1>3. DOMAIN (s \o t) = 1..(Len(s) + Len(t))
  BY <1>2, LenProperties
<1> DEFINE st == s \o t
<1> HIDE DEF st
<1>4. \A n \in 1..Len(s) : n \in 1..(Len(s) + Len(t)) /\ st[n] = s[n]
  BY <1>1, <1>2 DEF st
<1>5. \A n \in 1..Len(t) : Len(s) + n \in 1..(Len(s) + Len(t)) /\ st[Len(s) + n] = t[n]
  <2> SUFFICES ASSUME NEW n \in 1..Len(t)
               PROVE  Len(s) + n \in 1..(Len(s) + Len(t)) /\ st[Len(s) + n] = t[n]
    OBVIOUS
  <2>1. /\ Len(s) + n \in 1..(Len(s) + Len(t)) /\ ~(Len(s) + n <= Len(s))
        /\ (Len(s) + n) - Len(s) = n
    BY <1>1
  <2>. QED BY <1>2, <2>1 DEF st
<1>6. \A n \in 1..(Len(s) + Len(t)) :
        \/ n \in 1..Len(s) /\ st[n] = s[n]
        \/ n > Len(s) /\ n - Len(s) \in 1..Len(t) /\ st[n] = t[n - Len(s)]
  BY <1>1, <1>2 DEF st
<1>. QED BY <1>1, <1>2, <1>3, <1>4, <1>5, <1>6 DEF st

LEMMA HasJoined ==
  ASSUME NEW s \in Seq(Frame), NEW t \in Seq(Frame), NEW i
  PROVE  /\ Has(s \o t, i) <=> Has(s, i) \/ Has(t, i)
         /\ Ends(s \o t, i) <=> Ends(s, i) \/ Ends(t, i)
<1> DEFINE st == s \o t
<1>1. /\ \A n \in DOMAIN s : n \in DOMAIN st /\ st[n] = s[n]
      /\ \A n \in DOMAIN t : Len(s) + n \in DOMAIN st /\ st[Len(s) + n] = t[n]
  BY Joined
<1>0. \A n \in DOMAIN st : \/ n \in DOMAIN s /\ st[n] = s[n]
                           \/ n > Len(s) /\ n - Len(s) \in DOMAIN t /\ st[n] = t[n - Len(s)]
  BY Joined
<1> HIDE DEF st
<1>2. Has(st, i) <=> Has(s, i) \/ Has(t, i)
  BY <1>0, <1>1 DEF Has
<1>3. Ends(st, i) <=> Ends(s, i) \/ Ends(t, i)
  BY <1>0, <1>1 DEF Ends
<1>. QED BY <1>2, <1>3 DEF st

\* Frames that are not updates may follow anything; so may updates of rows
\* that no frame is about.
LEMMA CleanJoined ==
  ASSUME NEW s \in Seq(Frame), NEW t \in Seq(Frame), Clean(s), Clean(t),
         \A n \in DOMAIN t : t[n].event = "update"
                             => ~Has(s, t[n].id) /\ ~Ends(s, t[n].id)
  PROVE  Clean(s \o t)
<1> DEFINE st == s \o t
<1>1. SUFFICES ASSUME NEW m \in DOMAIN st, NEW n \in DOMAIN st, m < n,
                      st[n].event = "update"
               PROVE  ~Update(st[m], st[n].id) /\ ~Deletion(st[m], st[n].id)
  BY DEF Clean
<1>2. /\ Len(s) \in Nat /\ DOMAIN s = 1..Len(s)
      /\ Len(t) \in Nat /\ DOMAIN t = 1..Len(t)
      /\ DOMAIN st = 1..(Len(s) + Len(t))
  BY Joined
<1>3. /\ \/ n \in DOMAIN s /\ st[n] = s[n]
         \/ n > Len(s) /\ n - Len(s) \in DOMAIN t /\ st[n] = t[n - Len(s)]
      /\ \/ m \in DOMAIN s /\ st[m] = s[m]
         \/ m > Len(s) /\ m - Len(s) \in DOMAIN t /\ st[m] = t[m - Len(s)]
  BY Joined
<1> HIDE DEF st
<1>4. CASE n \in DOMAIN s /\ st[n] = s[n]
  <2>1. m \in DOMAIN s /\ st[m] = s[m]
    BY <1>1, <1>2, <1>3, <1>4
  <2>. QED BY <1>1, <1>4, <2>1 DEF Clean
<1>5. CASE n > Len(s) /\ n - Len(s) \in DOMAIN t /\ st[n] = t[n - Len(s)]
  <2>1. CASE m \in DOMAIN s /\ st[m] = s[m]
    BY <1>1, <1>5, <2>1 DEF Has, Ends
  <2>2. CASE m > Len(s) /\ m - Len(s) \in DOMAIN t /\ st[m] = t[m - Len(s)]
    <3>1. m - Len(s) < n - Len(s)
      BY <1>1, <1>2
    <3>. QED BY <1>1, <1>5, <2>2, <3>1 DEF Clean
  <2>. QED BY <1>3, <2>1, <2>2
<1>. QED BY <1>3, <1>4, <1>5

\* q is what is left of s.
Within(q, s) ==
  \E f \in [DOMAIN q -> DOMAIN s] :
    /\ \A n \in DOMAIN q : q[n] = s[f[n]]
    /\ \A m, n \in DOMAIN q : m < n => f[m] < f[n]

LEMMA WithinKeeps ==
  ASSUME NEW q, NEW s, Within(q, s)
  PROVE  /\ Clean(s) => Clean(q)
         /\ \A i : (Has(q, i) => Has(s, i)) /\ (Ends(q, i) => Ends(s, i))
         /\ \A n \in DOMAIN q : \E m \in DOMAIN s : q[n] = s[m]
<1>1. PICK f \in [DOMAIN q -> DOMAIN s] :
             /\ \A n \in DOMAIN q : q[n] = s[f[n]]
             /\ \A m, n \in DOMAIN q : m < n => f[m] < f[n]
  BY DEF Within
<1>2. Clean(s) => Clean(q)
  BY <1>1 DEF Clean
<1>. QED BY <1>1, <1>2 DEF Has, Ends

LEMMA WithinTwice ==
  ASSUME NEW q, NEW s, NEW r, Within(q, s), Within(s, r)
  PROVE  Within(q, r)
<1>1. PICK f \in [DOMAIN q -> DOMAIN s] :
             /\ \A n \in DOMAIN q : q[n] = s[f[n]]
             /\ \A m, n \in DOMAIN q : m < n => f[m] < f[n]
  BY DEF Within
<1>2. PICK g \in [DOMAIN s -> DOMAIN r] :
             /\ \A n \in DOMAIN s : s[n] = r[g[n]]
             /\ \A m, n \in DOMAIN s : m < n => g[m] < g[n]
  BY DEF Within
<1> DEFINE h == [n \in DOMAIN q |-> g[f[n]]]
<1>3. h \in [DOMAIN q -> DOMAIN r]
  BY <1>1, <1>2
<1>4. \A n \in DOMAIN q : q[n] = r[h[n]]
  BY <1>1, <1>2
<1>5. \A m, n \in DOMAIN q : m < n => h[m] < h[n]
  BY <1>1, <1>2
<1>. QED BY <1>3, <1>4, <1>5 DEF Within

\* What is left when a frame was sent.
LEMMA SentWithin ==
  ASSUME NEW s \in Seq(Frame), NEW t \in Seq(Frame), s # <<>>
  PROVE  /\ Tail(s) \in Seq(Frame) /\ Len(Tail(s)) <= Len(s)
         /\ 1 \in DOMAIN s /\ Head(s) = s[1] /\ Head(s) \in Frame
         /\ \A n \in DOMAIN s : n = 1 \/ (n - 1 \in DOMAIN Tail(s) /\ Tail(s)[n - 1] = s[n])
         /\ \A n \in DOMAIN Tail(s) : n + 1 \in DOMAIN s /\ Tail(s)[n] = s[n + 1]
         /\ Within(Tail(s) \o t, s \o t)
         /\ \A n \in DOMAIN (Tail(s) \o t) :
              n + 1 \in DOMAIN (s \o t) /\ (Tail(s) \o t)[n] = (s \o t)[n + 1]
<1>1. /\ Tail(s) \in Seq(Frame) /\ Len(Tail(s)) = Len(s) - 1
      /\ \A i \in 1..Len(Tail(s)) : Tail(s)[i] = s[i + 1]
      /\ Head(s) \in Frame
  BY HeadTailProperties
<1>2. /\ Len(s) \in Nat \ {0} /\ DOMAIN s = 1..Len(s) /\ Len(t) \in Nat
      /\ DOMAIN Tail(s) = 1..(Len(s) - 1) /\ DOMAIN t = 1..Len(t)
  BY <1>1, LenProperties, EmptySeq
<1>3. Head(s) = s[1]
  OBVIOUS
<1> DEFINE u == Tail(s)
           a == u \o t
           b == s \o t
<1>4. /\ DOMAIN a = 1..(Len(s) - 1 + Len(t))
      /\ DOMAIN b = 1..(Len(s) + Len(t))
      /\ \A n \in DOMAIN a : \/ n \in DOMAIN u /\ a[n] = u[n]
                             \/ n > Len(u) /\ n - Len(u) \in DOMAIN t /\ a[n] = t[n - Len(u)]
      /\ \A n \in DOMAIN s : b[n] = s[n]
      /\ \A n \in DOMAIN t : b[Len(s) + n] = t[n]
  BY <1>1, Joined
<1>5. \A n \in DOMAIN a : n + 1 \in DOMAIN b /\ a[n] = b[n + 1]
  <2> SUFFICES ASSUME NEW n \in DOMAIN a
               PROVE  n + 1 \in DOMAIN b /\ a[n] = b[n + 1]
    OBVIOUS
  <2>0. n \in Nat /\ n + 1 \in DOMAIN b
    BY <1>2, <1>4
  <2>1. CASE n \in DOMAIN u /\ a[n] = u[n]
    <3>1. n + 1 \in DOMAIN s /\ u[n] = s[n + 1]
      BY <1>1, <1>2, <2>1
    <3>. QED BY <1>4, <2>0, <2>1, <3>1
  <2>2. CASE n > Len(u) /\ n - Len(u) \in DOMAIN t /\ a[n] = t[n - Len(u)]
    <3>1. Len(s) + (n - Len(u)) = n + 1
      BY <1>1, <1>2, <2>0
    <3>2. b[Len(s) + (n - Len(u))] = t[n - Len(u)]
      BY <1>4, <2>2
    <3>. QED BY <2>0, <2>2, <3>1, <3>2
  <2>. QED BY <1>4, <2>1, <2>2
<1>6. Within(a, b)
  <2> DEFINE f == [n \in DOMAIN a |-> n + 1]
  <2>1. f \in [DOMAIN a -> DOMAIN b]
    BY <1>5
  <2>2. \A n \in DOMAIN a : a[n] = b[f[n]]
    BY <1>5
  <2>3. \A m, n \in DOMAIN a : m < n => f[m] < f[n]
    BY <1>2, <1>4
  <2>. QED BY <2>1, <2>2, <2>3 DEF Within
<1>7. \A n \in DOMAIN s : n = 1 \/ (n - 1 \in DOMAIN u /\ u[n - 1] = s[n])
  BY <1>1, <1>2
<1>8. \A n \in DOMAIN u : n + 1 \in DOMAIN s /\ u[n] = s[n + 1]
  BY <1>1, <1>2
<1>9. 1 \in DOMAIN s /\ Len(u) <= Len(s)
  BY <1>1, <1>2
<1>. QED BY <1>1, <1>3, <1>5, <1>6, <1>7, <1>8, <1>9

-----------------------------------------------------------------------------
(* The frames of a tick.                                                   *)

FrameNames == {"update", "conversation", "notification", "delete", "status.update"}
LEMMA NamesAre ==
  /\ "update" \in FrameNames /\ "conversation" \in FrameNames
  /\ "notification" \in FrameNames /\ "delete" \in FrameNames
  /\ "status.update" \in FrameNames
BY DEF FrameNames

LEMMA RowsAreNumbers ==
  /\ Rows \subseteq Nat \ {0} /\ IsFiniteSet(Rows)
  /\ \A S \in SUBSET Rows : S \in SUBSET Nat /\ IsFiniteSet(S)
BY RowsAssumption, FS_Subset

\* s has one frame for each row.
OneEach(s, e, S, of) ==
  /\ s \in Seq(Frame)
  /\ \A n \in DOMAIN s : s[n].event = e /\ s[n].id \in S /\ s[n].streams = of[s[n].id]
  /\ \A i \in S : \E n \in DOMAIN s : s[n].id = i
  /\ \A m, n \in DOMAIN s : m < n => s[m].id # s[n].id

LEMMA EventsAre ==
  ASSUME NEW S \in SUBSET Rows, NEW e \in FrameNames, NEW of,
         \A i \in S : of[i] \in SUBSET Stream
  PROVE  OneEach(Events(e, S, of), e, S, of)
<1> DEFINE N == Cardinality(S)
           a == Ascending(S)
           s == Events(e, S, of)
<1>1. S \in SUBSET Nat /\ IsFiniteSet(S)
  BY RowsAreNumbers
<1>2. /\ N \in Nat
      /\ \A n \in 1..N : a[n] \in S
      /\ \A i \in S : \E n \in 1..N : a[n] = i
      /\ \A m, n \in 1..N : m < n => a[m] < a[n]
  BY <1>1, AscendingLists
<1> HIDE DEF a
<1>3. s = [n \in 1..N |-> [event |-> e, id |-> a[n], streams |-> of[a[n]]]]
  BY DEF Events, Event, a
<1> HIDE DEF s, N
<1>4. \A n \in 1..N : s[n] = [event |-> e, id |-> a[n], streams |-> of[a[n]]]
  BY <1>3
<1>5. \A n \in 1..N : of[a[n]] \in SUBSET Stream /\ a[n] \in Rows
  BY <1>2
<1>6. s \in [1..N -> Frame]
  BY <1>3, <1>5 DEF Frame, FrameNames
<1>7. s \in Seq(Frame) /\ DOMAIN s = 1..N
  BY <1>2, <1>6, SeqOf
<1>8. \A n \in 1..N : s[n].event = e /\ s[n].id = a[n] /\ s[n].streams = of[a[n]]
  <2> SUFFICES ASSUME NEW n \in 1..N
               PROVE  s[n].event = e /\ s[n].id = a[n] /\ s[n].streams = of[a[n]]
    OBVIOUS
  <2>1. s[n] = [event |-> e, id |-> a[n], streams |-> of[a[n]]]
    BY <1>4
  <2>. QED BY <2>1
<1>9. \A m, n \in 1..N : m < n => s[m].id # s[n].id
  <2> SUFFICES ASSUME NEW m \in 1..N, NEW n \in 1..N, m < n
               PROVE  s[m].id # s[n].id
    OBVIOUS
  <2>1. a[m] < a[n] /\ a[m] \in Nat /\ a[n] \in Nat
    BY <1>1, <1>2
  <2>. QED BY <1>8, <2>1
<1>. QED BY <1>2, <1>7, <1>8, <1>9 DEF s, OneEach

LEMMA ReversedFrames ==
  ASSUME NEW s \in Seq(Frame)
  PROVE  /\ NewestFirst(s) \in Seq(Frame)
         /\ \A n \in DOMAIN NewestFirst(s) : \E m \in DOMAIN s : NewestFirst(s)[n] = s[m]
<1>1. Len(s) \in Nat /\ DOMAIN s = 1..Len(s) /\ s \in [1..Len(s) -> Frame]
  BY LenProperties
<1>2. \A n \in DOMAIN s : Len(s) + 1 - n \in DOMAIN s
  BY <1>1
<1>3. NewestFirst(s) \in [1..Len(s) -> Frame]
  BY <1>1, <1>2 DEF NewestFirst
<1>. QED BY <1>1, <1>2, <1>3, SeqOf DEF NewestFirst

\* The frames for a subscriber, in their order.
LEMMA ForIs ==
  ASSUME NEW E \in Seq(Frame), NEW st
  PROVE  /\ For(st, E) \in Seq(Frame)
         /\ Within(For(st, E), E)
         /\ \A n \in DOMAIN E : E[n].streams \cap st # {}
                                => \E m \in DOMAIN For(st, E) : For(st, E)[m] = E[n]
<1> DEFINE W == {n \in DOMAIN E : E[n].streams \cap st # {}}
           N == Cardinality(W)
           a == Ascending(W)
           s == For(st, E)
<1>1. Len(E) \in Nat /\ DOMAIN E = 1..Len(E) /\ E \in [1..Len(E) -> Frame]
  BY LenProperties
<1>2. W \in SUBSET Nat /\ IsFiniteSet(W)
  <2>0. IsFiniteSet(1..Len(E))
    BY <1>1, FS_Interval
  <2>1. IsFiniteSet(1..Len(E)) /\ W \in SUBSET (1..Len(E))
    BY <1>1, <2>0
  <2>2. IsFiniteSet(W)
    BY <2>1, FS_Subset
  <2>. QED BY <1>1, <2>1, <2>2
<1>3. /\ N \in Nat
      /\ \A n \in 1..N : a[n] \in W
      /\ \A i \in W : \E n \in 1..N : a[n] = i
      /\ \A m, n \in 1..N : m < n => a[m] < a[n]
  BY <1>2, AscendingLists
<1>4. s = [n \in 1..N |-> E[a[n]]]
  BY DEF For
<1> HIDE DEF a, s
<1>5. \A n \in 1..N : a[n] \in DOMAIN E
  BY <1>3
<1>6. s \in [1..N -> Frame]
  BY <1>1, <1>4, <1>5
<1> HIDE DEF N
<1>7. s \in Seq(Frame) /\ DOMAIN s = 1..N
  BY <1>3, <1>6, SeqOf
<1>8. Within(s, E)
  <2> DEFINE f == [n \in 1..N |-> a[n]]
  <2>1. f \in [DOMAIN s -> DOMAIN E]
    BY <1>5, <1>7
  <2>2. \A n \in DOMAIN s : s[n] = E[f[n]]
    BY <1>4, <1>7
  <2>3. \A m, n \in DOMAIN s : m < n => f[m] < f[n]
    BY <1>3, <1>7
  <2>. QED BY <2>1, <2>2, <2>3 DEF Within
<1>9. \A n \in W : \E m \in DOMAIN s : s[m] = E[n]
  BY <1>3, <1>4, <1>7
<1>. QED BY <1>7, <1>8, <1>9 DEF s

\* Publishing to a queue q the events E: what the queue does not hold was
\* dropped.
Rest(fr, e) == \/ \E m \in DOMAIN Offer(fr) : Offer(fr)[m] = e
               \/ \E m \in 1..Excess(fr) : fr[m] = e
LEMMA OfferIs ==
  ASSUME NEW fr \in Seq(Frame)
  PROVE  /\ Offer(fr) \in Seq(Frame) /\ Len(Offer(fr)) <= QueueSize
         /\ Within(Offer(fr), fr)
         /\ \A n \in DOMAIN fr : Rest(fr, fr[n])
         /\ 1..Excess(fr) \subseteq DOMAIN fr
<1> DEFINE x == Excess(fr)
           k == Len(fr) - x
           s == Offer(fr)
<1>1. Len(fr) \in Nat /\ DOMAIN fr = 1..Len(fr) /\ fr \in [1..Len(fr) -> Frame]
  BY LenProperties
<1>2. x \in Nat /\ k \in Nat /\ x + k = Len(fr) /\ k <= QueueSize
  BY <1>1, LimitsAssumption DEF Excess
<1>3. s = [n \in 1..k |-> fr[x + n]]
  BY DEF Offer
<1> HIDE DEF s, x, k
<1>4. \A n \in 1..k : x + n \in DOMAIN fr
  BY <1>1, <1>2
<1>5. s \in [1..k -> Frame]
  BY <1>1, <1>3, <1>4
<1>6. s \in Seq(Frame) /\ Len(s) = k /\ DOMAIN s = 1..k
  BY <1>2, <1>5, SeqOf
<1>7. Within(s, fr)
  <2> DEFINE f == [n \in 1..k |-> x + n]
  <2>1. f \in [DOMAIN s -> DOMAIN fr]
    BY <1>4, <1>6
  <2>2. \A n \in DOMAIN s : s[n] = fr[f[n]]
    BY <1>3, <1>6
  <2>3. \A m, n \in DOMAIN s : m < n => f[m] < f[n]
    BY <1>2, <1>6
  <2>. QED BY <2>1, <2>2, <2>3 DEF Within
<1>8. ASSUME NEW n \in DOMAIN fr
      PROVE  (\E m \in DOMAIN s : s[m] = fr[n]) \/ (\E m \in 1..x : fr[m] = fr[n])
  <2>1. CASE n <= x
    <3>1. n \in 1..x
      BY <1>1, <1>2, <2>1
    <3>. QED BY <3>1
  <2>2. CASE ~(n <= x)
    <3>1. n - x \in 1..k /\ x + (n - x) = n
      BY <1>1, <1>2, <2>2
    <3>2. s[n - x] = fr[n]
      BY <1>3, <3>1
    <3>. QED BY <1>6, <3>1, <3>2
  <2>. QED BY <2>1, <2>2
<1>9. 1..x \subseteq DOMAIN fr
  BY <1>1, <1>2
<1>. QED BY <1>2, <1>6, <1>7, <1>8, <1>9 DEF s, x, Rest

LEMMA OfferedAre ==
  ASSUME NEW q \in Seq(Frame), NEW E \in Seq(Frame), NEW st
  PROVE  LET fr == q \o For(st, E)
         IN  /\ fr \in Seq(Frame)
             /\ Offer(fr) \in Seq(Frame) /\ Len(Offer(fr)) <= QueueSize
             /\ Within(Offer(fr), q \o E)
             /\ \A n \in DOMAIN q : Rest(fr, q[n])
             /\ \A n \in DOMAIN E : E[n].streams \cap st # {} => Rest(fr, E[n])
             /\ 1..Excess(fr) \subseteq DOMAIN fr
<1> DEFINE F == For(st, E)
           fr == q \o F
           all == q \o E
<1>1. /\ F \in Seq(Frame) /\ Within(F, E)
      /\ \A n \in DOMAIN E : E[n].streams \cap st # {}
                             => \E m \in DOMAIN F : F[m] = E[n]
  BY ForIs
<1>2. /\ fr \in Seq(Frame) /\ all \in Seq(Frame)
      /\ Len(q) \in Nat /\ DOMAIN q = 1..Len(q)
      /\ Len(F) \in Nat /\ DOMAIN F = 1..Len(F)
      /\ Len(E) \in Nat /\ DOMAIN E = 1..Len(E)
      /\ DOMAIN fr = 1..(Len(q) + Len(F))
      /\ DOMAIN all = 1..(Len(q) + Len(E))
      /\ \A n \in DOMAIN q : n \in DOMAIN fr /\ fr[n] = q[n]
      /\ \A n \in DOMAIN F : Len(q) + n \in DOMAIN fr /\ fr[Len(q) + n] = F[n]
      /\ \A n \in DOMAIN fr : \/ n \in DOMAIN q /\ fr[n] = q[n]
                              \/ n > Len(q) /\ n - Len(q) \in DOMAIN F /\ fr[n] = F[n - Len(q)]
      /\ \A n \in DOMAIN q : n \in DOMAIN all /\ all[n] = q[n]
      /\ \A n \in DOMAIN E : Len(q) + n \in DOMAIN all /\ all[Len(q) + n] = E[n]
  BY <1>1, Joined
<1> HIDE DEF F
<1>3. PICK f \in [DOMAIN F -> DOMAIN E] :
             /\ \A n \in DOMAIN F : F[n] = E[f[n]]
             /\ \A m, n \in DOMAIN F : m < n => f[m] < f[n]
  BY <1>1 DEF Within
<1> HIDE DEF fr, all
<1>4. Within(fr, all)
  <2> DEFINE g == [n \in DOMAIN fr |-> IF n \in DOMAIN q THEN n ELSE Len(q) + f[n - Len(q)]]
  <2>1. \A n \in DOMAIN fr : n \notin DOMAIN q =>
           /\ n > Len(q) /\ n - Len(q) \in DOMAIN F /\ fr[n] = F[n - Len(q)]
           /\ f[n - Len(q)] \in DOMAIN E
    BY <1>2, <1>3
  <2>2. \A n \in DOMAIN fr : g[n] \in DOMAIN all /\ fr[n] = all[g[n]]
    <3> SUFFICES ASSUME NEW n \in DOMAIN fr
                 PROVE  g[n] \in DOMAIN all /\ fr[n] = all[g[n]]
      OBVIOUS
    <3>1. CASE n \in DOMAIN q
      BY <1>2, <3>1
    <3>2. CASE n \notin DOMAIN q
      <4> DEFINE d == n - Len(q)
      <4>1. d \in DOMAIN F /\ fr[n] = F[d] /\ f[d] \in DOMAIN E /\ F[d] = E[f[d]]
        BY <1>3, <2>1, <3>2
      <4>2. g[n] = Len(q) + f[d]
        BY <3>2
      <4> HIDE DEF d, g
      <4>. QED BY <1>2, <4>1, <4>2
    <3>. QED BY <3>1, <3>2
  <2>3. \A m, n \in DOMAIN fr : m < n => g[m] < g[n]
    <3> SUFFICES ASSUME NEW m \in DOMAIN fr, NEW n \in DOMAIN fr, m < n
                 PROVE  g[m] < g[n]
      OBVIOUS
    <3>1. CASE n \in DOMAIN q
      BY <1>2, <3>1
    <3>2. CASE m \in DOMAIN q /\ n \notin DOMAIN q
      <4>1. f[n - Len(q)] \in DOMAIN E
        BY <2>1, <3>2
      <4>2. g[n] = Len(q) + f[n - Len(q)] /\ g[m] = m
        BY <3>2
      <4> DEFINE v == f[n - Len(q)]
      <4> HIDE DEF v, g
      <4>. QED BY <1>2, <3>2, <4>1, <4>2 DEF v
    <3>3. CASE m \notin DOMAIN q /\ n \notin DOMAIN q
      <4> DEFINE c == m - Len(q)
                 d == n - Len(q)
      <4>1. c \in DOMAIN F /\ d \in DOMAIN F /\ c < d
        BY <1>2, <2>1, <3>3
      <4>2. f[c] < f[d] /\ f[c] \in DOMAIN E /\ f[d] \in DOMAIN E
        BY <1>3, <4>1
      <4>3. g[m] = Len(q) + f[c] /\ g[n] = Len(q) + f[d]
        BY <3>3
      <4> DEFINE v == f[c]
                 w == f[d]
      <4> HIDE DEF c, d, g
      <4>4. v \in Nat /\ w \in Nat /\ v < w
        <5>1. \A k \in DOMAIN E : k \in Nat
          BY <1>2
        <5>. QED BY <4>2, <5>1
      <4>5. g[m] = Len(q) + v /\ g[n] = Len(q) + w
        BY <4>3
      <4> HIDE DEF v, w
      <4>. QED BY <1>2, <4>4, <4>5
    <3>. QED BY <1>2, <3>1, <3>2, <3>3
  <2>4. g \in [DOMAIN fr -> DOMAIN all]
    BY <2>2
  <2> HIDE DEF g
  <2>. QED BY <2>2, <2>3, <2>4 DEF Within
<1>5. /\ Offer(fr) \in Seq(Frame) /\ Len(Offer(fr)) <= QueueSize
      /\ Within(Offer(fr), fr)
      /\ \A n \in DOMAIN fr : Rest(fr, fr[n])
      /\ 1..Excess(fr) \subseteq DOMAIN fr
  BY <1>2, OfferIs
<1>6. Within(Offer(fr), all)
  BY <1>4, <1>5, WithinTwice
<1>7. \A n \in DOMAIN q : Rest(fr, q[n])
  BY <1>2, <1>5
<1>8. \A n \in DOMAIN E : E[n].streams \cap st # {} => Rest(fr, E[n])
  <2> SUFFICES ASSUME NEW n \in DOMAIN E, E[n].streams \cap st # {}
               PROVE  Rest(fr, E[n])
    OBVIOUS
  <2>1. PICK m \in DOMAIN F : F[m] = E[n]
    BY <1>1
  <2>2. Len(q) + m \in DOMAIN fr /\ fr[Len(q) + m] = E[n]
    BY <1>2, <2>1
  <2>. QED BY <1>5, <2>2
<1>. QED BY <1>2, <1>5, <1>6, <1>7, <1>8 DEF fr, all, F

-----------------------------------------------------------------------------
(* Types.                                                                  *)

LEMMA StreamsAre ==
  ASSUME NEW i \in Rows, NEW A \in SUBSET Stream
  PROVE  StreamsOf(i, A) \in SUBSET Stream
<1>1. Classify(i, A) \subseteq Stream
  BY DEF Classify, Stream
<1>2. ListHits(i, A) \subseteq Stream
  BY DEF ListHits
<1>. QED BY <1>1, <1>2 DEF StreamsOf

\* Who is subscribed to more streams is not shown less.
LEMMA StreamsGrow ==
  ASSUME NEW i, NEW A, NEW B, A \subseteq B
  PROVE  StreamsOf(i, A) \subseteq StreamsOf(i, B)
<1>1. Classify(i, A) \subseteq Classify(i, B)
  BY DEF Classify
<1>2. ListHits(i, A) \subseteq ListHits(i, B)
  BY DEF ListHits
<1>. QED BY <1>1, <1>2 DEF StreamsOf

LEMMA ActiveIs ==
  ASSUME TypeInv
  PROVE  /\ Active \in SUBSET Stream
         /\ \A c \in Registered : sub[c].streams \subseteq Active
<1>1. \A c \in Clients : sub[c].streams \in SUBSET Stream
  BY DEF TypeInv, SubType, SocketType
<1>. QED BY <1>1 DEF Active, Registered

\* What a query of a table returns: the oldest of what it asks for.
LEMMA NewIs ==
  ASSUME TypeInv, NEW t \in Pumps, NEW b \in Boxes
  PROVE  /\ New(t, b) \in SUBSET Rows
         /\ \A i \in New(t, b) : BoxOf(i) = b /\ i > pump[t].ask /\ row[i].state # "none"
         /\ \A i \in InBox(b) \ New(t, b), j \in New(t, b) : i > pump[t].ask => j < i
<1> DEFINE S == {i \in InBox(b) : i > pump[t].ask}
<1>1. S \in SUBSET Rows /\ InBox(b) \subseteq Rows
  BY DEF InBox
<1>2. S \in SUBSET Nat /\ IsFiniteSet(S)
  BY <1>1, RowsAreNumbers
<1>3. New(t, b) = Oldest(S, FetchLimit) /\ FetchLimit \in Nat
  BY LimitsAssumption DEF New
<1>4. Oldest(S, FetchLimit) \subseteq S
  BY DEF Oldest
<1>5. \A i \in S : BoxOf(i) = b /\ i > pump[t].ask /\ row[i].state # "none"
  BY DEF InBox, Exists
<1>6. ASSUME NEW i \in InBox(b) \ New(t, b), NEW j \in New(t, b), i > pump[t].ask
      PROVE  j < i
  <2>1. i \in S /\ i \notin Oldest(S, FetchLimit) /\ j \in Oldest(S, FetchLimit)
    BY <1>3, <1>6
  <2> HIDE DEF S
  <2>. QED BY <1>2, <1>3, <2>1, OldestFirst
<1>. QED BY <1>1, <1>3, <1>4, <1>5, <1>6

LEMMA AdvancedIs ==
  ASSUME TypeInv, NEW t \in Pumps, NEW b \in Boxes
  PROVE  LET new == New(t, b)
             c == Advanced(b, new)
         IN  /\ c \in [Boxes -> Nat]
             /\ \A x \in Boxes \ {b} : c[x] = cursor[x]
             /\ new = {} => c[b] = cursor[b]
             /\ new # {} => c[b] \in new /\ \A i \in new : i <= c[b]
             /\ \A x \in Boxes : Known(c[x])
<1> DEFINE new == New(t, b)
           c == Advanced(b, new)
<1>1. cursor \in [Boxes -> Nat] /\ \A x \in Boxes : Known(cursor[x])
  BY DEF TypeInv, HubType
<1>2. c = [cursor EXCEPT ![b] = IF new = {} THEN @ ELSE Max(new)]
  BY DEF Advanced
<1>3. new \in SUBSET Rows /\ \A i \in new : row[i].state # "none"
  BY NewIs
<1>4. new \in SUBSET Nat /\ IsFiniteSet(new)
  BY <1>3, RowsAreNumbers
<1> HIDE DEF new
<1>5. new # {} => Max(new) \in new /\ \A i \in new : Max(new) >= i
  BY <1>4, MaxIsIn
<1>6. /\ c \in [Boxes -> Nat]
      /\ \A x \in Boxes \ {b} : c[x] = cursor[x]
      /\ new = {} => c[b] = cursor[b]
      /\ new # {} => c[b] = Max(new)
  BY <1>1, <1>2, <1>4, <1>5
<1> HIDE DEF c
<1>7. new # {} => c[b] \in new /\ \A i \in new : i <= c[b]
  BY <1>4, <1>5, <1>6
<1>8. \A x \in Boxes : Known(c[x])
  BY <1>1, <1>3, <1>4, <1>6, <1>7 DEF Known
<1>. QED BY <1>6, <1>7, <1>8 DEF new, c

\* The tables: rows come, change and go, one after the other.
LEMMA TableStep ==
  ASSUME TypeInv, [Next]_vars
  PROVE  /\ TableType'
         /\ \A i \in Rows : row[i].state # "none" => row'[i].state # "none"
         /\ \A i \in Rows : row[i].state = "deleted" => row'[i].state = "deleted"
         /\ \A n : Known(n) => Known(n)'
         /\ \/ UNCHANGED tables
            \/ \E i \in Rows : Write(i)
<1>. USE DEF TypeInv, TableType
<1>1. ASSUME NEW i \in Rows, Write(i)
      PROVE  /\ TableType'
             /\ \A x \in Rows : row[x].state # "none" => row'[x].state # "none"
             /\ \A x \in Rows : row[x].state = "deleted" => row'[x].state = "deleted"
  <2>0. MaxChanges \in Nat
    BY LimitsAssumption
  <2>1. CASE Insert(i)
    BY <2>1 DEF Insert
  <2>2. CASE Edit(i)
    BY <2>0, <2>2 DEF Edit
  <2>3. CASE Delete(i)
    BY <2>0, <2>3 DEF Delete
  <2>4. CASE Prune(i)
    BY <2>0, <2>4 DEF Prune
  <2>. QED BY <1>1, <2>1, <2>2, <2>3, <2>4 DEF Write
<1>2. ASSUME NEW t \in Pumps, Pump(t) \/ TickFails(t)
      PROVE  UNCHANGED tables
  BY <1>2 DEF Pump, TickFails, Wake, NewStatuses, StatusEvents, NotificationEvents,
              EditEvents, Publish
<1>3. ASSUME NEW c \in Clients, Socket(c)
      PROVE  UNCHANGED tables
  BY <1>3 DEF Socket, Connect, Register, Seed, SeedFails, Send, Leave, Unregister,
              Subscribe, Unsubscribe
<1>4. UNCHANGED vars => UNCHANGED tables
  BY DEF vars
<1>5. UNCHANGED tables \/ \E i \in Rows : Write(i)
  BY <1>2, <1>3, <1>4 DEF Next
<1>6. /\ TableType'
      /\ \A x \in Rows : row[x].state # "none" => row'[x].state # "none"
      /\ \A x \in Rows : row[x].state = "deleted" => row'[x].state = "deleted"
  BY <1>1, <1>5 DEF tables
<1>7. \A n : Known(n) => Known(n)'
  BY <1>6 DEF Known
<1>. QED BY <1>5, <1>6, <1>7

\* What does not move the cursors, or the tracked rows.
LEMMA HubQuiet ==
  ASSUME TypeInv, [Next]_vars
  PROVE  /\ \/ UNCHANGED cursor
            \/ \E t \in Pumps : NewStatuses(t) \/ NotificationEvents(t)
            \/ \E c \in Clients : Seed(c)
         /\ \/ UNCHANGED tracked
            \/ \E t \in Pumps : StatusEvents(t) \/ EditEvents(t)
            \/ \E c \in Clients : Seed(c)
<1>1. ASSUME NEW i \in Rows, Write(i)
      PROVE  UNCHANGED <<cursor, tracked>>
  BY <1>1 DEF Write, Insert, Edit, Delete, Prune, hub
<1>2. ASSUME NEW t \in Pumps, Pump(t) \/ TickFails(t)
      PROVE  /\ UNCHANGED cursor \/ NewStatuses(t) \/ NotificationEvents(t)
             /\ UNCHANGED tracked \/ StatusEvents(t) \/ EditEvents(t)
  BY <1>2 DEF Pump, TickFails, Wake, NewStatuses, StatusEvents, NotificationEvents,
              EditEvents, Publish, hub
<1>3. ASSUME NEW c \in Clients, Socket(c)
      PROVE  UNCHANGED <<cursor, tracked>> \/ Seed(c)
  BY <1>3 DEF Socket, Connect, Register, SeedFails, Send, Leave, Unregister,
              Subscribe, Unsubscribe, hub
<1>4. UNCHANGED vars => UNCHANGED <<cursor, tracked>>
  BY DEF vars, hub
<1>. QED BY <1>1, <1>2, <1>3, <1>4 DEF Next

LEMMA CursorStep ==
  ASSUME TypeInv, [Next]_vars
  PROVE  cursor' \in [Boxes -> Nat] /\ \A b \in Boxes : Known(cursor[b])'
<1>1. \A n : Known(n) => Known(n)'
  BY TableStep
<1>2. cursor \in [Boxes -> Nat] /\ \A b \in Boxes : Known(cursor[b])
  BY DEF TypeInv, HubType
<1>3. CASE UNCHANGED cursor
  BY <1>1, <1>2, <1>3 DEF Known
<1>4. ASSUME NEW t \in Pumps, NEW b \in Boxes, cursor' = Advanced(b, New(t, b))
      PROVE  cursor' \in [Boxes -> Nat] /\ \A x \in Boxes : Known(cursor[x])'
  <2>1. cursor' \in [Boxes -> Nat] /\ \A x \in Boxes : Known(Advanced(b, New(t, b))[x])
    BY <1>4, AdvancedIs
  <2>2. \A x \in Boxes : row'[x] = row'[x] /\ Known(cursor'[x])
    BY <1>4, <2>1
  <2>. QED BY <1>1, <2>1, <2>2 DEF Known
<1>5. ASSUME NEW t \in Pumps, NewStatuses(t)
      PROVE  \E b \in Boxes : cursor' = Advanced(b, New(t, b))
  BY <1>5 DEF NewStatuses, Boxes, Tracking
<1>6. ASSUME NEW t \in Pumps, NotificationEvents(t)
      PROVE  \E b \in Boxes : cursor' = Advanced(b, New(t, b))
  BY <1>6 DEF NotificationEvents, Boxes
<1>7. ASSUME NEW c \in Clients, Seed(c)
      PROVE  cursor' \in [Boxes -> Nat] /\ \A b \in Boxes : Known(cursor[b])'
  <2>1. cursor' = [b \in Boxes |-> Largest(InBox(b))] /\ row' = row
    BY <1>7 DEF Seed, tables
  <2>2. ASSUME NEW b \in Boxes
        PROVE  Known(Largest(InBox(b)))
    <3>1. InBox(b) \in SUBSET Rows
      BY DEF InBox
    <3>2. Largest(InBox(b)) \in InBox(b) \cup {0}
      BY <3>1, RowsAreNumbers, LargestIs
    <3>3. \A i \in InBox(b) : i \in Nat /\ i \in Rows /\ row[i].state # "none"
      BY <3>1, RowsAreNumbers DEF InBox, Exists
    <3>. QED BY <3>2, <3>3 DEF Known
  <2>3. \A b \in Boxes : Largest(InBox(b)) \in Nat
    BY <2>2 DEF Known
  <2>. QED BY <2>1, <2>2, <2>3 DEF Known
<1>. QED BY <1>3, <1>4, <1>5, <1>6, <1>7, HubQuiet

\* What the three actions that write the tracked rows leave of them.
LEMMA SeedsAre ==
  ASSUME TypeInv
  PROVE  /\ DOMAIN Seeds \subseteq {i \in Rows : BoxOf(i) \in Tracking}
         /\ \A i \in DOMAIN Seeds : /\ Seeds[i] \in Mark
                                    /\ row[i].state \in {"live", "deleted"}
                                    /\ i \in InBox(BoxOf(i))
                                    /\ Seeds[i].gone <=> row[i].state = "deleted"
         /\ \A b \in Tracking : Cardinality(TrackedIn(DOMAIN Seeds, b)) <= SeedTrack
<1> DEFINE N(b) == Newest(InBox(b), SeedTrack)
           kept == N("inbox") \cup N("outbox")
<1>1. \A b \in Tracking : /\ N(b) \subseteq InBox(b) /\ IsFiniteSet(N(b))
                          /\ Cardinality(N(b)) <= SeedTrack
  <2> SUFFICES ASSUME NEW b \in Tracking
               PROVE  /\ N(b) \subseteq InBox(b) /\ IsFiniteSet(N(b))
                      /\ Cardinality(N(b)) <= SeedTrack
    OBVIOUS
  <2>1. InBox(b) \in SUBSET Nat /\ IsFiniteSet(InBox(b))
    BY RowsAreNumbers DEF InBox
  <2>2. SeedTrack \in Nat
    BY LimitsAssumption
  <2>3. N(b) \subseteq InBox(b) /\ Cardinality(N(b)) <= SeedTrack
    BY <2>1, <2>2, NewestBound
  <2>. QED BY <2>1, <2>3, FS_Subset
<1>2. \A b \in Tracking : \A i \in InBox(b) :
        i \in Rows /\ BoxOf(i) = b /\ row[i].state \in {"live", "deleted"}
  BY DEF InBox, Exists
<1> HIDE DEF N
<1>3. Seeds = [i \in kept |-> [gone |-> row[i].state = "deleted", rev |-> row[i].rev]]
  BY DEF Seeds, N
<1>4. \A i \in kept : i \in Rows /\ BoxOf(i) \in Tracking /\ i \in InBox(BoxOf(i))
                      /\ row[i].state \in {"live", "deleted"}
  BY <1>1, <1>2 DEF Tracking
<1>5. \A i \in kept : row[i].rev \in Nat
  BY <1>4 DEF TypeInv, TableType
<1>6. \A i \in kept : Seeds[i] \in Mark /\ (Seeds[i].gone <=> row[i].state = "deleted")
  BY <1>3, <1>5 DEF Mark
<1>7. ASSUME NEW b \in Tracking
      PROVE  Cardinality(TrackedIn(DOMAIN Seeds, b)) <= SeedTrack
  <2>1. TrackedIn(DOMAIN Seeds, b) \subseteq N(b)
    BY <1>1, <1>2, <1>3 DEF TrackedIn, Tracking
  <2>2. Cardinality(TrackedIn(DOMAIN Seeds, b)) <= Cardinality(N(b))
    BY <1>1, <2>1, FS_Subset
  <2>3. Cardinality(TrackedIn(DOMAIN Seeds, b)) \in Nat /\ Cardinality(N(b)) \in Nat
        /\ SeedTrack \in Nat
    BY <1>1, <2>1, FS_Subset, FS_CardinalityType, LimitsAssumption
  <2>. QED BY <1>1, <2>2, <2>3
<1>8. DOMAIN Seeds = kept
  BY <1>3
<1> HIDE DEF kept
<1>. QED BY <1>4, <1>6, <1>7, <1>8

Shown(t) == {i \in pump[t].ids : Visible(i)}
All(t) == Shown(t) \cup DOMAIN tracked
Kept(t) == Keep(All(t), "inbox", TrackLimit) \cup Keep(All(t), "outbox", TrackLimit)
Sent(t) == {i \in Shown(t) : StreamsOf(i, Active) # {}}

LEMMA KeptAre ==
  ASSUME TypeInv, NEW t \in Pumps
  PROVE  /\ Kept(t) \subseteq All(t) /\ All(t) \subseteq Rows
         /\ \A i \in Kept(t) : BoxOf(i) \in Tracking
         /\ \A b \in Tracking : Cardinality(TrackedIn(Kept(t), b)) <= TrackLimit
<1>1. All(t) \in SUBSET Rows
  BY DEF All, Shown, TypeInv, PumpType, Tick, HubType
<1> DEFINE K(b) == Keep(All(t), b, TrackLimit)
<1>2. \A b \in Tracking : /\ K(b) \subseteq TrackedIn(All(t), b) /\ IsFiniteSet(K(b))
                          /\ Cardinality(K(b)) <= TrackLimit
  <2> SUFFICES ASSUME NEW b \in Tracking
               PROVE  /\ K(b) \subseteq TrackedIn(All(t), b) /\ IsFiniteSet(K(b))
                      /\ Cardinality(K(b)) <= TrackLimit
    OBVIOUS
  <2>1. TrackedIn(All(t), b) \in SUBSET Rows
    BY <1>1 DEF TrackedIn
  <2>2. TrackedIn(All(t), b) \in SUBSET Nat /\ IsFiniteSet(TrackedIn(All(t), b))
    BY <2>1, RowsAreNumbers
  <2>3. TrackLimit \in Nat
    BY LimitsAssumption
  <2>4. K(b) \subseteq TrackedIn(All(t), b) /\ Cardinality(K(b)) <= TrackLimit
    BY <2>2, <2>3, NewestBound DEF Keep
  <2>. QED BY <2>2, <2>4, FS_Subset
<1> HIDE DEF K
<1>3. Kept(t) = K("inbox") \cup K("outbox")
  BY DEF Kept, K
<1>4. \A b \in Tracking : \A i \in K(b) : i \in All(t) /\ BoxOf(i) = b
  BY <1>2 DEF TrackedIn
<1>5. ASSUME NEW b \in Tracking
      PROVE  Cardinality(TrackedIn(Kept(t), b)) <= TrackLimit
  <2>1. TrackedIn(Kept(t), b) \subseteq K(b)
    BY <1>3, <1>4 DEF TrackedIn, Tracking
  <2>2. Cardinality(TrackedIn(Kept(t), b)) <= Cardinality(K(b))
    BY <1>2, <2>1, FS_Subset
  <2>3. Cardinality(TrackedIn(Kept(t), b)) \in Nat /\ Cardinality(K(b)) \in Nat
        /\ TrackLimit \in Nat
    BY <1>2, <2>1, FS_Subset, FS_CardinalityType, LimitsAssumption
  <2>. QED BY <1>2, <2>2, <2>3
<1>6. \A i \in Kept(t) : i \in All(t) /\ BoxOf(i) \in Tracking
  BY <1>3, <1>4 DEF Tracking
<1>. QED BY <1>1, <1>5, <1>6

\* The sets of one step of _edit_and_delete_events.
Seen(t) == {i \in pump[t].keys : Exists(i)}
Unknown(t) == Seen(t) \ DOMAIN tracked
Done(t) == {i \in Seen(t) : \A j \in Unknown(t) : i < j}
Removed(t) == {i \in Done(t) : row[i].state = "deleted" /\ ~tracked[i].gone}
Changed(t) == {i \in Done(t) \ Removed(t) : row[i].rev # tracked[i].rev /\ Visible(i)}
NextKeys(b) == IF b = "inbox" THEN TrackedIn(DOMAIN tracked, "outbox") ELSE {}
KeptEdits(t, b) ==
  {i \in DOMAIN tracked : BoxOf(i) # b}
    \cup (IF Unknown(t) = {} THEN Done(t) \ Removed(t)
          ELSE TrackedIn(DOMAIN tracked, b) \ Removed(t))

\* Edits, written with these.
LEMMA EditsDo ==
  ASSUME TypeInv, NEW t \in Pumps, NEW b \in Tracking, Edits(t, b)
  PROVE  /\ DOMAIN tracked' = KeptEdits(t, b)
         /\ \A i \in KeptEdits(t, b) :
              i \in DOMAIN tracked /\ tracked'[i].gone = tracked[i].gone /\ tracked'[i] \in Mark
         /\ lost' = lost \cup Clients \X ({i \in DOMAIN tracked : i \notin KeptEdits(t, b)
                                                                  /\ i \notin Removed(t)}
                                   \cup IF Unknown(t) = {} THEN {} ELSE Holds(t) \cup Seen(t))
         /\ Unknown(t) # {} => pump' = [pump EXCEPT ![t] = [Asleep EXCEPT !.stop = pump[t].stop]]
         /\ Unknown(t) = {} => pump' = [pump EXCEPT ![t] = [pump[t] EXCEPT
                !.pc = IF NextKeys(b) = {} THEN "publish" ELSE "edits:outbox",
                !.all = IF NextKeys(b) = {} THEN {} ELSE @,
                !.keys = NextKeys(b),
                !.events = @ \o Events("delete", Removed(t), [i \in Removed(t) |-> pump[t].all])
                             \o Events("status.update", Changed(t),
                                       [i \in Changed(t) |-> StreamsOf(i, Active)])]]
<1> DEFINE K == KeptEdits(t, b)
<1>1. /\ DOMAIN tracked \subseteq Rows
      /\ \A i \in DOMAIN tracked : tracked[i] \in Mark
      /\ \A i \in Rows : row[i].rev \in Nat
  BY DEF TypeInv, HubType, TableType
<1>2. Done(t) \subseteq Seen(t) /\ (Unknown(t) = {} => Done(t) \subseteq DOMAIN tracked)
  BY DEF Done, Unknown
<1>3. K \subseteq DOMAIN tracked
  BY <1>2 DEF KeptEdits, TrackedIn
<1>4. tracked' = [i \in K |-> IF i \in Done(t) THEN [tracked[i] EXCEPT !.rev = row[i].rev]
                              ELSE tracked[i]]
  BY DEF Edits, KeptEdits, Done, Unknown, Seen, Removed
<1>5. lost' = lost \cup Clients \X ({i \in DOMAIN tracked : i \notin K /\ i \notin Removed(t)}
                                   \cup IF Unknown(t) = {} THEN {} ELSE Holds(t) \cup Seen(t))
  BY DEF Edits, KeptEdits, Done, Unknown, Seen, Removed
<1>6. Unknown(t) # {} => pump' = [pump EXCEPT ![t] = [Asleep EXCEPT !.stop = pump[t].stop]]
  BY DEF Edits, Set, Unknown, Seen
<1>7. Unknown(t) = {} => pump' = [pump EXCEPT ![t] = [pump[t] EXCEPT
                !.pc = IF NextKeys(b) = {} THEN "publish" ELSE "edits:outbox",
                !.all = IF NextKeys(b) = {} THEN {} ELSE @,
                !.keys = NextKeys(b),
                !.events = @ \o Events("delete", Removed(t), [i \in Removed(t) |-> pump[t].all])
                             \o Events("status.update", Changed(t),
                                       [i \in Changed(t) |-> StreamsOf(i, Active)])]]
  BY DEF Edits, Set, Done, Unknown, Seen, Removed, Changed, NextKeys
<1> HIDE DEF K
<1>8. \A i \in K : i \in DOMAIN tracked /\ tracked'[i].gone = tracked[i].gone
                   /\ tracked'[i] \in Mark
  BY <1>1, <1>3, <1>4 DEF Mark
<1>9. DOMAIN tracked' = K
  BY <1>4
<1>. QED BY <1>5, <1>6, <1>7, <1>8, <1>9 DEF K

\* What is no longer tracked was removed, or may be missed.
LEMMA EditsLeave ==
  ASSUME TypeInv, NEW t \in Pumps, NEW b \in Tracking, Edits(t, b), NEW c \in Clients
  PROVE  /\ \A i : i \in DOMAIN tracked' <=> i \in KeptEdits(t, b)
         /\ \A i \in KeptEdits(t, b) : i \in DOMAIN tracked /\ tracked'[i].gone = tracked[i].gone
         /\ \A i \in DOMAIN tracked : i \notin KeptEdits(t, b) /\ i \notin Removed(t)
                                      => <<c, i>> \in lost'
         /\ Unknown(t) # {} => \A i \in Holds(t) \cup Seen(t) : <<c, i>> \in lost'
<1>1. /\ \A i : i \in DOMAIN tracked' <=> i \in KeptEdits(t, b)
      /\ \A i \in KeptEdits(t, b) : i \in DOMAIN tracked /\ tracked'[i].gone = tracked[i].gone
  BY EditsDo
<1> DEFINE S == {i \in DOMAIN tracked : i \notin KeptEdits(t, b) /\ i \notin Removed(t)}
           U == IF Unknown(t) = {} THEN {} ELSE Holds(t) \cup Seen(t)
<1>2. lost' = lost \cup Clients \X (S \cup U)
  BY EditsDo
<1>3. \A i \in S \cup U : <<c, i>> \in lost'
  BY <1>2
<1>. QED BY <1>1, <1>3

\* The tracked rows stay few, and what is on record of them is.
LEMMA TrackedStep ==
  ASSUME TypeInv, WindowInv, [Next]_vars
  PROVE  /\ DOMAIN tracked' \subseteq {i \in Rows : BoxOf(i) \in Tracking}
         /\ \A i \in DOMAIN tracked' : tracked'[i] \in Mark
         /\ WindowInv'
<1>0. /\ Window \in Nat /\ SeedTrack <= Window /\ TrackLimit <= Window
      /\ SeedTrack \in Nat /\ TrackLimit \in Nat
  <2>1. SeedTrack \in Nat /\ TrackLimit \in Nat
    BY LimitsAssumption
  <2>. QED BY <2>1, MaxOfTwo DEF Window
<1>1. /\ DOMAIN tracked \subseteq {i \in Rows : BoxOf(i) \in Tracking}
      /\ \A i \in DOMAIN tracked : tracked[i] \in Mark
      /\ \A i \in Rows : row[i].rev \in Nat
  BY DEF TypeInv, HubType, TableType
<1>2. CASE UNCHANGED tracked
  BY <1>1, <1>2 DEF WindowInv
<1>3. ASSUME NEW t \in Pumps, StatusEvents(t)
      PROVE  /\ DOMAIN tracked' \subseteq {i \in Rows : BoxOf(i) \in Tracking}
             /\ \A i \in DOMAIN tracked' : tracked'[i] \in Mark
             /\ WindowInv'
  <2>1. tracked' = [i \in Kept(t) |-> IF i \in Shown(t) THEN [gone |-> FALSE, rev |-> row[i].rev]
                                      ELSE tracked[i]]
    BY <1>3 DEF StatusEvents, Kept, All, Shown
  <2>2. /\ Kept(t) \subseteq All(t) /\ All(t) \subseteq Rows
        /\ \A i \in Kept(t) : BoxOf(i) \in Tracking
        /\ \A b \in Tracking : Cardinality(TrackedIn(Kept(t), b)) <= TrackLimit
        /\ \A b \in Tracking : Cardinality(TrackedIn(Kept(t), b)) \in Nat
    <3>1. \A b \in Tracking : TrackedIn(Kept(t), b) \in SUBSET Rows
      BY KeptAre DEF TrackedIn
    <3>2. \A b \in Tracking : Cardinality(TrackedIn(Kept(t), b)) \in Nat
      BY <3>1, RowsAreNumbers, FS_CardinalityType
    <3>. QED BY <3>2, KeptAre
  <2>3. \A i \in Kept(t) : i \notin Shown(t) => i \in DOMAIN tracked
    BY <2>2 DEF All
  <2>4. \A i \in Kept(t) : tracked'[i] \in Mark
    BY <1>1, <2>1, <2>2, <2>3 DEF Mark
  <2>5. DOMAIN tracked' = Kept(t)
    BY <2>1
  <2>6. WindowInv'
    BY <1>0, <2>2, <2>5 DEF WindowInv, TrackedIn, Window
  <2>. QED BY <2>2, <2>4, <2>5, <2>6
<1>4. ASSUME NEW t \in Pumps, EditEvents(t)
      PROVE  /\ DOMAIN tracked' \subseteq {i \in Rows : BoxOf(i) \in Tracking}
             /\ \A i \in DOMAIN tracked' : tracked'[i] \in Mark
             /\ WindowInv'
  <2>1. PICK b \in Tracking : Edits(t, b)
    BY <1>4 DEF EditEvents
  <2>2. /\ DOMAIN tracked' \subseteq DOMAIN tracked
        /\ \A i \in DOMAIN tracked' : tracked'[i] \in Mark
    BY <2>1, EditsDo
  <2>3. ASSUME NEW x \in Tracking
        PROVE  Cardinality(TrackedIn(DOMAIN tracked', x)) <= Window
    <3>1. TrackedIn(DOMAIN tracked', x) \subseteq TrackedIn(DOMAIN tracked, x)
      BY <2>2 DEF TrackedIn
    <3>2. TrackedIn(DOMAIN tracked, x) \in SUBSET Rows
      BY <1>1 DEF TrackedIn
    <3>3. IsFiniteSet(TrackedIn(DOMAIN tracked, x))
      BY <3>2, RowsAreNumbers
    <3>4. /\ Cardinality(TrackedIn(DOMAIN tracked', x)) <= Cardinality(TrackedIn(DOMAIN tracked, x))
          /\ IsFiniteSet(TrackedIn(DOMAIN tracked', x))
      BY <3>1, <3>3, FS_Subset
    <3>5. Cardinality(TrackedIn(DOMAIN tracked, x)) <= Window
      BY DEF WindowInv
    <3>6. Cardinality(TrackedIn(DOMAIN tracked', x)) \in Nat
          /\ Cardinality(TrackedIn(DOMAIN tracked, x)) \in Nat
      BY <3>3, <3>4, FS_CardinalityType
    <3>. QED BY <1>0, <3>4, <3>5, <3>6
  <2>. QED BY <1>1, <2>2, <2>3 DEF WindowInv, Window, TrackedIn
<1>5. ASSUME NEW c \in Clients, Seed(c)
      PROVE  /\ DOMAIN tracked' \subseteq {i \in Rows : BoxOf(i) \in Tracking}
             /\ \A i \in DOMAIN tracked' : tracked'[i] \in Mark
             /\ WindowInv'
  <2>1. tracked' = Seeds
    BY <1>5 DEF Seed
  <2>2. /\ DOMAIN Seeds \subseteq {i \in Rows : BoxOf(i) \in Tracking}
        /\ \A i \in DOMAIN Seeds : Seeds[i] \in Mark
        /\ \A b \in Tracking : Cardinality(TrackedIn(DOMAIN Seeds, b)) <= SeedTrack
    BY SeedsAre
  <2>3. \A b \in Tracking : TrackedIn(DOMAIN Seeds, b) \in SUBSET Rows
    BY <2>2 DEF TrackedIn
  <2>4. \A b \in Tracking : Cardinality(TrackedIn(DOMAIN Seeds, b)) \in Nat
    BY <2>3, RowsAreNumbers, FS_CardinalityType
  <2>5. \A b \in Tracking : Cardinality(TrackedIn(DOMAIN Seeds, b)) <= Window
    BY <1>0, <2>2, <2>4
  <2>6. WindowInv'
    BY <2>1, <2>5 DEF WindowInv, TrackedIn, Window
  <2>. QED BY <2>1, <2>2, <2>6
<1>. QED BY <1>2, <1>3, <1>4, <1>5, HubQuiet


-----------------------------------------------------------------------------
(* What each step of a task does to it.                                    *)

LEMMA SetIs ==
  ASSUME TypeInv, NEW t \in Pumps, NEW p, Set(t, p)
  PROVE  pump'[t] = p /\ DOMAIN pump' = Pumps /\ \A u \in Pumps \ {t} : pump'[u] = pump[u]
BY DEF TypeInv, PumpType, Set

LEMMA TickIs ==
  ASSUME TypeInv, NEW t \in Pumps
  PROVE  /\ pump[t] \in Tick /\ Known(pump[t].ask)
         /\ pump[t].stop \in BOOLEAN /\ pump[t].ask \in Nat /\ pump[t].ids \in SUBSET Rows
         /\ pump[t].keys \in SUBSET Rows /\ pump[t].all \in SUBSET Stream
         /\ pump[t].events \in Seq(Frame)
BY DEF TypeInv, PumpType, Tick

LEMMA SocketIs ==
  ASSUME TypeInv, NEW c \in Clients
  PROVE  /\ sub[c] \in SocketType /\ sub[c].streams \in SUBSET Stream
         /\ sub[c].queue \in Seq(Frame)
BY DEF TypeInv, SubType, SocketType

LEMMA IdleIs ==
  /\ <<>> \in Seq(Frame) /\ DOMAIN <<>> = {}
  /\ NoPump \in Tick /\ Asleep \in Tick
  /\ \A s \in BOOLEAN : [Asleep EXCEPT !.stop = s] \in Tick
<1>1. <<>> \in Seq(Frame) /\ Len(<<>>) = 0
  BY EmptySeq
<1>2. DOMAIN <<>> = {}
  BY <1>1, LenProperties
<1>3. NoPump \in Tick
  BY <1>1 DEF NoPump, Tick, Idle
<1>4. Asleep \in Tick
  BY <1>3 DEF Asleep, Tick, Idle
<1>5. \A s \in BOOLEAN : [Asleep EXCEPT !.stop = s] \in Tick
  BY <1>4 DEF Tick
<1>. QED BY <1>1, <1>2, <1>3, <1>4, <1>5

\* A task that starts over, or ends, holds nothing.
Empty(p) == /\ p \in Tick /\ p.pc \in Idle /\ p.ask = 0 /\ p.ids = {} /\ p.keys = {}
            /\ p.all = {} /\ p.events = <<>>
LEMMA EmptyIs ==
  /\ Empty(NoPump) /\ NoPump.pc = "done" /\ NoPump.stop = TRUE
  /\ Empty(Asleep) /\ Asleep.pc = "sleep" /\ Asleep.stop = FALSE
  /\ \A s \in BOOLEAN : LET p == [Asleep EXCEPT !.stop = s]
                        IN  Empty(p) /\ p.pc = "sleep" /\ p.stop = s
<1>1. Empty(NoPump) /\ NoPump.pc = "done" /\ NoPump.stop = TRUE
  BY IdleIs DEF NoPump, Empty, Idle
<1>2. /\ Asleep.ask = 0 /\ Asleep.ids = {} /\ Asleep.keys = {} /\ Asleep.all = {}
      /\ Asleep.events = <<>> /\ Asleep.pc = "sleep" /\ Asleep.stop = FALSE
  BY DEF NoPump, Asleep
<1>3. ASSUME NEW s \in BOOLEAN
      PROVE  LET p == [Asleep EXCEPT !.stop = s]
             IN  Empty(p) /\ p.pc = "sleep" /\ p.stop = s
  <2> DEFINE p == [Asleep EXCEPT !.stop = s]
  <2>1. p \in Tick
    BY IdleIs
  <2>2. /\ p.ask = 0 /\ p.ids = {} /\ p.keys = {} /\ p.all = {}
        /\ p.events = <<>> /\ p.pc = "sleep" /\ p.stop = s
    BY <1>2, IdleIs DEF Tick
  <2> HIDE DEF p
  <2>3. Empty(p) /\ p.pc = "sleep" /\ p.stop = s
    BY <2>1, <2>2 DEF Empty, Idle
  <2>. QED BY <2>3 DEF p
<1>. QED BY <1>1, <1>2, <1>3, IdleIs DEF Empty, Idle

LEMMA WakeDoes ==
  ASSUME TypeInv, NEW t \in Pumps, Wake(t)
  PROVE  /\ pump[t].pc = "sleep" /\ pump'[t] \in Tick
         /\ \A u \in Pumps \ {t} : pump'[u] = pump[u]
         /\ \/ /\ pump[t].stop /\ pump'[t] = NoPump
            \/ /\ ~pump[t].stop /\ pump'[t].pc = "inbox" /\ pump'[t].ask = cursor["inbox"]
               /\ pump'[t].stop = FALSE
               /\ pump'[t].ids = pump[t].ids /\ pump'[t].keys = pump[t].keys
               /\ pump'[t].all = pump[t].all /\ pump'[t].events = pump[t].events
<1> DEFINE p == [pump[t] EXCEPT !.pc = "inbox", !.ask = cursor["inbox"]]
<1>1. pump[t].pc = "sleep" /\ Set(t, IF pump[t].stop THEN NoPump ELSE p)
  BY DEF Wake
<1>2. /\ pump'[t] = IF pump[t].stop THEN NoPump ELSE p
      /\ \A u \in Pumps \ {t} : pump'[u] = pump[u]
  BY <1>1, SetIs
<1>3. cursor["inbox"] \in Nat
  BY DEF TypeInv, HubType, Known, Boxes, Tracking
<1>4. pump[t] \in Tick
  BY TickIs
<1>5. p \in Tick
  BY <1>3, <1>4 DEF Tick, Early
<1>6. /\ p.pc = "inbox" /\ p.ask = cursor["inbox"] /\ p.stop = pump[t].stop
      /\ p.ids = pump[t].ids /\ p.keys = pump[t].keys
      /\ p.all = pump[t].all /\ p.events = pump[t].events
  BY <1>4 DEF Tick
<1> HIDE DEF p
<1>7. pump[t].stop \in BOOLEAN
  BY TickIs
<1>. QED BY <1>1, <1>2, <1>5, <1>6, <1>7, IdleIs

LEMMA NewDoes ==
  ASSUME TypeInv, NEW t \in Pumps, NewStatuses(t)
  PROVE  LET b == pump[t].pc IN
         /\ b \in Tracking /\ pump'[t] \in Tick
         /\ \A u \in Pumps \ {t} : pump'[u] = pump[u]
         /\ cursor' = Advanced(b, New(t, b))
         /\ pump'[t].ids = pump[t].ids \cup New(t, b)
         /\ \/ b = "inbox" /\ pump'[t].pc = "outbox" /\ pump'[t].ask = cursor'["outbox"]
            \/ b = "outbox" /\ pump'[t].pc = "status" /\ pump'[t].ask = 0
         /\ pump'[t].stop = pump[t].stop /\ pump'[t].keys = pump[t].keys
         /\ pump'[t].all = pump[t].all /\ pump'[t].events = pump[t].events
<1> DEFINE b == pump[t].pc
           p == [pump[t] EXCEPT !.ids = @ \cup New(t, b),
                                !.pc = IF b = "inbox" THEN "outbox" ELSE "status",
                                !.ask = IF b = "inbox" THEN cursor'["outbox"] ELSE 0]
<1>1. b \in Tracking /\ b \in Boxes /\ cursor' = Advanced(b, New(t, b)) /\ Set(t, p)
  BY DEF NewStatuses, Boxes
<1>2. pump'[t] = p /\ \A u \in Pumps \ {t} : pump'[u] = pump[u]
  BY <1>1, SetIs
<1>3. cursor'["outbox"] \in Nat
  BY <1>1, AdvancedIs DEF Known, Boxes, Tracking
<1>4. pump[t] \in Tick /\ New(t, b) \in SUBSET Rows
  BY <1>1, TickIs, NewIs
<1>5. p \in Tick
  BY <1>1, <1>3, <1>4 DEF Tick, Early, Tracking
<1>6. /\ p.pc = (IF b = "inbox" THEN "outbox" ELSE "status")
      /\ p.ask = (IF b = "inbox" THEN cursor'["outbox"] ELSE 0)
      /\ p.ids = pump[t].ids \cup New(t, b)
      /\ p.stop = pump[t].stop /\ p.keys = pump[t].keys
      /\ p.all = pump[t].all /\ p.events = pump[t].events
  BY <1>4 DEF Tick
<1> HIDE DEF p
<1>. QED BY <1>1, <1>2, <1>5, <1>6 DEF Tracking

\* The updates: one for each row that is shown to anyone.
LEMMA StatusDoes ==
  ASSUME TypeInv, NEW t \in Pumps, StatusEvents(t)
  PROVE  LET s == pump'[t].events IN
         /\ pump[t].pc = "status" /\ pump'[t] \in Tick /\ pump'[t].pc = "notification"
         /\ pump'[t].ask = cursor["notification"]
         /\ \A u \in Pumps \ {t} : pump'[u] = pump[u]
         /\ pump'[t].stop = pump[t].stop /\ pump'[t].keys = pump[t].keys
         /\ pump'[t].all = pump[t].all /\ pump'[t].ids = pump[t].ids
         /\ \A n \in DOMAIN s : /\ s[n].event = "update" /\ s[n].id \in Sent(t)
                                /\ s[n].streams = StreamsOf(s[n].id, Active)
         /\ \A i \in Sent(t) : \E n \in DOMAIN s : s[n].id = i
         /\ Clean(s)
         /\ DOMAIN tracked' = Kept(t)
         /\ \A i \in Kept(t) : /\ i \in Shown(t) => ~tracked'[i].gone
                               /\ i \notin Shown(t) => tracked'[i] = tracked[i]
         /\ lost' = lost \cup Clients \X (All(t) \ Kept(t))
<1> DEFINE of == [i \in Sent(t) |-> StreamsOf(i, Active)]
           s == Events("update", Sent(t), of)
           p == [pump[t] EXCEPT !.events = s, !.pc = "notification",
                                !.ask = cursor["notification"]]
<1>1. pump[t].pc = "status" /\ Set(t, p)
  BY DEF StatusEvents, Sent, Shown
<1>2. pump'[t] = p /\ \A u \in Pumps \ {t} : pump'[u] = pump[u]
  BY <1>1, SetIs
<1>3. pump[t] \in Tick /\ pump[t].ids \in SUBSET Rows
  BY TickIs
<1>4. Sent(t) \in SUBSET Rows
  BY <1>3 DEF Sent, Shown
<1>5. \A i \in Sent(t) : of[i] \in SUBSET Stream
  <2>1. \A i \in Sent(t) : StreamsOf(i, Active) \in SUBSET Stream
    BY <1>4, StreamsAre, ActiveIs
  <2>. QED BY <2>1
<1> HIDE DEF of
<1>6. /\ s \in Seq(Frame)
      /\ \A n \in DOMAIN s : s[n].event = "update" /\ s[n].id \in Sent(t)
                             /\ s[n].streams = of[s[n].id]
      /\ \A i \in Sent(t) : \E n \in DOMAIN s : s[n].id = i
      /\ \A m, n \in DOMAIN s : m < n => s[m].id # s[n].id
  <2>1. OneEach(s, "update", Sent(t), of)
    BY <1>4, <1>5, NamesAre, EventsAre
  <2>. QED BY <2>1 DEF OneEach
<1> HIDE DEF s
<1>7. cursor["notification"] \in Nat
  BY DEF TypeInv, HubType, Known, Boxes
<1>8. p \in Tick
  BY <1>3, <1>6, <1>7 DEF Tick
<1>9. /\ p.pc = "notification" /\ p.ask = cursor["notification"] /\ p.events = s
      /\ p.stop = pump[t].stop /\ p.keys = pump[t].keys
      /\ p.all = pump[t].all /\ p.ids = pump[t].ids
  BY <1>3 DEF Tick
<1> HIDE DEF p
<1>10. Clean(s)
  BY <1>6 DEF Clean, Update, Deletion
<1>11. \A n \in DOMAIN s : s[n].streams = StreamsOf(s[n].id, Active)
  BY <1>6 DEF of
<1>12. tracked' = [i \in Kept(t) |-> IF i \in Shown(t) THEN [gone |-> FALSE, rev |-> row[i].rev]
                                     ELSE tracked[i]]
  BY DEF StatusEvents, Kept, All, Shown
<1>13. /\ DOMAIN tracked' = Kept(t)
       /\ \A i \in Kept(t) : /\ i \in Shown(t) => ~tracked'[i].gone
                             /\ i \notin Shown(t) => tracked'[i] = tracked[i]
  BY <1>12
<1>14. lost' = lost \cup Clients \X (All(t) \ Kept(t))
  BY DEF StatusEvents, Kept, All, Shown
<1>15. pump'[t].events = s
  BY <1>2, <1>9
<1>. QED BY <1>1, <1>2, <1>6, <1>8, <1>9, <1>10, <1>11, <1>13, <1>14, <1>15

LEMMA FramesJoined ==
  ASSUME NEW s \in Seq(Frame), NEW t \in Seq(Frame), NEW u \in Seq(Frame)
  PROVE  s \o t \o u = s \o (t \o u)
BY ConcatAssociative

\* Frames that are no updates, after those there are.
NoUpdates(s) == \A n \in DOMAIN s : s[n].event # "update"
LEMMA LaterFrames ==
  ASSUME NEW s \in Seq(Frame), NEW x \in Seq(Frame), NoUpdates(x)
  PROVE  /\ s \o x \in Seq(Frame)
         /\ Clean(s) => Clean(s \o x)
         /\ \A i : Has(s \o x, i) <=> Has(s, i)
         /\ \A i : Ends(s \o x, i) <=> Ends(s, i) \/ Ends(x, i)
         /\ \A n \in DOMAIN s : \E m \in DOMAIN (s \o x) : (s \o x)[m] = s[n]
         /\ \A n \in DOMAIN (s \o x) : \/ \E m \in DOMAIN s : (s \o x)[n] = s[m]
                                       \/ \E m \in DOMAIN x : (s \o x)[n] = x[m]
<1>1. s \o x \in Seq(Frame)
  BY Joined
<1>2. Clean(x) /\ \A i : ~Has(x, i)
  BY DEF NoUpdates, Clean, Has, Update
<1>3. Clean(s) => Clean(s \o x)
  BY <1>2, CleanJoined DEF NoUpdates
<1>4. \A i : /\ Has(s \o x, i) <=> Has(s, i)
             /\ Ends(s \o x, i) <=> Ends(s, i) \/ Ends(x, i)
  BY <1>2, HasJoined
<1>5. \A n \in DOMAIN s : n \in DOMAIN (s \o x) /\ (s \o x)[n] = s[n]
  BY Joined
<1>6. \A n \in DOMAIN (s \o x) :
        \/ n \in DOMAIN s /\ (s \o x)[n] = s[n]
        \/ n > Len(s) /\ n - Len(s) \in DOMAIN x /\ (s \o x)[n] = x[n - Len(s)]
  BY Joined
<1> DEFINE sx == s \o x
<1> HIDE DEF sx
<1>7. \A n \in DOMAIN s : \E m \in DOMAIN sx : sx[m] = s[n]
  BY <1>5 DEF sx
<1>8. \A n \in DOMAIN sx : \/ \E m \in DOMAIN s : sx[n] = s[m]
                           \/ \E m \in DOMAIN x : sx[n] = x[m]
  BY <1>6 DEF sx
<1>. QED BY <1>1, <1>3, <1>4, <1>7, <1>8 DEF sx

\* The events of conversations.
LEMMA DirectAre ==
  ASSUME TypeInv, NEW ids \in SUBSET Rows
  PROVE  /\ DirectEvents(ids) \in Seq(Frame)
         /\ \A n \in DOMAIN DirectEvents(ids) : DirectEvents(ids)[n].event = "conversation"
<1> DEFINE begun == {j \in ids : row[j].state = "live" /\ Post[j].thread # NoThread}
           last == {Max(Thread(Post[i].thread)) : i \in begun}
           of == [i \in last |-> {"direct"}]
           s == Events("conversation", last, of)
<1>1. \A i \in begun : Max(Thread(Post[i].thread)) \in Rows
  <2> SUFFICES ASSUME NEW i \in begun
               PROVE  Max(Thread(Post[i].thread)) \in Rows
    OBVIOUS
  <2>1. i \in Thread(Post[i].thread) /\ Thread(Post[i].thread) \in SUBSET Rows
    BY DEF Thread
  <2>2. Thread(Post[i].thread) \in SUBSET Nat /\ IsFiniteSet(Thread(Post[i].thread))
    BY <2>1, RowsAreNumbers
  <2>3. Max(Thread(Post[i].thread)) \in Thread(Post[i].thread)
    BY <2>1, <2>2, MaxIsIn
  <2>. QED BY <2>1, <2>3
<1>2. last \in SUBSET Rows
  BY <1>1
<1>3. \A i \in last : of[i] \in SUBSET Stream
  BY DEF Stream
<1> HIDE DEF last, of
<1>4. s \in Seq(Frame) /\ \A n \in DOMAIN s : s[n].event = "conversation"
  <2>1. OneEach(s, "conversation", last, of)
    BY <1>2, <1>3, NamesAre, EventsAre
  <2>. QED BY <2>1 DEF OneEach
<1>5. DirectEvents(ids) = IF "direct" \in Active THEN NewestFirst(s) ELSE <<>>
  BY DEF DirectEvents, last, of
<1> HIDE DEF s
<1>6. /\ NewestFirst(s) \in Seq(Frame)
      /\ \A n \in DOMAIN NewestFirst(s) : NewestFirst(s)[n].event = "conversation"
  BY <1>4, ReversedFrames
<1>. QED BY <1>5, <1>6, IdleIs

LEMMA NotifyDoes ==
  ASSUME TypeInv, NEW t \in Pumps, NotificationEvents(t)
  PROVE  /\ pump[t].pc = "notification" /\ pump'[t] \in Tick
         /\ \A u \in Pumps \ {t} : pump'[u] = pump[u]
         /\ cursor' = Advanced("notification", New(t, "notification"))
         /\ pump'[t].stop = pump[t].stop /\ pump'[t].ids = {} /\ pump'[t].ask = 0
         /\ pump'[t].all = Active
         /\ \/ Active = {} /\ pump'[t].pc = "publish"
            \/ Active # {} /\ pump'[t].pc = "edits:inbox"
         /\ \E x \in Seq(Frame) :
              /\ \A n \in DOMAIN x : x[n].event \notin {"update", "delete"}
              /\ pump'[t].events = pump[t].events \o x
<1> DEFINE shown == {i \in New(t, "notification") : Visible(i)}
           of == [i \in shown |-> {"user", "user:notification"}]
           y == Events("notification", shown, of)
           z == DirectEvents(pump[t].ids)
           p == [pump[t] EXCEPT !.events = @ \o y \o z,
                   !.ids = {}, !.ask = 0, !.all = Active,
                   !.keys = TrackedIn(DOMAIN tracked, "inbox"),
                   !.pc = IF Active = {} THEN "publish" ELSE "edits:inbox"]
<1>1. /\ pump[t].pc = "notification" /\ Set(t, p)
      /\ cursor' = Advanced("notification", New(t, "notification"))
  BY DEF NotificationEvents
<1>2. pump'[t] = p /\ \A u \in Pumps \ {t} : pump'[u] = pump[u]
  BY <1>1, SetIs
<1>3. /\ pump[t] \in Tick /\ pump[t].ids \in SUBSET Rows /\ pump[t].events \in Seq(Frame)
      /\ New(t, "notification") \in SUBSET Rows
  BY TickIs, NewIs DEF Boxes
<1>4. \A i \in shown : of[i] \in SUBSET Stream /\ shown \in SUBSET Rows
  BY <1>3 DEF Stream
<1> HIDE DEF of, shown
<1>5. y \in Seq(Frame) /\ \A n \in DOMAIN y : y[n].event = "notification"
  <2>1. OneEach(y, "notification", shown, of)
    BY <1>4, NamesAre, EventsAre
  <2>. QED BY <2>1 DEF OneEach
<1>6. z \in Seq(Frame) /\ \A n \in DOMAIN z : z[n].event = "conversation"
  BY <1>3, DirectAre
<1> HIDE DEF y, z
<1> DEFINE x == y \o z
<1>7. x \in Seq(Frame)
  BY <1>5, <1>6, Joined
<1>8. \A n \in DOMAIN x : x[n].event \notin {"update", "delete"}
  <2>1. \A n \in DOMAIN x : \/ n \in DOMAIN y /\ x[n] = y[n]
                            \/ n > Len(y) /\ n - Len(y) \in DOMAIN z /\ x[n] = z[n - Len(y)]
    BY <1>5, <1>6, Joined
  <2> HIDE DEF x
  <2>. QED BY <1>5, <1>6, <2>1
<1>9. pump[t].events \o y \o z = pump[t].events \o x
  <2> DEFINE ev == pump[t].events
  <2>1. ev \in Seq(Frame)
    BY <1>3
  <2> HIDE DEF ev
  <2>2. ev \o y \o z = ev \o (y \o z)
    BY <1>5, <1>6, <2>1, FramesJoined
  <2>. QED BY <2>2 DEF ev
<1>10. pump[t].events \o y \o z \in Seq(Frame)
  BY <1>3, <1>7, <1>9, Joined
<1>11. Active \in SUBSET Stream /\ TrackedIn(DOMAIN tracked, "inbox") \in SUBSET Rows
  BY ActiveIs DEF TrackedIn, TypeInv, HubType
<1>12. p \in Tick
  BY <1>3, <1>10, <1>11 DEF Tick, EditPcs
<1>13. /\ p.pc = (IF Active = {} THEN "publish" ELSE "edits:inbox")
       /\ p.ids = {} /\ p.ask = 0 /\ p.all = Active
       /\ p.events = pump[t].events \o y \o z /\ p.stop = pump[t].stop
  BY <1>3 DEF Tick
<1> HIDE DEF p, x
<1>14. pump'[t].events = pump[t].events \o x
  BY <1>2, <1>9, <1>13
<1>. QED BY <1>1, <1>2, <1>7, <1>8, <1>12, <1>13, <1>14

\* A step of _edit_and_delete_events: it ends the tick, or finds all it asked
\* for, and tells of what was deleted.
LEMMA EditDoes ==
  ASSUME TypeInv, NEW t \in Pumps, NEW b \in Tracking, pump[t].pc = EditsOf[b], Edits(t, b)
  PROVE  /\ pump'[t] \in Tick
         /\ \A u \in Pumps \ {t} : pump'[u] = pump[u]
         /\ \/ /\ Unknown(t) # {} /\ Empty(pump'[t]) /\ pump'[t].pc = "sleep"
               /\ pump'[t].stop = pump[t].stop
            \/ /\ Unknown(t) = {}
               /\ pump'[t].stop = pump[t].stop /\ pump'[t].ids = pump[t].ids
               /\ pump'[t].ask = pump[t].ask
               /\ \/ pump'[t].pc = "publish" /\ pump'[t].all = {}
                  \/ pump'[t].pc = "edits:outbox" /\ pump'[t].all = pump[t].all
               /\ \E x \in Seq(Frame) :
                    /\ NoUpdates(x)
                    /\ \A n \in DOMAIN x : x[n].event = "delete"
                         => x[n].id \in Removed(t) /\ x[n].streams = pump[t].all
                    /\ \A i \in Removed(t) : Ends(x, i)
                    /\ pump'[t].events = pump[t].events \o x
<1>1. /\ pump[t] \in Tick /\ pump[t].stop \in BOOLEAN /\ pump[t].events \in Seq(Frame)
      /\ pump[t].keys \in SUBSET Rows /\ pump[t].all \in SUBSET Stream
  BY TickIs
<1>2. CASE Unknown(t) # {}
  <2> DEFINE p == [Asleep EXCEPT !.stop = pump[t].stop]
  <2>1. pump' = [pump EXCEPT ![t] = p]
    BY <1>2, EditsDo
  <2>2. pump'[t] = p /\ \A u \in Pumps \ {t} : pump'[u] = pump[u]
    BY <2>1, SetIs DEF Set
  <2>3. Empty(p) /\ p.pc = "sleep" /\ p.stop = pump[t].stop
    BY <1>1, EmptyIs
  <2> HIDE DEF p
  <2>. QED BY <1>2, <2>2, <2>3 DEF Empty
<1>3. CASE Unknown(t) = {}
  <2> DEFINE of == [i \in Removed(t) |-> pump[t].all]
             og == [i \in Changed(t) |-> StreamsOf(i, Active)]
             y == Events("delete", Removed(t), of)
             z == Events("status.update", Changed(t), og)
             p == [pump[t] EXCEPT
                     !.pc = IF NextKeys(b) = {} THEN "publish" ELSE "edits:outbox",
                     !.all = IF NextKeys(b) = {} THEN {} ELSE @,
                     !.keys = NextKeys(b),
                     !.events = @ \o y \o z]
  <2>1. pump' = [pump EXCEPT ![t] = p]
    BY <1>3, EditsDo
  <2>2. pump'[t] = p /\ \A u \in Pumps \ {t} : pump'[u] = pump[u]
    BY <2>1, SetIs DEF Set
  <2>3. Removed(t) \in SUBSET Rows /\ Changed(t) \in SUBSET Rows
    BY <1>1 DEF Removed, Changed, Done, Seen
  <2>4. \A i \in Removed(t) : of[i] \in SUBSET Stream
    BY <1>1
  <2>5. \A i \in Changed(t) : og[i] \in SUBSET Stream
    <3>1. \A i \in Changed(t) : StreamsOf(i, Active) \in SUBSET Stream
      BY <2>3, StreamsAre, ActiveIs
    <3>. QED BY <3>1
  <2> HIDE DEF of, og
  <2>6. /\ y \in Seq(Frame)
        /\ \A n \in DOMAIN y : y[n].event = "delete" /\ y[n].id \in Removed(t)
                               /\ y[n].streams = of[y[n].id]
        /\ \A i \in Removed(t) : \E n \in DOMAIN y : y[n].id = i
    <3>1. OneEach(y, "delete", Removed(t), of)
      BY <2>3, <2>4, NamesAre, EventsAre
    <3>. QED BY <3>1 DEF OneEach
  <2>7. z \in Seq(Frame) /\ \A n \in DOMAIN z : z[n].event = "status.update"
    <3>1. OneEach(z, "status.update", Changed(t), og)
      BY <2>3, <2>5, NamesAre, EventsAre
    <3>. QED BY <3>1 DEF OneEach
  <2> HIDE DEF y, z
  <2>8. \A n \in DOMAIN y : y[n].streams = pump[t].all
    BY <2>6 DEF of
  <2> DEFINE x == y \o z
  <2>9. x \in Seq(Frame)
    BY <2>6, <2>7, Joined
  <2>10. pump[t].events \o y \o z = pump[t].events \o x
    <3> DEFINE ev == pump[t].events
    <3>1. ev \in Seq(Frame)
      BY <1>1
    <3> HIDE DEF ev
    <3>2. ev \o y \o z = ev \o (y \o z)
      BY <2>6, <2>7, <3>1, FramesJoined
    <3>. QED BY <3>2 DEF ev
  <2>11. pump[t].events \o y \o z \in Seq(Frame)
    BY <1>1, <2>9, <2>10, Joined
  <2>12. NextKeys(b) \in SUBSET Rows
    BY DEF NextKeys, TrackedIn, TypeInv, HubType
  <2>13. p \in Tick
    BY <1>1, <2>11, <2>12 DEF Tick, EditPcs
  <2>14. /\ p.pc = (IF NextKeys(b) = {} THEN "publish" ELSE "edits:outbox")
         /\ p.all = (IF NextKeys(b) = {} THEN {} ELSE pump[t].all)
         /\ p.ids = pump[t].ids /\ p.ask = pump[t].ask
         /\ p.events = pump[t].events \o y \o z /\ p.stop = pump[t].stop
    BY <1>1 DEF Tick
  <2> HIDE DEF p
  <2>15. \A n \in DOMAIN x : \/ n \in DOMAIN y /\ x[n] = y[n]
                             \/ n > Len(y) /\ n - Len(y) \in DOMAIN z /\ x[n] = z[n - Len(y)]
    BY <2>6, <2>7, Joined
  <2>16. \A n \in DOMAIN y : n \in DOMAIN x /\ x[n] = y[n]
    BY <2>6, <2>7, Joined
  <2> HIDE DEF x
  <2>17. /\ NoUpdates(x)
         /\ \A n \in DOMAIN x : x[n].event = "delete"
              => x[n].id \in Removed(t) /\ x[n].streams = pump[t].all
    BY <2>6, <2>7, <2>8, <2>15 DEF NoUpdates
  <2>18. \A i \in Removed(t) : Ends(x, i)
    BY <2>6, <2>16 DEF Ends, Deletion
  <2>19. pump'[t].events = pump[t].events \o x
    BY <2>2, <2>10, <2>14
  <2>. QED BY <1>3, <2>2, <2>9, <2>13, <2>14, <2>17, <2>18, <2>19
<1>. QED BY <1>2, <1>3

LEMMA PublishDoes ==
  ASSUME TypeInv, NEW t \in Pumps, Publish(t)
  PROVE  /\ pump[t].pc = "publish" /\ Empty(pump'[t]) /\ pump'[t].pc = "sleep"
         /\ pump'[t].stop = pump[t].stop
         /\ \A u \in Pumps \ {t} : pump'[u] = pump[u]
<1> DEFINE p == [Asleep EXCEPT !.stop = pump[t].stop]
<1>1. pump[t].pc = "publish" /\ Set(t, p)
  BY DEF Publish
<1>2. pump'[t] = p /\ \A u \in Pumps \ {t} : pump'[u] = pump[u]
  BY <1>1, SetIs
<1>3. Empty(p) /\ p.pc = "sleep" /\ p.stop = pump[t].stop
  BY TickIs, EmptyIs
<1> HIDE DEF p
<1>. QED BY <1>1, <1>2, <1>3

LEMMA FailDoes ==
  ASSUME TypeInv, NEW t \in Pumps, TickFails(t)
  PROVE  /\ Empty(pump'[t])
         /\ \/ pump'[t].pc = "sleep" /\ pump'[t].stop = pump[t].stop
            \/ pump'[t] = NoPump /\ pump[t].stop
         /\ \A u \in Pumps \ {t} : pump'[u] = pump[u]
<1> DEFINE p == [Asleep EXCEPT !.stop = pump[t].stop]
<1>1. Empty(p) /\ p.pc = "sleep" /\ p.stop = pump[t].stop
  BY TickIs, EmptyIs
<1>2. Set(t, p) \/ (pump[t].stop /\ Set(t, NoPump))
  BY DEF TickFails
<1>3. CASE Set(t, p)
  <2>1. pump'[t] = p /\ \A u \in Pumps \ {t} : pump'[u] = pump[u]
    BY <1>3, SetIs
  <2> HIDE DEF p
  <2>. QED BY <1>1, <2>1
<1>4. CASE pump[t].stop /\ Set(t, NoPump)
  <2>1. pump'[t] = NoPump /\ \A u \in Pumps \ {t} : pump'[u] = pump[u]
    BY <1>4, SetIs
  <2>. QED BY <1>4, <2>1, EmptyIs
<1>. QED BY <1>2, <1>3, <1>4

LEMMA SeedDoes ==
  ASSUME TypeInv, NEW c \in Clients, NEW t \in Pumps, Set(t, Asleep)
  PROVE  /\ pump'[t] = Asleep
         /\ \A u \in Pumps \ {t} : pump'[u] = pump[u]
BY SetIs

LEMMA StopDoes ==
  ASSUME TypeInv, task \in Pumps, Set(task, [pump[task] EXCEPT !.stop = TRUE])
  PROVE  /\ pump'[task] \in Tick /\ pump'[task].stop = TRUE
         /\ pump'[task].pc = pump[task].pc /\ pump'[task].ask = pump[task].ask
         /\ pump'[task].ids = pump[task].ids /\ pump'[task].keys = pump[task].keys
         /\ pump'[task].all = pump[task].all /\ pump'[task].events = pump[task].events
         /\ \A u \in Pumps \ {task} : pump'[u] = pump[u]
<1> DEFINE p == [pump[task] EXCEPT !.stop = TRUE]
<1>1. pump'[task] = p /\ \A u \in Pumps \ {task} : pump'[u] = pump[u]
  BY SetIs
<1>2. pump[task] \in Tick
  BY TickIs
<1>3. p \in Tick
  BY <1>2 DEF Tick
<1>4. /\ p.stop = TRUE /\ p.pc = pump[task].pc /\ p.ask = pump[task].ask
      /\ p.ids = pump[task].ids /\ p.keys = pump[task].keys
      /\ p.all = pump[task].all /\ p.events = pump[task].events
  BY <1>2 DEF Tick
<1> HIDE DEF p
<1>. QED BY <1>1, <1>3, <1>4

\* Who moves a task: it does, the client that starts it, or the one that stops it.
Starts(c, t) == Seed(c) /\ ~Running(t) /\ task' = t /\ Set(t, Asleep)
Stops(c) == /\ Unregister(c) /\ Registered = {c} /\ task \in Pumps /\ task' = NoTask
            /\ Set(task, [pump[task] EXCEPT !.stop = TRUE])
LEMMA PumpMoves ==
  ASSUME TypeInv, [Next]_vars
  PROVE  \/ UNCHANGED <<pump, task>>
         \/ \E t \in Pumps : (Pump(t) \/ TickFails(t)) /\ UNCHANGED task
         \/ \E c \in Clients, t \in Pumps : Starts(c, t)
         \/ \E c \in Clients : Stops(c)
<1>1. ASSUME NEW i \in Rows, Write(i)
      PROVE  UNCHANGED <<pump, task>>
  BY <1>1 DEF Write, Insert, Edit, Delete, Prune, hub
<1>2. ASSUME NEW t \in Pumps, Pump(t) \/ TickFails(t)
      PROVE  UNCHANGED task
  BY <1>2 DEF Pump, TickFails, Wake, NewStatuses, StatusEvents, NotificationEvents,
              EditEvents, Publish, hub
<1>3. ASSUME NEW c \in Clients, Socket(c)
      PROVE  \/ UNCHANGED <<pump, task>>
             \/ \E t \in Pumps : Starts(c, t)
             \/ Stops(c)
  <2>1. CASE Seed(c)
    BY <2>1 DEF Seed, Starts
  <2>2. CASE Unregister(c)
    <3>1. task \in Pumps \cup {NoTask}
      BY DEF TypeInv, HubType
    <3>. QED BY <2>2, <3>1 DEF Unregister, Stops
  <2>3. CASE ~Seed(c) /\ ~Unregister(c)
    BY <1>3, <2>3 DEF Socket, Connect, Register, SeedFails, Send, Leave,
                      Subscribe, Unsubscribe, hub
  <2>. QED BY <2>1, <2>2, <2>3
<1>4. UNCHANGED vars => UNCHANGED <<pump, task>>
  BY DEF vars, hub
<1>. QED BY <1>1, <1>2, <1>3, <1>4 DEF Next

\* Every step of a task sets it.
LEMMA PumpSets ==
  ASSUME NEW t \in Pumps, Pump(t) \/ TickFails(t)
  PROVE  \E p : Set(t, p)
<1>1. CASE EditEvents(t)
  BY <1>1 DEF EditEvents, Edits
<1>2. CASE NotificationEvents(t)
  BY <1>2 DEF NotificationEvents
<1>3. CASE StatusEvents(t)
  BY <1>3 DEF StatusEvents
<1>4. CASE NewStatuses(t)
  BY <1>4 DEF NewStatuses
<1>5. CASE Wake(t)
  BY <1>5 DEF Wake
<1>6. CASE Publish(t)
  BY <1>6 DEF Publish
<1>7. CASE TickFails(t)
  BY <1>7 DEF TickFails
<1>. QED BY <1>1, <1>2, <1>3, <1>4, <1>5, <1>6, <1>7 DEF Pump

LEMMA TickStep ==
  ASSUME TypeInv, [Next]_vars, NEW t \in Pumps, Pump(t) \/ TickFails(t)
  PROVE  /\ pump'[t] \in Tick
         /\ \A u \in Pumps \ {t} : pump'[u] = pump[u]
         /\ \/ pump'[t].ask \in {0, pump[t].ask}
            \/ \E b \in Boxes : pump'[t].ask \in {cursor[b], cursor'[b]}
         /\ \/ pump'[t].stop = pump[t].stop /\ pump'[t].pc # "done"
            \/ pump'[t] = NoPump /\ pump[t].stop
<1>0. "inbox" \in Boxes /\ "outbox" \in Boxes /\ "notification" \in Boxes
  BY DEF Boxes, Tracking
<1>9. pump[t].stop \in BOOLEAN
  BY TickIs
<1>1. CASE EditEvents(t)
  <2>1. PICK b \in Tracking : pump[t].pc = EditsOf[b] /\ Edits(t, b)
    BY <1>1 DEF EditEvents
  <2>. QED BY <2>1, EditDoes DEF Empty
<1>2. CASE NotificationEvents(t)
  BY <1>2, NotifyDoes
<1>3. CASE StatusEvents(t)
  BY <1>0, <1>3, StatusDoes
<1>4. CASE NewStatuses(t)
  BY <1>0, <1>4, NewDoes
<1>5. CASE Wake(t)
  BY <1>0, <1>5, <1>9, WakeDoes, EmptyIs DEF Empty
<1>6. CASE Publish(t)
  BY <1>6, PublishDoes DEF Empty
<1>7. CASE TickFails(t)
  BY <1>7, FailDoes DEF Empty
<1>. QED BY <1>1, <1>2, <1>3, <1>4, <1>5, <1>6, <1>7 DEF Pump

LEMMA PumpStep ==
  ASSUME TypeInv, [Next]_vars
  PROVE  PumpType' /\ task' \in Pumps \cup {NoTask}
<1> DEFINE Still(n) == n \in Nat /\ (n = 0 \/ (n \in Rows /\ row'[n].state # "none"))
<1>1. /\ pump \in [Pumps -> Tick] /\ \A t \in Pumps : pump[t] \in Tick /\ Known(pump[t].ask)
      /\ task \in Pumps \cup {NoTask} /\ \A b \in Boxes : Known(cursor[b])
  BY DEF TypeInv, PumpType, HubType
<1>2. /\ \A n : Known(n) => Still(n)
      /\ \A b \in Boxes : Still(cursor'[b])
  BY TableStep, CursorStep DEF Known
<1>3. Still(0)
  OBVIOUS
<1>4. \A u : Known(pump[u].ask)' <=> Still(pump'[u].ask)
  BY DEF Known
<1> HIDE DEF Still
<1>5. CASE UNCHANGED <<pump, task>>
  <2>1. \A t \in Pumps : Still(pump'[t].ask)
    BY <1>1, <1>2, <1>5
  <2>. QED BY <1>1, <1>4, <1>5, <2>1 DEF PumpType
<1>6. ASSUME NEW t \in Pumps, NEW p, Set(t, p), p \in Tick, Still(p.ask)
      PROVE  PumpType'
  <2>1. pump' = [pump EXCEPT ![t] = p]
    BY <1>6 DEF Set
  <2>2. pump' \in [Pumps -> Tick]
    BY <1>1, <1>6, <2>1
  <2>3. pump'[t] = p /\ \A u \in Pumps \ {t} : pump'[u] = pump[u]
    BY <1>6, SetIs
  <2>4. \A u \in Pumps : Still(pump'[u].ask)
    BY <1>1, <1>2, <1>6, <2>3
  <2>. QED BY <1>4, <2>2, <2>4 DEF PumpType
<1>7. CASE \E t \in Pumps : (Pump(t) \/ TickFails(t)) /\ UNCHANGED task
  <2>1. PICK t \in Pumps : (Pump(t) \/ TickFails(t)) /\ UNCHANGED task
    BY <1>7
  <2>2. PICK p : Set(t, p)
    BY <2>1, PumpSets
  <2>3. pump'[t] = p
    BY <2>2, SetIs
  <2>4. /\ p \in Tick
        /\ \/ p.ask \in {0, pump[t].ask}
           \/ \E b \in Boxes : p.ask \in {cursor[b], cursor'[b]}
    BY <2>1, <2>3, TickStep
  <2>5. Still(p.ask)
    BY <1>1, <1>2, <1>3, <2>4
  <2>. QED BY <1>1, <1>6, <2>1, <2>2, <2>4, <2>5
<1>8. CASE \E c \in Clients, t \in Pumps : Starts(c, t)
  <2>1. PICK c \in Clients, t \in Pumps : Set(t, Asleep) /\ task' = t
    BY <1>8 DEF Starts
  <2>2. Asleep \in Tick /\ Asleep.ask = 0
    BY EmptyIs DEF Empty
  <2>. QED BY <1>3, <1>6, <2>1, <2>2
<1>9. CASE \E c \in Clients : Stops(c)
  <2>1. task \in Pumps /\ task' = NoTask /\ Set(task, [pump[task] EXCEPT !.stop = TRUE])
    BY <1>9 DEF Stops
  <2> DEFINE p == [pump[task] EXCEPT !.stop = TRUE]
  <2>2. pump'[task] = p
    BY <2>1, SetIs
  <2>3. p \in Tick /\ p.ask = pump[task].ask
    BY <2>1, <2>2, StopDoes
  <2>4. Set(task, p)
    BY <2>1
  <2> HIDE DEF p
  <2>5. Still(p.ask)
    BY <1>1, <1>2, <2>1, <2>3
  <2>. QED BY <1>6, <2>1, <2>3, <2>4, <2>5
<1>. QED BY <1>5, <1>7, <1>8, <1>9, PumpMoves

-----------------------------------------------------------------------------
(* What each step of a client does to it.                                  *)

LEMMA SocketSets ==
  ASSUME TypeInv, NEW c \in Clients, NEW s, s \in SocketType, sub' = [sub EXCEPT ![c] = s]
  PROVE  /\ sub'[c] = s /\ sub' \in [Clients -> SocketType]
         /\ \A d \in Clients \ {c} : sub'[d] = sub[d]
BY DEF TypeInv, SubType

LEMMA SocketDoes ==
  ASSUME TypeInv, NEW c \in Clients, Socket(c)
  PROVE  /\ sub' \in [Clients -> SocketType]
         /\ \A d \in Clients \ {c} : sub'[d] = sub[d]
         /\ \/ Connect(c) /\ sub'[c].pc = "waiting" /\ sub'[c].streams = First[c]
               /\ sub'[c].queue = <<>>
            \/ Register(c) /\ sub'[c].pc = (IF task = NoTask THEN "seeding" ELSE "in")
               /\ sub'[c].streams = sub[c].streams /\ sub'[c].queue = sub[c].queue
            \/ Seed(c) /\ sub'[c].pc = "in"
               /\ sub'[c].streams = sub[c].streams /\ sub'[c].queue = sub[c].queue
            \/ SeedFails(c) /\ sub'[c].pc = "leaked"
               /\ sub'[c].streams = sub[c].streams /\ sub'[c].queue = sub[c].queue
            \/ Send(c) /\ sub'[c].pc = "in"
               /\ sub'[c].streams = sub[c].streams /\ sub'[c].queue = Tail(sub[c].queue)
            \/ Leave(c) /\ sub'[c].pc = "leaving"
               /\ sub'[c].streams = sub[c].streams /\ sub'[c].queue = sub[c].queue
            \/ Unregister(c) /\ sub'[c].pc = "out" /\ sub'[c].streams = {}
               /\ sub'[c].queue = <<>>
            \/ \E k \in Wanted[c] : /\ Subscribe(c, k) /\ sub'[c].pc = "in"
                 /\ sub'[c].streams = sub[c].streams \cup {k} /\ sub'[c].queue = sub[c].queue
            \/ \E k \in sub[c].streams : /\ Unsubscribe(c, k) /\ sub'[c].pc = "in"
                 /\ sub'[c].streams = sub[c].streams \ {k} /\ sub'[c].queue = sub[c].queue
<1>0. /\ sub[c] \in SocketType /\ sub[c].streams \in SUBSET Stream
      /\ sub[c].queue \in Seq(Frame) /\ <<>> \in Seq(Frame)
      /\ First[c] \in SUBSET Stream /\ \A k \in Wanted[c] : k \in Stream
  <2>1. /\ sub[c] \in SocketType /\ sub[c].streams \in SUBSET Stream
        /\ sub[c].queue \in Seq(Frame) /\ <<>> \in Seq(Frame)
    BY SocketIs, IdleIs
  <2>2. First[c] \cup Wanted[c] \subseteq Named
    BY DEF Named
  <2>3. Named \subseteq Stream
    BY DEF Stream
  <2>. QED BY <2>1, <2>2, <2>3
<1> DEFINE With(p, st, q) == /\ sub' \in [Clients -> SocketType]
                             /\ \A d \in Clients \ {c} : sub'[d] = sub[d]
                             /\ sub'[c].pc = p /\ sub'[c].streams = st /\ sub'[c].queue = q
<1>a. ASSUME NEW s, s \in SocketType, sub' = [sub EXCEPT ![c] = s]
      PROVE  With(s.pc, s.streams, s.queue)
  BY <1>a, SocketSets
<1>g. /\ Gone \in SocketType /\ Gone.pc = "out" /\ Gone.streams = {} /\ Gone.queue = <<>>
  BY <1>0 DEF Gone, SocketType
<1>1. CASE Connect(c)
  <2> DEFINE s == [Gone EXCEPT !.pc = "waiting", !.streams = First[c]]
  <2>1. s \in SocketType /\ s.pc = "waiting" /\ s.streams = First[c] /\ s.queue = <<>>
    BY <1>0, <1>g DEF SocketType
  <2>2. sub' = [sub EXCEPT ![c] = s]
    BY <1>1 DEF Connect
  <2> HIDE DEF s
  <2>. QED BY <1>1, <1>a, <2>1, <2>2
<1>2. ASSUME NEW p \in {"seeding", "in", "leaving", "leaked"}, sub' = [sub EXCEPT ![c].pc = p]
      PROVE  With(p, sub[c].streams, sub[c].queue)
  <2> DEFINE s == [sub[c] EXCEPT !.pc = p]
  <2>1. /\ s \in SocketType /\ s.pc = p /\ s.streams = sub[c].streams
        /\ s.queue = sub[c].queue
    BY <1>0 DEF SocketType
  <2>2. sub' = [sub EXCEPT ![c] = s]
    BY <1>2
  <2> HIDE DEF s
  <2>. QED BY <1>a, <2>1, <2>2
<1>3. CASE Register(c)
  <2>1. With(IF task = NoTask THEN "seeding" ELSE "in", sub[c].streams, sub[c].queue)
    BY <1>2, <1>3 DEF Register
  <2>. QED BY <1>3, <2>1
<1>4. CASE Seed(c)
  <2>1. With("in", sub[c].streams, sub[c].queue)
    BY <1>2, <1>4 DEF Seed
  <2>. QED BY <1>4, <2>1
<1>5. CASE SeedFails(c)
  <2>1. With("leaked", sub[c].streams, sub[c].queue)
    BY <1>2, <1>5 DEF SeedFails
  <2>. QED BY <1>5, <2>1
<1>6. CASE Leave(c)
  <2>1. With("leaving", sub[c].streams, sub[c].queue)
    BY <1>2, <1>6 DEF Leave
  <2>. QED BY <1>6, <2>1
<1>7. CASE Send(c)
  <2> DEFINE s == [sub[c] EXCEPT !.queue = Tail(@)]
  <2>1. sub' = [sub EXCEPT ![c] = s] /\ sub[c].pc = "in" /\ sub[c].queue # <<>>
    BY <1>7 DEF Send
  <2>2. Tail(sub[c].queue) \in Seq(Frame)
    BY <1>0, <2>1, SentWithin
  <2>3. /\ s \in SocketType /\ s.pc = "in" /\ s.streams = sub[c].streams
        /\ s.queue = Tail(sub[c].queue)
    BY <1>0, <2>1, <2>2 DEF SocketType
  <2> HIDE DEF s
  <2>. QED BY <1>7, <1>a, <2>1, <2>3
<1>8. CASE Unregister(c)
  <2>1. sub' = [sub EXCEPT ![c] = Gone]
    BY <1>8 DEF Unregister
  <2>. QED BY <1>8, <1>a, <1>g, <2>1
<1>9. ASSUME NEW k \in Wanted[c], Subscribe(c, k)
      PROVE  With("in", sub[c].streams \cup {k}, sub[c].queue)
  <2> DEFINE s == [sub[c] EXCEPT !.streams = @ \cup {k}]
  <2>1. sub' = [sub EXCEPT ![c] = s] /\ sub[c].pc = "in"
    BY <1>9 DEF Subscribe
  <2>2. /\ s \in SocketType /\ s.pc = "in" /\ s.streams = sub[c].streams \cup {k}
        /\ s.queue = sub[c].queue
    BY <1>0, <2>1 DEF SocketType
  <2> HIDE DEF s
  <2>. QED BY <1>a, <2>1, <2>2
<1>10. ASSUME NEW k \in sub[c].streams, Unsubscribe(c, k)
       PROVE  With("in", sub[c].streams \ {k}, sub[c].queue)
  <2> DEFINE s == [sub[c] EXCEPT !.streams = @ \ {k}]
  <2>1. sub' = [sub EXCEPT ![c] = s] /\ sub[c].pc = "in"
    BY <1>10 DEF Unsubscribe
  <2>2. /\ s \in SocketType /\ s.pc = "in" /\ s.streams = sub[c].streams \ {k}
        /\ s.queue = sub[c].queue
    BY <1>0, <2>1 DEF SocketType
  <2> HIDE DEF s
  <2>. QED BY <1>a, <2>1, <2>2
<1>. QED BY <1>1, <1>3, <1>4, <1>5, <1>6, <1>7, <1>8, <1>9, <1>10 DEF Socket

\* Publishing: a queue keeps the latest frames, in their order.
LEMMA PublishedAre ==
  ASSUME TypeInv, NEW t \in Pumps, Publish(t)
  PROVE  /\ sub' \in [Clients -> SocketType]
         /\ \A c \in Clients \ Registered : sub'[c] = sub[c]
         /\ \A c \in Registered :
              /\ sub'[c].pc = sub[c].pc /\ sub'[c].streams = sub[c].streams
              /\ sub'[c].queue = Offer(Frames(t, c))
              /\ Frames(t, c) \in Seq(Frame)
              /\ Len(sub'[c].queue) <= QueueSize
              /\ Within(sub'[c].queue, sub[c].queue \o pump[t].events)
              /\ \A n \in DOMAIN sub[c].queue : Rest(Frames(t, c), sub[c].queue[n])
              /\ \A n \in DOMAIN pump[t].events :
                   pump[t].events[n].streams \cap sub[c].streams # {}
                   => Rest(Frames(t, c), pump[t].events[n])
              /\ 1..Excess(Frames(t, c)) \subseteq DOMAIN Frames(t, c)
<1>1. sub' = [c \in Clients |-> IF c \in Registered
                                THEN [sub[c] EXCEPT !.queue = Offer(Frames(t, c))] ELSE sub[c]]
  BY DEF Publish
<1>2. ASSUME NEW c \in Clients
      PROVE  /\ Frames(t, c) \in Seq(Frame)
             /\ Offer(Frames(t, c)) \in Seq(Frame)
             /\ Len(Offer(Frames(t, c))) <= QueueSize
             /\ Within(Offer(Frames(t, c)), sub[c].queue \o pump[t].events)
             /\ \A n \in DOMAIN sub[c].queue : Rest(Frames(t, c), sub[c].queue[n])
             /\ \A n \in DOMAIN pump[t].events :
                  pump[t].events[n].streams \cap sub[c].streams # {}
                  => Rest(Frames(t, c), pump[t].events[n])
             /\ 1..Excess(Frames(t, c)) \subseteq DOMAIN Frames(t, c)
  <2> DEFINE q == sub[c].queue
             ev == pump[t].events
             st == sub[c].streams
  <2>1. q \in Seq(Frame) /\ ev \in Seq(Frame)
    BY SocketIs, TickIs
  <2>2. Frames(t, c) = q \o For(st, ev)
    BY DEF Frames
  <2> HIDE DEF q, ev, st
  <2>3. /\ Frames(t, c) \in Seq(Frame)
        /\ Offer(Frames(t, c)) \in Seq(Frame)
        /\ Len(Offer(Frames(t, c))) <= QueueSize
        /\ Within(Offer(Frames(t, c)), q \o ev)
        /\ \A n \in DOMAIN q : Rest(Frames(t, c), q[n])
        /\ \A n \in DOMAIN ev : ev[n].streams \cap st # {} => Rest(Frames(t, c), ev[n])
        /\ 1..Excess(Frames(t, c)) \subseteq DOMAIN Frames(t, c)
    BY <2>1, <2>2, OfferedAre
  <2>. QED BY <2>3 DEF q, ev, st
<1>3. \A c \in Clients : sub[c] \in SocketType
  BY SocketIs
<1>4. ASSUME NEW c \in Clients, c \in Registered
      PROVE  /\ sub'[c] \in SocketType /\ sub'[c].queue = Offer(Frames(t, c))
             /\ sub'[c].pc = sub[c].pc /\ sub'[c].streams = sub[c].streams
  <2> DEFINE q == Offer(Frames(t, c))
  <2>1. q \in Seq(Frame)
    BY <1>2
  <2>2. sub'[c] = [sub[c] EXCEPT !.queue = q]
    BY <1>1, <1>4
  <2> HIDE DEF q
  <2>3. sub'[c] \in SocketType /\ sub'[c].queue = q
        /\ sub'[c].pc = sub[c].pc /\ sub'[c].streams = sub[c].streams
    BY <1>3, <2>1, <2>2 DEF SocketType
  <2>. QED BY <2>3 DEF q
<1>5. \A c \in Clients \ Registered : sub'[c] = sub[c]
  BY <1>1
<1>6. Registered \subseteq Clients
  BY DEF Registered
<1>7. \A c \in Clients : sub'[c] \in SocketType
  BY <1>3, <1>4, <1>5
<1>8. sub' \in [Clients -> SocketType]
  BY <1>1, <1>7
<1>. QED BY <1>2, <1>4, <1>5, <1>6, <1>8

LEMMA SubMoves ==
  ASSUME [Next]_vars
  PROVE  \/ UNCHANGED sub
         \/ \E t \in Pumps : Publish(t)
         \/ \E c \in Clients : Socket(c)
<1>1. ASSUME NEW i \in Rows, Write(i)
      PROVE  UNCHANGED sub
  BY <1>1 DEF Write, Insert, Edit, Delete, Prune
<1>2. ASSUME NEW t \in Pumps, Pump(t) \/ TickFails(t)
      PROVE  UNCHANGED sub \/ Publish(t)
  BY <1>2 DEF Pump, TickFails, Wake, NewStatuses, StatusEvents, NotificationEvents,
              EditEvents
<1>. QED BY <1>1, <1>2 DEF Next, vars

LEMMA SubStep ==
  ASSUME TypeInv, [Next]_vars
  PROVE  SubType'
<1> DEFINE Limit(c) == Max({Cardinality(First[c]), MaxStreams})
           Fits(c, s) == /\ Len(s.queue) <= QueueSize
                         /\ IsFiniteSet(s.streams)
                         /\ Cardinality(s.streams) <= Limit(c)
                         /\ s.pc \in {"out", "waiting"} => s.queue = <<>>
<1>1. sub \in [Clients -> SocketType] /\ \A c \in Clients : Fits(c, sub[c])
  BY DEF TypeInv, SubType
<1>2. ASSUME sub' \in [Clients -> SocketType], \A c \in Clients : Fits(c, sub'[c])
      PROVE  SubType'
  BY <1>2 DEF SubType
<1>3. \A c \in Clients : /\ IsFiniteSet(First[c]) /\ Cardinality(First[c]) \in Nat
                         /\ Limit(c) \in Nat /\ Limit(c) >= MaxStreams
                         /\ Limit(c) >= Cardinality(First[c])
  <2> SUFFICES ASSUME NEW c \in Clients
               PROVE  /\ IsFiniteSet(First[c]) /\ Cardinality(First[c]) \in Nat
                      /\ Limit(c) \in Nat /\ Limit(c) >= MaxStreams
                      /\ Limit(c) >= Cardinality(First[c])
    OBVIOUS
  <2>1. IsFiniteSet(First[c]) /\ MaxStreams \in Nat
    BY RowsAssumption, LimitsAssumption
  <2>2. Cardinality(First[c]) \in Nat
    BY <2>1, FS_CardinalityType
  <2>. QED BY <2>1, <2>2, MaxOfTwo
<1>4. QueueSize \in Nat /\ Len(<<>>) = 0 /\ MaxStreams \in Nat
  BY LimitsAssumption, EmptySeq
<1> HIDE DEF Limit
<1>5. CASE UNCHANGED sub
  BY <1>1, <1>2, <1>5
<1>6. ASSUME NEW t \in Pumps, Publish(t)
      PROVE  SubType'
  <2>1. \A c \in Clients : c \in Registered => sub[c].pc \notin {"out", "waiting"}
    BY DEF Registered
  <2>2. \A c \in Clients : Fits(c, sub'[c])
    BY <1>1, <1>6, <2>1, PublishedAre
  <2>. QED BY <1>2, <1>6, <2>2, PublishedAre
<1>7. ASSUME NEW c \in Clients, Socket(c)
      PROVE  SubType'
  <2>0. /\ sub' \in [Clients -> SocketType]
        /\ \A d \in Clients \ {c} : sub'[d] = sub[d]
    BY <1>7, SocketDoes
  <2>2. /\ Len(sub[c].queue) <= QueueSize /\ IsFiniteSet(sub[c].streams)
        /\ Cardinality(sub[c].streams) <= Limit(c) /\ sub[c].queue \in Seq(Frame)
        /\ Cardinality(sub[c].streams) \in Nat /\ Limit(c) \in Nat
    BY <1>1, <1>3, SocketIs, FS_CardinalityType
  <2>1. Fits(c, sub'[c])
    <3>1. CASE Connect(c) /\ sub'[c].pc = "waiting" /\ sub'[c].streams = First[c]
               /\ sub'[c].queue = <<>>
      BY <1>3, <1>4, <3>1
    <3>2. CASE /\ sub'[c].streams = sub[c].streams /\ sub'[c].queue = sub[c].queue
               /\ \/ sub'[c].pc \notin {"out", "waiting"}
                  \/ sub[c].queue = <<>>
      BY <2>2, <3>2
    <3>3. CASE Send(c) /\ sub'[c].pc = "in"
               /\ sub'[c].streams = sub[c].streams /\ sub'[c].queue = Tail(sub[c].queue)
      <4>1. Len(Tail(sub[c].queue)) <= Len(sub[c].queue)
            /\ Tail(sub[c].queue) \in Seq(Frame)
        BY <2>2, <3>3, SentWithin DEF Send
      <4>2. Len(Tail(sub[c].queue)) \in Nat /\ Len(sub[c].queue) \in Nat
        BY <2>2, <4>1, LenProperties
      <4>. QED BY <1>4, <2>2, <3>3, <4>1, <4>2
    <3>4. CASE Unregister(c) /\ sub'[c].pc = "out" /\ sub'[c].streams = {}
               /\ sub'[c].queue = <<>>
      <4>1. IsFiniteSet({}) /\ Cardinality({}) = 0
        BY FS_EmptySet
      <4>. QED BY <1>4, <2>2, <3>4, <4>1
    <3>5. ASSUME NEW k \in Wanted[c], Subscribe(c, k), sub'[c].pc = "in",
                 sub'[c].streams = sub[c].streams \cup {k}, sub'[c].queue = sub[c].queue
          PROVE  Fits(c, sub'[c])
      <4>1. Cardinality(sub[c].streams) < MaxStreams /\ k \notin sub[c].streams
        BY <3>5 DEF Subscribe
      <4>2. /\ IsFiniteSet(sub[c].streams \cup {k})
            /\ Cardinality(sub[c].streams \cup {k}) = Cardinality(sub[c].streams) + 1
        BY <2>2, <4>1, FS_AddElement
      <4>. QED BY <1>3, <1>4, <2>2, <3>5, <4>1, <4>2
    <3>6. ASSUME NEW k \in sub[c].streams, Unsubscribe(c, k), sub'[c].pc = "in",
                 sub'[c].streams = sub[c].streams \ {k}, sub'[c].queue = sub[c].queue
          PROVE  Fits(c, sub'[c])
      <4>1. /\ IsFiniteSet(sub[c].streams \ {k})
            /\ Cardinality(sub[c].streams \ {k}) = Cardinality(sub[c].streams) - 1
        BY <2>2, FS_RemoveElement
      <4>. QED BY <2>2, <3>6, <4>1
    <3>. QED BY <1>7, <3>1, <3>2, <3>3, <3>4, <3>5, <3>6, SocketDoes
  <2>3. \A d \in Clients : Fits(d, sub'[d])
    BY <1>1, <2>0, <2>1
  <2>. QED BY <1>2, <2>0, <2>3
<1>. QED BY <1>5, <1>6, <1>7, SubMoves

LEMMA HistoryStep ==
  ASSUME TypeInv, [Next]_vars
  PROVE  HistoryType'
<1> DEFINE V == {"none", "loaded", "told", "removed", "twice", "ghost"}
<1>1. /\ view \in [Clients -> [Rows -> V]]
      /\ calls \in Nat /\ calls <= MaxCalls /\ faults \in Nat /\ faults <= MaxFaults
      /\ overlap \in BOOLEAN
  BY DEF TypeInv, HistoryType
<1>2. MaxCalls \in Nat /\ MaxFaults \in Nat
  BY LimitsAssumption
<1>3. calls' \in Nat /\ calls' <= MaxCalls /\ faults' \in Nat /\ faults' <= MaxFaults
  <2>1. CASE UNCHANGED <<calls, faults>>
    BY <1>1, <2>1
  <2>2. CASE calls' = calls + 1 /\ faults' = faults /\ calls < MaxCalls
    BY <1>1, <1>2, <2>2
  <2>3. CASE calls' = calls /\ faults' = faults + 1 /\ faults < MaxFaults
    BY <1>1, <1>2, <2>3
  <2>4. ASSUME NEW i \in Rows, Write(i)
        PROVE  UNCHANGED <<calls, faults>>
    BY <2>4 DEF Write, Insert, Edit, Delete, Prune
  <2>5. ASSUME NEW t \in Pumps, Pump(t) \/ TickFails(t)
        PROVE  \/ UNCHANGED <<calls, faults>>
               \/ calls' = calls /\ faults' = faults + 1 /\ faults < MaxFaults
    BY <2>5 DEF Pump, TickFails, Wake, NewStatuses, StatusEvents, NotificationEvents,
                EditEvents, Publish
  <2>6. ASSUME NEW c \in Clients, Socket(c)
        PROVE  \/ UNCHANGED <<calls, faults>>
               \/ calls' = calls + 1 /\ faults' = faults /\ calls < MaxCalls
               \/ calls' = calls /\ faults' = faults + 1 /\ faults < MaxFaults
    BY <2>6 DEF Socket, Connect, Register, Seed, SeedFails, Send, Leave, Unregister,
                Subscribe, Unsubscribe
  <2>7. UNCHANGED vars => UNCHANGED <<calls, faults>>
    BY DEF vars
  <2>. QED BY <2>1, <2>2, <2>3, <2>4, <2>5, <2>6, <2>7 DEF Next
<1>4. view' \in [Clients -> [Rows -> V]] /\ overlap' \in BOOLEAN
  <2>1. CASE UNCHANGED <<view, overlap>>
    BY <1>1, <2>1
  <2>2. ASSUME NEW i \in Rows, Write(i)
        PROVE  UNCHANGED <<view, overlap>>
    BY <2>2 DEF Write, Insert, Edit, Delete, Prune, history
  <2>3. ASSUME NEW t \in Pumps, Pump(t) \/ TickFails(t)
        PROVE  UNCHANGED <<view, overlap>>
    BY <2>3 DEF Pump, TickFails, Wake, NewStatuses, StatusEvents, NotificationEvents,
                EditEvents, Publish, history
  <2>4. ASSUME NEW c \in Clients, Socket(c)
        PROVE  view' \in [Clients -> [Rows -> V]] /\ overlap' \in BOOLEAN
    <3>1. Blank \in [Rows -> V] /\ \A T : Screen(T) \in [Rows -> V]
      BY DEF Blank, Screen
    <3>2. CASE Connect(c)
      BY <1>1, <3>1, <3>2 DEF Connect
    <3>3. CASE Register(c)
      BY <1>1, <3>1, <3>3 DEF Register
    <3>4. CASE Seed(c)
      BY <1>1, <3>1, <3>4 DEF Seed
    <3>5. CASE Send(c)
      <4> DEFINE e == Head(sub[c].queue)
                 v == CASE e.event = "delete" -> "removed"
                        [] e.event = "update" /\ view[c][e.id] \in {"removed", "ghost"} -> "ghost"
                        [] e.event = "update" /\ view[c][e.id] \in {"told", "twice"} -> "twice"
                        [] OTHER -> "told"
      <4>1. view' = view \/ view' = [view EXCEPT ![c][e.id] = v]
        BY <3>5 DEF Send
      <4>2. v \in V
        OBVIOUS
      <4>3. UNCHANGED overlap
        BY <3>5 DEF Send
      <4> HIDE DEF e, v
      <4>. QED BY <1>1, <4>1, <4>2, <4>3
    <3>6. CASE SeedFails(c) \/ Leave(c) \/ Unregister(c)
               \/ (\E k \in Wanted[c] : Subscribe(c, k))
               \/ (\E k \in sub[c].streams : Unsubscribe(c, k))
      BY <2>1, <3>6 DEF SeedFails, Leave, Unregister, Subscribe, Unsubscribe, history
    <3>. QED BY <2>4, <3>2, <3>3, <3>4, <3>5, <3>6 DEF Socket
  <2>5. UNCHANGED vars => UNCHANGED <<view, overlap>>
    BY DEF vars, history
  <2>. QED BY <2>1, <2>2, <2>3, <2>4, <2>5 DEF Next
<1>. QED BY <1>3, <1>4 DEF HistoryType

LEMMA TypeStep ==
  ASSUME TypeInv, WindowInv, [Next]_vars
  PROVE  TypeInv' /\ WindowInv'
<1>1. TableType' /\ PumpType' /\ SubType' /\ HistoryType' /\ WindowInv'
  BY TableStep, PumpStep, SubStep, HistoryStep, TrackedStep
<1>2. HubType'
  BY CursorStep, TrackedStep, PumpStep DEF HubType
<1>. QED BY <1>1, <1>2 DEF TypeInv

\* A client does not move by what others do.
LEMMA OthersStay ==
  ASSUME TypeInv, [Next]_vars, NEW c \in Clients
  PROVE  \/ Socket(c)
         \/ sub'[c].pc = sub[c].pc /\ sub'[c].streams = sub[c].streams
<1>1. CASE UNCHANGED sub
  BY <1>1
<1>2. CASE \E t \in Pumps : Publish(t)
  BY <1>2, PublishedAre
<1>3. CASE \E d \in Clients : Socket(d)
  BY <1>3, SocketDoes
<1>. QED BY <1>1, <1>2, <1>3, SubMoves

\* A task takes its steps, and may fail, as long as it runs.
LEMMA TickRuns ==
  ASSUME TickInv, NEW t \in Pumps, Pump(t) \/ TickFails(t)
  PROVE  Running(t)
<1>1. CASE Pump(t)
  <2>1. pump[t].pc # "done"
    BY <1>1 DEF Pump, Wake, NewStatuses, StatusEvents, NotificationEvents, EditEvents,
                Publish, EditsOf, Tracking
  <2>. QED BY <2>1 DEF Running
<1>2. CASE TickFails(t)
  <2> SUFFICES ASSUME pump[t].pc = "done"
               PROVE  FALSE
    BY DEF Running
  <2>1. pump[t].ids = {} /\ pump[t].events = <<>>
    BY DEF TickInv, Idle
  <2>2. Holds(t) = {}
    BY <2>1, IdleIs DEF Holds, Ids
  <2>. QED BY <1>2, <2>2 DEF TickFails
<1>. QED BY <1>1, <1>2

\* One task goes on.
LEMMA TaskStep ==
  ASSUME TypeInv, TaskInv, TickInv, [Next]_vars
  PROVE  TaskInv'
<1>0. /\ task \in Pumps \cup {NoTask} /\ NoTask \notin Pumps
      /\ \A t \in Pumps : pump[t].stop \in BOOLEAN
  BY RowsAssumption, TickIs DEF TypeInv, HubType
<1> DEFINE Goes(p) == p.pc # "done" /\ ~p.stop
           Going == \A t \in Pumps : Goes(pump'[t]) <=> t = task'
           Polled == \A c \in Clients : sub'[c].pc = "in" => task' # NoTask
           Seeds1 == \A c \in Clients : sub'[c].pc = "seeding" => task' = NoTask
           Seeds2 == \A c, d \in Clients :
                       sub'[c].pc = "seeding" /\ sub'[d].pc = "seeding" => c = d
<1>1. /\ \A t \in Pumps : Goes(pump[t]) <=> t = task
      /\ \A c \in Clients : sub[c].pc = "in" => task # NoTask
      /\ \A c \in Clients : sub[c].pc = "seeding" => task = NoTask
      /\ \A c, d \in Clients : sub[c].pc = "seeding" /\ sub[d].pc = "seeding" => c = d
  BY DEF TaskInv, Running
<1>2. ASSUME Going, Polled, Seeds1, Seeds2
      PROVE  TaskInv'
  BY <1>2 DEF TaskInv, Running
<1>3. CASE UNCHANGED <<pump, task>> \/ \E t \in Pumps : (Pump(t) \/ TickFails(t)) /\ UNCHANGED task
  <2>1. Going
    <3>1. CASE UNCHANGED <<pump, task>>
      BY <1>1, <3>1
    <3>2. ASSUME NEW t \in Pumps, Pump(t) \/ TickFails(t), UNCHANGED task
          PROVE  Going
      <4>1. /\ \A u \in Pumps \ {t} : pump'[u] = pump[u]
            /\ \/ pump'[t].stop = pump[t].stop /\ pump'[t].pc # "done"
               \/ pump'[t] = NoPump /\ pump[t].stop
        BY <3>2, TickStep
      <4>2. pump[t].pc # "done" /\ NoPump.stop
        BY <3>2, TickRuns, EmptyIs DEF Running
      <4>3. Goes(pump'[t]) <=> Goes(pump[t])
        BY <1>0, <4>1, <4>2
      <4> HIDE DEF Goes
      <4>. QED BY <1>1, <3>2, <4>1, <4>3
    <3>. QED BY <1>3, <3>1, <3>2
  <2>2. task' = task
    BY <1>3
  <2>3. ASSUME NEW c \in Clients
        PROVE  \/ sub'[c].pc \notin {"in", "seeding"}
               \/ sub'[c].pc = sub[c].pc
               \/ sub'[c].pc = "in" /\ task # NoTask
               \/ sub'[c].pc = "seeding" /\ task = NoTask /\ \A d \in Clients : sub[d].pc # "seeding"
    <3>1. CASE ~Socket(c)
      BY <3>1, OthersStay
    <3>2. CASE Register(c) /\ sub'[c].pc = (IF task = NoTask THEN "seeding" ELSE "in")
      BY <3>2 DEF Register, Locked
    <3>3. CASE Seed(c)
      BY <1>0, <2>2, <1>1, <3>3 DEF Seed
    <3>4. CASE sub'[c].pc = "in" /\ (Send(c) \/ \E k : Subscribe(c, k) \/ Unsubscribe(c, k))
      BY <1>1, <3>4 DEF Send, Subscribe, Unsubscribe
    <3>5. CASE sub'[c].pc \notin {"in", "seeding"}
      BY <3>5
    <3>. QED BY <3>1, <3>2, <3>3, <3>4, <3>5, SocketDoes
  <2>4. \A c, d \in Clients : c # d => sub'[c].pc = sub[c].pc \/ sub'[d].pc = sub[d].pc
    <3>1. CASE \E c \in Clients : Socket(c)
      BY <3>1, SocketDoes
    <3>2. CASE ~\E c \in Clients : Socket(c)
      BY <3>2, OthersStay
    <3>. QED BY <3>1, <3>2
  <2>5. Polled /\ Seeds1
    BY <1>1, <2>2, <2>3
  <2>6. Seeds2
    BY <1>1, <2>3, <2>4
  <2>. QED BY <1>2, <2>1, <2>5, <2>6
<1>4. CASE \E c \in Clients, t \in Pumps : Starts(c, t)
  <2>1. PICK c \in Clients, t \in Pumps : Seed(c) /\ task' = t /\ Set(t, Asleep)
    BY <1>4 DEF Starts
  <2>2. sub[c].pc = "seeding" /\ Socket(c)
    BY <2>1 DEF Seed, Socket
  <2>3. task = NoTask
    BY <1>1, <2>2
  <2>4. /\ pump'[t] = Asleep /\ \A u \in Pumps \ {t} : pump'[u] = pump[u]
        /\ Goes(Asleep)
    BY <2>1, SetIs, EmptyIs
  <2>5. Going
    <3> HIDE DEF Goes
    <3>. QED BY <1>0, <1>1, <2>1, <2>3, <2>4
  <2>6. sub' = [sub EXCEPT ![c].pc = "in"]
    BY <2>1 DEF Seed
  <2>7. sub'[c].pc = "in" /\ \A d \in Clients \ {c} : sub'[d] = sub[d]
    BY <2>6, SocketIs DEF TypeInv, SubType, SocketType
  <2>8. task' # NoTask
    BY <1>0, <2>1
  <2>9. Polled /\ Seeds1 /\ Seeds2
    BY <1>1, <2>2, <2>7, <2>8
  <2>. QED BY <1>2, <2>5, <2>9
<1>5. CASE \E c \in Clients : Stops(c)
  <2>1. PICK c \in Clients : Stops(c)
    BY <1>5
  <2>2. /\ Registered = {c} /\ task \in Pumps /\ task' = NoTask
        /\ Set(task, [pump[task] EXCEPT !.stop = TRUE]) /\ sub' = [sub EXCEPT ![c] = Gone]
    BY <2>1 DEF Stops, Unregister
  <2>3. pump'[task].stop = TRUE /\ \A u \in Pumps \ {task} : pump'[u] = pump[u]
    BY <2>2, StopDoes
  <2>4. ~Goes(pump'[task])
    BY <2>3
  <2>5. Going
    <3> HIDE DEF Goes
    <3>. QED BY <1>0, <1>1, <2>2, <2>3, <2>4
  <2>6. sub'[c] = Gone /\ \A d \in Clients \ {c} : sub'[d] = sub[d]
    BY <2>2 DEF TypeInv, SubType
  <2>7. \A d \in Clients \ {c} : sub[d].pc \notin {"in", "seeding"}
    BY <2>2 DEF Registered
  <2>8. \A d \in Clients : sub'[d].pc \notin {"in", "seeding"}
    BY <2>6, <2>7 DEF Gone
  <2>. QED BY <1>2, <2>5, <2>8
<1>. QED BY <1>3, <1>4, <1>5, PumpMoves

\* What a tick holds depends on where it stands.
TickOK(p) ==
  /\ p.pc \in Idle => p.ids = {}
  /\ p.pc \in Idle \cup Early => p.events = <<>>
  /\ p.pc \in EditPcs => p.all # {}
  /\ Clean(p.events)

LEMMA CleanStart ==
  Clean(<<>>) /\ \A p : Empty(p) => TickOK(p)
<1>1. Clean(<<>>)
  BY IdleIs DEF Clean
<1>. QED BY <1>1 DEF TickOK, Empty, Idle, EditPcs

LEMMA TickKept ==
  ASSUME TypeInv, TickInv, NEW t \in Pumps, Pump(t) \/ TickFails(t)
  PROVE  TickOK(pump'[t])
<1>0. TickOK(pump[t]) /\ pump[t].events \in Seq(Frame)
  BY TickIs DEF TickInv, TickOK
<1>1. CASE EditEvents(t)
  <2>1. PICK b \in Tracking : pump[t].pc = EditsOf[b] /\ Edits(t, b)
    BY <1>1 DEF EditEvents
  <2>2. CASE Empty(pump'[t])
    BY <2>2, CleanStart
  <2>3. CASE /\ \/ pump'[t].pc = "publish" /\ pump'[t].all = {}
                \/ pump'[t].pc = "edits:outbox" /\ pump'[t].all = pump[t].all
             /\ \E x \in Seq(Frame) : NoUpdates(x) /\ pump'[t].events = pump[t].events \o x
    <3>1. pump[t].pc \in EditPcs
      BY <2>1 DEF EditsOf, Tracking, EditPcs
    <3>2. PICK x \in Seq(Frame) : NoUpdates(x) /\ pump'[t].events = pump[t].events \o x
      BY <2>3
    <3> DEFINE ev == pump[t].events
    <3>3. ev \in Seq(Frame) /\ Clean(ev)
      BY <1>0 DEF TickOK
    <3> HIDE DEF ev
    <3>4. Clean(ev \o x)
      BY <3>2, <3>3, LaterFrames
    <3>5. Clean(pump'[t].events)
      BY <3>2, <3>4 DEF ev
    <3>. QED BY <1>0, <2>3, <3>1, <3>5 DEF TickOK, Idle, Early, EditPcs
  <2>4. \/ Empty(pump'[t])
        \/ /\ \/ pump'[t].pc = "publish" /\ pump'[t].all = {}
              \/ pump'[t].pc = "edits:outbox" /\ pump'[t].all = pump[t].all
           /\ \E x \in Seq(Frame) : NoUpdates(x) /\ pump'[t].events = pump[t].events \o x
    BY <2>1, EditDoes
  <2>. QED BY <2>2, <2>3, <2>4
<1>2. CASE NotificationEvents(t)
  <2>1. PICK x \in Seq(Frame) : /\ \A n \in DOMAIN x : x[n].event \notin {"update", "delete"}
                                /\ pump'[t].events = pump[t].events \o x
    BY <1>2, NotifyDoes
  <2> DEFINE ev == pump[t].events
  <2>2. ev \in Seq(Frame) /\ Clean(ev)
    BY <1>0 DEF TickOK
  <2> HIDE DEF ev
  <2>3. NoUpdates(x)
    BY <2>1 DEF NoUpdates
  <2>4. Clean(ev \o x)
    BY <2>2, <2>3, LaterFrames
  <2>5. Clean(pump'[t].events)
    BY <2>1, <2>4 DEF ev
  <2>6. \/ pump'[t].pc = "publish"
        \/ pump'[t].pc = "edits:inbox" /\ pump'[t].all # {}
    BY <1>2, NotifyDoes
  <2>. QED BY <2>5, <2>6 DEF TickOK, Idle, Early, EditPcs
<1>3. CASE StatusEvents(t)
  <2>1. pump'[t].pc = "notification" /\ Clean(pump'[t].events)
    BY <1>3, StatusDoes
  <2>. QED BY <2>1 DEF TickOK, Idle, Early, EditPcs
<1>4. CASE NewStatuses(t)
  <2>1. /\ pump[t].pc \in Early /\ pump'[t].pc \in {"outbox", "status"}
        /\ pump'[t].events = pump[t].events
    BY <1>4, NewDoes DEF Early, Tracking
  <2>. QED BY <1>0, <2>1 DEF TickOK, Idle, Early, EditPcs
<1>5. CASE Wake(t)
  <2>1. CASE pump'[t] = NoPump
    BY <2>1, CleanStart, EmptyIs
  <2>2. CASE pump'[t].pc = "inbox" /\ pump'[t].events = pump[t].events
    BY <1>0, <1>5, <2>2, WakeDoes DEF TickOK, Idle, Early, EditPcs
  <2>. QED BY <1>5, <2>1, <2>2, WakeDoes
<1>6. CASE Publish(t)
  BY <1>6, PublishDoes, CleanStart
<1>7. CASE TickFails(t)
  BY <1>7, FailDoes, CleanStart
<1>. QED BY <1>1, <1>2, <1>3, <1>4, <1>5, <1>6, <1>7 DEF Pump

LEMMA TickInvStep ==
  ASSUME TypeInv, TickInv, [Next]_vars
  PROVE  TickInv'
<1>1. TickInv' <=> \A u \in Pumps : TickOK(pump'[u])
  BY DEF TickInv, TickOK
<1>2. \A u \in Pumps : TickOK(pump[u])
  BY DEF TickInv, TickOK
<1>3. CASE UNCHANGED pump
  BY <1>1, <1>2, <1>3
<1>4. ASSUME NEW t \in Pumps, Pump(t) \/ TickFails(t)
      PROVE  TickInv'
  BY <1>1, <1>2, <1>4, TickKept, TickStep
<1>5. ASSUME NEW c \in Clients, NEW t \in Pumps, Starts(c, t)
      PROVE  TickInv'
  <2>1. pump'[t] = Asleep /\ \A u \in Pumps \ {t} : pump'[u] = pump[u]
    BY <1>5, SetIs DEF Starts
  <2>. QED BY <1>1, <1>2, <2>1, CleanStart, EmptyIs
<1>6. ASSUME NEW c \in Clients, Stops(c)
      PROVE  TickInv'
  <2>1. /\ task \in Pumps
        /\ pump'[task].pc = pump[task].pc /\ pump'[task].ids = pump[task].ids
        /\ pump'[task].all = pump[task].all /\ pump'[task].events = pump[task].events
        /\ \A u \in Pumps \ {task} : pump'[u] = pump[u]
    BY <1>6, StopDoes DEF Stops
  <2>2. TickOK(pump'[task])
    BY <1>2, <2>1 DEF TickOK
  <2>. QED BY <1>1, <1>2, <2>1, <2>2
<1>. QED BY <1>3, <1>4, <1>5, <1>6, PumpMoves

LEMMA GoneStep ==
  ASSUME TypeInv, GoneInv, [Next]_vars
  PROVE  GoneInv'
<1>0. /\ \A i \in Rows : row[i].state = "deleted" => row'[i].state = "deleted"
      /\ DOMAIN tracked \subseteq Rows
  BY TableStep DEF TypeInv, HubType
<1>1. \A i \in DOMAIN tracked : tracked[i].gone => row'[i].state = "deleted"
  BY <1>0 DEF GoneInv
<1>2. CASE UNCHANGED tracked
  BY <1>1, <1>2 DEF GoneInv
<1>3. ASSUME NEW t \in Pumps, StatusEvents(t)
      PROVE  GoneInv'
  <2>1. /\ DOMAIN tracked' = Kept(t)
        /\ \A i \in Kept(t) : /\ i \in Shown(t) => ~tracked'[i].gone
                              /\ i \notin Shown(t) => tracked'[i] = tracked[i]
    BY <1>3, StatusDoes
  <2>2. \A i \in Kept(t) : i \in Shown(t) \/ i \in DOMAIN tracked
    BY KeptAre DEF All
  <2>. QED BY <1>1, <2>1, <2>2 DEF GoneInv
<1>4. ASSUME NEW t \in Pumps, EditEvents(t)
      PROVE  GoneInv'
  <2>1. PICK b \in Tracking : Edits(t, b)
    BY <1>4 DEF EditEvents
  <2>2. \A i \in DOMAIN tracked' : i \in DOMAIN tracked /\ tracked'[i].gone = tracked[i].gone
    BY <2>1, EditsDo
  <2>. QED BY <1>1, <2>2 DEF GoneInv
<1>5. ASSUME NEW c \in Clients, Seed(c)
      PROVE  GoneInv'
  <2>1. tracked' = Seeds
    BY <1>5 DEF Seed
  <2>2. \A i \in DOMAIN Seeds : i \in Rows /\ (Seeds[i].gone => row[i].state = "deleted")
    BY SeedsAre
  <2>. QED BY <1>0, <2>1, <2>2 DEF GoneInv
<1>. QED BY <1>2, <1>3, <1>4, <1>5, HubQuiet

-----------------------------------------------------------------------------
(* Nothing is skipped.                                                     *)

\* What a task does leaves the rows and the screens alone, and clients with
\* their streams; what may be missed only grows.
LEMMA TickQuiet ==
  ASSUME TypeInv, NEW t \in Pumps, Pump(t) \/ TickFails(t)
  PROVE  /\ row' = row /\ view' = view /\ overlap' = overlap /\ lost \subseteq lost'
         /\ \A c \in Clients : sub'[c].pc = sub[c].pc /\ sub'[c].streams = sub[c].streams
         /\ ~Publish(t) => sub' = sub
<1>1. CASE EditEvents(t)
  <2>1. PICK b \in Tracking : Edits(t, b)
    BY <1>1 DEF EditEvents
  <2>2. lost \subseteq lost'
    BY <2>1, EditsDo
  <2>. QED BY <1>1, <2>2 DEF EditEvents, tables
<1>2. CASE NotificationEvents(t)
  BY <1>2 DEF NotificationEvents, tables, history
<1>3. CASE StatusEvents(t)
  BY <1>3, StatusDoes DEF StatusEvents, tables
<1>4. CASE NewStatuses(t)
  BY <1>4 DEF NewStatuses, tables, history
<1>5. CASE Wake(t)
  BY <1>5 DEF Wake, tables, history
<1>6. CASE Publish(t)
  <2>1. row' = row /\ view' = view /\ overlap' = overlap /\ lost \subseteq lost'
    BY <1>6 DEF Publish, tables
  <2>. QED BY <1>6, <2>1, PublishedAre
<1>7. CASE TickFails(t)
  BY <1>7 DEF TickFails, tables
<1>. QED BY <1>1, <1>2, <1>3, <1>4, <1>5, <1>6, <1>7 DEF Pump

LEMMA TickOwes ==
  ASSUME TypeInv, NEW t \in Pumps, Pump(t) \/ TickFails(t),
         NEW c \in Clients, NEW i \in Rows, Owed(c, i)'
  PROVE  Owed(c, i) /\ <<c, i>> \notin lost'
BY TickQuiet DEF Owed, Visible

\* A row that no query of a task passes by is ahead still, or in its hands.
LEMMA AheadMoves ==
  ASSUME TypeInv, NEW t \in Pumps, Pump(t) \/ TickFails(t),
         NEW i \in Rows, row[i].state = "live", BoxOf(i) \in Tracking, Ahead(i)
  PROVE  Ahead(i)' \/ (i \in pump'[t].ids /\ pump'[t].pc \in Early)
<1> DEFINE b == BoxOf(i)
<1>0. /\ i > cursor[b] /\ \A u \in Pumps : pump[u].pc = b => i > pump[u].ask
      /\ b # "notification" /\ b \in Boxes /\ b \in {"inbox", "outbox"} /\ i \in Nat
  BY RowsAreNumbers DEF Ahead, Boxes, Tracking
<1>a. ASSUME i > cursor'[b], \A u \in Pumps \ {t} : pump'[u] = pump[u],
             pump'[t].pc = b => i > pump'[t].ask
      PROVE  Ahead(i)'
  BY <1>0, <1>a DEF Ahead, BoxOf
<1>1. CASE Publish(t) \/ TickFails(t) \/ EditEvents(t) \/ StatusEvents(t)
  <2>1. cursor' = cursor
    BY <1>1 DEF Publish, TickFails, EditEvents, StatusEvents, hub
  <2>2. pump'[t].pc \notin {"inbox", "outbox"} /\ \A u \in Pumps \ {t} : pump'[u] = pump[u]
    <3>1. CASE EditEvents(t)
      <4>1. PICK x \in Tracking : pump[t].pc = EditsOf[x] /\ Edits(t, x)
        BY <3>1 DEF EditEvents
      <4>. QED BY <4>1, EditDoes DEF Empty
    <3>2. CASE Publish(t) \/ TickFails(t) \/ StatusEvents(t)
      BY <3>2, PublishDoes, FailDoes, StatusDoes DEF Empty, Idle
    <3>. QED BY <1>1, <3>1, <3>2
  <2>. QED BY <1>0, <1>a, <2>1, <2>2
<1>2. CASE NotificationEvents(t)
  <2>1. /\ cursor' = Advanced("notification", New(t, "notification"))
        /\ pump'[t].pc \notin {"inbox", "outbox"} /\ \A u \in Pumps \ {t} : pump'[u] = pump[u]
    BY <1>2, NotifyDoes
  <2>2. cursor'[b] = cursor[b]
    BY <1>0, <2>1, AdvancedIs DEF Boxes
  <2>. QED BY <1>0, <1>a, <2>1, <2>2
<1>3. CASE Wake(t)
  <2>1. cursor' = cursor
    BY <1>3 DEF Wake, hub
  <2>2. /\ \A u \in Pumps \ {t} : pump'[u] = pump[u]
        /\ pump'[t].pc = "inbox" => pump'[t].ask = cursor["inbox"]
        /\ pump'[t].pc # "outbox"
    BY <1>3, WakeDoes, EmptyIs
  <2>. QED BY <1>0, <1>a, <2>1, <2>2
<1>4. CASE NewStatuses(t)
  <2> DEFINE x == pump[t].pc
             new == New(t, x)
  <2>1. /\ x \in Tracking /\ cursor' = Advanced(x, new)
        /\ \A u \in Pumps \ {t} : pump'[u] = pump[u]
        /\ pump'[t].ids = pump[t].ids \cup new
        /\ \/ x = "inbox" /\ pump'[t].pc = "outbox" /\ pump'[t].ask = cursor'["outbox"]
           \/ x = "outbox" /\ pump'[t].pc = "status" /\ pump'[t].ask = 0
    BY <1>4, NewDoes
  <2>2. /\ \A y \in Boxes \ {x} : cursor'[y] = cursor[y]
        /\ new = {} => cursor'[x] = cursor[x]
        /\ new # {} => cursor'[x] \in new
    BY <2>1, AdvancedIs DEF Boxes
  <2>3. \A j \in New(t, x) : i \in InBox(x) \ New(t, x) /\ i > pump[t].ask => j < i
    BY <2>1, NewIs DEF Boxes
  <2>4. b = x => i \in InBox(x)
    BY DEF InBox, Exists
  <2> HIDE DEF new
  <2>5. CASE i \in new
    BY <2>1, <2>5 DEF Early
  <2>6. CASE i \notin new
    <3>1. i > cursor'[b]
      <4>1. CASE b = x
        <5>1. i > pump[t].ask /\ i \in InBox(x) \ new
          BY <1>0, <2>4, <2>6, <4>1
        <5>2. \A j \in new : j < i
          BY <2>3, <5>1 DEF new
        <5>3. CASE new = {}
          BY <1>0, <2>2, <4>1, <5>3
        <5>4. CASE new # {}
          <6>1. cursor'[x] \in new /\ cursor'[x] < i
            BY <2>2, <5>2, <5>4
          <6>2. new \in SUBSET Rows
            BY <2>1, NewIs DEF new, Boxes
          <6>3. cursor'[x] \in Nat
            BY <6>1, <6>2, RowsAreNumbers
          <6>. QED BY <1>0, <4>1, <6>1, <6>3
        <5>. QED BY <5>3, <5>4
      <4>2. CASE b # x
        BY <1>0, <2>2, <4>2
      <4>. QED BY <4>1, <4>2
    <3>2. pump'[t].pc = b => i > pump'[t].ask
      BY <1>0, <2>1, <3>1
    <3>. QED BY <1>a, <2>1, <3>1, <3>2
  <2>. QED BY <2>5, <2>6
<1>. QED BY <1>1, <1>2, <1>3, <1>4 DEF Pump

\* Where an update is on its way.
Queued(c, i) == \E n \in DOMAIN sub[c].queue : Reaches(c, sub[c].queue[n], i)
InHand(t, i) == i \in pump[t].ids /\ pump[t].pc \in Early
Told(t, c, i) == \E n \in DOMAIN pump[t].events : Reaches(c, pump[t].events[n], i)

LEMMA ComingIs ==
  ASSUME NEW c, NEW i
  PROVE  Coming2(c, i) <=> \/ Ahead(i) \/ Queued(c, i)
                           \/ \E t \in Pumps : InHand(t, i) \/ Told(t, c, i)
BY DEF Coming2, Queued, InHand, Told

\* A task takes along what was in its hands, or hands it on.
LEMMA HandsOn ==
  ASSUME TypeInv, TickInv, NEW t \in Pumps, Pump(t) \/ TickFails(t),
         NEW c \in Clients, NEW i \in Rows, Owed(c, i), <<c, i>> \notin lost',
         InHand(t, i) \/ Told(t, c, i)
  PROVE  InHand(t, i)' \/ Told(t, c, i)' \/ Queued(c, i)'
<1> DEFINE s == sub[c].streams
           W == ShownIn(i, s)
           ev == pump[t].events
           fv == pump'[t].events
           R(e) == Update(e, i) /\ W \subseteq e.streams
<1>0. /\ sub[c].pc = "in" /\ Visible(i) /\ W # {} /\ sub'[c].streams = s
      /\ ev \in Seq(Frame)
  BY TickQuiet, TickIs DEF Owed, ShownIn
<1>1. /\ \A e : Reaches(c, e, i) <=> R(e)
      /\ InHand(t, i)' <=> i \in pump'[t].ids /\ pump'[t].pc \in Early
      /\ Told(t, c, i) <=> \E n \in DOMAIN ev : R(ev[n])
  BY DEF Reaches, InHand, Told
<1>2. /\ Told(t, c, i)' <=> \E n \in DOMAIN fv : R(fv[n])
      /\ Queued(c, i)' <=> \E n \in DOMAIN sub'[c].queue : R(sub'[c].queue[n])
  BY <1>0 DEF Reaches, Told, Queued
<1>3. c \in Registered
  BY <1>0 DEF Registered
<1>4. Told(t, c, i) => i \in Holds(t)
  BY <1>1 DEF Holds, Ids, Update
<1>5. InHand(t, i) => i \in Holds(t) /\ ev = <<>> /\ pump[t].pc \in Early
  BY DEF Holds, InHand, TickInv
<1> HIDE DEF W, R
<1>6. CASE EditEvents(t)
  <2>1. PICK b \in Tracking : pump[t].pc = EditsOf[b] /\ Edits(t, b)
    BY <1>6 DEF EditEvents
  <2>2. ~InHand(t, i)
    BY <2>1 DEF InHand, EditsOf, Tracking, Early
  <2>3. CASE Unknown(t) # {}
    <3>1. Clients \X Holds(t) \subseteq lost'
      BY <2>1, <2>3, EditsDo
    <3>2. <<c, i>> \notin Clients \X Holds(t)
      BY <3>1
    <3>. QED BY <1>4, <2>2, <3>2
  <2>4. CASE Unknown(t) = {}
    <3>1. PICK x \in Seq(Frame) : NoUpdates(x) /\ fv = ev \o x
      BY <2>1, <2>4, EditDoes
    <3> HIDE DEF ev, fv
    <3>2. \A n \in DOMAIN ev : \E m \in DOMAIN fv : fv[m] = ev[n]
      BY <1>0, <3>1, LaterFrames
    <3>. QED BY <1>1, <1>2, <2>2, <3>2
  <2>. QED BY <2>3, <2>4
<1>7. CASE NotificationEvents(t)
  <2>1. PICK x \in Seq(Frame) : /\ \A n \in DOMAIN x : x[n].event \notin {"update", "delete"}
                                /\ fv = ev \o x
    BY <1>7, NotifyDoes
  <2>2. NoUpdates(x)
    BY <2>1 DEF NoUpdates
  <2>3. ~InHand(t, i)
    BY <1>7, NotifyDoes DEF InHand, Early
  <2> HIDE DEF ev, fv
  <2>4. \A n \in DOMAIN ev : \E m \in DOMAIN fv : fv[m] = ev[n]
    BY <1>0, <2>1, <2>2, LaterFrames
  <2>. QED BY <1>1, <1>2, <2>3, <2>4
<1>8. CASE StatusEvents(t)
  <2>1. pump[t].pc \in Early
    BY <1>8, StatusDoes DEF Early
  <2>2. ev = <<>>
    BY <2>1 DEF TickInv
  <2>3. InHand(t, i)
    BY <1>1, <2>2, IdleIs
  <2>4. i \in Shown(t)
    BY <1>0, <2>3 DEF InHand, Shown
  <2>5. W \subseteq StreamsOf(i, Active)
    BY <1>3, ActiveIs, StreamsGrow DEF W, ShownIn
  <2>6. i \in Sent(t)
    BY <1>0, <2>4, <2>5 DEF Sent
  <2>7. PICK n \in DOMAIN fv : fv[n].id = i
    BY <1>8, <2>6, StatusDoes
  <2>8. fv[n].event = "update" /\ fv[n].streams = StreamsOf(i, Active)
    BY <1>8, <2>7, StatusDoes
  <2>9. R(fv[n])
    BY <2>5, <2>7, <2>8 DEF R, Update
  <2>. QED BY <1>2, <2>9
<1>9. CASE NewStatuses(t)
  <2>1. /\ pump'[t].ids = pump[t].ids \cup New(t, pump[t].pc) /\ fv = ev
        /\ pump'[t].pc \in {"outbox", "status"}
    BY <1>9, NewDoes
  <2>. QED BY <1>1, <1>2, <2>1 DEF InHand, Early
<1>10. CASE Wake(t)
  <2>1. pump[t].pc = "sleep"
    BY <1>10, WakeDoes
  <2>2. ev = <<>> /\ ~InHand(t, i)
    BY <2>1 DEF TickInv, Idle, InHand, Early
  <2>. QED BY <1>1, <2>2, IdleIs
<1>11. CASE Publish(t)
  <2>1. ~InHand(t, i)
    BY <1>11, PublishDoes DEF InHand, Early
  <2>2. PICK n \in DOMAIN ev : R(ev[n])
    BY <1>1, <2>1
  <2>3. ev[n].streams \cap s # {} /\ ev[n].id = i
    BY <1>0, <2>2 DEF R, W, ShownIn, Update
  <2>4. /\ Rest(Frames(t, c), ev[n]) /\ sub'[c].queue = Offer(Frames(t, c))
        /\ 1..Excess(Frames(t, c)) \subseteq DOMAIN Frames(t, c)
    BY <1>3, <1>11, <2>3, PublishedAre
  <2>5. CASE \E m \in DOMAIN Offer(Frames(t, c)) : Offer(Frames(t, c))[m] = ev[n]
    BY <1>2, <2>2, <2>4, <2>5
  <2>6. CASE \E m \in 1..Excess(Frames(t, c)) : Frames(t, c)[m] = ev[n]
    <3>1. i \in Dropped(t, c)
      BY <2>3, <2>6 DEF Dropped
    <3>2. lost' = lost \cup UNION {{d} \X Dropped(t, d) : d \in Registered}
      BY <1>11 DEF Publish
    <3>. QED BY <1>3, <3>1, <3>2
  <2>. QED BY <2>4, <2>5, <2>6 DEF Rest
<1>12. CASE TickFails(t)
  <2>1. lost' = lost \cup Clients \X Holds(t)
    BY <1>12 DEF TickFails
  <2>. QED BY <1>4, <1>5, <2>1
<1>. QED BY <1>6, <1>7, <1>8, <1>9, <1>10, <1>11, <1>12 DEF Pump

LEMMA SkipTick ==
  ASSUME TypeInv, TickInv, SkipInv, NEW t \in Pumps, Pump(t) \/ TickFails(t), [Next]_vars,
         NEW c \in Clients, NEW i \in Rows, Owed(c, i)'
  PROVE  Coming2(c, i)'
<1>0. /\ Owed(c, i) /\ <<c, i>> \notin lost' /\ Coming2(c, i)
      /\ row[i].state = "live" /\ BoxOf(i) \in Tracking /\ sub[c].pc = "in"
  BY TickOwes DEF SkipInv, Owed, Visible
<1>1. /\ \A u \in Pumps \ {t} : pump'[u] = pump[u]
      /\ sub'[c].streams = sub[c].streams
  BY TickStep, TickQuiet
<1>2. Coming2(c, i)' <=> \/ Ahead(i)' \/ Queued(c, i)'
                         \/ \E u \in Pumps : InHand(u, i)' \/ Told(u, c, i)'
  BY DEF Coming2, Queued, InHand, Told
<1>3. CASE Ahead(i)
  <2>1. Ahead(i)' \/ InHand(t, i)'
    BY <1>0, <1>3, AheadMoves DEF InHand
  <2>. QED BY <1>2, <2>1
<1>4. CASE Queued(c, i)
  <2>1. CASE ~Publish(t)
    <3>1. sub' = sub
      BY <2>1, TickQuiet
    <3>2. Queued(c, i)'
      BY <1>4, <3>1 DEF Queued, Reaches
    <3>. QED BY <1>2, <3>2
  <2>2. CASE Publish(t)
    <3> DEFINE R(e) == Update(e, i) /\ ShownIn(i, sub[c].streams) \subseteq e.streams
    <3>0. /\ Queued(c, i) <=> \E n \in DOMAIN sub[c].queue : R(sub[c].queue[n])
          /\ Queued(c, i)' <=> \E n \in DOMAIN sub'[c].queue : R(sub'[c].queue[n])
      BY <1>1 DEF Queued, Reaches
    <3>1. PICK n \in DOMAIN sub[c].queue : R(sub[c].queue[n])
      BY <1>4, <3>0
    <3> DEFINE e == sub[c].queue[n]
    <3>2. c \in Registered /\ e.id = i
      BY <1>0, <3>1 DEF Registered, Update
    <3>3. Rest(Frames(t, c), e) /\ sub'[c].queue = Offer(Frames(t, c))
      BY <2>2, <3>2, PublishedAre
    <3>4. R(e)
      BY <3>1
    <3> HIDE DEF e, R
    <3>5. CASE \E m \in DOMAIN Offer(Frames(t, c)) : Offer(Frames(t, c))[m] = e
      <4>1. Queued(c, i)'
        BY <3>0, <3>3, <3>4, <3>5
      <4>. QED BY <1>2, <4>1
    <3>6. CASE \E m \in 1..Excess(Frames(t, c)) : Frames(t, c)[m] = e
      <4>1. i \in Dropped(t, c)
        BY <3>2, <3>6 DEF Dropped
      <4>2. lost' = lost \cup UNION {{d} \X Dropped(t, d) : d \in Registered}
        BY <2>2 DEF Publish
      <4>. QED BY <1>0, <3>2, <4>1, <4>2
    <3>. QED BY <3>3, <3>5, <3>6 DEF Rest
  <2>. QED BY <2>1, <2>2
<1>5. ASSUME NEW u \in Pumps, InHand(u, i) \/ Told(u, c, i)
      PROVE  Coming2(c, i)'
  <2>1. CASE u = t
    <3>1. InHand(t, i)' \/ Told(t, c, i)' \/ Queued(c, i)'
      BY <1>0, <1>5, <2>1, HandsOn
    <3>. QED BY <1>2, <3>1
  <2>2. CASE u # t
    <3>1. pump'[u] = pump[u]
      BY <1>1, <2>2
    <3>2. InHand(u, i)' \/ Told(u, c, i)'
      BY <1>1, <1>5, <3>1 DEF InHand, Told, Reaches
    <3>. QED BY <1>2, <3>2
  <2>. QED BY <2>1, <2>2
<1>. QED BY <1>0, <1>3, <1>4, <1>5, ComingIs

\* A write: a row that comes is ahead of everything.
LEMMA SkipWrite ==
  ASSUME TypeInv, SkipInv, NEW j \in Rows, Write(j),
         NEW c \in Clients, NEW i \in Rows, Owed(c, i)'
  PROVE  Coming2(c, i)'
<1>1. UNCHANGED <<cursor, pump, sub, view, lost>>
  BY DEF Write, Insert, Edit, Delete, Prune, hub, history
<1>2. Coming2(c, i)' <=> Coming2(c, i)
  BY <1>1 DEF Coming2, Ahead, Reaches
<1>3. CASE Insert(j) /\ i = j
  <2>1. row[i].state = "none" /\ \A x \in Rows : x > i => row[x].state = "none"
    BY <1>3 DEF Insert
  <2>2. ASSUME NEW n, Known(n)
        PROVE  i > n
    <3>1. i \in Nat /\ i > 0
      BY RowsAreNumbers
    <3>2. CASE n = 0
      BY <3>1, <3>2
    <3>3. CASE n \in Rows /\ row[n].state # "none"
      <4>1. n \in Nat /\ ~(n > i) /\ n # i
        BY <2>1, <3>3, RowsAreNumbers
      <4>. QED BY <3>1, <4>1
    <3>. QED BY <2>2, <3>2, <3>3 DEF Known
  <2>3. Ahead(i)
    <3>1. BoxOf(i) \in Boxes
      BY RowsAssumption DEF BoxOf
    <3>2. Known(cursor[BoxOf(i)]) /\ \A t \in Pumps : Known(pump[t].ask)
      BY <3>1, TickIs DEF TypeInv, HubType
    <3>. QED BY <2>2, <3>2 DEF Ahead
  <2>. QED BY <1>2, <2>3 DEF Coming2
<1>4. CASE ~(Insert(j) /\ i = j)
  <2>1. row \in [Rows -> [state : {"none", "live", "deleted", "pruned"}, rev : Nat]]
    BY DEF TypeInv, TableType
  <2>2. row'[i].state = "live" => row[i].state = "live"
    <3>1. CASE Insert(j)
      BY <1>4, <2>1, <3>1 DEF Insert
    <3>2. CASE Edit(j)
      BY <2>1, <3>2 DEF Edit
    <3>3. CASE Delete(j)
      BY <2>1, <3>3 DEF Delete
    <3>4. CASE Prune(j)
      BY <2>1, <3>4 DEF Prune
    <3>. QED BY <3>1, <3>2, <3>3, <3>4 DEF Write
  <2>3. Owed(c, i)
    BY <1>1, <2>2 DEF Owed, Visible
  <2>. QED BY <1>2, <2>3 DEF SkipInv
<1>. QED BY <1>3, <1>4

\* A client that comes, or subscribes to more, is owed what is ahead.
LEMMA SkipSocket ==
  ASSUME TypeInv, TaskInv, GoneInv, SkipInv, NEW d \in Clients, Socket(d),
         NEW c \in Clients, NEW i \in Rows, Owed(c, i)'
  PROVE  Coming2(c, i)'
<1>0. /\ sub'[c].pc = "in" /\ row'[i].state = "live" /\ BoxOf(i) \in Tracking
      /\ ShownIn(i, sub'[c].streams) # {} /\ view'[c][i] = "none" /\ <<c, i>> \notin lost'
      /\ Visible(i)'
  BY DEF Owed, Visible, ShownIn, BoxOf
<1>1. row' = row
  BY DEF Socket, Connect, Register, Seed, SeedFails, Send, Leave, Unregister,
         Subscribe, Unsubscribe, tables
<1>2. Visible(i)
  BY <1>0, <1>1 DEF Visible
<1>3. ASSUME ~Seed(d)
      PROVE  /\ cursor' = cursor /\ tracked' = tracked
             /\ \A t \in Pumps : /\ pump'[t].pc = pump[t].pc /\ pump'[t].ask = pump[t].ask
                                 /\ pump'[t].ids = pump[t].ids
                                 /\ pump'[t].events = pump[t].events
  <2>1. cursor' = cursor /\ tracked' = tracked
    BY <1>3 DEF Socket, Connect, Register, SeedFails, Send, Leave, Unregister,
                Subscribe, Unsubscribe, hub
  <2>2. CASE Unregister(d)
    <3>1. CASE UNCHANGED pump
      BY <2>1, <3>1
    <3>2. CASE Stops(d)
      <4>1. task \in Pumps
            /\ pump'[task].pc = pump[task].pc /\ pump'[task].ask = pump[task].ask
            /\ pump'[task].ids = pump[task].ids /\ pump'[task].events = pump[task].events
            /\ \A u \in Pumps \ {task} : pump'[u] = pump[u]
        BY <3>2, StopDoes DEF Stops
      <4>. QED BY <2>1, <4>1
    <3>. QED BY <2>2, <3>1, <3>2 DEF Unregister, Stops, TypeInv, HubType
  <2>3. CASE ~Unregister(d)
    BY <1>3, <2>1, <2>3 DEF Socket, Connect, Register, SeedFails, Send, Leave,
                Subscribe, Unsubscribe
  <2>. QED BY <2>2, <2>3
<1>4. ASSUME ~Seed(d)
      PROVE  /\ Ahead(i)' <=> Ahead(i)
             /\ \A t \in Pumps : InHand(t, i)' <=> InHand(t, i)
  BY <1>3, <1>4 DEF Ahead, InHand, BoxOf
<1>5. ASSUME ~Seed(d), \/ Ahead(i) \/ Queued(c, i)'
                       \/ \E t \in Pumps : InHand(t, i) \/ Told(t, c, i)'
      PROVE  Coming2(c, i)'
  BY <1>4, <1>5 DEF Coming2, Queued, InHand, Told
\* The client keeps its place, and perhaps some of its streams, and its queue.
<1>6. ASSUME ~Seed(d), Owed(c, i), ShownIn(i, sub'[c].streams) \subseteq ShownIn(i, sub[c].streams),
             Queued(c, i) => \E n \in DOMAIN sub'[c].queue :
                               Reaches(c, sub'[c].queue[n], i)
      PROVE  Coming2(c, i)'
  <2>1. \A e : Reaches(c, e, i) =>
          Update(e, i) /\ ShownIn(i, sub'[c].streams) \subseteq e.streams
    BY <1>6 DEF Reaches
  <2>2. Queued(c, i) => Queued(c, i)'
    BY <1>6, <2>1 DEF Queued, Reaches
  <2>3. \A t \in Pumps : Told(t, c, i) => Told(t, c, i)'
    BY <1>3, <1>6, <2>1 DEF Told, Reaches
  <2>4. \/ Ahead(i) \/ Queued(c, i) \/ \E t \in Pumps : InHand(t, i) \/ Told(t, c, i)
    BY <1>6, ComingIs DEF SkipInv
  <2>. QED BY <1>5, <1>6, <2>2, <2>3, <2>4
<1>7. CASE c # d
  <2>1. sub'[c] = sub[c]
    BY <1>7, SocketDoes
  <2>2. ~Seed(d)
    BY <1>0, <2>1 DEF Seed, TaskInv
  <2>3. view'[c] = view[c]
    <3>1. \A x \in Clients : view[x] = view[x]
      OBVIOUS
    <3>2. CASE Send(d)
      <4>1. view' = view \/ \E v, r : view' = [view EXCEPT ![d][r] = v]
        BY <3>2 DEF Send
      <4>. QED BY <1>7, <4>1 DEF TypeInv, HistoryType
    <3>3. CASE ~Send(d)
      BY <1>7, <2>2, <3>3 DEF Socket, Connect, Register, SeedFails, Leave, Unregister,
                Subscribe, Unsubscribe, history, TypeInv, HistoryType
    <3>. QED BY <3>2, <3>3
  <2>4. <<c, i>> \notin lost
    BY <1>0, <1>7, <2>2 DEF Socket, Connect, Register, SeedFails, Send, Leave, Unregister,
                Subscribe, Unsubscribe, history
  <2>5. Owed(c, i)
    BY <1>0, <1>2, <2>1, <2>3, <2>4 DEF Owed, ShownIn
  <2>. QED BY <1>6, <2>1, <2>2, <2>5 DEF Queued
<1>8. CASE c = d /\ Register(d) /\ sub'[c].pc = (IF task = NoTask THEN "seeding" ELSE "in")
  <2>1. task # NoTask /\ view' = [view EXCEPT ![c] = Screen(tracked)]
        /\ lost' = lost \cup {c} \X (InFlight \cup (Past \ DOMAIN tracked))
    <3>1. task # NoTask
      BY <1>0, <1>8
    <3>2. /\ view' = [view EXCEPT ![d] = IF task = NoTask THEN @ ELSE Screen(tracked)]
          /\ lost' = lost \cup {d} \X (InFlight \cup (Past \ DOMAIN tracked))
      BY <1>8 DEF Register
    <3>. QED BY <1>8, <3>1, <3>2
  <2>2. Screen(tracked)[i] = "none"
    BY <1>0, <2>1 DEF TypeInv, HistoryType
  <2>3. ~(i \in DOMAIN tracked /\ ~tracked[i].gone)
    BY <2>2 DEF Screen
  <2>4. i \notin DOMAIN tracked
    BY <1>2, <2>3 DEF GoneInv, Visible
  <2>5. i \notin Past
    BY <1>0, <2>1, <2>4
  <2>6. ~Seed(d)
    BY <1>8 DEF Register, Seed
  <2>. QED BY <1>5, <2>5, <2>6 DEF Past
<1>9. CASE c = d /\ Seed(d)
  <2>1. view' = [view EXCEPT ![c] = Screen(Seeds)]
        /\ lost' = lost \cup {c} \X {x \in Rows \ DOMAIN Seeds : row[x].state # "none"}
    BY <1>9 DEF Seed
  <2>2. Screen(Seeds)[i] = "none"
    BY <1>0, <2>1 DEF TypeInv, HistoryType
  <2>3. i \in DOMAIN Seeds
    BY <1>0, <1>2, <2>1 DEF Visible
  <2>4. ~Seeds[i].gone
    BY <1>2, <2>3, SeedsAre DEF Visible
  <2>. QED BY <2>2, <2>3, <2>4 DEF Screen
<1>10. CASE c = d /\ \E k \in Wanted[c] : Subscribe(c, k)
  <2>1. lost' = lost \cup {c} \X Past
    BY <1>10 DEF Subscribe
  <2>2. i \notin Past
    BY <1>0, <2>1
  <2>3. ~Seed(d)
    BY <1>10 DEF Seed, Subscribe
  <2>. QED BY <1>5, <2>2, <2>3 DEF Past
<1>11. ASSUME c = d, NEW k \in sub[c].streams, Unsubscribe(c, k),
              sub'[c].streams = sub[c].streams \ {k}, sub'[c].queue = sub[c].queue
       PROVE  Coming2(c, i)'
  <2>1. /\ sub[c].pc = "in" /\ view' = view
        /\ lost' = lost \cup {c} \X {x \in Rows : view[c][x] # "none"}
    BY <1>11 DEF Unsubscribe
  <2>2. ShownIn(i, sub'[c].streams) \subseteq ShownIn(i, sub[c].streams)
    BY <1>11, StreamsGrow DEF ShownIn
  <2>3. Owed(c, i)
    BY <1>0, <1>2, <2>1, <2>2 DEF Owed, ShownIn
  <2>4. ~Seed(d)
    BY <1>11, <2>1 DEF Seed
  <2>. QED BY <1>6, <1>11, <2>2, <2>3, <2>4 DEF Queued
<1>12. CASE c = d /\ Send(c) /\ sub'[c].pc = "in"
            /\ sub'[c].streams = sub[c].streams /\ sub'[c].queue = Tail(sub[c].queue)
  <2> DEFINE e == Head(sub[c].queue)
             v == CASE e.event = "delete" -> "removed"
                    [] view[c][e.id] \in {"removed", "ghost"} -> "ghost"
                    [] view[c][e.id] \in {"told", "twice"} -> "twice"
                    [] OTHER -> "told"
             heard == e.streams \cap sub[c].streams # {}
  <2>1. /\ sub[c].pc = "in" /\ sub[c].queue # <<>> /\ lost' = lost
        /\ view' = IF ~heard \/ e.event \notin {"update", "delete"} THEN view
                   ELSE [view EXCEPT ![c][e.id] = v]
    BY <1>12 DEF Send
  <2>2. v # "none"
    OBVIOUS
  <2>3. /\ e = sub[c].queue[1] /\ e \in Frame
        /\ \A n \in DOMAIN sub[c].queue : n = 1 \/
             (n - 1 \in DOMAIN Tail(sub[c].queue) /\ Tail(sub[c].queue)[n - 1] = sub[c].queue[n])
    BY <2>1, SocketIs, IdleIs, SentWithin
  <2> HIDE DEF v, e
  <2>4. e.id \in Rows
    BY <2>3 DEF Frame
  <2>5. view[c][i] = "none"
    BY <1>0, <2>1, <2>2, <2>4 DEF TypeInv, HistoryType
  <2>6. ~Reaches(c, e, i)
    <3> SUFFICES ASSUME Reaches(c, e, i)
                 PROVE  FALSE
      OBVIOUS
    <3>1. heard /\ e.event = "update" /\ e.id = i
      BY <1>0, <1>12 DEF Reaches, Update, ShownIn
    <3>2. view' = [view EXCEPT ![c][i] = v]
      BY <2>1, <3>1
    <3>3. view'[c][i] = v
      BY <3>2 DEF TypeInv, HistoryType
    <3>. QED BY <1>0, <2>2, <3>3
  <2>7. Owed(c, i)
    BY <1>0, <1>2, <1>12, <2>1, <2>5 DEF Owed, ShownIn
  <2>8. Queued(c, i) => \E n \in DOMAIN sub'[c].queue : Reaches(c, sub'[c].queue[n], i)
    <3> SUFFICES ASSUME Queued(c, i)
                 PROVE  \E n \in DOMAIN sub'[c].queue : Reaches(c, sub'[c].queue[n], i)
      OBVIOUS
    <3> DEFINE q == sub[c].queue
               u == Tail(q)
    <3>1. PICK n \in DOMAIN q : Reaches(c, q[n], i)
      BY DEF Queued
    <3>2. e = q[1] /\ (n = 1 \/ (n - 1 \in DOMAIN u /\ u[n - 1] = q[n])) /\ sub'[c].queue = u
      BY <1>12, <2>3
    <3> HIDE DEF q, u
    <3>3. n - 1 \in DOMAIN u /\ u[n - 1] = q[n]
      BY <2>6, <3>1, <3>2
    <3>4. Reaches(c, u[n - 1], i)
      BY <3>1, <3>3
    <3>. QED BY <3>2, <3>3, <3>4
  <2>9. ~Seed(d)
    BY <1>12, <2>1 DEF Seed
  <2>. QED BY <1>6, <1>12, <2>7, <2>8, <2>9
<1>13. CASE c = d /\ sub'[c].pc # "in"
  BY <1>0, <1>13
<1>. QED BY <1>7, <1>8, <1>9, <1>10, <1>11, <1>12, <1>13, SocketDoes

LEMMA SkipStep ==
  ASSUME TypeInv, TaskInv, TickInv, GoneInv, SkipInv, [Next]_vars
  PROVE  SkipInv'
<1> SUFFICES ASSUME NEW c \in Clients, NEW i \in Rows, Owed(c, i)'
             PROVE  Coming2(c, i)'
  BY DEF SkipInv
<1>1. CASE UNCHANGED vars
  <2>1. UNCHANGED <<row, cursor, pump, sub, view, lost>>
    BY <1>1 DEF vars, tables, hub, history
  <2>2. Owed(c, i)
    BY <2>1 DEF Owed, Visible
  <2>3. Coming2(c, i)
    BY <2>2 DEF SkipInv
  <2>. QED BY <2>1, <2>3 DEF Coming2, Ahead, Reaches
<1>2. ASSUME NEW j \in Rows, Write(j)
      PROVE  Coming2(c, i)'
  BY <1>2, SkipWrite
<1>3. ASSUME NEW t \in Pumps, Pump(t) \/ TickFails(t)
      PROVE  Coming2(c, i)'
  BY <1>3, SkipTick
<1>4. ASSUME NEW d \in Clients, Socket(d)
      PROVE  Coming2(c, i)'
  BY <1>4, SkipSocket
<1>. QED BY <1>1, <1>2, <1>3, <1>4 DEF Next

-----------------------------------------------------------------------------
(* As long as tasks do not overlap: one runs, and the cursors only grow.   *)

LEMMA RunsAlone ==
  ASSUME TypeInv, TaskInv, TickInv, AloneInv, [Next]_vars,
         NEW t \in Pumps, Pump(t) \/ TickFails(t)
  PROVE  /\ Running(t)
         /\ \A u \in Pumps \ {t} : pump[u].pc = "done" /\ pump'[u] = pump[u]
         /\ Registered # {} => t = task
         /\ \A c \in Clients : sub[c].pc # "seeding"
         /\ task' = task /\ In' = In /\ Registered' = Registered
<1>1. Running(t)
  BY TickRuns
<1>2. \A u \in Pumps \ {t} : pump[u].pc = "done" /\ pump'[u] = pump[u]
  BY <1>1, TickStep DEF AloneInv, Running
<1>3. Registered # {} => t = task
  BY <1>1 DEF AloneInv
<1>4. ASSUME NEW c \in Clients, sub[c].pc = "seeding"
      PROVE  FALSE
  <2>1. c \in Registered /\ task = NoTask
    BY <1>4 DEF Registered, TaskInv
  <2>. QED BY <1>3, <2>1, RowsAssumption
<1>5. \A c \in Clients : sub'[c].pc = sub[c].pc
  BY TickQuiet
<1>6. In' = In /\ Registered' = Registered
  BY <1>5 DEF In, Registered
<1>7. task' = task
  BY DEF Pump, TickFails, Wake, NewStatuses, StatusEvents, NotificationEvents,
         EditEvents, Publish, hub
<1>. QED BY <1>1, <1>2, <1>3, <1>4, <1>6, <1>7

LEMMA AloneTick ==
  ASSUME TypeInv, TaskInv, TickInv, AloneInv, [Next]_vars,
         NEW t \in Pumps, Pump(t) \/ TickFails(t)
  PROVE  AloneInv'
<1>1. /\ \A u \in Pumps \ {t} : pump'[u].pc = "done"
      /\ Registered' # {} => t = task'
      /\ \A c \in Clients : sub[c].pc # "seeding"
  BY RunsAlone
<1>2. \A c \in Clients : sub'[c].pc # "seeding"
  BY <1>1, TickQuiet
<1>. QED BY <1>1, <1>2 DEF AloneInv, Running

LEMMA CursorsGrow ==
  ASSUME TypeInv, CursorInv, NEW t \in Pumps, Pump(t) \/ TickFails(t)
  PROVE  \A b \in Boxes : cursor[b] \in Nat /\ cursor'[b] \in Nat /\ cursor[b] <= cursor'[b]
<1>0. \A b \in Boxes : cursor[b] \in Nat
  BY DEF TypeInv, HubType, Known
<1>1. ASSUME NEW b \in Boxes, pump[t].pc = b, cursor' = Advanced(b, New(t, b))
      PROVE  \A x \in Boxes : cursor'[x] \in Nat /\ cursor[x] <= cursor'[x]
  <2> DEFINE new == New(t, b)
  <2>1. \A i \in new : i > cursor[b] /\ i \in Nat
    <3>1. new \in SUBSET Rows /\ \A i \in new : i > pump[t].ask
      BY NewIs
    <3>2. pump[t].ask = cursor[b]
      BY <1>1 DEF CursorInv
    <3>. QED BY <3>1, <3>2, RowsAreNumbers
  <2>2. /\ \A x \in Boxes \ {b} : cursor'[x] = cursor[x]
        /\ new = {} => cursor'[b] = cursor[b]
        /\ new # {} => cursor'[b] \in new
    BY <1>1, AdvancedIs
  <2> HIDE DEF new
  <2>3. cursor'[b] = cursor[b] \/ (cursor'[b] \in Nat /\ cursor'[b] > cursor[b])
    BY <2>1, <2>2
  <2>. QED BY <1>0, <2>2, <2>3
<1>2. CASE NewStatuses(t)
  BY <1>0, <1>1, <1>2, NewDoes DEF Boxes
<1>3. CASE NotificationEvents(t)
  BY <1>0, <1>1, <1>3, NotifyDoes DEF Boxes
<1>4. CASE ~NewStatuses(t) /\ ~NotificationEvents(t)
  <2>1. cursor' = cursor
    BY <1>4 DEF Pump, TickFails, Wake, StatusEvents, EditEvents, Publish, hub
  <2>. QED BY <1>0, <2>1
<1>. QED BY <1>2, <1>3, <1>4

\* What is caught was, or was not fetched yet.
LEMMA CaughtMoves ==
  ASSUME TypeInv, TaskInv, TickInv, AloneInv, CursorInv, [Next]_vars,
         NEW t \in Pumps, Pump(t) \/ TickFails(t), NEW i \in Rows
  PROVE  /\ Fetched(i) => Fetched(i)'
         /\ Caught(i)' => Caught(i) \/ ~Fetched(i)
         /\ pump'[t].pc \notin Early => ~Caught(i)'
<1>0. i \in Nat /\ BoxOf(i) \in Boxes
  BY RowsAreNumbers, RowsAssumption DEF BoxOf
<1>1. Fetched(i) => Fetched(i)'
  <2>1. cursor[BoxOf(i)] \in Nat /\ cursor'[BoxOf(i)] \in Nat
        /\ cursor[BoxOf(i)] <= cursor'[BoxOf(i)]
    BY <1>0, CursorsGrow
  <2>2. Fetched(i)' <=> i <= cursor'[BoxOf(i)]
    BY DEF Fetched, BoxOf
  <2>. QED BY <1>0, <2>1, <2>2 DEF Fetched
<1>2. Caught(i)' => i \in pump'[t].ids /\ pump'[t].pc \in Early
  BY RunsAlone DEF Caught, Early
<1>3. ASSUME Caught(i)'
      PROVE  Caught(i) \/ ~Fetched(i)
  <2>1. i \in pump'[t].ids /\ pump'[t].pc \in Early
    BY <1>2, <1>3
  <2>2. CASE NewStatuses(t)
    <3>1. /\ pump[t].pc \in Tracking /\ pump[t].pc \in Boxes /\ pump[t].pc \in Early
          /\ i \in pump[t].ids \cup New(t, pump[t].pc)
      BY <2>1, <2>2, NewDoes DEF Boxes, Tracking, Early
    <3>2. CASE i \in pump[t].ids
      BY <3>1, <3>2 DEF Caught
    <3>3. CASE i \in New(t, pump[t].pc)
      <4>1. BoxOf(i) = pump[t].pc /\ i > pump[t].ask /\ pump[t].ask = cursor[pump[t].pc]
        BY <3>1, <3>3, NewIs DEF CursorInv
      <4>2. cursor[BoxOf(i)] \in Nat
        BY <1>0, CursorsGrow
      <4>3. ~Fetched(i)
        BY <1>0, <4>1, <4>2 DEF Fetched
      <4>. QED BY <4>3
    <3>. QED BY <3>1, <3>2, <3>3
  <2>3. CASE Wake(t)
    <3>1. pump[t].pc = "sleep" /\ pump'[t].ids = pump[t].ids
      BY <2>1, <2>3, WakeDoes, EmptyIs DEF Empty
    <3>2. pump[t].ids = {}
      BY <3>1 DEF TickInv, Idle
    <3>. QED BY <2>1, <3>1, <3>2
  <2>4. CASE EditEvents(t)
    <3>1. PICK b \in Tracking : pump[t].pc = EditsOf[b] /\ Edits(t, b)
      BY <2>4 DEF EditEvents
    <3>. QED BY <2>1, <3>1, EditDoes DEF Empty, Early
  <2>5. CASE StatusEvents(t) \/ NotificationEvents(t) \/ Publish(t) \/ TickFails(t)
    <3>1. pump'[t].pc \notin Early
      BY <2>5, StatusDoes, NotifyDoes, PublishDoes, FailDoes DEF Empty, Idle, Early
    <3>. QED BY <2>1, <3>1
  <2>. QED BY <2>2, <2>3, <2>4, <2>5 DEF Pump
<1>. QED BY <1>1, <1>2, <1>3

\* The tasks never hold, and the hub never tracks, what the cursors have not passed.
LEMMA CursorTick ==
  ASSUME TypeInv, TaskInv, TickInv, AloneInv, CursorInv, [Next]_vars,
         NEW t \in Pumps, Pump(t) \/ TickFails(t)
  PROVE  CursorInv'
<1> DEFINE Asks == pump'[t].pc \in Boxes => pump'[t].ask = cursor'[pump'[t].pc]
           Tracks == \A i \in DOMAIN tracked' : Fetched(i)' /\ ~Caught(i)'
           Takes == \A i \in pump'[t].ids : Fetched(i)'
           Tells == \A i \in Rows : Has(pump'[t].events, i) \/ Ends(pump'[t].events, i)
                                    => Fetched(i)'
<1>0. /\ \A u \in Pumps \ {t} : pump[u].pc = "done" /\ pump'[u] = pump[u]
      /\ \A i \in Rows : Fetched(i) => Fetched(i)'
      /\ \A i \in Rows : Caught(i)' => Caught(i) \/ ~Fetched(i)
      /\ pump'[t].pc \notin Early => \A i \in Rows : ~Caught(i)'
  BY RunsAlone, CaughtMoves
<1>1. /\ \A i \in DOMAIN tracked : i \in Rows /\ Fetched(i) /\ ~Caught(i)
      /\ \A i \in pump[t].ids : i \in Rows /\ Fetched(i)
      /\ \A i \in Rows : Has(pump[t].events, i) \/ Ends(pump[t].events, i) => Fetched(i)
  BY TickIs DEF CursorInv, TypeInv, HubType
<1>2. ASSUME Asks, Tracks, Takes, Tells
      PROVE  CursorInv'
  <2>1. \A u \in Pumps \ {t} : "done" \notin Boxes /\ pump'[u].pc = "done"
    BY <1>0 DEF Boxes, Tracking
  <2>2. \A u \in Pumps : pump'[u].pc \in Boxes => pump'[u].ask = cursor'[pump'[u].pc]
    BY <1>2, <2>1
  <2>3. \A u \in Pumps : \A i \in pump'[u].ids : Fetched(i)'
    <3> SUFFICES ASSUME NEW u \in Pumps, NEW i \in pump'[u].ids
                 PROVE  Fetched(i)'
      OBVIOUS
    <3>1. CASE u = t
      BY <1>2, <3>1
    <3>2. CASE u # t
      BY <1>0, <3>2, TickIs DEF CursorInv
    <3>. QED BY <3>1, <3>2
  <2>4. \A u \in Pumps, i \in Rows :
          Has(pump'[u].events, i) \/ Ends(pump'[u].events, i) => Fetched(i)'
    <3> SUFFICES ASSUME NEW u \in Pumps, NEW i \in Rows,
                        Has(pump'[u].events, i) \/ Ends(pump'[u].events, i)
                 PROVE  Fetched(i)'
      OBVIOUS
    <3>1. CASE u = t
      BY <1>2, <3>1
    <3>2. CASE u # t
      BY <1>0, <3>2 DEF CursorInv
    <3>. QED BY <3>1, <3>2
  <2>5. \A u \in Pumps, i \in Rows :
          Has(pump[u].events, i)' \/ Ends(pump[u].events, i)' => Fetched(i)'
    BY <2>4 DEF Has, Ends
  <2>. QED BY <1>2, <2>2, <2>3, <2>5 DEF CursorInv
<1>e. ASSUME pump'[t].ids = {}, pump'[t].events = <<>>
      PROVE  Takes /\ Tells
  BY <1>e, IdleIs DEF Has, Ends
<1>3. CASE Wake(t)
  <2>1. cursor' = cursor /\ tracked' = tracked
    BY <1>3 DEF Wake, hub
  <2>2. /\ pump[t].pc = "sleep" /\ pump'[t].ids = {} /\ pump'[t].events = <<>>
        /\ \/ pump'[t].pc = "inbox" /\ pump'[t].ask = cursor["inbox"]
           \/ pump'[t].pc = "done"
    BY <1>3, WakeDoes, EmptyIs DEF Empty, TickInv, Idle
  <2>3. Asks
    BY <2>1, <2>2 DEF Boxes, Tracking
  <2>4. Tracks
    BY <1>0, <1>1, <2>1
  <2>. QED BY <1>2, <1>e, <2>2, <2>3, <2>4
<1>4. CASE NewStatuses(t)
  <2> DEFINE b == pump[t].pc
  <2>1. /\ b \in Tracking /\ b \in Boxes /\ cursor' = Advanced(b, New(t, b))
        /\ pump'[t].ids = pump[t].ids \cup New(t, b) /\ pump'[t].events = pump[t].events
        /\ \/ pump'[t].pc = "outbox" /\ pump'[t].ask = cursor'["outbox"]
           \/ pump'[t].pc = "status"
        /\ tracked' = tracked
    BY <1>4, NewDoes DEF NewStatuses, Boxes
  <2>2. Asks
    BY <2>1 DEF Boxes, Tracking
  <2>3. Tracks
    BY <1>0, <1>1, <2>1
  <2>4. \A i \in New(t, b) : Fetched(i)'
    <3> SUFFICES ASSUME NEW i \in New(t, b)
                 PROVE  Fetched(i)'
      OBVIOUS
    <3>1. BoxOf(i) = b /\ i <= cursor'[b]
      BY <2>1, NewIs, AdvancedIs
    <3>. QED BY <3>1 DEF Fetched, BoxOf
  <2>5. Takes /\ Tells
    BY <1>0, <1>1, <2>1, <2>4
  <2>. QED BY <1>2, <2>2, <2>3, <2>5
<1>5. CASE StatusEvents(t)
  <2>1. /\ cursor' = cursor /\ pump'[t].pc = "notification"
        /\ pump'[t].ask = cursor["notification"] /\ pump'[t].ids = pump[t].ids
        /\ \A n \in DOMAIN pump'[t].events : /\ pump'[t].events[n].event = "update"
                                             /\ pump'[t].events[n].id \in Sent(t)
        /\ DOMAIN tracked' = Kept(t)
    BY <1>5, StatusDoes DEF StatusEvents
  <2>2. Sent(t) \subseteq pump[t].ids /\ Kept(t) \subseteq pump[t].ids \cup DOMAIN tracked
    BY KeptAre DEF Sent, Shown, All
  <2>3. Asks
    BY <2>1
  <2>4. Tracks
    BY <1>0, <1>1, <2>1, <2>2 DEF Early
  <2>5. Takes /\ Tells
    BY <1>0, <1>1, <2>1, <2>2 DEF Has, Ends, Update, Deletion
  <2>. QED BY <1>2, <2>3, <2>4, <2>5
<1>6. CASE NotificationEvents(t)
  <2>1. /\ pump'[t].pc \in {"publish", "edits:inbox"} /\ pump'[t].ids = {}
        /\ tracked' = tracked
    BY <1>6, NotifyDoes DEF NotificationEvents
  <2>2. PICK x \in Seq(Frame) : /\ \A n \in DOMAIN x : x[n].event \notin {"update", "delete"}
                                /\ pump'[t].events = pump[t].events \o x
    BY <1>6, NotifyDoes
  <2> DEFINE ev == pump[t].events
             fv == pump'[t].events
  <2>3. ev \in Seq(Frame) /\ NoUpdates(x) /\ \A i : ~Ends(x, i)
    BY <2>2, TickIs DEF NoUpdates, Ends, Deletion
  <2> HIDE DEF ev, fv
  <2>4. \A i : (Has(fv, i) <=> Has(ev, i)) /\ (Ends(fv, i) <=> Ends(ev, i))
    BY <2>2, <2>3, LaterFrames DEF ev, fv
  <2>5. Tells
    BY <1>0, <1>1, <2>4 DEF ev, fv
  <2>6. Asks
    BY <2>1 DEF Boxes, Tracking
  <2>7. Tracks
    BY <1>0, <1>1, <2>1
  <2>. QED BY <1>2, <2>1, <2>5, <2>6, <2>7
<1>7. CASE EditEvents(t)
  <2>1. PICK b \in Tracking : pump[t].pc = EditsOf[b] /\ Edits(t, b)
    BY <1>7 DEF EditEvents
  <2>2. /\ DOMAIN tracked' \subseteq DOMAIN tracked
        /\ pump'[t].pc \in {"sleep", "publish", "edits:outbox"}
    BY <2>1, EditDoes, EditsDo
  <2>3. Asks
    BY <2>2 DEF Boxes, Tracking
  <2>4. Tracks
    BY <1>0, <1>1, <2>2
  <2>5. CASE Unknown(t) # {}
    <3>1. Empty(pump'[t])
      BY <2>1, <2>5, EditDoes
    <3>. QED BY <1>2, <1>e, <2>3, <2>4, <3>1 DEF Empty
  <2>6. CASE Unknown(t) = {}
    <3>1. PICK x \in Seq(Frame) :
            /\ NoUpdates(x)
            /\ \A n \in DOMAIN x : x[n].event = "delete" => x[n].id \in Removed(t)
            /\ pump'[t].events = pump[t].events \o x
      BY <2>1, <2>6, EditDoes
    <3> DEFINE ev == pump[t].events
               fv == pump'[t].events
    <3>2. ev \in Seq(Frame) /\ fv = ev \o x
      BY <3>1, TickIs
    <3>3. Removed(t) \subseteq DOMAIN tracked
      BY <2>6 DEF Removed, Done, Unknown
    <3>4. \A i : Ends(x, i) => i \in DOMAIN tracked
      BY <3>1, <3>3 DEF Ends, Deletion
    <3> HIDE DEF ev, fv
    <3>5. \A i : (Has(fv, i) <=> Has(ev, i)) /\ (Ends(fv, i) <=> Ends(ev, i) \/ Ends(x, i))
      BY <3>1, <3>2, LaterFrames
    <3>6. Tells
      BY <1>0, <1>1, <3>4, <3>5 DEF ev, fv
    <3>7. Takes
      BY <1>0, <1>1, <2>1, <2>6, EditDoes
    <3>. QED BY <1>2, <2>3, <2>4, <3>6, <3>7
  <2>. QED BY <2>5, <2>6
<1>8. CASE Publish(t) \/ TickFails(t)
  <2>1. cursor' = cursor /\ tracked' = tracked
    BY <1>8 DEF Publish, TickFails, hub
  <2>2. /\ pump'[t].ids = {} /\ pump'[t].events = <<>>
        /\ pump'[t].pc \in Idle
    BY <1>8, PublishDoes, FailDoes DEF Empty
  <2>3. Asks
    BY <2>2 DEF Boxes, Tracking, Idle
  <2>4. Tracks
    BY <1>0, <1>1, <2>1
  <2>. QED BY <1>2, <1>e, <2>2, <2>3, <2>4
<1>. QED BY <1>3, <1>4, <1>5, <1>6, <1>7, <1>8 DEF Pump

-----------------------------------------------------------------------------
(* What a client is on its way to show, in the next state.                 *)

LEMMA NextFresh ==
  ASSUME NEW c,
         \A i \in Rows : ~Fetched(i)' \/ Caught(i)'
           => view'[c][i] = "none" /\ ~Has(sub'[c].queue, i) /\ ~Ends(sub'[c].queue, i)
  PROVE  Fresh(c)'
BY DEF Fresh, Has, Ends

LEMMA NextOrdered ==
  ASSUME NEW c, NEW P, Pipe(c)' = P, Clean(P),
         \A i \in Rows : view'[c][i] \in {"told", "removed"} => ~Has(P, i)
  PROVE  Ordered(c)'
<1>1. Clean(Pipe(c))'
  BY DEF Clean, Update, Deletion
<1>2. \A i \in Rows : Has(P, i) <=> Has(Pipe(c), i)'
  BY DEF Has, Update
<1>. QED BY <1>1, <1>2 DEF Ordered

LEMMA NextStanding ==
  ASSUME NEW c, NEW P, Pipe(c)' = P,
         \A i \in Rows : sub'[c].streams # {} /\ (view'[c][i] \in {"loaded", "told"} \/ Has(P, i))
                         => \/ <<c, i>> \in lost'
                            \/ i \in DOMAIN tracked' /\ ~tracked'[i].gone
                            \/ Ends(P, i)
  PROVE  Standing(c)'
<1>1. \A i \in Rows : /\ Has(P, i) <=> Has(Pipe(c), i)'
                      /\ Ends(P, i) <=> Ends(Pipe(c), i)'
  BY DEF Has, Update, Ends, Deletion
<1>. QED BY <1>1 DEF Standing, Stands

LEMMA NextHeard ==
  ASSUME NEW c, NEW P, Pipe(c)' = P,
         \A i \in Rows : \A n \in DOMAIN P :
           Deletion(P[n], i) => <<c, i>> \in lost' \/ sub'[c].streams \subseteq P[n].streams,
         pump'[task'].pc \in EditPcs =>
           \A i \in Rows : i \in DOMAIN tracked'
             => <<c, i>> \in lost' \/ sub'[c].streams \subseteq pump'[task'].all
  PROVE  Heard(c)'
<1>1. \A i \in Rows, n \in DOMAIN P : Deletion(P[n], i) <=> Deletion(Pipe(c)[n], i)'
  BY DEF Deletion
<1>2. ASSUME NEW i \in Rows
      PROVE  \A n \in DOMAIN Pipe(c)' :
               Deletion(Pipe(c)[n], i)' => Hears(c, i, Pipe(c)[n].streams)'
  BY <1>1 DEF Hears
<1>3. ASSUME NEW i \in Rows, pump'[task'].pc \in EditPcs, i \in DOMAIN tracked'
      PROVE  Hears(c, i, pump[task].all)'
  BY <1>3 DEF Hears
<1>. QED BY <1>2, <1>3 DEF Heard, EditPcs

LEMMA Prefix ==
  ASSUME NEW s \in Seq(Frame), NEW t \in Seq(Frame)
  PROVE  Within(s, s \o t) /\ s \o <<>> = s
<1> DEFINE st == s \o t
<1>1. \A n \in DOMAIN s : n \in DOMAIN st /\ st[n] = s[n]
  BY Joined
<1>2. DOMAIN s \subseteq Nat
  BY Joined
<1> HIDE DEF st
<1>3. [n \in DOMAIN s |-> n] \in [DOMAIN s -> DOMAIN st]
  BY <1>1
<1>4. Within(s, st)
  BY <1>1, <1>3 DEF Within
<1>. QED BY <1>4, ConcatEmptySeq DEF st

-----------------------------------------------------------------------------
(* What the one task does to a client.                                     *)

\* What stands before a step of the task.
Before(t, c) ==
  /\ t \in Pumps /\ c \in Clients /\ t = task /\ sub[c].pc = "in" /\ c \in Registered
  /\ Pipe(c) = sub[c].queue \o pump[t].events
  /\ sub[c].queue \in Seq(Frame) /\ pump[t].events \in Seq(Frame) /\ Pipe(c) \in Seq(Frame)

LEMMA BeforeIs ==
  ASSUME TypeInv, TaskInv, TickInv, AloneInv, [Next]_vars,
         NEW t \in Pumps, Pump(t) \/ TickFails(t), NEW c \in In
  PROVE  Before(t, c)
<1>1. c \in Clients /\ sub[c].pc = "in" /\ c \in Registered
  BY DEF In, Registered
<1>2. t = task
  BY <1>1, RunsAlone
<1>3. sub[c].queue \in Seq(Frame) /\ pump[t].events \in Seq(Frame)
  BY <1>1, SocketIs, TickIs
<1>. QED BY <1>1, <1>2, <1>3, Joined DEF Before, Pipe

\* What stands after it.
After(t, c) ==
  /\ task' = task /\ view'[c] = view[c] /\ sub'[c].streams = sub[c].streams
  /\ lost \subseteq lost'
  /\ Pipe(c)' = sub'[c].queue \o pump'[t].events

LEMMA AfterIs ==
  ASSUME TypeInv, TaskInv, TickInv, AloneInv, [Next]_vars,
         NEW t \in Pumps, Pump(t) \/ TickFails(t), NEW c \in In
  PROVE  After(t, c)
<1>1. Before(t, c)
  BY BeforeIs
<1>2. task' = task /\ view'[c] = view[c] /\ sub'[c].streams = sub[c].streams
      /\ lost \subseteq lost'
  BY <1>1, RunsAlone, TickQuiet DEF Before
<1>. QED BY <1>1, <1>2 DEF After, Before, Pipe

LEMMA FreshTick ==
  ASSUME TypeInv, TaskInv, TickInv, AloneInv, CursorInv, [Next]_vars,
         NEW t \in Pumps, Pump(t) \/ TickFails(t), NEW c \in In, Fresh(c)
  PROVE  Fresh(c)'
<1>0. Before(t, c) /\ After(t, c)
  BY BeforeIs, AfterIs
<1> SUFFICES ASSUME NEW i \in Rows, ~Fetched(i)' \/ Caught(i)'
             PROVE  /\ view'[c][i] = "none"
                    /\ ~Has(sub'[c].queue, i) /\ ~Ends(sub'[c].queue, i)
  BY NextFresh
<1>1. ~Fetched(i) \/ Caught(i)
  BY CaughtMoves
<1>2. view'[c][i] = "none" /\ ~Has(sub[c].queue, i) /\ ~Ends(sub[c].queue, i)
  BY <1>0, <1>1 DEF Fresh, After
<1>3. CASE ~Publish(t)
  BY <1>2, <1>3, TickQuiet
<1>4. CASE Publish(t)
  <2>1. ~Fetched(i)
    BY <1>4, PublishDoes, CaughtMoves DEF Early
  <2>2. ~Has(pump[t].events, i) /\ ~Ends(pump[t].events, i)
    BY <2>1 DEF CursorInv
  <2> DEFINE q == sub[c].queue
             E == pump[t].events
             r == sub'[c].queue
  <2>3. q \in Seq(Frame) /\ E \in Seq(Frame) /\ Within(r, q \o E)
    BY <1>0, <1>4, PublishedAre DEF Before
  <2>4. ~Has(q, i) /\ ~Ends(q, i) /\ ~Has(E, i) /\ ~Ends(E, i)
    BY <1>2, <2>2
  <2> HIDE DEF q, E, r
  <2>5. ~Has(q \o E, i) /\ ~Ends(q \o E, i)
    BY <2>3, <2>4, HasJoined
  <2>6. ~Has(r, i) /\ ~Ends(r, i)
    BY <2>3, <2>5, WithinKeeps
  <2>. QED BY <1>2, <2>6 DEF r
<1>. QED BY <1>3, <1>4

\* The frames on their way are left as they are.
LEMMA ClientSame ==
  ASSUME NEW t, NEW c, Before(t, c), After(t, c), ClientOK(c),
         tracked' = tracked, lost' = lost, Pipe(c)' = Pipe(c),
         pump'[t].pc \notin EditPcs
  PROVE  Ordered(c)' /\ Standing(c)' /\ Heard(c)'
<1> DEFINE P == Pipe(c)
<1>0. Pipe(c)' = P
  OBVIOUS
<1>1. /\ Clean(P)
      /\ \A i \in Rows : view[c][i] \in {"told", "removed"} => ~Has(P, i)
      /\ \A i \in Rows : sub[c].streams # {} /\ (view[c][i] \in {"loaded", "told"} \/ Has(P, i))
                         => Stands(c, i)
      /\ \A i \in Rows : \A n \in DOMAIN P : Deletion(P[n], i) => Hears(c, i, P[n].streams)
  BY DEF ClientOK, Ordered, Standing, Heard
<1>2. \A i : Stands(c, i) <=> <<c, i>> \in lost \/ (i \in DOMAIN tracked /\ ~tracked[i].gone)
                              \/ Ends(P, i)
  BY DEF Stands
<1>3. /\ view'[c] = view[c] /\ sub'[c].streams = sub[c].streams
      /\ pump'[task'].pc \notin EditPcs
  BY DEF Before, After
<1> HIDE DEF P
<1>4. Ordered(c)'
  BY <1>0, <1>1, <1>3, NextOrdered
<1>5. Standing(c)'
  BY <1>0, <1>1, <1>2, <1>3, NextStanding
<1>6. Heard(c)'
  BY <1>0, <1>1, <1>3, NextHeard DEF Hears
<1>. QED BY <1>4, <1>5, <1>6

\* A tick is done, or given up: its events are gone, and some of the queue.
LEMMA ClientShrinks ==
  ASSUME NEW t, NEW c, Before(t, c), After(t, c), ClientOK(c),
         pump'[t].events = <<>>, pump'[t].pc \notin EditPcs, sub'[c].queue \in Seq(Frame),
         Within(sub'[c].queue, Pipe(c)),
         \A i \in DOMAIN tracked : ~tracked[i].gone =>
           <<c, i>> \in lost' \/ (i \in DOMAIN tracked' /\ ~tracked'[i].gone),
         \A i \in Rows : Ends(Pipe(c), i) => <<c, i>> \in lost' \/ Ends(sub'[c].queue, i)
                                             \/ sub[c].streams = {}
  PROVE  Ordered(c)' /\ Standing(c)' /\ Heard(c)'
<1> DEFINE P == Pipe(c)
           Q == sub'[c].queue
<1>0. Pipe(c)' = Q
  BY ConcatEmptySeq DEF After
<1>1. /\ Clean(P)
      /\ \A i \in Rows : view[c][i] \in {"told", "removed"} => ~Has(P, i)
      /\ \A i \in Rows : sub[c].streams # {} /\ (view[c][i] \in {"loaded", "told"} \/ Has(P, i))
                         => Stands(c, i)
      /\ \A i \in Rows : \A n \in DOMAIN P : Deletion(P[n], i) => Hears(c, i, P[n].streams)
  BY DEF ClientOK, Ordered, Standing, Heard
<1>2. \A i : Stands(c, i) <=> <<c, i>> \in lost \/ (i \in DOMAIN tracked /\ ~tracked[i].gone)
                              \/ Ends(P, i)
  BY DEF Stands
<1>3. /\ view'[c] = view[c] /\ sub'[c].streams = sub[c].streams /\ lost \subseteq lost'
      /\ pump'[task'].pc \notin EditPcs
  BY DEF Before, After
<1>4. /\ Within(Q, P)
      /\ \A i \in Rows : Ends(P, i) => <<c, i>> \in lost' \/ Ends(Q, i) \/ sub[c].streams = {}
  OBVIOUS
<1> HIDE DEF P, Q
<1>5. /\ Clean(Q)
      /\ \A i : Has(Q, i) => Has(P, i)
      /\ \A n \in DOMAIN Q : \E m \in DOMAIN P : Q[n] = P[m]
  BY <1>1, <1>4, WithinKeeps
<1>6. Ordered(c)'
  BY <1>0, <1>1, <1>3, <1>5, NextOrdered
<1>7. Standing(c)'
  <2> SUFFICES ASSUME NEW i \in Rows, sub[c].streams # {},
                      view[c][i] \in {"loaded", "told"} \/ Has(Q, i)
               PROVE  \/ <<c, i>> \in lost'
                      \/ i \in DOMAIN tracked' /\ ~tracked'[i].gone
                      \/ Ends(Q, i)
    BY <1>0, <1>3, NextStanding
  <2>1. Stands(c, i)
    BY <1>1, <1>5
  <2>. QED BY <1>2, <1>3, <1>4, <2>1
<1>8. \A i \in Rows : \A n \in DOMAIN Q :
        Deletion(Q[n], i) => <<c, i>> \in lost' \/ sub'[c].streams \subseteq Q[n].streams
  <2> SUFFICES ASSUME NEW i \in Rows, NEW n \in DOMAIN Q, Deletion(Q[n], i)
               PROVE  <<c, i>> \in lost' \/ sub'[c].streams \subseteq Q[n].streams
    OBVIOUS
  <2>1. PICK m \in DOMAIN P : Q[n] = P[m]
    BY <1>5
  <2>. QED BY <1>1, <1>3, <2>1 DEF Hears
<1>9. Heard(c)'
  BY <1>0, <1>3, <1>8, NextHeard
<1>. QED BY <1>6, <1>7, <1>9

\* The task wakes, or asks for new rows.
LEMMA ClientWakes ==
  ASSUME TypeInv, TaskInv, TickInv, AloneInv, [Next]_vars,
         NEW t \in Pumps, Wake(t) \/ NewStatuses(t), NEW c \in In, ClientOK(c)
  PROVE  Ordered(c)' /\ Standing(c)' /\ Heard(c)'
<1>0. Before(t, c) /\ After(t, c)
  BY BeforeIs, AfterIs DEF Pump
<1>1. tracked' = tracked /\ lost' = lost /\ sub' = sub
  BY DEF Wake, NewStatuses, hub, history
<1>2. pump'[t].events = pump[t].events /\ pump'[t].pc \notin EditPcs
  <2>1. CASE Wake(t)
    <3>1. pump[t].pc = "sleep" /\ pump[t].events = <<>>
      BY <2>1, WakeDoes DEF TickInv, Idle
    <3>. QED BY <2>1, <3>1, WakeDoes, EmptyIs DEF Empty, EditPcs
  <2>2. CASE NewStatuses(t)
    BY <2>2, NewDoes DEF EditPcs
  <2>. QED BY <2>1, <2>2
<1>3. Pipe(c)' = Pipe(c)
  BY <1>0, <1>1, <1>2 DEF Before, After
<1>. QED BY <1>0, <1>1, <1>2, <1>3, ClientSame

\* The updates of a tick are of rows that the client was not told of.
LEMMA ClientUpdates ==
  ASSUME TypeInv, TaskInv, TickInv, AloneInv, [Next]_vars,
         NEW t \in Pumps, StatusEvents(t), NEW c \in In, ClientOK(c)
  PROVE  Ordered(c)' /\ Standing(c)' /\ Heard(c)'
<1>0. Before(t, c) /\ After(t, c)
  BY BeforeIs, AfterIs DEF Pump
<1> DEFINE q == sub[c].queue
           E == pump'[t].events
<1>1. /\ pump[t].pc = "status" /\ pump'[t].pc = "notification"
      /\ E \in Seq(Frame) /\ Clean(E)
      /\ \A n \in DOMAIN E : E[n].event = "update" /\ E[n].id \in Sent(t)
      /\ lost' = lost \cup Clients \X (All(t) \ Kept(t))
      /\ DOMAIN tracked' = Kept(t)
      /\ \A i \in Kept(t) : /\ i \in Shown(t) => ~tracked'[i].gone
                            /\ i \notin Shown(t) => tracked'[i] = tracked[i]
  BY StatusDoes DEF Tick
<1>2. pump[t].events = <<>> /\ sub' = sub
  BY <1>1 DEF TickInv, Early, StatusEvents
<1>3. Pipe(c) = q /\ q \in Seq(Frame) /\ Pipe(c)' = q \o E
  BY <1>0, <1>2, ConcatEmptySeq DEF Before, After
<1>4. /\ Clean(q)
      /\ \A i \in Rows : view[c][i] \in {"told", "removed"} => ~Has(q, i)
      /\ \A i \in Rows : sub[c].streams # {} /\ (view[c][i] \in {"loaded", "told"} \/ Has(q, i))
                         => Stands(c, i)
      /\ \A i \in Rows : \A n \in DOMAIN q : Deletion(q[n], i) => Hears(c, i, q[n].streams)
  BY <1>3 DEF ClientOK, Ordered, Standing, Heard
<1>5. \A i : Stands(c, i) <=> <<c, i>> \in lost \/ (i \in DOMAIN tracked /\ ~tracked[i].gone)
                              \/ Ends(q, i)
  BY <1>3 DEF Stands
<1>6. /\ view'[c] = view[c] /\ sub'[c].streams = sub[c].streams /\ lost \subseteq lost'
      /\ pump'[task'].pc \notin EditPcs
  BY <1>0, <1>1 DEF Before, After, EditPcs
<1>7. ASSUME NEW i \in Sent(t)
      PROVE  view[c][i] = "none" /\ ~Has(q, i) /\ ~Ends(q, i) /\ i \in All(t) /\ i \in Shown(t)
  <2>1. i \in pump[t].ids /\ i \in All(t) /\ i \in Shown(t) /\ i \in Rows
    BY TickIs DEF Sent, Shown, All
  <2>2. Caught(i)
    BY <1>1, <2>1 DEF Caught, Early
  <2>. QED BY <2>1, <2>2 DEF ClientOK, Fresh
<1>8. c \in Clients
  BY <1>0 DEF Before
<1>m. \A i \in All(t) : i \notin Kept(t) => <<c, i>> \in lost'
  BY <1>1, <1>8
<1>n. DOMAIN tracked \subseteq All(t)
  BY DEF All
<1> HIDE DEF q, E
<1>9. \A n \in DOMAIN E : ~Has(q, E[n].id) /\ ~Ends(q, E[n].id)
  BY <1>1, <1>7
<1>a. Clean(q \o E)
  BY <1>1, <1>3, <1>4, <1>9, CleanJoined
<1>b. \A i : (Has(q \o E, i) <=> Has(q, i) \/ Has(E, i)) /\ (Ends(q, i) => Ends(q \o E, i))
  BY <1>1, <1>3, HasJoined
<1>c. \A i : Has(E, i) => i \in Sent(t)
  BY <1>1 DEF Has, Update
<1>d. \A n \in DOMAIN (q \o E) :
        (q \o E)[n].event = "delete" => \E m \in DOMAIN q : (q \o E)[n] = q[m]
  <2> SUFFICES ASSUME NEW n \in DOMAIN (q \o E), (q \o E)[n].event = "delete"
               PROVE  \E m \in DOMAIN q : (q \o E)[n] = q[m]
    OBVIOUS
  <2>1. \/ n \in DOMAIN q /\ (q \o E)[n] = q[n]
        \/ \E m \in DOMAIN E : (q \o E)[n] = E[m]
    BY <1>1, <1>3, Joined
  <2>. QED BY <1>1, <2>1
<1> DEFINE Q == q \o E
<1>e. Pipe(c)' = Q
  BY <1>3
<1> HIDE DEF Q
<1>f. Ordered(c)'
  <2>1. Clean(Q)
    BY <1>a DEF Q
  <2>2. \A i \in Rows : view[c][i] \in {"told", "removed"} => ~Has(Q, i)
    BY <1>4, <1>7, <1>b, <1>c DEF Q
  <2>. QED BY <1>6, <1>e, <2>1, <2>2, NextOrdered
<1>g. Standing(c)'
  <2> SUFFICES ASSUME NEW i \in Rows, sub[c].streams # {},
                      view[c][i] \in {"loaded", "told"} \/ Has(Q, i)
               PROVE  \/ <<c, i>> \in lost'
                      \/ i \in DOMAIN tracked' /\ ~tracked'[i].gone
                      \/ Ends(Q, i)
    BY <1>6, <1>e, NextStanding
  <2>1. CASE Has(E, i)
    BY <1>1, <1>7, <1>c, <1>m, <2>1
  <2>2. CASE ~Has(E, i)
    <3>1. Stands(c, i)
      BY <1>4, <1>b, <2>2 DEF Q
    <3>2. CASE i \in DOMAIN tracked /\ ~tracked[i].gone
      BY <1>1, <1>m, <1>n, <3>2
    <3>3. CASE Ends(q, i)
      BY <1>b, <3>3 DEF Q
    <3>. QED BY <1>5, <1>6, <3>1, <3>2, <3>3
  <2>. QED BY <2>1, <2>2
<1>h. Heard(c)'
  <2>1. ASSUME NEW i \in Rows, NEW n \in DOMAIN Q, Deletion(Q[n], i)
        PROVE  <<c, i>> \in lost' \/ sub'[c].streams \subseteq Q[n].streams
    <3>1. PICK m \in DOMAIN q : Q[n] = q[m]
      BY <1>d, <2>1 DEF Q, Deletion
    <3>. QED BY <1>4, <1>6, <2>1, <3>1 DEF Hears
  <2>. QED BY <1>6, <1>e, <2>1, NextHeard
<1>. QED BY <1>f, <1>g, <1>h

\* More frames, none of them an update.
LEMMA ClientGrows ==
  ASSUME NEW t, NEW c, Before(t, c), After(t, c), ClientOK(c), sub' = sub,
         NEW x \in Seq(Frame), NoUpdates(x), pump'[t].events = pump[t].events \o x,
         \A i \in DOMAIN tracked : ~tracked[i].gone =>
           <<c, i>> \in lost' \/ (i \in DOMAIN tracked' /\ ~tracked'[i].gone) \/ Ends(x, i),
         \A i \in Rows : \A n \in DOMAIN x :
           Deletion(x[n], i) => <<c, i>> \in lost' \/ sub[c].streams \subseteq x[n].streams,
         pump'[t].pc \in EditPcs =>
           \A i \in Rows : i \in DOMAIN tracked'
             => <<c, i>> \in lost' \/ sub[c].streams \subseteq pump'[t].all
  PROVE  Ordered(c)' /\ Standing(c)' /\ Heard(c)'
<1> DEFINE P == Pipe(c)
           Q == P \o x
<1>0. Pipe(c)' = Q /\ P \in Seq(Frame)
  <2> DEFINE q == sub[c].queue
             E == pump[t].events
  <2>1. Pipe(c)' = q \o (E \o x) /\ P = q \o E /\ P \in Seq(Frame)
    BY DEF Before, After
  <2>2. q \in Seq(Frame) /\ E \in Seq(Frame)
    BY DEF Before
  <2> HIDE DEF q, E, P
  <2>3. (q \o E) \o x = q \o (E \o x)
    BY <2>2, FramesJoined
  <2>. QED BY <2>1, <2>3
<1>1. /\ Clean(P)
      /\ \A i \in Rows : view[c][i] \in {"told", "removed"} => ~Has(P, i)
      /\ \A i \in Rows : sub[c].streams # {} /\ (view[c][i] \in {"loaded", "told"} \/ Has(P, i))
                         => Stands(c, i)
      /\ \A i \in Rows : \A n \in DOMAIN P : Deletion(P[n], i) => Hears(c, i, P[n].streams)
  BY DEF ClientOK, Ordered, Standing, Heard
<1>2. \A i : Stands(c, i) <=> <<c, i>> \in lost \/ (i \in DOMAIN tracked /\ ~tracked[i].gone)
                              \/ Ends(P, i)
  BY DEF Stands
<1>3. /\ view'[c] = view[c] /\ sub'[c].streams = sub[c].streams /\ lost \subseteq lost'
      /\ t = task /\ task' = task
  BY DEF Before, After
<1> HIDE DEF P, Q
<1>4. /\ Clean(Q)
      /\ \A i : Has(Q, i) <=> Has(P, i)
      /\ \A i : Ends(Q, i) <=> Ends(P, i) \/ Ends(x, i)
      /\ \A n \in DOMAIN Q : \/ \E m \in DOMAIN P : Q[n] = P[m]
                             \/ \E m \in DOMAIN x : Q[n] = x[m]
  BY <1>0, <1>1, LaterFrames DEF Q
<1>5. Ordered(c)'
  BY <1>0, <1>1, <1>3, <1>4, NextOrdered
<1>6. Standing(c)'
  <2> SUFFICES ASSUME NEW i \in Rows, sub[c].streams # {},
                      view[c][i] \in {"loaded", "told"} \/ Has(Q, i)
               PROVE  \/ <<c, i>> \in lost'
                      \/ i \in DOMAIN tracked' /\ ~tracked'[i].gone
                      \/ Ends(Q, i)
    BY <1>0, <1>3, NextStanding
  <2>1. Stands(c, i)
    BY <1>1, <1>4
  <2>. QED BY <1>2, <1>3, <1>4, <2>1
<1>7. \A i \in Rows : \A n \in DOMAIN Q :
        Deletion(Q[n], i) => <<c, i>> \in lost' \/ sub'[c].streams \subseteq Q[n].streams
  <2> SUFFICES ASSUME NEW i \in Rows, NEW n \in DOMAIN Q, Deletion(Q[n], i)
               PROVE  <<c, i>> \in lost' \/ sub'[c].streams \subseteq Q[n].streams
    OBVIOUS
  <2>1. CASE \E m \in DOMAIN P : Q[n] = P[m]
    BY <1>1, <1>3, <2>1 DEF Hears
  <2>2. CASE \E m \in DOMAIN x : Q[n] = x[m]
    BY <1>3, <2>2
  <2>. QED BY <1>4, <2>1, <2>2
<1>8. Heard(c)'
  BY <1>0, <1>3, <1>7, NextHeard
<1>. QED BY <1>5, <1>6, <1>8

LEMMA ClientNotified ==
  ASSUME TypeInv, TaskInv, TickInv, AloneInv, [Next]_vars,
         NEW t \in Pumps, NotificationEvents(t), NEW c \in In, ClientOK(c)
  PROVE  Ordered(c)' /\ Standing(c)' /\ Heard(c)'
<1>0. Before(t, c) /\ After(t, c)
  BY BeforeIs, AfterIs DEF Pump
<1>1. tracked' = tracked /\ lost' = lost /\ sub' = sub
  BY DEF NotificationEvents, history
<1>2. PICK x \in Seq(Frame) : /\ \A n \in DOMAIN x : x[n].event \notin {"update", "delete"}
                              /\ pump'[t].events = pump[t].events \o x
  BY NotifyDoes
<1>3. NoUpdates(x) /\ \A i : \A n \in DOMAIN x : ~Deletion(x[n], i)
  BY <1>2 DEF NoUpdates, Deletion
<1>4. pump'[t].all = Active /\ sub[c].streams \subseteq Active
  BY <1>0, NotifyDoes, ActiveIs DEF Before
<1>. QED BY <1>0, <1>1, <1>2, <1>3, <1>4, ClientGrows

\* An edit or a deletion: found, and told of, or the tick ends.
LEMMA ClientEdited ==
  ASSUME TypeInv, TaskInv, TickInv, AloneInv, [Next]_vars,
         NEW t \in Pumps, EditEvents(t), NEW c \in In, ClientOK(c)
  PROVE  Ordered(c)' /\ Standing(c)' /\ Heard(c)'
<1>0. Before(t, c) /\ After(t, c) /\ c \in Clients
  BY BeforeIs, AfterIs DEF Pump, Before
<1>1. PICK b \in Tracking : pump[t].pc = EditsOf[b] /\ Edits(t, b)
  BY DEF EditEvents
<1>2. sub' = sub
  BY DEF EditEvents
<1>3. /\ \A i : i \in DOMAIN tracked' <=> i \in KeptEdits(t, b)
      /\ \A i \in KeptEdits(t, b) : i \in DOMAIN tracked /\ tracked'[i].gone = tracked[i].gone
      /\ \A i \in DOMAIN tracked : i \notin KeptEdits(t, b) /\ i \notin Removed(t)
                                   => <<c, i>> \in lost'
      /\ Unknown(t) # {} => \A i \in Holds(t) \cup Seen(t) : <<c, i>> \in lost'
  BY <1>0, <1>1, EditsLeave
<1>4. Removed(t) \subseteq Seen(t) /\ Seen(t) \subseteq Unknown(t) \cup DOMAIN tracked
  BY DEF Removed, Done, Unknown
<1>5. CASE Unknown(t) # {}
  <2>1. pump'[t].events = <<>> /\ pump'[t].pc = "sleep"
    BY <1>1, <1>5, EditDoes DEF Empty
  <2> DEFINE q == sub[c].queue
             E == pump[t].events
  <2>2. Pipe(c) = q \o E /\ q \in Seq(Frame) /\ E \in Seq(Frame)
    BY <1>0 DEF Before
  <2>3. \A i : Ends(E, i) => i \in Holds(t)
    BY DEF Ends, Deletion, Holds, Ids
  <2> HIDE DEF q, E
  <2>4. Within(q, q \o E) /\ \A i : Ends(q \o E, i) => Ends(q, i) \/ Ends(E, i)
    BY <2>2, Prefix, HasJoined
  <2>5. \A i \in Rows : Ends(Pipe(c), i) => <<c, i>> \in lost' \/ Ends(sub'[c].queue, i)
    BY <1>2, <1>3, <1>5, <2>2, <2>3, <2>4 DEF q
  <2>6. \A i \in DOMAIN tracked : ~tracked[i].gone =>
          <<c, i>> \in lost' \/ (i \in DOMAIN tracked' /\ ~tracked'[i].gone)
    BY <1>3, <1>4, <1>5
  <2>7. sub'[c].queue \in Seq(Frame) /\ Within(sub'[c].queue, Pipe(c))
    BY <1>2, <2>2, <2>4 DEF q
  <2>. QED BY <1>0, <2>1, <2>5, <2>6, <2>7, ClientShrinks DEF EditPcs
<1>6. CASE Unknown(t) = {}
  <2>1. PICK x \in Seq(Frame) :
          /\ NoUpdates(x)
          /\ \A n \in DOMAIN x : x[n].event = "delete"
               => x[n].id \in Removed(t) /\ x[n].streams = pump[t].all
          /\ \A i \in Removed(t) : Ends(x, i)
          /\ pump'[t].events = pump[t].events \o x
    BY <1>1, <1>6, EditDoes
  <2>2. pump'[t].pc \in EditPcs => pump'[t].all = pump[t].all
    BY <1>1, <1>6, EditDoes DEF EditPcs
  <2>3. t = task /\ pump[t].pc \in EditPcs
    BY <1>0, <1>1 DEF Before, EditPcs, EditsOf, Tracking
  <2>4. \A i \in Rows : i \in DOMAIN tracked
                        => <<c, i>> \in lost \/ sub[c].streams \subseteq pump[t].all
    BY <2>3 DEF ClientOK, Heard, Hears
  <2>5. lost \subseteq lost'
    BY <1>0 DEF After
  <2>6. \A i \in DOMAIN tracked : ~tracked[i].gone =>
          <<c, i>> \in lost' \/ (i \in DOMAIN tracked' /\ ~tracked'[i].gone) \/ Ends(x, i)
    BY <1>3, <2>1
  <2>7. \A i \in Rows : \A n \in DOMAIN x :
          Deletion(x[n], i) => <<c, i>> \in lost' \/ sub[c].streams \subseteq x[n].streams
    BY <1>4, <1>6, <2>1, <2>4, <2>5 DEF Deletion
  <2>8. pump'[t].pc \in EditPcs =>
          \A i \in Rows : i \in DOMAIN tracked'
            => <<c, i>> \in lost' \/ sub[c].streams \subseteq pump'[t].all
    BY <1>3, <2>2, <2>4, <2>5
  <2>. QED BY <1>0, <1>2, <2>1, <2>6, <2>7, <2>8, ClientGrows
<1>. QED BY <1>5, <1>6

\* The frames that the client is for are queued, or lost.
LEMMA ClientPublished ==
  ASSUME TypeInv, TaskInv, TickInv, AloneInv, [Next]_vars,
         NEW t \in Pumps, Publish(t), NEW c \in In, ClientOK(c)
  PROVE  Ordered(c)' /\ Standing(c)' /\ Heard(c)'
<1>0. Before(t, c) /\ After(t, c) /\ c \in Clients /\ c \in Registered
  BY BeforeIs, AfterIs DEF Pump, Before
<1>1. tracked' = tracked /\ pump'[t].events = <<>> /\ pump'[t].pc = "sleep"
  BY PublishDoes DEF Publish, hub, Empty
<1> DEFINE q == sub[c].queue
           E == pump[t].events
           Q == sub'[c].queue
           fr == Frames(t, c)
           st == sub[c].streams
<1>2. /\ Q = Offer(fr) /\ fr \in Seq(Frame) /\ Q \in Seq(Frame) /\ Within(Q, q \o E)
      /\ \A n \in DOMAIN q : Rest(fr, q[n])
      /\ \A n \in DOMAIN E : E[n].streams \cap st # {} => Rest(fr, E[n])
  BY <1>0, PublishedAre, OfferIs
<1>3. \A m \in 1..Excess(fr) : <<c, fr[m].id>> \in lost'
  BY <1>0 DEF Publish, Dropped
<1>4. Pipe(c) = q \o E /\ q \in Seq(Frame) /\ E \in Seq(Frame)
  BY <1>0 DEF Before
<1>5. \A i \in Rows : \A n \in DOMAIN (q \o E) :
        Deletion((q \o E)[n], i) => <<c, i>> \in lost \/ st \subseteq (q \o E)[n].streams
  BY <1>4 DEF ClientOK, Heard, Hears
<1>6. lost \subseteq lost'
  BY <1>0 DEF After
<1> HIDE DEF q, E, Q, fr, st
<1>7. \A e, i : Rest(fr, e) /\ Deletion(e, i) => <<c, i>> \in lost' \/ Ends(Q, i)
  BY <1>2, <1>3 DEF Rest, Deletion, Ends
<1>8. ASSUME NEW i \in Rows, Ends(q \o E, i), st # {}
      PROVE  <<c, i>> \in lost' \/ Ends(Q, i)
  <2>1. CASE Ends(q, i)
    BY <1>2, <1>7, <2>1 DEF Ends
  <2>2. CASE Ends(E, i)
    <3>1. PICK n \in DOMAIN E : Deletion(E[n], i)
      BY <2>2 DEF Ends
    <3>2. Len(q) + n \in DOMAIN (q \o E) /\ (q \o E)[Len(q) + n] = E[n]
      BY <1>4, Joined
    <3>3. <<c, i>> \in lost \/ st \subseteq E[n].streams
      BY <1>5, <3>1, <3>2
    <3>4. CASE st \subseteq E[n].streams
      <4>1. E[n].streams \cap st # {}
        BY <1>8, <3>4
      <4>. QED BY <1>2, <1>7, <3>1, <4>1
    <3>. QED BY <1>6, <3>3, <3>4
  <2>. QED BY <1>4, <1>8, <2>1, <2>2, HasJoined
<1>9. \A i \in Rows : Ends(Pipe(c), i) => <<c, i>> \in lost' \/ Ends(sub'[c].queue, i)
                                          \/ sub[c].streams = {}
  BY <1>4, <1>8 DEF Q, st
<1>a. Within(sub'[c].queue, Pipe(c)) /\ sub'[c].queue \in Seq(Frame)
  BY <1>2, <1>4 DEF Q
<1>b. \A i \in DOMAIN tracked : ~tracked[i].gone =>
        <<c, i>> \in lost' \/ (i \in DOMAIN tracked' /\ ~tracked'[i].gone)
  BY <1>1
<1>. QED BY <1>0, <1>1, <1>9, <1>a, <1>b, ClientShrinks DEF EditPcs

LEMMA ClientFailed ==
  ASSUME TypeInv, TaskInv, TickInv, AloneInv, [Next]_vars,
         NEW t \in Pumps, TickFails(t), NEW c \in In, ClientOK(c)
  PROVE  Ordered(c)' /\ Standing(c)' /\ Heard(c)'
<1>0. Before(t, c) /\ After(t, c) /\ c \in Clients
  BY BeforeIs, AfterIs DEF Before
<1>1. tracked' = tracked /\ sub' = sub /\ \A i \in Holds(t) : <<c, i>> \in lost'
  BY <1>0 DEF TickFails, hub
<1>2. pump'[t].events = <<>> /\ pump'[t].pc \notin EditPcs
  BY FailDoes DEF Empty, EditPcs, Idle
<1> DEFINE q == sub[c].queue
           E == pump[t].events
<1>3. Pipe(c) = q \o E /\ q \in Seq(Frame) /\ E \in Seq(Frame)
  BY <1>0 DEF Before
<1>4. \A i : Ends(E, i) => i \in Holds(t)
  BY DEF Ends, Deletion, Holds, Ids
<1> HIDE DEF q, E
<1>5. Within(q, q \o E) /\ \A i : Ends(q \o E, i) => Ends(q, i) \/ Ends(E, i)
  BY <1>3, Prefix, HasJoined
<1>6. \A i \in Rows : Ends(Pipe(c), i) => <<c, i>> \in lost' \/ Ends(sub'[c].queue, i)
  BY <1>1, <1>3, <1>4, <1>5 DEF q
<1>7. sub'[c].queue \in Seq(Frame) /\ Within(sub'[c].queue, Pipe(c))
  BY <1>1, <1>3, <1>5 DEF q
<1>8. \A i \in DOMAIN tracked : ~tracked[i].gone =>
        <<c, i>> \in lost' \/ (i \in DOMAIN tracked' /\ ~tracked'[i].gone)
  BY <1>1
<1>. QED BY <1>0, <1>2, <1>6, <1>7, <1>8, ClientShrinks

LEMMA ClientTick ==
  ASSUME TypeInv, TaskInv, TickInv, AloneInv, CursorInv, [Next]_vars,
         NEW t \in Pumps, Pump(t) \/ TickFails(t), NEW c \in In, ClientOK(c)
  PROVE  ClientOK(c)'
<1>1. Fresh(c)'
  BY FreshTick DEF ClientOK
<1>2. Ordered(c)' /\ Standing(c)' /\ Heard(c)'
  BY ClientWakes, ClientUpdates, ClientNotified, ClientEdited, ClientPublished, ClientFailed
     DEF Pump
<1>. QED BY <1>1, <1>2 DEF ClientOK

-----------------------------------------------------------------------------
(* What clients and writers do, as long as tasks do not overlap.           *)

\* The hub and the tasks, as the frames see them, are left alone.
HubStays ==
  /\ cursor' = cursor /\ tracked' = tracked
  /\ \A t \in Pumps : /\ pump'[t].pc = pump[t].pc /\ pump'[t].ask = pump[t].ask
                      /\ pump'[t].ids = pump[t].ids /\ pump'[t].all = pump[t].all
                      /\ pump'[t].events = pump[t].events

LEMMA CursorStays ==
  ASSUME HubStays
  PROVE  /\ \A i : (Fetched(i)' <=> Fetched(i)) /\ (Caught(i)' <=> Caught(i))
         /\ CursorInv => CursorInv'
<1>1. \A i : Fetched(i)' <=> Fetched(i)
  BY DEF HubStays, Fetched, BoxOf
<1>2. \A i : Caught(i)' <=> Caught(i)
  BY DEF HubStays, Caught, Early
<1>3. ASSUME CursorInv
      PROVE  CursorInv'
  <2>1. \A t \in Pumps : (pump[t].pc \in Boxes)' => pump'[t].ask = cursor'[pump'[t].pc]
    BY <1>3 DEF CursorInv, HubStays, Boxes, Tracking
  <2>2. \A i \in DOMAIN tracked' : Fetched(i)' /\ ~Caught(i)'
    BY <1>1, <1>2, <1>3 DEF CursorInv, HubStays
  <2>3. \A t \in Pumps : \A i \in pump'[t].ids : Fetched(i)'
    BY <1>1, <1>3 DEF CursorInv, HubStays
  <2>4. \A t \in Pumps, i \in Rows :
          Has(pump[t].events, i)' \/ Ends(pump[t].events, i)' => Fetched(i)'
    <3> SUFFICES ASSUME NEW t \in Pumps, NEW i \in Rows,
                        Has(pump'[t].events, i) \/ Ends(pump'[t].events, i)
                 PROVE  Fetched(i)'
      BY DEF Has, Ends
    <3>. QED BY <1>1, <1>3 DEF CursorInv, HubStays
  <2>. QED BY <2>1, <2>2, <2>3, <2>4 DEF CursorInv, Boxes
<1>. QED BY <1>1, <1>2, <1>3

\* Who pays for the hub and the tasks to move: the task, and clients that come
\* first or leave last.
LEMMA HubMoves ==
  ASSUME TypeInv, NEW d \in Clients, Socket(d)
  PROVE  \/ HubStays /\ pump' = pump /\ task' = task
         \/ Seed(d)
         \/ HubStays /\ Stops(d)
<1>1. CASE Connect(d) \/ Register(d) \/ SeedFails(d) \/ Send(d) \/ Leave(d)
           \/ (\E k \in Wanted[d] : Subscribe(d, k))
           \/ (\E k \in sub[d].streams : Unsubscribe(d, k))
  BY <1>1 DEF Connect, Register, SeedFails, Send, Leave, Subscribe, Unsubscribe, hub, HubStays
<1>2. CASE Unregister(d)
  <2>1. cursor' = cursor /\ tracked' = tracked
    BY <1>2 DEF Unregister
  <2>2. CASE Registered = {d} /\ task # NoTask
    <3>1. task \in Pumps
      BY <2>2 DEF TypeInv, HubType
    <3>2. Stops(d)
      BY <1>2, <2>2, <3>1 DEF Stops, Unregister
    <3>3. HubStays
      BY <2>1, <3>1, <3>2, StopDoes DEF Stops, HubStays
    <3>. QED BY <3>2, <3>3
  <2>3. CASE ~(Registered = {d} /\ task # NoTask)
    BY <1>2, <2>1, <2>3 DEF Unregister, HubStays
  <2>. QED BY <2>2, <2>3
<1>. QED BY <1>1, <1>2 DEF Socket

LEMMA QuietHub ==
  ASSUME UNCHANGED vars \/ \E i \in Rows : Write(i)
  PROVE  /\ HubStays /\ pump' = pump /\ task' = task /\ sub' = sub
         /\ view' = view /\ lost' = lost /\ overlap' = overlap
BY DEF Write, Insert, Edit, Delete, Prune, vars, hub, history, HubStays

\* A step of somebody else, which leaves the task alone.
LEMMA ClientStays ==
  ASSUME NEW c \in Clients, ClientOK(c), task \in Pumps, task' = task, HubStays,
         sub'[c] = sub[c], view'[c] = view[c], \A i \in Rows : <<c, i>> \in lost => <<c, i>> \in lost'
  PROVE  ClientOK(c)'
<1> DEFINE P == Pipe(c)
<1>0. Pipe(c)' = P
  BY DEF Pipe, HubStays
<1>1. /\ Clean(P)
      /\ \A i \in Rows : view[c][i] \in {"told", "removed"} => ~Has(P, i)
      /\ \A i \in Rows : sub[c].streams # {} /\ (view[c][i] \in {"loaded", "told"} \/ Has(P, i))
                         => Stands(c, i)
      /\ \A i \in Rows : \A n \in DOMAIN P : Deletion(P[n], i) => Hears(c, i, P[n].streams)
      /\ pump[task].pc \in EditPcs => \A i \in Rows :
           i \in DOMAIN tracked => Hears(c, i, pump[task].all)
      /\ Fresh(c)
  BY DEF ClientOK, Ordered, Standing, Heard
<1>2. \A i : Stands(c, i) <=> <<c, i>> \in lost \/ (i \in DOMAIN tracked /\ ~tracked[i].gone)
                              \/ Ends(P, i)
  BY DEF Stands
<1>3. /\ pump'[task'].pc = pump[task].pc /\ pump'[task'].all = pump[task].all
      /\ tracked' = tracked
  BY DEF HubStays
<1> HIDE DEF P
<1>4. Ordered(c)'
  BY <1>0, <1>1, <1>3, NextOrdered
<1>5. Standing(c)'
  BY <1>0, <1>1, <1>2, <1>3, NextStanding
<1>6. Heard(c)'
  BY <1>0, <1>1, <1>3, NextHeard DEF Hears
<1>7. Fresh(c)'
  BY <1>1, CursorStays, NextFresh DEF Fresh
<1>. QED BY <1>4, <1>5, <1>6, <1>7 DEF ClientOK

LEMMA OverlapGrows ==
  ASSUME TypeInv, [Next]_vars, ~overlap'
  PROVE  /\ ~overlap
         /\ \A c \in Clients : Register(c) => \A t \in Pumps : Running(t) => t = task
<1>1. CASE \E t \in Pumps : Pump(t) \/ TickFails(t)
  <2>1. overlap' = overlap
    BY <1>1, TickQuiet
  <2>2. \A c \in Clients : Register(c) => ~overlap /\ \A t \in Pumps : Running(t) => t = task
    BY DEF Register
  <2>. QED BY <2>1, <2>2
<1>2. CASE UNCHANGED vars \/ \E i \in Rows : Write(i)
  <2>1. overlap' = overlap
    BY <1>2, QuietHub
  <2>2. \A c \in Clients : Register(c) => \A t \in Pumps : Running(t) => t = task
    BY DEF Register
  <2>. QED BY <2>1, <2>2
<1>3. ASSUME NEW d \in Clients, Socket(d)
      PROVE  ~overlap
  BY <1>3 DEF Socket, Connect, Register, Seed, SeedFails, Send, Leave, Unregister, Subscribe,
              Unsubscribe, history
<1>4. \A c \in Clients : Register(c) => \A t \in Pumps : Running(t) => t = task
  BY DEF Register
<1>. QED BY <1>1, <1>2, <1>3, <1>4 DEF Next

LEMMA AloneSocket ==
  ASSUME TypeInv, TaskInv, TickInv, AloneInv, [Next]_vars, ~overlap',
         NEW d \in Clients, Socket(d)
  PROVE  AloneInv'
<1>0. /\ \A c \in Clients \ {d} : sub'[c] = sub[c]
      /\ \A c \in Clients : sub[c].pc \in {"out", "waiting"} => sub[c].queue = <<>>
  BY SocketDoes DEF TypeInv, SubType
<1>1. \A c \in Clients : sub'[c].pc = "seeding" => sub'[c].queue = <<>>
  <2> SUFFICES ASSUME NEW c \in Clients, sub'[c].pc = "seeding"
               PROVE  sub'[c].queue = <<>>
    OBVIOUS
  <2>1. CASE c # d
    BY <1>0, <2>1 DEF AloneInv
  <2>2. CASE c = d
    <3>1. Register(d) /\ sub'[d].queue = sub[d].queue
      BY <2>2, SocketDoes
    <3>2. sub[d].pc = "waiting"
      BY <3>1 DEF Register
    <3>. QED BY <1>0, <2>2, <3>1, <3>2
  <2>. QED BY <2>1, <2>2
<1>2. CASE Seed(d)
  <2>1. sub[d].pc = "seeding" /\ d \in Registered /\ task = NoTask
    BY <1>2 DEF Seed, Registered, TaskInv
  <2>2. \A t \in Pumps : ~Running(t)
    BY <2>1, RowsAssumption DEF AloneInv
  <2>3. PICK t \in Pumps : Set(t, Asleep) /\ task' = t
    BY <1>2 DEF Seed
  <2>4. \A u \in Pumps \ {t} : pump'[u] = pump[u]
    BY <2>3, SeedDoes
  <2>5. \A u \in Pumps : Running(u)' => u = t
    BY <2>2, <2>4 DEF Running
  <2>. QED BY <1>1, <2>3, <2>5 DEF AloneInv
<1>3. CASE HubStays
  <2>1. \A t \in Pumps : Running(t)' <=> Running(t)
    BY <1>3 DEF HubStays, Running
  <2>2. CASE task' = task /\ pump' = pump
    <3>1. CASE Register(d)
      <4>1. \A t \in Pumps : Running(t) => t = task
        BY <3>1, OverlapGrows
      <4>. QED BY <1>1, <2>1, <2>2, <4>1 DEF AloneInv
    <3>2. CASE ~Register(d)
      <4>1. sub'[d].pc \in {"out", "waiting"} \/ (sub'[d].pc \in {"in", "leaving", "leaked"}
                                                  /\ d \in Registered)
        BY <3>2, SocketDoes DEF Registered, Seed, SeedFails, Send, Leave, Subscribe, Unsubscribe
      <4>2. Registered' \subseteq Registered
        BY <1>0, <4>1 DEF Registered
      <4>. QED BY <1>1, <2>1, <2>2, <4>2 DEF AloneInv
    <3>. QED BY <3>1, <3>2
  <2>3. CASE Stops(d)
    <3>1. Registered = {d} /\ sub'[d].pc = "out"
      BY <2>3 DEF Stops, Unregister, Gone, TypeInv, SubType
    <3>2. Registered' = {}
      BY <1>0, <3>1 DEF Registered
    <3>. QED BY <1>1, <2>1, <3>2 DEF AloneInv
  <2>. QED BY <1>2, <1>3, <2>2, <2>3, HubMoves
<1>. QED BY <1>2, <1>3, HubMoves

LEMMA CursorSocket ==
  ASSUME TypeInv, TaskInv, TickInv, AloneInv, CursorInv, [Next]_vars,
         NEW d \in Clients, Socket(d)
  PROVE  CursorInv'
<1>1. CASE HubStays
  BY <1>1, CursorStays
<1>2. CASE Seed(d)
  <2>1. sub[d].pc = "seeding" /\ d \in Registered /\ task = NoTask
    BY <1>2 DEF Seed, Registered, TaskInv
  <2>2. \A t \in Pumps : ~Running(t)
    BY <2>1, RowsAssumption DEF AloneInv
  <2>3. PICK t \in Pumps : Set(t, Asleep) /\ task' = t
    BY <1>2 DEF Seed
  <2>4. pump'[t] = Asleep /\ \A u \in Pumps \ {t} : pump'[u] = pump[u]
    BY <2>3, SeedDoes
  <2>5. \A u \in Pumps : pump'[u].pc \in Idle
    BY <2>2, <2>4 DEF Running, Idle, Asleep, NoPump
  <2>6. TickInv'
    BY TickInvStep
  <2>7. \A u \in Pumps : pump'[u].ids = {} /\ pump'[u].events = <<>> /\ pump'[u].pc \notin Boxes
    BY <2>5, <2>6 DEF TickInv, Idle, Boxes, Tracking
  <2>8. \A i \in DOMAIN tracked' : Fetched(i)'
    <3> SUFFICES ASSUME NEW i \in DOMAIN Seeds
                 PROVE  i <= cursor'[BoxOf(i)]
      BY <1>2 DEF Seed, Fetched, BoxOf
    <3>1. i \in InBox(BoxOf(i)) /\ BoxOf(i) \in Boxes /\ i \in Rows
      BY SeedsAre, RowsAssumption DEF BoxOf
    <3>2. cursor'[BoxOf(i)] = Largest(InBox(BoxOf(i)))
      BY <1>2, <3>1 DEF Seed
    <3>3. InBox(BoxOf(i)) \in SUBSET Rows
      BY DEF InBox
    <3>. QED BY <3>1, <3>2, <3>3, RowsAreNumbers, LargestIs
  <2>9. \A i : ~Caught(i)'
    BY <2>7 DEF Caught
  <2>a. \A u \in Pumps, i \in Rows : ~Has(pump[u].events, i)' /\ ~Ends(pump[u].events, i)'
    BY <2>7, IdleIs DEF Has, Ends
  <2>. QED BY <2>7, <2>8, <2>9, <2>a DEF CursorInv
<1>. QED BY <1>1, <1>2, HubMoves

\* The first client loads what the hub tracks; nothing is on its way.
LEMMA ClientSeeds ==
  ASSUME TypeInv, TaskInv, TickInv, AloneInv, CursorInv', [Next]_vars,
         NEW c \in Clients, Seed(c)
  PROVE  ClientOK(c)'
<1>1. PICK t \in Pumps : Set(t, Asleep) /\ task' = t
  BY DEF Seed
<1>2. pump'[t] = Asleep
  BY <1>1, SeedDoes
<1>3. sub'[c].queue = <<>>
  BY SocketDoes DEF Seed, AloneInv, Socket
<1>4. pump'[task'].events = <<>> /\ pump'[task'].pc \notin EditPcs
  BY <1>1, <1>2, EmptyIs DEF Empty, EditPcs
<1>5. Pipe(c)' = <<>>
  BY <1>3, <1>4, IdleIs, ConcatEmptySeq DEF Pipe
<1>6. tracked' = Seeds /\ view'[c] = Screen(Seeds)
  BY DEF Seed, TypeInv, HistoryType
<1>7. \A i \in Rows : /\ view'[c][i] \in {"loaded", "none"}
                      /\ view'[c][i] = "loaded" => i \in DOMAIN tracked' /\ ~tracked'[i].gone
  BY <1>6 DEF Screen
<1>8. /\ DOMAIN <<>> = {} /\ \A i : ~Has(<<>>, i) /\ ~Ends(<<>>, i)
      /\ Clean(<<>>)
  BY IdleIs, CleanStart DEF Has, Ends
<1>9. Fresh(c)'
  <2>1. \A i \in DOMAIN tracked' : Fetched(i)' /\ ~Caught(i)'
    BY DEF CursorInv
  <2>. QED BY <1>3, <1>7, <1>8, <2>1, NextFresh
<1>a. Ordered(c)'
  BY <1>5, <1>7, <1>8, NextOrdered
<1>b. Standing(c)'
  BY <1>5, <1>7, <1>8, NextStanding
<1>c. Heard(c)'
  BY <1>4, <1>5, <1>8, NextHeard
<1>. QED BY <1>9, <1>a, <1>b, <1>c DEF ClientOK

\* A client that comes later loads what the hub tracks; it may miss what the
\* tick under way is about.
LEMMA ClientJoins ==
  ASSUME TypeInv, TaskInv, TickInv, CursorInv, [Next]_vars,
         NEW c \in Clients, Register(c), sub'[c].pc = "in"
  PROVE  ClientOK(c)'
<1>0. /\ sub[c].pc = "waiting" /\ task # NoTask /\ task \in Pumps
      /\ sub'[c].queue = sub[c].queue
  BY SocketDoes DEF Socket, Register, TypeInv, HubType
<1>1. sub'[c].queue = <<>> /\ task' = task /\ pump' = pump /\ tracked' = tracked
  BY <1>0 DEF TypeInv, SubType, Register, hub
<1> DEFINE E == pump[task].events
<1>2. Pipe(c)' = E /\ E \in Seq(Frame)
  <2>1. E \in Seq(Frame)
    BY <1>0, TickIs
  <2>2. Pipe(c)' = <<>> \o E
    BY <1>1 DEF Pipe
  <2>. QED BY <2>1, <2>2, ConcatEmptySeq
<1>3. view'[c] = Screen(tracked)
  BY <1>0 DEF Register, TypeInv, HistoryType
<1>4. \A i \in Rows : /\ view'[c][i] \in {"loaded", "none"}
                      /\ view'[c][i] = "loaded" => i \in DOMAIN tracked /\ ~tracked[i].gone
  BY <1>3 DEF Screen
<1>5. \A i \in InFlight : <<c, i>> \in lost'
  BY DEF Register
<1>6. Ids(E) \subseteq InFlight
  BY <1>0 DEF InFlight
<1>7. pump[task].pc \in EditPcs => DOMAIN tracked \subseteq InFlight
  BY <1>0 DEF InFlight, TickInv
<1>8. Clean(E)
  BY <1>0 DEF TickInv
<1>9. \A i : Has(E, i) \/ Ends(E, i) => <<c, i>> \in lost'
  <2>1. \A i : Has(E, i) \/ Ends(E, i) => i \in Ids(E)
    BY DEF Has, Ends, Update, Deletion, Ids
  <2>. QED BY <1>5, <1>6, <2>1
<1> HIDE DEF E
<1>a. Fresh(c)'
  <2>1. HubStays
    BY <1>1 DEF HubStays, Register, hub
  <2>2. \A i \in DOMAIN tracked : Fetched(i)' /\ ~Caught(i)'
    BY <2>1, CursorStays DEF CursorInv
  <2>3. \A i : ~Has(<<>>, i) /\ ~Ends(<<>>, i)
    BY IdleIs DEF Has, Ends
  <2>. QED BY <1>1, <1>4, <2>2, <2>3, NextFresh
<1>b. Ordered(c)'
  BY <1>2, <1>4, <1>8, NextOrdered
<1>c. Standing(c)'
  BY <1>1, <1>2, <1>4, <1>9, NextStanding
<1>d. Heard(c)'
  <2>1. \A i \in Rows : \A n \in DOMAIN E :
          Deletion(E[n], i) => <<c, i>> \in lost' \/ sub'[c].streams \subseteq E[n].streams
    BY <1>9 DEF Ends
  <2>2. pump'[task'].pc \in EditPcs => \A i \in Rows : i \in DOMAIN tracked'
          => <<c, i>> \in lost' \/ sub'[c].streams \subseteq pump'[task'].all
    BY <1>1, <1>5, <1>7
  <2>. QED BY <1>2, <2>1, <2>2, NextHeard
<1>. QED BY <1>a, <1>b, <1>c, <1>d DEF ClientOK

\* More streams: all that was fetched before may be missed.
LEMMA ClientSubscribes ==
  ASSUME TypeInv, CursorInv, NEW c \in Clients, NEW k, Subscribe(c, k), c \in In,
         ClientOK(c), task \in Pumps
  PROVE  ClientOK(c)'
<1>1. /\ HubStays /\ task' = task /\ pump' = pump /\ view' = view
      /\ sub'[c].queue = sub[c].queue /\ lost' = lost \cup {c} \X Past
  BY DEF Subscribe, hub, HubStays, TypeInv, SubType
<1> DEFINE P == Pipe(c)
           q == sub[c].queue
           E == pump[task].events
<1>2. Pipe(c)' = P /\ P = q \o E /\ q \in Seq(Frame) /\ E \in Seq(Frame)
  BY <1>1, TickIs, SocketIs DEF Pipe
<1>3. ASSUME NEW i \in Rows, Fetched(i)
      PROVE  <<c, i>> \in lost'
  <2>1. BoxOf(i) \in Boxes
    BY RowsAssumption DEF BoxOf
  <2>2. cursor[BoxOf(i)] \in Nat /\ i \in Nat
    BY <2>1, RowsAreNumbers DEF TypeInv, HubType, Known
  <2>3. ~Ahead(i)
    BY <1>3, <2>2 DEF Fetched, Ahead
  <2>. QED BY <1>1, <2>3 DEF Past
<1>4. /\ Clean(P)
      /\ \A i \in Rows : view[c][i] \in {"told", "removed"} => ~Has(P, i)
      /\ Fresh(c)
  BY DEF ClientOK, Ordered
<1>5. ASSUME NEW i \in Rows, view[c][i] # "none" \/ Has(P, i) \/ Ends(P, i)
      PROVE  <<c, i>> \in lost'
  <2>1. CASE view[c][i] # "none" \/ Has(q, i) \/ Ends(q, i)
    BY <1>3, <1>4, <2>1 DEF Fresh
  <2>2. CASE Has(E, i) \/ Ends(E, i)
    BY <1>3, <2>2 DEF CursorInv
  <2> HIDE DEF q, E
  <2>3. (Has(q \o E, i) <=> Has(q, i) \/ Has(E, i)) /\ (Ends(q \o E, i) <=> Ends(q, i) \/ Ends(E, i))
    BY <1>2, HasJoined
  <2>. QED BY <1>2, <1>5, <2>1, <2>2, <2>3
<1>6. \A i \in DOMAIN tracked' : i \in Rows => <<c, i>> \in lost'
  BY <1>1, <1>3 DEF CursorInv, HubStays
<1> HIDE DEF P, q, E
<1>7. Fresh(c)'
  BY <1>1, <1>4, CursorStays, NextFresh DEF Fresh
<1>8. Ordered(c)'
  BY <1>1, <1>2, <1>4, NextOrdered
<1>9. Standing(c)'
  BY <1>1, <1>2, <1>5, NextStanding
<1>a. Heard(c)'
  <2>1. \A i \in Rows : \A n \in DOMAIN P :
          Deletion(P[n], i) => <<c, i>> \in lost' \/ sub'[c].streams \subseteq P[n].streams
    BY <1>5 DEF Ends
  <2>. QED BY <1>2, <1>6, <2>1, NextHeard
<1>. QED BY <1>7, <1>8, <1>9, <1>a DEF ClientOK

\* Fewer streams: the client is for less.
LEMMA ClientUnsubscribes ==
  ASSUME TypeInv, NEW c \in Clients, NEW k, Unsubscribe(c, k), c \in In,
         ClientOK(c), task \in Pumps
  PROVE  ClientOK(c)'
<1>1. /\ HubStays /\ task' = task /\ pump' = pump /\ view' = view
      /\ sub'[c].queue = sub[c].queue /\ lost \subseteq lost'
      /\ sub'[c].streams = sub[c].streams \ {k}
  BY DEF Unsubscribe, hub, HubStays, TypeInv, SubType
<1> DEFINE P == Pipe(c)
<1>2. Pipe(c)' = P
  BY <1>1 DEF Pipe
<1>3. /\ Clean(P)
      /\ \A i \in Rows : view[c][i] \in {"told", "removed"} => ~Has(P, i)
      /\ \A i \in Rows : sub[c].streams # {} /\ (view[c][i] \in {"loaded", "told"} \/ Has(P, i))
                         => Stands(c, i)
      /\ \A i \in Rows : \A n \in DOMAIN P : Deletion(P[n], i) => Hears(c, i, P[n].streams)
      /\ pump[task].pc \in EditPcs => \A i \in Rows :
           i \in DOMAIN tracked => Hears(c, i, pump[task].all)
      /\ Fresh(c)
  BY DEF ClientOK, Ordered, Standing, Heard
<1>4. \A i : Stands(c, i) <=> <<c, i>> \in lost \/ (i \in DOMAIN tracked /\ ~tracked[i].gone)
                              \/ Ends(P, i)
  BY DEF Stands
<1>5. tracked' = tracked
  BY <1>1 DEF HubStays
<1> HIDE DEF P
<1>6. Fresh(c)'
  BY <1>1, <1>3, CursorStays, NextFresh DEF Fresh
<1>7. Ordered(c)'
  BY <1>1, <1>2, <1>3, NextOrdered
<1>8. Standing(c)'
  BY <1>1, <1>2, <1>3, <1>4, <1>5, NextStanding
<1>9. Heard(c)'
  BY <1>1, <1>2, <1>3, <1>5, NextHeard DEF Hears
<1>. QED BY <1>6, <1>7, <1>8, <1>9 DEF ClientOK

\* What a frame does to the screen of a client that the stream was clean for.
LEMMA SendDoes ==
  ASSUME TypeInv, NEW c \in Clients, Send(c),
         NEW e, e = Head(sub[c].queue), e \in Frame,
         e.event = "update" => view[c][e.id] \notin {"told", "removed", "twice", "ghost"}
  PROVE  /\ \A d \in Clients \ {c} : view'[d] = view[d]
         /\ \A i \in Rows :
              \/ view'[c][i] = view[c][i]
                 /\ ~(i = e.id /\ e.event = "delete" /\ e.streams \cap sub[c].streams # {})
              \/ i = e.id /\ e.event = "update" /\ view'[c][i] = "told"
              \/ i = e.id /\ e.event = "delete" /\ view'[c][i] = "removed"
<1> DEFINE heard == e.streams \cap sub[c].streams # {}
           w == CASE e.event = "delete" -> "removed"
                  [] e.event = "update" /\ view[c][e.id] \in {"removed", "ghost"} -> "ghost"
                  [] e.event = "update" /\ view[c][e.id] \in {"told", "twice"} -> "twice"
                  [] OTHER -> "told"
<1>1. /\ view \in [Clients -> [Rows -> {"none", "loaded", "told", "removed", "twice", "ghost"}]]
      /\ e.id \in Rows
  BY DEF TypeInv, HistoryType, Frame
<1>2. CASE ~heard \/ e.event \notin {"update", "delete"}
  <2>1. view' = view
    BY <1>2 DEF Send
  <2>. QED BY <1>2, <2>1
<1>3. CASE heard /\ e.event \in {"update", "delete"}
  <2>1. view' = [view EXCEPT ![c][e.id] = w]
    BY <1>3 DEF Send
  <2>2. /\ e.event = "delete" => w = "removed"
        /\ e.event = "update" => w = "told"
    <3>1. e.event = "delete" => w = "removed"
      OBVIOUS
    <3>2. ASSUME e.event = "update"
          PROVE  w = "told"
      <4> DEFINE v == view[c][e.id]
      <4>1. v \notin {"told", "removed", "twice", "ghost"}
        BY <3>2
      <4>2. w = CASE e.event = "delete" -> "removed"
                  [] e.event = "update" /\ v \in {"removed", "ghost"} -> "ghost"
                  [] e.event = "update" /\ v \in {"told", "twice"} -> "twice"
                  [] OTHER -> "told"
        OBVIOUS
      <4> HIDE DEF w, v
      <4>. QED BY <3>2, <4>1, <4>2
    <3>. QED BY <3>1, <3>2
  <2> HIDE DEF w, heard
  <2>3. /\ \A d \in Clients \ {c} : view'[d] = view[d]
        /\ view'[c] = [view[c] EXCEPT ![e.id] = w]
    BY <1>1, <2>1
  <2>4. \A i \in Rows : IF i = e.id THEN view'[c][i] = w ELSE view'[c][i] = view[c][i]
    BY <1>1, <2>3
  <2>. QED BY <1>3, <2>2, <2>3, <2>4
<1>. QED BY <1>2, <1>3

LEMMA ClientSends ==
  ASSUME TypeInv, ViewInv, NEW c \in Clients, Send(c), ClientOK(c), task \in Pumps
  PROVE  ClientOK(c)' /\ ViewInv'
<1> DEFINE P == Pipe(c)
           q == sub[c].queue
           E == pump[task].events
           e == Head(sub[c].queue)
           r == Tail(sub[c].queue)
           Q == r \o E
           st == sub[c].streams
<1>1. /\ HubStays /\ task' = task /\ pump' = pump /\ tracked' = tracked /\ lost' = lost
      /\ sub'[c].queue = r /\ sub'[c].streams = st /\ q # <<>>
  <2>1. sub'[c].queue = r /\ sub'[c].streams = st
    BY DEF Send, TypeInv, SubType, SocketType
  <2>2. task' = task /\ pump' = pump /\ tracked' = tracked /\ lost' = lost /\ q # <<>>
        /\ cursor' = cursor
    BY DEF Send, hub
  <2>. QED BY <2>1, <2>2 DEF HubStays
<1>2. Pipe(c)' = Q /\ P = q \o E /\ q \in Seq(Frame) /\ E \in Seq(Frame)
  BY <1>1, TickIs, SocketIs DEF Pipe
<1>3. /\ Clean(P)
      /\ \A i \in Rows : view[c][i] \in {"told", "removed"} => ~Has(P, i)
      /\ \A i \in Rows : st # {} /\ (view[c][i] \in {"loaded", "told"} \/ Has(P, i))
                         => Stands(c, i)
      /\ \A i \in Rows : \A n \in DOMAIN P : Deletion(P[n], i) =>
           <<c, i>> \in lost \/ st \subseteq P[n].streams
      /\ pump[task].pc \in EditPcs => \A i \in Rows :
           i \in DOMAIN tracked => <<c, i>> \in lost \/ st \subseteq pump[task].all
      /\ \A i \in Rows : ~Fetched(i) \/ Caught(i)
           => view[c][i] = "none" /\ ~Has(q, i) /\ ~Ends(q, i)
  BY DEF ClientOK, Ordered, Standing, Heard, Hears, Fresh
<1>4. \A i : Stands(c, i) <=> <<c, i>> \in lost \/ (i \in DOMAIN tracked /\ ~tracked[i].gone)
                              \/ Ends(P, i)
  BY DEF Stands
<1>e. \A i : ~Has(P, i) => ~(\E n \in DOMAIN P : Update(P[n], i))
  BY DEF Has
<1> DEFINE R == q \o E
<1>f. P = R
  BY <1>2
<1> HIDE DEF P
<1>5. /\ 1 \in DOMAIN q /\ e = q[1] /\ e \in Frame
      /\ Within(Q, R) /\ Within(r, q)
      /\ \A n \in DOMAIN q : n = 1 \/ (n - 1 \in DOMAIN r /\ r[n - 1] = q[n])
      /\ \A n \in DOMAIN r : n + 1 \in DOMAIN q /\ r[n] = q[n + 1]
      /\ \A n \in DOMAIN Q : n + 1 \in DOMAIN R /\ Q[n] = R[n + 1]
      /\ r \in Seq(Frame)
  <2>1. /\ 1 \in DOMAIN q /\ e = q[1] /\ e \in Frame /\ r \in Seq(Frame)
        /\ Within(Q, R)
        /\ \A n \in DOMAIN q : n = 1 \/ (n - 1 \in DOMAIN r /\ r[n - 1] = q[n])
        /\ \A n \in DOMAIN r : n + 1 \in DOMAIN q /\ r[n] = q[n + 1]
        /\ \A n \in DOMAIN Q : n + 1 \in DOMAIN R /\ Q[n] = R[n + 1]
    <3> HIDE DEF q, E
    <3>. QED BY <1>1, <1>2, SentWithin DEF q
  <2>2. Within(r \o <<>>, q \o <<>>)
    BY <1>1, <1>2, <2>1, IdleIs, SentWithin
  <2>3. Within(r, q)
    BY <1>2, <2>1, <2>2, Prefix
  <2>. QED BY <2>1, <2>3
<1> HIDE DEF q, E, e, r
<1>6. /\ DOMAIN R \subseteq Nat /\ DOMAIN Q \subseteq Nat /\ R \in Seq(Frame) /\ Q \in Seq(Frame)
      /\ 1 \in DOMAIN R /\ R[1] = e
      /\ \A n \in DOMAIN R : n = 1 \/ \E m \in DOMAIN Q : Q[m] = R[n]
  <2>1. /\ R \in Seq(Frame) /\ Q \in Seq(Frame) /\ 1 \in DOMAIN R /\ R[1] = e
        /\ DOMAIN R \subseteq Nat /\ DOMAIN Q \subseteq Nat
    BY <1>2, <1>5, Joined
  <2>a. \A m \in DOMAIN r : m \in DOMAIN Q /\ Q[m] = r[m]
    BY <1>2, <1>5, Joined
  <2>b. \A m \in DOMAIN E : Len(r) + m \in DOMAIN Q /\ Q[Len(r) + m] = E[m]
    BY <1>2, <1>5, Joined
  <2>2. ASSUME NEW n \in DOMAIN R, n # 1
        PROVE  \E m \in DOMAIN Q : Q[m] = R[n]
    <3>1. CASE n \in DOMAIN q /\ R[n] = q[n]
      <4>1. n - 1 \in DOMAIN r /\ r[n - 1] = q[n]
        BY <1>5, <2>2, <3>1
      <4>2. n - 1 \in DOMAIN Q /\ Q[n - 1] = r[n - 1]
        BY <2>a, <4>1
      <4>. QED BY <3>1, <4>1, <4>2
    <3>2. CASE n - Len(q) \in DOMAIN E /\ R[n] = E[n - Len(q)]
      <4>1. Len(r) + (n - Len(q)) \in DOMAIN Q /\ Q[Len(r) + (n - Len(q))] = E[n - Len(q)]
        BY <2>b, <3>2
      <4>. QED BY <3>2, <4>1
    <3>. QED BY <1>2, <2>2, <3>1, <3>2, Joined
  <2>. QED BY <2>1, <2>2
<1> HIDE DEF Q, R
\* Nothing about a row comes before its update.
<1>7. ASSUME NEW i, Update(e, i) \/ Deletion(e, i)
      PROVE  ~Has(Q, i)
  <2> SUFFICES ASSUME NEW n \in DOMAIN Q, Update(Q[n], i)
               PROVE  FALSE
    BY DEF Has
  <2>1. /\ n + 1 \in DOMAIN R /\ Q[n] = R[n + 1] /\ 1 \in DOMAIN R /\ R[1] = e
        /\ n \in DOMAIN Q /\ n \in Nat /\ n >= 1
    <3>1. n \in 1..Len(Q)
      BY <1>6
    <3>. QED BY <1>5, <1>6, <3>1
  <2>2. 1 < n + 1
    BY <2>1
  <2>3. R[n + 1].event = "update" /\ R[n + 1].id = i
    BY <2>1 DEF Update
  <2>4. ~Update(R[1], i) /\ ~Deletion(R[1], i)
    BY <1>3, <1>f, <2>1, <2>2, <2>3 DEF Clean
  <2>. QED BY <1>7, <2>1, <2>4
<1>8. Update(e, e.id) => Has(R, e.id)
  BY <1>6 DEF Has
<1>9. e.id \in Rows /\ (e.event = "update" => view[c][e.id] \notin {"told", "removed", "twice", "ghost"})
  <2>1. e.id \in Rows
    BY <1>5 DEF Frame
  <2>2. e.event = "update" => ~(view[c][e.id] \in {"told", "removed"})
    BY <1>3, <1>8, <1>f, <2>1 DEF Update
  <2>. QED BY <2>1, <2>2 DEF ViewInv
<1>a. /\ \A d \in Clients \ {c} : view'[d] = view[d]
      /\ \A i \in Rows :
           \/ view'[c][i] = view[c][i] /\ ~(Deletion(e, i) /\ e.streams \cap st # {})
           \/ Update(e, i) /\ view'[c][i] = "told"
           \/ Deletion(e, i) /\ view'[c][i] = "removed"
  BY <1>5, <1>9, SendDoes DEF e, Update, Deletion
<1> HIDE DEF st
<1>b. ViewInv'
  BY <1>a DEF ViewInv
<1>c. Fresh(c)'
  <2> SUFFICES ASSUME NEW i \in Rows, ~Fetched(i)' \/ Caught(i)'
               PROVE  view'[c][i] = "none" /\ ~Has(r, i) /\ ~Ends(r, i)
    BY <1>1, NextFresh
  <2>1. view[c][i] = "none" /\ ~Has(q, i) /\ ~Ends(q, i)
    BY <1>1, <1>3, CursorStays
  <2>2. ~Update(e, i) /\ ~Deletion(e, i)
    BY <1>5, <2>1 DEF Has, Ends
  <2>3. ~Has(r, i) /\ ~Ends(r, i)
    BY <1>5, <2>1, WithinKeeps
  <2>. QED BY <1>a, <2>1, <2>2, <2>3
<1>g. Clean(Q) /\ \A i : Has(Q, i) => Has(R, i)
  BY <1>3, <1>5, <1>f, WithinKeeps
<1>h. Ordered(c)'
  BY <1>2, <1>3, <1>7, <1>a, <1>f, <1>g, NextOrdered
<1>i. Standing(c)'
  <2> SUFFICES ASSUME NEW i \in Rows, st # {},
                      view'[c][i] \in {"loaded", "told"} \/ Has(Q, i)
               PROVE  \/ <<c, i>> \in lost'
                      \/ i \in DOMAIN tracked' /\ ~tracked'[i].gone
                      \/ Ends(Q, i)
    BY <1>1, <1>2, NextStanding
  <2>1. Update(e, i) => Has(R, i)
    BY <1>6 DEF Has
  <2>2. Stands(c, i)
    BY <1>3, <1>a, <1>f, <1>g, <2>1
  <2>3. CASE Ends(R, i)
    <3>1. PICK n \in DOMAIN R : Deletion(R[n], i)
      BY <2>3 DEF Ends
    <3>2. CASE n = 1
      <4>1. Deletion(e, i)
        BY <1>6, <3>1, <3>2
      <4>2. ~Has(Q, i)
        BY <1>7, <4>1
      <4>3. ~Update(e, i)
        BY <4>1 DEF Update, Deletion
      <4>4. ~(e.streams \cap st # {})
        BY <1>a, <4>1, <4>2, <4>3
      <4>5. <<c, i>> \in lost \/ st \subseteq e.streams
        BY <1>3, <1>6, <1>f, <4>1
      <4>. QED BY <1>1, <4>4, <4>5
    <3>3. CASE n # 1
      BY <1>6, <3>1, <3>3 DEF Ends
    <3>. QED BY <3>2, <3>3
  <2>. QED BY <1>1, <1>4, <1>f, <2>2, <2>3
<1>j. Heard(c)'
  <2>1. ASSUME NEW i \in Rows, NEW n \in DOMAIN Q, Deletion(Q[n], i)
        PROVE  <<c, i>> \in lost' \/ sub'[c].streams \subseteq Q[n].streams
    BY <1>1, <1>3, <1>5, <1>f, <2>1 DEF R, Q
  <2>. QED BY <1>1, <1>2, <1>3, <2>1, NextHeard
<1>. QED BY <1>b, <1>c, <1>h, <1>i, <1>j DEF ClientOK

LEMMA ViewSocket ==
  ASSUME TypeInv, TaskInv, OrderInv, [Next]_vars, NEW d \in Clients, Socket(d)
  PROVE  ViewInv'
<1>1. CASE Send(d)
  <2>1. d \in In /\ task \in Pumps
    BY <1>1 DEF Send, In, TaskInv, TypeInv, HubType
  <2>. QED BY <1>1, <2>1, ClientSends DEF OrderInv
<1>2. ASSUME NEW T, view' = [view EXCEPT ![d] = Screen(T)]
      PROVE  ViewInv'
  BY <1>2 DEF OrderInv, ViewInv, Screen, TypeInv, HistoryType
<1>3. CASE Register(d)
  <2>1. view' = [view EXCEPT ![d] = Screen(tracked)] \/ view' = view
    BY <1>3 DEF Register, TypeInv, HistoryType
  <2>. QED BY <1>2, <2>1 DEF OrderInv, ViewInv
<1>4. CASE Seed(d)
  BY <1>2, <1>4 DEF Seed
<1>5. CASE Connect(d)
  BY <1>5 DEF Connect, OrderInv, ViewInv, Blank, TypeInv, HistoryType
<1>6. CASE SeedFails(d) \/ Leave(d) \/ Unregister(d)
           \/ (\E k \in Wanted[d] : Subscribe(d, k))
           \/ (\E k \in sub[d].streams : Unsubscribe(d, k))
  <2>1. view' = view
    BY <1>6 DEF SeedFails, Leave, Unregister, Subscribe, Unsubscribe, history
  <2>. QED BY <2>1 DEF OrderInv, ViewInv
<1>. QED BY <1>1, <1>3, <1>4, <1>5, <1>6 DEF Socket

LEMMA ClientSocket ==
  ASSUME TypeInv, TaskInv, TickInv, OrderInv, CursorInv', [Next]_vars,
         NEW d \in Clients, Socket(d), NEW c \in Clients, sub'[c].pc = "in"
  PROVE  ClientOK(c)'
<1>0. task \in Pumps \cup {NoTask} /\ NoTask \notin Pumps
  BY RowsAssumption DEF TypeInv, HubType
<1>1. CASE c # d
  <2>1. sub'[c] = sub[c] /\ c \in In /\ c \in Registered /\ task \in Pumps
    BY <1>0, <1>1, SocketDoes DEF In, Registered, TaskInv
  <2>2. ~Seed(d)
    BY <1>0, <2>1 DEF Seed, TaskInv
  <2>3. ~Stops(d)
    BY <1>1, <2>1 DEF Stops
  <2>4. HubStays /\ task' = task
    BY <2>2, <2>3, HubMoves
  <2>5. CASE Send(d)
    <3>1. d \in In
      BY <2>5 DEF Send, In
    <3>2. view'[c] = view[c]
      BY <1>1, <2>5 DEF Send, TypeInv, HistoryType
    <3>3. lost' = lost
      BY <2>5 DEF Send
    <3>. QED BY <2>1, <2>4, <3>2, <3>3, ClientStays DEF OrderInv
  <2>6. CASE ~Send(d)
    <3>1. view'[c] = view[c]
      BY <1>1, <2>2, <2>6 DEF Socket, Connect, Register, SeedFails, Leave, Unregister,
           Subscribe, Unsubscribe, TypeInv, HistoryType, history
    <3>2. \A i \in Rows : <<c, i>> \in lost => <<c, i>> \in lost'
      BY <1>1, <2>2, <2>6 DEF Socket, Connect, Register, SeedFails, Leave, Unregister,
           Subscribe, Unsubscribe, history
    <3>. QED BY <2>1, <2>4, <3>1, <3>2, ClientStays DEF OrderInv
  <2>. QED BY <2>5, <2>6
<1>2. CASE c = d
  <2>1. \/ Register(c) \/ Seed(c)
        \/ (Send(c) \/ (\E k \in Wanted[c] : Subscribe(c, k))
                    \/ (\E k \in sub[c].streams : Unsubscribe(c, k)))
           /\ c \in In /\ task \in Pumps
    <3>1. \/ Register(c) \/ Seed(c) \/ Send(c) \/ (\E k \in Wanted[c] : Subscribe(c, k))
          \/ (\E k \in sub[c].streams : Unsubscribe(c, k))
      BY <1>2, SocketDoes
    <3>2. Send(c) \/ (\E k \in Wanted[c] : Subscribe(c, k))
          \/ (\E k \in sub[c].streams : Unsubscribe(c, k)) => sub[c].pc = "in"
      BY DEF Send, Subscribe, Unsubscribe
    <3>3. sub[c].pc = "in" => c \in In /\ task \in Pumps
      BY <1>0 DEF In, TaskInv
    <3>. QED BY <3>1, <3>2, <3>3
  <2>2. CASE Register(c)
    BY <2>2, ClientJoins DEF OrderInv
  <2>3. CASE Seed(c)
    BY <2>3, ClientSeeds DEF OrderInv
  <2>4. CASE Send(c) /\ c \in In /\ task \in Pumps
    BY <2>4, ClientSends DEF OrderInv
  <2>5. CASE (\E k \in Wanted[c] : Subscribe(c, k)) /\ c \in In /\ task \in Pumps
    BY <2>5, ClientSubscribes DEF OrderInv
  <2>6. CASE (\E k \in sub[c].streams : Unsubscribe(c, k)) /\ c \in In /\ task \in Pumps
    BY <2>6, ClientUnsubscribes DEF OrderInv
  <2>. QED BY <2>1, <2>2, <2>3, <2>4, <2>5, <2>6
<1>. QED BY <1>1, <1>2

LEMMA AloneStep ==
  ASSUME TypeInv, TaskInv, TickInv, AloneThen, [Next]_vars
  PROVE  AloneThen'
<1> SUFFICES ASSUME ~overlap'
             PROVE  OrderInv'
  BY DEF AloneThen
<1>0. OrderInv /\ AloneInv /\ CursorInv /\ ViewInv /\ \A c \in In : ClientOK(c)
  BY OverlapGrows DEF AloneThen, OrderInv
<1>c. In' \subseteq Clients /\ \A c \in In' : sub'[c].pc = "in"
  BY DEF In
<1>1. ASSUME NEW t \in Pumps, Pump(t) \/ TickFails(t)
      PROVE  OrderInv'
  <2>1. AloneInv'
    BY <1>0, <1>1, AloneTick
  <2>2. CursorInv'
    BY <1>0, <1>1, CursorTick
  <2>3. ViewInv'
    BY <1>0, <1>1, TickQuiet DEF ViewInv
  <2>4. \A c \in In' : ClientOK(c)'
    <3>1. In' = In
      BY <1>0, <1>1, RunsAlone
    <3>2. \A c \in In : ClientOK(c)'
      BY <1>0, <1>1, ClientTick
    <3>. QED BY <3>1, <3>2
  <2>. QED BY <2>1, <2>2, <2>3, <2>4 DEF OrderInv
<1>2. ASSUME NEW d \in Clients, Socket(d)
      PROVE  OrderInv'
  <2>1. AloneInv'
    BY <1>0, <1>2, AloneSocket
  <2>2. CursorInv'
    BY <1>0, <1>2, CursorSocket
  <2>3. ViewInv'
    BY <1>0, <1>2, ViewSocket
  <2>4. \A c \in In' : ClientOK(c)'
    BY <1>0, <1>2, <1>c, <2>2, ClientSocket
  <2>. QED BY <2>1, <2>2, <2>3, <2>4 DEF OrderInv
<1>3. CASE UNCHANGED vars \/ \E i \in Rows : Write(i)
  <2>1. /\ HubStays /\ pump' = pump /\ task' = task /\ sub' = sub
        /\ view' = view /\ lost' = lost
    BY <1>3, QuietHub
  <2>2. AloneInv'
    BY <1>0, <2>1 DEF AloneInv, Registered, Running
  <2>3. CursorInv'
    BY <1>0, <2>1, CursorStays
  <2>4. ViewInv'
    BY <1>0, <2>1 DEF ViewInv
  <2>5. ASSUME NEW c \in In'
        PROVE  ClientOK(c)'
    <3>1. c \in In /\ c \in Clients /\ task \in Pumps
      BY <2>1, <2>5 DEF In, TaskInv, TypeInv, HubType
    <3>. QED BY <1>0, <2>1, <3>1, ClientStays
  <2>. QED BY <2>2, <2>3, <2>4, <2>5 DEF OrderInv
<1>. QED BY <1>1, <1>2, <1>3 DEF Next

-----------------------------------------------------------------------------
(* The theorems.                                                           *)

LEMMA Start ==
  ASSUME Init
  PROVE  HubInv
<1>0. /\ row = [i \in Rows |-> [state |-> "none", rev |-> 0]]
      /\ cursor = [b \in Boxes |-> 0] /\ tracked = [i \in {} |-> 0]
      /\ pump = [t \in Pumps |-> NoPump] /\ task = NoTask
      /\ sub = [c \in Clients |-> Gone]
      /\ changes = 0 /\ calls = 0 /\ faults = 0
      /\ view = [c \in Clients |-> Blank]
      /\ lost = {} /\ overlap = FALSE
  BY DEF Init
<1>1. /\ QueueSize \in Nat /\ MaxStreams \in Nat /\ MaxChanges \in Nat /\ MaxCalls \in Nat
      /\ MaxFaults \in Nat /\ SeedTrack \in Nat /\ TrackLimit \in Nat /\ NoTask \notin Pumps
  BY LimitsAssumption, RowsAssumption
<1>2. DOMAIN tracked = {}
  BY <1>0
<1>3. /\ \A t \in Pumps : pump[t] = NoPump /\ pump[t].pc = "done" /\ pump[t].stop = TRUE
                          /\ pump[t].ask = 0 /\ pump[t].ids = {} /\ pump[t].events = <<>>
                          /\ pump[t] \in Tick
      /\ \A c \in Clients : sub[c] = Gone /\ sub[c].pc = "out" /\ sub[c].streams = {}
                            /\ sub[c].queue = <<>>
  BY <1>0, EmptyIs DEF Empty, Gone
<1>4. TypeInv
  <2>1. TableType
    BY <1>0, <1>1 DEF TableType
  <2>2. HubType
    BY <1>0, <1>2 DEF HubType, Known
  <2>3. PumpType
    BY <1>0, <1>3 DEF PumpType, Known
  <2>4. SubType
    <3>1. Gone \in SocketType
      BY IdleIs DEF Gone, SocketType
    <3>2. Len(<<>>) = 0 /\ IsFiniteSet({}) /\ Cardinality({}) = 0
      BY FS_EmptySet
    <3>3. ASSUME NEW c \in Clients
          PROVE  0 <= Max({Cardinality(First[c]), MaxStreams})
      <4>1. Cardinality(First[c]) \in Nat
        BY RowsAssumption, FS_CardinalityType
      <4>. QED BY <1>1, <4>1, MaxOfTwo
    <3>4. sub \in [Clients -> SocketType]
      BY <1>0, <3>1
    <3>5. ASSUME NEW c \in Clients
          PROVE  /\ Len(sub[c].queue) <= QueueSize
                 /\ IsFiniteSet(sub[c].streams)
                 /\ Cardinality(sub[c].streams) <= Max({Cardinality(First[c]), MaxStreams})
                 /\ sub[c].queue = <<>>
      <4>1. sub[c].streams = {} /\ sub[c].queue = <<>>
        BY <1>3
      <4>2. Len(sub[c].queue) = 0 /\ Cardinality(sub[c].streams) = 0
            /\ IsFiniteSet(sub[c].streams)
        BY <3>2, <4>1
      <4>3. QueueSize >= 0
        BY <1>1
      <4>. QED BY <3>3, <4>1, <4>2, <4>3
    <3>. QED BY <3>4, <3>5 DEF SubType
  <2>5. HistoryType
    <3>1. Blank \in [Rows -> {"none", "loaded", "told", "removed", "twice", "ghost"}]
      BY DEF Blank
    <3>2. view \in [Clients -> [Rows -> {"none", "loaded", "told", "removed", "twice", "ghost"}]]
      BY <1>0, <3>1
    <3>3. calls \in Nat /\ calls <= MaxCalls /\ faults \in Nat /\ faults <= MaxFaults
      BY <1>0, <1>1
    <3>4. overlap \in BOOLEAN
      BY <1>0
    <3>. QED BY <3>2, <3>3, <3>4 DEF HistoryType
  <2>. QED BY <2>1, <2>2, <2>3, <2>4, <2>5 DEF TypeInv
<1>5. WindowInv
  <2>1. \A b \in Tracking : TrackedIn(DOMAIN tracked, b) = {}
    BY <1>2 DEF TrackedIn
  <2>2. 0 <= Window
    BY <1>1, MaxOfTwo DEF Window
  <2>. QED BY <2>1, <2>2, FS_EmptySet DEF WindowInv
<1>6. TaskInv
  BY <1>0, <1>1, <1>3 DEF TaskInv, Running
<1>7. TickInv
  BY <1>3, CleanStart DEF TickInv, Idle, EditPcs
<1>8. GoneInv
  BY <1>2 DEF GoneInv
<1>9. SkipInv
  BY <1>3 DEF SkipInv, Owed
<1>a. AloneThen
  <2>1. AloneInv
    BY <1>3 DEF AloneInv, Running, Registered
  <2>2. CursorInv
    BY <1>2, <1>3, IdleIs DEF CursorInv, Boxes, Tracking, Has, Ends
  <2>3. ViewInv
    BY <1>0 DEF ViewInv, Blank
  <2>4. In = {}
    BY <1>3 DEF In
  <2>. QED BY <2>1, <2>2, <2>3, <2>4 DEF AloneThen, OrderInv
<1>. QED BY <1>4, <1>5, <1>6, <1>7, <1>8, <1>9, <1>a DEF HubInv

LEMMA Step ==
  ASSUME HubInv, [Next]_vars
  PROVE  HubInv'
<1>1. TypeInv /\ WindowInv /\ TaskInv /\ TickInv /\ GoneInv /\ SkipInv /\ AloneThen
  BY DEF HubInv
<1>2. TypeInv' /\ WindowInv'
  BY <1>1, TypeStep
<1>3. TaskInv'
  BY <1>1, TaskStep
<1>4. TickInv' /\ GoneInv'
  BY <1>1, TickInvStep, GoneStep
<1>5. SkipInv'
  BY <1>1, SkipStep
<1>6. AloneThen'
  BY <1>1, AloneStep
<1>. QED BY <1>2, <1>3, <1>4, <1>5, <1>6 DEF HubInv

THEOREM Inductive == Spec => []HubInv
<1>1. Init => HubInv
  BY Start
<1>2. HubInv /\ [Next]_vars => HubInv'
  BY Step
<1>. QED BY <1>1, <1>2, PTL DEF Spec

\* The tables, the cursors, the queues and what is tracked keep their types and
\* their limits (Hub.register, Subscriber.offer, EventPump._track).
THEOREM TypeCorrect == Spec => []TypeOK
<1>1. HubInv => TypeOK
  <2> SUFFICES ASSUME HubInv
               PROVE  TypeOK
    OBVIOUS
  <2>1. TypeInv /\ WindowInv
    BY DEF HubInv
  <2>2. row \in [Rows -> [state : {"none", "live", "deleted", "pruned"}, rev : 0..MaxChanges]]
    <3>1. ASSUME NEW i \in Rows
          PROVE  row[i] \in [state : {"none", "live", "deleted", "pruned"}, rev : 0..MaxChanges]
      <4>1. /\ row[i] \in [state : {"none", "live", "deleted", "pruned"}, rev : Nat]
            /\ row[i].rev <= changes /\ changes <= MaxChanges /\ changes \in Nat
            /\ MaxChanges \in Nat
        BY <2>1, LimitsAssumption DEF TypeInv, TableType
      <4>2. row[i].rev \in 0..MaxChanges
        BY <4>1
      <4>. QED BY <4>1, <4>2
    <3>. QED BY <2>1, <3>1 DEF TypeInv, TableType
  <2>3. cursor \in [Boxes -> 0..Largest(Rows)]
    <3>1. Largest(Rows) \in Nat /\ \A i \in Rows : i <= Largest(Rows) /\ i \in Nat
      <4>1. Rows \in SUBSET Nat /\ IsFiniteSet(Rows) /\ \A i \in Rows : i \in Nat
        BY RowsAreNumbers
      <4>2. Largest(Rows) \in Rows \cup {0} /\ \A i \in Rows : i <= Largest(Rows)
        BY <4>1, LargestIs
      <4>3. Largest(Rows) \in Nat
        <5>1. CASE Largest(Rows) \in Rows
          BY <4>1, <5>1
        <5>2. CASE Largest(Rows) = 0
          BY <5>2
        <5>. QED BY <4>2, <5>1, <5>2
      <4>. QED BY <4>1, <4>2, <4>3
    <3>2. ASSUME NEW b \in Boxes
          PROVE  cursor[b] \in 0..Largest(Rows)
      BY <2>1, <3>1 DEF TypeInv, HubType, Known
    <3>3. cursor \in [Boxes -> Nat]
      BY <2>1 DEF TypeInv, HubType
    <3>. QED BY <3>2, <3>3
  <2>4. /\ task \in Pumps \cup {NoTask}
        /\ DOMAIN tracked \subseteq {i \in Rows : BoxOf(i) \in Tracking}
        /\ \A b \in Tracking :
             Cardinality(TrackedIn(DOMAIN tracked, b)) <= Max({SeedTrack, TrackLimit})
    BY <2>1 DEF TypeInv, HubType, WindowInv, Window
  <2>5. /\ \A c \in Clients :
             /\ Len(sub[c].queue) <= QueueSize
             /\ Cardinality(sub[c].streams) <= Max({Cardinality(First[c]), MaxStreams})
        /\ changes <= MaxChanges /\ calls <= MaxCalls /\ faults <= MaxFaults
    BY <2>1 DEF TypeInv, SubType, TableType, HistoryType
  <2>. QED BY <2>2, <2>3, <2>4, <2>5 DEF TypeOK
<1>. QED BY <1>1, Inductive, PTL

\* A connected client is polled for, by one task that will go on (Hub.register,
\* Hub.unregister, EventPump.run).
THEOREM OneTaskPolls == Spec => []OnePump
<1>1. HubInv /\ TypeOK => OnePump
  BY DEF HubInv, TaskInv, OnePump
<1>. QED BY <1>1, Inductive, TypeCorrect, PTL

\* No client is sent an update twice, or of a status it was told to remove,
\* as long as tasks do not overlap (EventPump, Subscriber, _writer_loop).
THEOREM StreamsAreClean == Spec => []CleanStream
<1>1. HubInv => CleanStream
  BY DEF HubInv, AloneThen, OrderInv, ViewInv, CleanStream
<1>. QED BY <1>1, Inductive, PTL

\* A deleted status that a client shows will be removed, or the client may have
\* missed it (_edit_and_delete_events, Hub.publish, Subscriber.offer).
THEOREM DeletionsAreTold == Spec => []DeletesAreTold
<1>1. HubInv => DeletesAreTold
  <2> SUFFICES ASSUME HubInv, ~overlap, NEW c \in Clients, NEW i \in Rows,
                      sub[c].pc = "in", sub[c].streams # {}, view[c][i] \in {"loaded", "told"},
                      <<c, i>> \notin lost
               PROVE  Coming(c, i)
    BY DEF DeletesAreTold
  <2>1. c \in In /\ ClientOK(c) /\ task \in Pumps
    BY DEF HubInv, AloneThen, OrderInv, In, TaskInv, TypeInv, HubType
  <2>2. (i \in DOMAIN tracked /\ ~tracked[i].gone) \/ Ends(Pipe(c), i)
    BY <2>1 DEF ClientOK, Standing, Stands
  <2> DEFINE q == sub[c].queue
             E == pump[task].events
  <2>3. q \in Seq(Frame) /\ E \in Seq(Frame) /\ Pipe(c) = q \o E
    BY <2>1, SocketIs, TickIs DEF HubInv, Pipe
  <2> HIDE DEF q, E
  <2>4. Ends(q \o E, i) => Ends(q, i) \/ Ends(E, i)
    BY <2>3, HasJoined
  <2>. QED BY <2>1, <2>2, <2>3, <2>4 DEF Coming, Ends, Deletion, q, E
<1>. QED BY <1>1, Inductive, PTL

\* An update that a client is owed is ahead of every query, in the hands of a
\* task, or in the client's queue (_new_statuses, _status_events, Hub.publish).
THEOREM NothingSkipped == Spec => []NothingIsSkipped
<1>1. HubInv => NothingIsSkipped
  BY DEF HubInv, SkipInv, NothingIsSkipped, Coming2, Underway, Reaches, Update
<1>. QED BY <1>1, Inductive, PTL
=============================================================================
