--------------------------- MODULE DeliveryPromise ---------------------------
(***************************************************************************)
(* What the delivery queue promises the rest of the program, apart from    *)
(* how it keeps the promise.  A submitted activity may be acknowledged by  *)
(* its recipient any number of times (delivery is at least once); it is    *)
(* recorded as delivered only after an acknowledgement; and once recorded  *)
(* as delivered or abandoned its record never changes.                     *)
(***************************************************************************)
EXTENDS Naturals

CONSTANT Rows          \* identities of the queued activities

VARIABLES submitted,      \* rows a caller has committed to the queue
          acknowledged,   \* rows their recipient has answered 2xx at least once
          delivered,      \* rows recorded as sent
          abandoned       \* rows recorded as errored

pvars == <<submitted, acknowledged, delivered, abandoned>>

PromiseInit ==
  /\ submitted = {}
  /\ acknowledged = {}
  /\ delivered = {}
  /\ abandoned = {}

Open == submitted \ (delivered \union abandoned)

Submit(r) ==
  /\ r \notin submitted
  /\ submitted' = submitted \union {r}
  /\ UNCHANGED <<acknowledged, delivered, abandoned>>

Acknowledge(r) ==
  /\ r \in submitted
  /\ acknowledged' = acknowledged \union {r}
  /\ UNCHANGED <<submitted, delivered, abandoned>>

\* A whole batch is recorded at once; nothing that is settled is touched.
Record(D, A) ==
  /\ D \subseteq Open \intersect acknowledged
  /\ A \subseteq Open \ D
  /\ delivered' = delivered \union D
  /\ abandoned' = abandoned \union A
  /\ UNCHANGED <<submitted, acknowledged>>

PromiseNext ==
  \/ \E r \in Rows : Submit(r) \/ Acknowledge(r)
  \/ \E D, A \in SUBSET Rows : Record(D, A)

PromiseSpec == PromiseInit /\ [][PromiseNext]_pvars
==============================================================================
