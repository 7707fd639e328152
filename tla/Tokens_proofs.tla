---------------------------- MODULE Tokens_proofs ------------------------------
(* What Tokens promises of codes, refreshes, log-outs and subscriptions, for   *)
(* any number of codes, tokens, overlapping requests and crashes.              *)
EXTENDS Tokens, FiniteSetTheorems, TLAPS

-----------------------------------------------------------------------------
(* The inductive invariant. *)

\* The requests that read a row and have not written yet.
Requests ==
  [do : {"identity", "code", "mint"}, of : Codes, long : BOOLEAN]
    \cup [do : {"refresh"}, of : renewable, long : BOOLEAN]
    \cup [do : {"revoke", "subscribe"}, of : Tokens, long : {FALSE}]

NoCode == CHOOSE c \in Codes : TRUE
TypeInv ==
  /\ TypeOK
  /\ from \in [Ids -> Codes \cup {NoCode}] /\ parent \in [Ids -> Nat]
  /\ IsFiniteSet(pending) /\ pending \subseteq Requests
  /\ races \in [Codes -> Nat] /\ doubled \in [Ids -> Nat] /\ allowed \in [Ids -> Nat]

\* The tokens that an exchange of c gave.
Minted(c) == {t \in Tokens : from[t] = c /\ parent[t] = 0}

\* A code that is not used has given nothing; one that is used gives no more
\* than the exchanges that had read it before.
CodeInv ==
  /\ \A w \in pending : w.do \in {"identity", "code"} => code[w.of] # "none"
  /\ \A c \in Codes :
       IF code[c] = "used"
       THEN Cardinality(Minted(c)) + Cardinality(Begun("mint", c))
              + Cardinality(Begun("code", c)) <= 1 + races[c]
       ELSE Minted(c) = {} /\ Begun("mint", c) = {}

\* The same of a refresh token.
RefreshInv == \A t \in Tokens :
  IF t \in refreshed
  THEN Cardinality(Heirs(t)) + Cardinality(Begun("refresh", t)) <= 1 + doubled[t]
  ELSE Heirs(t) = {}

\* The refreshes of a token that is logged out are done or under way.
HeirInv == \A t \in revoked :
  Cardinality(Heirs(t)) + Cardinality(Begun("refresh", t)) <= allowed[t]

\* And no subscription to it is under way.
SubInv == \A t \in revoked \ straddling : t \notin subs /\ Begun("subscribe", t) = {}

GrantInv == TypeInv /\ CodeInv /\ RefreshInv /\ HeirInv /\ SubInv

-----------------------------------------------------------------------------
(* Requests that begin and end. *)

LEMMA BegunFinite ==
  ASSUME IsFiniteSet(pending), NEW do, NEW x
  PROVE  IsFiniteSet(Begun(do, x)) /\ Cardinality(Begun(do, x)) \in Nat
<1>1. Begun(do, x) \subseteq pending
  BY DEF Begun
<1> QED
  BY <1>1, FS_Subset, FS_CardinalityType

\* A request that begins is one more of its kind and of no other.
LEMMA BegunAdd ==
  ASSUME NEW w, IsFiniteSet(pending), w \notin pending, pending' = pending \cup {w},
         NEW do, NEW x
  PROVE  /\ w.do = do /\ w.of = x => Cardinality(Begun(do, x)') = Cardinality(Begun(do, x)) + 1
         /\ ~(w.do = do /\ w.of = x) => Begun(do, x)' = Begun(do, x)
<1>1. CASE w.do = do /\ w.of = x
  <2>1. Begun(do, x)' = Begun(do, x) \cup {w} /\ w \notin Begun(do, x)
    BY <1>1 DEF Begun
  <2> QED
    BY <1>1, <2>1, BegunFinite, FS_AddElement
<1>2. CASE ~(w.do = do /\ w.of = x)
  BY <1>2 DEF Begun
<1> QED
  BY <1>1, <1>2

\* A request that ends is one less.
LEMMA BegunRemove ==
  ASSUME NEW w \in pending, IsFiniteSet(pending), pending' = pending \ {w},
         NEW do, NEW x
  PROVE  /\ w.do = do /\ w.of = x =>
              /\ Cardinality(Begun(do, x)') = Cardinality(Begun(do, x)) - 1
              /\ Begun(do, x) \ {w} = Begun(do, x)'
         /\ ~(w.do = do /\ w.of = x) => Begun(do, x)' = Begun(do, x)
         /\ Begun(do, x)' \subseteq Begun(do, x)
<1>1. CASE w.do = do /\ w.of = x
  <2>1. Begun(do, x)' = Begun(do, x) \ {w} /\ w \in Begun(do, x)
    BY <1>1 DEF Begun
  <2> QED
    BY <1>1, <2>1, BegunFinite, FS_RemoveElement
<1>2. CASE ~(w.do = do /\ w.of = x)
  BY <1>2 DEF Begun
<1> QED
  BY <1>1, <1>2

\* What a new token adds to the tokens of its code and to those of its parent.
LEMMA Issued ==
  ASSUME TypeInv, NEW c \in Codes, NEW p \in 0..born, NEW long \in BOOLEAN, Issue(c, p, long)
  PROVE  /\ Tokens' = Tokens \cup {born + 1} /\ born + 1 \notin Tokens
         /\ Tokens \subseteq Ids /\ born + 1 \in Ids
         /\ from'[born + 1] = c /\ parent'[born + 1] = p
         /\ \A t \in Tokens : from'[t] = from[t] /\ parent'[t] = parent[t]
         /\ renewable \subseteq renewable' /\ renewable' \subseteq Tokens'
         /\ from' \in [Ids -> Codes \cup {NoCode}] /\ parent' \in [Ids -> Nat]
         /\ born' \in 0..MaxTokens
<1>1. born \in Nat /\ born < MaxTokens /\ born' = born + 1 /\ born' \in 0..MaxTokens
  BY TokensAssumption DEF Issue, TypeInv, TypeOK
<1>2. /\ Tokens' = Tokens \cup {born + 1} /\ born + 1 \notin Tokens
      /\ Tokens \subseteq Ids /\ born + 1 \in Ids
  BY <1>1, TokensAssumption DEF Tokens, Ids
<1>3. /\ from' \in [Ids -> Codes \cup {NoCode}] /\ parent' \in [Ids -> Nat]
      /\ from'[born + 1] = c /\ parent'[born + 1] = p
      /\ \A t \in Tokens : from'[t] = from[t] /\ parent'[t] = parent[t]
  <2>1. from \in [Ids -> Codes \cup {NoCode}] /\ from' = [from EXCEPT ![born + 1] = c]
    BY DEF TypeInv, Issue
  <2>2. parent \in [Ids -> Nat] /\ parent' = [parent EXCEPT ![born + 1] = p] /\ p \in Nat
    BY <1>1 DEF TypeInv, Issue
  <2> QED
    BY <1>2, <2>1, <2>2
<1>4. renewable \subseteq renewable' /\ renewable' \subseteq Tokens'
  BY <1>2 DEF Issue, TypeInv, TypeOK
<1> QED
  BY <1>1, <1>2, <1>3, <1>4

LEMMA TokensFinite ==
  ASSUME TypeInv
  PROVE  /\ \A c : IsFiniteSet(Minted(c)) /\ Cardinality(Minted(c)) \in Nat
         /\ \A t : IsFiniteSet(Heirs(t)) /\ Cardinality(Heirs(t)) \in Nat
<1>1. IsFiniteSet(Tokens)
  BY TokensAssumption, FS_Interval DEF Tokens, TypeInv, TypeOK
<1>2. \A c : Minted(c) \subseteq Tokens
  BY DEF Minted
<1>3. \A t : Heirs(t) \subseteq Tokens
  BY DEF Heirs
<1> QED
  BY <1>1, <1>2, <1>3, FS_Subset, FS_CardinalityType

\* A new token is one of those an exchange gave, or an heir.
LEMMA IssueCounts ==
  ASSUME TypeInv, NEW c \in Codes, NEW p \in 0..born, NEW long \in BOOLEAN, Issue(c, p, long)
  PROVE  /\ \A x \in Codes :
              IF x = c /\ p = 0 THEN Cardinality(Minted(x)') = Cardinality(Minted(x)) + 1
                                ELSE Minted(x)' = Minted(x)
         /\ \A t \in Tokens :
              IF t = p THEN Cardinality(Heirs(t)') = Cardinality(Heirs(t)) + 1
                       ELSE Heirs(t)' = Heirs(t)
         /\ \A t \in Tokens' \ Tokens : Heirs(t)' = {}
<1> USE Issued
<1>1. ASSUME NEW x \in Codes
      PROVE  IF x = c /\ p = 0 THEN Cardinality(Minted(x)') = Cardinality(Minted(x)) + 1
                               ELSE Minted(x)' = Minted(x)
  <2>1. Minted(x)' = IF x = c /\ p = 0 THEN Minted(x) \cup {born + 1} ELSE Minted(x)
    BY DEF Minted
  <2>2. born + 1 \notin Minted(x)
    BY DEF Minted
  <2> QED
    BY <2>1, <2>2, TokensFinite, FS_AddElement
<1>2. ASSUME NEW t \in Tokens
      PROVE  IF t = p THEN Cardinality(Heirs(t)') = Cardinality(Heirs(t)) + 1
                      ELSE Heirs(t)' = Heirs(t)
  <2>1. Heirs(t)' = IF t = p THEN Heirs(t) \cup {born + 1} ELSE Heirs(t)
    BY DEF Heirs
  <2>2. born + 1 \notin Heirs(t)
    BY DEF Heirs
  <2> QED
    BY <2>1, <2>2, TokensFinite, FS_AddElement
<1>3. \A t \in Tokens' \ Tokens : Heirs(t)' = {}
  <2>1. born \in Nat
    BY TokensAssumption DEF TypeInv, TypeOK
  <2>2. \A u \in Tokens : parent[u] \in 0..(u - 1) /\ u \in 1..born
    BY DEF TypeInv, TypeOK, Tokens
  <2>3. \A u \in Tokens : parent'[u] # born + 1
    BY <2>1, <2>2
  <2>4. \A u \in Tokens' : parent'[u] # born + 1
    BY <2>1, <2>3
  <2>5. \A t \in Tokens' \ Tokens : t = born + 1
    OBVIOUS
  <2> HIDE Issued
  <2> QED
    BY <2>4, <2>5 DEF Heirs
<1> QED
  BY <1>1, <1>2, <1>3

-----------------------------------------------------------------------------
(* Types. *)

LEMMA InitInv == Init => GrantInv
<1> SUFFICES ASSUME Init PROVE GrantInv
  OBVIOUS
<1>1. Tokens = {} /\ pending = {} /\ revoked = {}
  BY DEF Init, Tokens
<1>2. TypeInv
  <2>1. TypeOK
    BY <1>1, TokensAssumption DEF Init, TypeOK
  <2>2. from \in [Ids -> Codes \cup {NoCode}] /\ parent \in [Ids -> Nat]
    BY DEF Init, NoCode
  <2>3. IsFiniteSet(pending) /\ pending \subseteq Requests
    BY <1>1, FS_EmptySet
  <2>4. races \in [Codes -> Nat] /\ doubled \in [Ids -> Nat] /\ allowed \in [Ids -> Nat]
    BY DEF Init
  <2> QED
    BY <2>1, <2>2, <2>3, <2>4 DEF TypeInv
<1>3. CodeInv
  BY <1>1 DEF Init, CodeInv, Minted, Begun
<1>4. RefreshInv /\ HeirInv /\ SubInv
  BY <1>1 DEF RefreshInv, HeirInv, SubInv
<1> QED
  BY <1>2, <1>3, <1>4 DEF GrantInv

\* A request that begins, and what it leaves alone.
Begins(do, x, long) ==
  /\ Begin(Ask(do, x, long)) /\ Ask(do, x, long) \in Requests
  /\ UNCHANGED <<codes, tokens, revoked, expired, subs, crashes, history>>

LEMMA TypeBegins ==
  ASSUME TypeInv, NEW do, NEW x, NEW long, Begins(do, x, long)
  PROVE  TypeInv'
<1>1. IsFiniteSet(pending')
  BY FS_AddElement DEF TypeInv, Begins, Begin
<1> QED
  BY <1>1 DEF TypeInv, TypeOK, Begins, Begin, Requests, Tokens, codes, tokens, history

LEMMA BeginCases ==
  ASSUME TypeInv
  PROVE  /\ \A c \in Codes, do \in {"identity", "code"}, long \in BOOLEAN :
              CheckCode(c, do, long) => Begins(do, c, long)
         /\ \A t \in Tokens, long \in BOOLEAN : CheckRefresh(t, long) => Begins("refresh", t, long)
         /\ \A t \in Tokens : CheckRevoke(t) => Begins("revoke", t, FALSE)
         /\ \A t \in Tokens : CheckPush(t) => Begins("subscribe", t, FALSE)
  BY DEF CheckCode, CheckRefresh, CheckRevoke, CheckPush, Begins, Ask, Requests

\* What a request is about.
LEMMA Subject ==
  ASSUME TypeInv, NEW w \in pending
  PROVE  /\ w.do \in {"identity", "code", "mint"} => w.of \in Codes /\ w.long \in BOOLEAN
         /\ w.do = "refresh" => w.of \in renewable /\ w.long \in BOOLEAN
         /\ w.do \in {"refresh", "revoke", "subscribe"} => w.of \in Tokens /\ w.of \in Ids
         /\ born \in Nat /\ Tokens \subseteq Ids
<1>1. w \in Requests
  BY DEF TypeInv
<1>2. born \in Nat /\ Tokens \subseteq Ids /\ renewable \subseteq Tokens
  BY TokensAssumption DEF TypeInv, TypeOK, Tokens, Ids
<1> QED
  BY <1>1, <1>2 DEF Requests

\* A request that ends with a new token.
LEMMA TypeIssue ==
  ASSUME TypeInv, NEW c \in Codes, NEW p \in 0..born, NEW long \in BOOLEAN, Issue(c, p, long),
         NEW w \in pending, pending' = pending \ {w},
         UNCHANGED <<codes, revoked, expired, subs, races, allowed, straddling>>,
         doubled' \in [Ids -> Nat],
         \/ refreshed' = refreshed
         \/ p \in renewable /\ refreshed' = refreshed \cup {p}
  PROVE  TypeInv'
<1>1. IsFiniteSet(pending')
  BY FS_RemoveElement DEF TypeInv
<1>2. pending' \subseteq Requests'
  <2>1. renewable \subseteq renewable' /\ Tokens \subseteq Tokens'
    BY Issued
  <2>2. ASSUME NEW r \in Requests PROVE r \in Requests'
    BY <2>1 DEF Requests
  <2>3. pending \subseteq Requests
    BY DEF TypeInv
  <2> QED
    BY <2>2, <2>3
<1>3. \A t \in Tokens' : from'[t] \in Codes /\ parent'[t] \in 0..(t - 1)
  <2>1. ASSUME NEW t \in Tokens PROVE from'[t] \in Codes /\ parent'[t] \in 0..(t - 1)
    BY <2>1, Issued DEF TypeInv, TypeOK
  <2>2. ASSUME NEW t \in Tokens', t \notin Tokens
        PROVE  from'[t] \in Codes /\ parent'[t] \in 0..(t - 1)
    <3>1. t = born + 1 /\ born \in Nat
      BY <2>2, Issued, TokensAssumption DEF TypeInv, TypeOK
    <3> QED
      BY <3>1, Issued
  <2> QED
    BY <2>1, <2>2
<1>4. refreshed' \cup expired' \subseteq renewable' /\ renewable' \cup revoked' \cup subs' \subseteq Tokens'
  BY Issued DEF TypeInv, TypeOK
<1> QED
  BY <1>1, <1>2, <1>3, <1>4, Issued DEF TypeInv, TypeOK, codes

LEMMA TypeNext ==
  ASSUME TypeInv, [Next]_vars
  PROVE  TypeInv'
<1> USE DEF TypeInv, TypeOK, Requests, Tokens, codes, tokens, history
<1>1. ASSUME NEW w \in pending, pending' = pending \ {w} PROVE IsFiniteSet(pending')
  BY <1>1, FS_RemoveElement
<1>2. ASSUME NEW c \in Codes, NEW do \in {"identity", "code"}, NEW long \in BOOLEAN,
             CheckCode(c, do, long)
      PROVE  TypeInv'
  BY <1>2, BeginCases, TypeBegins
<1>3. ASSUME NEW t \in Tokens, NEW long \in BOOLEAN, CheckRefresh(t, long)
      PROVE  TypeInv'
  BY <1>3, BeginCases, TypeBegins
<1>4. ASSUME NEW t \in Tokens, CheckRevoke(t) \/ CheckPush(t)
      PROVE  TypeInv'
  BY <1>4, BeginCases, TypeBegins
<1>5. ASSUME NEW c \in Codes, NEW S \in SUBSET Scopes, Consent(c, S)
      PROVE  TypeInv'
  BY <1>5 DEF Consent
<1>6. ASSUME NEW c \in Codes, ExpireCode(c)
      PROVE  TypeInv'
  BY <1>6 DEF ExpireCode
<1>7. ASSUME NEW t \in Tokens, Unsubscribe(t) \/ Expire(t)
      PROVE  TypeInv'
  BY <1>7 DEF Unsubscribe, Expire
<1>8. ASSUME NEW w \in pending, UseCode(w)
      PROVE  TypeInv'
  <2>1. w.of \in Codes /\ w.long \in BOOLEAN
    BY <1>8, Subject DEF UseCode
  <2>2. IsFiniteSet(Begun("code", w.of) \ {w})
    BY BegunFinite, FS_Subset
  <2>3. races' \in [Codes -> Nat]
    BY <1>8, <2>1, <2>2, FS_CardinalityType DEF UseCode
  <2>4. Ask("mint", w.of, w.long) \in Requests
    BY <2>1 DEF Ask
  <2>5. pending' \subseteq Requests
    BY <1>8, <2>4 DEF UseCode
  <2>6. IsFiniteSet(pending')
    <3>1. IsFiniteSet(pending \ {w})
      BY FS_RemoveElement
    <3>2. IsFiniteSet((pending \ {w}) \cup {Ask("mint", w.of, w.long)})
      BY <3>1, FS_AddElement
    <3>3. \/ pending' = pending \ {w}
          \/ pending' = (pending \ {w}) \cup {Ask("mint", w.of, w.long)}
      BY <1>8 DEF UseCode
    <3> QED
      BY <3>1, <3>2, <3>3
  <2>7. code' \in [Codes -> {"none", "fresh", "used"}]
    BY <1>8, <2>1 DEF UseCode
  <2>8. UNCHANGED <<old, scope, tokens, revoked, expired, subs, doubled, allowed, straddling>>
    BY <1>8 DEF UseCode
  <2>9. Requests' = Requests
    BY <2>8
  <2>10. TypeOK'
    BY <2>7, <2>8
  <2>11. from' = from /\ parent' = parent
    BY <2>8
  <2> HIDE DEF TypeOK, Requests
  <2> QED
    BY <2>3, <2>5, <2>6, <2>8, <2>9, <2>10, <2>11
<1>9. ASSUME NEW w \in pending, Mint(w)
       PROVE  TypeInv'
  <2>1. w.of \in Codes /\ w.long \in BOOLEAN /\ born \in Nat
    BY <1>9, Subject DEF Mint
  <2>2. Issue(w.of, 0, w.long)
    BY <1>9 DEF Mint
  <2>3. doubled' \in [Ids -> Nat]
    BY <1>9 DEF Mint
  <2>4. /\ pending' = pending \ {w} /\ refreshed' = refreshed
        /\ UNCHANGED <<codes, revoked, expired, subs, races, allowed, straddling>>
    BY <1>9 DEF Mint
  <2> HIDE DEF TypeInv, TypeOK, Requests, Tokens
  <2> QED
    BY <2>1, <2>2, <2>3, <2>4, TypeIssue
<1>10. ASSUME NEW w \in pending, Refresh(w)
       PROVE  TypeInv'
  <2>1. w.of \in renewable /\ w.of \in Tokens /\ w.long \in BOOLEAN
    BY <1>10, Subject DEF Refresh
  <2>2. from[w.of] \in Codes /\ w.of \in 0..born /\ Issue(from[w.of], w.of, w.long)
    BY <1>10, <2>1, TokensAssumption DEF Refresh
  <2>3. doubled' \in [Ids -> Nat]
    <3>1. IsFiniteSet(Begun("refresh", w.of) \ {w})
      BY BegunFinite, FS_Subset
    <3> QED
      BY <1>10, <2>1, <3>1, FS_CardinalityType DEF Refresh
  <2>4. /\ pending' = pending \ {w} /\ refreshed' = refreshed \cup {w.of}
        /\ UNCHANGED <<codes, revoked, expired, subs, races, allowed, straddling>>
    BY <1>10 DEF Refresh
  <2> HIDE DEF TypeInv, TypeOK, Requests, Tokens
  <2>5. \/ refreshed' = refreshed
        \/ w.of \in renewable /\ refreshed' = refreshed \cup {w.of}
    BY <2>1, <2>4
  <2> QED
    BY <2>1, <2>2, <2>3, <2>4, <2>5, TypeIssue
<1>11. ASSUME NEW w \in pending, Revoke(w)
       PROVE  TypeInv'
  <2>1. w.of \in Tokens
    BY <1>11, Subject DEF Revoke
  <2>2. allowed' \in [Ids -> Nat]
    <3>1. allowed \in [Ids -> Nat] /\ IsFiniteSet(pending)
      OBVIOUS
    <3> HIDE DEF TypeInv, TypeOK, Requests, Tokens
    <3>2. Cardinality(Heirs(w.of)) \in Nat
      BY TokensFinite
    <3>3. Cardinality(Begun("refresh", w.of)) \in Nat
      BY <3>1, BegunFinite
    <3>4. Cardinality(Heirs(w.of)) + Cardinality(Begun("refresh", w.of)) \in Nat
      BY <3>2, <3>3
    <3> QED
      BY <1>11, <3>1, <3>4 DEF Revoke
  <2>3. IsFiniteSet(pending')
    BY <1>1, <1>11 DEF Revoke
  <2> QED
    BY <1>11, <2>1, <2>2, <2>3 DEF Revoke
<1>12. ASSUME NEW w \in pending, Subscribe(w)
       PROVE  TypeInv'
  <2>1. w.of \in Tokens
    BY <1>12, Subject DEF Subscribe
  <2>2. IsFiniteSet(pending')
    BY <1>1, <1>12 DEF Subscribe
  <2> QED
    BY <1>12, <2>1, <2>2 DEF Subscribe
<1>13. ASSUME Restart PROVE TypeInv'
  BY <1>13, FS_EmptySet DEF Restart
<1>14. ASSUME UNCHANGED vars PROVE TypeInv'
  BY <1>14 DEF vars
<1> QED
  BY <1>2, <1>3, <1>4, <1>5, <1>6, <1>7, <1>8, <1>9, <1>10, <1>11, <1>12, <1>13, <1>14
     DEF Next, Grants, Uses, Continue

-----------------------------------------------------------------------------
(* Subscriptions. *)

LEMMA SubNext ==
  ASSUME TypeInv, SubInv, [Next]_vars
  PROVE  SubInv'
<1>1. ASSUME NEW do, NEW x, NEW long, Begins(do, x, long),
             do = "subscribe" => x \notin revoked
      PROVE  SubInv'
  <2>1. \A t \in revoked : Begun("subscribe", t)' = Begun("subscribe", t)
    BY <1>1 DEF Begins, Begin, Ask, Begun
  <2> QED
    BY <1>1, <2>1 DEF SubInv, Begins, history
<1>2. ASSUME NEW t \in Tokens, CheckPush(t)
      PROVE  SubInv'
  BY <1>1, <1>2, BeginCases DEF CheckPush, Valid
<1>3. ASSUME NEW c \in Codes, NEW do \in {"identity", "code"}, NEW long \in BOOLEAN,
             CheckCode(c, do, long)
      PROVE  SubInv'
  BY <1>1, <1>3, BeginCases
<1>4. ASSUME NEW t \in Tokens, NEW long \in BOOLEAN, CheckRefresh(t, long) \/ CheckRevoke(t)
      PROVE  SubInv'
  BY <1>1, <1>4, BeginCases
<1>5. ASSUME pending' \subseteq pending \/ \E c, long : pending' \subseteq pending \cup {Ask("mint", c, long)},
             subs' \subseteq subs, UNCHANGED <<revoked, straddling>>
      PROVE  SubInv'
  <2>1. \A t : Begun("subscribe", t)' \subseteq Begun("subscribe", t)
    BY <1>5 DEF Begun, Ask
  <2> QED
    BY <1>5, <2>1 DEF SubInv
<1>6. ASSUME NEW w \in pending, Revoke(w)
      PROVE  SubInv'
  <2>1. \A t : Begun("subscribe", t)' = Begun("subscribe", t)
    BY <1>6 DEF Revoke, Begun
  <2> QED
    BY <1>6, <2>1 DEF SubInv, Revoke
<1>7. ASSUME NEW w \in pending, Subscribe(w)
      PROVE  SubInv'
  <2>1. \A t : Begun("subscribe", t)' \subseteq Begun("subscribe", t)
    BY <1>7 DEF Subscribe, Begun
  <2>2. w \in Begun("subscribe", w.of)
    BY <1>7 DEF Subscribe, Begun
  <2> QED
    BY <1>7, <2>1, <2>2 DEF SubInv, Subscribe, history
<1>8. ASSUME NEW w \in pending, UseCode(w) \/ Mint(w) \/ Refresh(w)
      PROVE  SubInv'
  BY <1>5, <1>8 DEF UseCode, Mint, Refresh, history
<1>9. ASSUME NEW c \in Codes, ExpireCode(c) \/ \E S \in SUBSET Scopes : Consent(c, S)
      PROVE  SubInv'
  BY <1>5, <1>9 DEF ExpireCode, Consent, history
<1>10. ASSUME NEW t \in Tokens, Unsubscribe(t) \/ Expire(t)
       PROVE  SubInv'
  BY <1>5, <1>10 DEF Unsubscribe, Expire, history
<1>11. ASSUME Restart \/ UNCHANGED vars
       PROVE  SubInv'
  BY <1>5, <1>11 DEF Restart, vars, history
<1> QED
  BY <1>2, <1>3, <1>4, <1>6, <1>7, <1>8, <1>9, <1>10, <1>11 DEF Next, Grants, Uses, Continue

-----------------------------------------------------------------------------
(* Heirs. *)

\* The steps that neither issue, refresh nor revoke: refreshes under way may go.
Quiet ==
  /\ pending' \subseteq pending \/ \E c, long : pending' \subseteq pending \cup {Ask("mint", c, long)}
  /\ UNCHANGED <<tokens, revoked, doubled, allowed>>

LEMMA QuietHeirs ==
  ASSUME TypeInv, Quiet, NEW t
  PROVE  /\ Heirs(t)' = Heirs(t)
         /\ Cardinality(Begun("refresh", t)') <= Cardinality(Begun("refresh", t))
         /\ Cardinality(Begun("refresh", t)') \in Nat
<1>1. Begun("refresh", t)' \subseteq Begun("refresh", t)
  BY DEF Quiet, Begun, Ask
<1>2. IsFiniteSet(Begun("refresh", t))
  BY BegunFinite DEF TypeInv
<1>3. Heirs(t)' = Heirs(t)
  BY DEF Quiet, Heirs, Tokens, tokens
<1> QED
  BY <1>1, <1>2, <1>3, FS_Subset, FS_CardinalityType

LEMMA QuietCases ==
  ASSUME TypeInv, [Next]_vars
  PROVE  \/ Quiet
         \/ \E t \in Tokens, long \in BOOLEAN : CheckRefresh(t, long)
         \/ \E x, do, long : do # "refresh" /\ Begins(do, x, long)
         \/ \E w \in pending : Mint(w) \/ Refresh(w) \/ Revoke(w)
<1>1. ASSUME NEW w \in pending, UseCode(w) \/ Subscribe(w) PROVE Quiet
  BY <1>1 DEF UseCode, Subscribe, Quiet, history, tokens
<1>2. ASSUME NEW c \in Codes, ExpireCode(c) \/ \E S \in SUBSET Scopes : Consent(c, S) PROVE Quiet
  BY <1>2 DEF ExpireCode, Consent, Quiet, history, tokens
<1>3. ASSUME NEW t \in Tokens, Unsubscribe(t) \/ Expire(t) PROVE Quiet
  BY <1>3 DEF Unsubscribe, Expire, Quiet, history, tokens
<1>4. ASSUME Restart \/ UNCHANGED vars PROVE Quiet
  BY <1>4 DEF Restart, Quiet, vars, history, tokens
<1> QED
  BY <1>1, <1>2, <1>3, <1>4, BeginCases DEF Next, Grants, Uses, Continue

\* A refresh that begins is one more of those under way.
LEMMA RefreshBegins ==
  ASSUME TypeInv, NEW x, NEW do, NEW long, Begins(do, x, long), NEW t
  PROVE  /\ Heirs(t)' = Heirs(t)
         /\ ~(do = "refresh" /\ x = t) => Begun("refresh", t)' = Begun("refresh", t)
         /\ UNCHANGED <<refreshed, revoked, doubled, allowed>> /\ Tokens' = Tokens
<1>1. Heirs(t)' = Heirs(t) /\ Tokens' = Tokens
  BY DEF Begins, Heirs, Tokens, tokens
<1>2. ~(do = "refresh" /\ x = t) => Begun("refresh", t)' = Begun("refresh", t)
  BY DEF Begins, Begin, Ask, Begun
<1> QED
  BY <1>1, <1>2 DEF Begins, tokens, history

\* What the end of a refresh changes.
LEMMA RefreshEnds ==
  ASSUME TypeInv, NEW w \in pending, Refresh(w), NEW t \in Tokens
  PROVE  /\ w.of \in Tokens
         /\ t # w.of => Heirs(t)' = Heirs(t) /\ Begun("refresh", t)' = Begun("refresh", t)
         /\ t = w.of =>
              /\ Cardinality(Heirs(t)') = Cardinality(Heirs(t)) + 1
              /\ Cardinality(Begun("refresh", t)') = Cardinality(Begun("refresh", t)) - 1
              /\ Begun("refresh", t) \ {w} = Begun("refresh", t)'
         /\ \A u \in Tokens' \ Tokens : Heirs(u)' = {}
<1>1. w.of \in Tokens /\ w.of \in renewable /\ w.long \in BOOLEAN /\ born \in Nat
  BY Subject DEF Refresh
<1>2. from[w.of] \in Codes /\ w.of \in 0..born
  BY <1>1 DEF TypeInv, TypeOK, Tokens
<1>3. Issue(from[w.of], w.of, w.long) /\ pending' = pending \ {w} /\ w.do = "refresh"
  BY DEF Refresh
<1>4. /\ \A u \in Tokens : IF u = w.of THEN Cardinality(Heirs(u)') = Cardinality(Heirs(u)) + 1
                                       ELSE Heirs(u)' = Heirs(u)
      /\ \A u \in Tokens' \ Tokens : Heirs(u)' = {}
  BY <1>1, <1>2, <1>3, IssueCounts
<1>5. IsFiniteSet(pending)
  BY DEF TypeInv
<1> QED
  BY <1>1, <1>3, <1>4, <1>5, BegunRemove

LEMMA MintHeirs ==
  ASSUME TypeInv, NEW w \in pending, Mint(w)
  PROVE  /\ \A t \in Tokens : Heirs(t)' = Heirs(t) /\ Begun("refresh", t)' = Begun("refresh", t)
         /\ \A t \in Tokens' \ Tokens : Heirs(t)' = {}
<1>1. w.of \in Codes /\ w.long \in BOOLEAN /\ born \in Nat /\ 0 \in 0..born
  BY Subject DEF Mint
<1>2. Issue(w.of, 0, w.long)
  BY DEF Mint
<1>3. /\ \A t \in Tokens : IF t = 0 THEN Cardinality(Heirs(t)') = Cardinality(Heirs(t)) + 1
                                    ELSE Heirs(t)' = Heirs(t)
      /\ \A t \in Tokens' \ Tokens : Heirs(t)' = {}
  BY <1>1, <1>2, IssueCounts
<1>4. \A t \in Tokens : t # 0
  BY <1>1 DEF Tokens
<1>5. \A t : Begun("refresh", t)' = Begun("refresh", t)
  BY DEF Mint, Begun
<1> QED
  BY <1>3, <1>4, <1>5

LEMMA HeirNext ==
  ASSUME TypeInv, HeirInv, [Next]_vars
  PROVE  HeirInv'
<1> USE DEF HeirInv
<1>1. revoked \subseteq Tokens /\ allowed \in [Ids -> Nat] /\ IsFiniteSet(pending)
  BY DEF TypeInv, TypeOK
<1>2. CASE Quiet
  <2> SUFFICES ASSUME NEW t \in revoked'
               PROVE  Cardinality(Heirs(t)') + Cardinality(Begun("refresh", t)') <= allowed'[t]
    OBVIOUS
  <2>1. t \in revoked /\ allowed' = allowed /\ t \in Ids
    BY <1>1, <1>2, TokensAssumption DEF Quiet, TypeInv, TypeOK, Tokens, Ids
  <2>2. Cardinality(Heirs(t)) \in Nat /\ Cardinality(Begun("refresh", t)) \in Nat
    BY <1>1, TokensFinite, BegunFinite
  <2> QED
    BY <1>1, <1>2, <2>1, <2>2, QuietHeirs
<1>3. ASSUME NEW x, NEW do, NEW long, Begins(do, x, long), do = "refresh" => x \notin revoked
      PROVE  HeirInv'
  BY <1>3, RefreshBegins
<1>4. ASSUME NEW t \in Tokens, NEW long \in BOOLEAN, CheckRefresh(t, long) PROVE HeirInv'
  <2>1. t \notin revoked
    BY <1>4 DEF CheckRefresh
  <2> QED
    BY <1>3, <1>4, <2>1, BeginCases
<1>5. ASSUME NEW w \in pending, Mint(w) PROVE HeirInv'
  <2>1. UNCHANGED <<revoked, allowed>>
    BY <1>5 DEF Mint, history
  <2> QED
    BY <1>1, <1>5, <2>1, MintHeirs
<1>6. ASSUME NEW w \in pending, Refresh(w) PROVE HeirInv'
  <2>1. UNCHANGED <<revoked, allowed>>
    BY <1>6 DEF Refresh
  <2> SUFFICES ASSUME NEW t \in revoked
               PROVE  Cardinality(Heirs(t)') + Cardinality(Begun("refresh", t)') <= allowed[t]
    BY <2>1
  <2>2. Cardinality(Heirs(t)) \in Nat /\ Cardinality(Begun("refresh", t)) \in Nat
    BY <1>1, TokensFinite, BegunFinite
  <2>3. Cardinality(Heirs(t)) + Cardinality(Begun("refresh", t)) <= allowed[t]
    OBVIOUS
  <2>4. CASE t = w.of
    BY <1>1, <1>6, <2>2, <2>3, <2>4, RefreshEnds
  <2>5. CASE t # w.of
    BY <1>1, <1>6, <2>2, <2>3, <2>5, RefreshEnds
  <2> QED
    BY <2>4, <2>5
<1>7. ASSUME NEW w \in pending, Revoke(w) PROVE HeirInv'
  <2>1. \A t : Heirs(t)' = Heirs(t) /\ Begun("refresh", t)' = Begun("refresh", t)
    BY <1>7 DEF Revoke, Heirs, Tokens, tokens, Begun
  <2>2. w.of \in Ids
    BY <1>7, Subject DEF Revoke
  <2>3. \A t \in revoked : Cardinality(Heirs(t)) + Cardinality(Begun("refresh", t)) <= allowed'[t]
    BY <1>1, <1>7 DEF Revoke
  <2>4. w.of \notin revoked =>
          /\ allowed'[w.of] = Cardinality(Heirs(w.of)) + Cardinality(Begun("refresh", w.of))
          /\ allowed'[w.of] \in Nat
    <3>1. Cardinality(Heirs(w.of)) \in Nat /\ Cardinality(Begun("refresh", w.of)) \in Nat
      BY <1>1, TokensFinite, BegunFinite
    <3> QED
      BY <1>1, <1>7, <2>2, <3>1 DEF Revoke
  <2>5. revoked' = revoked \cup {w.of}
    BY <1>7 DEF Revoke
  <2> QED
    BY <2>1, <2>3, <2>4, <2>5
<1>8. ASSUME NEW x, NEW do, NEW long, do # "refresh", Begins(do, x, long) PROVE HeirInv'
  BY <1>3, <1>8
<1> QED
  BY <1>2, <1>4, <1>5, <1>6, <1>7, <1>8, QuietCases

LEMMA RefreshNext ==
  ASSUME TypeInv, RefreshInv, [Next]_vars
  PROVE  RefreshInv'
<1> USE DEF RefreshInv
<1>1. /\ refreshed \subseteq Tokens /\ Tokens \subseteq Ids /\ doubled \in [Ids -> Nat]
      /\ IsFiniteSet(pending) /\ Tokens \subseteq Tokens'
  <2>1. Tokens \subseteq Ids /\ born \in Nat
    BY TokensAssumption DEF TypeInv, TypeOK, Tokens, Ids
  <2>2. born' = born \/ born' = born + 1
    BY DEF Next, Grants, Uses, Continue, vars, tokens, Consent, ExpireCode, CheckCode, UseCode,
           Mint, CheckRefresh, Refresh, CheckRevoke, Revoke, CheckPush, Subscribe, Unsubscribe,
           Expire, Restart, Issue
  <2> QED
    BY <2>1, <2>2 DEF TypeInv, TypeOK, Tokens
<1>2. CASE Quiet
  <2>1. Tokens' = Tokens /\ UNCHANGED <<refreshed, doubled>>
    BY <1>2 DEF Quiet, tokens, Tokens
  <2> SUFFICES ASSUME NEW t \in Tokens
               PROVE  IF t \in refreshed
                      THEN Cardinality(Heirs(t)') + Cardinality(Begun("refresh", t)') <= 1 + doubled[t]
                      ELSE Heirs(t)' = {}
    BY <2>1
  <2>2. Cardinality(Heirs(t)) \in Nat /\ Cardinality(Begun("refresh", t)) \in Nat
    BY <1>1, TokensFinite, BegunFinite
  <2> QED
    BY <1>1, <1>2, <2>2, QuietHeirs
<1>3. ASSUME NEW x, NEW do, NEW long, Begins(do, x, long), do = "refresh" => x \notin refreshed
      PROVE  RefreshInv'
  BY <1>3, RefreshBegins
<1>4. ASSUME NEW t \in Tokens, NEW long \in BOOLEAN, CheckRefresh(t, long) PROVE RefreshInv'
  <2>1. t \notin refreshed
    BY <1>4 DEF CheckRefresh
  <2> QED
    BY <1>3, <1>4, <2>1, BeginCases
<1>5. ASSUME NEW w \in pending, Mint(w) PROVE RefreshInv'
  <2>1. UNCHANGED <<refreshed, doubled>>
    BY <1>5 DEF Mint, history
  <2> QED
    BY <1>1, <1>5, <2>1, MintHeirs
<1>6. ASSUME NEW w \in pending, Refresh(w) PROVE RefreshInv'
  <2>1. refreshed' = refreshed \cup {w.of} /\ w.of \in Tokens /\ w.do = "refresh"
    BY <1>6, Subject DEF Refresh
  <2>2. \A t \in Ids \ {w.of} : doubled'[t] = doubled[t]
    BY <1>1, <1>6 DEF Refresh
  <2>3. \A t \in Tokens' \ Tokens : t \notin refreshed' /\ Heirs(t)' = {}
    BY <1>1, <1>6, <2>1, RefreshEnds
  <2>4. ASSUME NEW t \in Tokens, t # w.of
        PROVE  IF t \in refreshed'
               THEN Cardinality(Heirs(t)') + Cardinality(Begun("refresh", t)') <= 1 + doubled'[t]
               ELSE Heirs(t)' = {}
    BY <1>1, <1>6, <2>1, <2>2, <2>4, RefreshEnds
  <2>5. Cardinality(Heirs(w.of)) \in Nat /\ Cardinality(Begun("refresh", w.of)) \in Nat
    BY <1>1, TokensFinite, BegunFinite
  <2>6. ASSUME NEW t, t = w.of
        PROVE  Cardinality(Heirs(t)') + Cardinality(Begun("refresh", t)') <= 1 + doubled'[t]
    <3>1. /\ Cardinality(Heirs(t)') = Cardinality(Heirs(t)) + 1
          /\ Cardinality(Begun("refresh", t)') = Cardinality(Begun("refresh", t)) - 1
          /\ Begun("refresh", t) \ {w} = Begun("refresh", t)'
      BY <1>6, <2>1, <2>6, RefreshEnds
    <3>2. CASE t \in refreshed
      <4>1. doubled' = doubled
        BY <1>6, <2>6, <3>2 DEF Refresh
      <4> QED
        BY <1>1, <2>1, <2>5, <2>6, <3>1, <3>2, <4>1
    <3>3. CASE t \notin refreshed
      <4>1. Cardinality(Heirs(t)) = 0
        BY <2>1, <2>6, <3>3, FS_EmptySet
      <4>2. doubled'[t] = Cardinality(Begun("refresh", t)')
        BY <1>1, <1>6, <2>1, <2>6, <3>1, <3>3 DEF Refresh
      <4>3. Cardinality(Begun("refresh", t)') \in Nat
        <5>1. IsFiniteSet(Begun("refresh", t) \ {w})
          BY <1>1, BegunFinite, FS_Subset
        <5> QED
          BY <3>1, <5>1, FS_CardinalityType
      <4> QED
        BY <3>1, <4>1, <4>2, <4>3
    <3> QED
      BY <3>2, <3>3
  <2> QED
    BY <2>1, <2>3, <2>4, <2>6
<1>7. ASSUME NEW w \in pending, Revoke(w) PROVE RefreshInv'
  <2>1. \A t : Heirs(t)' = Heirs(t) /\ Begun("refresh", t)' = Begun("refresh", t)
    BY <1>7 DEF Revoke, Heirs, Tokens, tokens, Begun
  <2>2. Tokens' = Tokens /\ UNCHANGED <<refreshed, doubled>>
    BY <1>7 DEF Revoke, tokens, Tokens
  <2> QED
    BY <2>1, <2>2
<1>8. ASSUME NEW x, NEW do, NEW long, do # "refresh", Begins(do, x, long) PROVE RefreshInv'
  BY <1>3, <1>8
<1> QED
  BY <1>2, <1>4, <1>5, <1>6, <1>7, <1>8, QuietCases

-----------------------------------------------------------------------------
(* Codes. *)

\* What CodeInv says of one code.
CodeFor(c) ==
  IF code[c] = "used"
  THEN Cardinality(Minted(c)) + Cardinality(Begun("mint", c))
         + Cardinality(Begun("code", c)) <= 1 + races[c]
  ELSE Minted(c) = {} /\ Begun("mint", c) = {}

LEMMA CodeCounts ==
  ASSUME TypeInv, NEW c
  PROVE  /\ Cardinality(Minted(c)) \in Nat
         /\ IsFiniteSet(Begun("mint", c)) /\ Cardinality(Begun("mint", c)) \in Nat
         /\ IsFiniteSet(Begun("code", c)) /\ Cardinality(Begun("code", c)) \in Nat
  BY TokensFinite, BegunFinite DEF TypeInv

\* A step that leaves the code alone and gives it no token, and begins no mint:
\* no exchange of it begins, or it is not used yet.
LEMMA CodeKept ==
  ASSUME TypeInv, NEW c \in Codes, CodeFor(c),
         code'[c] = code[c] \/ (code[c] # "used" /\ code'[c] # "used"), races'[c] = races[c],
         Minted(c)' = Minted(c), Begun("mint", c)' \subseteq Begun("mint", c),
         code[c] = "used" => Begun("code", c)' \subseteq Begun("code", c)
  PROVE  CodeFor(c)'
<1>1. Cardinality(Begun("mint", c)') <= Cardinality(Begun("mint", c))
      /\ Cardinality(Begun("mint", c)') \in Nat
  BY CodeCounts, FS_Subset, FS_CardinalityType
<1>2. CASE code[c] = "used"
  <2>1. Cardinality(Begun("code", c)') <= Cardinality(Begun("code", c))
        /\ Cardinality(Begun("code", c)') \in Nat
    BY <1>2, CodeCounts, FS_Subset, FS_CardinalityType
  <2>2. races[c] \in Nat
    BY DEF TypeInv
  <2> QED
    BY <1>1, <1>2, <2>1, <2>2, CodeCounts DEF CodeFor
<1>3. CASE code[c] # "used"
  BY <1>3 DEF CodeFor
<1> QED
  BY <1>2, <1>3

\* The steps that are not about codes, and the ends of what they begin.
LEMMA CodeQuiet ==
  ASSUME TypeInv, CodeInv, UNCHANGED <<code, races>>,
         \A c \in Codes : Minted(c)' = Minted(c),
         \A w \in pending' \ pending : w.do \notin {"identity", "code", "mint"}
  PROVE  CodeInv'
<1>1. ASSUME NEW c \in Codes PROVE CodeFor(c)'
  <2>1. /\ Begun("mint", c)' \subseteq Begun("mint", c)
        /\ Begun("code", c)' \subseteq Begun("code", c)
    BY DEF Begun
  <2>2. CodeFor(c)
    BY DEF CodeInv, CodeFor
  <2> QED
    BY <2>1, <2>2, CodeKept
<1>2. \A w \in pending' : w.do \in {"identity", "code"} => code'[w.of] # "none"
  BY DEF CodeInv
<1> QED
  BY <1>1, <1>2 DEF CodeInv, CodeFor

LEMMA CodeNext ==
  ASSUME TypeInv, CodeInv, [Next]_vars
  PROVE  CodeInv'
<1>1. \A c \in Codes : CodeFor(c)
  BY DEF CodeInv, CodeFor
<1>2. ASSUME UNCHANGED <<born, from, parent>> PROVE \A c : Minted(c)' = Minted(c)
  BY <1>2 DEF Minted, Tokens
<1>3. ASSUME NEW x, NEW do, NEW long, do \notin {"identity", "code", "mint"}, Begins(do, x, long)
      PROVE  CodeInv'
  <2>1. UNCHANGED <<code, races, born, from, parent>>
        /\ \A w \in pending' \ pending : w.do \notin {"identity", "code", "mint"}
    BY <1>3 DEF Begins, Begin, Ask, codes, tokens, history
  <2> QED
    BY <1>2, <2>1, CodeQuiet
<1>4. ASSUME NEW t \in Tokens,
             \/ CheckRevoke(t) \/ CheckPush(t)
             \/ \E long \in BOOLEAN : CheckRefresh(t, long)
      PROVE  CodeInv'
  BY <1>3, <1>4, BeginCases
<1>5. ASSUME NEW w \in pending, Revoke(w) \/ Subscribe(w) PROVE CodeInv'
  <2>1. UNCHANGED <<code, races, born, from, parent>> /\ pending' \subseteq pending
    BY <1>5 DEF Revoke, Subscribe, codes, tokens, history
  <2> QED
    BY <1>2, <2>1, CodeQuiet
<1>6. ASSUME NEW c \in Codes, ExpireCode(c) PROVE CodeInv'
  <2>1. UNCHANGED <<code, races, born, from, parent>> /\ pending' \subseteq pending
    BY <1>6 DEF ExpireCode, tokens, history
  <2> QED
    BY <1>2, <2>1, CodeQuiet
<1>7. ASSUME \/ Restart \/ UNCHANGED vars
             \/ \E t \in Tokens : Unsubscribe(t) \/ Expire(t)
      PROVE  CodeInv'
  <2>1. UNCHANGED <<code, races, born, from, parent>> /\ pending' \subseteq pending
    BY <1>7 DEF Restart, vars, Unsubscribe, Expire, codes, tokens, history
  <2> QED
    BY <1>2, <2>1, CodeQuiet
<1>8. ASSUME NEW w \in pending, Refresh(w) PROVE CodeInv'
  <2>1. w.of \in Tokens /\ w.long \in BOOLEAN /\ born \in Nat
    BY <1>8, Subject DEF Refresh
  <2>2. from[w.of] \in Codes /\ w.of \in 0..born /\ w.of # 0
    BY <2>1 DEF TypeInv, TypeOK, Tokens
  <2>3. Issue(from[w.of], w.of, w.long)
    BY <1>8 DEF Refresh
  <2>4. \A c \in Codes : Minted(c)' = Minted(c)
    BY <2>1, <2>2, <2>3, IssueCounts
  <2>5. UNCHANGED <<code, races>> /\ pending' \subseteq pending
    BY <1>8 DEF Refresh, codes
  <2> QED
    BY <2>4, <2>5, CodeQuiet
<1>9. ASSUME NEW c \in Codes, NEW S \in SUBSET Scopes, Consent(c, S) PROVE CodeInv'
  <2>1. /\ UNCHANGED <<pending, races, born, from, parent>> /\ code[c] = "none"
        /\ code' = [code EXCEPT ![c] = "fresh"] /\ code \in [Codes -> {"none", "fresh", "used"}]
    BY <1>9 DEF Consent, tokens, history, TypeInv, TypeOK
  <2>2. ASSUME NEW d \in Codes PROVE CodeFor(d)'
    <3>1. \A do : Begun(do, d)' = Begun(do, d)
      BY <2>1 DEF Begun
    <3>2. code'[d] = code[d] \/ (code[d] # "used" /\ code'[d] # "used")
      BY <2>1
    <3> QED
      BY <1>1, <1>2, <2>1, <3>1, <3>2, CodeKept
  <2>3. \A w \in pending' : w.do \in {"identity", "code"} => code'[w.of] # "none"
    <3>1. \A w \in pending : w.do \in {"identity", "code"} => w.of \in Codes
      BY Subject
    <3> QED
      BY <2>1, <3>1 DEF CodeInv
  <2> QED
    BY <2>2, <2>3 DEF CodeInv, CodeFor
<1>10. ASSUME NEW c \in Codes, NEW do \in {"identity", "code"}, NEW long \in BOOLEAN,
              CheckCode(c, do, long)
       PROVE  CodeInv'
  <2>1. /\ UNCHANGED <<code, races, born, from, parent>> /\ code[c] = "fresh"
        /\ pending' = pending \cup {Ask(do, c, long)}
    BY <1>10 DEF CheckCode, Begin, codes, tokens, history
  <2>2. ASSUME NEW d \in Codes PROVE CodeFor(d)'
    <3>1. Begun("mint", d)' = Begun("mint", d)
      BY <2>1 DEF Begun, Ask
    <3>2. d # c => Begun("code", d)' = Begun("code", d)
      BY <2>1 DEF Begun, Ask
    <3> QED
      BY <1>1, <1>2, <2>1, <3>1, <3>2, CodeKept
  <2>3. \A w \in pending' : w.do \in {"identity", "code"} => code'[w.of] # "none"
    BY <2>1 DEF CodeInv, Ask
  <2> QED
    BY <2>2, <2>3 DEF CodeInv, CodeFor
<1>11. ASSUME NEW w \in pending, Mint(w) PROVE CodeInv'
  <2>1. w.of \in Codes /\ w.long \in BOOLEAN /\ born \in Nat /\ 0 \in 0..born
    BY <1>11, Subject DEF Mint
  <2>2. /\ Issue(w.of, 0, w.long) /\ w.do = "mint"
        /\ pending' = pending \ {w} /\ UNCHANGED <<code, races>>
    BY <1>11 DEF Mint, codes, history
  <2>3. \A d \in Codes : IF d = w.of /\ 0 = 0 THEN Cardinality(Minted(d)') = Cardinality(Minted(d)) + 1
                                          ELSE Minted(d)' = Minted(d)
    BY <2>1, <2>2, IssueCounts
  <2>4. ASSUME NEW d \in Codes PROVE CodeFor(d)'
    <3>1. /\ Begun("mint", d)' \subseteq Begun("mint", d)
          /\ Begun("code", d)' = Begun("code", d)
      BY <2>2 DEF Begun
    <3>2. CASE d # w.of
      BY <1>1, <2>2, <2>3, <3>1, <3>2, CodeKept
    <3>3. CASE d = w.of
      <4>1. Cardinality(Begun("mint", d)') = Cardinality(Begun("mint", d)) - 1
        BY <2>2, <3>3, CodeCounts, BegunRemove DEF TypeInv
      <4>2. code[d] = "used"
        BY <1>1, <2>2, <3>3 DEF CodeFor, Begun
      <4>3. Cardinality(Minted(d)') = Cardinality(Minted(d)) + 1
        BY <2>3, <3>3
      <4>4. Cardinality(Minted(d)) + Cardinality(Begun("mint", d)) + Cardinality(Begun("code", d))
              <= 1 + races[d]
        BY <1>1, <4>2 DEF CodeFor
      <4>5. Cardinality(Minted(d)') + Cardinality(Begun("mint", d)') + Cardinality(Begun("code", d)')
              <= 1 + races'[d]
        BY <2>2, <3>1, <4>1, <4>3, <4>4, CodeCounts
      <4> QED
        BY <2>2, <4>2, <4>5 DEF CodeFor
    <3> QED
      BY <3>2, <3>3
  <2>5. \A v \in pending' : v.do \in {"identity", "code"} => code'[v.of] # "none"
    BY <2>2 DEF CodeInv
  <2> QED
    BY <2>4, <2>5 DEF CodeInv, CodeFor
<1>12. ASSUME NEW w \in pending, UseCode(w) PROVE CodeInv'
  <2> DEFINE c == w.of
             m == Ask("mint", c, w.long)
  <2>1. c \in Codes /\ w.do \in {"identity", "code"} /\ code[c] # "none"
    BY <1>12, Subject DEF UseCode, CodeInv
  <2>2. /\ code' = [code EXCEPT ![c] = "used"] /\ code \in [Codes -> {"none", "fresh", "used"}]
        /\ races \in [Codes -> Nat] /\ UNCHANGED <<born, from, parent>>
    BY <1>12 DEF UseCode, TypeInv, TypeOK, tokens
  <2>3. /\ pending' \subseteq (pending \ {w}) \cup {m} /\ pending \ {w} \subseteq pending'
        /\ w.do = "identity" => pending' = pending \ {w}
        /\ code[c] = "used" => races' = races
        /\ code[c] # "used" =>
              races' = [races EXCEPT ![c] = Cardinality(Begun("code", c) \ {w})]
    BY <1>12, <2>1, <2>2 DEF UseCode
  <2>4. m.do = "mint" /\ m.of = c
    BY DEF Ask
  <2> HIDE DEF m
  <2>5. ASSUME NEW d \in Codes, d # c PROVE CodeFor(d)'
    <3>1. Begun("mint", d)' = Begun("mint", d) /\ Begun("code", d)' = Begun("code", d)
      BY <2>3, <2>4, <2>5 DEF Begun
    <3> QED
      BY <1>1, <1>2, <2>1, <2>2, <2>3, <2>5, <3>1, CodeKept
  <2>6. CodeFor(c)'
    <3>1. /\ Begun("code", c)' = Begun("code", c) \ {w}
          /\ Begun("mint", c)' \subseteq Begun("mint", c) \cup {m}
          /\ w.do = "identity" => Begun("mint", c)' = Begun("mint", c)
      BY <2>1, <2>3, <2>4 DEF Begun
    <3>2. Minted(c)' = Minted(c) /\ code'[c] = "used"
      BY <1>2, <2>1, <2>2
    <3>3. /\ Cardinality(Begun("mint", c)') \in Nat
          /\ Cardinality(Begun("mint", c)') <= Cardinality(Begun("mint", c)) + 1
      <4>1. /\ IsFiniteSet(Begun("mint", c) \cup {m})
            /\ Cardinality(Begun("mint", c) \cup {m}) \in Nat
            /\ Cardinality(Begun("mint", c) \cup {m}) <= Cardinality(Begun("mint", c)) + 1
        <5>1. IsFiniteSet(Begun("mint", c)) /\ Cardinality(Begun("mint", c)) \in Nat
          BY CodeCounts
        <5>2. /\ IsFiniteSet(Begun("mint", c) \cup {m})
              /\ \/ Cardinality(Begun("mint", c) \cup {m}) = Cardinality(Begun("mint", c))
                 \/ Cardinality(Begun("mint", c) \cup {m}) = Cardinality(Begun("mint", c)) + 1
          BY <5>1, FS_AddElement
        <5> QED
          BY <5>1, <5>2
      <4>2. Cardinality(Begun("mint", c)') \in Nat
            /\ Cardinality(Begun("mint", c)') <= Cardinality(Begun("mint", c) \cup {m})
        BY <3>1, <4>1, FS_Subset, FS_CardinalityType
      <4> QED
        BY <4>1, <4>2, CodeCounts
    <3>4. CASE code[c] = "used" /\ w.do = "code"
      <4>1. Cardinality(Begun("code", c)') = Cardinality(Begun("code", c)) - 1
        <5>1. w \in Begun("code", c)
          BY <3>4 DEF Begun
        <5> QED
          BY <3>1, <5>1, CodeCounts, FS_RemoveElement
      <4>2. Cardinality(Minted(c)) + Cardinality(Begun("mint", c)) + Cardinality(Begun("code", c))
              <= 1 + races[c]
        BY <1>1, <2>1, <3>4 DEF CodeFor
      <4>3. Cardinality(Minted(c)') + Cardinality(Begun("mint", c)') + Cardinality(Begun("code", c)')
              <= 1 + races'[c]
        BY <2>1, <2>2, <2>3, <3>2, <3>3, <3>4, <4>1, <4>2, CodeCounts
      <4> QED
        BY <3>2, <4>3 DEF CodeFor
    <3>5. CASE code[c] = "used" /\ w.do = "identity"
      BY <1>1, <2>1, <2>3, <3>1, <3>2, <3>5, CodeKept
    <3>6. CASE code[c] # "used"
      <4>1. Minted(c) = {} /\ Begun("mint", c) = {}
        BY <1>1, <2>1, <3>6 DEF CodeFor
      <4>2. Cardinality(Minted(c)') = 0 /\ Cardinality(Begun("mint", c)) = 0
        BY <3>2, <4>1, FS_EmptySet
      <4>3. races'[c] = Cardinality(Begun("code", c)')
        BY <2>1, <2>2, <2>3, <3>1, <3>6
      <4>4. Cardinality(Begun("code", c)') \in Nat
        <5>1. IsFiniteSet(Begun("code", c) \ {w})
          BY CodeCounts, FS_Subset
        <5> QED
          BY <3>1, <5>1, FS_CardinalityType
      <4>5. Cardinality(Minted(c)') + Cardinality(Begun("mint", c)') + Cardinality(Begun("code", c)')
              <= 1 + races'[c]
        BY <3>3, <4>2, <4>3, <4>4
      <4> QED
        BY <3>2, <4>5 DEF CodeFor
    <3> QED
      BY <2>1, <3>4, <3>5, <3>6
  <2>7. \A v \in pending' : v.do \in {"identity", "code"} => code'[v.of] # "none"
    <3>1. \A v \in pending : v.do \in {"identity", "code"} => v.of \in Codes
      BY Subject
    <3> QED
      BY <2>1, <2>2, <2>3, <2>4, <3>1 DEF CodeInv
  <2>8. \A d \in Codes : CodeFor(d)'
    BY <2>5, <2>6
  <2> QED
    BY <2>7, <2>8 DEF CodeInv, CodeFor
<1> QED
  BY <1>4, <1>5, <1>6, <1>7, <1>8, <1>9, <1>10, <1>11, <1>12 DEF Next, Grants, Uses, Continue

-----------------------------------------------------------------------------
(* The theorems. *)

LEMMA Invariance == Spec => []GrantInv
<1>1. GrantInv /\ [Next]_vars => GrantInv'
  BY TypeNext, CodeNext, RefreshNext, HeirNext, SubNext DEF GrantInv
<1> QED
  BY InitInv, <1>1, PTL DEF Spec

\* The columns keep their types, and the tokens their descent.
THEOREM TypeCorrect == Spec => []TypeOK
<1>1. GrantInv => TypeOK
  BY DEF GrantInv, TypeInv
<1> QED
  BY Invariance, <1>1, PTL

\* A code and a refresh token are good for one token each, and one more for
\* each exchange that had read them when they were marked (_check_auth_code,
\* indieauth_token_endpoint).
THEOREM GrantsAreSpentOnce == Spec => []OneTokenEach
<1>1. GrantInv => OneTokenEach
  <2> SUFFICES ASSUME GrantInv PROVE OneTokenEach
    OBVIOUS
  <2>1. TypeInv /\ CodeInv /\ RefreshInv /\ TypeOK
    BY DEF GrantInv, TypeInv
  <2>2. ASSUME NEW c \in Codes PROVE Cardinality(Minted(c)) <= 1 + races[c]
    <3>1. races[c] \in Nat
      BY <2>1 DEF TypeInv
    <3>2. CASE code[c] = "used"
      <4>1. Cardinality(Minted(c)) + Cardinality(Begun("mint", c)) + Cardinality(Begun("code", c))
              <= 1 + races[c]
        BY <2>1, <3>2 DEF CodeInv
      <4>2. /\ Cardinality(Minted(c)) \in Nat /\ Cardinality(Begun("mint", c)) \in Nat
            /\ Cardinality(Begun("code", c)) \in Nat
        BY <2>1, CodeCounts
      <4> QED
        BY <3>1, <4>1, <4>2
    <3>3. CASE code[c] # "used"
      <4>1. Minted(c) = {}
        BY <2>1, <3>3 DEF CodeInv
      <4>2. Cardinality(Minted(c)) = 0
        BY <4>1, FS_EmptySet
      <4> QED
        BY <3>1, <4>2
    <3> QED
      BY <3>2, <3>3
  <2>3. ASSUME NEW t \in Tokens PROVE Cardinality(Heirs(t)) <= 1 + doubled[t]
    <3>1. doubled[t] \in Nat /\ IsFiniteSet(pending)
      BY <2>1, TokensAssumption DEF TypeInv, TypeOK, Tokens, Ids
    <3>2. Cardinality(Heirs(t)) \in Nat /\ Cardinality(Begun("refresh", t)) \in Nat
      BY <2>1, <3>1, TokensFinite, BegunFinite
    <3>3. CASE t \in refreshed
      BY <2>1, <3>1, <3>2, <3>3 DEF RefreshInv
    <3>4. CASE t \notin refreshed
      BY <2>1, <3>1, <3>4, FS_EmptySet DEF RefreshInv
    <3> QED
      BY <3>3, <3>4
  <2> QED
    BY <2>1, <2>2, <2>3 DEF OneTokenEach, Minted
<1> QED
  BY Invariance, <1>1, PTL

\* A token that is logged out (indieauth_revocation_endpoint, oauth_revoke) is
\* refreshed by nothing that had not read it before.
THEOREM RevokedGivesNoMore == Spec => []LoggedOutStaysOut
<1>1. GrantInv => LoggedOutStaysOut
  <2> SUFFICES ASSUME GrantInv, NEW t \in revoked
               PROVE  Cardinality(Heirs(t)) <= allowed[t]
    BY DEF LoggedOutStaysOut
  <2>1. TypeInv /\ HeirInv
    BY DEF GrantInv
  <2>2. allowed[t] \in Nat /\ IsFiniteSet(pending)
    BY <2>1, TokensAssumption DEF TypeInv, TypeOK, Tokens, Ids
  <2>3. Cardinality(Heirs(t)) \in Nat /\ Cardinality(Begun("refresh", t)) \in Nat
    BY <2>1, <2>2, TokensFinite, BegunFinite
  <2> QED
    BY <2>1, <2>2, <2>3 DEF HeirInv
<1> QED
  BY Invariance, <1>1, PTL

\* A revoked token keeps no push subscription, but one whose request had checked
\* the token before (revoke_token_push_subscriptions).
THEOREM SubscriptionsAreDropped == Spec => []NoDanglingSubscription
<1>1. GrantInv => NoDanglingSubscription
  BY DEF GrantInv, SubInv, NoDanglingSubscription
<1> QED
  BY Invariance, <1>1, PTL
=============================================================================
