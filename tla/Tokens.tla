-------------------------------- MODULE Tokens ---------------------------------
(***************************************************************************)
(* The grants of app/indieauth.py and app/mastodon/oauth.py: consent, the  *)
(* code it gives, the tokens a code and its refreshes give, log-out, and   *)
(* the push subscription that hangs on a token.                            *)
(*                                                                         *)
(* Every request reads the row it is about, and writes in a later          *)
(* transaction what it decided: `pending` holds the requests in between.   *)
(***************************************************************************)
EXTENDS Integers, FiniteSets

CONSTANTS
  Codes,      \* the codes that the owner's consents give
  Scopes,     \* what a client can ask for, "push" among it
  MaxTokens,  \* bound: tokens
  MaxPending, \* bound: requests between their reads and their writes
  MaxCrashes  \* bound: restarts of the web process

Ids == 1..MaxTokens
ASSUME TokensAssumption ==
  /\ IsFiniteSet(Codes) /\ "push" \in Scopes
  /\ MaxTokens \in Nat /\ MaxPending \in Nat /\ MaxCrashes \in Nat

VARIABLES
  code,      \* "none", "fresh" or "used" (is_used)
  old,       \* codes of more than 120 seconds
  scope,     \* what the owner consented to, of each code
  born,      \* how many tokens there are
  from,      \* their codes
  parent,    \* the token that was refreshed for it, or 0
  renewable, \* tokens with a refresh_token: those of /token
  refreshed, \* was_refreshed
  revoked,   \* is_revoked
  expired,   \* tokens of /token whose hour has passed
  subs,      \* tokens that have a push subscription
  pending, crashes,
  \* History: not read by the code.
  races,     \* by code: uses of it that were under way when it was used
  doubled,   \* by token: refreshes under way when it was refreshed
  allowed,   \* by token: refreshes done or under way when it was revoked
  straddling \* tokens revoked while a subscription was under way

codes == <<code, old, scope>>
tokens == <<born, from, parent, renewable, refreshed>>
history == <<races, doubled, allowed, straddling>>
vars == <<codes, tokens, revoked, expired, subs, pending, crashes, history>>

Begin(w) ==
  /\ Cardinality(pending) < MaxPending /\ w \notin pending
  /\ pending' = pending \cup {w}
Begun(do, x) == {w \in pending : w.do = do /\ w.of = x}
Ask(do, x, long) == [do |-> do, of |-> x, long |-> long]

\* issue_access_token writes a new row; `long`: by /oauth/token, without a
\* refresh token and for a hundred years.
Issue(c, p, long) ==
  /\ born < MaxTokens /\ born' = born + 1
  /\ from' = [from EXCEPT ![born + 1] = c] /\ parent' = [parent EXCEPT ![born + 1] = p]
  /\ renewable' = IF long THEN renewable ELSE renewable \cup {born + 1}

Tokens == 1..born
Heirs(t) == {u \in Tokens : parent[u] = t}

-----------------------------------------------------------------------------
(* Codes. *)

\* indieauth_flow: the owner consents to some scopes, or to none.
Consent(c, S) ==
  /\ code[c] = "none"
  /\ code' = [code EXCEPT ![c] = "fresh"] /\ scope' = [scope EXCEPT ![c] = S]
  /\ UNCHANGED <<old, tokens, revoked, expired, subs, pending, crashes, history>>

\* _check_auth_code, up to its commit; for an identity (/auth) or for a token.
CheckCode(c, do, long) ==
  /\ code[c] = "fresh" /\ c \notin old
  /\ Begin(Ask(do, c, long))
  /\ UNCHANGED <<codes, tokens, revoked, expired, subs, crashes, history>>
\* Its commit: nothing looks at is_used again.  A code without a scope gives no
\* token.
UseCode(w) ==
  LET c == w.of IN
  /\ w.do \in {"identity", "code"}
  /\ code' = [code EXCEPT ![c] = "used"]
  /\ races' = IF code[c] = "fresh"
              THEN [races EXCEPT ![c] = Cardinality(Begun("code", c) \ {w})] ELSE races
  /\ pending' = (pending \ {w}) \cup
       (IF w.do = "code" /\ scope[c] # {} THEN {Ask("mint", c, w.long)} ELSE {})
  /\ UNCHANGED <<old, scope, tokens, revoked, expired, subs, crashes, doubled, allowed, straddling>>
Mint(w) ==
  /\ w.do = "mint" /\ pending' = pending \ {w}
  /\ Issue(w.of, 0, w.long)
  /\ UNCHANGED <<codes, refreshed, revoked, expired, subs, crashes, history>>

-----------------------------------------------------------------------------
(* Refreshes: an expired token can be refreshed, a revoked one cannot. *)

\* mutant: is_revoked is not looked at
CheckAnyRefresh(t, long) ==
  /\ t \in renewable \ refreshed
  /\ Begin(Ask("refresh", t, long))
  /\ UNCHANGED <<codes, tokens, revoked, expired, subs, crashes, history>>
\* mutant: was_refreshed is not looked at
CheckRefreshed(t, long) ==
  /\ t \in renewable \ revoked
  /\ Begin(Ask("refresh", t, long))
  /\ UNCHANGED <<codes, tokens, revoked, expired, subs, crashes, history>>
CheckRefresh(t, long) ==
  /\ t \in renewable \ (refreshed \cup revoked)
  /\ Begin(Ask("refresh", t, long))
  /\ UNCHANGED <<codes, tokens, revoked, expired, subs, crashes, history>>
\* The refreshed token stays valid until it expires.
Refresh(w) ==
  LET t == w.of IN
  /\ w.do = "refresh" /\ pending' = pending \ {w}
  /\ refreshed' = refreshed \cup {t} /\ Issue(from[t], t, w.long)
  /\ doubled' = IF t \in refreshed THEN doubled
                ELSE [doubled EXCEPT ![t] = Cardinality(Begun("refresh", t) \ {w})]
  /\ UNCHANGED <<codes, revoked, expired, subs, crashes, races, allowed, straddling>>

-----------------------------------------------------------------------------
(* Log-out, and what a token is used for. *)

\* _check_access_token
Valid(t) == t \in Tokens \ (revoked \cup expired)

\* indieauth_revocation_endpoint, oauth_revoke: an expired token is not revoked.
CheckRevoke(t) ==
  /\ Valid(t) /\ Begin(Ask("revoke", t, FALSE))
  /\ UNCHANGED <<codes, tokens, revoked, expired, subs, crashes, history>>
\* mutant: the subscriptions stay
RevokeToken(w) ==
  LET t == w.of IN
  /\ w.do = "revoke" /\ pending' = pending \ {w}
  /\ revoked' = revoked \cup {t}
  /\ allowed' = IF t \in revoked THEN allowed
                ELSE [allowed EXCEPT ![t] = Cardinality(Heirs(t)) + Cardinality(Begun("refresh", t))]
  /\ UNCHANGED <<codes, tokens, expired, subs, crashes, races, doubled, straddling>>
Revoke(w) ==
  LET t == w.of IN
  /\ w.do = "revoke" /\ pending' = pending \ {w}
  /\ revoked' = revoked \cup {t} /\ subs' = subs \ {t}
  /\ allowed' = IF t \in revoked THEN allowed
                ELSE [allowed EXCEPT ![t] = Cardinality(Heirs(t)) + Cardinality(Begun("refresh", t))]
  /\ straddling' = IF Begun("subscribe", t) # {} THEN straddling \cup {t} ELSE straddling
  /\ UNCHANGED <<codes, tokens, expired, crashes, races, doubled>>

\* has_scope: the scope or the one above it.
HasScope(t, s) == s \in scope[from[t]]
\* push_subscription_create: the token is checked first, and the host of the
\* endpoint is resolved before the row is written.
CheckPush(t) ==
  /\ Valid(t) /\ HasScope(t, "push") /\ Begin(Ask("subscribe", t, FALSE))
  /\ UNCHANGED <<codes, tokens, revoked, expired, subs, crashes, history>>
Subscribe(w) ==
  /\ w.do = "subscribe" /\ pending' = pending \ {w} /\ subs' = subs \cup {w.of}
  /\ UNCHANGED <<codes, tokens, revoked, expired, crashes, history>>
\* push_subscription_delete, and the push worker, which does not look at the
\* subscriptions of revoked tokens.
Unsubscribe(t) ==
  /\ t \in subs \ revoked /\ subs' = subs \ {t}
  /\ UNCHANGED <<codes, tokens, revoked, expired, pending, crashes, history>>

-----------------------------------------------------------------------------
ExpireCode(c) ==
  /\ code[c] # "none" /\ c \notin old /\ old' = old \cup {c}
  /\ UNCHANGED <<code, scope, tokens, revoked, expired, subs, pending, crashes, history>>
\* Its hour, expires_in, has passed.
Expire(t) ==
  /\ t \in renewable \ expired /\ expired' = expired \cup {t}
  /\ UNCHANGED <<codes, tokens, revoked, subs, pending, crashes, history>>
Restart ==
  /\ crashes < MaxCrashes /\ pending # {} /\ crashes' = crashes + 1 /\ pending' = {}
  /\ UNCHANGED <<codes, tokens, revoked, expired, subs, history>>

Init ==
  /\ code = [c \in Codes |-> "none"] /\ old = {} /\ scope = [c \in Codes |-> {}]
  /\ born = 0 /\ from = [t \in Ids |-> CHOOSE c \in Codes : TRUE] /\ parent = [t \in Ids |-> 0]
  /\ renewable = {} /\ refreshed = {} /\ revoked = {} /\ expired = {} /\ subs = {}
  /\ pending = {} /\ crashes = 0
  /\ races = [c \in Codes |-> 0] /\ doubled = [t \in Ids |-> 0]
  /\ allowed = [t \in Ids |-> 0] /\ straddling = {}

Grants ==
  \/ \E c \in Codes : ExpireCode(c) \/ \E S \in SUBSET Scopes : Consent(c, S)
  \/ \E c \in Codes, do \in {"identity", "code"}, long \in BOOLEAN : CheckCode(c, do, long)
  \/ \E t \in Tokens, long \in BOOLEAN : CheckRefresh(t, long)
Uses == \E t \in Tokens : CheckRevoke(t) \/ CheckPush(t) \/ Unsubscribe(t) \/ Expire(t)
Continue == \E w \in pending :
  UseCode(w) \/ Mint(w) \/ Refresh(w) \/ Revoke(w) \/ Subscribe(w)
Next == Grants \/ Uses \/ Continue \/ Restart

Spec == Init /\ [][Next]_vars

-----------------------------------------------------------------------------
(* Properties. *)

\* The types of the columns; a token comes of an earlier one, or of a code.
TypeOK ==
  /\ code \in [Codes -> {"none", "fresh", "used"}] /\ old \subseteq Codes
  /\ scope \in [Codes -> SUBSET Scopes] /\ born \in 0..MaxTokens
  /\ \A t \in Tokens : from[t] \in Codes /\ parent[t] \in 0..(t - 1)
  /\ renewable \cup revoked \cup subs \subseteq Tokens
  /\ refreshed \cup expired \subseteq renewable /\ straddling \subseteq revoked

\* A code gives one token, and a refresh token another, and one more for each
\* exchange that was under way when it was marked as used.
OneTokenEach ==
  /\ TypeOK
  /\ \A c \in Codes : Cardinality({t \in Tokens : from[t] = c /\ parent[t] = 0}) <= 1 + races[c]
  /\ \A t \in Tokens : Cardinality(Heirs(t)) <= 1 + doubled[t]

\* "so the token is dead server-side": a token that is logged out gives no other
\* one, except by a refresh that was under way.
LoggedOutStaysOut == \A t \in revoked : Cardinality(Heirs(t)) <= allowed[t]

\* "a dangling subscription holds push credentials indefinitely": none is left to
\* a revoked token, unless it was being written when the token was revoked.
NoDanglingSubscription == subs \cap revoked \subseteq straddling
=============================================================================
