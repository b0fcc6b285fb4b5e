------------------------------- MODULE Session -------------------------------
(***************************************************************************)
(* Sign-in by magic link and the session tokens it yields.                 *)
(*                                                                         *)
(* The tokens are stateless: nothing on the server can recall one.  What   *)
(* the api can do about a leaked or a demoted session rests on the dates   *)
(* in the tokens and on the checks made when a token is minted.  The       *)
(* allowlist and the roles are deployment configuration: they change by a  *)
(* restart, which also forgets the in-memory throttle.  Redeeming a link   *)
(* is an atomic claim in the database followed, after an await, by the     *)
(* checks and the issue of the tokens.                                     *)
(***************************************************************************)
EXTENDS Naturals, FiniteSets, Sequences

CONSTANTS
    Emails,       \* mailboxes
    Addresses,    \* what a link request may carry, in lower case
    strip,        \* the mailbox an address names once stripped of white space
    Links,        \* magic-link tokens that can be minted
    Redeemers,    \* invocations of POST /auth/magic/redeem
    NoLink,
    Role,         \* the roles a deployment hands out
    LINK_TTL, ACCESS_TTL, REFRESH_TTL,   \* in units of time
    _RATE_WINDOW, _RATE_MAX,             \* the throttle on link requests
    MaxTime       \* bound on the clock

ASSUME SessionAssumptions ==
    /\ NoLink \notin Links
    /\ Addresses # {}
    /\ strip \in [Addresses -> Emails]
    /\ Role \subseteq {"viewer", "operator", "admin"}
    /\ LINK_TTL \in Nat /\ ACCESS_TTL \in Nat /\ REFRESH_TTL \in Nat
    /\ ACCESS_TTL <= REFRESH_TTL
    /\ _RATE_WINDOW \in Nat /\ _RATE_MAX \in Nat
    /\ MaxTime \in Nat

VARIABLES
    now,      \* the clock
    booted,   \* when the running process was started
    config,   \* EmailAllowlist and RoleResolver: an email's role, or "barred"
    since,    \* when the deployment last changed an email's entry
    recent,   \* _recent_requests: times of the link requests of each address
    link,     \* magic_login_tokens
    claim,    \* the link each redemption in flight has claimed
    tokens    \* every session token ever signed

vars == <<now, booted, config, since, recent, link, claim, tokens>>

Tokens == [typ : {"access", "refresh"}, link : Links, email : Emails, role : Role,
           iat : Nat, exp : Nat]

TypeOK ==
    /\ now \in Nat
    /\ booted \in Nat
    /\ config \in [Emails -> Role \cup {"barred"}]
    /\ since \in [Emails -> Nat]
    /\ recent \in [Addresses -> Seq(Nat)]
    /\ link \in [Links -> [phase : {"unused", "stored", "mailed", "consumed", "lost"},
                           address : Addresses, asked : Nat, expires_at : Nat]]
    /\ claim \in [Redeemers -> Links \cup {NoLink}]
    /\ tokens \subseteq Tokens

Init ==
    /\ now = 1
    /\ booted = 0
    /\ config \in [Emails -> Role \cup {"barred"}]
    /\ since = [e \in Emails |-> 0]
    /\ recent = [a \in Addresses |-> <<>>]
    /\ link = [l \in Links |-> [phase |-> "unused", asked |-> 0, expires_at |-> 0,
                                address |-> CHOOSE a \in Addresses : TRUE]]
    /\ claim = [u \in Redeemers |-> NoLink]
    /\ tokens = {}

permits(e) == config[e] # "barred"
role_for(e) == config[e]

-----------------------------------------------------------------------------
Tick ==
    /\ now < MaxTime
    /\ now' = now + 1
    /\ UNCHANGED <<booted, config, since, recent, link, claim, tokens>>

\* A deploy with another allowlist or role entry for e: the process restarts,
\* its throttle is empty, and requests and redemptions in flight are gone.
Redeploy(e, r) ==
    /\ r # config[e]
    /\ config' = [config EXCEPT ![e] = r]
    /\ since' = [since EXCEPT ![e] = now]
    /\ booted' = now
    /\ recent' = [a \in Addresses |-> <<>>]
    /\ link' = [l \in Links |-> IF link[l].phase = "stored"
                               THEN [link[l] EXCEPT !.phase = "lost"] ELSE link[l]]
    /\ claim' = [u \in Redeemers |-> NoLink]
    /\ UNCHANGED <<now, tokens>>

\* A throttle that keeps the last request only.
ThrottledLast(a) == <<now>>

\* The requests of a still inside the window, and this one.  time.monotonic() never
\* goes back: the list is in time order, and those inside the window are its tail.
Throttled(a) ==
    LET expired == {i \in 1..Len(recent[a]) : now - recent[a][i] >= _RATE_WINDOW}
    IN  Append(SubSeq(recent[a], Cardinality(expired) + 1, Len(recent[a])), now)

\* request_magic_link and MagicLinkService.request: throttle by the address as it
\* was typed, allowlist by the mailbox it names, store the token's hash.  A
\* mailbox that is not permitted gets the same answer and no link; a throttled
\* address a 429.
RequestLink(a, l) ==
    /\ link[l].phase = "unused"
    /\ Len(Throttled(a)) <= _RATE_MAX
    /\ recent' = [recent EXCEPT ![a] = Throttled(a)]
    /\ link' = IF permits(strip[a])
               THEN [link EXCEPT ![l] = [phase |-> "stored", address |-> a, asked |-> now,
                                         expires_at |-> now + LINK_TTL]]
               ELSE link
    /\ UNCHANGED <<now, booted, config, since, claim, tokens>>

\* The sign-in email goes out.  (When the mailer raises, nobody has the link.)
MailLink(l) ==
    /\ link[l].phase = "stored"
    /\ link' = [link EXCEPT ![l].phase = "mailed"]
    /\ UNCHANGED <<now, booted, config, since, recent, claim, tokens>>

\* A claim that does not look whether the link was used.
ConsumeAny(u, l) ==
    /\ claim[u] = NoLink
    /\ link[l].phase \in {"mailed", "consumed"}
    /\ link' = [link EXCEPT ![l].phase = "consumed"]
    /\ claim' = [claim EXCEPT ![u] = l]
    /\ UNCHANGED <<now, booted, config, since, recent, tokens>>

\* consume(): one conditional UPDATE; any other redemption finds no row and is
\* a 401.
Consume(u, l) ==
    /\ claim[u] = NoLink
    /\ link[l].phase = "mailed"
    /\ link' = [link EXCEPT ![l].phase = "consumed"]
    /\ claim' = [claim EXCEPT ![u] = l]
    /\ UNCHANGED <<now, booted, config, since, recent, tokens>>

Earlier(s, t) == IF s < t THEN s ELSE t

\* A signed token of the session that link l opened; it never outlives not_after.
_encode(typ, l, e, not_after) ==
    [typ |-> typ, link |-> l, email |-> e, role |-> role_for(e), iat |-> now,
     exp |-> Earlier(now + (IF typ = "access" THEN ACCESS_TTL ELSE REFRESH_TTL),
                     not_after)]

\* redeem, after the claim: an expired link is a 401, an email that is no longer
\* permitted a 403; otherwise the pair of tokens is signed.
Redeem(u) ==
    LET l == claim[u]
        e == strip[link[l].address]
        never == now + ACCESS_TTL + REFRESH_TTL
    IN
    /\ l # NoLink
    /\ tokens' = IF link[l].expires_at < now \/ ~permits(e) THEN tokens
                 ELSE tokens \cup {_encode("access", l, e, never),
                                   _encode("refresh", l, e, never)}
    /\ claim' = [claim EXCEPT ![u] = NoLink]
    /\ UNCHANGED <<now, booted, config, since, recent, link>>

\* A refresh that trusts the role of the token it is handed.
RefreshFromClaims(t) ==
    /\ t.typ = "refresh"
    /\ now < t.exp
    /\ tokens' = tokens \cup
         {[_encode("access", t.link, t.email, t.exp) EXCEPT !.role = t.role]}
    /\ UNCHANGED <<now, booted, config, since, recent, link, claim>>

\* SessionRefresher.refresh: only a live refresh token, the allowlist and the
\* role looked up again, the new access token clamped at the refresh token's
\* expiry.
Refresh(t) ==
    /\ t.typ = "refresh"
    /\ now < t.exp
    /\ permits(t.email)
    /\ tokens' = tokens \cup {_encode("access", t.link, t.email, t.exp)}
    /\ UNCHANGED <<now, booted, config, since, recent, link, claim>>

Next ==
    \/ Tick
    \/ \E e \in Emails, r \in Role \cup {"barred"} : Redeploy(e, r)
    \/ \E a \in Addresses, l \in Links : RequestLink(a, l)
    \/ \E l \in Links : MailLink(l)
    \/ \E u \in Redeemers, l \in Links : Consume(u, l)
    \/ \E u \in Redeemers : Redeem(u)
    \/ \E t \in tokens : Refresh(t)

Spec == Init /\ [][Next]_vars

-----------------------------------------------------------------------------
\* SessionTokenVerifier.verify: the bearers a request is accepted with.
verify(t) == t.typ = "access" /\ now < t.exp

(***************************************************************************)
(* Properties.                                                             *)
(***************************************************************************)
\* A magic link opens at most one session, whatever redemptions overlap
\* (consume: "A second redemption matches no unconsumed row").
LinkRedeemedOnce ==
    \A s, t \in tokens :
        s.typ = "refresh" /\ t.typ = "refresh" /\ s.link = t.link => s = t

\* SessionRefresher: "the absolute session length is bounded by REFRESH_TTL":
\* however often it is refreshed, no bearer of a session is accepted once
\* REFRESH_TTL has passed since the sign-in.
SessionBounded ==
    \A t \in tokens : verify(t) =>
        \E r \in tokens : /\ r.typ = "refresh" /\ r.link = t.link
                          /\ now < r.iat + REFRESH_TTL

\* "a de-allowlisted or demoted operator loses (or has downgraded) access within
\* one access-token lifetime": a bearer whose role is not the configured one is
\* only accepted for ACCESS_TTL after the change.
RevokedWithinAccessTTL ==
    \A t \in tokens : verify(t) =>
        t.role = config[t.email] \/ now < since[t.email] + ACCESS_TTL

\* The two together: no session outlives its sign-in by REFRESH_TTL, and no role
\* outlives its configuration by ACCESS_TTL.
SessionsEnd == SessionBounded /\ RevokedWithinAccessTTL

\* The links minted for an address in this process's life and inside the window.
Minted(a) ==
    {l \in Links : /\ link[l].phase # "unused"
                   /\ link[l].address = a
                   /\ link[l].asked > booted
                   /\ now - link[l].asked < _RATE_WINDOW}

\* The throttle on link requests: within one process's life, a window of
\* _RATE_WINDOW never sees more than _RATE_MAX links minted for one address.
LinksThrottled == \A a \in Addresses : Cardinality(Minted(a)) <= _RATE_MAX

-----------------------------------------------------------------------------
(***************************************************************************)
(* The inductive invariant behind the theorems on sign-in (RouteProofs).   *)
(***************************************************************************)
\* A redemption in flight holds a link nobody else holds, and nothing has been
\* signed for that link yet.
ClaimInv ==
    \A u \in Redeemers : claim[u] # NoLink =>
        /\ link[claim[u]].phase = "consumed"
        /\ \A v \in Redeemers : claim[v] = claim[u] => u = v
        /\ \A t \in tokens : t.link # claim[u]

\* What a signed token says of its session: its link is spent, its dates are
\* within its own lifetime and within its refresh token's, and its role was the
\* configured one when it was signed.
TokenInv ==
    \A t \in tokens :
        /\ link[t.link].phase = "consumed"
        /\ t.iat <= now
        /\ t.exp <= t.iat + (IF t.typ = "access" THEN ACCESS_TTL ELSE REFRESH_TTL)
        /\ t.role = config[t.email] \/ t.iat <= since[t.email]
        /\ \E r \in tokens : r.typ = "refresh" /\ r.link = t.link /\ t.exp <= r.exp

IInv == TypeOK /\ ClaimInv /\ TokenInv /\ LinkRedeemedOnce

\* The list of an address is in time order and as short as the throttle keeps it.
RecentOk(a) ==
    /\ Len(recent[a]) <= _RATE_MAX
    /\ \A i, j \in 1..Len(recent[a]) : i <= j => recent[a][i] <= recent[a][j]
    /\ \A i \in 1..Len(recent[a]) : recent[a][i] <= now

\* f gives every link that counts against the throttle the entry its own request
\* left in the list: pruning the list never drops an entry that still counts.
Accounts(f, a) ==
    /\ f \in [Minted(a) -> 1..Len(recent[a])]
    /\ \A l \in Minted(a) : recent[a][f[l]] = link[l].asked
    /\ \A k, l \in Minted(a) : f[k] = f[l] => k = l

ThrottleInv ==
    /\ \A l \in Links : link[l].asked <= now
    /\ \A a \in Addresses : RecentOk(a)
    /\ \A a \in Addresses : \E f \in [Minted(a) -> 1..Len(recent[a])] : Accounts(f, a)
=============================================================================
