----------------------------- MODULE RouteProofs ------------------------------
(***************************************************************************)
(* The two components that are chains of awaits in HTTP handlers.          *)
(*                                                                         *)
(* Sign-in (Session), for any number of operators, links and redemptions,  *)
(* any lifetimes with ACCESS_TTL <= REFRESH_TTL, any throttle and any      *)
(* sequence of redeployments.                                              *)
(*                                                                         *)
(* Opening, filing and seeding (Intake), for any listings, terms,          *)
(* requests, demo dataset and page size.                                   *)
(***************************************************************************)
EXTENDS Session, Intake, FiniteSetTheorems, SequenceTheorems, WellFoundedInduction, TLAPS

-----------------------------------------------------------------------------
LEMMA InitIInv == Init => IInv
<1> SUFFICES ASSUME Init PROVE IInv
  OBVIOUS
<1>1. TypeOK
  <2>1. (CHOOSE a \in Addresses : TRUE) \in Addresses
    BY SessionAssumptions
  <2> QED
    BY <2>1 DEF Init, TypeOK
<1>2. ClaimInv /\ TokenInv /\ LinkRedeemedOnce
  BY DEF Init, ClaimInv, TokenInv, LinkRedeemedOnce
<1> QED
  BY <1>1, <1>2 DEF IInv

\* Steps that leave the tokens, the claims and the spent links alone.
LEMMA TickIInv == IInv /\ Tick => IInv'
<1> SUFFICES ASSUME IInv, Tick PROVE IInv'
  OBVIOUS
<1> USE DEF IInv, Tick
<1>1. TypeOK'
  BY SessionAssumptions DEF TypeOK
<1>2. ClaimInv'
  BY DEF ClaimInv
<1>3. TokenInv'
  <2> SUFFICES ASSUME NEW t \in tokens
               PROVE t.iat <= now'
    BY DEF TokenInv
  <2>1. t.iat \in Nat /\ now \in Nat
    BY DEF TypeOK, Tokens
  <2> QED
    BY <2>1 DEF TokenInv
<1>4. LinkRedeemedOnce'
  BY DEF LinkRedeemedOnce
<1> QED
  BY <1>1, <1>2, <1>3, <1>4

LEMMA RedeployIInv ==
    ASSUME IInv, NEW e \in Emails, NEW r \in Role \cup {"barred"}, Redeploy(e, r)
    PROVE  IInv'
<1> USE DEF IInv, Redeploy
<1>1. TypeOK'
  <2>1. recent' \in [Addresses -> Seq(Nat)]
    OBVIOUS
  <2> QED
    BY ZenonT(60), <2>1 DEF TypeOK
<1>2. ClaimInv'
  BY DEF ClaimInv
<1>3. TokenInv'
  <2> SUFFICES ASSUME NEW t \in tokens
               PROVE  /\ link'[t.link].phase = "consumed"
                      /\ t.role = config'[t.email] \/ t.iat <= since'[t.email]
    BY DEF TokenInv
  <2>1. t.link \in Links /\ t.email \in Emails
    BY DEF TypeOK, Tokens
  <2>2. link[t.link].phase = "consumed" /\ t.iat <= now
    BY DEF TokenInv
  <2>3. link'[t.link] = link[t.link]
    BY <2>1, <2>2
  <2>4. t.role = config'[t.email] \/ t.iat <= since'[t.email]
    BY <2>1, <2>2 DEF TypeOK, TokenInv
  <2> QED
    BY <2>2, <2>3, <2>4
<1>4. LinkRedeemedOnce'
  BY DEF LinkRedeemedOnce
<1> QED
  BY <1>1, <1>2, <1>3, <1>4

LEMMA FirstNaturals == \A p \in Nat : IsFiniteSet(1..p) /\ Cardinality(1..p) = p
BY FS_Interval

\* What pruning the list of an address leaves: its entries from some point on, and
\* this request after them.
LEMMA ThrottledShape ==
    ASSUME TypeOK, NEW a \in Addresses
    PROVE  \E k \in Nat :
             /\ k = Cardinality({i \in 1..Len(recent[a]) : now - recent[a][i] >= _RATE_WINDOW})
             /\ k <= Len(recent[a])
             /\ Throttled(a) \in Seq(Nat)
             /\ Len(Throttled(a)) = Len(recent[a]) - k + 1
             /\ \A i \in 1..(Len(recent[a]) - k) : Throttled(a)[i] = recent[a][k + i]
             /\ Throttled(a)[Len(recent[a]) - k + 1] = now
<1> DEFINE n == Len(recent[a])
           E == {i \in 1..n : now - recent[a][i] >= _RATE_WINDOW}
           k == Cardinality(E)
           tail == SubSeq(recent[a], k + 1, n)
<1>1. recent[a] \in Seq(Nat) /\ n \in Nat /\ now \in Nat
  BY DEF TypeOK
<1>2. IsFiniteSet(1..n) /\ Cardinality(1..n) = n
  BY <1>1, FirstNaturals
<1>3. k \in Nat /\ k <= n
  <2>1. E \in SUBSET (1..n)
    OBVIOUS
  <2> HIDE DEF E
  <2>2. IsFiniteSet(E) /\ Cardinality(E) <= Cardinality(1..n)
    BY <2>1, <1>2, FS_Subset
  <2>3. Cardinality(E) \in Nat
    BY <2>2, FS_CardinalityType
  <2> QED
    BY <1>2, <2>2, <2>3
<1>4. Throttled(a) = Append(tail, now)
  BY DEF Throttled
<1> HIDE DEF k
<1>5. \A i \in (k + 1)..n : recent[a][i] \in Nat
  BY <1>1, <1>3
<1>6. /\ tail \in Seq(Nat)
      /\ Len(tail) = n - k
      /\ \A i \in 1..(n - k) : tail[i] = recent[a][k + i]
  <2>1. /\ tail \in Seq(Nat)
        /\ Len(tail) = IF k + 1 <= n THEN n - (k + 1) + 1 ELSE 0
        /\ \A i \in 1..(n - (k + 1) + 1) : tail[i] = recent[a][(k + 1) + i - 1]
    BY <1>1, <1>3, <1>5, SubSeqProperties
  <2> HIDE DEF tail
  <2>2. n - (k + 1) + 1 = n - k
    BY <1>1, <1>3
  <2>3. \A i \in 1..(n - k) : (k + 1) + i - 1 = k + i
    BY <1>1, <1>3
  <2>4. (IF k + 1 <= n THEN n - (k + 1) + 1 ELSE 0) = n - k
    BY <1>1, <1>3
  <2>5. Len(tail) = n - k
    BY <2>1, <2>4
  <2> HIDE DEF n
  <2> QED
    BY <2>1, <2>2, <2>3, <2>5
<1> HIDE DEF tail
<1>7. /\ Append(tail, now) \in Seq(Nat)
      /\ Len(Append(tail, now)) = n - k + 1
      /\ \A i \in 1..(n - k) : Append(tail, now)[i] = recent[a][k + i]
      /\ Append(tail, now)[n - k + 1] = now
  BY <1>1, <1>3, <1>6
<1> QED
  BY <1>3, <1>4, <1>7 DEF k

\* An entry still inside the window is behind all that have left it, and stays.
LEMMA LiveEntriesStay ==
    ASSUME TypeOK, NEW a \in Addresses, RecentOk(a),
           NEW j \in 1..Len(recent[a]), now - recent[a][j] < _RATE_WINDOW
    PROVE  Cardinality({i \in 1..Len(recent[a]) : now - recent[a][i] >= _RATE_WINDOW}) < j
<1> DEFINE n == Len(recent[a])
           E == {i \in 1..n : now - recent[a][i] >= _RATE_WINDOW}
<1>1. recent[a] \in Seq(Nat) /\ n \in Nat /\ now \in Nat /\ _RATE_WINDOW \in Nat
  BY SessionAssumptions DEF TypeOK
<1>2. E \in SUBSET (1..(j - 1))
  <2> SUFFICES ASSUME NEW i \in E PROVE i < j
    BY <1>1
  <2>1. i \in 1..n /\ now - recent[a][i] >= _RATE_WINDOW
    OBVIOUS
  <2>2. recent[a][i] \in Nat /\ recent[a][j] \in Nat
    BY SMTT(30), <1>1, <2>1
  <2>3. j <= i => recent[a][j] <= recent[a][i]
    BY <2>1 DEF RecentOk
  <2> QED
    BY SMTT(30), <1>1, <2>1, <2>2, <2>3
<1>3. IsFiniteSet(1..(j - 1)) /\ Cardinality(1..(j - 1)) = j - 1
  <2> DEFINE p == j - 1
  <2>1. p \in Nat
    BY <1>1
  <2> HIDE DEF p
  <2>2. IsFiniteSet(1..p) /\ Cardinality(1..p) = p
    BY <2>1, FirstNaturals
  <2> QED
    BY <2>2 DEF p
<1> HIDE DEF E
<1>4. IsFiniteSet(E) /\ Cardinality(E) <= j - 1
  BY <1>2, <1>3, FS_Subset
<1>5. Cardinality(E) \in Nat
  BY <1>4, FS_CardinalityType
<1> QED
  BY <1>1, <1>4, <1>5 DEF E

LEMMA RequestLinkIInv ==
    ASSUME IInv, NEW a \in Addresses, NEW l \in Links, RequestLink(a, l)
    PROVE  IInv'
<1> USE DEF IInv, RequestLink
<1>1. TypeOK'
  <2>1. now + LINK_TTL \in Nat
    BY SessionAssumptions DEF TypeOK
  <2>2. Throttled(a) \in Seq(Nat)
    BY ThrottledShape
  <2> QED
    BY <2>1, <2>2 DEF TypeOK
<1>2. \A k \in Links : link[k].phase = "consumed" => link'[k] = link[k]
  BY DEF TypeOK
<1>3. ClaimInv'
  BY <1>2 DEF ClaimInv, TypeOK
<1>4. TokenInv'
  BY <1>2 DEF TokenInv, TypeOK, Tokens
<1>5. LinkRedeemedOnce'
  BY DEF LinkRedeemedOnce
<1> QED
  BY <1>1, <1>3, <1>4, <1>5

LEMMA MailLinkIInv ==
    ASSUME IInv, NEW l \in Links, MailLink(l)
    PROVE  IInv'
<1> USE DEF IInv, MailLink
<1>1. TypeOK'
  BY DEF TypeOK
<1>2. \A k \in Links : link[k].phase = "consumed" => link'[k] = link[k]
  BY DEF TypeOK
<1>3. ClaimInv'
  BY <1>2 DEF ClaimInv, TypeOK
<1>4. TokenInv'
  BY <1>2 DEF TokenInv, TypeOK, Tokens
<1>5. LinkRedeemedOnce'
  BY DEF LinkRedeemedOnce
<1> QED
  BY <1>1, <1>3, <1>4, <1>5

\* The claim is of a link that no redemption holds and no token was signed for:
\* both would have found it consumed.
LEMMA ConsumeIInv ==
    ASSUME IInv, NEW u \in Redeemers, NEW l \in Links, Consume(u, l)
    PROVE  IInv'
<1> USE DEF IInv, Consume
<1>1. TypeOK'
  BY DEF TypeOK
<1>2. \A k \in Links : link[k].phase = "consumed" => link'[k].phase = "consumed"
  BY DEF TypeOK
<1>3. ClaimInv'
  <2> SUFFICES ASSUME NEW v \in Redeemers, claim'[v] # NoLink
               PROVE  /\ link'[claim'[v]].phase = "consumed"
                      /\ \A w \in Redeemers : claim'[w] = claim'[v] => v = w
                      /\ \A t \in tokens : t.link # claim'[v]
    BY DEF ClaimInv
  <2>1. \A w \in Redeemers : claim[w] # l
    BY SessionAssumptions DEF ClaimInv, TypeOK
  <2>2. \A t \in tokens : t.link # l
    BY DEF TokenInv
  <2>3. CASE v = u
    BY <2>1, <2>2, <2>3 DEF TypeOK
  <2>4. CASE v # u
    <3>1. claim'[v] = claim[v] /\ claim[v] \in Links
      BY <2>4 DEF TypeOK
    <3> QED
      BY <2>1, <3>1, <1>2 DEF ClaimInv, TypeOK
  <2> QED
    BY <2>3, <2>4
<1>4. TokenInv'
  BY <1>2 DEF TokenInv, TypeOK, Tokens
<1>5. LinkRedeemedOnce'
  BY DEF LinkRedeemedOnce
<1> QED
  BY <1>1, <1>3, <1>4, <1>5

\* The dates of a token signed now.
LEMMA EncodeDates ==
    ASSUME TypeOK, NEW typ \in {"access", "refresh"}, NEW l \in Links, NEW e \in Emails,
           permits(e), NEW not_after \in Nat
    PROVE  LET t == _encode(typ, l, e, not_after)
               ttl == IF typ = "access" THEN ACCESS_TTL ELSE REFRESH_TTL
           IN  /\ t \in Tokens
               /\ t.typ = typ /\ t.link = l /\ t.email = e
               /\ t.iat = now /\ t.role = config[e]
               /\ t.exp <= now + ttl /\ t.exp <= not_after
               /\ now + ttl <= not_after => t.exp = now + ttl
<1> DEFINE ttl == IF typ = "access" THEN ACCESS_TTL ELSE REFRESH_TTL
<1>1. ttl \in Nat /\ now \in Nat
  BY SessionAssumptions DEF TypeOK
<1>2. /\ Earlier(now + ttl, not_after) \in Nat
      /\ Earlier(now + ttl, not_after) <= now + ttl
      /\ Earlier(now + ttl, not_after) <= not_after
      /\ now + ttl <= not_after => Earlier(now + ttl, not_after) = now + ttl
  BY <1>1 DEF Earlier
<1>3. config[e] \in Role
  BY DEF TypeOK, permits
<1> QED
  BY <1>1, <1>2, <1>3 DEF _encode, Tokens, role_for

LEMMA RedeemIInv ==
    ASSUME IInv, NEW u \in Redeemers, Redeem(u)
    PROVE  IInv'
<1> DEFINE l == claim[u]
           e == strip[link[l].address]
           never == now + ACCESS_TTL + REFRESH_TTL
           acc == _encode("access", l, e, never)
           ref == _encode("refresh", l, e, never)
<1>1. l \in Links /\ e \in Emails /\ never \in Nat
  BY SessionAssumptions DEF IInv, Redeem, TypeOK
<1>2. /\ claim' = [claim EXCEPT ![u] = NoLink]
      /\ UNCHANGED <<now, booted, config, since, recent, link>>
  BY DEF Redeem
<1>3. CASE tokens' = tokens
  <2>1. TypeOK'
    BY <1>2, <1>3 DEF IInv, TypeOK
  <2>2. ClaimInv'
    BY <1>2, <1>3 DEF IInv, TypeOK, ClaimInv
  <2>3. TokenInv'
    BY <1>2, <1>3 DEF IInv, TokenInv
  <2>4. LinkRedeemedOnce'
    BY <1>3 DEF IInv, LinkRedeemedOnce
  <2> QED
    BY <2>1, <2>2, <2>3, <2>4 DEF IInv
<1>4. CASE permits(e) /\ tokens' = tokens \cup {acc, ref}
  <2>1. /\ acc \in Tokens /\ acc.typ = "access" /\ acc.link = l /\ acc.email = e
        /\ acc.iat = now /\ acc.role = config[e] /\ acc.exp <= now + ACCESS_TTL
    BY <1>1, <1>4, EncodeDates DEF IInv
  <2>2. /\ ref \in Tokens /\ ref.typ = "refresh" /\ ref.link = l /\ ref.email = e
        /\ ref.iat = now /\ ref.role = config[e]
        /\ now + REFRESH_TTL <= never => ref.exp = now + REFRESH_TTL
    BY <1>1, <1>4, EncodeDates DEF IInv
  <2> HIDE DEF acc, ref
  <2>3. /\ now \in Nat /\ ACCESS_TTL \in Nat /\ REFRESH_TTL \in Nat
        /\ ACCESS_TTL <= REFRESH_TTL /\ acc.exp \in Nat
    BY <2>1, SessionAssumptions DEF IInv, TypeOK, Tokens
  <2>4. ref.exp = now + REFRESH_TTL /\ acc.exp <= ref.exp
    BY <2>1, <2>2, <2>3
  <2>5. link[l].phase = "consumed" /\ \A t \in tokens : t.link # l
    BY <1>1, SessionAssumptions DEF IInv, ClaimInv
  <2>6. TypeOK'
    BY <1>2, <1>4, <2>1, <2>2 DEF IInv, TypeOK
  <2>7. ClaimInv'
    <3> SUFFICES ASSUME NEW v \in Redeemers, claim'[v] # NoLink
                 PROVE  /\ link'[claim'[v]].phase = "consumed"
                        /\ \A w \in Redeemers : claim'[w] = claim'[v] => v = w
                        /\ \A t \in tokens' : t.link # claim'[v]
      BY DEF ClaimInv
    <3>1. v # u /\ claim'[v] = claim[v] /\ claim[v] # l
      BY <1>1, <1>2, SessionAssumptions DEF IInv, TypeOK, ClaimInv
    <3>2. \A t \in tokens' : t.link # claim'[v]
      BY <1>4, <2>1, <2>2, <3>1 DEF IInv, ClaimInv
    <3> QED
      BY <1>2, <3>1, <3>2 DEF IInv, TypeOK, ClaimInv
  <2>8. TokenInv'
    <3> SUFFICES ASSUME NEW t \in tokens'
                 PROVE  /\ link[t.link].phase = "consumed"
                        /\ t.iat <= now
                        /\ t.exp <= t.iat + (IF t.typ = "access" THEN ACCESS_TTL
                                                                 ELSE REFRESH_TTL)
                        /\ t.role = config[t.email] \/ t.iat <= since[t.email]
                        /\ \E r \in tokens' : /\ r.typ = "refresh" /\ r.link = t.link
                                              /\ t.exp <= r.exp
      BY <1>2 DEF TokenInv
    <3>1. CASE t \in tokens
      BY <1>4, <3>1 DEF IInv, TokenInv
    <3>2. CASE t = acc
      BY <1>4, <2>1, <2>2, <2>3, <2>4, <2>5, <3>2
    <3>3. CASE t = ref
      BY <1>4, <2>2, <2>3, <2>4, <2>5, <3>3
    <3> QED
      BY <1>4, <3>1, <3>2, <3>3
  <2>9. LinkRedeemedOnce'
    BY <1>4, <2>1, <2>2, <2>5 DEF IInv, LinkRedeemedOnce
  <2> QED
    BY <2>6, <2>7, <2>8, <2>9 DEF IInv
<1> QED
  BY <1>3, <1>4 DEF Redeem

LEMMA RefreshIInv ==
    ASSUME IInv, NEW s \in tokens, Refresh(s)
    PROVE  IInv'
<1> DEFINE acc == _encode("access", s.link, s.email, s.exp)
<1>1. s \in Tokens /\ s.link \in Links /\ s.email \in Emails /\ s.exp \in Nat
  BY DEF IInv, TypeOK, Tokens
<1>2. /\ acc \in Tokens /\ acc.typ = "access" /\ acc.link = s.link
      /\ acc.email = s.email /\ acc.iat = now /\ acc.role = config[s.email]
      /\ acc.exp <= now + ACCESS_TTL /\ acc.exp <= s.exp
  BY <1>1, EncodeDates DEF IInv, Refresh
<1>3. tokens' = tokens \cup {acc} /\ s.typ = "refresh"
  BY DEF Refresh
<1>4. UNCHANGED <<now, booted, config, since, recent, link, claim>>
  BY DEF Refresh
<1> HIDE DEF acc
<1>5. TypeOK'
  BY <1>2, <1>3, <1>4 DEF IInv, TypeOK
<1>6. ClaimInv'
  BY <1>2, <1>3, <1>4 DEF IInv, ClaimInv
<1>7. TokenInv'
  <2> SUFFICES ASSUME NEW t \in tokens'
               PROVE  /\ link[t.link].phase = "consumed"
                      /\ t.iat <= now
                      /\ t.exp <= t.iat + (IF t.typ = "access" THEN ACCESS_TTL
                                                               ELSE REFRESH_TTL)
                      /\ t.role = config[t.email] \/ t.iat <= since[t.email]
                      /\ \E r \in tokens' : /\ r.typ = "refresh" /\ r.link = t.link
                                            /\ t.exp <= r.exp
    BY <1>4 DEF TokenInv
  <2>1. CASE t \in tokens
    BY <1>3, <2>1 DEF IInv, TokenInv
  <2>2. CASE t = acc
    <3>1. now \in Nat
      BY DEF IInv, TypeOK
    <3>2. link[s.link].phase = "consumed"
      BY DEF IInv, TokenInv
    <3> QED
      BY <1>2, <1>3, <2>2, <3>1, <3>2
  <2> QED
    BY <1>3, <2>1, <2>2
<1>8. LinkRedeemedOnce'
  BY <1>2, <1>3 DEF IInv, LinkRedeemedOnce
<1> QED
  BY <1>5, <1>6, <1>7, <1>8 DEF IInv

LEMMA NextIInv == IInv /\ [Next]_vars => IInv'
<1> SUFFICES ASSUME IInv, [Next]_vars PROVE IInv'
  OBVIOUS
<1>1. CASE UNCHANGED vars
  BY <1>1 DEF vars, IInv, TypeOK, ClaimInv, TokenInv, LinkRedeemedOnce
<1>2. CASE Next
  BY <1>2, TickIInv, RedeployIInv, RequestLinkIInv, MailLinkIInv, ConsumeIInv,
     RedeemIInv, RefreshIInv DEF Next
<1> QED
  BY <1>1, <1>2

\* The invariant that ties every token to its link, its dates, its refresh token
\* and the role configured when it was signed (magic_link.py, session.py).
THEOREM SessionInvariant == Spec => []IInv
BY InitIInv, NextIInv, PTL DEF Spec

\* A magic link opens at most one session however redemptions overlap: the
\* conditional UPDATE of SqlMagicTokenStore.consume is enough.
THEOREM LinkRedeemedOnceCorrect == Spec => []LinkRedeemedOnce
<1>1. IInv => LinkRedeemedOnce
  BY DEF IInv
<1> QED
  BY <1>1, SessionInvariant, PTL

\* No bearer of a session is accepted REFRESH_TTL after its sign-in, however often
\* SessionRefresher.refresh is called: the clamp of _encode is enough.
THEOREM SessionBoundedCorrect == Spec => []SessionBounded
<1>1. IInv => SessionBounded
  <2> SUFFICES ASSUME IInv, NEW t \in tokens, verify(t)
               PROVE  \E r \in tokens : /\ r.typ = "refresh" /\ r.link = t.link
                                        /\ now < r.iat + REFRESH_TTL
    BY DEF SessionBounded
  <2>1. PICK r \in tokens : r.typ = "refresh" /\ r.link = t.link /\ t.exp <= r.exp
    BY DEF IInv, TokenInv
  <2>2. r.exp <= r.iat + REFRESH_TTL
    BY <2>1 DEF IInv, TokenInv
  <2>3. /\ now \in Nat /\ t.exp \in Nat /\ r.exp \in Nat /\ r.iat \in Nat
        /\ REFRESH_TTL \in Nat
    BY <2>1, SessionAssumptions DEF IInv, TypeOK, Tokens
  <2>4. now < t.exp
    BY DEF verify
  <2> QED
    BY <2>1, <2>2, <2>3, <2>4
<1> QED
  BY <1>1, SessionInvariant, PTL

\* A demoted or barred operator's bearer is accepted for less than ACCESS_TTL
\* after the change: refresh looks the role and the allowlist up again.
THEOREM RevokedWithinAccessTTLCorrect == Spec => []RevokedWithinAccessTTL
<1>1. IInv => RevokedWithinAccessTTL
  <2> SUFFICES ASSUME IInv, NEW t \in tokens, verify(t), t.role # config[t.email]
               PROVE  now < since[t.email] + ACCESS_TTL
    BY DEF RevokedWithinAccessTTL
  <2>1. t.iat <= since[t.email] /\ t.exp <= t.iat + ACCESS_TTL
    BY DEF IInv, TokenInv, verify
  <2>2. /\ now \in Nat /\ t.exp \in Nat /\ t.iat \in Nat /\ since[t.email] \in Nat
        /\ ACCESS_TTL \in Nat
    BY SessionAssumptions DEF IInv, TypeOK, Tokens
  <2>3. now < t.exp
    BY DEF verify
  <2> QED
    BY <2>1, <2>2, <2>3
<1> QED
  BY <1>1, SessionInvariant, PTL

\* A session ends with its refresh token and a role with its configuration
\* (SessionRefresher.refresh, SessionTokenService._encode).
THEOREM SessionsEndCorrect == Spec => []SessionsEnd
<1>1. SessionBounded /\ RevokedWithinAccessTTL => SessionsEnd
  BY DEF SessionsEnd
<1> QED
  BY <1>1, SessionBoundedCorrect, RevokedWithinAccessTTLCorrect, PTL
-----------------------------------------------------------------------------
(***************************************************************************)
(* The throttle.  Every link that counts has an entry of its own in the    *)
(* list, the list is never longer than _RATE_MAX: an injection bounds the  *)
(* links.                                                                  *)
(***************************************************************************)
Accounted(a) == \E f \in [Minted(a) -> 1..Len(recent[a])] : Accounts(f, a)

\* A step that leaves the list of an address alone and mints no link for it.
LEMMA StillAccounted ==
    ASSUME NEW a \in Addresses, Accounted(a), recent'[a] = recent[a],
           Minted(a)' \subseteq Minted(a),
           \A l \in Links : l \in Minted(a)' => link'[l].asked = link[l].asked
    PROVE  Accounted(a)'
<1>1. PICK f \in [Minted(a) -> 1..Len(recent[a])] : Accounts(f, a)
  BY DEF Accounted
<1>2. PICK M : M = Minted(a)'
  OBVIOUS
<1>3. M \subseteq Minted(a) /\ M \subseteq Links
  BY <1>2 DEF Minted
<1> DEFINE g == [l \in M |-> f[l]]
<1>4. /\ g \in [M -> 1..Len(recent[a])]
      /\ \A l \in M : recent[a][g[l]] = link[l].asked
      /\ \A k, l \in M : g[k] = g[l] => k = l
  BY <1>1, <1>3 DEF Accounts
<1> HIDE DEF g
<1>5. Accounts(g, a)'
  BY <1>2, <1>3, <1>4 DEF Accounts
<1> QED
  BY <1>2, <1>4, <1>5 DEF Accounted

\* A link request accounts for its own link with the entry it appends; the entries
\* of the others move to the front together and none that counts is dropped.
LEMMA RequestAccounted ==
    ASSUME IInv, ThrottleInv, NEW a \in Addresses, NEW l \in Links, RequestLink(a, l)
    PROVE  RecentOk(a)' /\ Accounted(a)'
<1>1. PICK k \in Nat :
        /\ k = Cardinality({i \in 1..Len(recent[a]) : now - recent[a][i] >= _RATE_WINDOW})
        /\ k <= Len(recent[a])
        /\ Throttled(a) \in Seq(Nat)
        /\ Len(Throttled(a)) = Len(recent[a]) - k + 1
        /\ \A i \in 1..(Len(recent[a]) - k) : Throttled(a)[i] = recent[a][k + i]
        /\ Throttled(a)[Len(recent[a]) - k + 1] = now
  BY ThrottledShape DEF IInv
<1>2. PICK f \in [Minted(a) -> 1..Len(recent[a])] : Accounts(f, a)
  BY DEF ThrottleInv
<1>3. PICK n \in Nat : n = Len(recent[a])
  BY DEF IInv, TypeOK
<1>4. /\ recent'[a] = Throttled(a) /\ now' = now /\ booted' = booted
      /\ Len(Throttled(a)) <= _RATE_MAX
  BY DEF RequestLink, IInv, TypeOK
<1>5. /\ recent[a] \in Seq(Nat) /\ now \in Nat
      /\ \A i \in 1..n : recent[a][i] \in Nat /\ recent[a][i] <= now
      /\ \A i, j \in 1..n : i <= j => recent[a][i] <= recent[a][j]
  <2>1. recent[a] \in Seq(Nat) /\ now \in Nat
    BY DEF IInv, TypeOK
  <2>2. RecentOk(a)
    BY DEF ThrottleInv
  <2> QED
    BY <1>3, <2>1, <2>2 DEF RecentOk
<1>6. RecentOk(a)'
  <2> SUFFICES ASSUME NEW i \in 1..(n - k + 1), NEW j \in 1..(n - k + 1)
               PROVE  /\ i <= j => Throttled(a)[i] <= Throttled(a)[j]
                      /\ Throttled(a)[i] <= now
    BY <1>1, <1>3, <1>4 DEF RecentOk
  <2>1. \A h \in 1..(n - k) : Throttled(a)[h] = recent[a][k + h]
    BY <1>1, <1>3
  <2>2. \A h \in 1..(n - k) : k + h \in 1..n
    BY <1>3
  <2>3. Throttled(a)[n - k + 1] = now
    BY <1>1, <1>3
  <2>4. \A h \in 1..(n - k + 1) : h \in 1..(n - k) \/ h = n - k + 1
    BY <1>1, <1>3
  <2>5. Throttled(a)[i] <= now
    <3>1. CASE i \in 1..(n - k)
      BY <1>5, <2>1, <2>2, <3>1
    <3>2. CASE i = n - k + 1
      BY <1>5, <2>3, <3>2
    <3> QED
      BY <2>4, <3>1, <3>2
  <2>6. ASSUME i <= j PROVE Throttled(a)[i] <= Throttled(a)[j]
    <3>1. CASE j = n - k + 1
      BY <2>3, <2>5, <3>1
    <3>2. CASE j \in 1..(n - k)
      <4>1. i \in 1..(n - k) /\ k + i <= k + j
        BY <1>1, <1>3, <2>6, <3>2
      <4> QED
        BY <1>5, <2>1, <2>2, <3>2, <4>1
    <3> QED
      BY <2>4, <3>1, <3>2
  <2> QED
    BY <2>5, <2>6
<1>7. \A m \in Minted(a) : /\ f[m] \in 1..n /\ k < f[m]
                           /\ recent[a][f[m]] = link[m].asked
  <2> SUFFICES ASSUME NEW m \in Minted(a)
               PROVE  /\ f[m] \in 1..n /\ k < f[m]
                      /\ recent[a][f[m]] = link[m].asked
    OBVIOUS
  <2>1. f[m] \in 1..n /\ recent[a][f[m]] = link[m].asked
    BY <1>2, <1>3 DEF Accounts
  <2>2. now - recent[a][f[m]] < _RATE_WINDOW
    BY <2>1 DEF Minted
  <2> QED
    BY <1>1, <1>3, <2>1, <2>2, LiveEntriesStay DEF IInv, ThrottleInv
<1>8. \A m \in Links : /\ m # l => link'[m] = link[m]
                       /\ m = l => link'[m] = link[m] \/ link'[m].asked = now
  BY DEF RequestLink, IInv, TypeOK
<1>9. PICK M : M = Minted(a)'
  OBVIOUS
<1>10. /\ M \subseteq Minted(a) \cup {l} /\ l \notin Minted(a)
       /\ l \in M => link'[l].asked = now
       /\ \A m \in M : m # l => link'[m].asked = link[m].asked
  <2>1. l \notin Minted(a)
    BY DEF RequestLink, Minted
  <2>2. \A m \in M : m # l => m \in Minted(a)
    BY <1>4, <1>8, <1>9 DEF Minted
  <2>3. l \in M => link'[l] # link[l]
    BY <1>4, <1>9, <2>1 DEF Minted
  <2> QED
    BY <1>8, <1>9, <2>1, <2>2, <2>3 DEF Minted
<1> DEFINE g == [m \in M |-> IF m = l THEN n - k + 1 ELSE f[m] - k]
<1>11. \A m \in M : m # l => /\ m \in Minted(a) /\ g[m] = f[m] - k
                             /\ f[m] - k \in 1..(n - k)
  BY <1>1, <1>3, <1>7, <1>10
<1>12. l \in M => g[l] = n - k + 1
  OBVIOUS
<1>13. g \in [M -> 1..(n - k + 1)]
  <2> SUFFICES ASSUME NEW m \in M PROVE g[m] \in 1..(n - k + 1)
    OBVIOUS
  <2>1. k <= n
    BY <1>1, <1>3
  <2> HIDE DEF g
  <2>2. CASE m = l
    BY <1>12, <2>1, <2>2
  <2>3. CASE m # l
    <3>1. g[m] = f[m] - k /\ f[m] - k \in 1..(n - k)
      BY <1>11, <2>3
    <3> QED
      BY <2>1, <3>1
  <2> QED
    BY <2>2, <2>3
<1> HIDE DEF g
<1>14. \A m \in M : Throttled(a)[g[m]] = link'[m].asked
  <2> SUFFICES ASSUME NEW m \in M PROVE Throttled(a)[g[m]] = link'[m].asked
    OBVIOUS
  <2>1. CASE m = l
    BY <1>1, <1>3, <1>10, <1>12, <2>1
  <2>2. CASE m # l
    <3>1. Throttled(a)[f[m] - k] = recent[a][k + (f[m] - k)]
      BY <1>1, <1>3, <1>11, <2>2
    <3>2. k + (f[m] - k) = f[m]
      BY <1>7, <1>11, <2>2
    <3> QED
      BY <1>7, <1>10, <1>11, <2>2, <3>1, <3>2
  <2> QED
    BY <2>1, <2>2
<1>15. \A h, m \in M : g[h] = g[m] => h = m
  <2> SUFFICES ASSUME NEW h \in M, NEW m \in M, g[h] = g[m] PROVE h = m
    OBVIOUS
  <2>1. CASE h # l /\ m # l
    <3>1. f[h] = f[m]
      BY <1>7, <1>11, <2>1
    <3> QED
      BY <1>2, <1>11, <2>1, <3>1 DEF Accounts
  <2>2. CASE h = l \/ m = l
    <3>1. n - k + 1 \notin 1..(n - k)
      BY <1>3
    <3> QED
      BY <1>11, <1>12, <2>2, <3>1
  <2> QED
    BY <2>1, <2>2
<1>16. Len(Throttled(a)) = n - k + 1
  BY <1>1, <1>3
<1>17. Accounts(g, a)'
  BY <1>4, <1>9, <1>13, <1>14, <1>15, <1>16 DEF Accounts
<1> QED
  BY <1>4, <1>6, <1>9, <1>13, <1>16, <1>17 DEF Accounted
\* No other step touches the list of an address or mints a link for it.
LEMMA OthersAccounted ==
    ASSUME IInv, ThrottleInv, NEW a \in Addresses,
           recent'[a] = recent[a], now' \in Nat, now <= now', booted' = booted,
           \A l \in Links : /\ link'[l].asked = link[l].asked
                            /\ link'[l].address = link[l].address
                            /\ link'[l].phase # "unused" => link[l].phase # "unused"
    PROVE  RecentOk(a)' /\ Accounted(a)'
<1>1. /\ now \in Nat /\ _RATE_WINDOW \in Nat /\ recent[a] \in Seq(Nat)
      /\ \A l \in Links : link[l].asked \in Nat
  BY SessionAssumptions DEF IInv, TypeOK
<1>2. RecentOk(a) /\ Accounted(a)
  BY DEF ThrottleInv, Accounted
<1>3. RecentOk(a)'
  <2>1. \A i \in 1..Len(recent[a]) : recent[a][i] \in Nat /\ recent[a][i] <= now
    BY <1>1, <1>2 DEF RecentOk
  <2>2. \A i \in 1..Len(recent[a]) : recent[a][i] <= now'
    BY <1>1, <2>1
  <2> QED
    BY <1>2, <2>2 DEF RecentOk
<1>4. Minted(a)' \subseteq Minted(a)
  <2> SUFFICES ASSUME NEW l \in Minted(a)' PROVE l \in Minted(a)
    OBVIOUS
  <2>1. /\ l \in Links /\ link[l].phase # "unused" /\ link[l].address = a
        /\ link[l].asked > booted /\ now' - link[l].asked < _RATE_WINDOW
    BY DEF Minted
  <2>2. now - link[l].asked < _RATE_WINDOW
    BY <1>1, <2>1
  <2> QED
    BY <2>1, <2>2 DEF Minted
<1> QED
  BY <1>2, <1>3, <1>4, StillAccounted

LEMMA InitThrottle == Init => ThrottleInv
<1> SUFFICES ASSUME Init PROVE ThrottleInv
  OBVIOUS
<1>1. \A l \in Links : link[l].asked = 0 /\ link[l].phase = "unused"
  BY DEF Init
<1>2. \A l \in Links : link[l].asked <= now
  BY <1>1 DEF Init
<1>3. \A a \in Addresses : RecentOk(a)
  BY SessionAssumptions DEF Init, RecentOk
<1>4. ASSUME NEW a \in Addresses
      PROVE  \E f \in [Minted(a) -> 1..Len(recent[a])] : Accounts(f, a)
  <2>1. Minted(a) = {}
    BY <1>1 DEF Minted
  <2>2. PICK f : f = [l \in Minted(a) |-> 1]
    OBVIOUS
  <2>3. f \in [Minted(a) -> 1..Len(recent[a])]
    BY <2>1, <2>2
  <2> QED
    BY <2>1, <2>3 DEF Accounts
<1> QED
  BY <1>2, <1>3, <1>4 DEF ThrottleInv

LEMMA NextThrottle == IInv /\ ThrottleInv /\ [Next]_vars => ThrottleInv'
<1> SUFFICES ASSUME IInv, ThrottleInv, [Next]_vars PROVE ThrottleInv'
  OBVIOUS
<1>1. /\ now \in Nat /\ booted \in Nat /\ link \in [Links -> [phase : {"unused", "stored", "mailed", "consumed", "lost"},
                           address : Addresses, asked : Nat, expires_at : Nat]]
      /\ recent \in [Addresses -> Seq(Nat)] /\ claim \in [Redeemers -> Links \cup {NoLink}]
  BY DEF IInv, TypeOK
<1>2. \A l \in Links : link[l].asked \in Nat /\ link[l].asked <= now
  BY <1>1 DEF ThrottleInv
<1>3. ASSUME now' \in Nat, now <= now', booted' = booted, recent' = recent,
             \A l \in Links : /\ link'[l].asked = link[l].asked
                              /\ link'[l].address = link[l].address
                              /\ link'[l].phase # "unused" => link[l].phase # "unused"
      PROVE  ThrottleInv'
  <2>1. \A l \in Links : link'[l].asked <= now'
    BY <1>1, <1>2, <1>3
  <2>2. \A a \in Addresses : RecentOk(a)' /\ Accounted(a)'
    BY <1>3, OthersAccounted
  <2> QED
    BY <2>1, <2>2 DEF ThrottleInv, Accounted
<1>4. CASE Tick
  BY <1>1, <1>3, <1>4 DEF Tick
<1>5. ASSUME NEW e \in Emails, NEW r \in Role \cup {"barred"}, Redeploy(e, r)
      PROVE  ThrottleInv'
  <2>1. /\ now' = now /\ booted' = now
        /\ \A a \in Addresses : recent'[a] = <<>>
        /\ \A l \in Links : link'[l].asked = link[l].asked
    BY <1>1, <1>5 DEF Redeploy
  <2>2. \A l \in Links : link'[l].asked <= now'
    BY <1>2, <2>1
  <2>3. \A a \in Addresses : RecentOk(a)'
    BY <2>1, SessionAssumptions DEF RecentOk
  <2>4. ASSUME NEW a \in Addresses PROVE Accounted(a)'
    <3>1. Minted(a)' = {}
      BY <1>1, <1>2, <2>1 DEF Minted
    <3>2. PICK f : f = [l \in {} |-> 1]
      OBVIOUS
    <3>3. (f \in [Minted(a) -> 1..Len(recent[a])])'
      BY <3>1, <3>2
    <3> QED
      BY <3>1, <3>3 DEF Accounts, Accounted
  <2> QED
    BY <2>2, <2>3, <2>4 DEF ThrottleInv, Accounted
<1>6. ASSUME NEW a \in Addresses, NEW l \in Links, RequestLink(a, l)
      PROVE  ThrottleInv'
  <2>1. /\ now' = now /\ booted' = booted /\ link[l].phase = "unused"
        /\ \A b \in Addresses \ {a} : recent'[b] = recent[b]
        /\ \A m \in Links \ {l} : link'[m] = link[m]
        /\ link'[l] = link[l] \/ (link'[l].asked = now /\ link'[l].address = a)
    BY <1>1, <1>6 DEF RequestLink
  <2>2. \A m \in Links : link'[m].asked <= now'
    <3>1. link'[l].asked \in {link[l].asked, now}
      BY <2>1
    <3>2. \A m \in Links \ {l} : link'[m].asked = link[m].asked
      BY <2>1
    <3>3. link'[l].asked <= now
      BY <1>1, <1>2, <3>1
    <3> QED
      BY <1>2, <2>1, <3>2, <3>3
  <2>3. RecentOk(a)' /\ Accounted(a)'
    BY <1>6, RequestAccounted
  <2>4. ASSUME NEW b \in Addresses \ {a} PROVE RecentOk(b)' /\ Accounted(b)'
    <3>1. RecentOk(b) /\ Accounted(b)
      BY DEF ThrottleInv, Accounted
    <3>2. RecentOk(b)'
      BY <2>1, <3>1 DEF RecentOk
    <3>3. \A m \in Links : m \in Minted(b)' => m \in Minted(b) /\ link'[m] = link[m]
      BY <2>1 DEF Minted
    <3>4. Minted(b)' \subseteq Minted(b)
      BY <3>3 DEF Minted
    <3>5. \A m \in Links : m \in Minted(b)' => link'[m].asked = link[m].asked
      BY <3>3
    <3> QED
      BY <2>1, <3>1, <3>2, <3>4, <3>5, StillAccounted
  <2> QED
    BY <2>2, <2>3, <2>4 DEF ThrottleInv, Accounted
<1>7. ASSUME NEW l \in Links, MailLink(l) PROVE ThrottleInv'
  BY <1>1, <1>3, <1>7 DEF MailLink
<1>8. ASSUME NEW u \in Redeemers, NEW l \in Links, Consume(u, l) PROVE ThrottleInv'
  BY <1>1, <1>3, <1>8 DEF Consume
<1>9. ASSUME NEW u \in Redeemers, Redeem(u) PROVE ThrottleInv'
  BY <1>1, <1>3, <1>9 DEF Redeem
<1>10. ASSUME NEW t \in tokens, Refresh(t) PROVE ThrottleInv'
  BY <1>1, <1>3, <1>10 DEF Refresh
<1>11. CASE UNCHANGED vars
  BY <1>1, <1>3, <1>11 DEF vars
<1> QED
  BY <1>4, <1>5, <1>6, <1>7, <1>8, <1>9, <1>10, <1>11 DEF Next

\* However requests, redeployments and ticks interleave, a window sees at most
\* _RATE_MAX links minted for an address: trimming _recent_requests (routes/auth.py)
\* never forgets a request that still counts.
THEOREM LinksThrottledCorrect == Spec => []LinksThrottled
<1>1. IInv /\ ThrottleInv => LinksThrottled
  <2> SUFFICES ASSUME IInv, ThrottleInv, NEW a \in Addresses
               PROVE  Cardinality(Minted(a)) <= _RATE_MAX
    BY DEF LinksThrottled
  <2>1. PICK n \in Nat : n = Len(recent[a])
    BY DEF IInv, TypeOK
  <2>2. PICK f \in [Minted(a) -> 1..n] : Accounts(f, a)
    BY <2>1 DEF ThrottleInv
  <2>3. f \in Injection(Minted(a), 1..n)
    BY <2>2 DEF Accounts, Injection, IsInjective
  <2>4. IsFiniteSet(1..n) /\ Cardinality(1..n) = n
    BY <2>1, FirstNaturals
  <2>5. IsFiniteSet(Minted(a)) /\ Cardinality(Minted(a)) <= n
    BY <2>3, <2>4, FS_Injection
  <2>6. Cardinality(Minted(a)) \in Nat /\ n <= _RATE_MAX
    BY <2>1, <2>5, FS_CardinalityType DEF ThrottleInv, RecentOk
  <2> QED
    BY <2>1, <2>5, <2>6, SessionAssumptions
<1> QED
  BY <1>1, InitThrottle, NextThrottle, SessionInvariant, PTL DEF Spec

-----------------------------------------------------------------------------
(***************************************************************************)
(* Intake.  The adapter's operators first: what following page tokens and  *)
(* reading the drive in creation order return, by induction.               *)
(***************************************************************************)
\* Every nonempty set of naturals has a least element: the form of induction that
\* needs no operator parameter.
LEMMA LeastNatural ==
    ASSUME NEW T, T \subseteq Nat, T # {}
    PROVE  \E n \in T : \A m \in T : n <= m
<1> DEFINE R == OpToRel(<, Nat)
<1>1. IsWellFoundedOn(R, Nat)
  BY NatLessThanWellFounded
<1>2. PICK n \in T : \A m \in T : ~ (<<m, n>> \in R)
  <2> HIDE DEF R
  <2> QED
    BY <1>1, WFMin
<1>3. \A m \in T : ~ (m < n)
  BY <1>2 DEF OpToRel
<1> QED
  BY <1>3

\* A tail of a sequence is its first page and the tail after it.
LEMMA PageThenRest ==
    ASSUME NEW S, NEW s \in Seq(S), NEW k \in Nat, NEW p \in Nat, k + p <= Len(s)
    PROVE  SubSeq(s, k + 1, k + p) \o SubSeq(s, k + p + 1, Len(s))
             = SubSeq(s, k + 1, Len(s))
<1> DEFINE n == Len(s)
           a == SubSeq(s, k + 1, k + p)
           b == SubSeq(s, k + p + 1, n)
           c == SubSeq(s, k + 1, n)
<1>1. n \in Nat /\ \A i \in 1..n : s[i] \in S
  OBVIOUS
<1>2. a \in Seq(S) /\ Len(a) = p /\ \A i \in 1..p : a[i] = s[k + i]
  <2>1. \A i \in (k + 1)..(k + p) : s[i] \in S
    BY <1>1
  <2>2. /\ a \in Seq(S)
        /\ Len(a) = IF k + 1 <= k + p THEN (k + p) - (k + 1) + 1 ELSE 0
        /\ \A i \in 1..((k + p) - (k + 1) + 1) : a[i] = s[(k + 1) + i - 1]
    BY <2>1, SubSeqProperties
  <2> HIDE DEF a
  <2>3. (k + p) - (k + 1) + 1 = p /\ (k + 1 <= k + p <=> p # 0)
    OBVIOUS
  <2>4. \A i \in 1..p : (k + 1) + i - 1 = k + i
    OBVIOUS
  <2> QED
    BY <2>2, <2>3, <2>4
<1>3. b \in Seq(S) /\ Len(b) = n - (k + p) /\ \A i \in 1..(n - (k + p)) : b[i] = s[(k + p) + i]
  <2>1. \A i \in (k + p + 1)..n : s[i] \in S
    BY <1>1
  <2>2. /\ b \in Seq(S)
        /\ Len(b) = IF k + p + 1 <= n THEN n - (k + p + 1) + 1 ELSE 0
        /\ \A i \in 1..(n - (k + p + 1) + 1) : b[i] = s[(k + p + 1) + i - 1]
    BY <1>1, <2>1, SubSeqProperties
  <2> HIDE DEF b
  <2>3. n - (k + p + 1) + 1 = n - (k + p) /\ (~(k + p + 1 <= n) => n - (k + p) = 0)
    BY <1>1
  <2>4. \A i \in 1..(n - (k + p)) : (k + p + 1) + i - 1 = (k + p) + i
    BY <1>1
  <2> HIDE DEF n
  <2> QED
    BY <2>2, <2>3, <2>4
<1>4. c \in Seq(S) /\ Len(c) = n - k /\ \A i \in 1..(n - k) : c[i] = s[k + i]
  <2>1. \A i \in (k + 1)..n : s[i] \in S
    BY <1>1
  <2>2. /\ c \in Seq(S)
        /\ Len(c) = IF k + 1 <= n THEN n - (k + 1) + 1 ELSE 0
        /\ \A i \in 1..(n - (k + 1) + 1) : c[i] = s[(k + 1) + i - 1]
    BY <1>1, <2>1, SubSeqProperties
  <2> HIDE DEF c
  <2>3. n - (k + 1) + 1 = n - k /\ (~(k + 1 <= n) => n - k = 0)
    BY <1>1
  <2>4. \A i \in 1..(n - k) : (k + 1) + i - 1 = k + i
    BY <1>1
  <2> HIDE DEF n
  <2> QED
    BY <2>2, <2>3, <2>4
<1> HIDE DEF a, b, c, n
<1>5. k + p <= n
  BY DEF n
<1>6. /\ a \o b \in Seq(S) /\ Len(a \o b) = n - k
      /\ \A i \in 1..(n - k) : (a \o b)[i] = IF i <= p THEN a[i] ELSE b[i - p]
  <2>1. a \in Seq(S) /\ b \in Seq(S)
    BY <1>2, <1>3
  <2>2. /\ a \o b \in Seq(S) /\ Len(a \o b) = Len(a) + Len(b)
        /\ \A i \in 1..(Len(a) + Len(b)) :
             (a \o b)[i] = IF i <= Len(a) THEN a[i] ELSE b[i - Len(a)]
    BY Zenon, <2>1, ConcatProperties
  <2>3. Len(a) = p /\ Len(b) = n - (k + p) /\ p + (n - (k + p)) = n - k
    BY <1>1, <1>2, <1>3
  <2> QED
    BY <2>2, <2>3
<1>7. \A i \in 1..(n - k) : (a \o b)[i] = c[i]
  <2> SUFFICES ASSUME NEW i \in 1..(n - k) PROVE (a \o b)[i] = c[i]
    OBVIOUS
  <2>1. CASE i <= p
    <3>1. i \in 1..p
      BY <2>1
    <3> QED
      BY <1>2, <1>4, <1>6, <2>1, <3>1
  <2>2. CASE ~(i <= p)
    <3>1. i - p \in 1..(n - (k + p)) /\ (k + p) + (i - p) = k + i
      BY <1>1, <1>5, <2>2
    <3> QED
      BY <1>3, <1>4, <1>6, <2>2, <3>1
  <2> QED
    BY <2>1, <2>2
<1>8. a \o b = c
  BY <1>4, <1>6, <1>7, SeqEqual
<1> QED
  BY <1>8 DEF a, b, c, n

\* Following nextPageToken to the end (GoogleDriveFilesAdapter._search) yields what
\* the query matches, all of it and once, whatever the page size.
LEMMA SearchFindsAll ==
    ASSUME PageSize \in Nat \ {0}, NEW S, NEW s \in Seq(S)
    PROVE  _search(s) = s
<1> DEFINE n == Len(s)
           Rest(f) == [k \in 0..n |-> IF k + PageSize < n
                                      THEN SubSeq(s, k + 1, k + PageSize) \o f[k + PageSize]
                                      ELSE SubSeq(s, k + 1, n)]
           g == [k \in 0..n |-> SubSeq(s, k + 1, n)]
           f == CHOOSE f : f = Rest(f)
<1>1. n \in Nat
  OBVIOUS
<1>2. g = Rest(g)
  <2> SUFFICES ASSUME NEW k \in 0..n, k + PageSize < n
               PROVE  SubSeq(s, k + 1, k + PageSize) \o g[k + PageSize]
                        = SubSeq(s, k + 1, n)
    BY Zenon
  <2>1. k + PageSize \in 0..n
    BY <1>1
  <2>2. g[k + PageSize] = SubSeq(s, k + PageSize + 1, n)
    BY <2>1
  <2>3. k \in Nat /\ PageSize \in Nat /\ k + PageSize <= Len(s)
    BY <1>1
  <2> QED
    BY <2>2, <2>3, PageThenRest
<1>3. f = Rest(f)
  <2> HIDE DEF Rest, g
  <2> QED
    BY <1>2
<1>4. _search(s) = f[0]
  BY DEF _search
<1> HIDE DEF f
<1>5. \A k \in 0..n : f[k] = g[k]
  <2> SUFFICES ASSUME NEW k0 \in 0..n, f[k0] # g[k0] PROVE FALSE
    OBVIOUS
  <2> DEFINE T == {d \in Nat : d <= n /\ f[n - d] # g[n - d]}
  <2>1. n - k0 \in T
    <3>1. n - k0 \in Nat /\ n - k0 <= n /\ n - (n - k0) = k0
      BY <1>1
    <3> HIDE DEF f, g, n
    <3> QED
      BY <3>1
  <2>2. PICK d \in T : \A e \in T : d <= e
    <3>1. T \subseteq Nat /\ T # {}
      BY <2>1
    <3> HIDE DEF T
    <3> QED
      BY <3>1, LeastNatural
  <2>3. PICK k \in 0..n : k = n - d
    BY <1>1, <2>2
  <2>4. f[k] # g[k]
    BY <2>2, <2>3
  <2>5. CASE k + PageSize < n
    <3>1. PICK j \in 0..n : j = k + PageSize
      BY <1>1, <2>5
    <3>2. n - j \in Nat /\ n - j < d /\ n - j <= n /\ n - (n - j) = j
      BY <1>1, <2>2, <2>3, <3>1
    <3>3. n - j \notin T
      <4>1. d \in Nat
        BY <2>2
      <4> HIDE DEF T, n
      <4> QED
        BY <2>2, <3>2, <4>1
    <3>4. f[j] = g[j]
      <4> HIDE DEF g, n
      <4> QED
        BY <3>2, <3>3
    <3>5. f[k] = SubSeq(s, k + 1, k + PageSize) \o f[j]
      BY <1>3, <2>5, <3>1
    <3>6. g[k] = SubSeq(s, k + 1, k + PageSize) \o g[j]
      BY <1>2, <2>5, <3>1
    <3> QED
      BY <2>4, <3>4, <3>5, <3>6
  <2>6. CASE ~(k + PageSize < n)
    <3>1. f[k] = SubSeq(s, k + 1, n)
      BY <1>3, <2>6
    <3> QED
      BY <2>4, <3>1
  <2> QED
    BY <2>5, <2>6
<1>6. g[0] = SubSeq(s, 1, n)
  BY <1>1
<1>7. SubSeq(s, 1, n) = s
  BY SubSeqFull
<1>8. 0 \in 0..n
  BY <1>1
<1> HIDE DEF g, n
<1> QED
  BY <1>4, <1>5, <1>6, <1>7, <1>8

Increasing(l) == \A a, b \in 1..Len(l) : a < b => l[a] < l[b]

\* files.list returns the entries that match, each once, oldest first.
LEMMA ListFilesLists ==
    ASSUME NEW n \in Nat, NEW M
    PROVE  /\ list_files(n, M) \in Seq(1..n)
           /\ Increasing(list_files(n, M))
           /\ \A i \in 1..n : i \in M <=> \E k \in 1..Len(list_files(n, M)) :
                                             list_files(n, M)[k] = i
<1> DEFINE Turn(f, i) == IF i = 0 THEN <<>>
                         ELSE IF i \in M THEN Append(f[i - 1], i) ELSE f[i - 1]
           Fix(f, m) == f = [i \in 0..m |-> Turn(f, i)]
           f == CHOOSE f : Fix(f, n)
\* A solution up to every m ...
<1>1. \A m \in Nat : \E g : Fix(g, m)
  <2> SUFFICES ASSUME NEW m0 \in Nat, ~\E g : Fix(g, m0) PROVE FALSE
    OBVIOUS
  <2> DEFINE T == {m \in Nat : ~\E g : Fix(g, m)}
  <2>1. PICK m \in T : \A e \in T : m <= e
    <3>1. T \subseteq Nat /\ T # {}
      BY Zenon
    <3> HIDE DEF T
    <3> QED
      BY <3>1, LeastNatural
  <2>2. m \in Nat /\ ~\E g : Fix(g, m)
    BY Zenon, <2>1
  <2>3. CASE m = 0
    <3> DEFINE g == [i \in 0..0 |-> <<>>]
    <3>1. \A i \in 0..0 : Turn(g, i) = <<>>
      OBVIOUS
    <3>2. g = [i \in 0..0 |-> Turn(g, i)]
      BY <3>1
    <3> HIDE DEF g, Turn
    <3> QED
      BY <2>2, <2>3, <3>2
  <2>4. CASE m # 0
    <3>1. m - 1 \in Nat /\ m - 1 < m
      BY <2>2, <2>4
    <3>2. PICK h : Fix(h, m - 1)
      <4> HIDE DEF Fix
      <4>1. m - 1 \notin T
        <5> HIDE DEF T
        <5> QED
          BY <2>1, <2>2, <3>1
      <4> QED
        BY <3>1, <4>1
    <3> DEFINE g == [i \in 0..m |-> IF i = m THEN Turn(h, m) ELSE h[i]]
    <3>3. \A i \in 0..m : g[i] = Turn(g, i)
      <4> SUFFICES ASSUME NEW i \in 0..m PROVE g[i] = Turn(g, i)
        OBVIOUS
      <4>1. CASE i = 0
        BY <2>2, <2>4, <3>1, <3>2, <4>1
      <4>2. CASE i # 0
        <5>1. i - 1 \in 0..m /\ i - 1 # m
          BY <2>2, <4>2
        <5>2. g[i - 1] = h[i - 1]
          BY <5>1
        <5>3. Turn(g, i) = Turn(h, i)
          BY <4>2, <5>2
        <5>4. CASE i = m
          BY <5>3, <5>4
        <5>5. CASE i # m
          <6>1. i \in 0..(m - 1)
            BY <2>2, <5>5
          <6>2. h[i] = Turn(h, i)
            BY <3>2, <6>1
          <6> QED
            BY <5>3, <5>5, <6>2
        <5> QED
          BY <5>4, <5>5
      <4> QED
        BY <4>1, <4>2
    <3>4. g = [i \in 0..m |-> Turn(g, i)]
      <4> HIDE DEF Turn
      <4> QED
        BY <3>3
    <3> HIDE DEF g, Turn
    <3> QED
      BY <2>2, <3>4
  <2> QED
    BY <2>3, <2>4
<1>2. f = [i \in 0..n |-> Turn(f, i)]
  <2>1. Fix(f, n)
    <3> HIDE DEF Fix
    <3> QED
      BY <1>1
  <2> QED
    BY <2>1
<1>3. list_files(n, M) = f[n]
  BY DEF list_files
<1> HIDE DEF f
\* ... lists what matches of the first i entries.
<1> DEFINE Lists(l, i) == /\ l \in Seq(1..n) /\ Increasing(l)
                          /\ \A k \in 1..Len(l) : l[k] <= i
                          /\ \A j \in 1..i : j \in M <=> \E k \in 1..Len(l) : l[k] = j
<1>4. Lists(f[0], 0)
  <2>1. f[0] = <<>>
    BY <1>2
  <2> QED
    BY <2>1 DEF Increasing
<1>5. ASSUME NEW i \in 1..n, Lists(f[i - 1], i - 1) PROVE Lists(f[i], i)
  <2>1. PICK l \in Seq(1..n) : l = f[i - 1]
    BY <1>5
  <2>2. f[i] = IF i \in M THEN Append(l, i) ELSE l
    <3>1. i \in 0..n /\ i # 0
      OBVIOUS
    <3>2. f[i] = Turn(f, i)
      <4> HIDE DEF Turn
      <4> QED
        BY <1>2, <3>1
    <3> QED
      BY <2>1, <3>1, <3>2
  <2>3. /\ Increasing(l) /\ \A k \in 1..Len(l) : l[k] \in Nat /\ l[k] <= i - 1
        /\ \A j \in 1..(i - 1) : j \in M <=> \E k \in 1..Len(l) : l[k] = j
    BY <1>5, <2>1
  <2>4. CASE i \notin M
    <3>1. f[i] = l
      BY <2>2, <2>4
    <3>2. \A k \in 1..Len(l) : l[k] <= i /\ l[k] # i
      BY <2>3
    <3>3. \A j \in 1..i : j \in M <=> \E k \in 1..Len(l) : l[k] = j
      <4>1. \A j \in 1..i : j = i \/ j \in 1..(i - 1)
        OBVIOUS
      <4> QED
        BY <2>3, <2>4, <3>2, <4>1
    <3> QED
      BY <2>3, <3>1, <3>2, <3>3
  <2>5. CASE i \in M
    <3>1. f[i] = Append(l, i)
      BY <2>2, <2>5
    <3>2. PICK z \in Nat : z = Len(l)
      OBVIOUS
    <3>3. /\ Append(l, i) \in Seq(1..n) /\ Len(Append(l, i)) = z + 1
          /\ \A k \in 1..z : Append(l, i)[k] = l[k]
          /\ Append(l, i)[z + 1] = i
      BY <3>2
    <3>4. PICK a : a = Append(l, i)
      OBVIOUS
    <3>5. /\ a \in Seq(1..n) /\ Len(a) = z + 1 /\ a[z + 1] = i
          /\ \A k \in 1..z : a[k] = l[k] /\ l[k] \in Nat /\ l[k] <= i - 1
      BY <2>3, <3>2, <3>3, <3>4
    <3>6. \A k \in 1..(z + 1) : k \in 1..z \/ k = z + 1
      BY <3>2
    <3>7. Increasing(a)
      <4> SUFFICES ASSUME NEW b \in 1..(z + 1), NEW c \in 1..(z + 1), b < c
                   PROVE  a[b] < a[c]
        BY <3>5 DEF Increasing
      <4>1. b \in 1..z
        BY <3>2
      <4>2. CASE c = z + 1
        BY <3>5, <4>1, <4>2
      <4>3. CASE c \in 1..z
        BY <2>3, <3>2, <3>5, <4>1, <4>3 DEF Increasing
      <4> QED
        BY <3>6, <4>2, <4>3
    <3>8. \A k \in 1..Len(a) : a[k] <= i
      <4> SUFFICES ASSUME NEW k \in 1..(z + 1) PROVE a[k] <= i
        BY <3>5
      <4>1. CASE k = z + 1
        BY <3>5, <4>1
      <4>2. CASE k \in 1..z
        BY <3>5, <4>2
      <4> QED
        BY <3>6, <4>1, <4>2
    <3>9. \A j \in 1..i : j \in M <=> \E k \in 1..Len(a) : a[k] = j
      <4> SUFFICES ASSUME NEW j \in 1..i
                   PROVE  j \in M <=> \E k \in 1..(z + 1) : a[k] = j
        BY <3>5
      <4>1. CASE j = i
        <5>1. z + 1 \in 1..(z + 1)
          BY <3>2
        <5> QED
          BY <2>5, <3>5, <4>1, <5>1
      <4>2. CASE j # i
        <5>1. j \in 1..(i - 1)
          BY <4>2
        <5>2. j \in M <=> \E k \in 1..z : l[k] = j
          BY <2>3, <3>2, <5>1
        <5>3. \A k \in 1..z : k \in 1..(z + 1)
          BY <3>2
        <5> QED
          BY <3>5, <3>6, <4>2, <5>2, <5>3
      <4> QED
        BY <4>1, <4>2
    <3> QED
      BY <3>1, <3>4, <3>5, <3>7, <3>8, <3>9
  <2> QED
    BY <2>4, <2>5
<1>6. Lists(f[n], n)
  <2> DEFINE T == {m \in Nat : m <= n /\ ~Lists(f[m], m)}
  <2> SUFFICES ASSUME n \in T PROVE FALSE
    OBVIOUS
  <2>1. PICK m \in T : \A e \in T : m <= e
    <3>1. T \subseteq Nat /\ T # {}
      OBVIOUS
    <3> HIDE DEF T
    <3> QED
      BY <3>1, LeastNatural
  <2>2. m \in Nat /\ m <= n /\ ~Lists(f[m], m)
    OBVIOUS
  <2> HIDE DEF Lists
  <2>3. m # 0
    BY <1>4, <2>2
  <2>4. m \in 1..n /\ m - 1 \in Nat /\ m - 1 < m /\ m - 1 <= n
    BY <2>2, <2>3
  <2>5. m - 1 \notin T
    BY <2>1, <2>2, <2>4
  <2>6. Lists(f[m - 1], m - 1)
    BY <2>4, <2>5
  <2> QED
    BY <1>5, <2>2, <2>4, <2>6
<1> QED
  BY <1>3, <1>6

-----------------------------------------------------------------------------
\* The oldest folder of a name, when there is one (_find_folder_id).
LEMMA FindsOldest ==
    ASSUME PageSize \in Nat \ {0}, NEW S, folders \in Seq(S), NEW name
    PROVE  \/ /\ _find_folder_id(name) = 0
              /\ \A j \in 1..Len(folders) : folders[j] # name
           \/ IsOldest(_find_folder_id(name), name)
<1> DEFINE n == Len(folders)
           M == {i \in DOMAIN folders : folders[i] = name}
           l == list_files(n, M)
<1>1. n \in Nat /\ DOMAIN folders = 1..n
  OBVIOUS
<1>2. /\ l \in Seq(1..n) /\ Increasing(l)
      /\ \A i \in 1..n : i \in M <=> \E k \in 1..Len(l) : l[k] = i
  <2> HIDE DEF M, n
  <2> QED
    BY <1>1, ListFilesLists
<1>3. FoldersNamed(name) = l
  <2>1. _search(l) = l
    <3> HIDE DEF l, n
    <3> QED
      BY <1>2, SearchFindsAll
  <2> QED
    BY <2>1 DEF FoldersNamed
<1>4. \A i \in 1..n : folders[i] = name <=> \E k \in 1..Len(l) : l[k] = i
  <2>1. \A i \in 1..n : i \in M <=> folders[i] = name
    BY <1>1
  <2> HIDE DEF l, M
  <2> QED
    BY <1>2, <2>1
<1> HIDE DEF l, M
<1>5. CASE l = <<>>
  <2>1. _find_folder_id(name) = 0
    BY <1>3, <1>5 DEF _find_folder_id
  <2>2. Len(l) = 0
    BY <1>5
  <2> QED
    BY <1>4, <2>1, <2>2
<1>6. CASE l # <<>>
  <2>1. _find_folder_id(name) = Head(l)
    BY <1>3, <1>6 DEF _find_folder_id
  <2>2. 1 \in 1..Len(l) /\ Head(l) = l[1] /\ l[1] \in 1..n
    BY <1>1, <1>2, <1>6
  <2>3. folders[l[1]] = name
    BY <1>4, <2>2
  <2>4. ASSUME NEW j \in 1..(l[1] - 1), folders[j] = name PROVE FALSE
    <3>1. j \in 1..n /\ j < l[1]
      BY <1>1, <2>2
    <3>2. PICK k \in 1..Len(l) : l[k] = j
      BY <1>4, <2>4, <3>1
    <3>3. k = 1 \/ 1 < k
      BY <1>2
    <3>4. 1 < k => l[1] < l[k]
      BY <1>2, <2>2 DEF Increasing
    <3> QED
      BY <2>2, <3>1, <3>2, <3>3, <3>4
  <2> QED
    BY <2>1, <2>2, <2>3, <2>4 DEF IsOldest
<1> QED
  BY <1>5, <1>6

\* There is one oldest folder of a name.
LEMMA OneOldest ==
    ASSUME NEW S, folders \in Seq(S), NEW name, NEW f, NEW g,
           IsOldest(f, name), IsOldest(g, name)
    PROVE  f = g
<1>1. f \in Nat /\ g \in Nat /\ f >= 1 /\ g >= 1
  BY DEF IsOldest
<1>2. CASE f < g
  BY <1>1, <1>2 DEF IsOldest
<1>3. CASE g < f
  BY <1>1, <1>3 DEF IsOldest
<1> QED
  BY <1>1, <1>2, <1>3

\* Browsing a folder (list) shows every file that lies in the oldest of that name.
LEMMA ListShows ==
    ASSUME PageSize \in Nat \ {0}, NEW S, folders \in Seq(S), NEW P, files \in Seq(P),
           NEW name, NEW f, IsOldest(f, name),
           NEW i \in 1..Len(files), files[i].parent = f
    PROVE  i \in Range(list(name))
<1> DEFINE n == Len(files)
           M == {j \in DOMAIN files : files[j].parent = f}
           l == list_files(n, M)
<1>1. n \in Nat /\ DOMAIN files = 1..n
  OBVIOUS
<1>2. _find_folder_id(name) = f /\ f # 0
  <2>1. f \in 1..Len(folders) /\ folders[f] = name
    BY DEF IsOldest
  <2>2. IsOldest(_find_folder_id(name), name)
    BY <2>1, FindsOldest
  <2>3. _find_folder_id(name) = f
    BY <2>2, OneOldest
  <2> QED
    BY <2>1, <2>3
<1>3. /\ l \in Seq(1..n)
      /\ \A j \in 1..n : j \in M <=> \E k \in 1..Len(l) : l[k] = j
  <2> HIDE DEF M, n
  <2> QED
    BY <1>1, ListFilesLists
<1>4. list(name) = l
  <2>1. _search(l) = l
    <3> HIDE DEF l, n
    <3> QED
      BY <1>3, SearchFindsAll
  <2> QED
    BY <1>2, <2>1 DEF list
<1>5. i \in M
  BY <1>1
<1> HIDE DEF l, M
<1>6. PICK k \in 1..Len(l) : l[k] = i
  BY <1>3, <1>5
<1> QED
  BY <1>3, <1>4, <1>6 DEF Range

-----------------------------------------------------------------------------
(***************************************************************************)
(* The invariant of Intake.  What a request has established about the      *)
(* world stays true however the others move it: rows are not rewritten     *)
(* outside the demo, files and folders only come, bytes and ledger entries *)
(* stay.                                                                   *)
(***************************************************************************)
Grows ==
    /\ demo' = demo /\ orderly' = orderly
    /\ ~demo => \A t \in Ids : txns[t] # None => txns'[t] = txns[t]
    /\ Len(files) <= Len(files')
    /\ \A i \in 1..Len(files) : /\ files'[i].parent = files[i].parent
                                /\ files[i].full => files'[i].full
    /\ ledger \subseteq ledger'
    /\ Len(folders) <= Len(folders')
    /\ \A i \in 1..Len(folders) : folders'[i] = folders[i]

LEMMA GrowsOldest ==
    ASSUME IntakeTypeOK, IntakeTypeOK', Grows, NEW f, NEW name, IsOldest(f, name)
    PROVE  IsOldest(f, name)'
<1>1. Len(folders) \in Nat /\ Len(folders') \in Nat
  BY DEF IntakeTypeOK
<1>2. f \in 1..Len(folders') /\ \A j \in 1..(f - 1) : j \in 1..Len(folders)
  BY <1>1 DEF Grows, IsOldest
<1> QED
  BY <1>1, <1>2 DEF Grows, IsOldest

\* ... a request that does not move keeps what it has.
LEMMA GrowsRequest ==
    ASSUME ConstantsFit, IntakeTypeOK, IntakeTypeOK', Grows,
           NEW q \in ReqRecords,
           PhaseOk(q)
    PROVE  /\ PhaseOk(q)'
           /\ FileOk(q) => FileOk(q)'
           /\ ~demo /\ OpenOk(q) => OpenOk(q)'
           /\ UploadOk(q) /\ (q.op = "upload" /\ q.phase = "mkdir" => folders' = folders)
                => UploadOk(q)'
<1>1. /\ Len(folders) \in Nat /\ Len(folders') \in Nat
      /\ Len(files) \in Nat /\ Len(files') \in Nat
      /\ \A i \in 1..Len(files) : i \in 1..Len(files')
      /\ \A i \in 1..Len(folders) : i \in 1..Len(folders')
  BY DEF IntakeTypeOK, Grows
<1>2. PhaseOk(q)'
  BY DEF PhaseOk, Grows
<1>3. FileOk(q) => FileOk(q)'
  <2> SUFFICES ASSUME FileOk(q) PROVE FileOk(q)'
    OBVIOUS
  <2>1. q.phase \in Filed \cup {"milestone"} => q.txn \in Ids
    BY DEF PhaseOk
  <2> QED
    BY <1>1, <2>1 DEF FileOk, Grows
<1>4. ~demo /\ OpenOk(q) => OpenOk(q)'
  <2> SUFFICES ASSUME ~demo, OpenOk(q), q.op = "open" PROVE OpenOk(q)'
    BY DEF OpenOk
  <2>1. q.txn \in Ids /\ q.terms \in Terms
    BY DEF PhaseOk
  <2>2. txns[q.txn] # None => txns'[q.txn] = txns[q.txn]
    BY <2>1 DEF Grows
  <2> QED
    BY <2>1, <2>2 DEF ConstantsFit, OpenOk
<1>5. UploadOk(q) /\ (q.op = "upload" /\ q.phase = "mkdir" => folders' = folders)
        => UploadOk(q)'
  <2> SUFFICES ASSUME UploadOk(q), q.op = "upload",
                      q.phase = "mkdir" => folders' = folders
               PROVE  UploadOk(q)'
    BY DEF UploadOk
  <2>1. IsOldest(q.folder, q.name) => IsOldest(q.folder, q.name)'
    BY GrowsOldest
  <2>2. q.file \in 1..Len(files) => /\ q.file \in 1..Len(files')
                                    /\ files'[q.file].parent = files[q.file].parent
    BY <1>1 DEF Grows
  <2> QED
    BY <2>1, <2>2 DEF UploadOk
<1> QED
  BY <1>2, <1>3, <1>4, <1>5

\* A document row is as well backed after the step.
Backed(d) ==
    /\ d.file \in 1..Len(files)
    /\ d.milestone \in {None, d.txn}
    /\ ~demo => txns[d.txn] # None
    /\ d.id \in Reqs => files[d.file].full /\ d.file \in ledger

LEMMA GrowsDocument ==
    ASSUME IntakeTypeOK, IntakeTypeOK', Grows, NEW d \in docs, Backed(d)
    PROVE  Backed(d)'
<1>1. /\ Len(files) \in Nat /\ Len(files') \in Nat /\ d.txn \in Ids
      /\ \A i \in 1..Len(files) : i \in 1..Len(files')
  BY DEF IntakeTypeOK, Grows
<1> QED
  BY <1>1 DEF Grows, Backed

LEMMA BackedDef == DocumentsAreBacked <=> \A d \in docs : Backed(d)
BY DEF DocumentsAreBacked, Backed, Exists

\* The inductive step, once for every handler: it is enough to look at the request
\* that moved and at the row it may have added.
LEMMA RequestMoves ==
    ASSUME ConstantsFit, IntakeInv, IntakeTypeOK', Grows, NEW r \in Reqs,
           \A s \in Reqs \ {r} : req'[s] = req[s],
           PhaseOk(req[r])', FileOk(req[r])', ~demo => OpenOk(req[r])',
           ~demo /\ req'[r].op = "open" /\ req'[r].code = 201
             => \/ req[r].op = "open" /\ req[r].code = 201 /\ req[r].txn = req'[r].txn
                \/ txns[req'[r].txn] = None,
           \A d \in docs' : d \in docs \/ Backed(d)',
           orderly => UploadOk(req[r])',
           req'[r].op = "upload" /\ req'[r].phase \notin {"idle", "done", "lost"} /\ orderly
             => \/ req[r].op = "upload" /\ req[r].phase \notin {"idle", "done", "lost"}
                \/ ~Uploading,
           folders' = folders \/ (req[r].op = "upload" /\ r \in InFlight)
    PROVE  IntakeInv'
<1> USE DEF IntakeInv
<1>1. demo' = demo /\ orderly' = orderly
  BY DEF Grows
<1>2. /\ req \in [Reqs -> ReqRecords] /\ req' \in [Reqs -> ReqRecords]
  BY DEF IntakeTypeOK
<1>3. \A s \in Reqs : PhaseOk(req[s])'
  <2> SUFFICES ASSUME NEW s \in Reqs, s # r PROVE PhaseOk(req[s])'
    OBVIOUS
  <2>1. PICK q \in ReqRecords : q = req[s] /\ q = req'[s]
    BY <1>2
  <2>2. PhaseOk(q)'
    BY <2>1, GrowsRequest
  <2> QED
    BY <2>1, <2>2
<1>4. \A s \in Reqs : FileOk(req[s])'
  <2> SUFFICES ASSUME NEW s \in Reqs, s # r PROVE FileOk(req[s])'
    OBVIOUS
  <2>1. PICK q \in ReqRecords : q = req[s] /\ q = req'[s]
    BY <1>2
  <2>2. FileOk(q)'
    BY <2>1, GrowsRequest
  <2> QED
    BY <2>1, <2>2
<1>5. OpenInv'
  <2> SUFFICES ASSUME ~demo PROVE OneCreator' /\ \A s \in Reqs : OpenOk(req[s])'
    BY <1>1 DEF OpenInv
  <2>1. \A s \in Reqs : OpenOk(req[s])'
    <3> SUFFICES ASSUME NEW s \in Reqs, s # r PROVE OpenOk(req[s])'
      OBVIOUS
    <3>1. PICK q \in ReqRecords : q = req[s] /\ q = req'[s]
      BY <1>2
    <3>2. OpenOk(q)'
      BY <3>1, GrowsRequest DEF OpenInv
    <3> QED
      BY <3>1, <3>2
  <2>2. \A s \in Creators : txns[req[s].txn] # None
    <3> SUFFICES ASSUME NEW s \in Creators PROVE txns[req[s].txn] # None
      OBVIOUS
    <3>1. s \in Reqs /\ req[s].op = "open" /\ req[s].code = 201
      BY DEF Creators
    <3>2. OpenOk(req[s]) /\ PhaseOk(req[s])
      BY <3>1 DEF OpenInv
    <3> QED
      BY <3>1, <3>2 DEF ConstantsFit, OpenOk, PhaseOk
  <2>3. \A s \in Creators' : /\ s \in Reqs
                                    /\ \/ s \in Creators /\ req'[s].txn = req[s].txn
                                       \/ s = r /\ txns[req'[r].txn] = None
    <3> SUFFICES ASSUME NEW s \in Creators'
                 PROVE  /\ s \in Reqs
                        /\ \/ s \in Creators /\ req'[s].txn = req[s].txn
                           \/ s = r /\ txns[req'[r].txn] = None
      OBVIOUS
    <3>1. s \in Reqs /\ req'[s].op = "open" /\ req'[s].code = 201
      BY DEF Creators
    <3>2. CASE s = r
      BY <3>1, <3>2 DEF Creators
    <3>3. CASE s # r
      BY <3>1, <3>3 DEF Creators
    <3> QED
      BY <3>1, <3>2, <3>3
  <2>4. OneCreator'
    <3> SUFFICES ASSUME NEW s \in Creators', NEW q \in Creators',
                        req'[s].txn = req'[q].txn
                 PROVE  s = q
      BY DEF OneCreator
    <3>1. s \in Creators /\ q \in Creators
            /\ req'[s].txn = req[s].txn /\ req'[q].txn = req[q].txn => s = q
      BY DEF OpenInv, OneCreator
    <3> QED
      BY <2>2, <2>3, <3>1
  <2> QED
    BY <2>1, <2>4
<1>6. DocumentsAreBacked'
  <2>1. \A d \in docs : Backed(d)
    BY BackedDef
  <2>2. ASSUME NEW d \in docs PROVE Backed(d)'
    BY <2>1, GrowsDocument
  <2>3. (\A d \in docs : Backed(d))'
    BY <2>2
  <2> QED
    BY <2>3, BackedDef, PTL
<1>7. UploadInv'
  <2> SUFFICES ASSUME orderly PROVE Alone' /\ \A s \in Reqs : UploadOk(req[s])'
    BY <1>1 DEF UploadInv
  <2>1. Alone /\ \A s \in Reqs : UploadOk(req[s])
    BY DEF UploadInv
  <2>2. Alone'
    <3> SUFFICES ASSUME NEW s \in InFlight', NEW q \in InFlight',
                        req'[s].op = "upload", req'[q].op = "upload"
                 PROVE  s = q
      BY DEF Alone
    <3>1. \A t \in InFlight' : req'[t].op = "upload" =>
            \/ t \in InFlight /\ req[t].op = "upload"
            \/ t = r /\ ~Uploading
      <4> SUFFICES ASSUME NEW t \in InFlight', req'[t].op = "upload"
                   PROVE  \/ t \in InFlight /\ req[t].op = "upload"
                          \/ t = r /\ ~Uploading
        OBVIOUS
      <4>1. t \in Reqs /\ req'[t].phase \notin {"idle", "done", "lost"}
        BY DEF InFlight
      <4>2. CASE t = r
        BY <4>1, <4>2 DEF InFlight
      <4>3. CASE t # r
        BY <4>1, <4>3 DEF InFlight
      <4> QED
        BY <4>2, <4>3
    <3>2. \A t \in InFlight : req[t].op = "upload" => Uploading
      BY DEF Uploading
    <3>3. s \in InFlight /\ q \in InFlight
            /\ req[s].op = "upload" /\ req[q].op = "upload" => s = q
      BY <2>1 DEF Alone
    <3> QED
      BY <3>1, <3>2, <3>3
  <2>3. \A s \in Reqs : UploadOk(req[s])'
    <3> SUFFICES ASSUME NEW s \in Reqs, s # r PROVE UploadOk(req[s])'
      OBVIOUS
    <3>1. PICK q \in ReqRecords : q = req[s] /\ q = req'[s]
      BY <1>2
    <3>2. q.op = "upload" /\ q.phase = "mkdir" => folders' = folders
      <4> SUFFICES ASSUME q.op = "upload", q.phase = "mkdir", req[r].op = "upload",
                          r \in InFlight
                   PROVE  FALSE
        OBVIOUS
      <4>1. s \in InFlight
        BY <3>1 DEF InFlight
      <4> QED
        BY <2>1, <3>1, <4>1 DEF Alone
    <3>3. UploadOk(q)'
      BY <2>1, <3>1, <3>2, GrowsRequest
    <3> QED
      BY <3>1, <3>3
  <2> QED
    BY <2>2, <2>3
<1> QED
  BY <1>3, <1>4, <1>5, <1>6, <1>7

\* How a handler moves its own request, and what it leaves alone.
Moved(r) == /\ req' \in [Reqs -> ReqRecords]
            /\ \A s \in Reqs \ {r} : req'[s] = req[s]

KeepsInput(r) ==
    /\ req'[r].op = req[r].op /\ req'[r].txn = req[r].txn /\ req'[r].terms = req[r].terms
    /\ req'[r].milestone = req[r].milestone /\ req'[r].left = req[r].left

KeepsPlace(r) ==
    req'[r].name = req[r].name /\ req'[r].folder = req[r].folder /\ req'[r].file = req[r].file

LEMMA GotoMoves ==
    ASSUME IntakeTypeOK, NEW r \in Reqs, NEW p \in Phases, Goto(r, p)
    PROVE  /\ Moved(r) /\ KeepsInput(r) /\ KeepsPlace(r)
           /\ req'[r].phase = p /\ req'[r].code = req[r].code
<1>1. req \in [Reqs -> ReqRecords] /\ req' = [req EXCEPT ![r].phase = p]
  BY DEF IntakeTypeOK, Goto
<1>2. req' \in [Reqs -> ReqRecords]
  BY <1>1, ZenonT(60) DEF ReqRecords
<1> QED
  BY <1>1, <1>2 DEF Moved, KeepsInput, KeepsPlace, ReqRecords

Answers(r, p, c) == req' = [req EXCEPT ![r].phase = p, ![r].code = c]

LEMMA AnswerMoves ==
    ASSUME IntakeTypeOK, NEW r \in Reqs, NEW p \in Phases, NEW c \in Codes,
           Answers(r, p, c)
    PROVE  /\ Moved(r) /\ KeepsInput(r) /\ KeepsPlace(r)
           /\ req'[r].phase = p /\ req'[r].code = c
<1>1. /\ req \in [Reqs -> ReqRecords]
      /\ req' = [req EXCEPT ![r].phase = p, ![r].code = c]
  BY DEF IntakeTypeOK, Answers
<1>2. req' \in [Reqs -> ReqRecords]
  BY <1>1, ZenonT(60) DEF ReqRecords
<1> QED
  BY <1>1, <1>2 DEF Moved, KeepsInput, KeepsPlace, ReqRecords

LEMMA ReplyMoves ==
    ASSUME IntakeTypeOK, NEW r \in Reqs, NEW c \in Codes, Reply(r, c)
    PROVE  /\ Moved(r) /\ KeepsInput(r) /\ KeepsPlace(r)
           /\ req'[r].phase = "done" /\ req'[r].code = c
<1>1. "done" \in Phases
  BY DEF Phases
<1>2. Answers(r, "done", c)
  BY DEF Answers, Reply
<1> QED
  BY <1>1, <1>2, AnswerMoves

LEMMA DetailMoves ==
    ASSUME IntakeTypeOK, NEW r \in Reqs, NEW c \in {200, 201}, Answers(r, "detail", c)
    PROVE  /\ Moved(r) /\ KeepsInput(r) /\ KeepsPlace(r)
           /\ req'[r].phase = "detail" /\ req'[r].code = c
<1>1. "detail" \in Phases /\ c \in Codes
  BY DEF Phases, Codes
<1> QED
  BY <1>1, AnswerMoves

\* A step that changes requests and nothing else.
World == <<demo, orderly, txns, docs, folders, files, ledger>>

LEMMA WorldStays ==
    ASSUME IntakeTypeOK, UNCHANGED World, req' \in [Reqs -> ReqRecords]
    PROVE  IntakeTypeOK' /\ Grows
<1>1. /\ demo' = demo /\ orderly' = orderly /\ txns' = txns /\ docs' = docs
      /\ folders' = folders /\ files' = files /\ ledger' = ledger
  BY DEF World
<1>2. IntakeTypeOK'
  BY <1>1 DEF IntakeTypeOK
<1>3. Len(files) \in Nat /\ Len(folders) \in Nat
  BY DEF IntakeTypeOK
<1> QED
  BY <1>1, <1>2, <1>3 DEF Grows

\* A request that neither is an open that succeeded nor joins the uploads.
LEMMA QuietMove ==
    ASSUME ConstantsFit, IntakeInv, UNCHANGED World, NEW r \in Reqs, Moved(r),
           KeepsInput(r),
           PhaseOk(req[r])', FileOk(req[r])', ~demo => OpenOk(req[r])',
           req'[r].op = "open" /\ req'[r].code = 201 => req[r].code = 201,
           orderly => UploadOk(req[r])',
           req[r].phase \notin {"idle", "done", "lost"}
    PROVE  IntakeInv'
<1>1. IntakeTypeOK' /\ Grows
  BY WorldStays DEF IntakeInv, Moved
<1>2. req'[r].op = req[r].op /\ req'[r].txn = req[r].txn
  BY DEF KeepsInput
<1>3. folders' = folders /\ docs' = docs
  BY DEF World
<1> QED
  BY <1>1, <1>2, <1>3, RequestMoves DEF Moved

\* POST /transactions.  An open that met the row: the same terms, or a conflict.
LEMMA ReplayIInv ==
    ASSUME ConstantsFit, IntakeInv, NEW r \in Reqs, UNCHANGED World,
           req[r].phase \in {"open", "reget"}, Exists(req[r].txn),
           _replay_or_conflict(r)
    PROVE  IntakeInv'
<1>1. IntakeTypeOK /\ PhaseOk(req[r])
  BY DEF IntakeInv
<1>2. req[r].op = "open" /\ req[r].txn \in Ids /\ req[r].terms \in Terms /\ req[r].code = 0
  BY <1>1 DEF PhaseOk, Opening
<1>3. txns' = txns /\ txns[req[r].txn] # None
  BY DEF World, Exists
<1>4. CASE _same_terms(r) /\ Answers(r, "detail", 200)
  <2>1. /\ Moved(r) /\ KeepsInput(r) /\ req'[r].phase = "detail" /\ req'[r].code = 200
    BY <1>1, <1>4, DetailMoves
  <2>2. txns[req[r].txn] = req[r].terms
    BY <1>4 DEF _same_terms
  <2>3. /\ PhaseOk(req[r])' /\ FileOk(req[r])'
        /\ OpenOk(req[r])' /\ UploadOk(req[r])'
    BY <1>2, <1>3, <2>1, <2>2 DEF KeepsInput, PhaseOk, FileOk, OpenOk,
       UploadOk, Opening, Putting, Filed, Seeding
  <2> QED
    BY <2>1, <2>3, QuietMove
<1>5. CASE ~_same_terms(r) /\ Reply(r, 409)
  <2>1. /\ Moved(r) /\ KeepsInput(r) /\ req'[r].phase = "done" /\ req'[r].code = 409
    BY <1>1, <1>5, ReplyMoves DEF Codes
  <2>2. txns[req[r].txn] # req[r].terms
    BY <1>5 DEF _same_terms
  <2>3. /\ PhaseOk(req[r])' /\ FileOk(req[r])'
        /\ OpenOk(req[r])' /\ UploadOk(req[r])'
    BY <1>2, <1>3, <2>1, <2>2 DEF KeepsInput, PhaseOk, FileOk, OpenOk,
       UploadOk, Opening, Putting, Filed, Seeding
  <2> QED
    BY <2>1, <2>3, QuietMove
<1> QED
  BY <1>4, <1>5 DEF _replay_or_conflict, Answers

LEMMA OpenTransactionIInv ==
    ASSUME ConstantsFit, IntakeInv, NEW r \in Reqs, UNCHANGED <<demo, orderly>>,
           open_transaction(r)
    PROVE  IntakeInv'
<1>1. IntakeTypeOK /\ PhaseOk(req[r])
  BY DEF IntakeInv
<1>2. UNCHANGED World /\ req[r].phase = "open"
  BY DEF open_transaction, World, drive, At
<1>3. req[r].op = "open" /\ req[r].txn \in Ids /\ req[r].terms \in Terms /\ req[r].code = 0
  BY <1>1, <1>2 DEF PhaseOk, Opening
<1>4. CASE Reply(r, 422)
  <2>1. /\ Moved(r) /\ KeepsInput(r) /\ req'[r].phase = "done" /\ req'[r].code = 422
    BY <1>1, <1>4, ReplyMoves DEF Codes
  <2>2. /\ PhaseOk(req[r])' /\ FileOk(req[r])'
        /\ OpenOk(req[r])' /\ UploadOk(req[r])'
    BY <1>3, <2>1 DEF KeepsInput, PhaseOk, FileOk, OpenOk,
       UploadOk, Opening, Putting, Filed, Seeding
  <2> QED
    BY <1>2, <2>1, <2>2, QuietMove
<1>5. CASE Exists(req[r].txn) /\ _replay_or_conflict(r)
  BY <1>2, <1>5, ReplayIInv
<1>6. CASE Goto(r, "create")
  <2>1. /\ Moved(r) /\ KeepsInput(r) /\ req'[r].phase = "create" /\ req'[r].code = 0
    BY <1>1, <1>3, <1>6, GotoMoves DEF Phases
  <2>2. /\ PhaseOk(req[r])' /\ FileOk(req[r])'
        /\ OpenOk(req[r])' /\ UploadOk(req[r])'
    BY <1>3, <2>1 DEF KeepsInput, PhaseOk, FileOk, OpenOk,
       UploadOk, Opening, Putting, Filed, Seeding
  <2> QED
    BY <1>2, <2>1, <2>2, QuietMove
<1> QED
  BY <1>4, <1>5, <1>6 DEF open_transaction

\* The insert: nobody was told "created" for this listing, for then there would be a row.
LEMMA CreateTransactionIInv ==
    ASSUME ConstantsFit, IntakeInv, NEW r \in Reqs, UNCHANGED <<demo, orderly>>,
           create_transaction(r)
    PROVE  IntakeInv'
<1>1. /\ IntakeTypeOK /\ PhaseOk(req[r])
      /\ ~demo => OpenOk(req[r])
  BY DEF IntakeInv, OpenInv
<1>2. /\ req[r].phase \in {"create", "reget"}
      /\ docs' = docs /\ folders' = folders /\ files' = files /\ ledger' = ledger
      /\ demo' = demo /\ orderly' = orderly
  BY DEF create_transaction, drive, At
<1>3. req[r].op = "open" /\ req[r].txn \in Ids /\ req[r].terms \in Terms /\ req[r].code = 0
  BY <1>1, <1>2 DEF PhaseOk, Opening
<1>4. CASE /\ ~Exists(req[r].txn)
           /\ txns' = [txns EXCEPT ![req[r].txn] = req[r].terms]
           /\ Answers(r, "detail", 201)
  <2>1. /\ Moved(r) /\ KeepsInput(r) /\ req'[r].phase = "detail" /\ req'[r].code = 201
    BY <1>1, <1>4, DetailMoves
  <2>2. /\ txns' \in [Ids -> Terms \cup {"demo", None}]
        /\ txns'[req[r].txn] = req[r].terms /\ txns[req[r].txn] = None
        /\ \A t \in Ids : txns[t] # None => txns'[t] = txns[t]
    BY <1>1, <1>3, <1>4 DEF IntakeTypeOK, Exists
  <2>3. IntakeTypeOK'
    BY <1>1, <1>2, <2>1, <2>2 DEF IntakeTypeOK, Moved
  <2>4. Len(files) \in Nat /\ Len(folders) \in Nat
    BY <1>1 DEF IntakeTypeOK
  <2>5. Grows
    BY <1>2, <2>2, <2>4 DEF Grows
  <2>6. /\ PhaseOk(req[r])' /\ FileOk(req[r])'
        /\ OpenOk(req[r])' /\ UploadOk(req[r])'
    BY <1>3, <2>1, <2>2 DEF KeepsInput, PhaseOk, FileOk, OpenOk,
       UploadOk, Opening, Putting, Filed, Seeding
  <2>7. req'[r].op = "open" /\ txns[req'[r].txn] = None
    BY <1>3, <2>1, <2>2 DEF KeepsInput
  <2> QED
    BY <1>2, <2>1, <2>3, <2>5, <2>6, <2>7, RequestMoves DEF Moved
<1>5. CASE Exists(req[r].txn) /\ Goto(r, "reget") /\ UNCHANGED txns
  <2>1. /\ Moved(r) /\ KeepsInput(r) /\ req'[r].phase = "reget" /\ req'[r].code = 0
    BY <1>1, <1>3, <1>5, GotoMoves DEF Phases
  <2>2. txns[req[r].txn] # None /\ txns' = txns
    BY <1>5 DEF Exists
  <2>3. /\ PhaseOk(req[r])' /\ FileOk(req[r])'
        /\ OpenOk(req[r])' /\ UploadOk(req[r])'
    BY <1>3, <2>1, <2>2 DEF KeepsInput, PhaseOk, FileOk, OpenOk,
       UploadOk, Opening, Putting, Filed, Seeding
  <2>4. UNCHANGED World
    BY <1>2, <1>5 DEF World
  <2> QED
    BY <1>2, <2>1, <2>3, <2>4, QuietMove
<1>6. CASE /\ req[r].phase = "reget" /\ UNCHANGED txns
           /\ Exists(req[r].txn) /\ _replay_or_conflict(r)
  <2>1. UNCHANGED World
    BY <1>2, <1>6 DEF World
  <2> QED
    BY <1>6, <2>1, ReplayIInv
<1>7. CASE /\ req[r].phase = "reget" /\ UNCHANGED txns
           /\ ~Exists(req[r].txn) /\ Reply(r, 500)
  <2>1. /\ Moved(r) /\ KeepsInput(r) /\ req'[r].phase = "done" /\ req'[r].code = 500
    BY <1>1, <1>7, ReplyMoves DEF Codes
  <2>2. demo
    BY <1>1, <1>3, <1>7 DEF OpenOk, Exists
  <2>3. /\ PhaseOk(req[r])' /\ FileOk(req[r])' /\ UploadOk(req[r])'
    BY <1>3, <2>1 DEF KeepsInput, PhaseOk, FileOk, OpenOk,
       UploadOk, Opening, Putting, Filed, Seeding
  <2>4. UNCHANGED World
    BY <1>2, <1>7 DEF World
  <2> QED
    BY <1>2, <2>1, <2>2, <2>3, <2>4, QuietMove
<1> QED
  BY <1>4, <1>5, <1>6, <1>7 DEF create_transaction, At, Answers

LEMMA DetailIInv ==
    ASSUME ConstantsFit, IntakeInv, NEW r \in Reqs, UNCHANGED <<demo, orderly>>,
           _detail(r)
    PROVE  IntakeInv'
<1>1. /\ IntakeTypeOK /\ PhaseOk(req[r])
      /\ ~demo => OpenOk(req[r])
  BY DEF IntakeInv, OpenInv
<1> DEFINE b == txns[req[r].txn] # None
<1>2. /\ UNCHANGED World /\ req[r].phase = "detail" /\ b \in BOOLEAN
      /\ req' = [req EXCEPT ![r].phase = "done", ![r].shown = b]
  BY DEF _detail, World, drive, At, Exists
<1>3. /\ req[r].op = "open" /\ req[r].txn \in Ids /\ req[r].terms \in Terms
      /\ req[r].code \in {200, 201}
  BY <1>1, <1>2 DEF PhaseOk, Opening
<1>4. ~demo => b
  BY <1>1, <1>3 DEF OpenOk, ConstantsFit
<1> HIDE DEF b
<1>5. /\ Moved(r) /\ KeepsInput(r) /\ req'[r].phase = "done" /\ req'[r].code = req[r].code
      /\ req'[r].shown = b
  <2>1. req \in [Reqs -> ReqRecords] /\ "done" \in Phases
    BY <1>1 DEF IntakeTypeOK, Phases
  <2>2. req' \in [Reqs -> ReqRecords]
    BY <1>2, <2>1, ZenonT(60) DEF ReqRecords
  <2> QED
    BY <1>2, <2>1, <2>2 DEF Moved, KeepsInput, ReqRecords
<1>6. txns' = txns
  BY <1>2 DEF World
<1>7. PhaseOk(req[r])' /\ FileOk(req[r])' /\ UploadOk(req[r])'
  BY <1>3, <1>5 DEF KeepsInput, PhaseOk, FileOk, OpenOk,
       UploadOk, Opening, Putting, Filed, Seeding
<1>8. ~demo => OpenOk(req[r])'
  BY <1>1, <1>3, <1>4, <1>5, <1>6 DEF KeepsInput, OpenOk
<1> QED
  BY <1>2, <1>5, <1>7, <1>8, QuietMove

\* Documents.
LEMMA RequireTransactionIInv ==
    ASSUME ConstantsFit, IntakeInv, NEW r \in Reqs, UNCHANGED <<demo, orderly>>,
           _require_transaction(r)
    PROVE  IntakeInv'
<1>1. IntakeTypeOK /\ PhaseOk(req[r])
  BY DEF IntakeInv
<1>2. UNCHANGED World /\ req[r].phase = "require"
  BY DEF _require_transaction, World, drive, At
<1>3. /\ req[r].op \in {"attach", "upload"} /\ req[r].txn \in Ids
      /\ req[r].milestone \in Maybe(Ids) /\ req[r].code = 0
  BY <1>1, <1>2 DEF PhaseOk
<1>4. CASE Exists(req[r].txn) /\ Goto(r, "milestone")
  <2>1. /\ Moved(r) /\ KeepsInput(r) /\ req'[r].phase = "milestone" /\ req'[r].code = 0
    BY <1>1, <1>3, <1>4, GotoMoves DEF Phases
  <2>2. txns[req[r].txn] # None /\ txns' = txns
    BY <1>2, <1>4 DEF Exists, World
  <2>3. /\ PhaseOk(req[r])' /\ FileOk(req[r])'
        /\ OpenOk(req[r])' /\ UploadOk(req[r])'
    BY <1>3, <2>1, <2>2 DEF KeepsInput, PhaseOk, FileOk, OpenOk,
       UploadOk, Opening, Putting, Filed, Seeding
  <2> QED
    BY <1>2, <2>1, <2>3, QuietMove
<1>5. CASE Reply(r, 404)
  <2>1. /\ Moved(r) /\ KeepsInput(r) /\ req'[r].phase = "done" /\ req'[r].code = 404
    BY <1>1, <1>5, ReplyMoves DEF Codes
  <2>2. /\ PhaseOk(req[r])' /\ FileOk(req[r])'
        /\ OpenOk(req[r])' /\ UploadOk(req[r])'
    BY <1>3, <2>1 DEF KeepsInput, PhaseOk, FileOk, OpenOk,
       UploadOk, Opening, Putting, Filed, Seeding
  <2> QED
    BY <1>2, <2>1, <2>2, QuietMove
<1> QED
  BY <1>4, <1>5 DEF _require_transaction

LEMMA ValidateMilestoneIInv ==
    ASSUME ConstantsFit, IntakeInv, NEW r \in Reqs, UNCHANGED <<demo, orderly>>,
           _validate_milestone(r)
    PROVE  IntakeInv'
<1>1. IntakeTypeOK /\ PhaseOk(req[r]) /\ FileOk(req[r])
  BY DEF IntakeInv
<1>2. UNCHANGED World /\ req[r].phase = "milestone"
  BY DEF _validate_milestone, World, drive, At
<1>3. /\ req[r].op \in {"attach", "upload"} /\ req[r].txn \in Ids
      /\ req[r].milestone \in Maybe(Ids) /\ req[r].code = 0
  BY <1>1, <1>2 DEF PhaseOk
<1>4. (~demo => txns[req[r].txn] # None) /\ txns' = txns
  BY <1>1, <1>2 DEF FileOk, World
<1>5. CASE req[r].milestone \in {None, req[r].txn} /\ Goto(r, req[r].op)
  <2>1. PICK p \in Phases : p = req[r].op
    BY <1>3 DEF Phases
  <2>2. /\ Moved(r) /\ KeepsInput(r) /\ req'[r].phase = req[r].op /\ req'[r].code = 0
    BY <1>1, <1>3, <1>5, <2>1, GotoMoves
  <2>3. UNCHANGED demo
    OBVIOUS
  <2>4. /\ PhaseOk(req[r])' /\ FileOk(req[r])'
        /\ OpenOk(req[r])' /\ UploadOk(req[r])'
    BY <1>3, <1>4, <1>5, <2>2, <2>3 DEF KeepsInput, PhaseOk, FileOk, OpenOk,
       UploadOk, Opening, Putting, Filed, Seeding
  <2> QED
    BY <1>2, <2>2, <2>4, QuietMove
<1>6. CASE Reply(r, 422)
  <2>1. /\ Moved(r) /\ KeepsInput(r) /\ req'[r].phase = "done" /\ req'[r].code = 422
    BY <1>1, <1>6, ReplyMoves DEF Codes
  <2>2. /\ PhaseOk(req[r])' /\ FileOk(req[r])'
        /\ OpenOk(req[r])' /\ UploadOk(req[r])'
    BY <1>3, <2>1 DEF KeepsInput, PhaseOk, FileOk, OpenOk,
       UploadOk, Opening, Putting, Filed, Seeding
  <2> QED
    BY <1>2, <2>1, <2>2, QuietMove
<1> QED
  BY <1>5, <1>6 DEF _validate_milestone

LEMMA AttachDocumentIInv ==
    ASSUME ConstantsFit, IntakeInv, NEW r \in Reqs, UNCHANGED <<demo, orderly>>,
           attach_document(r)
    PROVE  IntakeInv'
<1>1. IntakeTypeOK /\ PhaseOk(req[r]) /\ FileOk(req[r])
  BY DEF IntakeInv
<1>2. UNCHANGED World /\ req[r].phase = "attach"
  BY DEF attach_document, World, drive, At
<1>3. /\ req[r].op = "attach" /\ req[r].txn \in Ids
      /\ req[r].milestone \in Maybe(Ids) /\ req[r].code = 0
  BY <1>1, <1>2 DEF PhaseOk
<1>4. /\ ~demo => txns[req[r].txn] # None
      /\ req[r].milestone \in {None, req[r].txn}
  BY <1>1, <1>2 DEF FileOk, Filed
<1>5. CASE req[r].file \in 1..Len(files) /\ Goto(r, "persist")
  <2>1. /\ Moved(r) /\ KeepsInput(r) /\ KeepsPlace(r)
        /\ req'[r].phase = "persist" /\ req'[r].code = 0
    BY <1>1, <1>3, <1>5, GotoMoves DEF Phases
  <2>2. demo' = demo /\ txns' = txns /\ files' = files
    BY <1>2 DEF World
  <2>3. /\ PhaseOk(req[r])' /\ FileOk(req[r])'
        /\ OpenOk(req[r])' /\ UploadOk(req[r])'
    BY <1>3, <1>4, <1>5, <2>1, <2>2 DEF KeepsInput, PhaseOk, FileOk, OpenOk,
       UploadOk, Opening, Putting, Filed, Seeding, KeepsPlace
  <2> QED
    BY <1>2, <2>1, <2>3, QuietMove
<1>6. ASSUME NEW c \in {404, 500}, Reply(r, c) PROVE IntakeInv'
  <2>1. /\ Moved(r) /\ KeepsInput(r) /\ req'[r].phase = "done" /\ req'[r].code = c
    BY <1>1, <1>6, ReplyMoves DEF Codes
  <2>2. /\ PhaseOk(req[r])' /\ FileOk(req[r])'
        /\ OpenOk(req[r])' /\ UploadOk(req[r])'
    BY <1>3, <1>6, <2>1 DEF KeepsInput, PhaseOk, FileOk, OpenOk,
       UploadOk, Opening, Putting, Filed, Seeding
  <2> QED
    BY <1>2, <1>3, <2>1, <2>2, QuietMove
<1> QED
  BY <1>5, <1>6 DEF attach_document

\* The row that is added says what the request has established.
LEMMA PersistIInv ==
    ASSUME ConstantsFit, IntakeInv, NEW r \in Reqs, UNCHANGED <<demo, orderly>>,
           _persist(r)
    PROVE  IntakeInv'
<1>1. /\ IntakeTypeOK /\ PhaseOk(req[r]) /\ FileOk(req[r])
      /\ orderly => UploadOk(req[r])
  BY DEF IntakeInv, UploadInv
<1>2. /\ req[r].phase \in {"persist", "reread"} /\ demo' = demo /\ orderly' = orderly
      /\ txns' = txns /\ folders' = folders /\ files' = files /\ ledger' = ledger
  BY DEF _persist, drive, At
<1>3. /\ req[r].op \in {"attach", "upload"} /\ req[r].txn \in Ids
      /\ req[r].milestone \in Maybe(Ids) /\ req[r].code = 0
      /\ req[r].file \in Nat
  BY <1>1, <1>2 DEF PhaseOk, Filed, IntakeTypeOK, ReqRecords
<1>4. /\ ~demo => txns[req[r].txn] # None
      /\ req[r].milestone \in {None, req[r].txn}
      /\ req[r].file \in 1..Len(files)
      /\ req[r].op = "upload" => files[req[r].file].full /\ req[r].file \in ledger
  BY <1>1, <1>2 DEF FileOk, Filed
<1>5. orderly /\ req[r].op = "upload" =>
        /\ IsOldest(req[r].folder, req[r].name)
        /\ files[req[r].file].parent = req[r].folder
  BY <1>1, <1>2 DEF UploadOk
<1>6. ASSUME NEW c \in {200, 201, 500}, Reply(r, c)
      PROVE  /\ Moved(r) /\ KeepsInput(r)
             /\ PhaseOk(req[r])' /\ FileOk(req[r])' /\ OpenOk(req[r])'
             /\ orderly => UploadOk(req[r])'
             /\ req'[r].phase = "done" /\ req'[r].op = req[r].op
  <2>1. /\ Moved(r) /\ KeepsInput(r) /\ KeepsPlace(r)
        /\ req'[r].phase = "done" /\ req'[r].code = c
    BY <1>1, <1>6, ReplyMoves DEF Codes
  <2>2. PhaseOk(req[r])' /\ FileOk(req[r])' /\ OpenOk(req[r])'
    BY <1>3, <1>6, <2>1 DEF KeepsInput, PhaseOk, FileOk, OpenOk,
       UploadOk, Opening, Putting, Filed, Seeding
  <2>3. orderly => UploadOk(req[r])'
    BY <1>2, <1>4, <1>5, <2>1 DEF KeepsInput, KeepsPlace, UploadOk, IsOldest
  <2> QED
    BY <2>1, <2>2, <2>3 DEF KeepsInput
<1> DEFINE doc == [id |-> _document_id(r), txn |-> req[r].txn,
                   milestone |-> req[r].milestone, file |-> req[r].file]
<1>7. CASE docs' = docs \cup {doc} /\ Reply(r, 201)
  <2>1. /\ Moved(r) /\ KeepsInput(r)
        /\ PhaseOk(req[r])' /\ FileOk(req[r])' /\ OpenOk(req[r])'
        /\ orderly => UploadOk(req[r])'
        /\ req'[r].phase = "done" /\ req'[r].op = req[r].op
    BY <1>6, <1>7
  <2>2. _document_id(r) \in Reqs \cup (Ids \X Nat)
    BY <1>3 DEF _document_id
  <2>3. _document_id(r) \in Reqs => req[r].op = "upload"
    <3>1. ASSUME req[r].op = "attach" PROVE _document_id(r) \in Ids \X Nat
      BY <1>3, <3>1 DEF _document_id
    <3> QED
      BY <1>3, <3>1 DEF ConstantsFit
  <2>4. /\ doc \in [id : Reqs \cup (Ids \X Nat), txn : Ids,
                    milestone : Maybe(Ids), file : Nat]
    BY <1>3, <2>2
  <2>5. doc.txn = req[r].txn /\ doc.milestone = req[r].milestone /\ doc.file = req[r].file
        /\ doc.id = _document_id(r)
    OBVIOUS
  <2> HIDE DEF doc
  <2>6. PICK d : d = doc
    OBVIOUS
  <2>7. IntakeTypeOK'
    BY <1>1, <1>2, <1>7, <2>1, <2>4 DEF IntakeTypeOK, Moved
  <2>8. Backed(d)'
    BY <1>2, <1>4, <2>3, <2>5, <2>6 DEF Backed
  <2>9. \A e \in docs' : e \in docs \/ Backed(e)'
    BY <1>7, <2>6, <2>8
  <2>10. Grows
    <3>1. Len(files) \in Nat /\ Len(folders) \in Nat
      BY <1>1 DEF IntakeTypeOK
    <3> QED
      BY <1>2, <3>1 DEF Grows
  <2> QED
    BY <1>2, <1>3, <2>1, <2>7, <2>9, <2>10, RequestMoves DEF Moved
<1>8. CASE UNCHANGED docs /\ Goto(r, "reread")
  <2>1. /\ Moved(r) /\ KeepsInput(r) /\ KeepsPlace(r)
        /\ req'[r].phase = "reread" /\ req'[r].code = 0
    BY <1>1, <1>3, <1>8, GotoMoves DEF Phases
  <2>2. PhaseOk(req[r])' /\ FileOk(req[r])' /\ OpenOk(req[r])'
    BY <1>2, <1>3, <1>4, <2>1 DEF KeepsInput, PhaseOk, FileOk, OpenOk,
       UploadOk, Opening, Putting, Filed, Seeding, KeepsPlace
  <2>3. orderly => UploadOk(req[r])'
    BY <1>2, <1>4, <1>5, <2>1 DEF KeepsInput, KeepsPlace, UploadOk, IsOldest
  <2>4. UNCHANGED World
    BY <1>2, <1>8 DEF World
  <2> QED
    BY <1>2, <1>3, <2>1, <2>2, <2>3, <2>4, QuietMove
<1>9. CASE UNCHANGED docs /\ \E c \in {200, 500} : Reply(r, c)
  <2>1. PICK c \in {200, 500} : Reply(r, c)
    BY <1>9
  <2>2. /\ Moved(r) /\ KeepsInput(r)
        /\ PhaseOk(req[r])' /\ FileOk(req[r])' /\ OpenOk(req[r])'
        /\ orderly => UploadOk(req[r])'
        /\ req'[r].phase = "done" /\ req'[r].op = req[r].op
    BY <1>6, <2>1
  <2>3. UNCHANGED World
    BY <1>2, <1>9 DEF World
  <2> QED
    BY <1>2, <1>3, <2>2, <2>3, QuietMove
<1> QED
  BY <1>7, <1>8, <1>9 DEF _persist

\* Files keep their place when a folder comes.
LEMMA FilesStillIn ==
    ASSUME NEW m \in Nat, NEW n \in Nat, m <= n, NEW s \in Seq([parent : 1..m, full : BOOLEAN])
    PROVE  s \in Seq([parent : 1..n, full : BOOLEAN])
<1>1. ASSUME NEW e \in [parent : 1..m, full : BOOLEAN] PROVE e \in [parent : 1..n, full : BOOLEAN]
  <2>1. e.parent \in 1..n
    BY <1>1
  <2> QED
    BY <1>1, <2>1
<1> DEFINE A == [parent : 1..m, full : BOOLEAN]
           B == [parent : 1..n, full : BOOLEAN]
<1>2. s \in Seq(A) /\ \A e \in A : e \in B
  BY <1>1
<1> HIDE DEF A, B
<1>3. s \in Seq(B)
  BY <1>2
<1> QED
  BY <1>3 DEF B

\* The upload's look for its folder: the oldest of the name, or there is none.
LEMMA UploadDocumentIInv ==
    ASSUME ConstantsFit, IntakeInv, NEW r \in Reqs, UNCHANGED <<demo, orderly>>,
           upload_document(r)
    PROVE  IntakeInv'
<1>1. IntakeTypeOK /\ PhaseOk(req[r]) /\ FileOk(req[r])
  BY DEF IntakeInv
<1>2. UNCHANGED World /\ req[r].phase = "upload"
  BY DEF upload_document, World, drive, At
<1>3. /\ req[r].op = "upload" /\ req[r].txn \in Ids
      /\ req[r].milestone \in Maybe(Ids) /\ req[r].code = 0
  BY <1>1, <1>2 DEF PhaseOk, Putting
<1>4. /\ ~demo => txns[req[r].txn] # None
      /\ req[r].milestone \in {None, req[r].txn}
  BY <1>1, <1>2 DEF FileOk, Filed, Putting
<1> DEFINE nm == IF req[r].name = None THEN req[r].txn ELSE req[r].name
           found == _find_folder_id(nm)
           p == IF found = 0 THEN "mkdir" ELSE "meta"
<1>5. req' = [req EXCEPT ![r].phase = p, ![r].name = nm, ![r].folder = found]
  BY DEF upload_document
<1>6. nm \in Ids
  BY <1>1, <1>3 DEF IntakeTypeOK, ReqRecords, Maybe
<1>7. folders \in Seq(Ids) /\ PageSize \in Nat \ {0}
  BY <1>1 DEF IntakeTypeOK, ConstantsFit
<1>8. \/ found = 0 /\ \A j \in 1..Len(folders) : folders[j] # nm
      \/ IsOldest(found, nm)
  <2> HIDE DEF nm
  <2> QED
    BY <1>7, FindsOldest
<1>9. \/ found = 0 /\ p = "mkdir" /\ \A j \in 1..Len(folders) : folders[j] # nm
      \/ p = "meta" /\ IsOldest(found, nm) /\ found \in 1..Len(folders)
  <2> HIDE DEF nm
  <2>1. Len(folders) \in Nat
    BY <1>7
  <2>2. IsOldest(found, nm) => found \in 1..Len(folders) /\ found # 0
    BY <2>1 DEF IsOldest
  <2> QED
    BY <1>8, <2>2
<1>10. found \in Nat /\ p \in Phases /\ nm \in Maybe(Ids)
  <2> HIDE DEF nm, found
  <2> QED
    BY <1>6, <1>7, <1>9 DEF Phases, Maybe
<1> HIDE DEF nm, found, p
<1>11. /\ Moved(r) /\ KeepsInput(r) /\ req'[r].phase = p /\ req'[r].code = req[r].code
       /\ req'[r].name = nm /\ req'[r].folder = found
  <2>1. req \in [Reqs -> ReqRecords]
    BY <1>1 DEF IntakeTypeOK
  <2> DEFINE named == [req EXCEPT ![r].phase = p, ![r].name = nm]
  <2>2. named \in [Reqs -> ReqRecords]
    BY <1>10, <2>1, ZenonT(60) DEF ReqRecords
  <2>3. req' = [named EXCEPT ![r].folder = found]
    BY <1>5, <2>1 DEF ReqRecords
  <2> HIDE DEF named
  <2>4. req' \in [Reqs -> ReqRecords]
    BY <1>10, <2>2, <2>3, ZenonT(60) DEF ReqRecords
  <2> QED
    BY <1>5, <2>1, <2>4 DEF Moved, KeepsInput, ReqRecords
<1>12. demo' = demo /\ orderly' = orderly /\ txns' = txns /\ folders' = folders
  BY <1>2 DEF World
<1>13. p \in {"mkdir", "meta"}
  BY <1>9
<1>14. PhaseOk(req[r])' /\ OpenOk(req[r])'
  BY <1>3, <1>11, <1>13 DEF KeepsInput, PhaseOk, FileOk, OpenOk,
       UploadOk, Opening, Putting, Filed, Seeding
<1>15. FileOk(req[r])'
  BY <1>3, <1>4, <1>6, <1>9, <1>11, <1>12 DEF KeepsInput, PhaseOk, FileOk, OpenOk,
       UploadOk, Opening, Putting, Filed, Seeding
<1>16. UploadOk(req[r])'
  BY <1>3, <1>9, <1>11, <1>12 DEF KeepsInput, UploadOk, IsOldest
<1> QED
  BY <1>2, <1>3, <1>11, <1>14, <1>15, <1>16, QuietMove

\* The folder made where there was none is the oldest of its name.
LEMMA CreateFolderIInv ==
    ASSUME ConstantsFit, IntakeInv, NEW r \in Reqs, UNCHANGED <<demo, orderly>>,
           _create_folder(r)
    PROVE  IntakeInv'
<1>1. /\ IntakeTypeOK /\ PhaseOk(req[r]) /\ FileOk(req[r])
      /\ orderly => UploadOk(req[r])
  BY DEF IntakeInv, UploadInv
<1> DEFINE n == Len(folders) + 1
<1>2. /\ req[r].phase = "mkdir" /\ demo' = demo /\ orderly' = orderly
      /\ txns' = txns /\ docs' = docs /\ files' = files /\ ledger' = ledger
      /\ folders' = Append(folders, req[r].name)
      /\ req' = [req EXCEPT ![r].phase = "meta", ![r].folder = Len(folders')]
  BY DEF _create_folder, At
<1>3. /\ req[r].op = "upload" /\ req[r].txn \in Ids
      /\ req[r].milestone \in Maybe(Ids) /\ req[r].code = 0
  BY <1>1, <1>2 DEF PhaseOk, Putting
<1>4. /\ ~demo => txns[req[r].txn] # None
      /\ req[r].milestone \in {None, req[r].txn} /\ req[r].name \in Ids
  BY <1>1, <1>2 DEF FileOk, Filed, Putting
<1>5. folders \in Seq(Ids) /\ Len(folders) \in Nat /\ Len(files) \in Nat
  BY <1>1 DEF IntakeTypeOK
<1>6. /\ folders' \in Seq(Ids) /\ Len(folders') = n /\ folders'[n] = req[r].name
      /\ \A i \in 1..Len(folders) : folders'[i] = folders[i]
  BY <1>2, <1>4, <1>5
<1>7. n \in Nat /\ Len(folders) <= n
  BY <1>5
<1>8. files' \in Seq([parent : 1..Len(folders'), full : BOOLEAN])
  <2>1. files' \in Seq([parent : 1..Len(folders), full : BOOLEAN])
    BY <1>1, <1>2 DEF IntakeTypeOK
  <2>2. Len(folders') \in Nat /\ Len(folders) <= Len(folders')
    BY <1>6, <1>7
  <2> QED
    BY <1>5, <2>1, <2>2, FilesStillIn
<1> HIDE DEF n
<1>9. /\ Moved(r) /\ KeepsInput(r) /\ req'[r].phase = "meta" /\ req'[r].code = 0
      /\ req'[r].name = req[r].name /\ req'[r].folder = n
  <2>1. req \in [Reqs -> ReqRecords] /\ "meta" \in Phases
    BY <1>1 DEF IntakeTypeOK, Phases
  <2>2. req' = [req EXCEPT ![r].phase = "meta", ![r].folder = n]
    BY <1>2, <1>6
  <2>3. req' \in [Reqs -> ReqRecords]
    BY <1>7, <2>1, <2>2, ZenonT(60) DEF ReqRecords
  <2> QED
    BY <1>3, <2>1, <2>2, <2>3 DEF Moved, KeepsInput, ReqRecords
<1>10. IntakeTypeOK'
  BY <1>1, <1>2, <1>6, <1>8, <1>9 DEF IntakeTypeOK, Moved
<1>11. Grows
  BY <1>2, <1>5, <1>6, <1>7 DEF Grows
<1>12. PhaseOk(req[r])' /\ OpenOk(req[r])'
  BY <1>3, <1>9 DEF KeepsInput, PhaseOk, FileOk, OpenOk,
       UploadOk, Opening, Putting, Filed, Seeding
<1>13. n \in 1..Len(folders') /\ \A j \in 1..(n - 1) : j \in 1..Len(folders)
  BY <1>5, <1>6 DEF n
<1>14. FileOk(req[r])'
  BY <1>2, <1>3, <1>4, <1>9, <1>13 DEF KeepsInput, PhaseOk, FileOk, OpenOk,
       UploadOk, Opening, Putting, Filed, Seeding
<1>15. orderly => UploadOk(req[r])'
  <2>1. orderly => \A j \in 1..Len(folders) : folders[j] # req[r].name
    BY <1>1, <1>2, <1>3 DEF UploadOk
  <2> QED
    BY <1>3, <1>6, <1>9, <1>13, <2>1 DEF UploadOk, IsOldest
<1>16. req[r].op = "upload" /\ r \in InFlight /\ req'[r].op = "upload"
  BY <1>2, <1>3, <1>9 DEF InFlight, KeepsInput
<1> QED
  BY <1>2, <1>3, <1>9, <1>10, <1>11, <1>12, <1>14, <1>15, <1>16, RequestMoves DEF Moved

\* The entry, and then the bytes.
LEMMA PutIInv ==
    ASSUME ConstantsFit, IntakeInv, NEW r \in Reqs, UNCHANGED <<demo, orderly>>,
           put(r)
    PROVE  IntakeInv'
<1>1. /\ IntakeTypeOK /\ PhaseOk(req[r]) /\ FileOk(req[r])
      /\ orderly => UploadOk(req[r])
  BY DEF IntakeInv, UploadInv
<1>2. /\ req[r].phase \in {"meta", "media"} /\ demo' = demo /\ orderly' = orderly
      /\ txns' = txns /\ docs' = docs /\ folders' = folders /\ ledger' = ledger
  BY DEF put, At
<1>3. /\ req[r].op = "upload" /\ req[r].txn \in Ids
      /\ req[r].milestone \in Maybe(Ids) /\ req[r].code = 0
  BY <1>1, <1>2 DEF PhaseOk, Putting
<1>4. /\ ~demo => txns[req[r].txn] # None
      /\ req[r].milestone \in {None, req[r].txn}
  BY <1>1, <1>2 DEF FileOk, Filed, Putting
<1> DEFINE F == [parent : 1..Len(folders), full : BOOLEAN]
<1>5. /\ files \in Seq(F) /\ Len(files) \in Nat /\ Len(folders) \in Nat
      /\ ledger \subseteq 1..Len(files)
  BY <1>1 DEF IntakeTypeOK
<1>6. orderly => IsOldest(req[r].folder, req[r].name)
  BY <1>1, <1>2, <1>3 DEF UploadOk
<1>7. ASSUME Moved(r), KeepsInput(r), files' \in Seq(F), Len(files) <= Len(files'), Grows,
             req'[r].phase \in {"media", "record"}, req'[r].code = 0,
             req'[r].name = req[r].name, req'[r].folder = req[r].folder,
             req'[r].file \in 1..Len(files'), files'[req'[r].file].parent \in 1..Len(folders),
             orderly => files'[req'[r].file].parent = req[r].folder,
             req'[r].phase = "record" => files'[req'[r].file].full
      PROVE  IntakeInv'
  <2>1. IntakeTypeOK'
    <3>1. Len(files') \in Nat /\ \A i \in 1..Len(files) : i \in 1..Len(files')
      BY <1>5, <1>7
    <3>2. ledger' \subseteq 1..Len(files')
      BY <1>2, <1>5, <3>1
    <3>3. files' \in Seq([parent : 1..Len(folders'), full : BOOLEAN])
      BY <1>2, <1>7
    <3> QED
      BY <1>1, <1>2, <1>7, <3>2, <3>3 DEF IntakeTypeOK, Moved
  <2>2. PhaseOk(req[r])' /\ OpenOk(req[r])'
    BY <1>3, <1>7 DEF KeepsInput, PhaseOk, FileOk, OpenOk,
       UploadOk, Opening, Putting, Filed, Seeding
  <2>3. FileOk(req[r])'
    BY <1>2, <1>3, <1>4, <1>7 DEF KeepsInput, PhaseOk, FileOk, OpenOk,
       UploadOk, Opening, Putting, Filed, Seeding
  <2>4. orderly => UploadOk(req[r])'
    <3>1. orderly => IsOldest(req[r].folder, req[r].name)'
      BY <1>2, <1>6, <1>7 DEF IsOldest
    <3>2. orderly => /\ (files[req[r].file].parent = req[r].folder)'
                     /\ (req[r].file \in 1..Len(files))'
      BY <1>7
    <3>3. req'[r].phase # "mkdir"
      BY <1>7
    <3> QED
      BY <3>1, <3>2, <3>3 DEF UploadOk
  <2>5. req'[r].op = "upload" /\ req[r].phase \notin {"idle", "done", "lost"}
    BY <1>2, <1>3, <1>7 DEF KeepsInput
  <2> QED
    BY <1>2, <1>3, <1>7, <2>1, <2>2, <2>3, <2>4, <2>5, RequestMoves DEF Moved
<1>8. CASE /\ req[r].phase = "meta"
           /\ files' = Append(files, [parent |-> req[r].folder, full |-> FALSE])
           /\ req' = [req EXCEPT ![r].phase = "media", ![r].file = Len(files')]
  <2> DEFINE new == [parent |-> req[r].folder, full |-> FALSE]
             n == Len(files) + 1
  <2>1. req[r].folder \in 1..Len(folders)
    BY <1>1, <1>8 DEF FileOk
  <2>2. new \in F /\ new.parent = req[r].folder
    BY <2>1
  <2>3. files' = Append(files, new)
    BY <1>8
  <2> HIDE DEF new, F
  <2>4. /\ files' \in Seq(F) /\ Len(files') = n /\ files'[n] = new
        /\ \A i \in 1..Len(files) : files'[i] = files[i]
        /\ n \in Nat /\ n \in 1..Len(files') /\ Len(files) <= Len(files')
    BY <1>5, <2>2, <2>3
  <2>5. Grows
    BY <1>2, <1>5, <2>4 DEF Grows
  <2>6. req' = [req EXCEPT ![r].phase = "media", ![r].file = n]
    BY <1>8, <2>4
  <2> HIDE DEF n
  <2>7. /\ Moved(r) /\ KeepsInput(r) /\ req'[r].phase = "media" /\ req'[r].code = 0
        /\ req'[r].name = req[r].name /\ req'[r].folder = req[r].folder /\ req'[r].file = n
    <3>1. req \in [Reqs -> ReqRecords] /\ "media" \in Phases
      BY <1>1 DEF IntakeTypeOK, Phases
    <3>2. n \in Nat
      BY <2>4
    <3>3. req' \in [Reqs -> ReqRecords]
      BY <2>6, <3>1, <3>2, ZenonT(60) DEF ReqRecords
    <3> QED
      BY <1>3, <2>6, <3>1, <3>3 DEF Moved, KeepsInput, ReqRecords
  <2> QED
    BY <1>7, <2>1, <2>2, <2>4, <2>5, <2>7
<1>9. CASE /\ req[r].phase = "media"
           /\ files' = [files EXCEPT ![req[r].file].full = TRUE]
           /\ Goto(r, "record")
  <2>1. /\ Moved(r) /\ KeepsInput(r) /\ KeepsPlace(r)
        /\ req'[r].phase = "record" /\ req'[r].code = 0
    BY <1>1, <1>3, <1>9, GotoMoves DEF Phases
  <2>2. req[r].file \in 1..Len(files)
    BY <1>1, <1>9 DEF FileOk
  <2>3. orderly => files[req[r].file].parent = req[r].folder
    BY <1>1, <1>3, <1>9 DEF UploadOk
  <2>4. PICK k \in 1..Len(files) : k = req[r].file
    BY <2>2
  <2>5. PICK e : e = [files[k] EXCEPT !.full = TRUE]
    OBVIOUS
  <2>6. files[k] \in F
    <3> HIDE DEF F
    <3> QED
      BY <1>5
  <2>7. e \in F /\ e.parent = files[k].parent /\ e.full = TRUE
    BY <2>5, <2>6
  <2>8. files' = [files EXCEPT ![k] = e]
    BY <1>9, <2>4, <2>5
  <2>9. files[k].parent \in 1..Len(folders)
    BY <2>6
  <2> HIDE DEF F
  <2>10. /\ files' \in Seq(F) /\ Len(files') = Len(files) /\ files'[k] = e
         /\ \A i \in 1..Len(files) : i # k => files'[i] = files[i]
    BY <1>5, <2>7, <2>8
  <2>11. Grows
    BY <1>2, <1>5, <2>7, <2>10 DEF Grows
  <2> QED
    BY <1>5, <1>7, <2>1, <2>3, <2>4, <2>7, <2>9, <2>10, <2>11 DEF KeepsPlace
<1> QED
  BY <1>8, <1>9 DEF put, At

\* The recording seam.
LEMMA RecordingIInv ==
    ASSUME ConstantsFit, IntakeInv, NEW r \in Reqs, UNCHANGED <<demo, orderly>>,
           RecordingFiles(r)
    PROVE  IntakeInv'
<1>1. /\ IntakeTypeOK /\ PhaseOk(req[r]) /\ FileOk(req[r])
      /\ orderly => UploadOk(req[r])
  BY DEF IntakeInv, UploadInv
<1>2. /\ req[r].phase \in Putting /\ demo' = demo /\ orderly' = orderly
      /\ txns' = txns /\ docs' = docs /\ folders' = folders /\ files' = files
  BY DEF RecordingFiles, At, drive, Putting
<1>3. /\ req[r].op = "upload" /\ req[r].txn \in Ids
      /\ req[r].milestone \in Maybe(Ids) /\ req[r].code = 0
      /\ req[r].phase \notin {"idle", "done", "lost"}
  BY <1>1, <1>2 DEF PhaseOk, Putting
<1>4. /\ ~demo => txns[req[r].txn] # None
      /\ req[r].milestone \in {None, req[r].txn}
  BY <1>1, <1>2 DEF FileOk, Filed
<1>5. CASE /\ req[r].phase = "record" /\ ledger' = ledger \cup {req[r].file}
           /\ Goto(r, "persist")
  <2>1. /\ Moved(r) /\ KeepsInput(r) /\ KeepsPlace(r)
        /\ req'[r].phase = "persist" /\ req'[r].code = 0
    BY <1>1, <1>3, <1>5, GotoMoves DEF Phases
  <2>2. req[r].file \in 1..Len(files) /\ files[req[r].file].full
    BY <1>1, <1>3, <1>5 DEF FileOk
  <2>3. ledger \subseteq 1..Len(files) /\ Len(files) \in Nat /\ Len(folders) \in Nat
    BY <1>1 DEF IntakeTypeOK
  <2>4. ledger \subseteq ledger' /\ ledger' \subseteq 1..Len(files) /\ req[r].file \in ledger'
    BY <1>5, <2>2, <2>3
  <2>5. IntakeTypeOK'
    BY <1>1, <1>2, <2>1, <2>4 DEF IntakeTypeOK, Moved
  <2>6. Grows
    BY <1>2, <2>3, <2>4 DEF Grows
  <2>7. PhaseOk(req[r])' /\ OpenOk(req[r])'
    BY <1>3, <2>1 DEF KeepsInput, PhaseOk, FileOk, OpenOk,
       UploadOk, Opening, Putting, Filed, Seeding
  <2>8. FileOk(req[r])'
    BY <1>2, <1>3, <1>4, <2>1, <2>2, <2>4 DEF KeepsInput, PhaseOk, FileOk, OpenOk,
       UploadOk, Opening, Putting, Filed, Seeding, KeepsPlace
  <2>9. orderly => UploadOk(req[r])'
    <3>1. orderly => /\ IsOldest(req[r].folder, req[r].name)
                     /\ files[req[r].file].parent = req[r].folder
      BY <1>1, <1>3, <1>5 DEF UploadOk
    <3> QED
      BY <1>2, <1>3, <2>1, <2>2, <3>1 DEF KeepsInput, KeepsPlace, UploadOk, IsOldest
  <2>10. req'[r].op = "upload"
    BY <1>3, <2>1 DEF KeepsInput
  <2> QED
    BY <1>2, <1>3, <2>1, <2>5, <2>6, <2>7, <2>8, <2>9, <2>10, RequestMoves DEF Moved
<1>6. CASE Reply(r, 500) /\ UNCHANGED ledger
  <2>1. /\ Moved(r) /\ KeepsInput(r) /\ req'[r].phase = "done" /\ req'[r].code = 500
    BY <1>1, <1>6, ReplyMoves DEF Codes
  <2>2. /\ PhaseOk(req[r])' /\ FileOk(req[r])'
        /\ OpenOk(req[r])' /\ UploadOk(req[r])'
    BY <1>3, <2>1 DEF KeepsInput, PhaseOk, FileOk, OpenOk,
       UploadOk, Opening, Putting, Filed, Seeding
  <2>3. UNCHANGED World
    BY <1>2, <1>6 DEF World
  <2> QED
    BY <1>3, <2>1, <2>2, <2>3, QuietMove
<1> QED
  BY <1>5, <1>6 DEF RecordingFiles, At

\* The office's folder: it comes last, and so is the oldest of its name to nobody who
\* has found one; who found none is an upload, and there is none.
LEMMA StaffFolderIInv ==
    ASSUME ConstantsFit, IntakeInv, UNCHANGED <<demo, orderly>>,
           NEW name \in Named, StaffFolder(name)
    PROVE  IntakeInv'
<1> USE DEF IntakeInv
<1>1. /\ folders' = Append(folders, name)
      /\ orderly => ~Uploading
      /\ demo' = demo /\ orderly' = orderly /\ txns' = txns /\ docs' = docs /\ files' = files
      /\ ledger' = ledger /\ req' = req
  BY DEF StaffFolder
<1>2. /\ folders \in Seq(Ids) /\ Len(folders) \in Nat /\ Len(files) \in Nat
      /\ name \in Ids /\ req \in [Reqs -> ReqRecords]
  BY DEF IntakeTypeOK, ConstantsFit
<1>3. /\ folders' \in Seq(Ids) /\ Len(folders') = Len(folders) + 1
      /\ \A i \in 1..Len(folders) : folders'[i] = folders[i]
  BY <1>1, <1>2
<1>4. Grows
  BY <1>1, <1>2, <1>3 DEF Grows
<1>5. IntakeTypeOK'
  <2>1. files' \in Seq([parent : 1..Len(folders), full : BOOLEAN])
    BY <1>1 DEF IntakeTypeOK
  <2>2. Len(folders') \in Nat /\ Len(folders) <= Len(folders')
    BY <1>2, <1>3
  <2>3. files' \in Seq([parent : 1..Len(folders'), full : BOOLEAN])
    BY <1>2, <2>1, <2>2, FilesStillIn
  <2> QED
    BY <1>1, <1>3, <2>3 DEF IntakeTypeOK
<1>6. ASSUME NEW s \in Reqs
      PROVE  /\ PhaseOk(req[s])' /\ FileOk(req[s])'
             /\ ~demo => OpenOk(req[s])'
             /\ orderly => UploadOk(req[s])'
  <2>1. PICK q \in ReqRecords : q = req[s] /\ q = req'[s]
    BY <1>1, <1>2
  <2>2. /\ PhaseOk(q) /\ FileOk(q)
        /\ ~demo => OpenOk(q)
        /\ orderly => UploadOk(q)
    BY <2>1 DEF OpenInv, UploadInv
  <2>3. orderly => ~(q.op = "upload" /\ q.phase = "mkdir")
    BY <1>1, <2>1 DEF Uploading, InFlight
  <2>4. /\ PhaseOk(q)' /\ FileOk(q)'
        /\ ~demo => OpenOk(q)'
        /\ orderly => UploadOk(q)'
    BY <1>4, <1>5, <2>2, <2>3, GrowsRequest
  <2> QED
    BY <2>1, <2>4
<1>7. OpenInv'
  <2>1. OneCreator => OneCreator'
    BY <1>1 DEF OneCreator, Creators
  <2> QED
    BY <1>1, <1>6, <2>1 DEF OpenInv
<1>8. UploadInv'
  <2>1. Alone => Alone'
    BY <1>1 DEF Alone, InFlight
  <2> QED
    BY <1>1, <1>6, <2>1 DEF UploadInv
<1>9. DocumentsAreBacked'
  <2>1. \A d \in docs : Backed(d)
    BY BackedDef
  <2>2. ASSUME NEW d \in docs PROVE Backed(d)'
    BY <1>4, <1>5, <2>1, GrowsDocument
  <2>3. (\A d \in docs : Backed(d))'
    BY <1>1, <2>2
  <2> QED
    BY <2>3, BackedDef, PTL
<1> QED
  BY <1>5, <1>6, <1>7, <1>8, <1>9

\* The demo's seed and reset, which exist only where the demo routes are mounted.
LEMMA SeedIInv ==
    ASSUME ConstantsFit, IntakeInv, NEW r \in Reqs, UNCHANGED <<demo, orderly>>,
           seed_demo_data(r) \/ clear(r) \/ demo_transactions(r)
    PROVE  IntakeInv'
<1>1. IntakeTypeOK /\ PhaseOk(req[r])
  BY DEF IntakeInv
<1>2. /\ req[r].phase \in Seeding /\ demo' = demo /\ orderly' = orderly
      /\ docs' = docs /\ folders' = folders /\ files' = files /\ ledger' = ledger
  BY DEF seed_demo_data, clear, demo_transactions, At,
     drive, Seeding
<1>3. /\ req[r].op = "seed" /\ demo /\ req[r].left # <<>> /\ req[r].code = 0
      /\ req[r].phase \notin {"idle", "done", "lost"}
  BY <1>1, <1>2 DEF PhaseOk, Seeding
<1>4. Len(files) \in Nat /\ Len(folders) \in Nat
  BY <1>1 DEF IntakeTypeOK
<1>5. ASSUME txns' \in [Ids -> Terms \cup {"demo", None}], Moved(r),
             req'[r].op = "seed", req'[r].left # <<>>,
             \/ req'[r].phase \in Seeding /\ req'[r].code = 0
             \/ req'[r].phase = "done"
      PROVE  IntakeInv'
  <2>1. IntakeTypeOK'
    BY <1>1, <1>2, <1>5 DEF IntakeTypeOK, Moved
  <2>2. Grows
    BY <1>2, <1>3, <1>4 DEF Grows
  <2>3. /\ PhaseOk(req[r])' /\ FileOk(req[r])'
        /\ OpenOk(req[r])' /\ UploadOk(req[r])'
    BY <1>2, <1>3, <1>5 DEF KeepsInput, PhaseOk, FileOk, OpenOk,
       UploadOk, Opening, Putting, Filed, Seeding
  <2> QED
    BY <1>2, <1>3, <1>5, <2>1, <2>2, <2>3, RequestMoves DEF Moved
<1>6. txns \in [Ids -> Terms \cup {"demo", None}]
  BY <1>1 DEF IntakeTypeOK
<1>7. ASSUME txns' \in [Ids -> Terms \cup {"demo", None}], NEW p \in {"clear", "plant"},
             Goto(r, p)
      PROVE  IntakeInv'
  <2>1. Moved(r) /\ KeepsInput(r) /\ req'[r].phase = p /\ req'[r].code = req[r].code
    BY <1>1, <1>7, GotoMoves DEF Phases
  <2> QED
    BY <1>3, <1>5, <1>7, <2>1 DEF KeepsInput, Seeding
<1>8. ASSUME txns' \in [Ids -> Terms \cup {"demo", None}], NEW c \in {200, 500},
             Reply(r, c)
      PROVE  IntakeInv'
  <2>1. Moved(r) /\ KeepsInput(r) /\ req'[r].phase = "done"
    BY <1>1, <1>8, ReplyMoves DEF Codes
  <2> QED
    BY <1>3, <1>5, <1>8, <2>1 DEF KeepsInput
<1>9. CASE seed_demo_data(r)
  <2>1. txns' = txns /\ (\/ Goto(r, "clear") \/ Reply(r, 200)
                         \/ Goto(r, "plant"))
    BY <1>9 DEF seed_demo_data
  <2> QED
    BY <1>6, <1>7, <1>8, <2>1
<1>10. CASE clear(r)
  <2>1. txns' = [t \in Ids |-> None] /\ Goto(r, "plant")
    BY <1>10 DEF clear
  <2>2. txns' \in [Ids -> Terms \cup {"demo", None}]
    BY <2>1
  <2> QED
    BY <1>7, <2>1, <2>2
<1>11. CASE demo_transactions(r)
  <2> DEFINE t == Head(req[r].left)
             rest == Tail(req[r].left)
  <2>1. req \in [Reqs -> ReqRecords] /\ req[r].left \in Seq(Ids)
    BY <1>1 DEF IntakeTypeOK, ReqRecords
  <2>2. /\ t \in Ids /\ rest \in Seq(Ids)
        /\ Len(req[r].left) # 1 => rest # <<>>
    <3>1. PICK q \in Seq(Ids) : q = req[r].left /\ q # <<>>
      BY <1>3, <2>1
    <3>2. Head(q) \in Ids /\ Tail(q) \in Seq(Ids)
      BY <3>1
    <3>3. Len(q) # 1 => Tail(q) # <<>>
      <4>1. Len(Tail(q)) = Len(q) - 1 /\ Len(q) \in Nat
        BY <3>1
      <4>2. ASSUME Tail(q) = <<>> PROVE Len(q) - 1 = 0
        <5>1. Len(Tail(q)) = 0
          BY <4>2, EmptySeq
        <5> QED
          BY <4>1, <5>1
      <4> QED
        BY <4>1, <4>2
    <3> QED
      BY <3>1, <3>2, <3>3
  <2>3. \/ txns' = txns /\ Reply(r, 500)
        \/ txns' = [txns EXCEPT ![t] = "demo"] /\ Reply(r, 200)
        \/ /\ txns' = [txns EXCEPT ![t] = "demo"] /\ Len(req[r].left) # 1
           /\ req' = [req EXCEPT ![r].left = rest]
    BY <1>11, <2>1 DEF demo_transactions
  <2> HIDE DEF t, rest
  <2>4. txns' \in [Ids -> Terms \cup {"demo", None}]
    BY <1>6, <2>2, <2>3
  <2>5. CASE Len(req[r].left) # 1 /\ req' = [req EXCEPT ![r].left = rest]
    <3>1. req' \in [Reqs -> ReqRecords]
      BY <2>1, <2>2, <2>5, ZenonT(60) DEF ReqRecords
    <3>2. /\ Moved(r) /\ req'[r].op = req[r].op /\ req'[r].left = rest
          /\ req'[r].phase = req[r].phase /\ req'[r].code = req[r].code
      BY <2>1, <2>5, <3>1 DEF Moved, ReqRecords
    <3> QED
      BY <1>2, <1>3, <1>5, <2>2, <2>4, <2>5, <3>2
  <2> QED
    BY <1>8, <2>3, <2>4, <2>5
<1> QED
  BY <1>9, <1>10, <1>11

\* A crash: whoever was in flight claims nothing any more.
LEMMA CrashIInv ==
    ASSUME ConstantsFit, IntakeInv, UNCHANGED <<demo, orderly>>, Crash
    PROVE  IntakeInv'
<1> USE DEF IntakeInv
<1>1. /\ UNCHANGED World
      /\ req' = [r \in Reqs |-> IF r \in InFlight THEN [req[r] EXCEPT !.phase = "lost"]
                                ELSE req[r]]
  BY DEF Crash, World, drive
<1>2. req \in [Reqs -> ReqRecords] /\ "lost" \in Phases
  BY DEF IntakeTypeOK, Phases
<1>3. ASSUME NEW s \in Reqs
      PROVE  /\ req'[s] \in ReqRecords
             /\ \/ s \notin InFlight /\ req'[s] = req[s]
                \/ s \in InFlight /\ req'[s].phase = "lost"
             /\ req'[s].op = req[s].op /\ req'[s].txn = req[s].txn
             /\ req'[s].terms = req[s].terms /\ req'[s].milestone = req[s].milestone
             /\ req'[s].code = req[s].code
  <2>1. req[s] \in ReqRecords
    BY <1>2
  <2>2. CASE s \in InFlight
    <3>1. req'[s] = [req[s] EXCEPT !.phase = "lost"]
      BY <1>1, <2>2
    <3> QED
      BY <1>2, <2>1, <2>2, <3>1 DEF ReqRecords
  <2>3. CASE s \notin InFlight
    BY <1>1, <2>1, <2>3
  <2> QED
    BY <2>2, <2>3
<1>4. req' \in [Reqs -> ReqRecords]
  BY <1>1, <1>3
<1>5. IntakeTypeOK' /\ Grows
  BY <1>1, <1>4, WorldStays
<1>6. /\ demo' = demo /\ orderly' = orderly /\ txns' = txns /\ docs' = docs
      /\ folders' = folders /\ files' = files /\ ledger' = ledger
  BY <1>1 DEF World
<1>7. ASSUME NEW s \in Reqs
      PROVE  /\ PhaseOk(req[s])' /\ FileOk(req[s])'
             /\ ~demo => OpenOk(req[s])'
             /\ orderly => UploadOk(req[s])'
  <2>1. /\ PhaseOk(req[s]) /\ FileOk(req[s])
        /\ ~demo => OpenOk(req[s])
        /\ orderly => UploadOk(req[s])
    BY DEF OpenInv, UploadInv
  <2>2. CASE s \notin InFlight
    <3>1. PICK q \in ReqRecords : q = req[s] /\ q = req'[s]
      BY <1>2, <1>3, <2>2
    <3>2. /\ PhaseOk(q)' /\ FileOk(q)'
          /\ ~demo => OpenOk(q)'
          /\ orderly => UploadOk(q)'
      BY <1>5, <1>6, <2>1, <3>1, GrowsRequest
    <3> QED
      BY <3>1, <3>2
  <2>3. CASE s \in InFlight
    <3>1. req[s].phase \notin {"idle", "done", "lost"}
      BY <2>3 DEF InFlight
    <3>2. req'[s].phase = "lost"
      BY <1>3, <2>3
    <3>3. PhaseOk(req[s])' /\ FileOk(req[s])'
      BY <1>3, <2>1, <3>2 DEF PhaseOk, FileOk, Opening, Putting,
         Filed, Seeding
    <3>4. ~demo => OpenOk(req[s])'
      BY <1>3, <1>6, <2>1, <3>2 DEF OpenOk
    <3>5. req[s].op = "upload" => req[s].code = 0
      BY <2>1, <3>1 DEF PhaseOk, Opening
    <3>6. UploadOk(req[s])'
      BY <1>3, <3>2, <3>5 DEF UploadOk
    <3> QED
      BY <3>3, <3>4, <3>6
  <2> QED
    BY <2>2, <2>3
<1>8. OpenInv'
  <2>1. OneCreator => OneCreator'
    BY <1>3 DEF OneCreator, Creators
  <2> QED
    BY <1>6, <1>7, <2>1 DEF OpenInv
<1>9. UploadInv'
  <2>1. Alone'
    <3>1. \A s \in Reqs : req'[s].phase \in {"idle", "done", "lost"}
      BY <1>3 DEF InFlight
    <3> QED
      BY <3>1 DEF Alone, InFlight
  <2> QED
    BY <1>6, <1>7, <2>1 DEF UploadInv
<1>10. DocumentsAreBacked'
  BY <1>6 DEF DocumentsAreBacked, Exists
<1> QED
  BY <1>5, <1>7, <1>8, <1>9, <1>10

\* A request that comes in has claimed nothing yet.
LEMMA RequestIInv ==
    ASSUME ConstantsFit, IntakeInv, NEW r \in Reqs, UNCHANGED <<demo, orderly>>,
           NEW new \in ReqRecords, Request(r, new),
           \/ /\ new.op = "open" /\ new.phase = "open"
              /\ new.txn \in Ids /\ new.terms \in Terms
           \/ /\ new.op \in {"attach", "upload"} /\ new.phase = "require"
              /\ new.txn \in Ids /\ new.milestone \in Maybe(Ids)
           \/ new.op = "seed" /\ new.phase = "seed" /\ demo /\ new.left # <<>>,
           new.op = "upload" /\ orderly => ~Uploading,
           new.code = 0
    PROVE  IntakeInv'
<1>1. IntakeTypeOK
  BY DEF IntakeInv
<1>2. UNCHANGED World /\ req' = [req EXCEPT ![r] = new]
  BY DEF Request, World, drive
<1>3. Moved(r) /\ req'[r] = new
  BY <1>1, <1>2 DEF IntakeTypeOK, Moved
<1>4. IntakeTypeOK' /\ Grows
  BY <1>1, <1>2, <1>3, WorldStays DEF Moved
<1>5. demo' = demo /\ folders' = folders /\ docs' = docs
  BY <1>2 DEF World
<1>6. PhaseOk(new)' /\ FileOk(new)' /\ OpenOk(new)' /\ UploadOk(new)'
  BY <1>5 DEF PhaseOk, FileOk, OpenOk, UploadOk, Opening,
     Putting, Filed, Seeding
<1>7. /\ PhaseOk(req[r])' /\ FileOk(req[r])'
        /\ OpenOk(req[r])' /\ UploadOk(req[r])'
  BY <1>3, <1>6
<1> QED
  BY <1>3, <1>4, <1>5, <1>7, RequestMoves DEF Moved

LEMMA RequestsIInv ==
    ASSUME ConstantsFit, IntakeInv, NEW r \in Reqs, UNCHANGED <<demo, orderly>>,
           Requests(r)
    PROVE  IntakeInv'
<1>1. IntakeTypeOK
  BY DEF IntakeInv
<1>2. /\ NewReq \in ReqRecords /\ NewReq.code = 0
  BY DEF NewReq, ReqRecords, Ops, Phases, Codes, Maybe
<1>3. ASSUME NEW l \in Listings, NEW terms \in Terms,
             Request(r, [NewReq EXCEPT !.op = "open", !.phase = "open",
                                                     !.txn = l, !.terms = terms])
      PROVE  IntakeInv'
  <2>1. PICK new : new = [NewReq EXCEPT !.op = "open", !.phase = "open",
                                               !.txn = l, !.terms = terms]
    OBVIOUS
  <2>2. /\ l \in Ids /\ l \in Maybe(Ids) /\ terms \in Maybe(Terms)
        /\ "open" \in Ops /\ "open" \in Phases
    BY <1>3 DEF Ids, Maybe, Ops, Phases
  <2>3. /\ new \in ReqRecords /\ new.op = "open" /\ new.phase = "open" /\ new.txn = l
        /\ new.terms = terms /\ new.code = 0
    BY <1>2, <2>1, <2>2 DEF ReqRecords
  <2> QED
    BY <1>3, <2>1, <2>2, <2>3, RequestIInv
<1>4. ASSUME NEW t \in Ids, NEW m \in Maybe(Ids),
             NEW f \in 1..(Len(files) + 1),
             Request(r, [NewReq EXCEPT !.op = "attach", !.phase = "require",
                                  !.txn = t, !.milestone = m, !.file = f])
      PROVE  IntakeInv'
  <2>1. PICK new : new = [NewReq EXCEPT !.op = "attach", !.phase = "require",
                                               !.txn = t, !.milestone = m, !.file = f]
    OBVIOUS
  <2>2. Len(files) \in Nat
    BY <1>1 DEF IntakeTypeOK
  <2>3. /\ t \in Maybe(Ids) /\ f \in Nat
        /\ "attach" \in Ops /\ "require" \in Phases
    BY <1>4, <2>2 DEF Maybe, Ops, Phases
  <2>4. /\ new \in ReqRecords /\ new.op = "attach" /\ new.phase = "require" /\ new.txn = t
        /\ new.milestone = m /\ new.code = 0
    BY <1>2, <1>4, <2>1, <2>3 DEF ReqRecords
  <2> QED
    BY <1>4, <2>1, <2>4, RequestIInv
<1>5. ASSUME NEW t \in Ids, NEW m \in Maybe(Ids),
             NEW folder \in Maybe(Named),
             orderly => ~Uploading,
             Request(r, [NewReq EXCEPT !.op = "upload", !.phase = "require",
                                  !.txn = t, !.milestone = m, !.name = folder])
      PROVE  IntakeInv'
  <2>1. PICK new : new = [NewReq EXCEPT !.op = "upload", !.phase = "require",
                                               !.txn = t, !.milestone = m, !.name = folder]
    OBVIOUS
  <2>2. /\ t \in Maybe(Ids) /\ folder \in Maybe(Ids)
        /\ "upload" \in Ops /\ "require" \in Phases
    BY <1>5 DEF Maybe, Ops, Phases, ConstantsFit
  <2>3. /\ new \in ReqRecords /\ new.op = "upload" /\ new.phase = "require" /\ new.txn = t
        /\ new.milestone = m /\ new.code = 0
    BY <1>2, <1>5, <2>1, <2>2 DEF ReqRecords
  <2> QED
    BY <1>5, <2>1, <2>3, RequestIInv
<1>6. ASSUME NEW reset \in BOOLEAN, demo,
             Request(r, [NewReq EXCEPT !.op = "seed", !.phase = "seed",
                                  !.reset = reset, !.left = DemoTxns])
      PROVE  IntakeInv'
  <2>1. PICK new : new = [NewReq EXCEPT !.op = "seed", !.phase = "seed",
                                               !.reset = reset, !.left = DemoTxns]
    OBVIOUS
  <2>2. /\ DemoTxns \in Seq(Ids) /\ DemoTxns # <<>>
        /\ "seed" \in Ops /\ "seed" \in Phases
    BY DEF Ops, Phases, ConstantsFit
  <2>3. /\ new \in ReqRecords /\ new.op = "seed" /\ new.phase = "seed"
        /\ new.left = DemoTxns /\ new.code = 0
    BY <1>2, <1>6, <2>1, <2>2 DEF ReqRecords
  <2> QED
    BY <1>6, <2>1, <2>2, <2>3, RequestIInv
<1> QED
  BY <1>3, <1>4, <1>5, <1>6 DEF Requests

LEMMA FilingInit == ASSUME ConstantsFit, IntakeInit PROVE IntakeInv
<1>1. /\ demo \in BOOLEAN /\ orderly \in BOOLEAN
  BY DEF IntakeInit, ConstantsFit
<1>2. /\ txns \in [Ids -> Terms \cup {"demo", None}] /\ docs = {} /\ ledger = {}
      /\ req = [r \in Reqs |-> NewReq]
  BY DEF IntakeInit
<1>3. NewReq \in ReqRecords
  BY DEF NewReq, ReqRecords, Ops, Phases, Codes, Maybe
<1>4. folders \in Seq(Ids) /\ files \in Seq([parent : 1..Len(folders), full : BOOLEAN])
  <2>1. CASE folders = <<>> /\ files = <<>>
    BY <2>1
  <2>2. CASE \E l \in Listings : folders = <<l>> /\ files = <<[parent |-> 1, full |-> TRUE]>>
    <3>1. PICK l \in Listings : folders = <<l>> /\ files = <<[parent |-> 1, full |-> TRUE]>>
      BY <2>2
    <3>2. l \in Ids
      BY DEF Ids
    <3>3. folders \in Seq(Ids) /\ Len(folders) = 1
      BY <3>1, <3>2
    <3>4. [parent |-> 1, full |-> TRUE] \in [parent : 1..1, full : BOOLEAN]
      OBVIOUS
    <3>5. files \in Seq([parent : 1..1, full : BOOLEAN])
      BY <3>1, <3>4
    <3> QED
      BY <3>3, <3>5
  <2> QED
    BY <2>1, <2>2 DEF IntakeInit
<1>5. IntakeTypeOK
  BY <1>1, <1>2, <1>3, <1>4 DEF IntakeTypeOK
<1>6. ASSUME NEW r \in Reqs
      PROVE  /\ PhaseOk(req[r]) /\ FileOk(req[r]) /\ OpenOk(req[r])
             /\ UploadOk(req[r])
  <2>1. req[r].op = "none" /\ req[r].phase = "idle" /\ req[r].code = 0
    BY <1>2 DEF NewReq
  <2> QED
    BY <2>1 DEF PhaseOk, FileOk, OpenOk, UploadOk, Opening,
       Putting, Filed, Seeding
<1>7. OneCreator /\ Alone
  BY <1>2 DEF OneCreator, Creators, Alone, InFlight, NewReq
<1>8. DocumentsAreBacked
  BY <1>2 DEF DocumentsAreBacked
<1> QED
  BY <1>5, <1>6, <1>7, <1>8 DEF IntakeInv, OpenInv, UploadInv

LEMMA FilingStutters == ASSUME IntakeInv, UNCHANGED intake_vars PROVE IntakeInv'
<1> USE DEF intake_vars
<1>1. IntakeTypeOK' /\ DocumentsAreBacked'
  BY DEF IntakeInv, IntakeTypeOK, DocumentsAreBacked, Exists
<1>2. \A r \in Reqs : PhaseOk(req[r])' /\ FileOk(req[r])'
  BY DEF IntakeInv, PhaseOk, FileOk
<1>3. OpenInv'
  BY DEF IntakeInv, OpenInv, OneCreator, Creators, OpenOk
<1>4. UploadInv'
  BY DEF IntakeInv, UploadInv, Alone, InFlight, UploadOk,
     IsOldest
<1> QED
  BY <1>1, <1>2, <1>3, <1>4 DEF IntakeInv

LEMMA FilingNext ==
    ASSUME ConstantsFit, IntakeInv, [IntakeNext]_intake_vars
    PROVE  IntakeInv'
<1>1. CASE UNCHANGED intake_vars
  BY <1>1, FilingStutters
<1>2. CASE IntakeNext
  <2>1. UNCHANGED <<demo, orderly>>
    BY <1>2 DEF IntakeNext
  <2>2. ASSUME NEW r \in Reqs, Requests(r) PROVE IntakeInv'
    BY <2>1, <2>2, RequestsIInv
  <2>3. ASSUME NEW r \in Reqs, Step(r) PROVE IntakeInv'
    BY <2>1, <2>3, OpenTransactionIInv, CreateTransactionIInv, DetailIInv,
       RequireTransactionIInv, ValidateMilestoneIInv, AttachDocumentIInv, PersistIInv,
       UploadDocumentIInv, CreateFolderIInv, PutIInv, RecordingIInv, SeedIInv
       DEF Step
  <2>4. ASSUME NEW name \in Named, StaffFolder(name) PROVE IntakeInv'
    BY <2>1, <2>4, StaffFolderIInv
  <2>5. CASE Crash
    BY <2>1, <2>5, CrashIInv
  <2> QED
    BY <1>2, <2>2, <2>3, <2>4, <2>5 DEF IntakeNext
<1> QED
  BY <1>1, <1>2

\* The invariant holds of every behaviour of the handlers, for any listings, terms,
\* requests, page size and demo dataset.
THEOREM IntakeInvariant == IntakeSpec => []IntakeInv
<1>1. IntakeInit => IntakeInv
  BY IntakeAssumptions, FilingInit
<1>2. IntakeInv /\ [IntakeNext]_intake_vars => IntakeInv'
  BY IntakeAssumptions, FilingNext
<1> QED
  BY <1>1, <1>2, PTL DEF IntakeSpec

\* POST /transactions: however many opens of one listing overlap and in whatever order
\* their reads and inserts fall, the answers agree with the one stored row.
THEOREM OpenAnswersHonestlyCorrect == IntakeSpec => []OpenAnswersHonestly
<1>1. ASSUME IntakeInv PROVE OpenAnswersHonestly
  <2> SUFFICES ASSUME ~demo PROVE OpenAnswersHonestly
    BY DEF OpenAnswersHonestly
  <2>1. OneCreator /\ \A r \in Reqs : OpenOk(req[r])
    BY <1>1 DEF IntakeInv, OpenInv
  <2>2. ASSUME NEW r \in Answered("open", 201) \cup Answered("open", 200)
        PROVE  _same_terms(r) /\ req[r].shown
    BY <2>1 DEF Answered, At, OpenOk, _same_terms
  <2>3. ASSUME NEW r \in Answered("open", 201), NEW q \in Answered("open", 201),
               req[r].txn = req[q].txn
        PROVE  r = q
    BY <2>1, <2>3 DEF Answered, OneCreator, Creators
  <2>4. ASSUME NEW r \in Answered("open", 409)
        PROVE  Exists(req[r].txn) /\ ~_same_terms(r)
    BY <2>1 DEF Answered, OpenOk, _same_terms, Exists
  <2>5. Answered("open", 500) = {}
    BY <2>1 DEF Answered, OpenOk
  <2> QED
    BY <2>2, <2>3, <2>4, <2>5 DEF OpenAnswersHonestly
<1> QED
  BY <1>1, IntakeInvariant, PTL

\* routes/documents.py: no interleaving, failed call to the drive or crash leaves a
\* document row whose file, milestone, transaction, bytes or ledger entry is missing.
THEOREM DocumentsAreBackedCorrect == IntakeSpec => []DocumentsAreBacked
<1>1. IntakeInv => DocumentsAreBacked
  BY DEF IntakeInv
<1> QED
  BY <1>1, IntakeInvariant, PTL

\* The Drive adapter: an upload that was answered 201 is among the files its folder
\* shows, for every page size: the folder it found or made is the oldest of its name
\* (FindsOldest), stays so (GrowsOldest), and browsing that name lists it (ListShows).
THEOREM UploadsAreListedCorrect == IntakeSpec => []UploadsAreListed
<1>1. ASSUME IntakeInv PROVE UploadsAreListed
  <2> SUFFICES ASSUME orderly, NEW r \in Answered("upload", 201)
               PROVE  req[r].file \in Range(list(req[r].name))
    BY DEF UploadsAreListed
  <2>1. r \in Reqs /\ req[r].op = "upload" /\ req[r].code = 201
    BY DEF Answered
  <2>2. UploadOk(req[r])
    BY <1>1, <2>1 DEF IntakeInv, UploadInv
  <2>3. /\ IsOldest(req[r].folder, req[r].name)
        /\ req[r].file \in 1..Len(files) /\ files[req[r].file].parent = req[r].folder
    BY <2>1, <2>2 DEF UploadOk
  <2>4. PICK S, P : folders \in Seq(S) /\ files \in Seq(P)
    BY <1>1 DEF IntakeInv, IntakeTypeOK
  <2>5. PageSize \in Nat \ {0}
    BY IntakeAssumptions DEF ConstantsFit
  <2> QED
    BY <2>3, <2>4, <2>5, ListShows
<1> QED
  BY <1>1, IntakeInvariant, PTL
=============================================================================
