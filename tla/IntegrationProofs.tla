-------------------------- MODULE IntegrationProofs ---------------------------
(***************************************************************************)
(* A key that was withdrawn lets nobody in, a minted token reaches what    *)
(* was asked for and still works, a candidate has one bead, and a receipt  *)
(* marked processed was projected: for every number of requests, askers,   *)
(* candidates and deliveries.                                              *)
(***************************************************************************)
EXTENDS AccessKeys, MintedTokens, Publishing, Deliveries,
        FiniteSetTheorems, SequenceTheorems, WellFoundedInduction, TLAPS

(***************************************************************************)
(* Signing keys.                                                           *)
(***************************************************************************)

LoginType == [step : {"new", "fetch", "answer", "verify", "user", "service", "refused"},
              token : Tokens, since : Nat, keys : SUBSET Keys, forced : BOOLEAN]

\* What is known of one request: it was not on the wire before its clock was read; the
\* keys on their way to it were published then or later, though perhaps no more; and
\* the keys it verifies with were published until less than a keyTTL before.
SoundLogin(q, now, last) ==
    /\ q.step = "fetch" => q.since <= now
    /\ q.step = "answer" => \A k \in q.keys : q.since <= last[k]
    /\ q.step = "verify" => \A k \in q.keys : q.since < last[k] + KeyTTL

KeysInv ==
    /\ instant \in Nat /\ published \subseteq Keys /\ withdrawn \in [Keys -> Nat]
    /\ cache.keys \subseteq Keys /\ cache.at \in Nat
    /\ \A k \in published : withdrawn[k] = instant
    /\ \A k \in Keys : withdrawn[k] <= instant
    /\ \A k \in cache.keys : cache.at <= withdrawn[k]
    /\ login \in [Logins -> LoginType]
    /\ \A r \in Logins : SoundLogin(login[r], instant, withdrawn)

\* A request that has ended keeps its answer alone.
LEMMA EndedKeepsTheAnswer ==
  ASSUME NEW answer \in {"user", "service", "refused"}
  PROVE  Ended(answer) \in LoginType /\ Ended(answer).step = answer
BY AccessAssumption DEF Ended, Arriving, LoginType

\* The initial state satisfies the invariant.
LEMMA KeysInit ==
  ASSUME AccessKeysInit
  PROVE  KeysInv
<1>1. Arriving \in LoginType /\ Arriving.step = "new"
  BY AccessAssumption DEF Arriving, LoginType
<1>2. 1 \in Keys
  BY AccessAssumption DEF Keys
<1> QED
  BY <1>1, <1>2 DEF AccessKeysInit, KeysInv, SoundLogin

\* One request goes on, and perhaps refills the cache.
LEMMA LoginGoesOn ==
  ASSUME KeysInv, NEW r \in Logins, NEW q \in LoginType, SoundLogin(q, instant, withdrawn),
         login' = [login EXCEPT ![r] = q], UNCHANGED << instant, published, withdrawn >>,
         cache'.keys \subseteq Keys, cache'.at \in Nat, \A k \in cache'.keys : cache'.at <= withdrawn[k]
  PROVE  KeysInv'
<1>1. login' \in [Logins -> LoginType]
  BY DEF KeysInv
<1>2. \A s \in Logins : SoundLogin(login'[s], instant, withdrawn)
  BY DEF KeysInv
<1> QED
  BY <1>1, <1>2 DEF KeysInv

\* Every step keeps the invariant.
LEMMA KeysStep ==
  ASSUME KeysInv, [AccessKeysNext]_accessVars
  PROVE  KeysInv'
<1>1. CASE Instant
  <2>1. instant' = instant + 1 /\ withdrawn' = [k \in Keys |-> IF k \in published THEN instant' ELSE withdrawn[k]]
    BY <1>1 DEF Instant
  <2>2. UNCHANGED << published, cache, login >>
    BY <1>1 DEF Instant
  <2>3. \A k \in Keys : withdrawn[k] <= withdrawn'[k] /\ withdrawn[k] \in Nat /\ withdrawn'[k] \in Nat /\ withdrawn'[k] <= instant'
    BY <2>1 DEF KeysInv
  <2>4. \A r \in Logins : SoundLogin(login'[r], instant', withdrawn')
    BY <2>1, <2>2, <2>3, AccessAssumption DEF KeysInv, SoundLogin, LoginType
  <2>5. /\ withdrawn' \in [Keys -> Nat] /\ \A k \in published : withdrawn'[k] = instant'
        /\ \A k \in cache.keys : cache.at <= withdrawn'[k]
    BY <2>1, <2>3 DEF KeysInv
  <2> QED
    BY <2>1, <2>2, <2>3, <2>4, <2>5 DEF KeysInv
<1>2. CASE Rotate
  <2>1. PICK kept \in SUBSET published, new \in Keys :
            /\ published' = kept \cup {new} /\ withdrawn' = [withdrawn EXCEPT ![new] = instant]
            /\ UNCHANGED << instant, cache, login >>
    BY <1>2 DEF Rotate
  <2>2. \A k \in Keys : withdrawn[k] <= withdrawn'[k] /\ withdrawn[k] \in Nat /\ withdrawn'[k] \in Nat /\ withdrawn'[k] <= instant
    BY <2>1 DEF KeysInv
  <2>3. \A r \in Logins : SoundLogin(login'[r], instant', withdrawn')
    BY <2>1, <2>2, AccessAssumption DEF KeysInv, SoundLogin, LoginType
  <2>4. /\ withdrawn' \in [Keys -> Nat] /\ \A k \in published' : withdrawn'[k] = instant
        /\ \A k \in cache.keys : cache.at <= withdrawn'[k]
    BY <2>1, <2>2 DEF KeysInv
  <2> QED
    BY <2>1, <2>2, <2>3, <2>4 DEF KeysInv
<1>3. ASSUME NEW r \in Logins, NEW t \in Tokens, Present(r, t)
      PROVE  KeysInv'
  <2>1. login[r] \in LoginType
    BY DEF KeysInv
  <2>2. CASE Fresh
    <3> DEFINE q == [login[r] EXCEPT !.step = "verify", !.token = t, !.since = instant, !.keys = cache.keys]
    <3>1. login' = [login EXCEPT ![r] = q] /\ UNCHANGED << instant, published, withdrawn, cache >>
      BY <1>3, <2>2 DEF Present
    <3>2. q \in LoginType /\ q.step = "verify" /\ q.since = instant /\ q.keys = cache.keys
      BY <2>1 DEF KeysInv, LoginType
    <3>3. SoundLogin(q, instant, withdrawn)
      BY <2>2, <3>2, AccessAssumption DEF KeysInv, SoundLogin, Fresh
    <3> HIDE DEF q
    <3> QED
      BY <3>1, <3>2, <3>3, LoginGoesOn DEF KeysInv
  <2>3. CASE ~Fresh
    <3> DEFINE q == [login[r] EXCEPT !.step = "fetch", !.token = t, !.since = instant]
    <3>1. login' = [login EXCEPT ![r] = q] /\ UNCHANGED << instant, published, withdrawn, cache >>
      BY <1>3, <2>3 DEF Present
    <3>2. q \in LoginType /\ q.step = "fetch" /\ q.since = instant
      BY <2>1 DEF KeysInv, LoginType
    <3>3. SoundLogin(q, instant, withdrawn)
      BY <3>2 DEF KeysInv, SoundLogin
    <3> HIDE DEF q
    <3> QED
      BY <3>1, <3>2, <3>3, LoginGoesOn DEF KeysInv
  <2> QED
    BY <2>2, <2>3
<1>4. ASSUME NEW r \in Logins, FetchFails(r)
      PROVE  KeysInv'
  <2>1. login' = [login EXCEPT ![r] = Ended("refused")] /\ UNCHANGED << instant, published, withdrawn, cache >>
    BY <1>4 DEF FetchFails
  <2>2. Ended("refused") \in LoginType /\ Ended("refused").step = "refused"
    BY EndedKeepsTheAnswer
  <2>3. SoundLogin(Ended("refused"), instant, withdrawn)
    BY <2>2 DEF SoundLogin
  <2> QED
    BY <2>1, <2>2, <2>3, LoginGoesOn DEF KeysInv
<1>5. ASSUME NEW r \in Logins, FetchAnswers(r)
      PROVE  KeysInv'
  <2> DEFINE q == [login[r] EXCEPT !.step = "answer", !.keys = published]
  <2>1. login' = [login EXCEPT ![r] = q] /\ UNCHANGED << instant, published, withdrawn, cache >>
    BY <1>5 DEF FetchAnswers
  <2>2. q \in LoginType /\ q.step = "answer" /\ q.since = login[r].since /\ q.keys = published
    BY DEF KeysInv, LoginType
  <2>3. login[r].since \in Nat /\ login[r].since <= instant
    BY <1>5 DEF KeysInv, SoundLogin, LoginType, FetchAnswers
  <2>4. SoundLogin(q, instant, withdrawn)
    BY <2>2, <2>3 DEF KeysInv, SoundLogin
  <2> HIDE DEF q
  <2> QED
    BY <2>1, <2>2, <2>4, LoginGoesOn DEF KeysInv
<1>9. ASSUME NEW r \in Logins, StoreKeys(r)
      PROVE  KeysInv'
  <2> DEFINE q == [login[r] EXCEPT !.step = "verify"]
  <2>1. /\ login' = [login EXCEPT ![r] = q] /\ UNCHANGED << instant, published, withdrawn >>
        /\ cache' = [keys |-> login[r].keys, at |-> login[r].since]
    BY <1>9 DEF StoreKeys
  <2>2. q \in LoginType /\ q.step = "verify" /\ q.since = login[r].since /\ q.keys = login[r].keys
    BY DEF KeysInv, LoginType
  <2>3. /\ login[r].since \in Nat /\ login[r].keys \subseteq Keys
        /\ \A k \in login[r].keys : login[r].since <= withdrawn[k]
    BY <1>9 DEF KeysInv, SoundLogin, LoginType, StoreKeys
  <2>4. \A k \in Keys : withdrawn[k] \in Nat
    BY DEF KeysInv
  <2>5. SoundLogin(q, instant, withdrawn)
    BY <2>2, <2>3, <2>4, AccessAssumption DEF SoundLogin
  <2> HIDE DEF q
  <2>6. cache'.keys \subseteq Keys /\ cache'.at \in Nat /\ \A k \in cache'.keys : cache'.at <= withdrawn[k]
    BY <2>1, <2>3
  <2> QED
    BY <2>1, <2>2, <2>5, <2>6, LoginGoesOn
<1>6. ASSUME NEW r \in Logins, Verify(r)
      PROVE  KeysInv'
  <2>1. login[r] \in LoginType /\ UNCHANGED << instant, published, withdrawn, cache >>
    BY <1>6 DEF KeysInv, Verify
  <2>2. PICK q \in LoginType : /\ login' = [login EXCEPT ![r] = q]
                               /\ q.step \in {"user", "service", "refused"} \/ (q.step = "fetch" /\ q.since = instant)
    <3>1. PICK p : /\ login' = [login EXCEPT ![r] = p]
                   /\ \/ p = [login[r] EXCEPT !.step = "fetch", !.since = instant, !.forced = TRUE]
                      \/ \E s \in {"user", "service", "refused"} : p = Ended(s)
      <4>1. IdentityOf(login[r].token) \in {"user", "service", "refused"}
        BY DEF IdentityOf
      <4>2. CASE login[r].token.key \notin login[r].keys
        BY <1>6, <2>1, <4>2 DEF Verify, LoginType
      <4>3. CASE /\ login[r].token.key \in login[r].keys
                 /\ login[r].token.audience \notin Audiences \/ instant > login[r].token.expires
        BY <1>6, <4>3 DEF Verify
      <4>4. CASE /\ login[r].token.key \in login[r].keys
                 /\ ~(login[r].token.audience \notin Audiences \/ instant > login[r].token.expires)
        BY <1>6, <4>1, <4>4 DEF Verify
      <4> QED
        BY <4>2, <4>3, <4>4
    <3>2. /\ p \in LoginType
          /\ p.step \in {"user", "service", "refused"} \/ (p.step = "fetch" /\ p.since = instant)
      <4>1. instant \in Nat
        BY DEF KeysInv
      <4>2. CASE p = [login[r] EXCEPT !.step = "fetch", !.since = instant, !.forced = TRUE]
        BY <2>1, <4>1, <4>2 DEF LoginType
      <4>3. ASSUME NEW s \in {"user", "service", "refused"}, p = Ended(s)
            PROVE  p \in LoginType /\ p.step \in {"user", "service", "refused"}
        BY <4>3, EndedKeepsTheAnswer
      <4> QED
        BY <3>1, <4>2, <4>3
    <3> QED
      BY <3>1, <3>2
  <2>3. SoundLogin(q, instant, withdrawn)
    BY <2>2 DEF SoundLogin, KeysInv
  <2> QED
    BY <2>1, <2>2, <2>3, LoginGoesOn DEF KeysInv
<1>7. ASSUME NEW r \in Logins, Another(r)
      PROVE  KeysInv'
  <2>1. login' = [login EXCEPT ![r] = Arriving] /\ UNCHANGED << instant, published, withdrawn, cache >>
    BY <1>7 DEF Another
  <2>2. Arriving \in LoginType /\ Arriving.step = "new"
    BY AccessAssumption DEF Arriving, LoginType
  <2>3. SoundLogin(Arriving, instant, withdrawn)
    BY <2>2 DEF SoundLogin
  <2> QED
    BY <2>1, <2>2, <2>3, LoginGoesOn DEF KeysInv
<1>8. CASE UNCHANGED accessVars
  BY <1>8 DEF KeysInv, accessVars
<1> QED
  BY <1>1, <1>2, <1>3, <1>4, <1>5, <1>6, <1>7, <1>8, <1>9 DEF AccessKeysNext

\* Nobody is let in on a key that was withdrawn a keyTTL before: Verify takes the keys the
\* request holds, and those are sound.
LEMMA KeyWasRecent ==
  ASSUME KeysInv, [AccessKeysNext]_accessVars
  PROVE  [\A r \in Logins : login[r].step = "verify" /\ login'[r].step \in {"user", "service"}
             => login[r].since < withdrawn[login[r].token.key] + KeyTTL]_accessVars
<1> SUFFICES ASSUME accessVars' # accessVars,
                    NEW r \in Logins, login[r].step = "verify", login'[r].step \in {"user", "service"}
             PROVE  login[r].since < withdrawn[login[r].token.key] + KeyTTL
  OBVIOUS
<1>0. AccessKeysNext /\ login[r] \in LoginType
  BY DEF KeysInv
<1>1. Verify(r)
  <2>1. ~Instant /\ ~Rotate
    BY DEF Instant, Rotate
  <2>2. \A s \in Logins : /\ ~ \E t \in Tokens : Present(s, t)
                          /\ ~FetchFails(s) /\ ~FetchAnswers(s) /\ ~StoreKeys(s) /\ ~Another(s)
    BY <1>0 DEF Present, FetchFails, FetchAnswers, StoreKeys, Another, KeysInv, LoginType
  <2>3. \A s \in Logins \ {r} : ~Verify(s)
    BY <1>0 DEF Verify, KeysInv, LoginType
  <2> QED
    BY <1>0, <2>1, <2>2, <2>3 DEF AccessKeysNext
<1>2. login[r].token.key \in login[r].keys
  BY <1>0, <1>1, EndedKeepsTheAnswer DEF Verify, KeysInv, LoginType
<1> QED
  BY <1>2 DEF KeysInv, SoundLogin

\* However requests, fetches and rotations interleave, no request is let in on a key that
\* had been withdrawn a keyTTL before its clock was read (Authenticate, keySet).
THEOREM KeyInvariant == AccessKeysSpec => AcceptedKeyIsRecent
<1>1. KeysInv /\ [AccessKeysNext]_accessVars => KeysInv'
  BY KeysStep
<1>2. AccessKeysInit => KeysInv
  BY KeysInit
<1>3. KeysInv /\ [AccessKeysNext]_accessVars
      => [\A r \in Logins : login[r].step = "verify" /\ login'[r].step \in {"user", "service"}
             => login[r].since < withdrawn[login[r].token.key] + KeyTTL]_accessVars
  BY KeyWasRecent
<1> QED
  BY <1>1, <1>2, <1>3, PTL DEF AccessKeysSpec, AcceptedKeyIsRecent

(***************************************************************************)
(* Minted tokens.                                                          *)
(***************************************************************************)

Scopes == SUBSET (Repositories \cup {Uncovered})
MintedToken == [scope : Scopes, expires : Int]
AskerType == [step : {"idle", "mint", "answered", "refused", "given"}, scope : Scopes, since : Nat, token : MintedToken]
CallerType == [step : {"idle", "mint", "minted", "given"}, since : Nat, token : Int]

\* An asker is on the wire no longer than the timeout, its answer lives at least TokenLife
\* from when it asked, and what it was given is what it asked for, and alive.
SoundAsker(q, now) ==
    /\ q.step \in {"mint", "answered"} => q.since <= now /\ now <= q.since + MintTimeout
    /\ q.step = "answered" => q.token.scope = q.scope /\ q.since + TokenLife <= q.token.expires
    /\ q.step = "given" => q.token.scope = q.scope /\ now < q.token.expires

SoundCaller(q, now) ==
    /\ q.step \in {"mint", "minted"} => q.since <= now /\ now <= q.since + MintTimeout
    /\ q.step = "minted" => q.since + TokenLife <= q.token
    /\ q.step = "given" => now < q.token

\* The shared cache holds a token for no repository in particular, and the delegated
\* token's reckoned expiry is later than its own by less than the margin.
MintedInv ==
    /\ moment \in Nat
    /\ installed \in MintedToken /\ installed.scope = Everything
    /\ asker \in [Askers -> AskerType] /\ \A a \in Askers : SoundAsker(asker[a], moment)
    /\ delegated \in [token : Int, expiry : Int]
    /\ delegated.token # -1 => delegated.expiry <= delegated.token + MintTimeout
    /\ caller \in [Callers -> CallerType] /\ \A c \in Callers : SoundCaller(caller[c], moment)

\* The initial state satisfies the invariant.
LEMMA MintedInit ==
  ASSUME MintedTokensInit
  PROVE  MintedInv
<1>1. NoToken \in MintedToken /\ NoToken.scope = Everything
  BY DEF NoToken, MintedToken, Scopes, Everything
<1>2. NoAsk \in AskerType /\ NoAsk.step = "idle"
  BY <1>1 DEF NoAsk, AskerType, Scopes, Everything
<1>3. NoCall \in CallerType /\ NoCall.step = "idle"
  BY DEF NoCall, CallerType
<1> QED
  BY <1>1, <1>2, <1>3 DEF MintedTokensInit, MintedInv, SoundAsker, SoundCaller

\* One asker goes on, and perhaps refills the cache.
LEMMA AskerGoesOn ==
  ASSUME MintedInv, NEW a \in Askers, NEW q \in AskerType, SoundAsker(q, moment),
         asker' = [asker EXCEPT ![a] = q], UNCHANGED << moment, delegated, caller >>,
         installed' = installed \/ (installed' \in MintedToken /\ installed'.scope = Everything)
  PROVE  MintedInv'
<1>1. asker' \in [Askers -> AskerType]
  BY DEF MintedInv
<1>2. \A b \in Askers : SoundAsker(asker'[b], moment)
  BY DEF MintedInv
<1> QED
  BY <1>1, <1>2 DEF MintedInv

\* One caller goes on, and perhaps refills its cache.
LEMMA CallerGoesOn ==
  ASSUME MintedInv, NEW c \in Callers, NEW q \in CallerType, SoundCaller(q, moment),
         caller' = [caller EXCEPT ![c] = q], UNCHANGED << moment, installed, asker >>,
         delegated' \in [token : Int, expiry : Int],
         delegated'.token # -1 => delegated'.expiry <= delegated'.token + MintTimeout
  PROVE  MintedInv'
<1>1. caller' \in [Callers -> CallerType]
  BY DEF MintedInv
<1>2. \A d \in Callers : SoundCaller(caller'[d], moment)
  BY DEF MintedInv
<1> QED
  BY <1>1, <1>2 DEF MintedInv

\* Asking serves from the cache only who asked for no repository in particular.
LEMMA AskStep ==
  ASSUME MintedInv, NEW a \in Askers, NEW scope \in Scopes, AskForToken(a, scope)
  PROVE  MintedInv'
<1>0. /\ moment \in Nat /\ installed \in MintedToken /\ installed.scope = Everything
      /\ UNCHANGED << moment, installed, delegated, caller >>
  BY DEF MintedInv, AskForToken
<1>1. CASE scope = Everything /\ ~Expired(installed)
  <2> DEFINE q == [step |-> "given", scope |-> scope, since |-> moment, token |-> installed]
  <2>1. asker' = [asker EXCEPT ![a] = q]
    BY <1>1 DEF AskForToken
  <2>2. q \in AskerType
    BY <1>0 DEF AskerType
  <2>3. moment < installed.expires
    BY <1>0, <1>1, MintedAssumption DEF Expired, MintedToken
  <2>4. SoundAsker(q, moment)
    BY <1>0, <1>1, <2>3 DEF SoundAsker
  <2> HIDE DEF q
  <2> QED
    BY <1>0, <2>1, <2>2, <2>4, AskerGoesOn
<1>2. CASE ~(scope = Everything /\ ~Expired(installed))
  <2> DEFINE q == [step |-> "mint", scope |-> scope, since |-> moment, token |-> NoToken]
  <2>1. asker' = [asker EXCEPT ![a] = q]
    BY <1>2 DEF AskForToken
  <2>2. q \in AskerType
    BY <1>0 DEF AskerType, NoToken, MintedToken, Scopes, Everything
  <2>3. SoundAsker(q, moment)
    BY <1>0, MintedAssumption DEF SoundAsker
  <2> HIDE DEF q
  <2> QED
    BY <1>0, <2>1, <2>2, <2>3, AskerGoesOn
<1> QED
  BY <1>1, <1>2

\* An answer carries the scope that was asked for, and lives from when it was minted.
LEMMA AnswerStep ==
  ASSUME MintedInv, NEW a \in Askers, GitHubMints(a) \/ MintFails(a) \/ Receives(a) \/ AskerDone(a)
  PROVE  MintedInv'
<1>0. asker[a] \in AskerType /\ SoundAsker(asker[a], moment) /\ moment \in Nat
  BY DEF MintedInv
<1>1. CASE GitHubMints(a)
  <2>0. /\ asker[a].step = "mint" /\ UNCHANGED << moment, installed, delegated, caller >>
        /\ asker' = [asker EXCEPT ![a] =
              IF Uncovered \in asker[a].scope THEN [asker[a] EXCEPT !.step = "refused"]
              ELSE [asker[a] EXCEPT !.step = "answered",
                                    !.token = [scope |-> asker[a].scope, expires |-> moment + TokenLife]]]
    BY <1>1 DEF GitHubMints
  <2>1. CASE Uncovered \in asker[a].scope
    <3> DEFINE q == [asker[a] EXCEPT !.step = "refused"]
    <3>1. asker' = [asker EXCEPT ![a] = q]
      BY <2>0, <2>1
    <3>2. q \in AskerType /\ q.step = "refused"
      BY <1>0 DEF AskerType
    <3>3. SoundAsker(q, moment)
      BY <3>2 DEF SoundAsker
    <3> HIDE DEF q
    <3> QED
      BY <2>0, <3>1, <3>2, <3>3, AskerGoesOn
  <2>2. CASE Uncovered \notin asker[a].scope
    <3> DEFINE t == [scope |-> asker[a].scope, expires |-> moment + TokenLife]
               q == [asker[a] EXCEPT !.step = "answered", !.token = t]
    <3>1. asker' = [asker EXCEPT ![a] = q]
      BY <2>0, <2>2
    <3>2. t \in MintedToken
      BY <1>0, MintedAssumption DEF AskerType, MintedToken
    <3>3. t.scope = asker[a].scope /\ t.expires = moment + TokenLife
      OBVIOUS
    <3> HIDE DEF t
    <3>4. q \in AskerType /\ q.step = "answered" /\ q.token = t /\ q.scope = asker[a].scope /\ q.since = asker[a].since
      BY <1>0, <3>2 DEF AskerType
    <3>5. asker[a].since \in Nat /\ asker[a].since <= moment /\ moment <= asker[a].since + MintTimeout
      BY <1>0, <2>0 DEF SoundAsker, AskerType
    <3>6. SoundAsker(q, moment)
      BY <1>0, <3>3, <3>4, <3>5, MintedAssumption DEF SoundAsker
    <3> HIDE DEF q
    <3> QED
      BY <2>0, <3>1, <3>4, <3>6, AskerGoesOn
  <2> QED
    BY <2>1, <2>2
<1>2. CASE MintFails(a)
  <2> DEFINE q == [asker[a] EXCEPT !.step = "refused", !.token = NoToken]
  <2>1. asker' = [asker EXCEPT ![a] = q] /\ UNCHANGED << moment, installed, delegated, caller >>
    BY <1>2 DEF MintFails
  <2>2. NoToken \in MintedToken
    BY DEF NoToken, MintedToken, Scopes, Everything
  <2>3. q \in AskerType /\ q.step = "refused"
    BY <1>0, <2>2 DEF AskerType
  <2>4. SoundAsker(q, moment)
    BY <2>3 DEF SoundAsker
  <2> HIDE DEF q
  <2> QED
    BY <2>1, <2>3, <2>4, AskerGoesOn
<1>3. CASE Receives(a)
  <2> DEFINE q == [step |-> "given", scope |-> asker[a].scope, since |-> asker[a].since, token |-> asker[a].token]
  <2>1. asker' = [asker EXCEPT ![a] = q] /\ UNCHANGED << moment, delegated, caller >> /\ asker[a].step = "answered"
    BY <1>3 DEF Receives, Gives
  <2>2. q \in AskerType
    BY <1>0 DEF AskerType
  <2>3. asker[a].token \in MintedToken /\ asker[a].since \in Nat /\ asker[a].token.expires \in Int
    BY <1>0 DEF AskerType, MintedToken
  <2>4. asker[a].token.scope = asker[a].scope /\ moment < asker[a].token.expires
    BY <1>0, <2>1, <2>3, MintedAssumption DEF SoundAsker
  <2>5. SoundAsker(q, moment)
    BY <2>4 DEF SoundAsker
  <2>6. installed' = installed \/ (installed' \in MintedToken /\ installed'.scope = Everything)
    BY <1>3, <2>3, <2>4 DEF Receives
  <2> HIDE DEF q
  <2> QED
    BY <2>1, <2>2, <2>5, <2>6, AskerGoesOn
<1>4. CASE AskerDone(a)
  <2>1. asker' = [asker EXCEPT ![a] = NoAsk] /\ UNCHANGED << moment, installed, delegated, caller >>
    BY <1>4 DEF AskerDone
  <2>2. NoAsk \in AskerType /\ NoAsk.step = "idle"
    BY DEF NoAsk, AskerType, NoToken, MintedToken, Scopes, Everything
  <2>3. SoundAsker(NoAsk, moment)
    BY <2>2 DEF SoundAsker
  <2> QED
    BY <2>1, <2>2, <2>3, AskerGoesOn
<1> QED
  BY <1>1, <1>2, <1>3, <1>4

\* The margin covers what an answer may be late by.
LEMMA CallStep ==
  ASSUME MintedInv, NEW c \in Callers, Call(c) \/ GoogleMints(c) \/ AnswerArrives(c) \/ CallFails(c) \/ CallerDone(c)
  PROVE  MintedInv'
<1>0. /\ caller[c] \in CallerType /\ SoundCaller(caller[c], moment) /\ moment \in Nat
      /\ delegated \in [token : Int, expiry : Int]
      /\ delegated.token # -1 => delegated.expiry <= delegated.token + MintTimeout
  BY DEF MintedInv
<1>1. CASE Call(c)
  <2>0. UNCHANGED << moment, installed, asker, delegated >>
    BY <1>1 DEF Call
  <2>1. CASE DelegatedIsGood
    <3> DEFINE q == [step |-> "given", since |-> moment, token |-> delegated.token]
    <3>1. caller' = [caller EXCEPT ![c] = q]
      BY <1>1, <2>1 DEF Call
    <3>2. moment < delegated.token
      BY <1>0, <2>1, MintedAssumption DEF DelegatedIsGood
    <3>3. q \in CallerType /\ SoundCaller(q, moment)
      BY <1>0, <3>2 DEF CallerType, SoundCaller
    <3> HIDE DEF q
    <3> QED
      BY <1>0, <2>0, <3>1, <3>3, CallerGoesOn
  <2>2. CASE ~DelegatedIsGood
    <3> DEFINE q == [step |-> "mint", since |-> moment, token |-> -1]
    <3>1. caller' = [caller EXCEPT ![c] = q]
      BY <1>1, <2>2 DEF Call
    <3>2. q \in CallerType /\ SoundCaller(q, moment)
      BY <1>0, MintedAssumption DEF CallerType, SoundCaller
    <3> HIDE DEF q
    <3> QED
      BY <1>0, <2>0, <3>1, <3>2, CallerGoesOn
  <2> QED
    BY <2>1, <2>2
<1>2. CASE GoogleMints(c)
  <2> DEFINE q == [step |-> "minted", since |-> caller[c].since, token |-> moment + TokenLife]
  <2>1. caller' = [caller EXCEPT ![c] = q] /\ UNCHANGED << moment, installed, asker, delegated >>
    BY <1>2 DEF GoogleMints
  <2>2. caller[c].since \in Nat /\ caller[c].since <= moment /\ moment <= caller[c].since + MintTimeout
    BY <1>0, <1>2 DEF GoogleMints, SoundCaller, CallerType
  <2>3. q \in CallerType /\ SoundCaller(q, moment)
    BY <1>0, <2>2, MintedAssumption DEF CallerType, SoundCaller
  <2> HIDE DEF q
  <2> QED
    BY <1>0, <2>1, <2>3, CallerGoesOn
<1>3. CASE AnswerArrives(c)
  <2> DEFINE q == [caller[c] EXCEPT !.step = "given"]
  <2>1. /\ caller' = [caller EXCEPT ![c] = q] /\ UNCHANGED << moment, installed, asker >>
        /\ delegated' = [token |-> caller[c].token, expiry |-> moment + TokenLife] /\ caller[c].step = "minted"
    BY <1>3 DEF AnswerArrives
  <2>2. /\ caller[c].since \in Nat /\ caller[c].token \in Int
        /\ moment <= caller[c].since + MintTimeout /\ caller[c].since + TokenLife <= caller[c].token
    BY <1>0, <2>1 DEF SoundCaller, CallerType
  <2>3. moment < caller[c].token /\ moment + TokenLife <= caller[c].token + MintTimeout
    BY <1>0, <2>2, MintedAssumption
  <2>4. q \in CallerType /\ q.step = "given" /\ q.token = caller[c].token
    BY <1>0 DEF CallerType
  <2>5. SoundCaller(q, moment)
    BY <2>3, <2>4 DEF SoundCaller
  <2>6. /\ delegated' \in [token : Int, expiry : Int]
        /\ delegated'.expiry <= delegated'.token + MintTimeout
    BY <1>0, <2>1, <2>2, <2>3, MintedAssumption
  <2> HIDE DEF q
  <2> QED
    BY <2>1, <2>4, <2>5, <2>6, CallerGoesOn
<1>4. CASE CallFails(c) \/ CallerDone(c)
  <2>1. caller' = [caller EXCEPT ![c] = NoCall] /\ UNCHANGED << moment, installed, asker, delegated >>
    BY <1>4 DEF CallFails, CallerDone
  <2>2. NoCall \in CallerType /\ SoundCaller(NoCall, moment)
    BY DEF NoCall, CallerType, SoundCaller
  <2> QED
    BY <1>0, <2>1, <2>2, CallerGoesOn
<1> QED
  BY <1>1, <1>2, <1>3, <1>4

\* Every step keeps the invariant; the clock waits for who is over its timeout, and for
\* whoever has just been given a token.
LEMMA MintedStep ==
  ASSUME MintedInv, [MintedTokensNext]_mintedVars
  PROVE  MintedInv'
<1>1. CASE Moment
  <2>0. moment' = moment + 1 /\ UNCHANGED << installed, asker, delegated, caller >>
    BY <1>1 DEF Moment
  <2>1. \A a \in Askers : SoundAsker(asker[a], moment')
    BY <1>1, <2>0, MintedAssumption DEF Moment, MintedInv, SoundAsker, AskerType
  <2>2. \A c \in Callers : SoundCaller(caller[c], moment')
    BY <1>1, <2>0, MintedAssumption DEF Moment, MintedInv, SoundCaller, CallerType
  <2> QED
    BY <2>0, <2>1, <2>2 DEF MintedInv
<1>2. ASSUME NEW a \in Askers,
             \/ AskForToken(a, Everything) \/ GitHubMints(a) \/ MintFails(a) \/ Receives(a) \/ AskerDone(a)
             \/ \E r \in Repositories \cup {Uncovered} : CellAsks(a, r)
      PROVE  MintedInv'
  <2>1. Everything \in Scopes /\ \A r \in Repositories \cup {Uncovered} : {r} \in Scopes
    BY DEF Everything, Scopes
  <2> QED
    BY <1>2, <2>1, AskStep, AnswerStep DEF CellAsks
<1>3. CASE UNCHANGED mintedVars
  BY <1>3 DEF MintedInv, mintedVars
<1> QED
  BY <1>1, <1>2, <1>3, CallStep DEF MintedTokensNext

\* A token reaches what its asker named and no more, whoever else was minting meanwhile
\* (InstallationToken and the cells' endpoint).
THEOREM ScopeInvariant == MintedTokensSpec => []TokenReachesWhatWasAsked
<1>1. MintedInv => TokenReachesWhatWasAsked
  BY DEF MintedInv, SoundAsker, TokenReachesWhatWasAsked
<1> QED
  BY <1>1, MintedInit, MintedStep, PTL DEF MintedTokensSpec

\* A token that is handed out still works, as long as a mint takes less than the margins
\* (Expired, DelegatedTokens.Token).
THEOREM LiveInvariant == MintedTokensSpec => []HandedOutIsLive
<1>1. MintedInv => HandedOutIsLive
  BY DEF MintedInv, SoundAsker, SoundCaller, HandedOutIsLive
<1> QED
  BY <1>1, MintedInit, MintedStep, PTL DEF MintedTokensSpec

(***************************************************************************)
(* The beads of accepted candidates.                                       *)
(***************************************************************************)

\* Whatever the pass is about to create, the graph was asked for and does not have.
BeadsInv ==
    /\ beads \in [Candidates -> {0, 1}]
    /\ DOMAIN pub = {"phase", "todo", "step", "seen", "held"} /\ pub.todo \subseteq Candidates
    /\ pub.phase = "between" => pub.todo = {}
    /\ pub.step = "create" => pub.todo # {} /\ beads[Current] = 0

\* The candidate whose turn it is is one of those the pass took.
LEMMA CurrentIsTaken ==
  ASSUME BeadsInv, pub.todo # {}
  PROVE  Current \in pub.todo /\ Current \in Candidates
<1> DEFINE R == { q \in Nat \X Nat : q[1] < q[2] }
<1>1. IsWellFoundedOn(R, Nat)
  BY NatLessThanWellFounded DEF OpToRel
<1>2. \A x \in Nat, y \in Nat : x < y => << x, y >> \in R
  OBVIOUS
<1> HIDE DEF R
<1>3. pub.todo \in SUBSET Nat
  BY LimitAssumption DEF BeadsInv, Candidates
<1>4. \E x \in pub.todo : \A y \in pub.todo : ~ (<< y, x >> \in R)
  BY <1>1, <1>3, WFMin
<1>5. \A x, y \in Nat : ~(y < x) => x <= y
  OBVIOUS
<1>6. \E x \in pub.todo : \A y \in pub.todo : x <= y
  BY <1>2, <1>3, <1>4, <1>5
<1>7. Current \in pub.todo
  BY <1>6 DEF Current, First
<1> QED
  BY <1>7 DEF BeadsInv

\* A step that creates nothing and is not about to keeps the invariant.
LEMMA NothingIsCreated ==
  ASSUME BeadsInv, UNCHANGED beads,
         DOMAIN pub' = {"phase", "todo", "step", "seen", "held"}, pub'.todo \subseteq Candidates,
         pub'.phase = "between" => pub'.todo = {}, pub'.step # "create"
  PROVE  BeadsInv'
  BY DEF BeadsInv

\* The ways a pass goes on from a candidate.
Goes ==
    \/ Goto("register") \/ Goto("record") \/ Goto("git") \/ Goto("branch") \/ Goto("retire")
    \/ Goto("open") \/ Goto("path") \/ Goto("patch") \/ Leave

\* A pass that goes on, or dies, keeps the invariant.
LEMMA PassGoesOn ==
  ASSUME BeadsInv, UNCHANGED beads, Goes \/ AfterBead \/ pub' = Resting
  PROVE  BeadsInv'
<1>1. CASE Goes
  <2>1. /\ DOMAIN pub' = {"phase", "todo", "step", "seen", "held"} /\ pub'.todo \subseteq pub.todo
        /\ pub'.phase = pub.phase /\ pub'.step # "create"
    BY <1>1 DEF Goes, Goto, Leave, BeadsInv
  <2> QED
    BY <2>1, NothingIsCreated DEF BeadsInv
<1>2. CASE AfterBead
  BY <1>1, <1>2 DEF AfterBead, Goes
<1>3. CASE pub' = Resting
  BY <1>3, NothingIsCreated DEF Resting
<1> QED
  BY <1>1, <1>2, <1>3

\* A decision that goes on to Git with a reference, or without one, keeps it too.
LEMMA GitIsNext ==
  ASSUME BeadsInv, UNCHANGED beads, NEW linked, pub' = [pub EXCEPT !.step = "git", !.seen.linked = linked]
  PROVE  BeadsInv'
<1>1. /\ DOMAIN pub' = {"phase", "todo", "step", "seen", "held"} /\ pub'.todo = pub.todo
      /\ pub'.phase = pub.phase /\ pub'.step # "create"
  BY DEF BeadsInv
<1> QED
  BY <1>1, NothingIsCreated DEF BeadsInv

\* A pass that starts, or goes from one phase to the next, creates nothing.
LEMMA PhaseBegins ==
  ASSUME BeadsInv, StartPass \/ WorkPassEnds \/ StartRecords \/ RecordPassEnds \/ PublisherDies
  PROVE  BeadsInv'
<1>1. PendingWork \subseteq Candidates /\ PendingRecords \subseteq Candidates
  BY DEF PendingWork, PendingRecords, Oldest, Candidates
<1>2. CASE StartPass
  BY <1>1, <1>2, NothingIsCreated DEF StartPass, Resting
<1>3. CASE WorkPassEnds
  <2>1. UNCHANGED beads /\ pub' = [pub EXCEPT !.phase = "between"] /\ pub.todo = {}
    BY <1>3 DEF WorkPassEnds
  <2>2. DOMAIN pub' = {"phase", "todo", "step", "seen", "held"} /\ pub'.todo = {} /\ pub'.step # "create"
    BY <2>1 DEF BeadsInv
  <2> QED
    BY <2>1, <2>2, NothingIsCreated
<1>4. CASE StartRecords
  <2>1. UNCHANGED beads
    BY <1>4 DEF StartRecords
  <2>2. CASE pub' = Resting
    BY <2>1, <2>2, PassGoesOn
  <2>3. CASE pub' = [pub EXCEPT !.phase = "records", !.todo = PendingRecords, !.held = {d \in Decisions : Registered(d)}]
    <3>1. pub.step # "create"
      BY <1>4 DEF StartRecords, BeadsInv
    <3>2. DOMAIN pub' = {"phase", "todo", "step", "seen", "held"} /\ pub'.todo = PendingRecords
      BY <2>3 DEF BeadsInv
    <3>3. pub'.step # "create" /\ pub'.phase = "records"
      BY <2>3, <3>1 DEF BeadsInv
    <3> QED
      BY <1>1, <2>1, <3>2, <3>3, NothingIsCreated
  <2> QED
    BY <1>4, <2>2, <2>3 DEF StartRecords
<1>5. CASE RecordPassEnds \/ PublisherDies
  BY <1>5, PassGoesOn DEF RecordPassEnds, PublisherDies
<1> QED
  BY <1>2, <1>3, <1>4, <1>5

\* The graph is asked first, and what it does not have is created once.
LEMMA BeadIsMade ==
  ASSUME BeadsInv, FindByLabel \/ CreateBead
  PROVE  BeadsInv'
<1>1. pub.todo # {} /\ Current \in Candidates
  BY CurrentIsTaken DEF FindByLabel, CreateBead, OnItsTurn
<1>2. CASE FindByLabel
  <2>1. UNCHANGED beads /\ (Goto("record") \/ AfterBead \/ (beads[Current] = 0 /\ Goto("create")))
    BY <1>2 DEF FindByLabel
  <2>2. CASE Goto("record") \/ AfterBead
    BY <2>1, <2>2, PassGoesOn DEF Goes
  <2>3. CASE beads[Current] = 0 /\ Goto("create")
    <3>1. /\ DOMAIN pub' = {"phase", "todo", "step", "seen", "held"} /\ pub'.todo = pub.todo
          /\ pub'.phase = pub.phase
      BY <2>3 DEF Goto, BeadsInv
    <3>2. Current' = Current
      BY <3>1 DEF Current
    <3> QED
      BY <1>1, <2>1, <2>3, <3>1, <3>2 DEF BeadsInv
  <2> QED
    BY <2>1, <2>2, <2>3
<1>3. CASE CreateBead
  <2>1. beads[Current] = 0
    BY <1>3 DEF CreateBead, OnItsTurn, BeadsInv
  <2>2. beads' = beads \/ beads' = [beads EXCEPT ![Current] = beads[Current] + 1]
    BY <1>3 DEF CreateBead
  <2>3. beads' \in [Candidates -> {0, 1}]
    BY <1>1, <2>1, <2>2 DEF BeadsInv
  <2>4. /\ DOMAIN pub' = {"phase", "todo", "step", "seen", "held"} /\ pub'.todo \subseteq Candidates
        /\ pub'.phase = "between" => pub'.todo = {}
        /\ pub'.step # "create"
    BY <1>3 DEF CreateBead, AfterBead, Goto, Leave, BeadsInv
  <2> QED
    BY <2>3, <2>4 DEF BeadsInv
<1> QED
  BY <1>2, <1>3

\* Every step keeps the invariant.
LEMMA BeadsStep ==
  ASSUME BeadsInv, [PublishingNext]_publishingVars
  PROVE  BeadsInv'
<1>1. CASE CreateGraph \/ RegisterGraph
  BY <1>1, PassGoesOn DEF CreateGraph, RegisterGraph, Goes
<1>2. CASE RecordWork
  <2>1. UNCHANGED beads /\ (AfterBead \/ Leave \/ pub' = [pub EXCEPT !.step = "git", !.seen.linked = TRUE])
    BY <1>2 DEF RecordWork
  <2> QED
    BY <2>1, PassGoesOn, GitIsNext DEF Goes
<1>3. CASE NoBeadNow \/ SkipBlocked
  BY <1>3, GitIsNext, PassGoesOn DEF NoBeadNow, SkipBlocked, Goes
<1>4. CASE ChooseGit
  <2>1. UNCHANGED beads /\ (Goto("branch") \/ Goto("patch") \/ Leave)
    BY <1>4 DEF ChooseGit
  <2> QED
    BY <2>1, PassGoesOn DEF Goes
<1>5. CASE PutRecord \/ Retire \/ OpenProposal \/ RecordPath \/ LinkWork
  <2>1. UNCHANGED beads /\ (Goto("retire") \/ Goto("open") \/ Goto("path") \/ Leave)
    BY <1>5 DEF PutRecord, Retire, OpenProposal, RecordPath, LinkWork
  <2> QED
    BY <2>1, PassGoesOn DEF Goes
<1>6. ASSUME NEW d \in Decisions, EditProposal(d) \/ MergeProposal(d) \/ MergeSuperseded(d)
      PROVE  BeadsInv'
  BY <1>6 DEF EditProposal, MergeProposal, MergeSuperseded, BeadsInv, Current, First
<1>7. CASE UNCHANGED publishingVars
  BY <1>7 DEF publishingVars, BeadsInv, Current, First
<1> QED
  BY <1>1, <1>2, <1>3, <1>4, <1>5, <1>6, <1>7, PhaseBegins, BeadIsMade DEF PublishingNext, PublisherSteps

\* No crash, lost answer or failed write between the graph and the database gives a
\* candidate a second bead (Publisher.publish, RecordPublisher.bead).
THEOREM BeadInvariant == PublishingSpec => []OneBeadPerCandidate
<1>1. PublishingInit => BeadsInv
  <2> SUFFICES ASSUME PublishingInit PROVE BeadsInv
    OBVIOUS
  <2>1. PICK made \in SUBSET Superseding : beads = [c \in Candidates |-> IF c \in made THEN 1 ELSE 0]
    BY DEF PublishingInit
  <2>2. beads \in [Candidates -> {0, 1}]
    BY <2>1
  <2> QED
    BY <2>2 DEF PublishingInit, BeadsInv, Resting
<1>2. BeadsInv => OneBeadPerCandidate
  BY DEF BeadsInv, OneBeadPerCandidate
<1> QED
  BY <1>1, <1>2, BeadsStep, PTL DEF PublishingSpec

(***************************************************************************)
(* Deliveries.                                                             *)
(***************************************************************************)

PullStates == {"open", "merged"}
Event == [event : {"pull_request", "check_suite"}, head : Nat, state : PullStates \cup Checks, at : Nat]

\* A row of pull_request_projections.
Projection(r) == r \in [head : Nat, state : PullStates \cup Checks \cup {"absent"}, at : Nat,
                       checks : PullStates \cup Checks, checked : Nat]

\* The row is at least as new as what delivery i said, if that was of the pull request.
Covered(i) == sent[i].event = "pull_request" => pull.at >= sent[i].at

\* Covered says something of deliveries GitHub sent, which is why nothing else may have a
\* receipt or a place in a batch; and whoever is about to mark a delivery processed has
\* projected it.
DeliveriesInv ==
    /\ sent \in Seq(Event)
    /\ gh \in [head : Nat, state : PullStates, at : Nat]
    /\ resync \in [head : Nat, state : PullStates \cup {"absent"}, at : Nat]
    /\ Projection(pull)
    /\ wire \subseteq DOMAIN sent
    /\ receipt \in [Ids -> {"absent", "pending", "parked", "discarded", "processed"}]
    /\ hands \in [Ids -> {"idle", "project", "mark"}]
    /\ replay \in [on : BOOLEAN, todo : Seq(DOMAIN sent), step : {"project", "mark"}]
    /\ \A i \in Ids : hands[i] # "idle" \/ receipt[i] # "absent" => i \in DOMAIN sent
    /\ \A i \in Ids : hands[i] = "mark" \/ receipt[i] = "processed" => Covered(i)
    /\ replay.step = "mark" => replay.todo # << >> /\ Covered(Head(replay.todo))

\* Pull requests and projections begin with the first push.
LEMMA DeliveriesStart ==
  ASSUME DeliveriesInit
  PROVE  DeliveriesInv
<1>1. /\ sent \in Seq(Event) /\ DOMAIN sent = {1}
  BY DEF DeliveriesInit, Event, PullStates, Checks
<1>2. replay \in [on : BOOLEAN, todo : Seq(DOMAIN sent), step : {"project", "mark"}]
  BY DEF DeliveriesInit, Asleep
<1> QED
  BY <1>1, <1>2 DEF DeliveriesInit, DeliveriesInv, Projection, Asleep, NotListed, NoRow_, PullStates, Checks, Covered

\* A step that leaves the deliveries alone and gives the receipts, the goroutines and the
\* replay new values that are no further on than the row keeps the invariant.
LEMMA RowOnlyGetsNewer ==
  ASSUME DeliveriesInv, UNCHANGED << gh, sent >>,
         wire' \subseteq wire,
         resync' \in [head : Nat, state : PullStates \cup {"absent"}, at : Nat],
         Projection(pull'),
         pull.at <= pull'.at,
         receipt' \in [Ids -> {"absent", "pending", "parked", "discarded", "processed"}],
         hands' \in [Ids -> {"idle", "project", "mark"}],
         replay' \in [on : BOOLEAN, todo : Seq(DOMAIN sent), step : {"project", "mark"}],
         \A i \in Ids : hands'[i] # "idle" /\ hands[i] = "idle" => i \in DOMAIN sent,
         \A i \in Ids : receipt'[i] # "absent" /\ receipt[i] = "absent" => i \in DOMAIN sent,
         \A i \in Ids : hands'[i] = "mark" => hands[i] = "mark" \/ Covered(i)',
         \A i \in Ids : receipt'[i] = "processed" => receipt[i] = "processed" \/ Covered(i)',
         replay'.step = "mark" => replay' = replay \/ (replay'.todo # << >> /\ \A i : i = Head(replay'.todo) => Covered(i)')
  PROVE  DeliveriesInv'
<1>1. \A i \in Ids : hands'[i] # "idle" \/ receipt'[i] # "absent" => i \in DOMAIN sent
  BY DEF DeliveriesInv
<1>2. \A i \in DOMAIN sent : Covered(i) => Covered(i)'
  <2>1. ASSUME NEW i \in DOMAIN sent, Covered(i) PROVE Covered(i)'
    <3>1. sent[i] \in Event
      BY DEF DeliveriesInv
    <3>2. sent[i].at \in Nat /\ pull.at \in Nat /\ pull'.at \in Nat
      BY <3>1 DEF DeliveriesInv, Event, Projection
    <3> QED
      BY <2>1, <3>2 DEF Covered
  <2> QED
    BY <2>1
<1>3. \A i \in Ids : hands'[i] = "mark" \/ receipt'[i] = "processed" => Covered(i)'
  BY <1>1, <1>2 DEF DeliveriesInv
<1>4. replay'.step = "mark" => replay'.todo # << >> /\ \A i : i = Head(replay'.todo) => Covered(i)'
  <2>1. CASE replay' = replay /\ replay.step = "mark"
    <3>1. replay.todo # << >> /\ Covered(Head(replay.todo)) /\ replay.todo \in Seq(DOMAIN sent)
      BY <2>1 DEF DeliveriesInv
    <3>2. Head(replay.todo) \in DOMAIN sent
      BY <3>1
    <3> QED
      BY <1>2, <2>1, <3>1, <3>2
  <2> QED
    BY <2>1
<1>5. replay'.step = "mark" => (replay.todo # << >> /\ Covered(Head(replay.todo)))'
  BY <1>4
<1> QED
  BY <1>1, <1>3, <1>5 DEF DeliveriesInv

\* GitHub sends one delivery more.
LEMMA EmitKeeps ==
  ASSUME DeliveriesInv, NEW e \in Event, Emit(e), UNCHANGED << receipt, hands, replay, resync, pull >>,
         gh' \in [head : Nat, state : PullStates, at : Nat]
  PROVE  DeliveriesInv'
<1>1. Len(sent) \in Nat /\ DOMAIN sent = 1 .. Len(sent)
  BY DEF DeliveriesInv
<1>2. /\ sent' \in Seq(Event) /\ DOMAIN sent' = 1 .. (Len(sent) + 1)
      /\ \A i \in DOMAIN sent : sent'[i] = sent[i]
  BY DEF DeliveriesInv, Emit
<1>3. DOMAIN sent \subseteq DOMAIN sent' /\ Len(sent) + 1 \in DOMAIN sent'
  BY <1>1, <1>2
<1>4. \A i \in DOMAIN sent : Covered(i) => Covered(i)'
  BY <1>2 DEF Covered
<1>5. wire' \subseteq DOMAIN sent'
  BY <1>3 DEF DeliveriesInv, Emit
<1>6. replay' \in [on : BOOLEAN, todo : Seq(DOMAIN sent'), step : {"project", "mark"}]
  <2>1. Seq(DOMAIN sent) \subseteq Seq(DOMAIN sent')
    BY <1>3
  <2> QED
    BY <2>1 DEF DeliveriesInv
<1>7. replay'.step = "mark" => (replay.todo # << >> /\ Covered(Head(replay.todo)))'
  <2> SUFFICES ASSUME replay.step = "mark" PROVE replay.todo # << >> /\ \A i : i = Head(replay.todo) => Covered(i)'
    OBVIOUS
  <2>1. replay.todo # << >> /\ Covered(Head(replay.todo)) /\ replay.todo \in Seq(DOMAIN sent)
    BY DEF DeliveriesInv
  <2>2. Head(replay.todo) \in DOMAIN sent
    BY <2>1
  <2> QED
    BY <1>4, <2>1, <2>2
<1>8. \A i \in Ids : hands'[i] # "idle" \/ receipt'[i] # "absent" => i \in DOMAIN sent'
  BY <1>3 DEF DeliveriesInv
<1>9. \A i \in Ids : hands'[i] = "mark" \/ receipt'[i] = "processed" => Covered(i)'
  <2>1. \A i \in Ids : hands[i] = "mark" \/ receipt[i] = "processed" => i \in DOMAIN sent /\ Covered(i)
    BY DEF DeliveriesInv
  <2> QED
    BY <1>4, <2>1
<1> QED
  BY <1>2, <1>5, <1>6, <1>7, <1>8, <1>9 DEF DeliveriesInv

\* The upsert writes what it is given if that is newer.
LEMMA NewerRow ==
  ASSUME DeliveriesInv, NEW e, e.head \in Nat, e.state \in PullStates \cup Checks \cup {"absent"}, e.at \in Nat
  PROVE  /\ Projection(PullRequestRow(e))
         /\ PullRequestRow(e).at = IF pull.at < e.at THEN e.at ELSE pull.at
<1>1. Projection(pull)
  BY DEF DeliveriesInv
<1>2. CASE pull.at < e.at
  <2>1. PullRequestRow(e) = [pull EXCEPT !.head = e.head, !.state = e.state, !.at = e.at]
    BY <1>2 DEF PullRequestRow
  <2>2. PullRequestRow(e) = [head |-> e.head, state |-> e.state, at |-> e.at,
                             checks |-> pull.checks, checked |-> pull.checked]
    BY <1>1, <2>1 DEF Projection
  <2> QED
    BY <1>1, <1>2, <2>2 DEF Projection
<1>3. CASE ~(pull.at < e.at)
  BY <1>1, <1>3 DEF PullRequestRow
<1> QED
  BY <1>2, <1>3

\* A projection makes the row no older, and as new as what it projects.
LEMMA ProjectedIsNewer ==
  ASSUME DeliveriesInv, NEW i \in DOMAIN sent, pull' = Projected(sent[i]), UNCHANGED sent
  PROVE  /\ Projection(pull')
         /\ pull.at <= pull'.at /\ Covered(i)'
<1>0. sent[i] \in Event
  BY DEF DeliveriesInv
<1>1. /\ sent[i].head \in Nat /\ sent[i].state \in PullStates \cup Checks /\ sent[i].at \in Nat
      /\ pull.at \in Nat
  BY <1>0 DEF DeliveriesInv, Event, Projection
<1>2. CASE sent[i].event = "pull_request"
  <2>1. pull' = PullRequestRow(sent[i])
    BY <1>2 DEF Projected
  <2>2. pull'.at = (IF pull.at < sent[i].at THEN sent[i].at ELSE pull.at) /\ Projection(pull')
    BY <1>1, <2>1, NewerRow
  <2> QED
    BY <1>1, <2>2 DEF Covered
<1>3. CASE sent[i].event # "pull_request"
  <2>1. pull' = CheckSuiteRow(sent[i])
    BY <1>3 DEF Projected
  <2>2. pull'.at = pull.at /\ Projection(pull')
    BY <1>1, <2>1 DEF CheckSuiteRow, DeliveriesInv, Projection
  <2> QED
    BY <1>1, <1>3, <2>2 DEF Covered
<1> QED
  BY <1>2, <1>3

\* The batch of a replay is made of receipts.
LEMMA WaitingTypes ==
  ASSUME NEW S \in SUBSET Ids, NEW ids \in Waiting(S)
  PROVE  ids \in Seq(S)
<1>0. 1 \in Int /\ MaxChanges \in Int
  BY ChangesAssumption DEF ChangesAssumption
<1>1. IsFiniteSet(Ids) /\ IsFiniteSet(S)
  BY <1>0, FS_Interval, FS_Subset DEF Ids
<1>2. Cardinality(S) \in Nat
  BY <1>1, FS_CardinalityType
<1>3. ids \in [1 .. Cardinality(S) -> S]
  BY DEF Waiting
<1> QED
  BY <1>2, <1>3

\* What the receiver does.
LEMMA ReceiverKeeps ==
  ASSUME DeliveriesInv, NEW i \in Ids,
         Lost(i) \/ ReceiveDelivery(i) \/ AcknowledgeRepeat(i) \/ GoroutineProjects(i) \/ GoroutineMarks(i)
  PROVE  DeliveriesInv'
<1>0. pull.at \in Nat
  BY DEF DeliveriesInv, Projection
<1>1. CASE Lost(i) \/ AcknowledgeRepeat(i)
  BY <1>0, <1>1, RowOnlyGetsNewer DEF Lost, AcknowledgeRepeat, DeliveriesInv
<1>2. CASE ReceiveDelivery(i)
  <2>1. i \in DOMAIN sent /\ wire' \subseteq wire
    BY <1>2 DEF ReceiveDelivery, DeliveriesInv
  <2> QED
    BY <1>0, <1>2, <2>1, RowOnlyGetsNewer DEF ReceiveDelivery, DeliveriesInv
<1>3. CASE GoroutineProjects(i)
  <2>1. i \in DOMAIN sent
    BY <1>3 DEF GoroutineProjects, DeliveriesInv
  <2>2. CASE pull' = Projected(sent[i]) /\ hands' = [hands EXCEPT ![i] = "mark"]
    BY <1>3, <2>1, <2>2, ProjectedIsNewer, RowOnlyGetsNewer DEF GoroutineProjects, DeliveriesInv
  <2>3. CASE UNCHANGED pull /\ hands' = [hands EXCEPT ![i] = "idle"]
    BY <1>0, <1>3, <2>3, RowOnlyGetsNewer DEF GoroutineProjects, DeliveriesInv
  <2> QED
    BY <1>3, <2>2, <2>3 DEF GoroutineProjects
<1>4. CASE GoroutineMarks(i)
  <2>1. i \in DOMAIN sent /\ Covered(i)
    BY <1>4 DEF GoroutineMarks, DeliveriesInv
  <2>2. \A j \in {i} : Covered(j)'
    BY <1>4, <2>1 DEF GoroutineMarks, Covered
  <2>3. /\ hands' \in [Ids -> {"idle", "project", "mark"}]
        /\ receipt' \in [Ids -> {"absent", "pending", "parked", "discarded", "processed"}]
        /\ \A j \in Ids : hands'[j] \in {hands[j], "idle"}
        /\ \A j \in Ids : receipt'[j] = receipt[j] \/ (j = i /\ receipt'[j] = "processed")
    BY <1>4 DEF GoroutineMarks, DeliveriesInv
  <2>4. UNCHANGED << gh, sent, wire, arrived, replay, resync, attached, pull >>
    BY <1>4 DEF GoroutineMarks
  <2> QED
    BY <1>0, <2>1, <2>2, <2>3, <2>4, RowOnlyGetsNewer DEF DeliveriesInv
<1> QED
  BY <1>1, <1>2, <1>3, <1>4

\* What the replay does.
LEMMA ReplayKeeps ==
  ASSUME DeliveriesInv, ReplayStarts \/ ReplayProjects \/ ReplayMarks \/ ReplayStops
  PROVE  DeliveriesInv'
<1>0. pull.at \in Nat /\ replay.todo \in Seq(DOMAIN sent)
  BY DEF DeliveriesInv, Projection
<1>1. CASE ReplayStarts
  <2>1. PICK retried \in SUBSET { i \in Ids : receipt[i] = "parked" },
             stale \in SUBSET { i \in Ids : receipt[i] = "parked" } :
          /\ \E first \in Waiting({ i \in Ids : receipt[i] = "pending" }), then \in Waiting(retried) :
                replay' = [Asleep EXCEPT !.on = TRUE, !.todo = first \o then]
          /\ receipt' = [i \in Ids |-> IF i \in stale THEN "discarded" ELSE receipt[i]]
          /\ UNCHANGED << gh, sent, wire, arrived, hands, resync, attached, pull >>
    BY <1>1 DEF ReplayStarts
  <2>2. PICK first \in Waiting({ i \in Ids : receipt[i] = "pending" }), then \in Waiting(retried) :
          replay' = [Asleep EXCEPT !.on = TRUE, !.todo = first \o then]
    BY <2>1
  <2>3. first \in Seq({ i \in Ids : receipt[i] = "pending" }) /\ then \in Seq(retried)
    BY WaitingTypes
  <2>4. { i \in Ids : receipt[i] = "pending" } \subseteq DOMAIN sent /\ retried \subseteq DOMAIN sent
    BY DEF DeliveriesInv
  <2>5. first \in Seq(DOMAIN sent) /\ then \in Seq(DOMAIN sent)
    BY <2>3, <2>4
  <2>8. first \o then \in Seq(DOMAIN sent)
    BY <2>5, ConcatProperties
  <2>6. replay' \in [on : BOOLEAN, todo : Seq(DOMAIN sent), step : {"project", "mark"}]
        /\ replay'.step = "project"
    BY <2>2, <2>8 DEF Asleep
  <2>7. /\ receipt' \in [Ids -> {"absent", "pending", "parked", "discarded", "processed"}]
        /\ \A i \in Ids : receipt'[i] # "absent" /\ receipt[i] = "absent" => i \in DOMAIN sent
        /\ \A i \in Ids : receipt'[i] = "processed" => receipt[i] = "processed"
    BY <2>1 DEF DeliveriesInv
  <2> QED
    BY <1>0, <2>1, <2>6, <2>7, RowOnlyGetsNewer DEF DeliveriesInv
<1>2. CASE ReplayProjects
  <2> DEFINE i == Head(replay.todo)
  <2>0. replay.todo # << >> /\ replay.step = "project"
    BY <1>2 DEF ReplayProjects
  <2>1. i \in DOMAIN sent /\ Tail(replay.todo) \in Seq(DOMAIN sent) /\ replay.step = "project"
    BY <1>0, <2>0, HeadTailProperties
  <2>2. UNCHANGED << gh, sent, wire, arrived, hands, resync, attached >>
    BY <1>2 DEF ReplayProjects
  <2>3. CASE pull' = Projected(sent[i]) /\ replay' = [replay EXCEPT !.step = "mark"] /\ UNCHANGED receipt
    <3>1. /\ replay' \in [on : BOOLEAN, todo : Seq(DOMAIN sent), step : {"project", "mark"}]
          /\ replay'.todo = replay.todo /\ replay.todo # << >>
      BY <1>2, <2>3 DEF DeliveriesInv, ReplayProjects
    <3>2. \A j : j = Head(replay'.todo) => Covered(j)'
      BY <2>1, <2>2, <2>3, <3>1, ProjectedIsNewer
    <3> QED
      BY <2>1, <2>2, <2>3, <3>1, <3>2, ProjectedIsNewer, RowOnlyGetsNewer DEF DeliveriesInv
  <2>4. CASE /\ UNCHANGED pull /\ replay' = [replay EXCEPT !.todo = Tail(@)]
             /\ receipt' = [receipt EXCEPT ![i] = IF @ \in {"pending", "parked"} THEN "parked" ELSE @] \/ UNCHANGED receipt
    <3>1. replay' \in [on : BOOLEAN, todo : Seq(DOMAIN sent), step : {"project", "mark"}]
          /\ replay'.step = "project"
      BY <2>1, <2>4 DEF DeliveriesInv
    <3>2. /\ receipt' \in [Ids -> {"absent", "pending", "parked", "discarded", "processed"}]
          /\ \A j \in Ids : receipt'[j] # "absent" /\ receipt[j] = "absent" => j \in DOMAIN sent
          /\ \A j \in Ids : receipt'[j] = "processed" => receipt[j] = "processed"
      BY <2>4 DEF DeliveriesInv
    <3> QED
      BY <1>0, <2>2, <2>4, <3>1, <3>2, RowOnlyGetsNewer DEF DeliveriesInv
  <2> QED
    BY <1>2, <2>3, <2>4 DEF ReplayProjects
<1>3. CASE ReplayMarks
  <2> DEFINE i == Head(replay.todo)
  <2>0. replay.todo # << >> /\ Covered(i)
    BY <1>3 DEF ReplayMarks, DeliveriesInv
  <2>1. i \in DOMAIN sent /\ Tail(replay.todo) \in Seq(DOMAIN sent) /\ Covered(i)
    BY <1>0, <2>0, HeadTailProperties
  <2>2. UNCHANGED << gh, sent, wire, arrived, hands, resync, attached, pull >>
    BY <1>3 DEF ReplayMarks
  <2>3. /\ replay' \in [on : BOOLEAN, todo : Seq(DOMAIN sent), step : {"project", "mark"}]
        /\ replay'.step = "project"
    <3>1. CASE replay' = Asleep
      BY <3>1 DEF Asleep
    <3>2. CASE replay' = [replay EXCEPT !.todo = Tail(@), !.step = "project"]
      BY <2>1, <3>2 DEF DeliveriesInv
    <3> QED
      BY <1>3, <3>1, <3>2 DEF ReplayMarks
  <2>4. receipt' = [receipt EXCEPT ![i] = "processed"] \/ UNCHANGED receipt
    BY <1>3 DEF ReplayMarks
  <2>5. \A j \in {i} : Covered(j)'
    BY <2>1, <2>2 DEF Covered
  <2>6. /\ receipt' \in [Ids -> {"absent", "pending", "parked", "discarded", "processed"}]
        /\ \A j \in Ids : receipt'[j] # "absent" /\ receipt[j] = "absent" => j \in DOMAIN sent
        /\ \A j \in Ids : receipt'[j] = "processed" => receipt[j] = "processed" \/ Covered(j)'
    BY <2>1, <2>4, <2>5 DEF DeliveriesInv
  <2> QED
    BY <1>0, <2>2, <2>3, <2>6, RowOnlyGetsNewer DEF DeliveriesInv
<1>4. CASE ReplayStops
  BY <1>0, <1>4, RowOnlyGetsNewer DEF ReplayStops, Asleep, DeliveriesInv
<1> QED
  BY <1>1, <1>2, <1>3, <1>4

\* Every step keeps the invariant.
LEMMA DeliveriesStep ==
  ASSUME DeliveriesInv, [DeliveriesNext]_deliveriesVars
  PROVE  DeliveriesInv'
<1>0. pull.at \in Nat
  BY DEF DeliveriesInv, Projection
<1>1. CASE \E s \in {"open", "merged"} : PullRequestChanges(s)
  <2>1. PICK s \in PullStates : PullRequestChanges(s)
    BY <1>1 DEF PullStates
  <2>2. gh' \in [head : Nat, state : PullStates, at : Nat]
    <3>1. PICK at \in {gh.at, gh.at + 1} :
              gh' = [head |-> IF s = "open" THEN gh.head + 1 ELSE gh.head, state |-> s, at |-> at]
      BY <2>1 DEF PullRequestChanges
    <3>2. gh.head \in Nat /\ gh.at \in Nat
      BY DEF DeliveriesInv
    <3> QED
      BY <3>1, <3>2
  <2>3. [event |-> "pull_request", head |-> gh'.head, state |-> s, at |-> gh'.at] \in Event
    BY <2>2 DEF Event
  <2> QED
    BY <2>1, <2>2, <2>3, EmitKeeps DEF PullRequestChanges
<1>2. CASE \E r \in {"success", "failure"} : SuiteCompletes(r)
  <2>1. PICK r \in {"success", "failure"} : SuiteCompletes(r)
    BY <1>2
  <2>2. [event |-> "check_suite", head |-> gh.head, state |-> r, at |-> 0] \in Event
    BY DEF DeliveriesInv, Event, Checks
  <2> QED
    BY <2>1, <2>2, EmitKeeps DEF SuiteCompletes, DeliveriesInv
<1>3. CASE ControlApiRestarts
  BY <1>0, <1>3, RowOnlyGetsNewer DEF ControlApiRestarts, DeliveriesInv
<1>4. CASE ResyncLists
  BY <1>0, <1>4, RowOnlyGetsNewer DEF ResyncLists, DeliveriesInv
<1>5. CASE ResyncProjects
  <2>1. Projection(pull') /\ pull.at <= pull'.at
    <3>1. resync.head \in Nat /\ resync.state \in PullStates \cup {"absent"} /\ resync.at \in Nat
      BY DEF DeliveriesInv
    <3> QED
      BY <1>0, <1>5, <3>1, NewerRow DEF ResyncProjects
  <2>2. resync' \in [head : Nat, state : PullStates \cup {"absent"}, at : Nat]
    BY <1>5 DEF ResyncProjects, NotListed
  <2> QED
    BY <1>5, <2>1, <2>2, RowOnlyGetsNewer DEF ResyncProjects, DeliveriesInv
<1>6. CASE OthersChange \/ Uninstall \/ Install \/ AttachRepository \/ UNCHANGED deliveriesVars
  <2>1. UNCHANGED << gh, sent, wire, receipt, hands, replay, resync, pull >>
    BY <1>6 DEF OthersChange, Uninstall, Install, AttachRepository, deliveriesVars
  <2> QED
    BY <1>0, <2>1, RowOnlyGetsNewer DEF DeliveriesInv
<1> QED
  BY <1>1, <1>2, <1>3, <1>4, <1>5, <1>6, ReceiverKeeps, ReplayKeeps DEF DeliveriesNext

\* Whoever marked a receipt processed, and whatever died in between, what the delivery said
\* of the pull request had been projected, and the row has not gone back since: for any
\* number of deliveries (internal/githubapp's receiver, internal/reconcile's replay).
THEOREM ReceiptInvariant == DeliveriesSpec => []ProcessedWasProjected
<1>1. DeliveriesInv => ProcessedWasProjected
  BY DEF DeliveriesInv, ProcessedWasProjected, Covered, Event
<1> QED
  BY <1>1, DeliveriesStart, DeliveriesStep, PTL DEF DeliveriesSpec
=============================================================================
