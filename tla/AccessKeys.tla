----------------------------- MODULE AccessKeys -----------------------------
(* internal/authn/access.go: the verification of Access tokens against a    *)
(* key set that rotates at Cloudflare while a copy of it is cached here.    *)
(* Requests run concurrently; a fetch takes time, during which others read  *)
(* and write the cache. Keys are numbered in the order they are introduced. *)
EXTENDS Naturals, FiniteSets, FiniteSetsExt

CONSTANTS
    Logins,      \* the requests
    Tokens,         \* [key, audience, expires, machine, subject, email, name]
    Audiences,      \* what audiencesFor answers on the requests' path
    KeyTTL,         \* keyTTL, in ticks
    FetchTimeout,   \* the HTTP client's timeout, in ticks
    MaxKeys, LastInstant        \* bounds

ASSUME AccessAssumption == Tokens # {} /\ KeyTTL \in Nat \ {0} /\ MaxKeys \in Nat \ {0} /\ LastInstant \in Nat

VARIABLES
    instant,    \* the time
    published,  \* the keys Cloudflare publishes
    withdrawn,  \* per key, the last instant it was published at
    cache,      \* [keys, at]: AccessValidator.keys, fetchedAt
    login       \* per request: [step, token, since, keys, forced]

accessVars == << instant, published, withdrawn, cache, login >>

Keys == 1..MaxKeys
Instants == 0..LastInstant
Arriving == [step |-> "new", token |-> CHOOSE t \in Tokens : TRUE, since |-> 0, keys |-> {}, forced |-> FALSE]

\* What a request that has its answer leaves behind.
Ended(answer) == [Arriving EXCEPT !.step = answer]

AccessKeysTypeOK ==
    /\ instant \in Instants /\ published \subseteq Keys
    /\ withdrawn \in [Keys -> Instants]
    /\ cache \in [keys : SUBSET Keys, at : Instants]
    /\ login \in [Logins -> [step : {"new", "fetch", "answer", "verify", "user", "service", "refused"},
                                token : Tokens, since : Instants, keys : SUBSET Keys, forced : BOOLEAN]]

AccessKeysInit ==
    /\ instant = 0 /\ published = {1}
    /\ withdrawn = [k \in Keys |-> 0]
    /\ cache = [keys |-> {}, at |-> 0]
    /\ login = [r \in Logins |-> Arriving]

-----------------------------------------------------------------------------
(* The edge and the clock.                                                  *)

\* Nothing is on the wire longer than the client's timeout.
Instant ==
    /\ instant < LastInstant
    /\ \A r \in Logins : login[r].step \in {"fetch", "answer"} => instant - login[r].since < FetchTimeout
    /\ instant' = instant + 1 /\ withdrawn' = [k \in Keys |-> IF k \in published THEN instant' ELSE withdrawn[k]]
    /\ UNCHANGED << published, cache, login >>

\* A rotation introduces the next key and keeps some of the old ones.
Rotate ==
    \E kept \in SUBSET published : LET new == Max(published) + 1 IN
        /\ new \in Keys
        /\ published' = kept \cup {new}
        /\ withdrawn' = [withdrawn EXCEPT ![new] = instant]
        /\ UNCHANGED << instant, cache, login >>

-----------------------------------------------------------------------------
(* Authenticate.                                                            *)

Fresh == cache.keys # {} /\ instant - cache.at < KeyTTL

\* The clock is read before the cache is.
Present(r, t) ==
    /\ login[r].step = "new"
    /\ login' = [login EXCEPT ![r] =
           IF Fresh
           THEN [@ EXCEPT !.step = "verify", !.token = t, !.since = instant, !.keys = cache.keys]
           ELSE [@ EXCEPT !.step = "fetch", !.token = t, !.since = instant]]
    /\ UNCHANGED << instant, published, withdrawn, cache >>

\* keySet could not fetch: an error, a bad answer, an empty set.
FetchFails(r) ==
    /\ login[r].step \in {"fetch", "answer"}
    /\ login' = [login EXCEPT ![r] = Ended("refused")]
    /\ UNCHANGED << instant, published, withdrawn, cache >>

\* Cloudflare answers with what it publishes; the answer is on its way.
FetchAnswers(r) ==
    /\ login[r].step = "fetch"
    /\ login' = [login EXCEPT ![r] = [@ EXCEPT !.step = "answer", !.keys = published]]
    /\ UNCHANGED << instant, published, withdrawn, cache >>

\* Mutation of StoreKeys: the set is kept under the time it arrived at.
StoreAsOfNow(r) ==
    /\ login[r].step = "answer"
    /\ cache' = [keys |-> login[r].keys, at |-> instant]
    /\ login' = [login EXCEPT ![r].step = "verify"]
    /\ UNCHANGED << instant, published, withdrawn >>

\* The answer is read and kept, over whatever others have put there meanwhile, under the
\* time the request was made at.
StoreKeys(r) ==
    /\ login[r].step = "answer"
    /\ cache' = [keys |-> login[r].keys, at |-> login[r].since]
    /\ login' = [login EXCEPT ![r].step = "verify"]
    /\ UNCHANGED << instant, published, withdrawn >>

\* Who the claims say it is: a machine, declared or known by having a name and no address,
\* or a person with a subject and an address.
IdentityOf(t) ==
    IF t.machine \/ (t.email = "" /\ t.name # "")
    THEN IF t.name = "" THEN "refused" ELSE "service"
    ELSE IF t.subject = "" \/ t.email = "" THEN "refused" ELSE "user"

Verify(r) ==
    LET q == login[r] IN
    /\ q.step = "verify"
    /\ login' = [login EXCEPT ![r] =
           CASE q.token.key \notin q.keys /\ ~q.forced -> [@ EXCEPT !.step = "fetch", !.since = instant, !.forced = TRUE]
             [] q.token.key \notin q.keys /\ q.forced -> Ended("refused")
             [] q.token.key \in q.keys /\ (q.token.audience \notin Audiences \/ instant > q.token.expires)
                -> Ended("refused")
             [] OTHER -> Ended(IdentityOf(q.token))]
    /\ UNCHANGED << instant, published, withdrawn, cache >>

Another(r) ==
    /\ login[r].step \in {"user", "service", "refused"}
    /\ login' = [login EXCEPT ![r] = Arriving]
    /\ UNCHANGED << instant, published, withdrawn, cache >>

AccessKeysNext ==
    \/ Instant \/ Rotate
    \/ \E r \in Logins :
        \/ \E t \in Tokens : Present(r, t)
        \/ FetchAnswers(r) \/ FetchFails(r) \/ StoreKeys(r) \/ Verify(r) \/ Another(r)

AccessKeysSpec == AccessKeysInit /\ [][AccessKeysNext]_accessVars

-----------------------------------------------------------------------------
(* What is checked.                                                         *)

\* access.go:60-63: however the requests interleave, and although a slower fetch may put
\* an older set over a newer one, with keys withdrawn while it was on its way, no request
\* is let in on a key that Cloudflare had stopped publishing a keyTTL before the request's
\* clock was read.
AcceptedKeyIsRecent ==
    [][\A r \in Logins : login[r].step = "verify" /\ login'[r].step \in {"user", "service"}
          => login[r].since < withdrawn[login[r].token.key] + KeyTTL]_accessVars
=============================================================================
