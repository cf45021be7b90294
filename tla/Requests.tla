------------------------------ MODULE Requests ------------------------------
(***************************************************************************)
(* A request to the control API from the socket to its answer: the         *)
(* authentication chain (internal/authn, internal/tokens), the checks of   *)
(* `enforced` in cmd/control-api, and withIdempotency around the writes.   *)
(*                                                                         *)
(* The calls of one person run concurrently, some with that person's token *)
(* and some with a session; the token may be revoked, and the process may  *)
(* be restarted, which empties the rate limiter and loses what was under   *)
(* way.  Lookup, effect and Record are three transactions.                 *)
(***************************************************************************)
EXTENDS Naturals, FiniteSets

CONSTANTS
    Calls,        \* HTTP requests, retries included
    Call,         \* Call[c]: via ("token" or "session"), route, item, body, key ("none" without)
    Scopes,       \* the actions the token holds
    ActionOf,     \* ActionOf[r]: the action a route needs
    Spending,     \* the routes that spend money
    Granted,      \* the actions the person's roles grant
    Enforce,      \* WG_AUTHZ_ENFORCE
    Rate,         \* rate_per_minute of the token
    DefaultRate,  \* the rate when the limits cannot be read
    Minute,       \* ticks in a minute
    LastTick      \* bound: the last tick

ASSUME RequestsAssumption ==
    /\ Rate \in Nat \ {0} /\ DefaultRate \in Nat \ {0}
    /\ Minute \in Nat \ {0} /\ LastTick \in Nat \ {0}
    /\ Enforce \in BOOLEAN /\ IsFiniteSet(Calls)

VARIABLES
    tokenLive,  \* neither revoked nor expired, and its owner is active
    exceeded,   \* the recorded spend of today has reached the cap
    window,     \* the token's window in the limiter: start and count, or NoWindow
    stage,      \* stage[c]: how far the request has come
    answer,     \* answer[c]: what its caller got
    performed,  \* the (route, item) pairs that have taken effect
    ran,        \* history: the calls whose handler succeeded
    recorded,   \* idempotency_keys: key, route, body, and (history) the call it answers
    replayed,   \* history: replayed[c], the call whose answer c was given
    now

requestsVars ==
    << tokenLive, exceeded, window, stage, answer, performed, ran, recorded, replayed, now >>

NoWindow == [start |-> 0, count |-> 0]
CallStages == {"new", "known", "admitted", "acting", "recording", "over"}
Answers == {"none", "401", "403", "409", "429", "500", "refused", "ok"}

RequestsInit ==
    /\ tokenLive = TRUE /\ exceeded = FALSE /\ window = NoWindow
    /\ stage = [c \in Calls |-> "new"] /\ answer = [c \in Calls |-> "none"]
    /\ performed = {} /\ ran = {} /\ recorded = {}
    /\ replayed = [c \in Calls |-> c]
    /\ now = 1

AnswerWith(c, a) ==
    /\ stage' = [stage EXCEPT ![c] = "over"]
    /\ answer' = [answer EXCEPT ![c] = a]

Advance(c, s) == stage' = [stage EXCEPT ![c] = s] /\ UNCHANGED answer

\* BearerAuthenticator: the token is looked up on every request.
TokenAccepted(c) == Call[c].via = "token" /\ tokenLive

\* A session is Cloudflare's business, and its user is resolved from it.
SessionAccepted(c) == Call[c].via = "session"

\* Chain: the first authenticator that recognises the credential answers for it.
Recognised(c) == SessionAccepted(c) \/ TokenAccepted(c)

Authenticate(c) ==
    /\ stage[c] = "new"
    /\ IF Recognised(c) THEN Advance(c, "known") ELSE AnswerWith(c, "401")
    /\ UNCHANGED << tokenLive, exceeded, window, performed, ran, recorded, replayed, now >>

\* Limiter.Allow on the token's fixed window.
FreshWindow == window.count = 0 \/ now - window.start >= Minute

Allowed(rate) == FreshWindow \/ window.count < rate
Counted == IF FreshWindow THEN [start |-> now, count |-> 1] ELSE [window EXCEPT !.count = @ + 1]

RoleMissing(c) == Enforce /\ ActionOf[Call[c].route] \notin Granted
OverCap(c) == exceeded /\ Call[c].route \in Spending

\* enforced, for a session: checkRouteAction permits it, nothing meters it.
EnforceSession(c) ==
    /\ stage[c] = "known" /\ Call[c].via = "session"
    /\ IF RoleMissing(c) THEN AnswerWith(c, "403") ELSE Advance(c, "admitted")
    /\ UNCHANGED << tokenLive, exceeded, window, performed, ran, recorded, replayed, now >>

\* enforced, for a token.  When the limits cannot be read the default rate applies and
\* the cap is not known.
EnforceToken(c, limitsRead) ==
    /\ stage[c] = "known" /\ Call[c].via = "token"
    /\ IF ActionOf[Call[c].route] \notin Scopes
       THEN AnswerWith(c, "403") /\ UNCHANGED window
       ELSE IF ~Allowed(IF limitsRead THEN Rate ELSE DefaultRate)
       THEN AnswerWith(c, "429") /\ UNCHANGED window
       ELSE /\ window' = Counted
            /\ IF (limitsRead /\ OverCap(c)) \/ RoleMissing(c)
               THEN AnswerWith(c, "403") ELSE Advance(c, "admitted")
    /\ UNCHANGED << tokenLive, exceeded, performed, ran, recorded, replayed, now >>

\* Lookup does not compare the body.
LookUpByRoute(c) ==
    /\ stage[c] = "admitted"
    /\ IF \A r \in recorded : r.key # Call[c].key
       THEN Advance(c, "acting") /\ UNCHANGED replayed
       ELSE LET r == CHOOSE r \in recorded : r.key = Call[c].key
            IN  IF r.route # Call[c].route
                THEN AnswerWith(c, "409") /\ UNCHANGED replayed
                ELSE AnswerWith(c, "ok") /\ replayed' = [replayed EXCEPT ![c] = r.of]
    /\ UNCHANGED << tokenLive, exceeded, window, performed, ran, recorded, now >>

\* withIdempotency: the recorded response of the key, a conflict, or the handler.
LookUp(c) ==
    /\ stage[c] = "admitted"
    /\ IF \A r \in recorded : r.key # Call[c].key
       THEN Advance(c, "acting") /\ UNCHANGED replayed
       ELSE LET r == CHOOSE r \in recorded : r.key = Call[c].key
            IN  IF r.route # Call[c].route \/ r.body # Call[c].body
                THEN AnswerWith(c, "409") /\ UNCHANGED replayed
                ELSE AnswerWith(c, "ok") /\ replayed' = [replayed EXCEPT ![c] = r.of]
    /\ UNCHANGED << tokenLive, exceeded, window, performed, ran, recorded, now >>

\* The handler: what was already done is refused, as for an item already resolved.
Perform(c) ==
    LET effect == << Call[c].route, Call[c].item >>
    IN  /\ stage[c] = "acting"
        /\ IF effect \in performed
           THEN AnswerWith(c, "refused") /\ UNCHANGED << performed, ran >>
           ELSE /\ performed' = performed \cup {effect} /\ ran' = ran \cup {c}
                /\ Advance(c, "recording")
        /\ UNCHANGED << tokenLive, exceeded, window, recorded, replayed, now >>

\* The handler, or the database under it, fails before it has any effect.
PerformFails(c) ==
    /\ stage[c] \in {"admitted", "acting"}
    /\ AnswerWith(c, "500")
    /\ UNCHANGED << tokenLive, exceeded, window, performed, ran, recorded, replayed, now >>

\* Record: ON CONFLICT DO NOTHING, and a failure is only logged.
Keep(c) ==
    IF Call[c].key = "none" \/ \E r \in recorded : r.key = Call[c].key THEN recorded
    ELSE recorded \cup
         {[key |-> Call[c].key, route |-> Call[c].route, body |-> Call[c].body, of |-> c]}

Record(c) ==
    /\ stage[c] = "recording"
    /\ recorded' \in {recorded, Keep(c)}
    /\ AnswerWith(c, "ok")
    /\ UNCHANGED << tokenLive, exceeded, window, performed, ran, replayed, now >>

\* Store.Revoke, an expiry, or a suspended owner.
Revoke ==
    /\ tokenLive /\ tokenLive' = FALSE
    /\ UNCHANGED << exceeded, window, stage, answer, performed, ran, recorded, replayed, now >>

SpendLands ==
    /\ ~exceeded /\ exceeded' = TRUE
    /\ UNCHANGED << tokenLive, window, stage, answer, performed, ran, recorded, replayed, now >>

\* A deploy restarts the process: its windows are gone, its requests are not answered.
RestartApi ==
    /\ window # NoWindow
    /\ window' = NoWindow
    /\ stage' = [c \in Calls |-> IF stage[c] = "new" THEN "new" ELSE "over"]
    /\ UNCHANGED << tokenLive, exceeded, answer, performed, ran, recorded, replayed, now >>

RequestsTick ==
    /\ now < LastTick /\ now' = now + 1
    /\ UNCHANGED << tokenLive, exceeded, window, stage, answer, performed, ran, recorded, replayed >>

RequestsNext ==
    \/ \E c \in Calls :
        \/ Authenticate(c) \/ EnforceSession(c)
        \/ \E limitsRead \in BOOLEAN : EnforceToken(c, limitsRead)
        \/ LookUp(c) \/ Perform(c) \/ PerformFails(c) \/ Record(c)
    \/ Revoke \/ SpendLands \/ RestartApi \/ RequestsTick

RequestsSpec == RequestsInit /\ [][RequestsNext]_requestsVars

----------------------------------------------------------------------------
RequestsTypeOK ==
    /\ tokenLive \in BOOLEAN /\ exceeded \in BOOLEAN
    /\ window \in [start : 0..LastTick, count : 0..Cardinality(Calls)]
    /\ stage \in [Calls -> CallStages] /\ answer \in [Calls -> Answers]
    /\ ran \subseteq Calls
    /\ \A r \in recorded : r.of \in Calls
    /\ replayed \in [Calls -> Calls]
    /\ now \in 1..LastTick

\* Whoever is told "done" is given the answer of a run of the handler that took
\* effect: the call's own run, for its own item, or one recorded under the same key for
\* the same route and body, whatever raced, failed or was lost (withIdempotency).  The
\* item of a replayed run may be another: the key does not cover it.
SuccessIsBackedByARun ==
    \A c \in Calls : answer[c] = "ok" =>
        LET d == replayed[c]
        IN  /\ d \in ran /\ << Call[d].route, Call[d].item >> \in performed
            /\ d = c \/ Call[c].key = Call[d].key
            /\ Call[d].route = Call[c].route /\ Call[d].body = Call[c].body

\* "same key, DIFFERENT request  409, and the handler does not run" (idempotency.go): a
\* recorded response is given to the request it was recorded for.
ReplayAnswersItsRequest ==
    \A c \in Calls :
        /\ Call[replayed[c]].route = Call[c].route
        /\ Call[replayed[c]].body = Call[c].body
        /\ Call[replayed[c]].item = Call[c].item
=============================================================================
