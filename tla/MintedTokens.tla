---------------------------- MODULE MintedTokens ----------------------------
(* Credentials minted elsewhere and kept for a while: the installation      *)
(* tokens of internal/githubapp/tokens.go, which any goroutine may mint     *)
(* because the lock is not held over the request, and the delegated tokens  *)
(* of internal/workspace/token.go, minted under theirs. A token is known by *)
(* what it reaches and when it really expires.                              *)
EXTENDS Integers

CONSTANTS
    Askers,         \* goroutines that ask for installation tokens
    Repositories,   \* what the installation covers
    Uncovered,      \* a name it does not
    Callers,        \* goroutines that ask for delegated tokens
    TokenLife, MinutesMargin, DelegatedMargin,  \* an hour, two minutes, a minute: in ticks
    MintTimeout,    \* the HTTP clients' timeout
    LastMoment      \* bound

\* The clients give up after twenty seconds, within the margins and the hour.
ASSUME MintedAssumption ==
    /\ TokenLife \in Nat /\ MinutesMargin \in Nat \ {0} /\ DelegatedMargin \in Nat /\ LastMoment \in Nat
    /\ MintTimeout \in Nat /\ MintTimeout < TokenLife /\ MintTimeout <= DelegatedMargin

VARIABLES
    moment,     \* the time
    installed,  \* Client.cached
    asker,      \* per asker: [step, scope, since, token]
    delegated,  \* DelegatedTokens.cached and expiry
    caller      \* per caller: [step, since, token]; the mutex is with whoever mints

mintedVars == << moment, installed, asker, delegated, caller >>

Moments == 0..(LastMoment + TokenLife + MintTimeout)
Everything == {}        \* the scope of a token minted for no repository in particular
NoToken == [scope |-> Everything, expires |-> -1]
NoAsk == [step |-> "idle", scope |-> Everything, since |-> 0, token |-> NoToken]
NoCall == [step |-> "idle", since |-> 0, token |-> -1]

TokenType == [scope : SUBSET (Repositories \cup {Uncovered}), expires : Moments \cup {-1}]
MintedTokensTypeOK ==
    /\ moment \in Moments /\ installed \in TokenType
    /\ asker \in [Askers -> [step : {"idle", "mint", "answered", "refused", "given"},
                             scope : SUBSET (Repositories \cup {Uncovered}), since : Moments, token : TokenType]]
    /\ delegated \in [token : Moments \cup {-1}, expiry : Moments \cup {-1}]
    /\ caller \in [Callers -> [step : {"idle", "mint", "minted", "given"}, since : Moments, token : Moments \cup {-1}]]

MintedTokensInit ==
    /\ moment = 0 /\ installed = NoToken
    /\ asker = [a \in Askers |-> NoAsk]
    /\ delegated = [token |-> -1, expiry |-> -1]
    /\ caller = [c \in Callers |-> NoCall]

\* A client gives a request up after its timeout; what holds a token uses it at once.
Moment ==
    /\ moment < LastMoment
    /\ \A a \in Askers : /\ asker[a].step \in {"mint", "answered"} => moment - asker[a].since < MintTimeout
                         /\ asker[a].step # "given"
    /\ \A c \in Callers : /\ caller[c].step \in {"mint", "minted"} => moment - caller[c].since < MintTimeout
                          /\ caller[c].step # "given"
    /\ moment' = moment + 1
    /\ UNCHANGED << installed, asker, delegated, caller >>

-----------------------------------------------------------------------------
(* InstallationToken, and the endpoint that mints for an execution cell.    *)

Expired(t) == moment > t.expires - MinutesMargin

Gives(a, t) ==
    asker' = [asker EXCEPT ![a] = [step |-> "given", scope |-> @.scope, since |-> @.since, token |-> t]]

\* The cache serves those who ask for no repository in particular, and only them.
AskForToken(a, scope) ==
    /\ asker[a].step = "idle"
    /\ asker' = [asker EXCEPT ![a] =
           IF scope = Everything /\ ~Expired(installed)
           THEN [step |-> "given", scope |-> scope, since |-> moment, token |-> installed]
           ELSE [step |-> "mint", scope |-> scope, since |-> moment, token |-> NoToken]]
    /\ UNCHANGED << moment, installed, delegated, caller >>

\* The endpoint names exactly one repository; anybody but a machine is refused before
\* any token is asked for.
CellAsks(a, repo) == AskForToken(a, {repo})

\* GitHub mints: 422 for a repository the installation does not cover.
GitHubMints(a) ==
    /\ asker[a].step = "mint"
    /\ asker' = [asker EXCEPT ![a] =
           IF Uncovered \in @.scope THEN [@ EXCEPT !.step = "refused"]
           ELSE [@ EXCEPT !.step = "answered", !.token = [scope |-> asker[a].scope, expires |-> moment + TokenLife]]]
    /\ UNCHANGED << moment, installed, delegated, caller >>

MintFails(a) ==
    /\ asker[a].step \in {"mint", "answered"}
    /\ asker' = [asker EXCEPT ![a] = [@ EXCEPT !.step = "refused", !.token = NoToken]]
    /\ UNCHANGED << moment, installed, delegated, caller >>

\* Keeps whatever was minted last.
KeepsAny(a) ==
    /\ asker[a].step = "answered"
    /\ installed' = asker[a].token
    /\ Gives(a, asker[a].token)
    /\ UNCHANGED << moment, delegated, caller >>

\* A narrowed token is not kept.
Receives(a) ==
    /\ asker[a].step = "answered"
    /\ installed' = IF asker[a].scope = Everything THEN asker[a].token ELSE installed
    /\ Gives(a, asker[a].token)
    /\ UNCHANGED << moment, delegated, caller >>

AskerDone(a) ==
    /\ asker[a].step \in {"given", "refused"}
    /\ asker' = [asker EXCEPT ![a] = NoAsk]
    /\ UNCHANGED << moment, installed, delegated, caller >>

-----------------------------------------------------------------------------
(* DelegatedTokens.Token: one at a time, the others wait on the mutex.      *)

\* No room for the token to be spent in.
DelegatedUntilExpiry == delegated.token # -1 /\ moment <= delegated.expiry

DelegatedIsGood == delegated.token # -1 /\ moment + DelegatedMargin < delegated.expiry

Call(c) ==
    /\ caller[c].step = "idle"
    /\ \A d \in Callers : caller[d].step \notin {"mint", "minted"}
    /\ caller' = [caller EXCEPT ![c] =
           IF DelegatedIsGood THEN [step |-> "given", since |-> moment, token |-> delegated.token]
           ELSE [step |-> "mint", since |-> moment, token |-> -1]]
    /\ UNCHANGED << moment, installed, asker, delegated >>

GoogleMints(c) ==
    /\ caller[c].step = "mint"
    /\ caller' = [caller EXCEPT ![c] = [step |-> "minted", since |-> @.since, token |-> moment + TokenLife]]
    /\ UNCHANGED << moment, installed, asker, delegated >>

\* The expiry is counted from the answer's arrival: later than Google counts it.
AnswerArrives(c) ==
    /\ caller[c].step = "minted"
    /\ delegated' = [token |-> caller[c].token, expiry |-> moment + TokenLife]
    /\ caller' = [caller EXCEPT ![c].step = "given"]
    /\ UNCHANGED << moment, installed, asker >>

CallFails(c) ==
    /\ caller[c].step \in {"mint", "minted"}
    /\ caller' = [caller EXCEPT ![c] = NoCall]
    /\ UNCHANGED << moment, installed, asker, delegated >>

CallerDone(c) ==
    /\ caller[c].step = "given"
    /\ caller' = [caller EXCEPT ![c] = NoCall]
    /\ UNCHANGED << moment, installed, asker, delegated >>

MintedTokensNext ==
    \/ Moment
    \/ \E a \in Askers : \/ AskForToken(a, Everything) \/ GitHubMints(a) \/ MintFails(a) \/ Receives(a) \/ AskerDone(a)
                         \/ \E r \in Repositories \cup {Uncovered} : CellAsks(a, r)
    \/ \E c \in Callers : Call(c) \/ GoogleMints(c) \/ AnswerArrives(c) \/ CallFails(c) \/ CallerDone(c)

MintedTokensSpec == MintedTokensInit /\ [][MintedTokensNext]_mintedVars

-----------------------------------------------------------------------------
(* What is checked.                                                         *)

\* tokens.go: a credential reaches what its asker named and no more, whoever else was
\* minting meanwhile: a cell's token never comes from, nor goes into, the shared cache.
TokenReachesWhatWasAsked ==
    \A a \in Askers : asker[a].step = "given" => asker[a].token.scope = asker[a].scope

\* A token that is handed out still works: the margins cover the time a mint takes on
\* the wire, although a delegated token's expiry is reckoned from when its answer came.
HandedOutIsLive ==
    /\ \A a \in Askers : asker[a].step = "given" => moment < asker[a].token.expires
    /\ \A c \in Callers : caller[c].step = "given" => moment < caller[c].token
=============================================================================
