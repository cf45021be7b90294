----------------------------- MODULE DeviceFlow -----------------------------
(***************************************************************************)
(* The device authorization grant: internal/tokens/device.go, the          *)
(* handlers under /v1/device, and the loop of `wg login --device`.         *)
(*                                                                         *)
(* A client without a credential asks for a grant, a person approves it,   *)
(* and the client collects a token.  A poll is three calls on the          *)
(* database -- read the grant, mint the token, bind it -- and an approval  *)
(* is a SELECT and an UPDATE, so everybody may come between.               *)
(***************************************************************************)
EXTENDS Naturals, FiniteSets, Sequences

CONSTANTS
    Grants,
    Signers,      \* who may approve, each with a session
    Clients,      \* clients that poll; they may share a device code
    CodeOf,       \* CodeOf[c]: the grant whose device code the client holds
    MaxGuesses,   \* failed_lookups at which a user code is dead
    MaxTokens     \* bound: tokens minted

ASSUME DeviceAssumption ==
    /\ MaxGuesses \in Nat \ {0} /\ MaxTokens \in Nat
    /\ CodeOf \in [Clients -> Grants]

VARIABLES
    grant,      \* grant[g]: its row in device_authorizations
    approving,  \* approving[u]: the grant system_device_approve has selected for u
    poll,       \* poll[c]: the poll of client c: its step, the approver it read, the token
    client,     \* client[c]: "waiting", "logged in" or "gone"
    token,      \* token[t]: owner and grant of a minted token, and whether it is revoked
    approvals   \* history: the (person, grant) pairs with an approval

deviceVars == << grant, approving, poll, client, token, approvals >>

Nobody == "nobody"
NoToken == 0
Unstarted == [at |-> "none", by |-> Nobody, token |-> NoToken, failed |-> 0]
NoPoll == [at |-> "idle", by |-> Nobody, token |-> NoToken]

DeviceInit ==
    /\ grant = [g \in Grants |-> Unstarted]
    /\ approving = [u \in Signers |-> Nobody]
    /\ poll = [c \in Clients |-> NoPoll]
    /\ client = [c \in Clients |-> "waiting"]
    /\ token = << >>
    /\ approvals = {}

\* system_device_start, for scopes a token may hold.
StartDevice(g) ==
    /\ grant[g].at = "none"
    /\ grant' = [grant EXCEPT ![g].at = "live"]
    /\ UNCHANGED << approving, poll, client, token, approvals >>

DeviceExpires(g) ==
    /\ grant[g].at = "live"
    /\ grant' = [grant EXCEPT ![g].at = "expired"]
    /\ UNCHANGED << approving, poll, client, token, approvals >>

\* A lookup that fails because the code is no longer good is counted on its row.
LookupFails(g) ==
    /\ grant[g].at # "none" /\ grant[g].failed < MaxGuesses
    /\ grant[g].at = "expired" \/ grant[g].token # NoToken
    /\ grant' = [grant EXCEPT ![g].failed = @ + 1]
    /\ UNCHANGED << approving, poll, client, token, approvals >>

\* system_device_approve: the SELECT looks for a live, unused, unapproved code ...
ApproveSelect(u, g) ==
    /\ approving[u] = Nobody
    /\ grant[g].at = "live" /\ grant[g].token = NoToken /\ grant[g].by = Nobody
    /\ grant[g].failed < MaxGuesses
    /\ approving' = [approving EXCEPT ![u] = g]
    /\ UNCHANGED << grant, poll, client, token, approvals >>

\* ... and the UPDATE asks for its id alone.
ApproveUpdate(u) ==
    /\ approving[u] # Nobody
    /\ grant' = [grant EXCEPT ![approving[u]].by = u]
    /\ approvals' = approvals \cup {<< u, approving[u] >>}
    /\ approving' = [approving EXCEPT ![u] = Nobody]
    /\ UNCHANGED << poll, client, token >>

\* system_device_poll.
Polled(g) ==
    IF grant[g].at = "none" \/ grant[g].token # NoToken THEN "invalid_grant"
    ELSE IF grant[g].at = "expired" THEN "expired_token"
    ELSE IF grant[g].by = Nobody THEN "authorization_pending" ELSE "approved"

Ends(c, how) == client' = [client EXCEPT ![c] = how] /\ poll' = [poll EXCEPT ![c] = NoPoll]

\* RedeemDevice, from its first call.  Pending is answered and the client asks again;
\* any other refusal ends the client's loop.
Poll(c) ==
    LET g == CodeOf[c] IN
    /\ client[c] = "waiting" /\ poll[c] = NoPoll /\ grant[g].at # "none"
    /\ CASE Polled(g) = "authorization_pending" -> UNCHANGED << client, poll >>
         [] Polled(g) = "approved" ->
                /\ poll' = [poll EXCEPT ![c] = [at |-> "approved", by |-> grant[g].by, token |-> NoToken]]
                /\ UNCHANGED client
         [] OTHER -> Ends(c, "gone")
    /\ UNCHANGED << grant, approving, token, approvals >>

\* Mint, in the approver's name.
MintForGrant(c) ==
    /\ poll[c].at = "approved" /\ Len(token) < MaxTokens
    /\ token' = Append(token, [owner |-> poll[c].by, grant |-> CodeOf[c], revoked |-> FALSE])
    /\ poll' = [poll EXCEPT ![c] = [at |-> "minted", by |-> @.by, token |-> Len(token')]]
    /\ UNCHANGED << grant, approving, client, approvals >>

\* The grant is bound to whatever token comes last.
BindableAgain(g) == grant[g].by # Nobody /\ grant[g].at = "live"

\* system_device_redeem: the WHERE clause is the lock.
Bindable(g) == grant[g].token = NoToken /\ grant[g].by # Nobody /\ grant[g].at = "live"

Bind(c) ==
    LET g == CodeOf[c] IN
    /\ poll[c].at = "minted"
    /\ IF Bindable(g)
       THEN /\ grant' = [grant EXCEPT ![g].token = poll[c].token]
            /\ poll' = [poll EXCEPT ![c].at = "bound"] /\ UNCHANGED client
       ELSE Ends(c, "gone") /\ UNCHANGED grant
    /\ UNCHANGED << approving, token, approvals >>

\* The answer reaches the client, which stores the secret.
HandOut(c) ==
    /\ poll[c].at = "bound"
    /\ client' = [client EXCEPT ![c] = "logged in"]
    /\ poll' = [poll EXCEPT ![c].at = "handed out"]
    /\ UNCHANGED << grant, approving, token, approvals >>

\* The database or the connection fails, or the client's deadline is over: the loop ends
\* on any answer it does not know.
PollFails(c) ==
    /\ client[c] = "waiting"
    /\ Ends(c, "gone")
    /\ UNCHANGED << grant, approving, token, approvals >>

\* The owner revokes a token, or its eight hours are over.
RevokeToken(t) ==
    /\ t \in DOMAIN token /\ ~token[t].revoked
    /\ token' = [token EXCEPT ![t].revoked = TRUE]
    /\ UNCHANGED << grant, approving, poll, client, approvals >>

DeviceNext ==
    \/ \E g \in Grants : StartDevice(g) \/ DeviceExpires(g) \/ LookupFails(g)
    \/ \E u \in Signers : (\E g \in Grants : ApproveSelect(u, g)) \/ ApproveUpdate(u)
    \/ \E c \in Clients :
        Poll(c) \/ MintForGrant(c) \/ Bind(c) \/ HandOut(c) \/ PollFails(c)
    \/ \E t \in 1..MaxTokens : RevokeToken(t)

DeviceSpec == DeviceInit /\ [][DeviceNext]_deviceVars

----------------------------------------------------------------------------
DeviceTypeOK ==
    /\ \A g \in Grants :
        /\ grant[g].at \in {"none", "live", "expired"}
        /\ grant[g].by \in Signers \cup {Nobody}
        /\ grant[g].token \in {NoToken} \cup DOMAIN token
        /\ grant[g].failed \in 0..MaxGuesses
    /\ \A u \in Signers : approving[u] \in Grants \cup {Nobody}
    /\ \A c \in Clients :
        /\ client[c] \in {"waiting", "logged in", "gone"}
        /\ poll[c].at \in {"idle", "approved", "minted", "bound", "handed out"}
        /\ poll[c].token \in {NoToken} \cup DOMAIN token
    /\ \A t \in DOMAIN token : token[t].owner \in Signers /\ token[t].grant \in Grants

HandedOut(g) == { c \in Clients : CodeOf[c] = g /\ poll[c].at \in {"bound", "handed out"} }

\* A grant yields one credential: whoever polls it and whatever fails, at most one client
\* holds a secret for it, that secret is the token the grant names, and it belongs to
\* somebody who approved this grant (RedeemDevice, "Bind last").
GrantYieldsOneToken ==
    \A g \in Grants :
        /\ Cardinality(HandedOut(g)) <= 1
        /\ \A c \in HandedOut(g) :
            /\ poll[c].token = grant[g].token
            /\ << token[poll[c].token].owner, g >> \in approvals
=============================================================================
