--------------------------- MODULE MCIntegrations ---------------------------
(* What reaches out to GitHub, Google and Cloudflare, each part on a small  *)
(* instance of its own: a behaviour is one of `area`'s, the others stand.   *)
(* The two kinds of minted token share their module and no state, so that   *)
(* they are two areas.                                                      *)
EXTENDS Subscriptions, Publishing, AccessKeys, MintedTokens

CONSTANTS d1, n1, n2, n3, m1,   \* a source, Google's names, a message
          in1, in2,             \* logins
          ask1, ask2, cal1, cal2

VARIABLE area

integrationsVars == << area, subscriptionsVars, publishingVars, accessVars, mintedVars >>

MCKindOfSource == [s \in Sources |-> "drive"]
\* Project q has an accepted task that no graph may hold, and a decision; so it has no graph.
MCProjectOf == [c \in Candidates |-> IF c \in {1, 5} THEN "q" ELSE "p"]

Token(key, audience, expires, machine, person, name) ==
    [key |-> key, audience |-> audience, expires |-> expires, machine |-> machine,
     subject |-> person, email |-> person, name |-> name]

\* A person's token, the same for another application, a machine's on the next key, and
\* one that says it is a machine's and does not say which.
MCTokens ==
    { Token(1, "ours", 9, FALSE, "s", ""), Token(1, "theirs", 9, FALSE, "s", ""),
      Token(2, "ours", 2, FALSE, "", "n"), Token(2, "ours", 9, TRUE, "s", "") }

Stand(a) ==
    /\ UNCHANGED area
    /\ a # "subscriptions" => UNCHANGED subscriptionsVars
    /\ a # "publishing" => UNCHANGED publishingVars
    /\ a # "keys" => UNCHANGED accessVars
    /\ a = "installation" => UNCHANGED << delegated, caller >>
    /\ a = "delegation" => UNCHANGED << installed, asker >>
    /\ a \notin {"installation", "delegation"} => UNCHANGED mintedVars

IntegrationsInit ==
    /\ area \in {"subscriptions", "publishing", "keys", "installation", "delegation"}
    /\ SubscriptionsInit /\ PublishingInit /\ AccessKeysInit /\ MintedTokensInit

IntegrationsNext ==
    \/ area = "subscriptions" /\ SubscriptionsNext /\ Stand("subscriptions")
    \/ area = "publishing" /\ PublishingNext /\ Stand("publishing")
    \/ area = "keys" /\ AccessKeysNext /\ Stand("keys")
    \/ area = "installation" /\ MintedTokensNext /\ Stand("installation")
    \/ area = "delegation" /\ MintedTokensNext /\ Stand("delegation")

Fair(a, step) == area = a /\ step /\ Stand(a)

\* Every timer fires again and again and its unit's deadline ends the pass; Google
\* settles an operation it accepted.
IntegrationsFairness ==
    /\ WF_integrationsVars(Fair("subscriptions", PassSteps))
    /\ WF_integrationsVars(Fair("subscriptions", Tick))
    /\ \A n \in Names : WF_integrationsVars(Fair("subscriptions", CreateFinishes(n)))
    /\ WF_integrationsVars(Fair("publishing", PublisherSteps))

IntegrationsSpec == IntegrationsInit /\ [][IntegrationsNext]_integrationsVars /\ IntegrationsFairness

\* Every variable of every part has its type.
IntegrationsTypesOK ==
    /\ SubscriptionsTypeOK /\ PublishingTypeOK
    /\ AccessKeysTypeOK /\ MintedTokensTypeOK

\* The liveness of the parts, of the behaviours that are theirs: internal/workspace's
\* lifecycle.go, internal/publish's passes.
SourceStaysSubscribed == area = "subscriptions" => SourcesStaySubscribed
CandidateBecomesWork == area = "publishing" => AcceptedBecomesWork
=============================================================================
