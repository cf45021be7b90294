--------------------------- MODULE AuthorityProofs ----------------------------
(***************************************************************************)
(* Who may do what: the status of a request is justified by its decisions, *)
(* a grant yields one credential, and the owners of a project hold their   *)
(* roles, for every number of approvers, clients, people and failures.     *)
(***************************************************************************)
EXTENDS Approvals, DeviceFlow, Projects, FiniteSetTheorems, SequenceTheorems, TLAPS

(***************************************************************************)
(* Approvals.                                                              *)
(***************************************************************************)

\* Who decides did not raise the request.
NotTheRequester ==
    \A u \in Approvers : deciding[u] # Idle \/ decisions[u] # "none" => u # Requester

\* What an open transaction will make of the request is borne out by what it has seen, and
\* its decision is not there yet: nobody decides twice.
SetsWhatItSaw ==
    \A u \in Approvers : deciding[u].at = "written" =>
        /\ decisions[u] = "none"
        /\ deciding[u].sets \in {"nothing", "approved", "rejected"}
        /\ deciding[u].sets = "approved" =>
              deciding[u].verdict = "approve" /\ Cardinality(Seen(u, "approve")) >= RequiredApprovals
        /\ deciding[u].sets = "rejected" => deciding[u].verdict = "reject"

DecisionsInv == ApprovalsTypeOK /\ NotTheRequester /\ SetsWhatItSaw /\ StatusIsJustified

\* The approvals committed are finitely many, and one more does not make them fewer.
LEMMA ApprovalsAreCounted ==
  ASSUME NEW S \in SUBSET Approvers, NEW T \in SUBSET S
  PROVE  Cardinality(T) \in Nat /\ Cardinality(S) \in Nat /\ Cardinality(T) <= Cardinality(S)
  BY ApprovalsAssumption, FS_Subset, FS_CardinalityType

\* What a transaction has seen only grows while others commit.
LEMMA SeenGrows ==
  ASSUME DecisionsInv, NEW u \in Approvers, Cardinality(Seen(u, "approve")) >= RequiredApprovals,
         Recorded \subseteq Recorded'
  PROVE  Cardinality(Seen(u, "approve")') >= RequiredApprovals
<1>1. Seen(u, "approve") \subseteq Seen(u, "approve")' /\ Seen(u, "approve")' \subseteq Approvers
  BY DEF Seen, Recorded
<1> QED
  BY <1>1, ApprovalsAreCounted, ApprovalsAssumption

\* The initial state satisfies the invariant.
LEMMA DecisionsInit ==
  ASSUME ApprovalsInit
  PROVE  DecisionsInv
<1>1. ApprovalsTypeOK
  BY DEF ApprovalsInit, ApprovalsTypeOK, RequestStatuses, Verdict
<1> QED
  BY <1>1 DEF ApprovalsInit, DecisionsInv, NotTheRequester, SetsWhatItSaw, StatusIsJustified, Idle

\* An action that leaves the decisions and the transactions alone keeps the invariant if
\* it keeps the types and makes the request neither approved nor rejected.
LEMMA OutsideTheTransactions ==
  ASSUME DecisionsInv, ApprovalsTypeOK', UNCHANGED << decisions, deciding >>,
         request' = request \/ request' = "invalidated"
  PROVE  DecisionsInv'
<1>1. NotTheRequester' /\ SetsWhatItSaw'
  BY DEF DecisionsInv, NotTheRequester, SetsWhatItSaw, Seen
<1>2. StatusIsJustified'
  BY DEF DecisionsInv, StatusIsJustified, Recorded
<1> QED
  BY <1>1, <1>2 DEF DecisionsInv

\* Every step keeps the invariant.
LEMMA DecisionsStep ==
  ASSUME DecisionsInv, [ApprovalsNext]_approvalsVars
  PROVE  DecisionsInv'
<1> USE DEF Verdict, RequestStatuses
<1>1. ASSUME NEW u \in Approvers, NEW verdict \in Verdict, NEW seen \in Digests \cup {"none"},
             DecideReads(u, verdict, seen)
      PROVE  DecisionsInv'
  <2>1. deciding' = [deciding EXCEPT ![u] = [at |-> "read", verdict |-> verdict, sets |-> "nothing"]]
        /\ UNCHANGED << request, digest, action, windowOver, decisions >> /\ u # Requester
    BY <1>1 DEF DecideReads
  <2>2. ApprovalsTypeOK'
    BY <2>1 DEF DecisionsInv, ApprovalsTypeOK, Steps
  <2>3. NotTheRequester'
    BY <2>1 DEF DecisionsInv, ApprovalsTypeOK, NotTheRequester
  <2>4. SetsWhatItSaw'
    BY <2>1 DEF DecisionsInv, ApprovalsTypeOK, SetsWhatItSaw, Seen
  <2>5. StatusIsJustified'
    BY <2>1 DEF DecisionsInv, StatusIsJustified, Recorded
  <2> QED
    BY <2>2, <2>3, <2>4, <2>5 DEF DecisionsInv
<1>2. ASSUME NEW u \in Approvers, DecideWrites(u)
      PROVE  DecisionsInv'
  <2>1. deciding[u] \in Steps /\ deciding[u] # Idle
    BY <1>2 DEF DecideWrites, DecisionsInv, ApprovalsTypeOK, Idle
  <2>2. Outcome(u) \in {"nothing", "approved", "rejected"}
    BY DEF Outcome
  <2>3. deciding' = [deciding EXCEPT ![u] = [at |-> "written", verdict |-> deciding[u].verdict, sets |-> Outcome(u)]]
    BY <1>2 DEF DecideWrites
  <2>4. UNCHANGED << request, digest, action, windowOver, decisions >> /\ decisions[u] = "none"
    BY <1>2 DEF DecideWrites
  <2>5. ApprovalsTypeOK'
    BY <2>1, <2>2, <2>3, <2>4 DEF DecisionsInv, ApprovalsTypeOK, Steps
  <2>6. NotTheRequester'
    BY <2>1, <2>3, <2>4 DEF DecisionsInv, ApprovalsTypeOK, NotTheRequester
  <2>7. SetsWhatItSaw'
    <3>1. /\ Outcome(u) = "approved" =>
                deciding[u].verdict # "reject" /\ Cardinality(Seen(u, "approve")) >= RequiredApprovals
          /\ Outcome(u) = "rejected" => deciding[u].verdict = "reject"
      BY DEF Outcome
    <3>2. deciding[u].verdict \in Verdict
      BY <1>2, <2>1 DEF Steps, Idle, DecideWrites
    <3>3. deciding'[u].sets = Outcome(u) /\ deciding'[u].verdict = deciding[u].verdict
      BY <2>3 DEF DecisionsInv, ApprovalsTypeOK
    <3>4. \A v \in Approvers \ {u} : deciding'[v] = deciding[v]
      BY <2>3 DEF DecisionsInv, ApprovalsTypeOK
    <3>5. \A v \in Approvers : Seen(v, "approve")' = Seen(v, "approve")
      BY <2>4 DEF Seen
    <3>6. ASSUME NEW v \in Approvers, deciding'[v].at = "written"
          PROVE  /\ decisions'[v] = "none"
                 /\ deciding'[v].sets \in {"nothing", "approved", "rejected"}
                 /\ deciding'[v].sets = "approved" =>
                       deciding'[v].verdict = "approve" /\ Cardinality(Seen(v, "approve")) >= RequiredApprovals
                 /\ deciding'[v].sets = "rejected" => deciding'[v].verdict = "reject"
      <4>1. CASE v = u
        BY <2>2, <2>4, <3>1, <3>2, <3>3, <4>1
      <4>2. CASE v # u
        BY <2>4, <3>4, <3>6, <4>2 DEF DecisionsInv, SetsWhatItSaw
      <4> QED
        BY <4>1, <4>2
    <3> QED
      BY <3>5, <3>6 DEF SetsWhatItSaw
  <2>8. StatusIsJustified'
    BY <2>4 DEF DecisionsInv, StatusIsJustified, Recorded
  <2> QED
    BY <2>5, <2>6, <2>7, <2>8 DEF DecisionsInv
<1>3. ASSUME NEW u \in Approvers, DecideCommits(u)
      PROVE  DecisionsInv'
  <2>1. deciding[u] \in Steps /\ deciding[u] # Idle /\ decisions[u] = "none" /\ u # Requester
    BY <1>3 DEF DecideCommits, DecisionsInv, ApprovalsTypeOK, Idle, SetsWhatItSaw, NotTheRequester
  <2>2. /\ decisions' = [decisions EXCEPT ![u] = deciding[u].verdict]
        /\ request' = IF deciding[u].sets = "nothing" THEN request ELSE deciding[u].sets
        /\ deciding' = [deciding EXCEPT ![u] = Idle]
        /\ UNCHANGED << digest, action, windowOver >>
    BY <1>3 DEF DecideCommits
  <2>3. ApprovalsTypeOK'
    BY <2>1, <2>2 DEF DecisionsInv, ApprovalsTypeOK, Steps
  <2>4. NotTheRequester'
    BY <2>1, <2>2 DEF DecisionsInv, ApprovalsTypeOK, NotTheRequester
  <2>5. Recorded \subseteq Recorded' /\ Recorded' \subseteq Approvers
    BY <2>1, <2>2 DEF DecisionsInv, ApprovalsTypeOK, Recorded
  <2>6. SetsWhatItSaw'
    <3> SUFFICES ASSUME NEW v \in Approvers, deciding[v]'.at = "written"
                 PROVE  /\ decisions[v]' = "none"
                        /\ deciding[v]'.sets \in {"nothing", "approved", "rejected"}
                        /\ deciding[v]'.sets = "approved" =>
                              deciding[v]'.verdict = "approve" /\ Cardinality(Seen(v, "approve")') >= RequiredApprovals
                        /\ deciding[v]'.sets = "rejected" => deciding[v]'.verdict = "reject"
      BY DEF SetsWhatItSaw, Seen
    <3>1. v # u
      BY <2>2 DEF Idle, DecisionsInv, ApprovalsTypeOK
    <3>2. deciding[v]' = deciding[v] /\ decisions[v]' = decisions[v]
      BY <2>2, <3>1 DEF DecisionsInv, ApprovalsTypeOK
    <3>3. deciding[v].sets = "approved" => Cardinality(Seen(v, "approve")') >= RequiredApprovals
      BY <2>5, <3>2, SeenGrows DEF DecisionsInv, SetsWhatItSaw
    <3> QED
      BY <3>2, <3>3 DEF DecisionsInv, SetsWhatItSaw
  <2>7. StatusIsJustified'
    <3>1. Recorded' \ {Requester} = Recorded' /\ Recorded \ {Requester} = Recorded
      BY <2>4 DEF DecisionsInv, NotTheRequester, Recorded
    <3>2. CASE deciding[u].sets = "nothing"
      <4>1. request' = "approved" => Cardinality(Recorded') >= RequiredApprovals
        BY <2>2, <2>5, <3>1, <3>2, ApprovalsAreCounted, ApprovalsAssumption DEF DecisionsInv, StatusIsJustified
      <4>2. request' = "rejected" => \E v \in Approvers : decisions'[v] = "reject"
        BY <2>1, <2>2, <3>2 DEF DecisionsInv, ApprovalsTypeOK, StatusIsJustified
      <4> QED
        BY <3>1, <4>1, <4>2 DEF StatusIsJustified
    <3>3. CASE deciding[u].sets = "approved"
      <4>1. deciding[u].verdict = "approve" /\ Cardinality(Seen(u, "approve")) >= RequiredApprovals
        BY <1>3, <3>3 DEF DecideCommits, DecisionsInv, SetsWhatItSaw
      <4>2. Recorded' = Seen(u, "approve")
        BY <2>1, <2>2, <4>1 DEF DecisionsInv, ApprovalsTypeOK, Recorded, Seen
      <4> QED
        BY <2>2, <3>1, <3>3, <4>1, <4>2 DEF StatusIsJustified
    <3>4. CASE deciding[u].sets = "rejected"
      BY <1>3, <2>2, <3>4 DEF DecideCommits, DecisionsInv, ApprovalsTypeOK, SetsWhatItSaw, StatusIsJustified
    <3> QED
      BY <1>3, <3>2, <3>3, <3>4 DEF DecideCommits, DecisionsInv, SetsWhatItSaw
  <2> QED
    BY <2>3, <2>4, <2>6, <2>7 DEF DecisionsInv
<1>4. ASSUME NEW u \in Approvers, DecideRollsBack(u)
      PROVE  DecisionsInv'
  <2>1. deciding' = [deciding EXCEPT ![u] = Idle] /\ UNCHANGED << request, digest, action, windowOver, decisions >>
    BY <1>4 DEF DecideRollsBack
  <2>2. ApprovalsTypeOK'
    BY <2>1 DEF DecisionsInv, ApprovalsTypeOK
  <2>3. NotTheRequester' /\ SetsWhatItSaw'
    BY <2>1 DEF DecisionsInv, ApprovalsTypeOK, NotTheRequester, SetsWhatItSaw, Seen, Idle
  <2>4. StatusIsJustified'
    BY <2>1 DEF DecisionsInv, StatusIsJustified, Recorded
  <2> QED
    BY <2>2, <2>3, <2>4 DEF DecisionsInv
<1>5. CASE Invalidate
  <2>1. ApprovalsTypeOK'
    BY <1>5 DEF DecisionsInv, ApprovalsTypeOK, Invalidate
  <2> QED
    BY <1>5, <2>1, OutsideTheTransactions DEF Invalidate
<1>6. CASE ActionChanges \/ WindowEnds \/ UNCHANGED approvalsVars
  <2>1. ApprovalsTypeOK'
    BY <1>6 DEF DecisionsInv, ApprovalsTypeOK, ActionChanges, WindowEnds, approvalsVars
  <2> QED
    BY <1>6, <2>1, OutsideTheTransactions DEF ActionChanges, WindowEnds, approvalsVars
<1> QED
  BY <1>1, <1>2, <1>3, <1>4, <1>5, <1>6 DEF ApprovalsNext

\* An approved request has its quorum of people other than the requester, and a rejected
\* one has a rejection, whatever transactions interleave (Decide).
THEOREM StatusInvariant == ApprovalsSpec => []StatusIsJustified
<1>1. DecisionsInv => StatusIsJustified
  BY DEF DecisionsInv
<1> QED
  BY <1>1, DecisionsInit, DecisionsStep, PTL DEF ApprovalsSpec

(***************************************************************************)
(* Device grants.                                                          *)
(***************************************************************************)

Person == Signers \cup {Nobody}
GrantRow == [at : {"none", "live", "expired"}, by : Person, token : Nat, failed : Nat]
PollStep == [at : {"idle", "approved", "minted", "bound", "handed out"}, by : Person, token : Nat]
TokenRow == [owner : Person, grant : Grants, revoked : BOOLEAN]

FlowTypes ==
    /\ grant \in [Grants -> GrantRow]
    /\ approving \in [Signers -> Grants \cup {Nobody}]
    /\ poll \in [Clients -> PollStep]
    /\ token \in Seq(TokenRow)

\* Whom a grant names as its approver, approved it.
ApproverApproved ==
    \A g \in Grants : grant[g].by # Nobody => << grant[g].by, g >> \in approvals

\* The approver a poll has read approved the grant, although the grant may name another by now.
PolledInAName ==
    \A c \in Clients : poll[c].at # "idle" => << poll[c].by, CodeOf[c] >> \in approvals

\* The steps of a poll that has minted.
Holding == {"minted", "bound", "handed out"}

\* A poll that minted holds a token in the name it read.
MintedInAName ==
    \A c \in Clients : poll[c].at \in Holding =>
        poll[c].token \in 1..Len(token) /\ token[poll[c].token].owner = poll[c].by

\* No two polls hold the same token.
MintedOwn ==
    \A c, d \in Clients : poll[c].at \in Holding /\ poll[d].at \in Holding /\ c # d => poll[c].token # poll[d].token

\* What was bound is the token the grant names.
BoundIsNamed ==
    \A c \in Clients : poll[c].at \in {"bound", "handed out"} => grant[CodeOf[c]].token = poll[c].token

FlowInv == FlowTypes /\ ApproverApproved /\ PolledInAName /\ MintedInAName /\ MintedOwn /\ BoundIsNamed

\* The number of a token is not the number of none.
LEMMA NumberedFromOne ==
  ASSUME NEW n \in Nat, NEW t \in 1..n
  PROVE  t # NoToken
  BY DEF NoToken

\* The initial state satisfies the invariant.
LEMMA FlowInit ==
  ASSUME DeviceInit
  PROVE  FlowInv
<1>1. FlowTypes
  BY DEF DeviceInit, FlowTypes, Person, GrantRow, PollStep, TokenRow, Unstarted, NoPoll, NoToken
<1>2. (\A g \in Grants : grant[g].by = Nobody) /\ (\A c \in Clients : poll[c].at = "idle")
  BY DEF DeviceInit, Unstarted, NoPoll
<1> QED
  BY <1>1, <1>2 DEF FlowInv, ApproverApproved, PolledInAName, MintedInAName, MintedOwn, BoundIsNamed, Holding

\* Nothing but the rows of the grants changes, and no row's approver or token.
LEMMA RowsChange ==
  ASSUME FlowInv, NEW g \in Grants, NEW r \in GrantRow,
         r.by = grant[g].by, r.token = grant[g].token,
         grant' = [grant EXCEPT ![g] = r], UNCHANGED << approving, poll, token, approvals >>
  PROVE  FlowInv'
<1>1. grant' \in [Grants -> GrantRow]
      /\ \A h \in Grants : grant'[h].by = grant[h].by /\ grant'[h].token = grant[h].token
  BY DEF FlowInv, FlowTypes
<1>2. FlowTypes'
  BY <1>1 DEF FlowInv, FlowTypes
<1>3. ApproverApproved'
  BY <1>1 DEF FlowInv, ApproverApproved
<1>4. PolledInAName' /\ MintedInAName' /\ MintedOwn'
  BY DEF FlowInv, PolledInAName, MintedInAName, MintedOwn, Holding
<1>5. BoundIsNamed'
  BY <1>1, DeviceAssumption DEF FlowInv, BoundIsNamed
<1> QED
  BY <1>2, <1>3, <1>4, <1>5 DEF FlowInv

\* A step that ends a poll, or leaves the polls alone, and touches neither tokens nor the
\* names on a grant keeps the invariant.
LEMMA PollEnds ==
  ASSUME FlowInv, NEW c \in Clients, Ends(c, "gone"), UNCHANGED << grant, approving, token, approvals >>
  PROVE  FlowInv'
<1>1. poll' = [poll EXCEPT ![c] = NoPoll] /\ poll'[c].at = "idle" /\ \A d \in Clients \ {c} : poll'[d] = poll[d]
  BY DEF Ends, NoPoll, FlowInv, FlowTypes
<1>2. FlowTypes'
  BY <1>1 DEF FlowInv, FlowTypes, NoPoll, PollStep, Person, NoToken
<1>3. ApproverApproved' /\ BoundIsNamed'
  BY <1>1 DEF FlowInv, ApproverApproved, BoundIsNamed
<1>4. PolledInAName'
  BY <1>1 DEF FlowInv, PolledInAName
<1>5. \A d \in Clients : poll'[d].at \in Holding => poll[d].at \in Holding /\ poll'[d] = poll[d]
  BY <1>1 DEF Holding
<1>6. MintedInAName'
  BY <1>5 DEF FlowInv, MintedInAName
<1>7. MintedOwn'
  BY <1>5 DEF FlowInv, MintedOwn
<1> QED
  BY <1>2, <1>3, <1>4, <1>6, <1>7 DEF FlowInv

\* Every step keeps the invariant.
LEMMA FlowStep ==
  ASSUME FlowInv, [DeviceNext]_deviceVars
  PROVE  FlowInv'
<1> USE DeviceAssumption
<1>0. grant \in [Grants -> GrantRow] /\ poll \in [Clients -> PollStep] /\ token \in Seq(TokenRow)
  BY DEF FlowInv, FlowTypes
<1>1. ASSUME NEW g \in Grants, StartDevice(g) \/ DeviceExpires(g) \/ LookupFails(g)
      PROVE  FlowInv'
  <2>1. UNCHANGED << approving, poll, token, approvals >>
    BY <1>1 DEF StartDevice, DeviceExpires, LookupFails
  <2>2. CASE StartDevice(g)
    <3>1. grant' = [grant EXCEPT ![g] = [grant[g] EXCEPT !.at = "live"]]
      BY <2>2 DEF StartDevice
    <3>2. [grant[g] EXCEPT !.at = "live"] \in GrantRow /\ [grant[g] EXCEPT !.at = "live"].by = grant[g].by
          /\ [grant[g] EXCEPT !.at = "live"].token = grant[g].token
      BY <1>0 DEF GrantRow
    <3> QED
      BY <2>1, <3>1, <3>2, RowsChange
  <2>3. CASE DeviceExpires(g)
    <3>1. grant' = [grant EXCEPT ![g] = [grant[g] EXCEPT !.at = "expired"]]
      BY <2>3 DEF DeviceExpires
    <3>2. [grant[g] EXCEPT !.at = "expired"] \in GrantRow /\ [grant[g] EXCEPT !.at = "expired"].by = grant[g].by
          /\ [grant[g] EXCEPT !.at = "expired"].token = grant[g].token
      BY <1>0 DEF GrantRow
    <3> QED
      BY <2>1, <3>1, <3>2, RowsChange
  <2>4. CASE LookupFails(g)
    <3>1. grant' = [grant EXCEPT ![g] = [grant[g] EXCEPT !.failed = @ + 1]]
      BY <2>4 DEF LookupFails
    <3>2. grant[g] \in GrantRow /\ grant[g].failed + 1 \in Nat
      BY <1>0 DEF GrantRow
    <3>3. [grant[g] EXCEPT !.failed = grant[g].failed + 1] \in GrantRow
      BY <3>2 DEF GrantRow
    <3>4. /\ [grant[g] EXCEPT !.failed = grant[g].failed + 1].by = grant[g].by
          /\ [grant[g] EXCEPT !.failed = grant[g].failed + 1].token = grant[g].token
      BY <3>2 DEF GrantRow
    <3> QED
      BY <2>1, <3>1, <3>3, <3>4, RowsChange
  <2> QED
    BY <1>1, <2>2, <2>3, <2>4
<1>2. ASSUME NEW u \in Signers, NEW g \in Grants, ApproveSelect(u, g)
      PROVE  FlowInv'
  BY <1>2 DEF ApproveSelect, FlowInv, FlowTypes, ApproverApproved, PolledInAName, MintedInAName, MintedOwn, BoundIsNamed, Holding
<1>3. ASSUME NEW u \in Signers, ApproveUpdate(u)
      PROVE  FlowInv'
  <2> DEFINE g == approving[u]
  <2>1. g \in Grants
    BY <1>3 DEF ApproveUpdate, FlowInv, FlowTypes
  <2>2. /\ grant' = [grant EXCEPT ![g].by = u] /\ approvals' = approvals \cup {<< u, g >>}
        /\ approving' = [approving EXCEPT ![u] = Nobody] /\ UNCHANGED << poll, token >>
    BY <1>3 DEF ApproveUpdate
  <2> HIDE DEF g
  <2>3. grant' \in [Grants -> GrantRow] /\ approving' \in [Signers -> Grants \cup {Nobody}]
    BY <1>0, <2>1, <2>2 DEF GrantRow, Person, FlowInv, FlowTypes
  <2>4. /\ \A h \in Grants : grant'[h].token = grant[h].token
        /\ grant'[g].by = u /\ \A h \in Grants \ {g} : grant'[h].by = grant[h].by
    BY <1>0, <2>1, <2>2 DEF GrantRow
  <2>5. FlowTypes'
    BY <1>0, <2>2, <2>3 DEF FlowTypes
  <2>6. ApproverApproved'
    BY <2>2, <2>4 DEF FlowInv, ApproverApproved
  <2>7. PolledInAName' /\ MintedInAName' /\ MintedOwn'
    BY <2>2 DEF FlowInv, PolledInAName, MintedInAName, MintedOwn, Holding
  <2>8. BoundIsNamed'
    BY <2>2, <2>4 DEF FlowInv, BoundIsNamed
  <2> QED
    BY <2>5, <2>6, <2>7, <2>8 DEF FlowInv
<1>4. ASSUME NEW c \in Clients, Poll(c)
      PROVE  FlowInv'
  <2> DEFINE g == CodeOf[c]
  <2>1. g \in Grants /\ UNCHANGED << grant, approving, token, approvals >>
    BY <1>4 DEF Poll
  <2>2. CASE UNCHANGED poll
    BY <2>1, <2>2 DEF FlowInv, FlowTypes, ApproverApproved, PolledInAName, MintedInAName, MintedOwn, BoundIsNamed, Holding
  <2>3. CASE Ends(c, "gone")
    BY <2>1, <2>3, PollEnds
  <2>4. CASE /\ Polled(g) = "approved"
             /\ poll' = [poll EXCEPT ![c] = [at |-> "approved", by |-> grant[g].by, token |-> NoToken]]
    <3>1. grant[g].by # Nobody
      BY <2>4 DEF Polled
    <3>2. poll' \in [Clients -> PollStep] /\ \A d \in Clients \ {c} : poll'[d] = poll[d]
      BY <1>0, <2>1, <2>4 DEF GrantRow, PollStep, NoToken
    <3>3. poll'[c].at = "approved" /\ poll'[c].by = grant[g].by
      BY <1>0, <2>4
    <3>4. FlowTypes'
      BY <2>1, <3>2 DEF FlowInv, FlowTypes
    <3>5. ApproverApproved' /\ BoundIsNamed'
      BY <2>1, <3>2, <3>3 DEF FlowInv, ApproverApproved, BoundIsNamed
    <3>6. PolledInAName'
      BY <2>1, <3>1, <3>2, <3>3 DEF FlowInv, ApproverApproved, PolledInAName
    <3>7. MintedInAName' /\ MintedOwn'
      BY <2>1, <3>2, <3>3 DEF FlowInv, MintedInAName, MintedOwn, Holding
    <3> QED
      BY <3>4, <3>5, <3>6, <3>7 DEF FlowInv
  <2> QED
    BY <1>4, <2>2, <2>3, <2>4 DEF Poll
<1>5. ASSUME NEW c \in Clients, MintForGrant(c)
      PROVE  FlowInv'
  <2> DEFINE new == [owner |-> poll[c].by, grant |-> CodeOf[c], revoked |-> FALSE]
  <2>1. /\ poll[c].at = "approved" /\ token' = Append(token, new)
        /\ poll' = [poll EXCEPT ![c] = [at |-> "minted", by |-> poll[c].by, token |-> Len(token')]]
        /\ UNCHANGED << grant, approving, approvals >>
    BY <1>5 DEF MintForGrant
  <2>2. new \in TokenRow /\ new.owner = poll[c].by
    BY DEF FlowInv, FlowTypes, TokenRow, PollStep
  <2>3. token \in Seq(TokenRow)
    BY DEF FlowInv, FlowTypes
  <2> HIDE DEF new
  <2>4. /\ token' \in Seq(TokenRow) /\ Len(token') = Len(token) + 1 /\ Len(token) \in Nat
        /\ \A t \in 1..Len(token) : token'[t] = token[t]
        /\ token'[Len(token) + 1] = new
    BY <2>1, <2>2, <2>3, AppendProperties, LenProperties
  <2>5. /\ poll'[c] = [at |-> "minted", by |-> poll[c].by, token |-> Len(token) + 1]
        /\ \A d \in Clients \ {c} : poll'[d] = poll[d]
    BY <2>1, <2>4 DEF FlowInv, FlowTypes
  <2>6. FlowTypes'
    <3>1. poll' \in [Clients -> PollStep]
      <4>1. [at |-> "minted", by |-> poll[c].by, token |-> Len(token')] \in PollStep
        <5>1. Len(token') \in Nat
          BY <2>4
        <5>2. poll[c].by \in Person
          BY <1>0 DEF PollStep
        <5> QED
          BY <5>1, <5>2 DEF PollStep
      <4>2. poll' = [poll EXCEPT ![c] = [at |-> "minted", by |-> poll[c].by, token |-> Len(token')]]
        BY <2>1
      <4> QED
        BY <1>0, <4>1, <4>2
    <3> QED
      BY <2>1, <2>4, <3>1 DEF FlowInv, FlowTypes
  <2>7. ApproverApproved' /\ PolledInAName' /\ BoundIsNamed'
    <3>1. poll'[c].at = "minted" /\ poll'[c].by = poll[c].by
      BY <2>5
    <3>2. ApproverApproved'
      BY <2>1 DEF FlowInv, ApproverApproved
    <3>3. PolledInAName'
      <4>1. << poll[c].by, CodeOf[c] >> \in approvals
        BY <2>1 DEF FlowInv, PolledInAName
      <4>2. approvals' = approvals
        BY <2>1
      <4> QED
        BY <2>5, <3>1, <4>1, <4>2 DEF FlowInv, PolledInAName
    <3>4. BoundIsNamed'
      BY <2>1, <2>5, <3>1 DEF FlowInv, BoundIsNamed
    <3> QED
      BY <3>2, <3>3, <3>4
  <2>8. MintedInAName' /\ MintedOwn'
    <3>1. \A d \in Clients \ {c} : poll'[d].at \in Holding => poll[d].at \in Holding /\ poll'[d] = poll[d]
      BY <2>5 DEF Holding
    <3>2. \A d \in Clients \ {c} : poll'[d].at \in Holding =>
              poll'[d].token \in 1..Len(token) /\ token[poll'[d].token].owner = poll'[d].by
      BY <3>1 DEF FlowInv, MintedInAName
    <3>3. poll'[c].token = Len(token) + 1 /\ poll'[c].by = poll[c].by
      BY <2>5
    <3>4. MintedInAName'
      BY <2>2, <2>4, <3>2, <3>3 DEF MintedInAName
    <3>5. \A d \in Clients \ {c} : poll'[d].at \in Holding => poll'[d].token # Len(token) + 1
      BY <2>4, <3>2
    <3>6. \A d, e \in Clients \ {c} : poll'[d].at \in Holding /\ poll'[e].at \in Holding /\ d # e => poll'[d].token # poll'[e].token
      BY <3>1 DEF FlowInv, MintedOwn
    <3>7. MintedOwn'
      BY <3>3, <3>5, <3>6 DEF MintedOwn
    <3> QED
      BY <3>4, <3>7
  <2> QED
    BY <2>6, <2>7, <2>8 DEF FlowInv
<1>6. ASSUME NEW c \in Clients, Bind(c)
      PROVE  FlowInv'
  <2> DEFINE g == CodeOf[c]
  <2>1. CASE Bindable(g)
    <3>1. /\ grant' = [grant EXCEPT ![g].token = poll[c].token] /\ poll' = [poll EXCEPT ![c].at = "bound"]
          /\ poll[c].at = "minted" /\ UNCHANGED << approving, token, approvals >>
      BY <1>6, <2>1 DEF Bind
    <3>2. /\ g \in Grants /\ grant[g].token = NoToken
          /\ poll[c].token \in Nat \ {NoToken}
      <4>1. grant[g].token = NoToken
        BY <2>1 DEF Bindable
      <4>2. poll[c].token \in 1..Len(token) /\ Len(token) \in Nat
        BY <1>0, <3>1, LenProperties DEF FlowInv, MintedInAName, Holding
      <4> QED
        BY <4>1, <4>2 DEF NoToken
    <3>3. FlowTypes'
      <4>1. grant' \in [Grants -> GrantRow]
        BY <1>0, <3>1, <3>2 DEF GrantRow
      <4>2. poll' \in [Clients -> PollStep]
        BY <1>0, <3>1 DEF PollStep
      <4> QED
        BY <3>1, <4>1, <4>2 DEF FlowInv, FlowTypes
    <3>4. /\ \A h \in Grants : grant'[h].by = grant[h].by
          /\ \A d \in Clients : poll'[d].by = poll[d].by /\ poll'[d].token = poll[d].token
          /\ \A d \in Clients : (poll'[d].at \in Holding <=> poll[d].at \in Holding)
          /\ \A d \in Clients : (poll'[d].at = "idle" <=> poll[d].at = "idle")
          /\ poll'[c].at = "bound" /\ \A d \in Clients \ {c} : poll'[d].at = poll[d].at
      <4>1. \A h \in Grants : grant'[h].by = grant[h].by
        BY <1>0, <3>1, <3>2 DEF GrantRow
      <4>2. /\ poll'[c].at = "bound" /\ poll'[c].by = poll[c].by /\ poll'[c].token = poll[c].token
            /\ \A d \in Clients \ {c} : poll'[d] = poll[d]
        BY <1>0, <3>1 DEF PollStep
      <4> QED
        BY <3>1, <4>1, <4>2 DEF Holding
    <3>5. ApproverApproved' /\ PolledInAName'
      BY <3>1, <3>4 DEF FlowInv, ApproverApproved, PolledInAName
    <3>6. MintedInAName' /\ MintedOwn'
      BY <3>1, <3>4 DEF FlowInv, MintedInAName, MintedOwn
    <3>7. BoundIsNamed'
      <4> SUFFICES ASSUME NEW d \in Clients, poll'[d].at \in {"bound", "handed out"}
                   PROVE  grant'[CodeOf[d]].token = poll'[d].token
        BY DEF BoundIsNamed
      <4>1. grant'[g].token = poll[c].token /\ \A h \in Grants \ {g} : grant'[h].token = grant[h].token
        BY <1>0, <3>1, <3>2 DEF GrantRow
      <4>2. CASE d = c
        BY <3>4, <4>1, <4>2
      <4>3. CASE d # c
        <5>1. poll[d].at \in {"bound", "handed out"} /\ poll'[d].token = poll[d].token
          BY <3>4, <4>3
        <5>2. grant[CodeOf[d]].token = poll[d].token
          BY <5>1 DEF FlowInv, BoundIsNamed
        <5>3. poll[d].token # NoToken
          <6>1. poll[d].token \in 1..Len(token)
            BY <5>1 DEF FlowInv, MintedInAName, Holding
          <6>2. Len(token) \in Nat
            BY <1>0, LenProperties
          <6> QED
            BY <6>1, <6>2, NumberedFromOne
        <5> QED
          BY <3>2, <4>1, <5>1, <5>2, <5>3
      <4> QED
        BY <4>2, <4>3
    <3> QED
      BY <3>3, <3>5, <3>6, <3>7 DEF FlowInv
  <2>2. CASE ~Bindable(g)
    BY <1>6, <2>2, PollEnds DEF Bind
  <2> QED
    BY <2>1, <2>2
<1>7. ASSUME NEW c \in Clients, HandOut(c)
      PROVE  FlowInv'
  <2>1. /\ poll[c].at = "bound" /\ poll' = [poll EXCEPT ![c].at = "handed out"]
        /\ UNCHANGED << grant, approving, token, approvals >>
    BY <1>7 DEF HandOut
  <2>2. FlowTypes'
    <3>1. poll' \in [Clients -> PollStep]
      BY <1>0, <2>1 DEF PollStep
    <3> QED
      BY <2>1, <3>1 DEF FlowInv, FlowTypes
  <2>3. /\ \A d \in Clients : poll'[d].by = poll[d].by /\ poll'[d].token = poll[d].token
        /\ \A d \in Clients : (poll'[d].at \in Holding <=> poll[d].at \in Holding)
        /\ \A d \in Clients : (poll'[d].at = "idle" <=> poll[d].at = "idle")
        /\ \A d \in Clients : (poll'[d].at \in {"bound", "handed out"} <=> poll[d].at \in {"bound", "handed out"})
    <3>1. /\ poll'[c].at = "handed out" /\ poll'[c].by = poll[c].by /\ poll'[c].token = poll[c].token
          /\ \A d \in Clients \ {c} : poll'[d] = poll[d]
      BY <1>0, <2>1 DEF PollStep
    <3> QED
      BY <2>1, <3>1 DEF Holding
  <2>4. UNCHANGED << grant, approving, token, approvals >>
    BY <2>1
  <2>5. ApproverApproved'
    BY <2>4 DEF FlowInv, ApproverApproved
  <2>6. PolledInAName'
    BY <2>3, <2>4 DEF FlowInv, PolledInAName
  <2>7. BoundIsNamed'
    BY <2>3, <2>4 DEF FlowInv, BoundIsNamed
  <2>8. MintedInAName'
    BY <2>3, <2>4 DEF FlowInv, MintedInAName
  <2>9. MintedOwn'
    <3>1. \A d, e \in Clients : poll[d].at \in Holding /\ poll[e].at \in Holding /\ d # e => poll[d].token # poll[e].token
      BY DEF FlowInv, MintedOwn
    <3> SUFFICES ASSUME NEW d \in Clients, NEW e \in Clients,
                        poll'[d].at \in Holding, poll'[e].at \in Holding, d # e
                 PROVE  poll'[d].token # poll'[e].token
      BY DEF MintedOwn, Holding
    <3>2. poll[d].at \in Holding /\ poll[e].at \in Holding
      BY <2>3 DEF Holding
    <3>3. poll[d].token # poll[e].token
      BY <3>1, <3>2
    <3> QED
      BY <2>3, <3>3
  <2> QED
    BY <2>2, <2>5, <2>6, <2>7, <2>8, <2>9 DEF FlowInv
<1>8. ASSUME NEW c \in Clients, PollFails(c)
      PROVE  FlowInv'
  BY <1>8, PollEnds DEF PollFails
<1>9. ASSUME NEW t \in 1..MaxTokens, RevokeToken(t)
      PROVE  FlowInv'
  <2>1. token' = [token EXCEPT ![t].revoked = TRUE] /\ t \in 1..Len(token) /\ token \in Seq(TokenRow)
        /\ UNCHANGED << grant, approving, poll, approvals >>
    BY <1>9, LenProperties DEF RevokeToken, FlowInv, FlowTypes
  <2>2. \A s \in 1..Len(token) : token[s] \in TokenRow
    BY <2>1, ElementOfSeq
  <2>3. [token[t] EXCEPT !.revoked = TRUE] \in TokenRow
    BY <2>1, <2>2 DEF TokenRow
  <2>4. token' = [token EXCEPT ![t] = [token[t] EXCEPT !.revoked = TRUE]]
    BY <2>1
  <2>5. token' \in Seq(TokenRow) /\ Len(token') = Len(token)
    BY <2>1, <2>3, <2>4, ExceptSeq
  <2>6. \A s \in 1..Len(token) : token'[s].owner = token[s].owner
    BY <2>1, <2>2, <2>4, LenProperties DEF TokenRow
  <2>7. FlowTypes' /\ ApproverApproved' /\ PolledInAName' /\ BoundIsNamed'
    BY <2>1, <2>5 DEF FlowInv, FlowTypes, ApproverApproved, PolledInAName, BoundIsNamed
  <2>8. MintedInAName' /\ MintedOwn'
    BY <2>1, <2>5, <2>6 DEF FlowInv, MintedInAName, MintedOwn, Holding
  <2> QED
    BY <2>7, <2>8 DEF FlowInv
<1>10. CASE UNCHANGED deviceVars
  BY <1>10 DEF deviceVars, FlowInv, FlowTypes, ApproverApproved, PolledInAName, MintedInAName, MintedOwn, BoundIsNamed, Holding
<1> QED
  BY <1>1, <1>2, <1>3, <1>4, <1>5, <1>6, <1>7, <1>8, <1>9, <1>10 DEF DeviceNext

\* Two clients that were handed a token of one grant are one: each has the token the grant
\* names, and no two have the same.
LEMMA OneHolder ==
  ASSUME FlowInv, NEW g \in Grants
  PROVE  Cardinality(HandedOut(g)) <= 1
<1>1. \A c \in HandedOut(g) :
          c \in Clients /\ CodeOf[c] = g /\ poll[c].at \in {"bound", "handed out"} /\ poll[c].at \in Holding
  BY DEF HandedOut, Holding
<1>2. \A c \in HandedOut(g) : poll[c].token = grant[g].token
  BY <1>1 DEF FlowInv, BoundIsNamed
<1>3. \A c, d \in HandedOut(g) : c = d
  BY <1>1, <1>2 DEF FlowInv, MintedOwn
<1>4. CASE HandedOut(g) = {}
  BY <1>4, FS_EmptySet
<1>5. CASE HandedOut(g) # {}
  <2>1. PICK c : HandedOut(g) = {c}
    BY <1>3, <1>5
  <2>2. Cardinality({c}) = 1
    BY FS_Singleton
  <2> QED
    BY <2>1, <2>2
<1> QED
  BY <1>4, <1>5

\* At most one client holds a secret for a grant, it is the token the grant names, and it
\* belongs to somebody who approved the grant (RedeemDevice).
THEOREM OneTokenInvariant == DeviceSpec => []GrantYieldsOneToken
<1>1. FlowInv => GrantYieldsOneToken
  BY OneHolder DEF FlowInv, PolledInAName, MintedInAName, MintedOwn, BoundIsNamed, Holding, HandedOut, GrantYieldsOneToken
<1> QED
  BY <1>1, FlowInit, FlowStep, PTL DEF DeviceSpec

(***************************************************************************)
(* Projects.                                                               *)
(***************************************************************************)

OpenChange == [at : {"read"}, slug : Slugs, to : Proposed, from : Proposed \cup {NoOwners}]

OwnersInv ==
    /\ owners \in [Slugs -> Proposed \cup {NoOwners}]
    /\ change \in [OwnerChanges -> OpenChange \cup {NoChange}]
    /\ OwnersHoldTheirRoles

\* The memberships of two projects have nothing in common.
LEMMA RolesAreOfOneProject ==
  ASSUME NEW s, NEW t, s # t, NEW o, NEW p
  PROVE  RolesOf(s, o) \cap RolesOf(t, p) = {}
  BY DEF RolesOf

\* The initial state satisfies the invariant of the owners.
LEMMA OwnersInit ==
  ASSUME ProjectsInit
  PROVE  OwnersInv
  BY DEF ProjectsInit, OwnersInv, OwnersHoldTheirRoles, Exists

\* A step that changes neither owners nor open changes, and takes no membership away,
\* keeps the invariant.
LEMMA RolesGrow ==
  ASSUME OwnersInv, UNCHANGED << owners, change >>, roles \subseteq roles'
  PROVE  OwnersInv'
  BY DEF OwnersInv, OwnersHoldTheirRoles, Exists

\* Creating a project and replacing its owners role by role keep the invariant.
LEMMA OwnersStep ==
  ASSUME OwnersInv, [ProjectsNext]_projectsVars
  PROVE  OwnersInv'
<1>1. ASSUME NEW s \in Slugs, NEW o \in Proposed, NEW cell \in Cells \cup {"default"}, CreateProject(s, o, cell)
      PROVE  OwnersInv'
  <2>1. owners' = [owners EXCEPT ![s] = o] /\ roles' = roles \cup RolesOf(s, o) /\ UNCHANGED change
    BY <1>1 DEF CreateProject
  <2> QED
    BY <2>1 DEF OwnersInv, OwnersHoldTheirRoles, Exists
<1>2. ASSUME NEW c \in OwnerChanges, NEW s \in Slugs, NEW o \in Proposed, OwnersRead(c, s, o)
      PROVE  OwnersInv'
  <2>1. /\ change' = [change EXCEPT ![c] = [at |-> "read", slug |-> s, to |-> o, from |-> owners[s]]]
        /\ UNCHANGED << owners, roles >>
    BY <1>2 DEF OwnersRead
  <2>2. [at |-> "read", slug |-> s, to |-> o, from |-> owners[s]] \in OpenChange
    BY DEF OwnersInv, OpenChange
  <2>3. change' \in [OwnerChanges -> OpenChange \cup {NoChange}]
    BY <2>1, <2>2 DEF OwnersInv
  <2> QED
    BY <2>1, <2>3 DEF OwnersInv, OwnersHoldTheirRoles, Exists
<1>3. ASSUME NEW c \in OwnerChanges, OwnersCommit(c)
      PROVE  OwnersInv'
  <2>1. change[c] \in OpenChange
    BY <1>3 DEF OwnersCommit, OwnersInv
  <2>2. PICK s \in Slugs, to \in Proposed, from \in Proposed \cup {NoOwners} :
            change[c].slug = s /\ change[c].to = to /\ change[c].from = from
    BY <2>1 DEF OpenChange
  <2>3. /\ owners' = [owners EXCEPT ![s] = to]
        /\ roles' = (roles \ RolesOf(s, from)) \cup RolesOf(s, to)
        /\ change' = [change EXCEPT ![c] = NoChange]
    BY <1>3, <2>2 DEF OwnersCommit, Swapped
  <2>4. \A t \in Slugs \ {s} : RolesOf(t, owners[t]) \cap RolesOf(s, from) = {}
    BY RolesAreOfOneProject
  <2>5. owners'[s] = to /\ \A t \in Slugs \ {s} : owners'[t] = owners[t]
    BY <2>3 DEF OwnersInv
  <2>6. OwnersHoldTheirRoles'
    BY <2>3, <2>4, <2>5 DEF OwnersInv, OwnersHoldTheirRoles, Exists
  <2>7. owners' \in [Slugs -> Proposed \cup {NoOwners}] /\ change' \in [OwnerChanges -> OpenChange \cup {NoChange}]
    BY <2>3 DEF OwnersInv
  <2> QED
    BY <2>6, <2>7 DEF OwnersInv
<1>4. ASSUME NEW c \in OwnerChanges, OwnersRollBack(c)
      PROVE  OwnersInv'
  BY <1>4 DEF OwnersRollBack, OwnersInv, OwnersHoldTheirRoles, Exists
<1>5. ASSUME NEW s \in Slugs, NEW u \in Members, NEW role \in GrantRoles, AddProjectMember(s, u, role)
      PROVE  OwnersInv'
  BY <1>5, RolesGrow DEF AddProjectMember
<1>6. ASSUME NEW s \in Slugs, NEW cell \in Cells, SetProjectCell(s, cell)
      PROVE  OwnersInv'
  BY <1>6, RolesGrow DEF SetProjectCell
<1>7. ASSUME NEW s \in Slugs, NEW rs \in SUBSET Checkouts, AttachRepositories(s, rs)
      PROVE  OwnersInv'
  BY <1>7, RolesGrow DEF AttachRepositories
<1>8. ASSUME NEW s \in Slugs, NEW r \in Checkouts,
             DetachRepository(s, r) \/ \E on \in BOOLEAN : SetRepositoryCheck(s, r, on)
      PROVE  OwnersInv'
  BY <1>8, RolesGrow DEF DetachRepository, SetRepositoryCheck
<1>9. CASE UNCHANGED projectsVars
  BY <1>9, RolesGrow DEF projectsVars
<1> QED
  BY <1>1, <1>2, <1>3, <1>4, <1>5, <1>6, <1>7, <1>8, <1>9 DEF ProjectsNext

\* Whatever changes of owners and grants interleave, both owners hold their role
\* (SetProjectOwners, CreateProject).
THEOREM OwnersInvariant == ProjectsSpec => []OwnersHoldTheirRoles
<1>1. OwnersInv => OwnersHoldTheirRoles
  BY DEF OwnersInv
<1> QED
  BY <1>1, OwnersInit, OwnersStep, PTL DEF ProjectsSpec
===============================================================================
