----------------------------- MODULE BeadProofs ------------------------------
(***************************************************************************)
(* A re-plan revises: for one project and ref there is one bead.  And a      *)
(* cycle, whoever closed it, is reported.                                  *)
(***************************************************************************)
EXTENDS BeadProjection, TLAPS

\* What a bead is looked up by is what it was created for, unless somebody
\* revised it by id.  Without this the invariant is not inductive: a lookup
\* could miss the bead an earlier filing made.  And a number that is no bead yet
\* has no key, so that what an agent makes has none.
KeyInv ==
    /\ count \in 0 .. MaxBeads
    /\ key = [b \in Ids |-> key[b]] /\ made = [b \in Ids |-> made[b]]
    /\ \A b \in Ids \ byId : made[b] = key[b]
    /\ \A b \in Ids \ Beads : made[b] = NoKey
    /\ OneBeadPerRef

keyVars == << count, key, made, byId >>

\* No bead, no two beads.
LEMMA KeyInit == GraphInit => KeyInv
  BY GraphAssumption DEF GraphAssumption, GraphInit, KeyInv, OneBeadPerRef, Ids, Beads

\* KeyInv looks at nothing but keyVars.
LEMMA KeyStutters == KeyInv /\ UNCHANGED keyVars => KeyInv'
  BY DEF KeyInv, keyVars, OneBeadPerRef, Beads

\* UpdateIn of a bead found by its key leaves the key as it is; of a bead named
\* by its id it changes the key and the bead is no longer looked at.
LEMMA ReviseKeepsKeys ==
  ASSUME KeyInv, NEW item, NEW b \in Beads, Revise(b, item),
         item.id = 0 => key[b] = Key(item)
  PROVE  KeyInv'
<1>1. Beads \subseteq Ids
  BY GraphAssumption DEF GraphAssumption, KeyInv, Beads, Ids
<1>2. UNCHANGED << count, made >> /\ key' = [key EXCEPT ![b] = Key(item)]
  BY DEF Revise
<1>3. CASE item.id = 0
  <2>1. byId' = byId
    BY <1>3 DEF Revise
  <2>2. key' = key
    BY <1>1, <1>2, <1>3 DEF KeyInv
  <2> QED
    BY <1>2, <2>1, <2>2, KeyStutters DEF keyVars
<1>4. CASE item.id # 0
  <2>1. byId' = byId \cup {b}
    BY <1>4 DEF Revise
  <2>2. key' = [c \in Ids |-> IF c = b THEN Key(item) ELSE key[c]]
    BY <1>1, <1>2 DEF KeyInv
  <2>3. \A c \in Ids \ byId' : made'[c] = key'[c]
    BY <1>2, <2>1, <2>2 DEF KeyInv
  <2>4. OneBeadPerRef'
    BY <1>2, <2>1 DEF KeyInv, OneBeadPerRef, Beads
  <2>5. key' = [c \in Ids |-> key'[c]]
    BY <2>2
  <2> QED
    BY <1>2, <2>3, <2>4, <2>5 DEF KeyInv, Beads
<1> QED
  BY <1>3, <1>4

\* Create makes the only bead with its key: the lookup found none.
LEMMA CreateKeepsKeys ==
  ASSUME KeyInv, NEW item, Found(Key(item)) = {}, Create(item)
  PROVE  KeyInv'
<1> DEFINE n == count + 1
<1>1. count \in Nat /\ MaxBeads \in Nat /\ count < MaxBeads /\ count' = n /\ byId' = byId
  BY GraphAssumption DEF GraphAssumption, KeyInv, Create
<1>2. n \in Ids /\ n \notin Beads /\ Beads' = Beads \cup {n} /\ Beads \subseteq Ids
  BY <1>1 DEF Ids, Beads
<1>3. /\ key' = [c \in Ids |-> IF c = n THEN Key(item) ELSE key[c]]
      /\ made' = [c \in Ids |-> IF c = n THEN Key(item) ELSE made[c]]
  BY <1>1, <1>2 DEF KeyInv, Create
<1>4. \A c \in Ids \ byId' : made'[c] = key'[c]
  BY <1>1, <1>3 DEF KeyInv
<1>5. \A c \in Beads \ byId : made[c] # Key(item)
  BY <1>2 DEF KeyInv, Found
<1>6. OneBeadPerRef'
  <2> SUFFICES ASSUME NEW b \in (Beads \ byId)', NEW c \in (Beads \ byId)',
                      made'[b] = made'[c], made'[b] # NoKey
               PROVE  b = c
    BY DEF OneBeadPerRef
  <2>1. b \in (Beads \cup {n}) \ byId /\ c \in (Beads \cup {n}) \ byId
    BY <1>1, <1>2
  <2>2. CASE b # n /\ c # n
    BY <1>2, <1>3, <2>1, <2>2 DEF KeyInv, OneBeadPerRef
  <2>3. CASE b = n \/ c = n
    BY <1>2, <1>3, <1>5, <2>1, <2>3
  <2> QED
    BY <2>2, <2>3
<1>7. count' \in 0 .. MaxBeads
  BY <1>1
<1>8. \A c \in Ids \ Beads' : made'[c] = NoKey
  BY <1>2, <1>3 DEF KeyInv
<1> QED
  BY <1>3, <1>4, <1>6, <1>7, <1>8 DEF KeyInv

\* Whichever way an item is written.
LEMMA WriteKeepsKeys ==
  ASSUME KeyInv, NEW item, Write(item)
  PROVE  KeyInv'
<1>1. CASE item.id \in Beads /\ Revise(item.id, item)
  <2>1. item.id # 0
    BY <1>1 DEF Beads, KeyInv
  <2> QED
    BY <1>1, <2>1, ReviseKeepsKeys
<1>2. CASE item.id = 0 /\ \E b \in Found(Key(item)) : Revise(b, item)
  BY <1>2, ReviseKeepsKeys DEF Found
<1>3. CASE item.id = 0 /\ Found(Key(item)) = {} /\ Create(item)
  BY <1>3, CreateKeepsKeys
<1> QED
  BY <1>1, <1>2, <1>3 DEF Write

\* An agent's new bead has no key.
LEMMA AgentKeepsKeys ==
  ASSUME KeyInv, AgentCreates
  PROVE  KeyInv'
<1>1. UNCHANGED << key, made, byId >> /\ Beads' = Beads \cup {count + 1} /\ count + 1 \in Ids \ Beads
  BY GraphAssumption DEF GraphAssumption, KeyInv, AgentCreates, Ids, Beads
<1>2. count' \in 0 .. MaxBeads
  BY GraphAssumption DEF GraphAssumption, KeyInv, AgentCreates
<1>3. OneBeadPerRef'
  BY <1>1 DEF KeyInv, OneBeadPerRef
<1> QED
  BY <1>1, <1>2, <1>3 DEF KeyInv

\* One case per action that changes a bead or its key; the others stutter.
LEMMA KeyStep == KeyInv /\ [Next]_vars => KeyInv'
<1> SUFFICES ASSUME KeyInv, [Next]_vars PROVE KeyInv'
  OBVIOUS
<1>1. CASE FileItem
  BY <1>1, WriteKeepsKeys DEF FileItem
<1>2. CASE ItemFails
  <2>1. CASE \E item : Write(item)
    BY <2>1, WriteKeepsKeys
  <2>2. CASE UNCHANGED keyVars
    BY <2>2, KeyStutters
  <2> QED
    BY <1>2, <2>1, <2>2 DEF ItemFails, keyVars, graph
<1>3. CASE AgentCreates
  BY <1>3, AgentKeepsKeys
<1>4. CASE \/ \E p \in Plans : FilePlan(p)
           \/ WireEdges \/ CheckCycles \/ FilingDies \/ RunStarts \/ RunEnds
  BY <1>4, KeyStutters
     DEF keyVars, graph, FilePlan, WireEdges, CheckCycles, FilingDies, RunStarts, RunEnds
<1>5. CASE \/ \E b \in Beads : AgentCloses(b) \/ \E p \in Projects : AgentLabels(b, p)
           \/ \E b, c \in Beads : AgentLinks(b, c) \/ AgentUnlinks(b, c)
  BY <1>5, KeyStutters DEF keyVars, AgentCloses, AgentLabels, AgentLinks, AgentUnlinks
<1>6. CASE SendStep
  BY <1>6, KeyStutters
     DEF keyVars, graphVars, graph, SendStep, ReadBeads, ProjectBead, ProjectLinks, SendFails
<1>7. CASE UNCHANGED vars
  BY <1>7, KeyStutters DEF keyVars, vars, graphVars, graph
<1> QED
  BY <1>1, <1>2, <1>3, <1>4, <1>5, <1>6, <1>7 DEF Next, GraphNext, FilingStep, AgentStep

\* A re-plan, whatever failed and was tried again, whatever agents closed, made
\* or linked meanwhile, revises the bead an earlier filing made for a ref
\* (fileplan with ByExternalRef), as long as that bead is not revised by id.
THEOREM ReplanRevises == Spec => []OneBeadPerRef
<1>1. Init => KeyInv
  BY KeyInit DEF Init
<1>2. KeyInv => OneBeadPerRef
  BY DEF KeyInv
<1> QED
  BY <1>1, <1>2, KeyStep, PTL DEF Spec

-----------------------------------------------------------------------------

\* What is needed besides: a failure is counted and never forgotten.
CycleInv == fails \in Nat /\ NoSilentCycle

\* Fewer edges, no more cycles.
LEMMA FewerEdges ==
  ASSUME NEW es, NEW fs, fs \subseteq es, ~Cyclic(es)
  PROVE  ~Cyclic(fs)
  BY DEF Cyclic

\* CycleInv looks at these only.
LEMMA CycleStutters == CycleInv /\ UNCHANGED << edges, filePc, outcome, fails >> => CycleInv'
  BY DEF CycleInv, NoSilentCycle, Cyclic

\* One case per way an edge, an outcome or the count of failures changes.
LEMMA CycleStep == CycleInv /\ [Next]_vars => CycleInv'
<1> SUFFICES ASSUME CycleInv, [Next]_vars PROVE CycleInv'
  OBVIOUS
<1> USE DEF CycleInv, NoSilentCycle
<1>1. CASE \E p \in Plans : FilePlan(p)
  BY <1>1 DEF FilePlan
<1>2. CASE FileItem \/ ItemFails
  BY <1>2 DEF FileItem, ItemFails
<1>3. CASE WireEdges \/ FilingDies
  BY <1>3 DEF WireEdges, FilingDies
<1>4. CASE CheckCycles
  <2>1. edges' = edges /\ Cyclic(edges') = Cyclic(edges)
    BY <1>4 DEF CheckCycles, graph
  <2>2. outcome' = "done" /\ fails' = 0 => ~Cyclic(edges)
    BY <1>4 DEF CheckCycles
  <2> QED
    BY <2>1, <2>2, <1>4 DEF CheckCycles
<1>5. CASE \E b, c \in Beads : AgentLinks(b, c)
  BY <1>5 DEF AgentLinks, Cyclic
<1>6. CASE \E b, c \in Beads : AgentUnlinks(b, c)
  BY <1>6, FewerEdges DEF AgentUnlinks, Cyclic, filing
<1>7. CASE RunStarts \/ AgentCreates \/ RunEnds \/ UNCHANGED vars
           \/ \E b \in Beads : AgentCloses(b) \/ \E p \in Projects : AgentLabels(b, p)
  BY <1>7, CycleStutters
     DEF RunStarts, AgentCreates, RunEnds, AgentCloses, AgentLabels, vars, graphVars, graph, filing
<1>8. CASE SendStep
  <2>1. UNCHANGED << edges, filePc, outcome >>
    BY <1>8 DEF SendStep, ReadBeads, ProjectBead, ProjectLinks, SendFails, graphVars, graph, filing
  <2>2. fails' = fails \/ fails' = fails + 1
    BY <1>8 DEF SendStep, ReadBeads, ProjectBead, ProjectLinks, SendFails, graphVars
  <2>3. CASE fails' = fails
    BY <2>1, <2>3, CycleStutters
  <2>4. CASE fails' = fails + 1
    BY <2>4
  <2> QED
    BY <2>2, <2>3, <2>4
<1> QED
  BY <1>1, <1>2, <1>3, <1>4, <1>5, <1>6, <1>7, <1>8 DEF Next, GraphNext, FilingStep, AgentStep

\* Beads that wait for each other for ever are reported: as long as no call
\* failed, a filing that is done left a graph without a cycle, and the agents'
\* own edges keep it so (fileplan with Cycles, bd dep add).
THEOREM CyclesAreReported == Spec => []NoSilentCycle
<1>1. Init => CycleInv
  BY DEF Init, GraphInit, CycleInv, NoSilentCycle
<1>2. CycleInv => NoSilentCycle
  BY DEF CycleInv
<1> QED
  BY <1>1, <1>2, CycleStep, PTL DEF Spec

-----------------------------------------------------------------------------
(* Filing a plan.                                                          *)

\* The items of a plan up to the k-th have beads: they say what the plan says and are of
\* its project, the key of each is that of one of these items, and no two items share a
\* bead unless one of them named it.
FiledUpTo(k) ==
    /\ \A i \in 1..k : LET b == filed[plan.items[i].ref] IN
          /\ b \in Beads /\ says[b] = nth
          /\ plan.items[i].id = 0 => plan.project \in labels[b]
          /\ \E m \in 1..k : key[b] = Key(plan.items[m])
    /\ \A i, j \in 1..k : i # j /\ plan.items[i].id = 0 /\ plan.items[j].id = 0
          => filed[plan.items[i].ref] # filed[plan.items[j].ref]

\* The edges a plan wants are there, unless an agent removed them or a call failed.
Wired == fails = 0 => { e \in Wanted : e[1] # e[2] } \ cut \subseteq edges

\* What a filing has done at each of its stages.
FilingInv ==
    /\ filePc # "idle" => plan \in Plans /\ Valid(plan) /\ outcome = "none"
    /\ filePc = "beads" => FiledUpTo(at - 1)
    /\ filePc \in {"edges", "cycles"} => FiledUpTo(Len(plan.items))
    /\ filePc = "cycles" => Wired
    /\ outcome = "done" =>
          filePc = "idle" /\ plan \in Plans /\ Valid(plan) /\ FiledUpTo(Len(plan.items)) /\ Wired


\* What an accepted plan is made of.
LEMMA ItemsOfAPlan ==
  ASSUME NEW p \in Plans
  PROVE  /\ Len(p.items) \in Nat /\ DOMAIN p.items = 1 .. Len(p.items)
         /\ p.project \in Projects
         /\ p.items # << >> => 1 \in DOMAIN p.items
         /\ \A i \in DOMAIN p.items : p.items[i].ref \in Refs
<1>1. p.items \in Seq({ p.items[i] : i \in DOMAIN p.items })
  BY PlanAssumption
<1>2. Len(p.items) \in Nat /\ DOMAIN p.items = 1 .. Len(p.items)
  BY <1>1
<1>3. p.items # << >> => 1 \in DOMAIN p.items
  BY <1>1
<1> QED
  BY <1>2, <1>3, GraphAssumption DEF GraphAssumption, Refs

\* One more item is filed: under a bead that has its key, is named by it or is new, and no
\* earlier item's bead has that key, because the refs of a plan differ.
LEMMA ItemIsFiled ==
  ASSUME GraphTypeOK, plan \in Plans, Valid(plan), UNCHANGED << plan, nth >>,
         NEW k \in DOMAIN plan.items, FiledUpTo(k - 1),
         NEW b \in Ids, b \in Beads', Beads \subseteq Beads',
         key' = [key EXCEPT ![b] = Key(plan.items[k])],
         says' = [says EXCEPT ![b] = nth],
         filed' = [filed EXCEPT ![plan.items[k].ref] = b],
         \A c \in Beads : labels[c] \subseteq labels'[c],
         plan.items[k].id = 0 => /\ plan.project \in labels'[b]
                                 /\ b \in Beads => key[b] = Key(plan.items[k])
  PROVE  FiledUpTo(k)'
<1> DEFINE ref(i) == plan.items[i].ref
<1>1. k \in Nat /\ k >= 1 /\ DOMAIN plan.items = 1 .. Len(plan.items) /\ Len(plan.items) \in Nat
  BY ItemsOfAPlan
<1>2. \A i \in 1 .. k : ref(i) \in Refs
  BY <1>1, ItemsOfAPlan
<1>3. \A i, j \in 1 .. k : ref(i) = ref(j) => i = j
  BY <1>1 DEF Valid
<1>4. \A i \in 1 .. (k - 1) : filed'[ref(i)] = filed[ref(i)]
  BY <1>1, <1>2, <1>3 DEF GraphTypeOK
<1>5. filed'[ref(k)] = b /\ key'[b] = Key(plan.items[k]) /\ says'[b] = nth
  BY <1>1, <1>2 DEF GraphTypeOK
<1>6. \A c \in Ids \ {b} : key'[c] = key[c] /\ says'[c] = says[c]
  BY DEF GraphTypeOK
<1>7. \A i : Key(plan.items[i])' = Key(plan.items[i])
  BY DEF Key
<1>8. ASSUME NEW i \in 1 .. (k - 1)
      PROVE  /\ filed'[ref(i)] \in Beads' /\ says'[filed'[ref(i)]] = nth
             /\ plan.items[i].id = 0 => plan.project \in labels'[filed'[ref(i)]]
             /\ \E m \in 1 .. k : key'[filed'[ref(i)]] = Key(plan.items[m])
  <2> DEFINE c == filed[ref(i)]
  <2>1. c \in Beads /\ c \in Ids
    <3>1. c \in Beads
      BY <1>8 DEF FiledUpTo
    <3> QED
      BY <3>1, GraphAssumption DEF GraphAssumption, GraphTypeOK, Beads, Ids
  <2>2. PICK m \in 1 .. (k - 1) : key[c] = Key(plan.items[m])
    BY <1>8 DEF FiledUpTo
  <2>3. m \in 1 .. k /\ k \in 1 .. k
    BY <1>1
  <2>4. says[c] = nth /\ (plan.items[i].id = 0 => plan.project \in labels[c])
    BY <1>8 DEF FiledUpTo
  <2>5. says'[c] = nth /\ \E n \in 1 .. k : key'[c] = Key(plan.items[n])
    BY <1>5, <1>6, <2>1, <2>2, <2>3, <2>4
  <2> QED
    BY <1>4, <1>8, <2>1, <2>4, <2>5
<1>9. ASSUME NEW i \in 1 .. (k - 1), plan.items[k].id = 0
      PROVE  filed'[ref(i)] # b
  <2> SUFFICES ASSUME filed[ref(i)] = b PROVE FALSE
    BY <1>4, <1>9
  <2>1. b \in Beads
    BY <1>9 DEF FiledUpTo
  <2>2. PICK m \in 1 .. (k - 1) : key[b] = Key(plan.items[m])
    BY <1>9 DEF FiledUpTo
  <2>3. ref(m) = ref(k)
    BY <1>9, <2>1, <2>2 DEF Key
  <2> QED
    BY <1>1, <1>3, <2>2, <2>3
<1>10. \A i \in 1 .. k : i \in 1 .. (k - 1) \/ i = k
  BY <1>1
<1>11. k \in 1 .. k
  BY <1>1
<1>12. \A i \in 1 .. k : /\ filed'[ref(i)] \in Beads' /\ says'[filed'[ref(i)]] = nth
                         /\ plan.items[i].id = 0 => plan.project \in labels'[filed'[ref(i)]]
                         /\ \E m \in 1 .. k : key'[filed'[ref(i)]] = Key(plan.items[m])
  BY <1>5, <1>8, <1>10, <1>11
<1>13. \A i, j \in 1 .. (k - 1) : i # j /\ plan.items[i].id = 0 /\ plan.items[j].id = 0
          => filed'[ref(i)] # filed'[ref(j)]
  BY <1>4 DEF FiledUpTo
<1>14. \A i, j \in 1 .. k : i # j /\ plan.items[i].id = 0 /\ plan.items[j].id = 0
          => filed'[ref(i)] # filed'[ref(j)]
  BY <1>5, <1>9, <1>10, <1>13
<1> QED
  BY <1>7, <1>12, <1>14 DEF FiledUpTo

\* The part of the types that writing an item changes.
WriteTypes ==
    /\ count \in 0 .. MaxBeads
    /\ key \in [Ids -> Keys] /\ made \in [Ids -> Keys]
    /\ labels \in [Ids -> SUBSET Projects] /\ says \in [Ids -> 0 .. MaxFilings]
    /\ closed \subseteq Beads /\ byId \subseteq Beads
    /\ filed \in [Refs -> 0 .. count]

\* An item of the plan is written: one more is filed, and the graph is one still.
LEMMA WriteFiles ==
  ASSUME GraphTypeOK, plan \in Plans, Valid(plan), UNCHANGED << plan, nth >>,
         NEW k \in DOMAIN plan.items, FiledUpTo(k - 1), Write(plan.items[k])
  PROVE  FiledUpTo(k)' /\ WriteTypes' /\ count <= count' /\ edges' = edges
<1> DEFINE item == plan.items[k]
<1> HIDE DEF item
<1>1. item.ref \in Refs /\ plan.project \in Projects /\ Key(item) \in Keys
  <2>1. /\ \A i \in DOMAIN plan.items : plan.items[i].ref \in Refs
        /\ plan.project \in Projects
    BY ItemsOfAPlan
  <2>2. << plan.project, plan.items[k].ref >> \in Projects \X Refs
    BY <2>1
  <2> QED
    BY <2>1, <2>2 DEF Key, Keys, item
<1>2. MaxBeads \in Nat /\ MaxFilings \in Nat /\ count \in Nat /\ nth \in 0 .. MaxFilings
  BY GraphAssumption DEF GraphAssumption, GraphTypeOK
<1>3. ASSUME NEW b \in Beads, Revise(b, item), item.id = 0 => key[b] = Key(item)
      PROVE  FiledUpTo(k)' /\ WriteTypes' /\ count <= count' /\ edges' = edges
  <2>1. b \in Ids /\ Beads' = Beads /\ count' = count /\ UNCHANGED << edges, made >>
    BY <1>2, <1>3 DEF Revise, GraphTypeOK, Beads, Ids
  <2>2. /\ key' = [key EXCEPT ![b] = Key(item)] /\ says' = [says EXCEPT ![b] = nth]
        /\ filed' = [filed EXCEPT ![item.ref] = b]
    BY <1>3 DEF Revise
  <2>3. /\ labels' \in [Ids -> SUBSET Projects] /\ \A c \in Beads : labels[c] \subseteq labels'[c]
        /\ item.id = 0 => plan.project \in labels'[b]
    <3>1. CASE item.id = 0
      <4>1. labels' = [labels EXCEPT ![b] = @ \cup {plan.project}]
        BY <1>3, <3>1 DEF Revise
      <4> QED
        BY <1>1, <2>1, <4>1 DEF GraphTypeOK
    <3>2. CASE item.id # 0
      BY <1>3, <3>2 DEF Revise, GraphTypeOK
    <3> QED
      BY <3>1, <3>2
  <2>4. FiledUpTo(k)'
    BY <1>3, <2>1, <2>2, <2>3, ItemIsFiled DEF item
  <2>5. closed' \subseteq Beads /\ byId' \subseteq Beads
    BY <1>3 DEF Revise, GraphTypeOK
  <2>6. b \in 0 .. count
    BY <1>2 DEF Beads
  <2>7. filed' \in [Refs -> 0 .. count]
    BY <1>1, <2>2, <2>6 DEF GraphTypeOK
  <2>8. key' \in [Ids -> Keys] /\ says' \in [Ids -> 0 .. MaxFilings]
    BY <1>1, <1>2, <2>1, <2>2 DEF GraphTypeOK
  <2> QED
    BY <1>2, <2>1, <2>3, <2>4, <2>5, <2>7, <2>8 DEF WriteTypes, GraphTypeOK
<1>4. ASSUME Found(Key(item)) = {}, item.id = 0, Create(item)
      PROVE  FiledUpTo(k)' /\ WriteTypes' /\ count <= count' /\ edges' = edges
  <2> DEFINE b == count + 1
  <2>1. /\ b \in Ids /\ count' = b /\ b \notin Beads /\ Beads' = Beads \cup {b} /\ UNCHANGED << edges, closed, byId >>
    BY <1>2, <1>4 DEF Create, Beads, Ids
  <2>2. /\ key' = [key EXCEPT ![b] = Key(item)] /\ says' = [says EXCEPT ![b] = nth]
        /\ made' = [made EXCEPT ![b] = Key(item)]
        /\ filed' = [filed EXCEPT ![item.ref] = b] /\ labels' = [labels EXCEPT ![b] = {plan.project}]
    BY <1>4, <2>1 DEF Create
  <2>3. /\ labels' \in [Ids -> SUBSET Projects] /\ \A c \in Beads : labels[c] \subseteq labels'[c]
        /\ plan.project \in labels'[b]
    <3>1. \A c \in Beads : c \in Ids /\ c # b
      BY <1>2, <2>1 DEF Beads, Ids, GraphTypeOK
    <3> QED
      BY <1>1, <2>1, <2>2, <3>1 DEF GraphTypeOK
  <2>4. FiledUpTo(k)'
    BY <2>1, <2>2, <2>3, ItemIsFiled DEF item
  <2>5. b \in 0 .. b /\ 0 .. count \subseteq 0 .. b /\ b \in 0 .. MaxBeads
    BY <1>2, <1>4 DEF Create
  <2>6. filed' \in [Refs -> 0 .. count']
    BY <1>1, <2>1, <2>2, <2>5 DEF GraphTypeOK
  <2>7. key' \in [Ids -> Keys] /\ made' \in [Ids -> Keys] /\ says' \in [Ids -> 0 .. MaxFilings]
    BY <1>1, <1>2, <2>1, <2>2 DEF GraphTypeOK
  <2>8. closed' \subseteq Beads' /\ byId' \subseteq Beads'
    BY <2>1 DEF GraphTypeOK
  <2> QED
    BY <1>2, <2>1, <2>3, <2>4, <2>5, <2>6, <2>7, <2>8 DEF WriteTypes
<1>5. item.id \in Beads => item.id # 0
  BY DEF Beads
<1> QED
  BY <1>3, <1>4, <1>5 DEF Write, Found, item

\* What is filed stays filed, whatever else happens to the graph.
LEMMA FiledStays ==
  ASSUME NEW k, FiledUpTo(k), UNCHANGED << plan, nth, filed, key, says >>,
         Beads \subseteq Beads', \A c \in Beads : labels[c] \subseteq labels'[c]
  PROVE  FiledUpTo(k)'
<1>1. \A i : Key(plan.items[i])' = Key(plan.items[i])
  BY DEF Key
<1> QED
  BY <1>1 DEF FiledUpTo

\* The edges a filed plan wants are between beads.
LEMMA WantedAreBeads ==
  ASSUME plan \in Plans, Valid(plan), FiledUpTo(Len(plan.items))
  PROVE  Wanted \subseteq Beads \X Beads
<1>1. DOMAIN plan.items = 1 .. Len(plan.items)
  BY ItemsOfAPlan
<1>2. \A i \in Items : \E n \in DOMAIN plan.items : i = plan.items[n]
  BY DEF Items
<1>3. \A i \in Items : filed[i.ref] \in Beads
  BY <1>1, <1>2 DEF FiledUpTo
<1>4. \A i \in Items : \A d \in i.deps : \E n \in DOMAIN plan.items : d = plan.items[n].ref
  BY <1>2 DEF Valid
<1>5. \A i \in Items : \A d \in i.deps : filed[d] \in Beads
  BY <1>1, <1>4 DEF FiledUpTo
<1>6. ASSUME NEW e \in Wanted PROVE e \in Beads \X Beads
  <2>1. PICK i \in Items : \E d \in i.deps : e = << filed[i.ref], filed[d] >>
    BY <1>6 DEF Wanted
  <2> QED
    BY <2>1, <1>3, <1>5
<1> QED
  BY <1>6

\* A step that is not the filing's leaves it where it was, if no wanted edge gets lost.
LEMMA FilingStands ==
  ASSUME GraphTypeOK, FilingInv, UNCHANGED << filing, key, says >>,
         Beads \subseteq Beads', \A c \in Beads : labels[c] \subseteq labels'[c],
         fails' = fails => edges \ edges' \subseteq cut' /\ cut \subseteq cut',
         fails' \in {fails, fails + 1}
  PROVE  FilingInv'
<1>1. \A k : FiledUpTo(k) => FiledUpTo(k)'
  BY FiledStays DEF filing
<1>2. Wanted' = Wanted
  BY DEF filing, Wanted, Items
<1>3. Wired => Wired'
  BY <1>2 DEF Wired, GraphTypeOK
<1> QED
  BY <1>1, <1>3 DEF FilingInv, filing, Valid

GraphInv == GraphTypeOK /\ FilingInv

\* The empty graph.
LEMMA GraphStarts == GraphInit => GraphInv
<1> SUFFICES ASSUME GraphInit PROVE GraphInv
  OBVIOUS
<1>1. NoKey \in Keys /\ 0 \in 0 .. MaxFilings /\ 0 \in 0 .. MaxBeads
  BY GraphAssumption DEF GraphAssumption, Keys
<1>2. /\ key \in [Ids -> Keys] /\ made \in [Ids -> Keys]
      /\ labels \in [Ids -> SUBSET Projects] /\ says \in [Ids -> 0 .. MaxFilings]
      /\ filed \in [Refs -> 0 .. count]
  BY <1>1 DEF GraphInit
<1>3. /\ closed \subseteq Beads /\ edges \subseteq Beads \X Beads /\ byId \subseteq Beads
      /\ plan \in Plans \cup {NoPlan} /\ nth \in 0 .. MaxFilings /\ before \in 0 .. count
      /\ count \in 0 .. MaxBeads
  BY <1>1 DEF GraphInit
<1>4. GraphTypeOK
  BY <1>2, <1>3 DEF GraphInit, GraphTypeOK
<1> QED
  BY <1>4 DEF GraphInit, GraphInv, FilingInv

\* The filing's own steps.
LEMMA FilingKeepsGraph ==
  ASSUME GraphInv, FilingStep \/ \E p \in Plans : FilePlan(p)
  PROVE  GraphInv'
<1> USE DEF GraphInv
<1>0. MaxBeads \in Nat /\ MaxFilings \in Nat /\ MaxFails \in Nat /\ count \in Nat
  BY GraphAssumption DEF GraphAssumption, GraphTypeOK
<1>1. ASSUME NEW p \in Plans, FilePlan(p) PROVE GraphInv'
  <2>1. GraphTypeOK'
    <3>1. nth' \in 0 .. MaxFilings /\ filed' \in [Refs -> 0 .. count]
      BY <1>0, <1>1 DEF FilePlan, GraphTypeOK
    <3>2. filePc' = "beads" => at' \in DOMAIN plan'.items
      <4>1. CASE Valid(p)
        BY <1>1, <4>1, ItemsOfAPlan DEF FilePlan, Valid
      <4>2. CASE ~Valid(p)
        BY <1>1, <4>2 DEF FilePlan
      <4> QED
        BY <4>1, <4>2
    <3> QED
      BY <1>1, <3>1, <3>2 DEF FilePlan, GraphTypeOK, graph, agent, Beads
  <2>2. FilingInv'
    <3>1. CASE Valid(p)
      <4>1. FiledUpTo(at - 1)'
        BY <1>1, <3>1 DEF FilePlan, FiledUpTo
      <4> QED
        BY <1>1, <3>1, <4>1 DEF FilePlan, FilingInv, Valid
    <3>2. CASE ~Valid(p)
      BY <1>1, <3>2 DEF FilePlan, FilingInv
    <3> QED
      BY <3>1, <3>2
  <2> QED
    BY <2>1, <2>2
<1>2. ASSUME filePc = "beads", Write(plan.items[at]), UNCHANGED << plan, nth, agent >>
      PROVE  /\ \A k : k = at => FiledUpTo(k)'
             /\ WriteTypes' /\ edges' \subseteq Beads' \X Beads' /\ before' \in 0 .. count'
             /\ plan' \in Plans /\ Valid(plan)' /\ at \in 1 .. Len(plan.items)
  <2>1. at \in DOMAIN plan.items /\ plan \in Plans /\ Valid(plan) /\ FiledUpTo(at - 1)
    BY <1>2 DEF GraphTypeOK, FilingInv
  <2>2. \A k \in DOMAIN plan.items : FiledUpTo(k - 1) /\ Write(plan.items[k]) =>
            FiledUpTo(k)' /\ WriteTypes' /\ count <= count' /\ edges' = edges
    BY <1>2, <2>1, WriteFiles
  <2>3. WriteTypes' /\ count <= count' /\ edges' = edges /\ \A k : k = at => FiledUpTo(k)'
    BY <1>2, <2>1, <2>2
  <2>4. Beads \subseteq Beads' /\ before' \in 0 .. count'
    BY <1>0, <1>2, <2>3 DEF Beads, WriteTypes, GraphTypeOK, agent
  <2>5. edges' \subseteq Beads' \X Beads'
    BY <2>3, <2>4 DEF GraphTypeOK
  <2>6. plan' \in Plans /\ Valid(plan)' /\ at \in 1 .. Len(plan.items)
    BY <1>2, <2>1, ItemsOfAPlan DEF Valid
  <2> QED
    BY <2>3, <2>4, <2>5, <2>6
<1>3. CASE FileItem
  <2>1. /\ filePc = "beads" /\ Write(plan.items[at]) /\ UNCHANGED << plan, nth, agent, outcome, fails >>
        /\ nth' \in 0 .. MaxFilings /\ outcome' = "none" /\ fails' \in Nat
    BY <1>3 DEF FileItem, GraphTypeOK, FilingInv
  <2>2. at \in 1 .. Len(plan'.items) /\ DOMAIN plan'.items = 1 .. Len(plan'.items) /\ Len(plan'.items) \in Nat
    BY <1>2, <2>1, ItemsOfAPlan
  <2>3. CASE at < Len(plan.items)
    <3>1. at' = at + 1 /\ filePc' = "beads" /\ at' \in DOMAIN plan'.items /\ at' - 1 = at
      BY <1>3, <2>1, <2>2, <2>3 DEF FileItem
    <3>2. FiledUpTo(at - 1)'
      BY <1>2, <2>1, <3>1
    <3>3. FilingInv'
      BY <1>2, <2>1, <3>1, <3>2 DEF FilingInv
    <3> QED
      BY <1>2, <2>1, <3>1, <3>3 DEF GraphTypeOK, WriteTypes, agent
  <2>4. CASE ~(at < Len(plan.items))
    <3>1. at = Len(plan'.items) /\ filePc' = "edges" /\ at' = 0
      BY <1>3, <2>1, <2>2, <2>4 DEF FileItem
    <3>2. FiledUpTo(Len(plan.items))'
      BY <1>2, <2>1, <3>1
    <3>3. FilingInv'
      BY <1>2, <2>1, <3>1, <3>2 DEF FilingInv
    <3> QED
      BY <1>2, <2>1, <3>1, <3>3 DEF GraphTypeOK, WriteTypes, agent
  <2> QED
    BY <2>3, <2>4
<1>4. CASE ItemFails
  <2>1. /\ filePc = "beads" /\ filePc' = "idle" /\ outcome' = "failed" /\ UNCHANGED << plan, nth, agent >>
        /\ fails' \in Nat
    BY <1>4 DEF ItemFails, GraphTypeOK
  <2>2. FilingInv'
    BY <2>1 DEF FilingInv
  <2>3. CASE Write(plan.items[at])
    BY <1>2, <2>1, <2>2, <2>3 DEF GraphTypeOK, WriteTypes, agent
  <2>4. CASE UNCHANGED << graph, filed, made, byId >>
    BY <2>1, <2>2, <2>4 DEF GraphTypeOK, graph, agent, Beads
  <2> QED
    BY <1>4, <2>3, <2>4 DEF ItemFails
<1>5. ASSUME NEW some \in SUBSET Wanted, edges' = edges \cup { e \in some : e[1] # e[2] },
             filePc = "edges" \/ some = {}, filePc # "idle",
             filePc' \in {"cycles", "idle"}, fails' \in {fails, fails + 1}, outcome' = outcome,
             filePc' = "cycles" => filePc = "edges" /\ (some = Wanted \/ fails' # fails),
             UNCHANGED << count, key, labels, says, closed, plan, nth, filed, agent, made, byId >>
      PROVE  GraphInv'
  <2>1. plan \in Plans /\ Valid(plan) /\ outcome = "none"
    BY <1>5 DEF FilingInv
  <2>2. edges' \subseteq Beads' \X Beads'
    <3>1. CASE filePc = "edges"
      <4>1. Wanted \subseteq Beads \X Beads
        BY <2>1, <3>1, WantedAreBeads DEF FilingInv
      <4> QED
        BY <1>5, <4>1 DEF GraphTypeOK, Beads
    <3>2. CASE some = {}
      BY <1>5, <3>2 DEF GraphTypeOK, Beads
    <3> QED
      BY <1>5, <3>1, <3>2
  <2>3. filePc' = "cycles" => FiledUpTo(Len(plan.items))' /\ Wired'
    <3> SUFFICES ASSUME filePc' = "cycles" PROVE FiledUpTo(Len(plan.items))' /\ Wired'
      OBVIOUS
    <3>1. Wanted' = Wanted
      BY <1>5 DEF Wanted, Items
    <3>2. fails' = 0 => some = Wanted
      BY <1>5 DEF GraphTypeOK
    <3>3. Wired'
      BY <1>5, <3>1, <3>2 DEF Wired
    <3>4. FiledUpTo(Len(plan.items))'
      BY <1>5, FiledStays DEF FilingInv, Beads
    <3> QED
      BY <3>3, <3>4
  <2>4. FilingInv'
    BY <1>5, <2>1, <2>3 DEF FilingInv, Valid
  <2>5. fails' \in Nat
    BY <1>5 DEF GraphTypeOK
  <2> QED
    BY <1>5, <2>1, <2>2, <2>4, <2>5 DEF GraphTypeOK, agent, Beads
<1>6. CASE WireEdges
  <2>1. PICK some \in SUBSET Wanted :
            /\ edges' = edges \cup { e \in some : e[1] # e[2] }
            /\ some = Wanted \/ fails' # fails
            /\ fails' \in {fails, fails + 1}
    <3>1. CASE edges' = edges \cup { e \in Wanted : e[1] # e[2] } /\ fails' = fails
      BY <3>1
    <3>2. CASE /\ fails' = fails + 1
               /\ \E some \in SUBSET Wanted : edges' = edges \cup { e \in some : e[1] # e[2] }
      <4>1. fails' # fails
        BY <3>2 DEF GraphTypeOK
      <4> QED
        BY <3>2, <4>1
    <3> QED
      BY <1>6, <3>1, <3>2 DEF WireEdges
  <2> QED
    BY <1>5, <1>6, <2>1 DEF WireEdges
<1>7. CASE CheckCycles
  <2>1. filePc = "cycles" /\ filePc' = "idle" /\ outcome' \in {"cyclic", "done"} /\ fails' \in {fails, fails + 1}
        /\ UNCHANGED << graph, plan, nth, at, filed, agent, made, byId >>
    BY <1>7 DEF CheckCycles
  <2>2. GraphTypeOK'
    BY <2>1 DEF GraphTypeOK, graph, agent, Beads
  <2>3. Wanted' = Wanted /\ FiledUpTo(Len(plan.items))'
    BY <2>1, FiledStays DEF FilingInv, Wanted, Items, graph, Beads
  <2>4. Wired'
    BY <2>1, <2>3 DEF FilingInv, Wired, graph, agent, GraphTypeOK
  <2> QED
    BY <2>1, <2>2, <2>3, <2>4 DEF FilingInv, Valid
<1>8. CASE FilingDies
  <2>1. PICK some \in SUBSET Wanted :
            edges' = edges \cup { e \in some : e[1] # e[2] } /\ (filePc = "edges" \/ some = {})
    BY <1>8 DEF FilingDies
  <2> QED
    BY <1>5, <1>8, <2>1 DEF FilingDies
<1> QED
  BY <1>1, <1>3, <1>4, <1>6, <1>7, <1>8 DEF FilingStep

\* The agents' steps.
LEMMA AgentKeepsGraph ==
  ASSUME GraphInv, AgentStep
  PROVE  GraphInv'
<1> USE DEF GraphInv
<1>0. MaxBeads \in Nat /\ count \in Nat
  BY GraphAssumption DEF GraphAssumption, GraphTypeOK
<1>1. /\ UNCHANGED << filing, key, says, made, byId, fails >>
      /\ count' = count \/ (count < MaxBeads /\ count' = count + 1)
      /\ edges \ edges' \subseteq cut' /\ cut \subseteq cut'
  BY DEF AgentStep, RunStarts, AgentCreates, RunEnds, AgentCloses, AgentLabels, AgentLinks, AgentUnlinks, agent, graph
<1>2. Beads \subseteq Beads' /\ count' \in 0 .. MaxBeads /\ 0 .. count \subseteq 0 .. count'
  <2>1. CASE count' = count
    BY <2>1 DEF Beads, GraphTypeOK
  <2>2. CASE count < MaxBeads /\ count' = count + 1
    BY <1>0, <2>2 DEF Beads
  <2> QED
    BY <1>1, <2>1, <2>2
<1>3. labels' \in [Ids -> SUBSET Projects] /\ \A c \in Beads : labels[c] \subseteq labels'[c]
  <2>1. CASE RunEnds
    <3>1. \A b \in Ids : labels'[b] = IF b \in Beads THEN labels[b] ELSE {}
      BY <2>1 DEF RunEnds, Labelled, JobProject
    <3>2. labels' = [b \in Ids |-> labels'[b]] /\ Beads \subseteq Ids
      BY <1>0, <2>1 DEF RunEnds, Beads, Ids, GraphTypeOK
    <3> QED
      BY <3>1, <3>2 DEF GraphTypeOK
  <2>2. CASE \E b \in Beads : \E p \in Projects : AgentLabels(b, p)
    <3>1. PICK b \in Beads, p \in Projects : labels' = [labels EXCEPT ![b] = @ \cup {p}]
      BY <2>2 DEF AgentLabels
    <3>2. Beads \subseteq Ids
      BY <1>0 DEF Beads, Ids, GraphTypeOK
    <3> QED
      BY <3>1, <3>2 DEF GraphTypeOK
  <2>3. CASE UNCHANGED labels
    BY <2>3 DEF GraphTypeOK
  <2> QED
    BY <2>1, <2>2, <2>3 DEF AgentStep, RunStarts, AgentCreates, AgentCloses, AgentLinks, AgentUnlinks, graph
<1>4. FilingInv'
  BY <1>1, <1>2, <1>3, FilingStands
<1>5. closed' \subseteq Beads' /\ edges' \subseteq Beads' \X Beads'
  <2>1. closed' \subseteq closed \cup Beads /\ edges' \subseteq edges \cup (Beads \X Beads)
    <3>1. \A b, c \in Beads : << b, c >> \in Beads \X Beads
      OBVIOUS
    <3>2. CASE \E b \in Beads : AgentCloses(b)
      BY <3>2 DEF AgentCloses
    <3>3. CASE \E b, c \in Beads : AgentLinks(b, c) \/ AgentUnlinks(b, c)
      BY <3>1, <3>3 DEF AgentLinks, AgentUnlinks
    <3>4. CASE UNCHANGED << closed, edges >>
      BY <3>4
    <3> QED
      BY <3>2, <3>3, <3>4 DEF AgentStep, RunStarts, AgentCreates, RunEnds, AgentLabels, graph
  <2>2. closed' \subseteq Beads /\ edges' \subseteq Beads \X Beads
    BY <2>1 DEF GraphTypeOK
  <2> QED
    BY <1>2, <2>2
<1>6. running' \in BOOLEAN /\ before' \in 0 .. count' /\ edits' \in Nat
  <2>1. before' \in {before, count, 0} /\ edits' \in {edits, edits + 1}
    BY DEF AgentStep, RunStarts, AgentCreates, RunEnds, AgentCloses, AgentLabels, AgentLinks, AgentUnlinks, agent
  <2>2. before \in 0 .. count /\ count \in 0 .. count /\ 0 \in 0 .. count
    BY <1>0 DEF GraphTypeOK
  <2>3. running' = running \/ running' = TRUE \/ running' = FALSE
    BY Zenon DEF AgentStep, RunStarts, AgentCreates, RunEnds, AgentCloses, AgentLabels, AgentLinks, AgentUnlinks, agent
  <2>4. running' \in BOOLEAN
    BY <2>3 DEF GraphTypeOK
  <2> QED
    BY <1>2, <2>1, <2>2, <2>4 DEF GraphTypeOK
<1>7. filed' \in [Refs -> 0 .. count'] /\ byId' \subseteq Beads'
  BY <1>1, <1>2 DEF GraphTypeOK, filing
<1> QED
  BY <1>1, <1>2, <1>3, <1>4, <1>5, <1>6, <1>7 DEF GraphTypeOK, filing

\* A pass reads the graph; all it may change is the count of failures.
LEMMA PassKeepsGraph ==
  ASSUME GraphInv, SendStep \/ UNCHANGED vars
  PROVE  GraphInv'
<1>1. UNCHANGED << graph, filing, agent, made, byId >> /\ fails' \in {fails, fails + 1}
  BY DEF SendStep, ReadBeads, ProjectBead, ProjectLinks, SendFails, vars, graphVars
<1>2. FilingInv'
  BY <1>1, FilingStands DEF GraphInv, graph, agent, Beads
<1> QED
  BY <1>1, <1>2 DEF GraphInv, GraphTypeOK, graph, filing, agent, Beads

\* Every step of filings, agents and passes keeps the invariant of the graph.
LEMMA GraphStep == GraphInv /\ [Next]_vars => GraphInv'
<1>1. [Next]_vars => \/ FilingStep \/ \E p \in Plans : FilePlan(p)
                     \/ AgentStep \/ SendStep \/ UNCHANGED vars
  BY DEF Next, GraphNext
<1> QED
  BY <1>1, FilingKeepsGraph, AgentKeepsGraph, PassKeepsGraph

\* A filing reported done is all there, whatever agents do to the graph meanwhile and
\* whatever calls failed and were made again (fileplan): every item has a bead of its own
\* that says what the plan says, and every dependency is drawn, for all plans.
THEOREM DoneIsFiled == Spec => []DoneMeansFiled
<1>1. Init => GraphInv
  BY GraphStarts DEF Init
<1>2. GraphInv => DoneMeansFiled
  <2> SUFFICES ASSUME GraphInv, outcome = "done", filePc = "idle" PROVE DoneMeansFiled
    BY DEF DoneMeansFiled
  <2>1. FiledUpTo(Len(plan.items)) /\ Wired /\ plan \in Plans
    BY DEF GraphInv, FilingInv
  <2>2. DOMAIN plan.items = 1 .. Len(plan.items)
    BY <2>1, ItemsOfAPlan
  <2>3. \A i \in Items : \E n \in DOMAIN plan.items : i = plan.items[n]
    BY DEF Items
  <2>4. \A i \in Items : /\ filed[i.ref] \in Beads /\ says[filed[i.ref]] = nth
                         /\ i.id = 0 => plan.project \in labels[filed[i.ref]]
    BY <2>1, <2>2, <2>3 DEF FiledUpTo
  <2>5. \A i, j \in DOMAIN plan.items :
            i # j /\ plan.items[i].id = 0 /\ plan.items[j].id = 0
               => filed[plan.items[i].ref] # filed[plan.items[j].ref]
    BY <2>1, <2>2 DEF FiledUpTo
  <2> QED
    BY <2>1, <2>4, <2>5 DEF DoneMeansFiled, Wired
<1> QED
  BY <1>1, <1>2, GraphStep, PTL DEF Spec
-----------------------------------------------------------------------------
(* A pass.                                                                 *)

\* The types of what a pass reads and writes, the graph's aside.
PassTypes ==
    /\ shown \subseteq Beads
    /\ project \in [Ids -> Projects \cup {NoProject}]
    /\ links \subseteq shown \X shown
    /\ sendPc \in {"idle", "beads", "links"}
    /\ sendPc # "idle" => next \in 1 .. read.count
    /\ missed \subseteq Beads
    /\ read.count \in 0 .. count /\ read.edges \subseteq Beads \X Beads

\* What was read is a graph, and what it says of the beads the request has been through
\* has been recorded: first that they exist -- so that no blocker is without a row when
\* the links are looked at -- and then what blocks them.
PassInv ==
    /\ PassTypes
    /\ sendPc # "idle" => /\ read.labels \in [Ids -> SUBSET Projects]
                          /\ read.edges \subseteq (1 .. read.count) \X (1 .. read.count)
    /\ sendPc = "beads" => 1 .. (next - 1) \subseteq shown
    /\ sendPc = "links" =>
          /\ 1 .. read.count \subseteq shown
          /\ \A b \in 1 .. (next - 1) : Blockers(b) # {} /\ b \notin missed
                => { l \in links : l[1] = b } = { e \in read.edges : e[1] = b }

\* The beads there are only grow.
LEMMA BeadsStay ==
  ASSUME GraphInv, [Next]_vars
  PROVE  /\ count \in Nat /\ count' \in Nat /\ count <= count' /\ count <= MaxBeads
         /\ MaxBeads \in Nat /\ Beads \subseteq Beads' /\ Beads \subseteq Ids
<1>1. GraphInv'
  BY GraphStep
<1>2. count \in Nat /\ count' \in Nat /\ MaxBeads \in Nat /\ count <= MaxBeads
  BY <1>1, GraphAssumption DEF GraphAssumption, GraphInv, GraphTypeOK
<1>3. count' = count \/ count' = count + 1
  BY DEF Next, GraphNext, FilePlan, FilingStep, FileItem, ItemFails, Write, Revise, Create,
         WireEdges, CheckCycles, FilingDies, AgentStep, RunStarts, AgentCreates, RunEnds,
         AgentCloses, AgentLabels, AgentLinks, AgentUnlinks, SendStep, ReadBeads, ProjectBead,
         ProjectLinks, SendFails, vars, graphVars, graph
<1> QED
  BY <1>2, <1>3 DEF Beads, Ids

\* A pass that does nothing stays what it is, however many beads are made.
LEMMA PassStands ==
  ASSUME GraphInv, PassInv, [Next]_vars, UNCHANGED << refVars, sendVars >>
  PROVE  PassInv'
<1>1. Beads \subseteq Beads' /\ 0 .. count \subseteq 0 .. count'
  BY BeadsStay
<1>2. PassTypes'
  BY <1>1 DEF PassInv, PassTypes, refVars, sendVars
<1> QED
  BY <1>2 DEF PassInv, Blockers, refVars, sendVars

\* What the links into bead b are after its blockers were recorded is what was read, for
\* every blocker has a row.
LEMMA RecordedIsRead ==
  ASSUME NEW b \in 1 .. read.count, 1 .. read.count \subseteq shown, read.count \in Nat,
         1 .. read.count \subseteq Ids,
         read.edges \subseteq (1 .. read.count) \X (1 .. read.count)
  PROVE  /\ { l \in Recorded(b) : l[1] = b } = { e \in read.edges : e[1] = b }
         /\ \A c \in Ids \ {b} : { l \in Recorded(b) : l[1] = c } = { l \in links : l[1] = c }
<1>1. Blockers(b) \subseteq shown
  BY DEF Blockers
<1>2. ({b} \X Blockers(b)) = { e \in read.edges : e[1] = b }
  BY DEF Blockers
<1>3. \A l \in {b} \X Blockers(b) : l[1] = b
  OBVIOUS
<1>4. Recorded(b) = { l \in links : l[1] # b } \cup ({b} \X Blockers(b))
  BY <1>1 DEF Recorded
<1> QED
  BY <1>2, <1>3, <1>4

\* One bead's blockers are recorded, there are none, or the call fails: the request has been
\* through one bead more.
LEMMA OneMoreLinked ==
  ASSUME GraphInv, PassInv, ProjectLinks
  PROVE  /\ links' \subseteq shown \X shown
         /\ missed' \subseteq Beads /\ missed \subseteq missed'
         /\ \A b \in 1 .. next : Blockers(b) # {} /\ b \notin missed'
               => { l \in links' : l[1] = b } = { e \in read.edges : e[1] = b }
<1>1. /\ sendPc = "links" /\ next \in 1 .. read.count /\ read.count \in Nat /\ read.count <= count
      /\ 1 .. read.count \subseteq shown /\ 1 .. read.count \subseteq Ids /\ next \in Beads
  BY GraphAssumption
     DEF GraphAssumption, GraphInv, GraphTypeOK, PassInv, PassTypes, ProjectLinks, Beads, Ids
<1>2. \/ links' = Recorded(next) /\ missed' = missed
      \/ Blockers(next) = {} /\ links' = links /\ missed' = missed
      \/ links' = links /\ missed' = missed \cup {next}
  BY DEF ProjectLinks
<1>3. links' \subseteq shown \X shown
  <2>1. Recorded(next) \subseteq shown \X shown
    BY <1>1 DEF Recorded, PassInv, PassTypes
  <2> QED
    BY <1>2, <2>1 DEF PassInv, PassTypes
<1>4. missed' \subseteq Beads /\ missed \subseteq missed'
  BY <1>1, <1>2 DEF PassInv, PassTypes
<1>5. ASSUME NEW b \in 1 .. next, Blockers(b) # {}, b \notin missed'
      PROVE  { l \in links' : l[1] = b } = { e \in read.edges : e[1] = b }
  <2>1. b \in 1 .. read.count /\ b \in Ids /\ (b = next \/ b \in 1 .. (next - 1))
    BY <1>1
  <2>2. CASE b = next
    BY <1>1, <1>2, <1>5, <2>2, RecordedIsRead DEF PassInv
  <2>3. CASE b # next
    <3>1. { l \in links : l[1] = b } = { e \in read.edges : e[1] = b }
      BY <1>1, <1>4, <1>5, <2>1, <2>3 DEF PassInv
    <3>2. { l \in Recorded(next) : l[1] = b } = { l \in links : l[1] = b }
      BY <1>1, <2>1, <2>3, RecordedIsRead DEF PassInv
    <3> QED
      BY <1>2, <3>1, <3>2
  <2> QED
    BY <2>2, <2>3
<1> QED
  BY <1>3, <1>4, <1>5

\* A row is written with a project, or with none.
LEMMA AttributionTypes ==
  ASSUME PassInv, sendPc = "beads", NEW b \in Ids
  PROVE  Attribution(b) \in Projects \cup {NoProject}
<1>1. CASE read.labels[b] # {}
  <2>1. (CHOOSE p \in read.labels[b] : TRUE) \in read.labels[b]
    BY <1>1
  <2>2. read.labels[b] \subseteq Projects
    BY DEF PassInv
  <2> QED
    BY <1>1, <2>1, <2>2 DEF Attribution
<1>2. CASE read.labels[b] = {}
  BY <1>2, FallbackAssumption DEF FallbackAssumption, Attribution, PassInv, PassTypes
<1> QED
  BY <1>1, <1>2

\* One case per step of a pass.
LEMMA SendKeepsPass ==
  ASSUME GraphInv, PassInv, SendStep
  PROVE  PassInv'
<1>0. /\ count \in Nat /\ count <= MaxBeads /\ MaxBeads \in Nat /\ Beads' = Beads /\ count' = count
      /\ read.count \in Nat /\ read.count <= count
  BY GraphAssumption DEF GraphAssumption, GraphInv, GraphTypeOK, PassInv, PassTypes, Beads,
     SendStep, ReadBeads, ProjectBead, ProjectLinks, SendFails, graphVars, graph
<1>1. CASE ReadBeads
  <2>1. /\ read'.count = count /\ read'.labels = labels /\ read'.edges = edges
        /\ sendPc' = "beads" /\ next' = 1 /\ missed' = {} /\ UNCHANGED refVars /\ 1 \in 1 .. count
    BY <1>0, <1>1 DEF ReadBeads
  <2>2. PassTypes'
    BY <1>0, <2>1 DEF PassInv, PassTypes, refVars, GraphInv, GraphTypeOK
  <2>3. 1 .. (next' - 1) = {}
    BY <2>1
  <2> QED
    BY <1>0, <2>1, <2>2, <2>3 DEF PassInv, GraphInv, GraphTypeOK, Beads
<1>2. CASE ProjectBead
  <2>1. /\ sendPc = "beads" /\ next \in 1 .. read.count /\ next \in Beads /\ next \in Ids
        /\ shown' = shown \cup {next} /\ UNCHANGED << missed, links, read >>
        /\ project' = [project EXCEPT ![next] = Attribution(next)]
    BY <1>0, <1>2 DEF ProjectBead, PassInv, PassTypes, Advance, Beads, Ids
  <2>2. project' \in [Ids -> Projects \cup {NoProject}]
    BY <2>1, AttributionTypes DEF PassInv, PassTypes
  <2>3. /\ shown' \subseteq Beads' /\ links' \subseteq shown' \X shown'
        /\ 1 .. next \subseteq shown'
    <3>1. shown \subseteq Beads /\ links \subseteq shown \X shown /\ 1 .. (next - 1) \subseteq shown
      BY <2>1 DEF PassInv, PassTypes
    <3>2. next \in Nat /\ \A b \in 1 .. next : b = next \/ b \in 1 .. (next - 1)
      BY <1>0, <2>1
    <3>3. shown' \subseteq Beads'
      BY <1>0, <2>1, <3>1
    <3>4. links' \subseteq shown' \X shown'
      BY <2>1, <3>1
    <3>5. 1 .. next \subseteq shown'
      BY <2>1, <3>1, <3>2
    <3> QED
      BY <3>3, <3>4, <3>5
  <2>4. CASE next < read.count
    <3>1. next' = next + 1 /\ sendPc' = sendPc
      BY <1>2, <2>4 DEF ProjectBead, Advance
    <3>2. next' \in 1 .. read.count /\ next' - 1 = next
      BY <1>0, <2>1, <2>4, <3>1
    <3> QED
      BY <1>0, <2>1, <2>2, <2>3, <3>1, <3>2 DEF PassInv, PassTypes
  <2>5. CASE ~(next < read.count)
    <3>1. next' = 1 /\ sendPc' = "links" /\ next = read.count
      BY <1>0, <1>2, <2>1, <2>5 DEF ProjectBead, Advance
    <3>2. 1 .. (next' - 1) = {} /\ next' \in 1 .. read.count
      BY <1>0, <2>1, <3>1
    <3> QED
      BY <1>0, <2>1, <2>2, <2>3, <3>1, <3>2 DEF PassInv, PassTypes
  <2> QED
    BY <2>4, <2>5
<1>3. CASE ProjectLinks
  <2>1. sendPc = "links" /\ next \in 1 .. read.count /\ UNCHANGED << shown, project >>
    BY <1>3 DEF ProjectLinks, PassInv, PassTypes
  <2>2. CASE next < read.count
    <3>1. next' = next + 1 /\ UNCHANGED << sendPc, read >>
      BY <1>3, <2>2 DEF ProjectLinks, Advance
    <3>2. next' \in 1 .. read.count /\ next' - 1 = next
      BY <1>0, <2>1, <2>2, <3>1
    <3>3. \A b : Blockers(b)' = Blockers(b)
      BY <3>1 DEF Blockers
    <3> QED
      BY <1>0, <1>3, <2>1, <3>1, <3>2, <3>3, OneMoreLinked DEF PassInv, PassTypes
  <2>3. CASE ~(next < read.count)
    <3>1. sendPc' = "idle" /\ read' = Nothing
      BY <1>3, <2>3 DEF ProjectLinks, Advance, SendEnds
    <3> QED
      BY <1>0, <1>3, <2>1, <3>1, OneMoreLinked DEF PassInv, PassTypes, Nothing
  <2> QED
    BY <2>2, <2>3
<1>4. CASE SendFails
  <2>1. sendPc' = "idle" /\ read' = Nothing /\ missed' = {} /\ UNCHANGED refVars
    BY <1>4 DEF SendFails, SendEnds
  <2> QED
    BY <1>0, <2>1 DEF PassInv, PassTypes, Nothing, refVars
<1> QED
  BY <1>1, <1>2, <1>3, <1>4 DEF SendStep

\* Every step keeps the invariant of the pass.
LEMMA PassStep == GraphInv /\ PassInv /\ [Next]_vars => GraphInv' /\ PassInv'
<1>1. [Next]_vars => SendStep \/ UNCHANGED << refVars, sendVars >>
  BY DEF Next, vars
<1> QED
  BY <1>1, GraphStep, PassStands, SendKeepsPass

\* The initial state satisfies both.
LEMMA PassStarts == Init => GraphInv /\ PassInv
<1>1. Init => GraphInv
  BY GraphStarts DEF Init
<1>2. Init => PassInv
  BY GraphAssumption DEF GraphAssumption, Init, GraphInit, PassInv, PassTypes, Nothing, Beads, Ids
<1> QED
  BY <1>1, <1>2

\* The graph, its writers and its projection keep their types.
THEOREM BeadTypes == Spec => []TypeOK
<1>1. GraphInv /\ PassInv => TypeOK
  BY DEF GraphInv, PassInv, PassTypes, TypeOK
<1> QED
  BY <1>1, PassStarts, PassStep, PTL DEF Spec

\* A pass that completes leaves the control plane saying of every bead that has a blocker
\* what the graph said when the pass began (system_project_bead_blockers), for all graphs:
\* beads whose blockers come after them in the list included, and whatever the graph has
\* become since.
THEOREM PassesRecord == Spec => PassRecordsBlockers
<1>1. GraphInv /\ PassInv /\ [Next]_vars
         => [PassCompletes => \A b \in 1 .. read.count :
                Blockers(b) # {} /\ b \notin missed'
                   => { l \in links' : l[1] = b } = { e \in read.edges : e[1] = b }]_vars
  BY OneMoreLinked DEF PassCompletes
<1> QED
  BY <1>1, PassStarts, PassStep, PTL DEF Spec, PassRecordsBlockers
=============================================================================
