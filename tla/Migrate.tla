------------------------------ MODULE Migrate -------------------------------
(* cmd/migrate and the deployment that calls it: what each migration has    *)
(* changed, what schema_migrations says, and the processes between them.    *)
(* A file carries its own BEGIN and COMMIT, so the transaction the command  *)
(* opened round it is over before the record is written.                    *)
EXTENDS Naturals, FiniteSets

CONSTANTS
    Shipped,        \* the migrations there may come to be are 1..Shipped, in the order of their names
    First,          \* those of the first release
    Seeds,          \* db/tenant_seeds.txt
    Again,          \* the ones that can be run a second time
    OnEmpty,        \* migrate_on_empty_database: "fresh" or "seed"
    Deploys,
    MaxUpsets       \* bound: deaths, lost connections, edits of a migration

ASSUME MigrateAssumption ==
    /\ Shipped \in Nat \ {0} /\ First \in 1..Shipped
    /\ Seeds \subseteq 1..Shipped /\ OnEmpty \in {"fresh", "seed"} /\ MaxUpsets \in Nat

Files == 1..Shipped
Texts == {"none", "v1", "v2"}

VARIABLES
    files,      \* what the release holds: the text of each migration
    changed,    \* what the schema was changed by
    onRecord,   \* schema_migrations: the checksum of each name
    deploy,     \* the processes
    upsets

migrateVars == << files, changed, onRecord, deploy, upsets >>

Waiting == [at |-> "waiting", fresh |-> FALSE, files |-> [m \in Files |-> "none"], known |-> {}]
MigrateTypeOK ==
    /\ {files, changed, onRecord} \subseteq [Files -> Texts]
    /\ deploy \in [Deploys -> [at : {"waiting", "counted", "skipping", "applying", "changed", "done", "failed"},
                               fresh : BOOLEAN, files : [Files -> Texts], known : SUBSET Files]]
    /\ upsets \in 0..MaxUpsets

MigrateInit ==
    /\ files = [m \in Files |-> IF m <= First THEN "v1" ELSE "none"]
    /\ changed = [m \in Files |-> "none"] /\ onRecord = [m \in Files |-> "none"]
    /\ deploy = [d \in Deploys |-> Waiting] /\ upsets = 0

Upset == upsets < MaxUpsets /\ upsets' = upsets + 1
Names(table) == {m \in Files : table[m] # "none"}
Goes(d, at) == deploy' = [deploy EXCEPT ![d].at = at]
Fails(d) == Goes(d, "failed") /\ UNCHANGED << files, changed, onRecord >>

\* The deployment counts what is applied, in a task of its own, and asks for a fresh
\* installation when that is nothing.
Count(d) ==
    /\ deploy[d].at = "waiting"
    /\ deploy' = [deploy EXCEPT ![d] =
           [at |-> "counted", fresh |-> Names(onRecord) = {} /\ OnEmpty = "fresh", files |-> files, known |-> {}]]
    /\ UNCHANGED << files, changed, onRecord, upsets >>

\* run: every recorded checksum must be the release's, and -fresh is for nothing applied.
Edited(d) == \E m \in Names(onRecord) \cap Names(deploy[d].files) : onRecord[m] # deploy[d].files[m]
Run(d) ==
    /\ deploy[d].at = "counted"
    /\ IF Edited(d) \/ (deploy[d].fresh /\ Names(onRecord) # {})
       THEN Goes(d, "failed")
       ELSE deploy' = [deploy EXCEPT ![d] = [at |-> IF @.fresh THEN "skipping" ELSE "applying",
                                             fresh |-> @.fresh, files |-> @.files, known |-> Names(onRecord)]]
    /\ UNCHANGED << files, changed, onRecord, upsets >>

\* skipTenantSeeds: each seed is recorded by a statement of its own.
Unskipped(d) == (Seeds \cap Names(deploy[d].files)) \ deploy[d].known
SkipSeed(d) ==
    /\ deploy[d].at = "skipping" /\ Unskipped(d) # {} /\ UNCHANGED upsets
    /\ LET m == CHOOSE s \in Unskipped(d) : \A t \in Unskipped(d) : s <= t IN
       IF onRecord[m] # "none" THEN Fails(d)
       ELSE /\ onRecord' = [onRecord EXCEPT ![m] = deploy[d].files[m]]
            /\ deploy' = [deploy EXCEPT ![d].known = @ \cup {m}]
            /\ UNCHANGED << files, changed >>

Skipped(d) ==
    /\ deploy[d].at = "skipping" /\ Unskipped(d) = {} /\ Goes(d, "applying")
    /\ UNCHANGED << files, changed, onRecord, upsets >>

Pending(d) == Names(deploy[d].files) \ deploy[d].known
NextOf(d) == CHOOSE m \in Pending(d) : \A n \in Pending(d) : m <= n

\* MUTANT of Apply: what is there already is taken for done.
ApplyOnward(d) ==
    /\ deploy[d].at = "applying" /\ Pending(d) # {} /\ UNCHANGED upsets
    /\ LET m == NextOf(d) IN
       IF changed[m] # "none" /\ m \notin Again
       THEN deploy' = [deploy EXCEPT ![d].known = @ \cup {m}] /\ UNCHANGED << files, changed, onRecord >>
       ELSE /\ changed' = [changed EXCEPT ![m] = deploy[d].files[m]]
            /\ Goes(d, "changed") /\ UNCHANGED << files, onRecord >>

\* apply, up to the COMMIT in the file. What is there already cannot be made again,
\* unless the file says so.
Apply(d) ==
    /\ deploy[d].at = "applying" /\ Pending(d) # {} /\ UNCHANGED upsets
    /\ LET m == NextOf(d) IN
       IF changed[m] # "none" /\ m \notin Again THEN Fails(d)
       ELSE /\ changed' = [changed EXCEPT ![m] = deploy[d].files[m]]
            /\ Goes(d, "changed") /\ UNCHANGED << files, onRecord >>

\* The INSERT, outside of any transaction by now; a COMMIT with nothing to commit is a
\* warning.
RecordChange(d) ==
    /\ deploy[d].at = "changed" /\ UNCHANGED upsets
    /\ IF onRecord[NextOf(d)] # "none" THEN Fails(d)
       ELSE /\ onRecord' = [onRecord EXCEPT ![NextOf(d)] = deploy[d].files[NextOf(d)]]
            /\ deploy' = [deploy EXCEPT ![d].at = "applying", ![d].known = @ \cup {NextOf(d)}]
            /\ UNCHANGED << files, changed >>

Done(d) ==
    /\ deploy[d].at = "applying" /\ Pending(d) = {} /\ Goes(d, "done")
    /\ UNCHANGED << files, changed, onRecord, upsets >>

-----------------------------------------------------------------------------
(* The command is killed, loses the database or is over its ten minutes;    *)
(* releases; the next deployment.                                           *)

Dies(d) ==
    /\ deploy[d].at \in {"counted", "skipping", "applying", "changed"}
    /\ Upset /\ Fails(d)

Release ==
    /\ Names(files) # Files
    /\ files' = [files EXCEPT ![Cardinality(Names(files)) + 1] = "v1"]
    /\ UNCHANGED << changed, onRecord, deploy, upsets >>

Edit(m) ==
    /\ files[m] = "v1" /\ Upset /\ files' = [files EXCEPT ![m] = "v2"]
    /\ UNCHANGED << changed, onRecord, deploy >>

DeployAgain(d) ==
    /\ deploy[d].at \in {"done", "failed"}
    /\ deploy' = [deploy EXCEPT ![d] = Waiting]
    /\ UNCHANGED << files, changed, onRecord, upsets >>

MigrateSteps(d) == Count(d) \/ Run(d) \/ SkipSeed(d) \/ Skipped(d) \/ Apply(d) \/ RecordChange(d) \/ Done(d)
MigrateNext ==
    \/ \E d \in Deploys : MigrateSteps(d) \/ Dies(d) \/ DeployAgain(d)
    \/ Release
    \/ \E m \in Files : Edit(m)

MigrateSpec == MigrateInit /\ [][MigrateNext]_migrateVars

-----------------------------------------------------------------------------
(* What is checked.                                                         *)

\* Whatever dies, is edited or overlaps, and however often a deployment is repeated, a
\* migration changes the schema only when every earlier one is on record; what is on
\* record was run, or is a seed that was set aside; and a process that applies anything
\* has read no record that its own release contradicts ("an applied migration must
\* never be edited").
SchemaGrowsInOrder ==
    /\ \A m \in Names(changed) : 1..(m - 1) \subseteq Names(onRecord)
    /\ Names(onRecord) \subseteq Names(changed) \cup Seeds
    /\ \A d \in Deploys : deploy[d].at \in {"applying", "changed"} =>
          \A n \in deploy[d].known \cap Names(deploy[d].files) : onRecord[n] = deploy[d].files[n]

-----------------------------------------------------------------------------
(* What the comments say and the code does not do.                         *)

\* tasks/main.yml of control_api: "the worst case is a failed deploy, never Datopian's
\* records in somebody else's database".
NeverSomebodyElsesRecords == OnEmpty = "fresh" => \A m \in Seeds : changed[m] = "none"

\* cmd/migrate, apply: "the record and the change cannot disagree".
RecordFollowsChange ==
    \A m \in Files : changed[m] # "none" /\ onRecord[m] = "none" => \E d \in Deploys : deploy[d].at = "changed"
=============================================================================
