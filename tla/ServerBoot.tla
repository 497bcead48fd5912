----------------------------- MODULE ServerBoot -----------------------------
(***************************************************************************)
(* How a replica of computeid-server comes up on a shared database, and    *)
(* which RSA key it then signs and verifies passports with: run in         *)
(* cmd/computeid-server/main.go, Migrate in server/migrate.go,             *)
(* LoadOrInitSigner in server/signer.go.                                   *)
(*                                                                         *)
(* Replicas boot, exit and boot again at any moment.  The statements of a  *)
(* boot are separate actions; only the body of a migration and the record  *)
(* of its version share a transaction.                                     *)
(***************************************************************************)
EXTENDS Integers, Sequences, FiniteSets

CONSTANTS
    Servers,        \* replicas
    Keys,           \* RSA keys that GenerateKey may draw
    Migrations,     \* number of *.up.sql files, applied in lexical order
    Passports,      \* passports issued during the behaviour
    MaxExits        \* bound: crashes, signals and failed statements

ASSUME MigrationsAssumption == Migrations \in Nat
ASSUME MaxExitsAssumption   == MaxExits \in Nat

VARIABLES
    has_versions,   \* table schema_migrations exists
    versions,       \* its rows: the versions recorded as applied
    schema,         \* the migration bodies committed so far, in order
    signing_key,    \* row 1 of signing_keys, None while there is none
    signed_with,    \* [Passports -> the key an agents row was signed with]
    pc,             \* [Servers -> next step of the boot]
    next_file,      \* [Servers -> index of the migration file being looked at]
    signer,         \* [Servers -> the key in the memory of the process]
    drawn,          \* keys generated so far
    verdicts,       \* history: signature_valid of every answered verify
    strays,         \* history: keys a replica kept although it lost the INSERT
    exits           \* number of exits so far

tables == <<has_versions, versions, schema, signing_key, signed_with>>
vars   == <<tables, pc, next_file, signer, drawn, verdicts, strays, exits>>

None == "none"

ASSUME KeysAssumption == None \notin Keys

BootSteps == {"create_versions", "next_migration", "check_version", "apply_body",
              "record_version", "commit", "load_key", "insert_key"}

Init ==
    /\ has_versions = FALSE
    /\ versions = {}
    /\ schema = << >>
    /\ signing_key = None
    /\ signed_with = [p \in Passports |-> None]
    /\ pc = [s \in Servers |-> "down"]
    /\ next_file = [s \in Servers |-> 1]
    /\ signer = [s \in Servers |-> None]
    /\ drawn = {}
    /\ verdicts = {}
    /\ strays = {}
    /\ exits = 0

Goto(s, step) == pc' = [pc EXCEPT ![s] = step]

-----------------------------------------------------------------------------
(* Process start, and every way a process ends *)

Start(s) ==
    /\ pc[s] = "down"
    /\ Goto(s, "create_versions")
    /\ next_file' = [next_file EXCEPT ![s] = 1]
    /\ UNCHANGED <<tables, signer, drawn, verdicts, strays, exits>>

\* Mutated: the key survives in a cache file.
StopKeepsKey(s) ==
    /\ Goto(s, "down")
    /\ UNCHANGED signer

\* The memory of the process is gone; an open transaction is rolled back.
Stop(s) ==
    /\ Goto(s, "down")
    /\ signer' = [signer EXCEPT ![s] = None]

\* A crash, a signal, or an error of any statement that makes run return.
Exit(s) ==
    /\ pc[s] # "down"
    /\ exits < MaxExits
    /\ exits' = exits + 1
    /\ Stop(s)
    /\ UNCHANGED <<tables, next_file, drawn, verdicts, strays>>

-----------------------------------------------------------------------------
(* Migrate *)

CreateVersions(s) ==
    /\ pc[s] = "create_versions"
    /\ has_versions' = TRUE
    /\ Goto(s, "next_migration")
    /\ UNCHANGED <<versions, schema, signing_key, signed_with, next_file, signer,
                   drawn, verdicts, strays, exits>>

NextMigration(s) ==
    /\ pc[s] = "next_migration"
    /\ Goto(s, IF next_file[s] <= Migrations THEN "check_version" ELSE "load_key")
    /\ UNCHANGED <<tables, next_file, signer, drawn, verdicts, strays, exits>>

\* Mutated: an applied version is looked at again instead of skipped.
CheckVersionAgain(s) ==
    /\ pc[s] = "check_version"
    /\ Goto(s, IF next_file[s] \in versions THEN "next_migration" ELSE "apply_body")
    /\ UNCHANGED <<tables, next_file, signer, drawn, verdicts, strays, exits>>

CheckVersion(s) ==
    /\ pc[s] = "check_version"
    /\ IF next_file[s] \in versions
       THEN /\ Goto(s, "next_migration")
            /\ next_file' = [next_file EXCEPT ![s] = @ + 1]
       ELSE /\ Goto(s, "apply_body")
            /\ UNCHANGED next_file
    /\ UNCHANGED <<tables, signer, drawn, verdicts, strays, exits>>

\* The transaction whose CREATE TABLEs are not committed yet: Postgres makes any
\* other session that creates the same tables wait for its end.
InTransaction == {s \in Servers : pc[s] \in {"record_version", "commit"}}

Committed(n) == \E i \in DOMAIN schema : schema[i] = n

\* The body runs; it fails when its tables exist, and Migrate returns the error.
ApplyBody(s) ==
    /\ pc[s] = "apply_body"
    /\ \A t \in InTransaction : next_file[t] # next_file[s]
    /\ \/ ~Committed(next_file[s]) /\ Goto(s, "record_version") /\ UNCHANGED signer
       \/ Committed(next_file[s]) /\ Stop(s)
    /\ UNCHANGED <<tables, next_file, drawn, verdicts, strays, exits>>

\* Mutated: the INSERT goes to db instead of tx, and is committed at once.
RecordVersionOutsideTx(s) ==
    /\ pc[s] = "record_version"
    /\ IF next_file[s] \in versions
       THEN Stop(s) /\ UNCHANGED versions
       ELSE /\ versions' = versions \cup {next_file[s]}
            /\ Goto(s, "commit")
            /\ UNCHANGED signer
    /\ UNCHANGED <<has_versions, schema, signing_key, signed_with, next_file, drawn,
                   verdicts, strays, exits>>

\* The version is the primary key of schema_migrations: its INSERT waits for another
\* session that has inserted it and not committed yet, and fails once the row is
\* there.  Migrate then rolls the body back and returns the error.
RecordVersion(s) ==
    /\ pc[s] = "record_version"
    /\ \A t \in Servers : pc[t] = "commit" => next_file[t] # next_file[s]
    /\ IF next_file[s] \in versions
       THEN Stop(s)
       ELSE Goto(s, "commit") /\ UNCHANGED signer
    /\ UNCHANGED <<tables, next_file, drawn, verdicts, strays, exits>>

\* Body and version become visible together.
Commit(s) ==
    /\ pc[s] = "commit"
    /\ schema' = Append(schema, next_file[s])
    /\ versions' = versions \cup {next_file[s]}
    /\ next_file' = [next_file EXCEPT ![s] = @ + 1]
    /\ Goto(s, "next_migration")
    /\ UNCHANGED <<has_versions, signing_key, signed_with, signer, drawn, verdicts, strays, exits>>

-----------------------------------------------------------------------------
(* LoadOrInitSigner *)

\* SELECT ... WHERE id = 1; without a row, rsa.GenerateKey.
LoadKey(s) ==
    /\ pc[s] = "load_key"
    /\ \/ /\ signing_key # None
          /\ signer' = [signer EXCEPT ![s] = signing_key]
          /\ drawn' = drawn
          /\ Goto(s, "up")
       \/ /\ signing_key = None
          /\ \E k \in Keys \ drawn :
                /\ signer' = [signer EXCEPT ![s] = k]
                /\ drawn' = drawn \cup {k}
          /\ Goto(s, "insert_key")
    /\ UNCHANGED <<tables, next_file, verdicts, strays, exits>>

\* Mutated: ON CONFLICT (id) DO UPDATE.
OverwrittenBy(k) == k

\* Mutated: the generated key is not persisted.
NotPersisted(k) == signing_key

\* INSERT ... ON CONFLICT (id) DO NOTHING
PersistedAfter(k) == IF signing_key = None THEN k ELSE signing_key

\* The process keeps the key it generated, whether or not the row is its own.
InsertKey(s) ==
    /\ pc[s] = "insert_key"
    /\ signing_key' = PersistedAfter(signer[s])
    /\ strays' = IF signing_key = None THEN strays ELSE strays \cup {signer[s]}
    /\ Goto(s, "up")
    /\ UNCHANGED <<has_versions, versions, schema, signed_with, next_file, signer,
                   drawn, verdicts, exits>>

-----------------------------------------------------------------------------
(* Serving: handleAgentRegister signs, handleAgentVerify verifies, both with  *)
(* the key of the process                                                     *)

Issue(s, p) ==
    /\ pc[s] = "up"
    /\ signed_with[p] = None
    /\ signed_with' = [signed_with EXCEPT ![p] = signer[s]]
    /\ UNCHANGED <<has_versions, versions, schema, signing_key, pc, next_file, signer,
                   drawn, verdicts, strays, exits>>

Verify(s, p) ==
    /\ pc[s] = "up"
    /\ signed_with[p] # None
    /\ verdicts' = verdicts \cup {<<p, signed_with[p] = signer[s]>>}
    /\ UNCHANGED <<tables, pc, next_file, signer, drawn, strays, exits>>

Boot(s) == CreateVersions(s) \/ NextMigration(s) \/ CheckVersion(s) \/ ApplyBody(s)
           \/ RecordVersion(s) \/ Commit(s) \/ LoadKey(s) \/ InsertKey(s)

Next == \E s \in Servers :
            \/ Start(s) \/ Exit(s) \/ Boot(s)
            \/ \E p \in Passports : Issue(s, p) \/ Verify(s, p)

Spec == Init /\ [][Next]_vars

\* A running process executes its next statement.  Nothing restarts a process
\* that has exited: docker-compose.yml sets no restart policy.
FairSpec == Spec /\ \A s \in Servers : WF_vars(Boot(s))

-----------------------------------------------------------------------------
(* Properties *)

\* Every variable stays in its type, and only a process that has reached its
\* signer holds a key in memory.
TypeOK ==
    /\ has_versions \in BOOLEAN
    /\ versions \subseteq 1..Migrations
    /\ schema \in Seq(1..Migrations)
    /\ signing_key \in drawn \cup {None}
    /\ signed_with \in [Passports -> drawn \cup {None}]
    /\ pc \in [Servers -> BootSteps \cup {"down", "up"}]
    /\ next_file \in [Servers -> 1..(Migrations + 1)]
    /\ signer \in [Servers -> drawn \cup {None}]
    /\ drawn \subseteq Keys
    /\ verdicts \subseteq (Passports \X BOOLEAN)
    /\ strays \subseteq drawn
    /\ exits \in 0..MaxExits
    /\ \A s \in Servers : signer[s] # None <=> pc[s] \in {"insert_key", "up"}

\* However replicas race and die, each migration body is committed exactly once,
\* in file order, and is recorded as applied exactly when it is.
MigrationsAppliedOnce ==
    /\ schema = [i \in 1..Len(schema) |-> i]
    /\ versions = 1..Len(schema)

\* The persisted key is written once: no boot replaces it.
PersistedKeyIsPermanent ==
    [][signing_key # None => signing_key' = signing_key]_vars

\* From migrations/001_init.up.sql, the key is "persisted so restarts don't break
\* signature verification on previously-issued passports": two verifications of
\* the same passport, on any replica, before and after any restarts, agree.
RestartsKeepSignatures ==
    \A p \in Passports : ~(<<p, TRUE>> \in verdicts /\ <<p, FALSE>> \in verdicts)

\* Only the race of first boots splits the replicas: a passport is valid on every
\* replica, before and after any restarts, unless its issuer or the replica that
\* verifies it kept a key of its own after it lost the INSERT of signing_keys.
OnlyStraysDisagree ==
    \A s \in Servers, p \in Passports :
        /\ pc[s] = "up"
        /\ signed_with[p] # None
        /\ {signer[s], signed_with[p]} \cap strays = {}
        => signer[s] = signed_with[p]

\* A replica that starts to boot comes up or exits: waiting for the migration of
\* another replica never blocks it for good.
BootEnds ==
    \A s \in Servers : pc[s] = "create_versions" ~> pc[s] \in {"up", "down"}

=============================================================================
