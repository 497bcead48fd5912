-------------------------- MODULE ServerBootProofs --------------------------
(***************************************************************************)
(* Proofs about ServerBoot, for any number of replicas, migrations, keys,  *)
(* passports and exits.                                                    *)
(***************************************************************************)
EXTENDS ServerBoot, SequenceTheorems, TLAPS

USE MigrationsAssumption, MaxExitsAssumption, KeysAssumption

-----------------------------------------------------------------------------
(* The inductive invariant *)

\* A replica that looks at a file knows that all files before it are applied.
LooksAt(s) == pc[s] \in {"check_version", "apply_body", "record_version", "commit"}

ProgressInv ==
    \A s \in Servers :
        /\ pc[s] \in {"create_versions", "next_migration"} \/ LooksAt(s) =>
              next_file[s] <= Len(schema) + 1
        /\ LooksAt(s) => next_file[s] <= Migrations

\* One transaction at most creates tables, those of the next file.
TransactionInv ==
    /\ \A s \in InTransaction : next_file[s] = Len(schema) + 1
    /\ \A s, t \in InTransaction : s = t

\* Nobody serves, and nothing is signed, before a key is persisted; a replica
\* that serves has the persisted key or a stray one, and signs with that.
KeyInv ==
    /\ \A s \in Servers : pc[s] = "up" =>
          signing_key # None /\ (signer[s] = signing_key \/ signer[s] \in strays)
    /\ \A p \in Passports : signed_with[p] # None =>
          /\ signing_key # None
          /\ signed_with[p] = signing_key \/ signed_with[p] \in strays

BootInv == TypeOK /\ MigrationsAppliedOnce /\ ProgressInv /\ TransactionInv /\ KeyInv

-----------------------------------------------------------------------------
(* Every step keeps it *)

LEMMA InitBootInv == Init => BootInv
  <1> SUFFICES ASSUME Init PROVE BootInv
    OBVIOUS
  <1> USE DEF Init
  <1>1. schema \in Seq(1..Migrations) /\ Len(schema) = 0
    OBVIOUS
  <1>2. TypeOK
    <2>1. 1 \in 1..(Migrations + 1) /\ 0 \in 0..MaxExits
      OBVIOUS
    <2>2. next_file \in [Servers -> 1..(Migrations + 1)] /\ exits \in 0..MaxExits
      BY <2>1
    <2>3. /\ pc \in [Servers -> BootSteps \cup {"down", "up"}]
          /\ signer \in [Servers -> drawn \cup {None}]
          /\ signed_with \in [Passports -> drawn \cup {None}]
          /\ \A s \in Servers : signer[s] # None <=> pc[s] \in {"insert_key", "up"}
      OBVIOUS
    <2> QED BY <1>1, <2>2, <2>3 DEF TypeOK
  <1>3. MigrationsAppliedOnce
    BY <1>1 DEF MigrationsAppliedOnce
  <1> QED BY <1>1, <1>2, <1>3 DEF BootInv, ProgressInv, LooksAt, TransactionInv, InTransaction, KeyInv

\* The replicas other than s stay where they are.
Alone(s) == \A t \in Servers \ {s} :
                pc'[t] = pc[t] /\ next_file'[t] = next_file[t] /\ signer'[t] = signer[t]

\* Steps of one replica that neither the schema nor the key notices.
LEMMA QuietKeeps ==
    ASSUME BootInv, TypeOK', NEW s \in Servers, Alone(s),
           UNCHANGED <<versions, schema, signing_key, signed_with, strays>>,
           ~(pc'[s] \in {"record_version", "commit"}) \/
             (pc[s] = "record_version" /\ next_file'[s] = next_file[s]),
           pc'[s] = "up" => \/ pc[s] = "up" /\ signer'[s] = signer[s]
                            \/ signing_key # None /\ signer'[s] = signing_key,
           pc'[s] \in {"create_versions", "next_migration"} \/ LooksAt(s)' =>
              next_file'[s] <= Len(schema) + 1,
           LooksAt(s)' => next_file'[s] <= Migrations
    PROVE  BootInv'
  <1>1. MigrationsAppliedOnce'
    BY DEF BootInv, MigrationsAppliedOnce
  <1>2. ProgressInv'
    BY DEF BootInv, ProgressInv, LooksAt, Alone
  <1>3. TransactionInv'
    BY DEF BootInv, TransactionInv, InTransaction, Alone
  <1>4. KeyInv'
    BY DEF BootInv, KeyInv, Alone
  <1> QED BY <1>1, <1>2, <1>3, <1>4 DEF BootInv

LEMMA StartExitKeep ==
    ASSUME BootInv, NEW s \in Servers, Start(s) \/ Exit(s)
    PROVE  BootInv'
  <1>1. CASE Start(s)
    <2>1. pc'[s] = "create_versions" /\ next_file'[s] = 1 /\ Alone(s)
      BY <1>1 DEF Start, Goto, Alone, BootInv, TypeOK
    <2>2. Len(schema) \in Nat
      BY DEF BootInv, TypeOK
    <2>3. TypeOK'
      BY <1>1, <2>1 DEF Start, Goto, BootInv, TypeOK, tables, BootSteps
    <2> QED BY <1>1, <2>1, <2>2, <2>3, QuietKeeps DEF Start, tables, LooksAt
  <1>2. CASE Exit(s)
    <2>1. pc'[s] = "down" /\ signer'[s] = None /\ Alone(s)
      BY <1>2 DEF Exit, Stop, Goto, Alone, BootInv, TypeOK
    <2>2. TypeOK'
      BY <1>2, <2>1 DEF Exit, Stop, Goto, BootInv, TypeOK, tables, BootSteps
    <2> QED BY <1>2, <2>1, <2>2, QuietKeeps DEF Exit, tables, LooksAt
  <1> QED BY <1>1, <1>2

LEMMA MigrateKeeps ==
    ASSUME BootInv, NEW s \in Servers,
           CreateVersions(s) \/ NextMigration(s) \/ CheckVersion(s) \/ RecordVersion(s)
    PROVE  BootInv'
  <1> USE DEF Alone, Goto, LooksAt, tables
  <1>0. Len(schema) \in Nat /\ next_file[s] \in Nat
    BY DEF BootInv, TypeOK
  <1>1. CASE CreateVersions(s)
    <2>1. /\ pc[s] = "create_versions" /\ pc'[s] = "next_migration"
          /\ next_file' = next_file /\ Alone(s)
      BY <1>1 DEF CreateVersions, BootInv, TypeOK
    <2>2. TypeOK'
      BY <1>1, <2>1 DEF CreateVersions, BootInv, TypeOK, BootSteps
    <2> QED BY <1>1, <2>1, <2>2, QuietKeeps DEF CreateVersions, BootInv, ProgressInv
  <1>2. CASE NextMigration(s)
    <2>1. /\ pc[s] = "next_migration" /\ next_file' = next_file /\ Alone(s)
          /\ \/ pc'[s] = "check_version" /\ next_file[s] <= Migrations
             \/ pc'[s] = "load_key"
      BY <1>2 DEF NextMigration, BootInv, TypeOK
    <2>2. TypeOK'
      BY <1>2, <2>1 DEF NextMigration, BootInv, TypeOK, BootSteps
    <2> QED BY <1>2, <2>1, <2>2, QuietKeeps DEF NextMigration, BootInv, ProgressInv
  <1>3. CASE CheckVersion(s)
    <2>1. /\ pc[s] = "check_version" /\ Alone(s) /\ next_file[s] <= Migrations
          /\ \/ pc'[s] = "apply_body" /\ next_file'[s] = next_file[s]
             \/ /\ pc'[s] = "next_migration" /\ next_file'[s] = next_file[s] + 1
                /\ next_file[s] \in versions
      BY <1>3 DEF CheckVersion, BootInv, TypeOK, ProgressInv
    <2>2. TypeOK'
      <3>1. next_file' \in [Servers -> 1..(Migrations + 1)]
        BY <1>3, <2>1 DEF CheckVersion, BootInv, TypeOK
      <3> QED BY <1>3, <2>1, <3>1 DEF CheckVersion, BootInv, TypeOK, BootSteps
    <2>3. next_file[s] \in versions => next_file[s] <= Len(schema)
      BY <1>0 DEF BootInv, MigrationsAppliedOnce
    <2> QED BY <1>0, <1>3, <2>1, <2>2, <2>3, QuietKeeps DEF CheckVersion, BootInv, ProgressInv
  <1>4. CASE RecordVersion(s)
    <2>1. /\ pc[s] = "record_version" /\ next_file' = next_file /\ Alone(s)
          /\ \/ pc'[s] = "commit" /\ signer' = signer
             \/ pc'[s] = "down" /\ signer'[s] = None
      BY <1>4 DEF RecordVersion, Stop, BootInv, TypeOK
    <2>2. TypeOK'
      BY <1>4, <2>1 DEF RecordVersion, Stop, BootInv, TypeOK, BootSteps
    <2> QED BY <1>4, <2>1, <2>2, QuietKeeps DEF RecordVersion, BootInv, ProgressInv
  <1> QED BY <1>1, <1>2, <1>3, <1>4

\* The body of a migration runs when no open transaction and no committed one
\* has created its tables: it is the next file, and this transaction is the only one.
LEMMA ApplyBodyKeeps ==
    ASSUME BootInv, NEW s \in Servers, ApplyBody(s)
    PROVE  BootInv'
  <1> USE DEF Goto, tables
  <1>1. CASE Committed(next_file[s]) /\ Stop(s)
    <2>1. pc'[s] = "down" /\ signer'[s] = None /\ Alone(s)
      BY <1>1 DEF ApplyBody, Stop, Alone, BootInv, TypeOK
    <2>2. TypeOK'
      BY <1>1, <2>1 DEF ApplyBody, Stop, BootInv, TypeOK, BootSteps
    <2> QED BY <1>1, <2>1, <2>2, QuietKeeps DEF ApplyBody, LooksAt
  <1>2. CASE ~Committed(next_file[s]) /\ Goto(s, "record_version") /\ UNCHANGED signer
    <2>1. /\ pc[s] = "apply_body" /\ pc'[s] = "record_version" /\ UNCHANGED <<tables, next_file, strays>>
          /\ Alone(s)
      BY <1>2 DEF ApplyBody, Alone, BootInv, TypeOK
    <2>2. TypeOK'
      BY <1>2, <2>1 DEF ApplyBody, BootInv, TypeOK, BootSteps
    <2>3. next_file[s] = Len(schema) + 1 /\ next_file[s] <= Migrations
      <3>1. /\ next_file[s] \in Nat \ {0} /\ Len(schema) \in Nat
            /\ next_file[s] <= Len(schema) + 1 /\ next_file[s] <= Migrations
        BY <2>1 DEF BootInv, TypeOK, ProgressInv, LooksAt
      <3>2. next_file[s] \notin 1..Len(schema)
        <4>1. SUFFICES ASSUME next_file[s] \in 1..Len(schema) PROVE FALSE
          OBVIOUS
        <4>2. schema[next_file[s]] = next_file[s] /\ next_file[s] \in DOMAIN schema
          BY <4>1 DEF BootInv, MigrationsAppliedOnce
        <4> QED BY <1>2, <4>2 DEF Committed
      <3> QED BY <3>1, <3>2
    <2>4. \A t \in InTransaction : t = s \/ next_file[t] # next_file[s]
      BY DEF ApplyBody
    <2>5. InTransaction' = {s}
      <3>1. \A t \in InTransaction : next_file[t] = next_file[s]
        BY <2>3 DEF BootInv, TransactionInv
      <3>2. InTransaction = {}
        BY <2>1, <2>4, <3>1 DEF InTransaction
      <3> QED BY <2>1, <3>2 DEF InTransaction, Alone
    <2>6. TransactionInv'
      BY <2>1, <2>3, <2>5 DEF TransactionInv
    <2>7. MigrationsAppliedOnce' /\ ProgressInv' /\ KeyInv'
      BY <2>1, <2>3 DEF BootInv, MigrationsAppliedOnce, ProgressInv, LooksAt, KeyInv, Alone
    <2> QED BY <2>2, <2>6, <2>7 DEF BootInv
  <1> QED BY <1>1, <1>2 DEF ApplyBody

LEMMA CommitKeeps ==
    ASSUME BootInv, NEW s \in Servers, Commit(s)
    PROVE  BootInv'
  <1> USE DEF Goto
  <1> DEFINE n == Len(schema) + 1
  <1>1. /\ pc[s] = "commit" /\ next_file[s] = n /\ n \in 1..Migrations /\ Len(schema) \in Nat
        /\ schema \in Seq(1..Migrations)
    BY DEF Commit, BootInv, TypeOK, TransactionInv, InTransaction, ProgressInv, LooksAt
  <1>2. /\ schema' = Append(schema, n) /\ versions' = versions \cup {n}
        /\ pc'[s] = "next_migration" /\ next_file'[s] = n + 1
        /\ \A t \in Servers \ {s} : pc'[t] = pc[t] /\ next_file'[t] = next_file[t]
        /\ UNCHANGED <<has_versions, signing_key, signed_with, signer, drawn, verdicts, strays, exits>>
    BY <1>1 DEF Commit, BootInv, TypeOK
  <1>3. /\ schema' \in Seq(1..Migrations) /\ Len(schema') = n /\ schema'[n] = n
        /\ \A i \in 1..Len(schema) : schema'[i] = schema[i]
    BY <1>1, <1>2, AppendProperties
  <1>4. TypeOK'
    <2>1. next_file' \in [Servers -> 1..(Migrations + 1)]
      BY <1>1 DEF Commit, BootInv, TypeOK
    <2>2. pc' \in [Servers -> BootSteps \cup {"down", "up"}]
      BY DEF Commit, BootInv, TypeOK, BootSteps
    <2> QED BY <1>1, <1>2, <1>3, <2>1, <2>2 DEF BootInv, TypeOK
  <1>5. MigrationsAppliedOnce'
    <2>1. schema' = [i \in 1..Len(schema') |-> i]
      <3>1. \A i \in 1..Len(schema') : schema'[i] = i
        BY <1>1, <1>3 DEF BootInv, MigrationsAppliedOnce
      <3>2. DOMAIN schema' = 1..Len(schema') /\ schema' = [i \in DOMAIN schema' |-> schema'[i]]
        BY <1>3
      <3> QED BY <3>1, <3>2
    <2>2. versions' = 1..Len(schema')
      BY <1>1, <1>2, <1>3 DEF BootInv, MigrationsAppliedOnce
    <2> QED BY <2>1, <2>2 DEF MigrationsAppliedOnce
  <1>6. ProgressInv'
    <2>1. \A t \in Servers : next_file[t] \in Nat
      BY DEF BootInv, TypeOK
    <2> QED BY <1>1, <1>2, <1>3, <2>1 DEF BootInv, ProgressInv, LooksAt
  <1>7. TransactionInv'
    <2>1. InTransaction = {s}
      BY <1>1 DEF BootInv, TransactionInv, InTransaction
    <2>2. InTransaction' = {}
      BY <1>2, <2>1 DEF InTransaction
    <2> QED BY <2>2 DEF TransactionInv
  <1>8. KeyInv'
    BY <1>1, <1>2 DEF BootInv, KeyInv
  <1> QED BY <1>4, <1>5, <1>6, <1>7, <1>8 DEF BootInv

LEMMA SignerKeeps ==
    ASSUME BootInv, NEW s \in Servers, LoadKey(s) \/ InsertKey(s)
    PROVE  BootInv'
  <1> USE DEF Goto
  <1>1. CASE LoadKey(s)
    <2>1. /\ pc[s] = "load_key" /\ Alone(s)
          /\ UNCHANGED <<has_versions, versions, schema, signing_key, signed_with, next_file,
                         verdicts, strays, exits>>
          /\ \/ /\ pc'[s] = "up" /\ signer'[s] = signing_key /\ signing_key # None
                /\ drawn' = drawn
             \/ /\ pc'[s] = "insert_key" /\ signer'[s] \in Keys
                /\ drawn' = drawn \cup {signer'[s]}
      BY <1>1 DEF LoadKey, Alone, BootInv, TypeOK, tables
    <2>2. TypeOK'
      <3>1. drawn \subseteq drawn' /\ drawn' \subseteq Keys
        BY <2>1 DEF BootInv, TypeOK
      <3>2. signer' \in [Servers -> drawn' \cup {None}]
        BY <1>1, <2>1, <3>1 DEF LoadKey, Alone, BootInv, TypeOK
      <3>3. pc' \in [Servers -> BootSteps \cup {"down", "up"}]
        BY <1>1 DEF LoadKey, BootInv, TypeOK, BootSteps
      <3>4. \A t \in Servers : signer'[t] # None <=> pc'[t] \in {"insert_key", "up"}
        BY <2>1 DEF Alone, BootInv, TypeOK
      <3>5. signing_key' \in drawn' \cup {None} /\ signed_with' \in [Passports -> drawn' \cup {None}]
            /\ strays' \subseteq drawn'
        BY <2>1, <3>1 DEF BootInv, TypeOK
      <3> QED BY <2>1, <3>1, <3>2, <3>3, <3>4, <3>5 DEF BootInv, TypeOK
    <2> QED BY <2>1, <2>2, QuietKeeps DEF LooksAt
  <1>2. CASE InsertKey(s)
    <2>1. /\ pc[s] = "insert_key" /\ pc'[s] = "up" /\ signer' = signer
          /\ \A t \in Servers \ {s} : pc'[t] = pc[t]
          /\ UNCHANGED <<has_versions, versions, schema, signed_with, next_file, drawn,
                         verdicts, exits>>
      BY <1>2 DEF InsertKey, BootInv, TypeOK
    <2>2. signer[s] \in drawn /\ signer[s] # None
      BY <2>1 DEF BootInv, TypeOK
    <2>3. \/ signing_key = None /\ signing_key' = signer[s] /\ strays' = strays
          \/ signing_key # None /\ signing_key' = signing_key /\ strays' = strays \cup {signer[s]}
      BY <1>2 DEF InsertKey, PersistedAfter
    <2>4. TypeOK'
      <3>1. pc' \in [Servers -> BootSteps \cup {"down", "up"}]
        BY <1>2 DEF InsertKey, BootInv, TypeOK
      <3>2. signing_key' \in drawn \cup {None} /\ strays' \subseteq drawn
        BY <2>2, <2>3 DEF BootInv, TypeOK
      <3> QED BY <2>1, <3>1, <3>2 DEF BootInv, TypeOK
    <2>5. KeyInv'
      BY <2>1, <2>2, <2>3 DEF BootInv, KeyInv
    <2>6. MigrationsAppliedOnce' /\ ProgressInv'
      BY <2>1 DEF BootInv, MigrationsAppliedOnce, ProgressInv, LooksAt
    <2>7. TransactionInv'
      BY <2>1 DEF BootInv, TransactionInv, InTransaction
    <2> QED BY <2>4, <2>5, <2>6, <2>7 DEF BootInv
  <1> QED BY <1>1, <1>2

LEMMA ServeKeeps ==
    ASSUME BootInv, NEW s \in Servers, NEW p \in Passports, Issue(s, p) \/ Verify(s, p)
    PROVE  BootInv'
  <1>1. /\ UNCHANGED <<has_versions, versions, schema, signing_key, pc, next_file, signer, drawn,
                       strays, exits>>
        /\ pc[s] = "up"
        /\ \A q \in Passports : signed_with'[q] = signed_with[q] \/ signed_with'[q] = signer[s]
        /\ signed_with' \in [Passports -> drawn \cup {None}]
        /\ verdicts' \subseteq (Passports \X BOOLEAN)
    <2>1. signer[s] \in drawn \cup {None}
      BY DEF BootInv, TypeOK
    <2>2. CASE Issue(s, p)
      BY <2>1, <2>2 DEF Issue, BootInv, TypeOK
    <2>3. CASE Verify(s, p)
      <3>1. verdicts' = verdicts \cup {<<p, signed_with[p] = signer[s]>>}
        BY <2>3 DEF Verify
      <3>2. (signed_with[p] = signer[s]) \in BOOLEAN
        OBVIOUS
      <3>3. verdicts' \subseteq (Passports \X BOOLEAN)
        <4> DEFINE b == signed_with[p] = signer[s]
        <4>1. verdicts \subseteq (Passports \X BOOLEAN)
          BY DEF BootInv, TypeOK
        <4>2. b \in BOOLEAN /\ verdicts' = verdicts \cup {<<p, b>>}
          BY <3>1, <3>2
        <4> HIDE DEF b
        <4>3. <<p, b>> \in Passports \X BOOLEAN
          BY <4>2
        <4> QED BY <4>1, <4>2, <4>3
      <3> QED BY <2>3, <3>3 DEF Verify, BootInv, TypeOK, tables
    <2> QED BY <2>2, <2>3
  <1>2. TypeOK'
    BY <1>1 DEF BootInv, TypeOK
  <1>3. KeyInv'
    BY <1>1 DEF BootInv, KeyInv
  <1>4. MigrationsAppliedOnce' /\ ProgressInv' /\ TransactionInv'
    BY <1>1 DEF BootInv, MigrationsAppliedOnce, ProgressInv, LooksAt, TransactionInv, InTransaction
  <1> QED BY <1>2, <1>3, <1>4 DEF BootInv

LEMMA NextBootInv == BootInv /\ [Next]_vars => BootInv'
  <1>1. ASSUME BootInv, Next PROVE BootInv'
    BY <1>1, StartExitKeep, MigrateKeeps, ApplyBodyKeeps, CommitKeeps, SignerKeeps, ServeKeeps
       DEF Next, Boot
  <1>2. ASSUME BootInv, UNCHANGED vars PROVE BootInv'
    BY <1>2 DEF vars, tables, BootInv, TypeOK, MigrationsAppliedOnce, ProgressInv, LooksAt,
                TransactionInv, InTransaction, KeyInv
  <1> QED BY <1>1, <1>2

\* The inductive invariant holds in every reachable state.
THEOREM BootInvariant == Spec => []BootInv
  BY InitBootInv, NextBootInv, PTL DEF Spec

-----------------------------------------------------------------------------
(* What follows *)

\* Every variable of a booting replica stays in its type.
THEOREM TypeCorrect == Spec => []TypeOK
  <1>1. BootInv => TypeOK
    BY DEF BootInv
  <1> QED BY BootInvariant, <1>1, PTL

\* However many replicas race and die, each migration is committed once, in order.
THEOREM MigrationsOnce == Spec => []MigrationsAppliedOnce
  <1>1. BootInv => MigrationsAppliedOnce
    BY DEF BootInv
  <1> QED BY BootInvariant, <1>1, PTL

\* A signature is refused only by, or from, a replica that lost the first race.
THEOREM StraysOnly == Spec => []OnlyStraysDisagree
  <1>1. BootInv => OnlyStraysDisagree
    BY DEF BootInv, KeyInv, OnlyStraysDisagree
  <1> QED BY BootInvariant, <1>1, PTL

\* No boot of any replica replaces the persisted key.
THEOREM KeyIsPermanent == Spec => PersistedKeyIsPermanent
  <1>1. ASSUME [Next]_vars
        PROVE  [signing_key # None => signing_key' = signing_key]_vars
    <2>1. ASSUME NEW s \in Servers, Start(s) \/ Exit(s) \/ Boot(s),
                 signing_key # None
          PROVE  signing_key' = signing_key
      BY <2>1 DEF Start, Exit, Boot, CreateVersions, NextMigration, CheckVersion, ApplyBody,
                  RecordVersion, Commit, LoadKey, InsertKey, PersistedAfter, tables
    <2>2. ASSUME NEW s \in Servers, NEW p \in Passports, Issue(s, p) \/ Verify(s, p)
          PROVE  signing_key' = signing_key
      BY <2>2 DEF Issue, Verify, tables
    <2> QED BY <1>1, <2>1, <2>2 DEF Next
  <1> QED BY <1>1, PTL DEF Spec, PersistedKeyIsPermanent

=============================================================================
