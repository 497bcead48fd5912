--------------------------- MODULE DeviceRegistry ---------------------------
(***************************************************************************)
(* The devices API of the ComputeID server (server/handlers_devices.go).   *)
(*                                                                         *)
(* Registration is the one handler that uses a transaction: it bumps the   *)
(* counter of the device type, derives the device code from it, inserts    *)
(* the device and commits.  Postgres keeps the counter row locked until    *)
(* the transaction ends, and makes an INSERT wait for a transaction that   *)
(* has inserted the same device_code; both waits are guards below.         *)
(*                                                                         *)
(* Approve and authenticate are one statement each, hence one action; a    *)
(* request they refuse, a blank registration and the list change nothing.  *)
(***************************************************************************)
EXTENDS Integers

CONSTANTS
    Calls,          \* slots for registrations in flight
    Types,          \* device types as clients spell them
    ToUpper,        \* [Types -> prefix]: strings.ToUpper
    Devices,        \* the identifiers newUUID draws from
    Tokens,         \* values of the X-Admin-Token header
    AdminToken,     \* the configured token; NoToken when ADMIN_TOKEN is not set
    NoToken,
    MaxFaults       \* bound: failed statements and commits, lost processes

ASSUME ToUpperAssumption   == ToUpper = [t \in Types |-> ToUpper[t]]
ASSUME MaxFaultsAssumption == MaxFaults \in Nat

VARIABLES
    device_counters,    \* [Types -> last_n], 0 while the row is absent
    devices,            \* [Devices -> row], absent rows included
    drawn,              \* identifiers handed out by newUUID
    pc,                 \* next statement of each registration
    tx,                 \* [Calls -> what the registration knows]
    approvals,          \* history: <<device, token>> approved, and by which token
    jwts,               \* history: <<device, code>> a JWT was issued for
    conflicts,          \* history: types whose registration failed on its code
    faults              \* number of faults so far

history == <<approvals, jwts>>
vars    == <<device_counters, devices, drawn, pc, tx, history, conflicts, faults>>

None == "none"
Prefixes == {ToUpper[t] : t \in Types}

ASSUME NoneAssumption == None \notin Types

\* fmt.Sprintf("%s-%03d", strings.ToUpper(t), n): the last hyphen splits a code,
\* so prefix and number can be read back from it.
Code(t, n) == <<ToUpper[t], n>>

DeviceRow == [status: {"pending", "active"}, type: Types, code: Prefixes \X Nat]
NoRow     == [status |-> "absent", type |-> None, code |-> <<None, 0>>]
Stored(d) == devices[d].status # "absent"

Transaction == [type: Types, id: Devices, next: Nat]
NoTransaction == [type |-> None, id |-> None, next |-> 0]

CodeOf(c) == Code(tx[c].type, tx[c].next)

Init ==
    /\ device_counters = [t \in Types |-> 0]
    /\ devices = [d \in Devices |-> NoRow]
    /\ drawn = {}
    /\ pc = [c \in Calls |-> "idle"]
    /\ tx = [c \in Calls |-> NoTransaction]
    /\ approvals = {}
    /\ jwts = {}
    /\ conflicts = {}
    /\ faults = 0

Goto(c, statement) == pc' = [pc EXCEPT ![c] = statement]

\* The handler is over, and so is its transaction if it did not commit.
Finish(c) ==
    /\ Goto(c, "idle")
    /\ tx' = [tx EXCEPT ![c] = NoTransaction]

-----------------------------------------------------------------------------
(* POST /api/devices/register *)

\* The transaction begins.  The identifier is drawn a statement later in the
\* code, which nothing outside the handler can observe.
Begin(c) ==
    /\ pc[c] = "idle"
    /\ \E t \in Types, d \in Devices \ drawn :
          /\ tx' = [tx EXCEPT ![c] = [type |-> t, id |-> d, next |-> 0]]
          /\ drawn' = drawn \cup {d}
    /\ Goto(c, "counter")
    /\ UNCHANGED <<device_counters, devices, history, conflicts, faults>>

\* The registrations whose transaction holds the lock on the counter of type t.
Holders(t) == {c \in Calls : pc[c] \in {"insert", "commit"} /\ tx[c].type = t}

\* Mutated: the counter is bumped by a statement of its own, which commits.
CounterAutocommit(c) ==
    /\ pc[c] = "counter"
    /\ device_counters' = [device_counters EXCEPT ![tx[c].type] = @ + 1]
    /\ tx' = [tx EXCEPT ![c].next = device_counters[tx[c].type] + 1]
    /\ Goto(c, "insert")
    /\ UNCHANGED <<devices, drawn, history, conflicts, faults>>

\* INSERT ... ON CONFLICT DO UPDATE SET last_n = last_n + 1 RETURNING last_n
Counter(c) ==
    /\ pc[c] = "counter"
    /\ Holders(tx[c].type) = {}
    /\ tx' = [tx EXCEPT ![c].next = device_counters[tx[c].type] + 1]
    /\ Goto(c, "insert")
    /\ UNCHANGED <<device_counters, devices, drawn, history, conflicts, faults>>

\* Mutated: device_code without UNIQUE.
CodeNeverTaken(code) == FALSE

\* device_code UNIQUE
CodeTaken(code) == \E d \in Devices : Stored(d) /\ devices[d].code = code

\* The INSERT waits for another transaction that has inserted the same code.
CodeContended(c) == \E other \in Calls : pc[other] = "commit" /\ CodeOf(other) = CodeOf(c)

\* Mutated: the reply is written before the commit.
InsertDeviceEarlyReply(c) ==
    /\ pc[c] = "insert"
    /\ ~CodeContended(c)
    /\ ~CodeTaken(CodeOf(c)) /\ Goto(c, "replied")
    /\ UNCHANGED <<device_counters, devices, drawn, tx, history, conflicts, faults>>

\* Mutated: a taken code is tried again in the same transaction.
InsertDeviceRetried(c) ==
    /\ pc[c] = "insert"
    /\ ~CodeContended(c)
    /\ ~CodeTaken(CodeOf(c)) /\ Goto(c, "commit")
    /\ UNCHANGED <<device_counters, devices, drawn, tx, history, conflicts, faults>>

\* A taken code rolls the transaction back, the counter with it: 500.
InsertDevice(c) ==
    /\ pc[c] = "insert"
    /\ ~CodeContended(c)
    /\ \/ ~CodeTaken(CodeOf(c)) /\ Goto(c, "commit") /\ UNCHANGED <<tx, conflicts>>
       \/ CodeTaken(CodeOf(c)) /\ Finish(c) /\ conflicts' = conflicts \cup {tx[c].type}
    /\ UNCHANGED <<device_counters, devices, drawn, history, faults>>

Publish(c) ==
    /\ device_counters' = [device_counters EXCEPT ![tx[c].type] = tx[c].next]
    /\ devices' = [devices EXCEPT ![tx[c].id] =
                      [status |-> "pending", type |-> tx[c].type, code |-> CodeOf(c)]]

Commit(c) ==
    /\ pc[c] = "commit"
    /\ Publish(c)
    /\ Goto(c, "replied")
    /\ UNCHANGED <<drawn, tx, history, conflicts, faults>>

\* A statement or the commit fails, the request is cancelled, or the process
\* dies: the transaction is rolled back.
Abort(c) ==
    /\ pc[c] \in {"counter", "insert", "commit"}
    /\ faults < MaxFaults
    /\ faults' = faults + 1
    /\ Finish(c)
    /\ UNCHANGED <<device_counters, devices, drawn, history, conflicts>>

\* The commit takes effect and the connection breaks before it says so: 500.
CommitUnseen(c) ==
    /\ pc[c] = "commit"
    /\ faults < MaxFaults
    /\ faults' = faults + 1
    /\ Publish(c)
    /\ Finish(c)
    /\ UNCHANGED <<drawn, history, conflicts>>

\* The 201 reaches its client, or is lost on the way.
Reply(c) ==
    /\ pc[c] = "replied"
    /\ Finish(c)
    /\ UNCHANGED <<device_counters, devices, drawn, history, conflicts, faults>>

-----------------------------------------------------------------------------
(* POST /api/devices/{id}/approve and POST /api/devices/authenticate *)

CheckAdmin(token) == AdminToken = NoToken \/ token = AdminToken

\* Mutated: a status that the CHECK constraint of the table does not list.
ApproveMisspelt(d, token) ==
    /\ CheckAdmin(token)
    /\ devices[d].status = "pending"
    /\ devices' = [devices EXCEPT ![d].status = "approved"]
    /\ approvals' = approvals \cup {<<d, token>>}
    /\ UNCHANGED <<device_counters, drawn, pc, tx, jwts, conflicts, faults>>

Approve(d, token) ==
    /\ CheckAdmin(token)
    /\ devices[d].status = "pending"
    /\ devices' = [devices EXCEPT ![d].status = "active"]
    /\ approvals' = approvals \cup {<<d, token>>}
    /\ UNCHANGED <<device_counters, drawn, pc, tx, jwts, conflicts, faults>>

\* Mutated: status is not looked at.
MayAuthenticateAnyStatus(d) == Stored(d)

MayAuthenticate(d) == devices[d].status = "active"

\* SELECT ... WHERE device_code = $1; the claims carry that code and the id found.
Authenticate(d) ==
    /\ Stored(d)
    /\ \E e \in Devices : devices[e].code = devices[d].code /\ MayAuthenticate(e)
                          /\ jwts' = jwts \cup {<<e, devices[d].code>>}
    /\ UNCHANGED <<device_counters, devices, drawn, pc, tx, approvals, conflicts, faults>>

\* Every identifier of the bounded instance has been drawn.
Exhausted ==
    /\ drawn = Devices
    /\ \A c \in Calls : pc[c] = "idle"
    /\ UNCHANGED vars

Handle(c) == Counter(c) \/ InsertDevice(c) \/ Commit(c)

Next == \/ \E c \in Calls : Begin(c) \/ Handle(c) \/ Abort(c) \/ CommitUnseen(c) \/ Reply(c)
        \/ \E d \in Devices : Authenticate(d) \/ \E token \in Tokens : Approve(d, token)
        \/ Exhausted

Spec == Init /\ [][Next]_vars

\* Goroutines run and the database answers; Postgres grants a lock in the order
\* of its queue, so a waiting registration is not passed over for ever.
FairSpec == Spec /\ \A c \in Calls : SF_vars(Handle(c))

-----------------------------------------------------------------------------
(* Properties *)

Statements == {"counter", "insert", "commit"}

\* Every variable stays in its type; a registration in flight has a type and an
\* identifier, and a number once the counter has answered.
TypeOK ==
    /\ device_counters \in [Types -> Nat]
    /\ devices \in [Devices -> DeviceRow \cup {NoRow}]
    /\ drawn \subseteq Devices
    /\ pc \in [Calls -> Statements \cup {"idle", "replied"}]
    /\ tx \in [Calls -> Transaction \cup {NoTransaction}]
    /\ \A c \in Calls : pc[c] # "idle" => tx[c] \in Transaction
    /\ approvals \subseteq (Devices \X Tokens)
    /\ jwts \subseteq (Devices \X (Prefixes \X Nat))
    /\ conflicts \subseteq Types
    /\ faults \in 0..MaxFaults

NumbersOf(t) == {devices[d].code[2] : d \in {e \in Devices : devices[e].type = t}}

\* Whatever fails and in whatever order registrations interleave, the numbers of
\* the devices of a type are 1 up to its counter: none skipped, none reused.
CodesAreDense == \A t \in Types : NumbersOf(t) = 1..device_counters[t]

\* A JWT is only ever issued for a device that an admin approved before, and it
\* names the device that owns the code.
JwtsNeedApproval ==
    \A x \in jwts :
        /\ devices[x[1]].code = x[2]
        /\ \E token \in Tokens : CheckAdmin(token) /\ <<x[1], token>> \in approvals

\* Two devices whose codes share a prefix were registered under one spelling of
\* the type: the first spelling to commit shuts every other one out.
OneSpellingPerPrefix ==
    \A d, e \in Devices :
        Stored(d) /\ Stored(e) /\ devices[d].code[1] = devices[e].code[1]
            => devices[d].type = devices[e].type

\* A registration that has begun is answered: no wait for a counter or a code
\* lasts for ever.
RegistrationEnds ==
    \A c \in Calls : pc[c] = "counter" ~> pc[c] \in {"idle", "replied"}

\* From server/README.md, the device code "is allocated monotonically per type:
\* GPU-001, GPU-002": while nothing fails, every registration gets a code.
EveryRegistrationGetsACode == conflicts = {}

-----------------------------------------------------------------------------
(* The registry implements the allocator                                      *)

Allocator == INSTANCE CodeAllocator WITH
    NoTarget <- NoTransaction,
    NoCode   <- NoRow.code,
    last     <- device_counters,
    status   <- [d \in Devices |-> devices[d].status],
    code     <- [d \in Devices |-> devices[d].code],
    phase    <- [c \in Calls |-> CASE pc[c] = "idle"    -> "idle"
                                   [] pc[c] = "replied" -> "done"
                                   [] OTHER             -> "pending"],
    target   <- [c \in Calls |-> IF pc[c] = "idle" THEN NoTransaction
                                 ELSE [op |-> "register", type |-> tx[c].type, id |-> tx[c].id]],
    outcome  <- [c \in Calls |-> IF pc[c] = "replied" THEN "ok" ELSE "none"]

\* A registration looks atomic to the clients of all replicas: the counter, the
\* code and the device change together, at one instant before the reply, or not
\* at all, whatever waits, fails or rolls back on the way.
ImplementsAllocator == Allocator!Spec

=============================================================================
