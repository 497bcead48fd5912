--------------------------- MODULE ServerLifecycle ---------------------------
(***************************************************************************)
(* How a computeid-server process serves and stops: the select, Shutdown   *)
(* and deferred Close of run in cmd/computeid-server/main.go, the pool of  *)
(* server/postgres.go, and the connections that handlers in flight hold.   *)
(* The boot before that is ServerBoot.                                     *)
(*                                                                         *)
(* A signal makes run stop listening and wait ten seconds for handlers; a  *)
(* listener that fails makes it return at once.  Either way the deferred   *)
(* Close refuses new connections and waits for those in use, and then the  *)
(* process is gone, with every handler that is still running.  Handlers do *)
(* not see the signal: only their client's context can cancel them.        *)
(***************************************************************************)
EXTENDS Integers, FiniteSets

CONSTANTS
    Requests,       \* requests that clients may send
    Kind,           \* [Requests -> Kinds]
    MaxConns,       \* connections of the pool
    MaxFaults       \* bound: failed statements

\* By what a handler asks of the pool: a read (verify, capability, lists) is one
\* statement; a revoke (and an agent registration) is a statement and the audit of
\* it, and a revoke that hits no row asks in between whether the passport exists,
\* each with a connection of its own; a device registration keeps one connection for
\* the three statements of its transaction.
Kinds == {"read", "revoke", "device"}

ASSUME KindAssumption     == Kind \in [Requests -> Kinds]
ASSUME MaxConnsAssumption == MaxConns \in Nat \ {0}
ASSUME FaultsAssumption   == MaxFaults \in Nat

VARIABLES
    main,           \* where run stands
    status,         \* exit status: 0 until run returns an error, or the process is killed
    signalled,      \* ctx is done: SIGINT or SIGTERM has arrived
    listener,       \* ListenAndServe, and whether its connections may bring requests
    pool,           \* "open" or "closed"
    holders,        \* requests whose handler holds a connection
    pc,             \* what the handler of each request is doing
    statement,      \* [Requests -> the statement it runs next or is running]
    code,           \* [Requests -> status of the reply, 0 before the handler knows it]
    committed,      \* <<request, statement>> that ran, and whose transaction committed
    refused,        \* history: requests that found the pool closed
    faults          \* number of failed statements

process  == <<main, status, signalled, listener>>
handlers == <<pc, statement, code, committed, refused>>
vars     == <<process, pool, holders, handlers, faults>>

None == "none"
FirstStatement == [read |-> "select", revoke |-> "update", device |-> "counter"]
NextStatement  == [update |-> {"audit", "exists"}, exists |-> {"audit"},
                   counter |-> {"insert"}, insert |-> {"commit"}]
Statements     == {"select", "update", "exists", "audit", "counter", "insert", "commit"}

\* The reply when a statement fails. Nobody looks at the error of the audit, and
\* an EXISTS that failed reads as absence.
FailureCode == [s \in Statements |-> CASE s = "audit"  -> 200
                                      [] s = "exists" -> 404
                                      [] OTHER        -> 500]

Init ==
    /\ main = "select"
    /\ status = 0
    /\ signalled = FALSE
    /\ listener = "starting"
    /\ pool = "open"
    /\ holders = {}
    /\ pc = [r \in Requests |-> "unsent"]
    /\ statement = [r \in Requests |-> None]
    /\ code = [r \in Requests |-> 0]
    /\ committed = {}
    /\ refused = {}
    /\ faults = 0

\* "unbound": the port was taken; "failed": accepting failed later; "closed": by
\* Shutdown; "drained": the same, and no connection is left.
Listeners == {"starting", "open", "unbound", "failed", "closed", "drained"}

InFlight == {r \in Requests : pc[r] \in {"reading", "acquire", "run", "respond"}}

-----------------------------------------------------------------------------
(* run *)

\* signal.NotifyContext: the first signal ends ctx, later ones change nothing.
Signal ==
    /\ main # "exited"
    /\ ~signalled
    /\ signalled' = TRUE
    /\ UNCHANGED <<main, status, listener, pool, holders, handlers, faults>>

\* ListenAndServe binds the port, or fails to, or fails later; the error waits
\* in errCh, which has room for it.
Listen ==
    /\ main = "select"
    /\ \/ listener = "starting" /\ listener' \in {"open", "unbound"}
       \/ listener = "open" /\ listener' = "failed"
    /\ UNCHANGED <<main, status, signalled, pool, holders, handlers, faults>>

\* httpServer.Shutdown closes the listener, or the one that is about to open.  A
\* connection accepted before may still bring a request.
BeginShutdown ==
    /\ main = "select"
    /\ signalled
    /\ main' = "shutdown"
    /\ listener' = IF listener \in {"open", "failed"} THEN "closed" ELSE "drained"
    /\ UNCHANGED <<status, signalled, pool, holders, handlers, faults>>

\* run returns what errCh holds, without Shutdown.
ListenerFailed ==
    /\ main = "select"
    /\ listener \in {"unbound", "failed"}
    /\ main' = "return"
    /\ status' = 1
    /\ UNCHANGED <<signalled, listener, pool, holders, handlers, faults>>

\* Mutated: httpServer.Close, which waits for nobody.
DrainedAtOnce ==
    /\ main = "shutdown"
    /\ main' = "return"
    /\ listener' = "drained"
    /\ UNCHANGED <<status, signalled, pool, holders, handlers, faults>>

\* Shutdown closes connections as they fall idle, and returns nil after the last.
Drained ==
    /\ main = "shutdown"
    /\ InFlight = {}
    /\ main' = "return"
    /\ listener' = "drained"
    /\ UNCHANGED <<status, signalled, pool, holders, handlers, faults>>

\* Mutated: Shutdown(context.Background()).
NoDeadline == FALSE

\* shutdownCtx ends first, and Shutdown returns its error.
Deadline ==
    /\ main = "shutdown"
    /\ main' = "return"
    /\ status' = 1
    /\ UNCHANGED <<signalled, listener, pool, holders, handlers, faults>>

\* Mutated: the pool is closed as soon as the signal arrives.
ClosePoolOnSignal ==
    /\ main = "return" \/ signalled
    /\ pool = "open"
    /\ pool' = "closed"
    /\ UNCHANGED <<process, holders, handlers, faults>>

\* The deferred db.Close: from here on no connection is handed out.
ClosePool ==
    /\ main = "return"
    /\ pool = "open"
    /\ pool' = "closed"
    /\ UNCHANGED <<process, holders, handlers, faults>>

\* Mutated: os.Exit inside run, which skips the deferred Close.
ExitSkipsDefers ==
    /\ main = "return"
    /\ main' = "exited"
    /\ pc' = [r \in Requests |-> IF r \in InFlight THEN "cut" ELSE pc[r]]
    /\ UNCHANGED <<status, signalled, listener, pool, holders, statement, code,
                   committed, refused, faults>>

\* Close has seen every connection returned, and main exits.
Exit ==
    /\ main = "return"
    /\ pool = "closed"
    /\ holders = {}
    /\ main' = "exited"
    /\ pc' = [r \in Requests |-> IF r \in InFlight THEN "cut" ELSE pc[r]]
    /\ UNCHANGED <<status, signalled, listener, pool, holders, statement, code,
                   committed, refused, faults>>

\* SIGKILL, from an operator or a container runtime that lost its patience, or a
\* crash.
Kill ==
    /\ main # "exited"
    /\ main' = "exited"
    /\ status' = 137
    /\ holders' = {}
    /\ pc' = [r \in Requests |-> IF r \in InFlight THEN "cut" ELSE pc[r]]
    /\ UNCHANGED <<signalled, listener, pool, statement, code, committed, refused, faults>>

Run == BeginShutdown \/ ListenerFailed \/ Drained \/ Deadline \/ ClosePool \/ Exit

-----------------------------------------------------------------------------
(* A handler *)

\* net/http starts the handler once the headers are read.  The body may have come
\* with them, or not: only headers have a timeout.
Accept(r) ==
    /\ pc[r] = "unsent"
    /\ listener \in {"open", "failed", "closed"} /\ main # "exited"
    /\ \E step \in {"reading", "acquire"} : pc' = [pc EXCEPT ![r] = step]
    /\ statement' = [statement EXCEPT ![r] = FirstStatement[Kind[r]]]
    /\ UNCHANGED <<process, pool, holders, code, committed, refused, faults>>

Respond(r, c) ==
    /\ pc' = [pc EXCEPT ![r] = "respond"]
    /\ code' = [code EXCEPT ![r] = c]
    /\ statement' = [statement EXCEPT ![r] = None]

BodyArrives(r) ==
    /\ pc[r] = "reading"
    /\ pc' = [pc EXCEPT ![r] = "acquire"]
    /\ UNCHANGED <<process, pool, holders, statement, code, committed, refused, faults>>

\* The client goes away: 400 to nobody, but revoke does without a body.
BodyBreaks(r) ==
    /\ pc[r] = "reading"
    /\ Kind[r] # "revoke"
    /\ Respond(r, 400)
    /\ UNCHANGED <<process, pool, holders, committed, refused, faults>>

FreeConn == Cardinality(holders) < MaxConns

Acquire(r) ==
    /\ pc[r] = "acquire"
    /\ pool = "open" /\ FreeConn
    /\ holders' = holders \cup {r}
    /\ pc' = [pc EXCEPT ![r] = "run"]
    /\ UNCHANGED <<process, pool, statement, code, committed, refused, faults>>

\* A closed pool answers the next in its queue with an error.
Refuse(r) ==
    /\ pc[r] = "acquire"
    /\ pool = "closed" /\ FreeConn
    /\ Respond(r, FailureCode[statement[r]])
    /\ refused' = refused \cup {r}
    /\ UNCHANGED <<process, pool, holders, committed, faults>>

\* The statement takes effect, at once or, in a transaction, with its commit.
Effect(r) == committed' = committed \cup {<<r, statement[r]>>}

\* Mutated: the statements of the transaction go to s.db instead of tx, which keeps
\* its connection meanwhile.
GoOnOutsideTx(r) == pc' = [pc EXCEPT ![r] = "acquire"]

\* The next statement of a transaction runs on the connection it has.
GoOn(r) == pc' = pc

\* A statement works: the handler goes on in its transaction, or gives the
\* connection back and asks for another one, or is done.
Step(r) ==
    /\ pc[r] = "run"
    /\ \/ /\ statement[r] \in {"counter", "insert"}
          /\ \E next \in NextStatement[statement[r]] : statement' = [statement EXCEPT ![r] = next]
          /\ GoOn(r)
          /\ UNCHANGED <<holders, code, committed>>
       \/ /\ statement[r] \in {"update", "exists"}
          /\ \E next \in NextStatement[statement[r]] : statement' = [statement EXCEPT ![r] = next]
          /\ Effect(r)
          /\ holders' = holders \ {r}
          /\ pc' = [pc EXCEPT ![r] = "acquire"]
          /\ UNCHANGED code
       \/ /\ statement[r] = "exists"
          /\ Respond(r, 404)
          /\ Effect(r)
          /\ holders' = holders \ {r}
       \/ /\ statement[r] \in {"select", "audit", "commit"}
          /\ Respond(r, IF statement[r] = "commit" THEN 201 ELSE 200)
          /\ Effect(r)
          /\ holders' = holders \ {r}
    /\ UNCHANGED <<process, pool, refused, faults>>

\* Mutated: no deferred Rollback, so a failed registration keeps its connection.
ReturnedIfNoTx(r) == IF Kind[r] = "device" THEN {} ELSE {r}

\* The connections a failing handler returns; tx.Rollback is deferred.
Returned(r) == {r}

\* A statement, or the wait for its connection, fails; so does a transaction with
\* it.  A statement that runs may have taken effect, unless its transaction has
\* yet to commit.
StepFails(r) ==
    /\ pc[r] \in {"acquire", "run"}
    /\ faults < MaxFaults
    /\ faults' = faults + 1
    /\ \/ UNCHANGED committed
       \/ pc[r] = "run" /\ statement[r] \notin {"counter", "insert"} /\ Effect(r)
    /\ Respond(r, FailureCode[statement[r]])
    /\ holders' = holders \ Returned(r)
    /\ UNCHANGED <<process, pool, refused>>

Finish(r) ==
    /\ pc[r] = "respond"
    /\ pc' = [pc EXCEPT ![r] = "answered"]
    /\ UNCHANGED <<process, pool, holders, statement, code, committed, refused, faults>>

Handle(r) == Acquire(r) \/ Refuse(r) \/ Step(r) \/ StepFails(r) \/ Finish(r)

\* The process is gone.
Gone == main = "exited" /\ UNCHANGED vars

Next == \/ Signal \/ Listen \/ Run \/ Kill \/ Gone
        \/ \E r \in Requests : Accept(r) \/ BodyArrives(r) \/ BodyBreaks(r) \/ Handle(r)

Spec == Init /\ [][Next]_vars

\* run and the handlers go on whenever they can, timers fire, the database
\* answers.  No client is made to send a request or the body of one.
FairSpec == Spec /\ WF_vars(Run) /\ \A r \in Requests : WF_vars(Handle(r))

-----------------------------------------------------------------------------
(* Properties *)

\* Every variable stays in its type, no more handlers hold connections than the
\* pool has, and a handler holds one exactly while a statement of it runs.
TypeOK ==
    /\ main \in {"select", "shutdown", "return", "exited"}
    /\ status \in {0, 1, 137}
    /\ signalled \in BOOLEAN
    /\ listener \in Listeners
    /\ pool \in {"open", "closed"}
    /\ Cardinality(holders) <= MaxConns
    /\ pc \in [Requests -> {"unsent", "reading", "acquire", "run", "respond",
                            "answered", "cut"}]
    /\ holders = {r \in Requests : pc[r] = "run"}
    /\ statement \in [Requests -> Statements \cup {None}]
    /\ code \in [Requests -> {0, 200, 201, 400, 404, 500}]
    /\ committed \subseteq (Requests \X Statements)
    /\ refused \subseteq Requests
    /\ faults \in 0..MaxFaults

\* What CHANGELOG.md calls graceful shutdown: a process that exits with status 0
\* has answered every request it accepted, and refused none of them a connection.
GracefulExit ==
    main = "exited" /\ status = 0 =>
        refused = {} /\ \A r \in Requests : pc[r] \in {"unsent", "answered"}

\* A revocation is answered with success and left out of the audit trail only if
\* a statement failed, or run gave up: the ten seconds were over, or the listener
\* had failed.  A shutdown in time leaves no gap.
RevocationsAudited ==
    \A r \in Requests :
        /\ pc[r] = "answered" /\ Kind[r] = "revoke" /\ code[r] = 200
        /\ faults = 0 /\ status = 0
        => <<r, "audit">> \in committed

\* However run returns, it leaves no transaction open on the database, where its
\* lock on the counter of a device type would stop the other replicas: a cut
\* registration had not begun its transaction, or had ended it.
ExitCutsNoTransaction ==
    status # 137 => \A r \in Requests :
        pc[r] = "cut" /\ Kind[r] = "device" =>
            \/ statement[r] = "counter" /\ r \notin holders
            \/ statement[r] = None

\* A process that has been signalled, or has lost its listener, exits, even while
\* a client never finishes sending its body and handlers queue for connections.
ShutdownEnds == (signalled \/ listener \in {"unbound", "failed"}) ~> main = "exited"

\* A handler that has its request is answered, or cut by the exit: waiting for
\* one of too few connections never lasts for ever.
HandlersEnd ==
    \A r \in Requests : pc[r] = "acquire" ~> pc[r] \in {"answered", "cut"}

=============================================================================
