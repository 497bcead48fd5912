---------------------------- MODULE AgentRegistry ----------------------------
(***************************************************************************)
(* The agents API of the ComputeID server (server/handlers_agents.go).     *)
(*                                                                         *)
(* Every request runs in a goroutine of its own, on one of several server  *)
(* replicas, and talks to one Postgres database.  No handler opens a       *)
(* transaction: each statement commits by itself, so the statements of     *)
(* concurrent requests interleave, and a request can die between two of    *)
(* its statements.  One action below is one statement together with the    *)
(* branch the handler takes on its result.  A statement works, or fails    *)
(* without effect, or takes effect while the connection reports an error.  *)
(*                                                                         *)
(* A client's view is part of the state: a reply is delivered or lost, and *)
(* the history variables acked and before remember what clients had been   *)
(* told when each request was sent.                                        *)
(***************************************************************************)
EXTENDS Integers, Sequences, FiniteSets

CONSTANTS
    Servers,      \* replicas of computeid-server
    Calls,        \* slots for requests in flight; a slot is reused
    ServerOf,     \* [Calls -> Servers]: the replica that serves a slot
    SignerKey,    \* [Servers -> key]: what LoadOrInitSigner gave each replica
    PassportIDs,  \* the identifiers newUUID draws from
    Stranger,     \* an identifier no register ever returns
    Caps,         \* capability names
    Reasons,      \* revocation reasons, "manual revocation" among them
    Actions,      \* action names clients log; any text but a blank one will do,
                  \* the names of the server's own lifecycle rows included
    Limit,        \* LIMIT of the audit trail query (50 by default, 500 at most)
    ListLimit,    \* LIMIT of the agent list query (200)
    MaxRequests,  \* bound: requests received in one behaviour
    MaxFaults     \* bound: failed statements and server crashes

ASSUME ServerOfAssumption == ServerOf \in [Calls -> Servers]
ASSUME StrangerAssumption == Stranger \in PassportIDs
ASSUME LimitAssumption    == Limit \in Nat \ {0} /\ ListLimit \in Nat \ {0}
ASSUME BoundsAssumption   == MaxRequests \in Nat /\ MaxFaults \in Nat

VARIABLES
    agents,         \* table agents: [PassportIDs -> row], absent rows included
    agent_actions,  \* table agent_actions in commit order
    minted,         \* identifiers handed out by newUUID
    pc,             \* next statement of each call
    req,            \* the request each call serves
    reply,          \* the reply each call has written
    acked,          \* history: calls whose success a client has received
    before,         \* history: acked, as it was when the call was sent
    requests,       \* number of requests so far
    faults          \* number of faults so far

dbVars   == <<agents, agent_actions>>
histVars == <<acked, before>>
vars     == <<agents, agent_actions, minted, pc, req, reply, acked, before,
              requests, faults>>

None == "none"
Keys == {SignerKey[s] : s \in Servers}

-----------------------------------------------------------------------------
(* Rows, requests and replies *)

Statements == {"insert_agent", "audit_issued", "load", "insert_action",
               "select_actions", "select_agents", "update", "exists",
               "audit_revoked"}
Ops      == {"register", "verify", "capability", "log", "actions", "revoke", "list"}
Statuses == {"active", "revoked"}
Filters  == Statuses \cup {"any"}
Codes    == {200, 201, 400, 404, 500}

AgentRow  == [status: Statuses \cup {"absent"}, caps: SUBSET Caps,
              key: Keys \cup {None}, reason: Reasons \cup {None}]
NoRow     == [status |-> "absent", caps |-> {}, key |-> None, reason |-> None]

\* The columns of a row are passport_id and action.  n and by are history: the
\* number and the operation of the request whose handler wrote it.
ActionRow == [passport_id: PassportIDs, n: 1..MaxRequests, by: Ops,
              action: Actions \cup {"passport_issued", "passport_revoked"}]

RequestRec == [op: Ops \cup {None}, id: PassportIDs, caps: SUBSET Caps,
               reason: Reasons \cup {None}, filter: Filters,
               action: Actions \cup {None}, n: 0..MaxRequests]
Request(op, id) == [op |-> op, id |-> id, caps |-> {}, reason |-> None,
                    filter |-> "any", action |-> None, n |-> requests + 1]
NoRequest == [op |-> None, id |-> Stranger, caps |-> {}, reason |-> None,
              filter |-> "any", action |-> None, n |-> 0]

ReplyRec == [code: Codes \cup {0}, status: Statuses \cup {None},
             signature_valid: BOOLEAN, granted: BOOLEAN,
             reason: Reasons \cup {None, "passport_revoked", "capability_not_found"},
             actions: SUBSET Nat, agents: SUBSET PassportIDs]
Answer(code) == [code |-> code, status |-> None, signature_valid |-> FALSE,
                 granted |-> FALSE, reason |-> None, actions |-> {}, agents |-> {}]
NoReply == Answer(0)

Receipt == [op: Ops, id: PassportIDs, n: 1..MaxRequests]

Stored(p) == agents[p].status # "absent"

Init ==
    /\ agents = [p \in PassportIDs |-> NoRow]
    /\ agent_actions = << >>
    /\ minted = {}
    /\ pc = [c \in Calls |-> "idle"]
    /\ req = [c \in Calls |-> NoRequest]
    /\ reply = [c \in Calls |-> NoReply]
    /\ acked = {}
    /\ before = [c \in Calls |-> {}]
    /\ requests = 0
    /\ faults = 0

-----------------------------------------------------------------------------
(* How a call moves *)

Works  == faults' = faults
Breaks == faults < MaxFaults /\ faults' = faults + 1

\* The handler goes on to its next statement.
Proceed(c, statement) ==
    /\ pc' = [pc EXCEPT ![c] = statement]
    /\ reply' = reply

\* The handler writes its reply and returns.
Respond(c, answer) ==
    /\ pc' = [pc EXCEPT ![c] = "replied"]
    /\ reply' = [reply EXCEPT ![c] = answer]

\* The slot is free again.
HangUp(c) ==
    /\ pc' = [pc EXCEPT ![c] = "idle"]
    /\ req' = [req EXCEPT ![c] = NoRequest]
    /\ reply' = [reply EXCEPT ![c] = NoReply]
    /\ before' = [before EXCEPT ![c] = {}]

\* A server goroutine takes up request r.
Receive(c, r) ==
    /\ pc[c] = "idle"
    /\ requests < MaxRequests
    /\ requests' = requests + 1
    /\ req' = [req EXCEPT ![c] = r]
    /\ before' = [before EXCEPT ![c] = acked]
    /\ UNCHANGED <<dbVars, acked, faults>>

\* Identifiers a client can name: of a stored passport, or of none.
Addressable == {p \in PassportIDs : Stored(p)} \cup {Stranger}

-----------------------------------------------------------------------------
(* POST /v1/agents/register *)

Register(c) ==
    \E p \in PassportIDs \ (minted \cup {Stranger}), caps \in SUBSET Caps :
        /\ Receive(c, [Request("register", p) EXCEPT !.caps = caps])
        /\ Proceed(c, "insert_agent")
        /\ minted' = minted \cup {p}

IssuedRow(c) == [status |-> "active", caps |-> req[c].caps,
                 key |-> SignerKey[ServerOf[c]], reason |-> None]

StoreAgent(c) == agents' = [agents EXCEPT ![req[c].id] = IssuedRow(c)]

\* Mutated: the error of the INSERT is ignored like that of the audit row.
RegisterInsertUnchecked(c) ==
    /\ pc[c] = "insert_agent"
    /\ \/ Works /\ StoreAgent(c)
       \/ Breaks /\ UNCHANGED agents
    /\ Proceed(c, "audit_issued")
    /\ UNCHANGED <<agent_actions, minted, req, histVars, requests>>

RegisterInsert(c) ==
    /\ pc[c] = "insert_agent"
    /\ \/ Works /\ StoreAgent(c) /\ Proceed(c, "audit_issued")
       \/ Breaks /\ StoreAgent(c) /\ Respond(c, Answer(500))
       \/ Breaks /\ UNCHANGED agents /\ Respond(c, Answer(500))
    /\ UNCHANGED <<agent_actions, minted, req, histVars, requests>>

AuditRow(c, action) ==
    [passport_id |-> req[c].id, n |-> req[c].n, by |-> req[c].op, action |-> action]

InsertAction(c, action) ==
    agent_actions' = Append(agent_actions, AuditRow(c, action))

\* The result of the lifecycle audit statement is discarded.
RegisterAudit(c) ==
    /\ pc[c] = "audit_issued"
    /\ \/ Works /\ InsertAction(c, "passport_issued")
       \/ Breaks /\ InsertAction(c, "passport_issued")
       \/ Breaks /\ UNCHANGED agent_actions
    /\ Respond(c, [Answer(201) EXCEPT !.status = "active"])
    /\ UNCHANGED <<agents, minted, req, histVars, requests>>

-----------------------------------------------------------------------------
(* GET .../verify and GET .../capabilities/{name}: one SELECT, then the       *)
(* verdict on the row it returned                                            *)

Verify(c) ==
    \E p \in Addressable :
        /\ Receive(c, Request("verify", p))
        /\ Proceed(c, "load")
        /\ UNCHANGED minted

CheckCapability(c) ==
    \E p \in Addressable, cap \in Caps :
        /\ Receive(c, [Request("capability", p) EXCEPT !.caps = {cap}])
        /\ Proceed(c, "load")
        /\ UNCHANGED minted

SignatureValid(c, row) == row.key = SignerKey[ServerOf[c]]

VerifyAnswer(c, row) ==
    [Answer(200) EXCEPT !.status = row.status,
                        !.signature_valid = SignatureValid(c, row)]

\* Mutated: the capability list is looked at before the status.
CapabilityAnswerListFirst(c, row) ==
    IF req[c].caps \subseteq row.caps
    THEN [Answer(200) EXCEPT !.granted = TRUE]
    ELSE [Answer(200) EXCEPT !.reason = row.reason]

CapabilityAnswer(c, row) ==
    IF row.status = "revoked"
    THEN [Answer(200) EXCEPT !.reason = "passport_revoked"]
    ELSE IF req[c].caps \subseteq row.caps
    THEN [Answer(200) EXCEPT !.granted = TRUE]
    ELSE [Answer(200) EXCEPT !.reason = "capability_not_found"]

\* Mutated: a missing row is scanned like any other, and its zero value judged.
LoadAgentUnfound(c) ==
    /\ pc[c] = "load"
    /\ LET row == agents[req[c].id] IN
       \/ Works /\ req[c].op = "verify" /\ Respond(c, VerifyAnswer(c, row))
       \/ Works /\ req[c].op = "capability" /\ Respond(c, CapabilityAnswer(c, row))
       \/ Breaks /\ Respond(c, Answer(500))
    /\ UNCHANGED <<dbVars, minted, req, histVars, requests>>

LoadAgent(c) ==
    /\ pc[c] = "load"
    /\ LET row == agents[req[c].id] IN
       \/ Works /\ ~Stored(req[c].id) /\ Respond(c, Answer(404))
       \/ Works /\ Stored(req[c].id) /\ req[c].op = "verify"
                /\ Respond(c, VerifyAnswer(c, row))
       \/ Works /\ Stored(req[c].id) /\ req[c].op = "capability"
                /\ Respond(c, CapabilityAnswer(c, row))
       \/ Breaks /\ Respond(c, Answer(500))
    /\ UNCHANGED <<dbVars, minted, req, histVars, requests>>

-----------------------------------------------------------------------------
(* POST and GET .../actions *)

LogAction(c) ==
    \E p \in Addressable, action \in Actions :
        /\ Receive(c, [Request("log", p) EXCEPT !.action = action])
        /\ Proceed(c, "insert_action")
        /\ UNCHANGED minted

\* Register without a name or organization, log without an action or with an
\* unknown outcome, or a body that is not JSON: refused before any statement.
Malformed(c) ==
    \E op \in {"register", "log"} :
        /\ Receive(c, Request(op, Stranger))
        /\ Respond(c, Answer(400))
        /\ UNCHANGED minted

\* INSERT ... SELECT ... WHERE EXISTS: no row is inserted for an unknown id.  The
\* action is the client's word for it.
LogInsert(c) ==
    /\ pc[c] = "insert_action"
    /\ \/ Works /\ Stored(req[c].id)
                /\ InsertAction(c, req[c].action) /\ Respond(c, Answer(201))
       \/ Works /\ ~Stored(req[c].id)
                /\ UNCHANGED agent_actions /\ Respond(c, Answer(404))
       \/ Breaks /\ Stored(req[c].id)
                 /\ InsertAction(c, req[c].action) /\ Respond(c, Answer(500))
       \/ Breaks /\ UNCHANGED agent_actions /\ Respond(c, Answer(500))
    /\ UNCHANGED <<agents, minted, req, histVars, requests>>

ListActions(c) ==
    \E p \in Addressable :
        /\ Receive(c, Request("actions", p))
        /\ Proceed(c, "select_actions")
        /\ UNCHANGED minted

RowsOf(p) == {i \in DOMAIN agent_actions : agent_actions[i].passport_id = p}

\* Mutated: ORDER BY occurred_at, without DESC.
OldestActions(p) ==
    {i \in RowsOf(p) : Cardinality({j \in RowsOf(p) : j < i}) < Limit}

\* ORDER BY occurred_at DESC LIMIT n: the rows fewer than n others follow.
NewestActions(p) ==
    {i \in RowsOf(p) : Cardinality({j \in RowsOf(p) : j > i}) < Limit}

SelectActions(c) ==
    /\ pc[c] = "select_actions"
    /\ \/ Works /\ Respond(c, [Answer(200) EXCEPT !.actions = NewestActions(req[c].id)])
       \/ Breaks /\ Respond(c, Answer(500))
    /\ UNCHANGED <<dbVars, minted, req, histVars, requests>>

-----------------------------------------------------------------------------
(* GET /v1/agents?status= *)

ListAgents(c) ==
    \E status \in Filters :
        /\ Receive(c, [Request("list", Stranger) EXCEPT !.filter = status])
        /\ Proceed(c, "select_agents")
        /\ UNCHANGED minted

Listed(status) ==
    {p \in PassportIDs : Stored(p) /\ status \in {"any", agents[p].status}}

\* ORDER BY issued_at DESC LIMIT 200.  issued_at is the clock of the replica
\* that issued the passport, so any page of that length may come first.
Pages(status) ==
    {page \in SUBSET Listed(status) :
        \/ page = Listed(status) /\ Cardinality(page) <= ListLimit
        \/ Cardinality(page) = ListLimit}

SelectAgents(c) ==
    /\ pc[c] = "select_agents"
    /\ \/ /\ Works
          /\ \E page \in Pages(req[c].filter) :
                Respond(c, [Answer(200) EXCEPT !.agents = page])
       \/ Breaks /\ Respond(c, Answer(500))
    /\ UNCHANGED <<dbVars, minted, req, histVars, requests>>

-----------------------------------------------------------------------------
(* DELETE .../revoke *)

Revoke(c) ==
    \E p \in Addressable, reason \in Reasons :
        /\ Receive(c, [Request("revoke", p) EXCEPT !.reason = reason])
        /\ Proceed(c, "update")
        /\ UNCHANGED minted

\* Mutated: WHERE passport_id = $1 only.
RevocableTwice(p) == Stored(p)

\* WHERE passport_id = $1 AND status = 'active'
Revocable(p) == agents[p].status = "active"

MarkRevoked(c) ==
    /\ Revocable(req[c].id)
    /\ agents' = [agents EXCEPT ![req[c].id] =
                      [@ EXCEPT !.status = "revoked", !.reason = req[c].reason]]

\* Mutated: the lifecycle row is only written for a passport found revoked.
RevokeUpdateUnaudited(c) ==
    /\ pc[c] = "update"
    /\ \/ Works /\ MarkRevoked(c) /\ Respond(c, [Answer(200) EXCEPT !.status = "revoked"])
       \/ Works /\ ~Revocable(req[c].id) /\ UNCHANGED agents /\ Proceed(c, "exists")
       \/ Breaks /\ UNCHANGED agents /\ Respond(c, Answer(500))
    /\ UNCHANGED <<agent_actions, minted, req, histVars, requests>>

\* Mutated: the error of the UPDATE is ignored like that of the audit row.
RevokeUpdateUnchecked(c) ==
    /\ pc[c] = "update"
    /\ \/ Works /\ MarkRevoked(c) /\ Proceed(c, "audit_revoked")
       \/ Works /\ ~Revocable(req[c].id) /\ UNCHANGED agents /\ Proceed(c, "exists")
       \/ Breaks /\ UNCHANGED agents /\ Proceed(c, "audit_revoked")
    /\ UNCHANGED <<agent_actions, minted, req, histVars, requests>>

RevokeUpdate(c) ==
    /\ pc[c] = "update"
    /\ \/ Works /\ MarkRevoked(c) /\ Proceed(c, "audit_revoked")
       \/ Works /\ ~Revocable(req[c].id) /\ UNCHANGED agents /\ Proceed(c, "exists")
       \/ Breaks /\ MarkRevoked(c) /\ Respond(c, Answer(500))
       \/ Breaks /\ UNCHANGED agents /\ Respond(c, Answer(500))
    /\ UNCHANGED <<agent_actions, minted, req, histVars, requests>>

\* The error of SELECT EXISTS is discarded, and exists stays false.
RevokeExists(c) ==
    /\ pc[c] = "exists"
    /\ \/ Works /\ Stored(req[c].id) /\ Proceed(c, "audit_revoked")
       \/ Works /\ ~Stored(req[c].id) /\ Respond(c, Answer(404))
       \/ Breaks /\ Respond(c, Answer(404))
    /\ UNCHANGED <<dbVars, minted, req, histVars, requests>>

\* The reply carries the reason of this request, not the stored one.
RevokeAudit(c) ==
    /\ pc[c] = "audit_revoked"
    /\ \/ Works /\ InsertAction(c, "passport_revoked")
       \/ Breaks /\ InsertAction(c, "passport_revoked")
       \/ Breaks /\ UNCHANGED agent_actions
    /\ Respond(c, [Answer(200) EXCEPT !.status = "revoked", !.reason = req[c].reason])
    /\ UNCHANGED <<agents, minted, req, histVars, requests>>

-----------------------------------------------------------------------------
(* The client's end of the connection, and crashes *)

\* What a client may rely on once it has the reply.
Acknowledgement(c) ==
    IF req[c].op \in {"register", "log", "revoke"} /\ reply[c].code \in {200, 201}
    THEN {[op |-> req[c].op, id |-> req[c].id, n |-> req[c].n]}
    ELSE {}

Deliver(c) ==
    /\ pc[c] = "replied"
    /\ acked' = acked \cup Acknowledgement(c)
    /\ HangUp(c)
    /\ UNCHANGED <<dbVars, minted, requests, faults>>

\* The client timed out or went away: nobody reads the reply.
LoseReply(c) ==
    /\ pc[c] = "replied"
    /\ HangUp(c)
    /\ UNCHANGED <<dbVars, minted, acked, requests, faults>>

\* A replica dies: its goroutines stop where they are, the database stays.
Crash(s) ==
    LET lost == {c \in Calls : ServerOf[c] = s} IN
    /\ \E c \in lost : pc[c] # "idle"
    /\ Breaks
    /\ pc' = [c \in Calls |-> IF c \in lost THEN "idle" ELSE pc[c]]
    /\ req' = [c \in Calls |-> IF c \in lost THEN NoRequest ELSE req[c]]
    /\ reply' = [c \in Calls |-> IF c \in lost THEN NoReply ELSE reply[c]]
    /\ before' = [c \in Calls |-> IF c \in lost THEN {} ELSE before[c]]
    /\ UNCHANGED <<dbVars, minted, acked, requests>>

\* The bound on requests is used up and every call has been answered.
Quiescent ==
    /\ requests = MaxRequests
    /\ \A c \in Calls : pc[c] = "idle"
    /\ UNCHANGED vars

Arrive(c) == Register(c) \/ Verify(c) \/ CheckCapability(c) \/ LogAction(c)
             \/ Malformed(c) \/ ListActions(c) \/ ListAgents(c) \/ Revoke(c)

Handle(c) == RegisterInsert(c) \/ RegisterAudit(c) \/ LoadAgent(c) \/ LogInsert(c)
             \/ SelectActions(c) \/ SelectAgents(c)
             \/ RevokeUpdate(c) \/ RevokeExists(c) \/ RevokeAudit(c)

Next == \/ \E c \in Calls : Arrive(c) \/ Handle(c) \/ Deliver(c) \/ LoseReply(c)
        \/ \E s \in Servers : Crash(s)
        \/ Quiescent

Spec == Init /\ [][Next]_vars

\* A goroutine that can run does run: the Go scheduler and a database that
\* answers every statement.  Nothing makes a client send a request.
Fairness == \A c \in Calls : WF_vars(Handle(c))

FairSpec == Spec /\ Fairness

-----------------------------------------------------------------------------
(* Properties *)

\* Every variable stays in its type: the state the handlers keep is a table of
\* passports, an audit log, and one statement to run per call.
TypeOK ==
    /\ agents \in [PassportIDs -> AgentRow]
    /\ agent_actions \in Seq(ActionRow)
    /\ minted \subseteq PassportIDs
    /\ pc \in [Calls -> Statements \cup {"idle", "replied"}]
    /\ req \in [Calls -> RequestRec]
    /\ reply \in [Calls -> ReplyRec]
    /\ acked \subseteq Receipt
    /\ before \in [Calls -> SUBSET Receipt]
    /\ requests \in 0..MaxRequests
    /\ faults \in 0..MaxFaults

\* c was sent after some client had been told that operation op on the passport
\* of c succeeded, and its own reply is written.
AnsweredAfter(c, op, p) ==
    /\ pc[c] = "replied"
    /\ \E r \in before[c] : r.op = op /\ r.id = p

\* Once a client has been told that a passport is revoked, no request sent after
\* that, on any replica, is answered as if it were active: verify does not say
\* active, no capability is granted, the list of active passports omits it.
NoAuthorityAfterRevocation ==
    \A c \in Calls, p \in PassportIDs :
        AnsweredAfter(c, "revoke", p) =>
            /\ req[c].op \in {"verify", "capability"} /\ req[c].id = p =>
                  reply[c].status # "active" /\ ~reply[c].granted
            /\ req[c].op = "list" /\ req[c].filter = "active" => p \notin reply[c].agents

\* The first revocation stands: no statement of any handler touches the row of a
\* revoked passport again, so status, reason, capabilities and key keep the
\* values they had when it was revoked, whatever concurrent revokes do.
RevocationIsFinal ==
    [][\A p \in PassportIDs :
          agents[p].status = "revoked" => agents'[p] = agents[p]]_vars

\* Once a client holds a passport, no verify, capability check or log sent after
\* that answers "passport not found", and an unfiltered list includes it unless
\* its page is full, even when statements fail and replicas crash in between.
PassportNeverForgotten ==
    \A c \in Calls, p \in PassportIDs :
        AnsweredAfter(c, "register", p) =>
            /\ req[c].op \in {"verify", "capability", "log"} /\ req[c].id = p =>
                  reply[c].code # 404
            /\ req[c].op = "list" /\ req[c].filter = "any" /\ reply[c].code = 200
                  => \/ p \in reply[c].agents
                     \/ Cardinality(reply[c].agents) = ListLimit

\* An action whose logging was acknowledged is in every audit trail read after
\* that, unless Limit newer rows of the same passport push it out.
AcknowledgedActionsListed ==
    \A c \in Calls : \A r \in before[c] :
        /\ pc[c] = "replied"
        /\ req[c].op = "actions" /\ req[c].id = r.id /\ reply[c].code = 200
        /\ r.op = "log"
        => \E i \in DOMAIN agent_actions :
              /\ agent_actions[i].n = r.n
              /\ \/ i \in reply[c].actions
                 \/ /\ Cardinality(reply[c].actions) = Limit
                    /\ \A j \in reply[c].actions : i < j

\* The row of the audit trail that the handler of a register or a revoke writes.
HasLifecycleRow(c) ==
    \E i \in DOMAIN agent_actions :
        /\ agent_actions[i].n = req[c].n /\ agent_actions[i].by = req[c].op
        /\ agent_actions[i].passport_id = req[c].id
        /\ agent_actions[i].action = IF req[c].op = "register" THEN "passport_issued"
                                                             ELSE "passport_revoked"

\* What the server itself says of a passport's life is true, although row, EXISTS
\* and audit are separate statements and a client may log rows that look alike: a
\* passport_issued row it wrote names a stored passport, a passport_revoked row it
\* wrote or a 200 to a revoke a revoked one, and as long as nothing has failed
\* every register and every revoke answered with success has its row.
LifecycleReportsAreTrue ==
    /\ \A i \in DOMAIN agent_actions :
          LET row == agent_actions[i] IN
          row.by # "log" =>
              /\ row.action = "passport_issued" => Stored(row.passport_id)
              /\ row.action = "passport_revoked" => agents[row.passport_id].status = "revoked"
    /\ \A c \in Calls :
          pc[c] = "replied" /\ req[c].op \in {"register", "revoke"}
          /\ reply[c].code \in {200, 201} =>
              /\ req[c].op = "revoke" => agents[req[c].id].status = "revoked"
              /\ faults = 0 => HasLifecycleRow(c)

\* p has the passport_revoked row of a revoke.
Audited(p) ==
    \E i \in DOMAIN agent_actions :
        /\ agent_actions[i].passport_id = p /\ agent_actions[i].by = "revoke"
        /\ agent_actions[i].action = "passport_revoked"

\* A revoke of a stored passport whose handler has started ends with the
\* passport revoked and a revoke's passport_revoked row in the audit trail, unless
\* a statement fails or a replica crashes.
RevokeCompletes ==
    \A p \in PassportIDs :
        (\E c \in Calls : pc[c] = "update" /\ req[c].id = p /\ Stored(p))
        ~> (faults > 0 \/ (agents[p].status = "revoked" /\ Audited(p)))

\* From the comment in handleAgentRevoke, "already revoked or not present ---
\* distinguish": a revoke answered 404 names a passport that is not stored.
RevokeNotFoundMeansAbsent ==
    \A c \in Calls :
        pc[c] = "replied" /\ req[c].op = "revoke" /\ reply[c].code = 404 =>
            ~Stored(req[c].id)

-----------------------------------------------------------------------------
(* The registry implements the ledger: a call is pending until the statement  *)
(* that decides it, and done from then on, audit statement and reply included *)

LedgerPhase(c) ==
    CASE pc[c] = "idle"                                          -> "idle"
      [] pc[c] \in {"audit_issued", "audit_revoked", "replied"} -> "done"
      [] OTHER                                                   -> "pending"

\* What the written reply says of the passport.
ReplyOutcome(c) ==
    CASE reply[c].code = 404          -> "missing"
      [] reply[c].code \in {400, 500} -> "error"
      [] OTHER -> CASE req[c].op = "verify"     -> reply[c].status
                    [] req[c].op = "capability" -> IF reply[c].granted THEN "granted" ELSE "denied"
                    [] OTHER                    -> "ok"

LedgerOutcome(c) ==
    CASE pc[c] = "replied"                          -> ReplyOutcome(c)
      [] pc[c] \in {"audit_issued", "audit_revoked"} -> "ok"
      [] OTHER                                      -> "none"

Ledger == INSTANCE PassportLedger WITH
    NoTarget <- [op |-> None, id |-> Stranger],
    status   <- [p \in PassportIDs |-> agents[p].status],
    phase    <- [c \in Calls |-> LedgerPhase(c)],
    target   <- [c \in Calls |-> [op |-> req[c].op, id |-> req[c].id]],
    outcome  <- [c \in Calls |-> LedgerOutcome(c)]

\* Every call that answers took effect at one instant between its request and
\* its reply: handlers made of several statements, retries, failing statements
\* and crashes look to the clients like the atomic ledger.
ImplementsLedger == Ledger!Spec

=============================================================================
