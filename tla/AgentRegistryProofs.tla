------------------------- MODULE AgentRegistryProofs -------------------------
(***************************************************************************)
(* Proofs about AgentRegistry, for any number of replicas, calls,          *)
(* passports, requests and faults.                                         *)
(***************************************************************************)
EXTENDS AgentRegistry, FunctionTheorems, FiniteSetTheorems, TLAPS

-----------------------------------------------------------------------------
(* Type correctness.  A call in flight serves a request of the kind its next  *)
(* statement belongs to.                                                      *)

OpsAt(statement) ==
    CASE statement \in {"insert_agent", "audit_issued"}     -> {"register"}
      [] statement = "load"                                 -> {"verify", "capability"}
      [] statement = "insert_action"                        -> {"log"}
      [] statement = "select_actions"                       -> {"actions"}
      [] statement = "select_agents"                        -> {"list"}
      [] statement \in {"update", "exists", "audit_revoked"} -> {"revoke"}
      [] OTHER                                              -> Ops

CallsServeRequests ==
    \A c \in Calls : pc[c] # "idle" => /\ req[c].op \in OpsAt(pc[c])
                                       /\ req[c].n \in 1..MaxRequests
                                       /\ pc[c] = "insert_action" => req[c].action \in Actions

TypeInv == TypeOK /\ CallsServeRequests

USE ServerOfAssumption, StrangerAssumption, LimitAssumption, BoundsAssumption

LEMMA InitTypeInv == Init => TypeInv
  BY DEF Init, TypeInv, TypeOK, CallsServeRequests, AgentRow, NoRow, RequestRec, NoRequest,
         ReplyRec, NoReply, Answer, Filters, Statuses, Codes, None, OpsAt, Ops

\* A received request is recorded as it is; nothing else moves.
LEMMA ReceiveRecords ==
    ASSUME TypeInv, NEW c \in Calls, NEW r \in RequestRec, NEW statement,
           r.n = requests + 1, r.op \in OpsAt(statement), r.op \in Ops,
           statement = "insert_action" => r.action \in Actions,
           statement \in Statements \cup {"replied"},
           Receive(c, r), pc' = [pc EXCEPT ![c] = statement],
           reply' \in [Calls -> ReplyRec],
           minted' \subseteq PassportIDs
    PROVE  TypeInv'
  <1> USE DEF TypeInv, TypeOK, Receive, dbVars
  <1>1. req' \in [Calls -> RequestRec] /\ before' \in [Calls -> SUBSET Receipt]
    OBVIOUS
  <1>2. requests' \in 0..MaxRequests /\ r.n \in 1..MaxRequests
    OBVIOUS
  <1>3. pc' \in [Calls -> Statements \cup {"idle", "replied"}]
    OBVIOUS
  <1>4. CallsServeRequests'
    BY <1>2 DEF CallsServeRequests
  <1> QED BY <1>1, <1>2, <1>3, <1>4

LEMMA RequestTyped ==
    ASSUME TypeInv, requests < MaxRequests, NEW op \in Ops, NEW p \in PassportIDs
    PROVE  /\ Request(op, p) \in RequestRec
           /\ Request(op, p).n = requests + 1 /\ Request(op, p).op = op /\ Request(op, p).id = p
           /\ \A caps \in SUBSET Caps :
                 LET r == [Request(op, p) EXCEPT !.caps = caps]
                 IN  r \in RequestRec /\ r.n = requests + 1 /\ r.op = op /\ r.id = p
           /\ \A reason \in Reasons :
                 LET r == [Request(op, p) EXCEPT !.reason = reason]
                 IN  r \in RequestRec /\ r.n = requests + 1 /\ r.op = op /\ r.id = p
           /\ \A status \in Filters :
                 LET r == [Request(op, p) EXCEPT !.filter = status]
                 IN  r \in RequestRec /\ r.n = requests + 1 /\ r.op = op /\ r.id = p
  <1>1. requests + 1 \in 0..MaxRequests
    BY DEF TypeInv, TypeOK
  <1>2. Request(op, p) \in RequestRec
    BY <1>1 DEF Request, RequestRec, Filters
  <1> QED BY <1>1, <1>2 DEF Request, RequestRec

\* A request to log carries the action its client named.
LEMMA LogRequestTyped ==
    ASSUME TypeInv, requests < MaxRequests, NEW p \in PassportIDs, NEW action \in Actions
    PROVE  LET r == [Request("log", p) EXCEPT !.action = action]
           IN  /\ r \in RequestRec /\ r.n = requests + 1 /\ r.op = "log" /\ r.id = p
               /\ r.action = action
  <1>1. Request("log", p) \in RequestRec
    BY RequestTyped DEF Ops
  <1> QED BY <1>1 DEF Request, RequestRec

LEMMA AnswerTyped == \A code \in Codes : Answer(code) \in ReplyRec
  BY DEF Answer, ReplyRec, Codes, None

\* A reply with one or two fields filled in is a reply.
LEMMA ReplyFilled ==
    ASSUME NEW r \in ReplyRec, NEW st \in Statuses
    PROVE  /\ [r EXCEPT !.status = st] \in ReplyRec
           /\ \A b \in BOOLEAN : [r EXCEPT !.status = st, !.signature_valid = b] \in ReplyRec
           /\ \A why \in Reasons \cup {None} :
                 [r EXCEPT !.status = st, !.reason = why] \in ReplyRec
  <1>1. \A x \in ReplyRec : [x EXCEPT !.status = st] \in ReplyRec
    BY DEF ReplyRec
  <1>2. \A x \in ReplyRec, b \in BOOLEAN : [x EXCEPT !.signature_valid = b] \in ReplyRec
    BY DEF ReplyRec
  <1>3. \A x \in ReplyRec, why \in Reasons \cup {None} : [x EXCEPT !.reason = why] \in ReplyRec
    BY DEF ReplyRec
  <1> DEFINE q == [r EXCEPT !.status = st]
  <1>4. \A b : [r EXCEPT !.status = st, !.signature_valid = b] = [q EXCEPT !.signature_valid = b]
    OBVIOUS
  <1>5. \A why : [r EXCEPT !.status = st, !.reason = why] = [q EXCEPT !.reason = why]
    OBVIOUS
  <1> QED BY <1>1, <1>2, <1>3, <1>4, <1>5

\* So is a verdict on a capability.
LEMMA VerdictTyped ==
    ASSUME NEW r \in ReplyRec
    PROVE  /\ [r EXCEPT !.granted = TRUE] \in ReplyRec
           /\ [r EXCEPT !.reason = "passport_revoked"] \in ReplyRec
           /\ [r EXCEPT !.reason = "capability_not_found"] \in ReplyRec
  <1>1. [r EXCEPT !.granted = TRUE] \in ReplyRec
    BY DEF ReplyRec
  <1>2. [r EXCEPT !.reason = "passport_revoked"] \in ReplyRec
    BY DEF ReplyRec
  <1>3. [r EXCEPT !.reason = "capability_not_found"] \in ReplyRec
    BY DEF ReplyRec
  <1> QED BY <1>1, <1>2, <1>3

\* How a request arrives: r is recorded as the request of c, whose next
\* statement is given.
Arrives(c, r, statement) ==
    /\ Receive(c, r)
    /\ pc' = [pc EXCEPT ![c] = statement]
    /\ r.n = requests + 1 /\ r.op \in Ops /\ r.op \in OpsAt(statement)
    /\ statement = "insert_action" => r.action \in Actions
    /\ \/ statement # "replied" /\ reply' = reply
       \/ statement = "replied" /\ reply' = [reply EXCEPT ![c] = Answer(400)]
    /\ \/ /\ statement = "insert_agent"
          /\ r.id \in PassportIDs \ (minted \cup {Stranger})
          /\ minted' = minted \cup {r.id}
       \/ /\ statement \in {"load", "insert_action", "select_actions", "select_agents",
                            "update", "replied"}
          /\ r.id \in Addressable
          /\ minted' = minted

LEMMA ArriveArrives ==
    ASSUME TypeInv, NEW c \in Calls, Arrive(c)
    PROVE  \E r \in RequestRec, statement \in Statements \cup {"replied"} :
              Arrives(c, r, statement)
  <1>0. requests < MaxRequests /\ Addressable \subseteq PassportIDs /\ Stranger \in Addressable
    BY Arrive(c) DEF Arrive, Register, Verify, CheckCapability, LogAction, Malformed,
                     ListActions, ListAgents, Revoke, Receive, Addressable
  <1>9. {"register", "verify", "capability", "log", "actions", "list", "revoke"} \subseteq Ops
    BY DEF Ops
  <1> USE DEF Statements
  <1>1. CASE Register(c)
    <2>1. PICK p \in PassportIDs \ (minted \cup {Stranger}), caps \in SUBSET Caps :
             /\ Receive(c, [Request("register", p) EXCEPT !.caps = caps])
             /\ Proceed(c, "insert_agent")
             /\ minted' = minted \cup {p}
      BY <1>1 DEF Register
    <2> DEFINE r == [Request("register", p) EXCEPT !.caps = caps]
    <2>0. "register" \in Ops /\ p \in PassportIDs /\ caps \in SUBSET Caps
      BY <2>1 DEF Ops
    <2>2. r \in RequestRec /\ r.n = requests + 1 /\ r.op = "register" /\ r.id = p
      BY <1>0, <2>0, RequestTyped
    <2>3. Receive(c, r)
      BY <2>1
    <2> HIDE DEF r
    <2> QED BY <1>0, <2>1, <2>2, <2>3 DEF Arrives, Proceed, OpsAt, Ops
  <1>2. CASE Verify(c)
    <2>1. PICK p \in Addressable : Receive(c, Request("verify", p)) /\ Proceed(c, "load") /\ minted' = minted
      BY <1>2 DEF Verify
    <2> DEFINE r == Request("verify", p)
    <2>2. r \in RequestRec /\ r.n = requests + 1 /\ r.op = "verify" /\ r.id = p
      BY <1>0, <1>9, <2>1, RequestTyped
    <2> HIDE DEF r
    <2> QED BY <1>0, <2>1, <2>2 DEF r, Arrives, Proceed, OpsAt, Ops
  <1>3. CASE CheckCapability(c)
    <2>1. PICK p \in Addressable, cap \in Caps :
             /\ Receive(c, [Request("capability", p) EXCEPT !.caps = {cap}])
             /\ Proceed(c, "load")
             /\ minted' = minted
      BY <1>3 DEF CheckCapability
    <2> DEFINE r == [Request("capability", p) EXCEPT !.caps = {cap}]
    <2>0. "capability" \in Ops /\ p \in PassportIDs /\ {cap} \in SUBSET Caps
      BY <1>0, <1>9, <2>1
    <2>2. r \in RequestRec /\ r.n = requests + 1 /\ r.op = "capability" /\ r.id = p
      BY <1>0, <2>0, RequestTyped
    <2>3. Receive(c, r)
      BY <2>1
    <2> HIDE DEF r
    <2> QED BY <1>0, <2>1, <2>2, <2>3 DEF Arrives, Proceed, OpsAt, Ops
  <1>4. CASE LogAction(c)
    <2>1. PICK p \in Addressable, action \in Actions :
             /\ Receive(c, [Request("log", p) EXCEPT !.action = action])
             /\ Proceed(c, "insert_action")
             /\ minted' = minted
      BY <1>4 DEF LogAction
    <2> DEFINE r == [Request("log", p) EXCEPT !.action = action]
    <2>2. r \in RequestRec /\ r.n = requests + 1 /\ r.op = "log" /\ r.id = p /\ r.action = action
      BY <1>0, <2>1, LogRequestTyped
    <2>3. Receive(c, r)
      BY <2>1
    <2> HIDE DEF r
    <2> QED BY <1>0, <2>1, <2>2, <2>3 DEF Arrives, Proceed, OpsAt, Ops
  <1>5. CASE Malformed(c)
    <2>1. PICK op \in {"register", "log"} :
             Receive(c, Request(op, Stranger)) /\ Respond(c, Answer(400)) /\ minted' = minted
      BY <1>5 DEF Malformed
    <2> DEFINE r == Request(op, Stranger)
    <2>2. r \in RequestRec /\ r.n = requests + 1 /\ r.op \in {"register", "log"} /\ r.id = Stranger
      BY <1>0, <1>9, <2>1, RequestTyped
    <2> HIDE DEF r
    <2> QED BY <1>0, <2>1, <2>2 DEF r, Arrives, Respond, OpsAt, Ops
  <1>6. CASE ListActions(c)
    <2>1. PICK p \in Addressable : Receive(c, Request("actions", p)) /\ Proceed(c, "select_actions") /\ minted' = minted
      BY <1>6 DEF ListActions
    <2> DEFINE r == Request("actions", p)
    <2>2. r \in RequestRec /\ r.n = requests + 1 /\ r.op = "actions" /\ r.id = p
      BY <1>0, <1>9, <2>1, RequestTyped
    <2> HIDE DEF r
    <2> QED BY <1>0, <2>1, <2>2 DEF r, Arrives, Proceed, OpsAt, Ops
  <1>7. CASE ListAgents(c)
    <2> DEFINE p == Stranger
    <2>1. PICK status \in Filters :
             /\ Receive(c, [Request("list", p) EXCEPT !.filter = status])
             /\ Proceed(c, "select_agents")
             /\ minted' = minted
      BY <1>7 DEF ListAgents
    <2> DEFINE r == [Request("list", p) EXCEPT !.filter = status]
    <2>2. r \in RequestRec /\ r.n = requests + 1 /\ r.op = "list" /\ r.id = p
      BY <1>0, <1>9, <2>1, RequestTyped
    <2>3. Receive(c, r)
      BY <2>1
    <2> HIDE DEF r
    <2> QED BY <1>0, <2>1, <2>2, <2>3 DEF Arrives, Proceed, OpsAt, Ops
  <1>8. CASE Revoke(c)
    <2>1. PICK p \in Addressable, reason \in Reasons :
             /\ Receive(c, [Request("revoke", p) EXCEPT !.reason = reason])
             /\ Proceed(c, "update")
             /\ minted' = minted
      BY <1>8 DEF Revoke
    <2> DEFINE r == [Request("revoke", p) EXCEPT !.reason = reason]
    <2>2. r \in RequestRec /\ r.n = requests + 1 /\ r.op = "revoke" /\ r.id = p
      BY <1>0, <1>9, <2>1, RequestTyped
    <2>3. Receive(c, r)
      BY <2>1
    <2> HIDE DEF r
    <2> QED BY <1>0, <2>1, <2>2, <2>3 DEF Arrives, Proceed, OpsAt, Ops
  <1> QED BY <1>1, <1>2, <1>3, <1>4, <1>5, <1>6, <1>7, <1>8, Arrive(c) DEF Arrive

LEMMA ArriveTypeInv ==
    ASSUME TypeInv, NEW c \in Calls, Arrive(c)
    PROVE  TypeInv'
  <1>1. PICK r \in RequestRec, statement \in Statements \cup {"replied"} :
           Arrives(c, r, statement)
    BY ArriveArrives
  <1>2. reply' \in [Calls -> ReplyRec] /\ minted' \subseteq PassportIDs
    BY <1>1, AnswerTyped DEF Arrives, TypeInv, TypeOK, Codes, Addressable
  <1> QED BY <1>1, <1>2, ReceiveRecords DEF Arrives

\* The parts of the type invariant that statements can disturb.
LEMMA RowsTyped ==
    ASSUME TypeInv, NEW c \in Calls, pc[c] # "idle"
    PROVE  /\ IssuedRow(c) \in AgentRow
           /\ \A action \in Actions \cup {"passport_issued", "passport_revoked"} :
                 Append(agent_actions, AuditRow(c, action)) \in Seq(ActionRow)
           /\ NewestActions(req[c].id) \subseteq Nat
           /\ Pages(req[c].filter) \subseteq SUBSET PassportIDs
           /\ \A row \in AgentRow : /\ row.status # "absent" => VerifyAnswer(c, row) \in ReplyRec
                                    /\ CapabilityAnswer(c, row) \in ReplyRec
  <1>1. /\ req[c] \in RequestRec /\ req[c].n \in 1..MaxRequests /\ req[c].op \in Ops
        /\ agent_actions \in Seq(ActionRow)
    BY DEF TypeInv, TypeOK, CallsServeRequests, OpsAt, Ops
  <1>2. IssuedRow(c) \in AgentRow
    BY <1>1 DEF IssuedRow, AgentRow, Statuses, Keys, RequestRec, None
  <1>3. ASSUME NEW action \in Actions \cup {"passport_issued", "passport_revoked"}
        PROVE  Append(agent_actions, AuditRow(c, action)) \in Seq(ActionRow)
    <2>1. AuditRow(c, action) \in ActionRow
      BY <1>1 DEF AuditRow, ActionRow, RequestRec
    <2> QED BY <1>1, <2>1
  <1>4. NewestActions(req[c].id) \subseteq Nat
    BY <1>1 DEF NewestActions, RowsOf
  <1>5. Pages(req[c].filter) \subseteq SUBSET PassportIDs
    BY DEF Pages, Listed
  <1>0. Answer(200) \in ReplyRec /\ None \notin Statuses
    BY AnswerTyped DEF Codes, Statuses, None
  <1>6. ASSUME NEW row \in AgentRow
        PROVE  /\ row.status # "absent" => VerifyAnswer(c, row) \in ReplyRec
               /\ CapabilityAnswer(c, row) \in ReplyRec
    <2>1. ASSUME row.status # "absent"
          PROVE  VerifyAnswer(c, row) \in ReplyRec
      <3> DEFINE a == Answer(200)
                 b == SignatureValid(c, row)
      <3>1. b \in BOOLEAN
        BY DEF SignatureValid
      <3>2. row.status \in Statuses
        BY <2>1 DEF AgentRow
      <3>3. a \in ReplyRec /\ VerifyAnswer(c, row) = [a EXCEPT !.status = row.status, !.signature_valid = b]
        BY <1>0 DEF VerifyAnswer
      <3> HIDE DEF a, b
      <3>4. [a EXCEPT !.status = row.status, !.signature_valid = b] \in ReplyRec
        BY <3>1, <3>2, <3>3, ReplyFilled
      <3> QED BY <3>3, <3>4
    <2>2. CapabilityAnswer(c, row) \in ReplyRec
      BY <1>0, VerdictTyped DEF CapabilityAnswer
    <2> QED BY <2>1, <2>2
  <1> QED BY <1>2, <1>3, <1>4, <1>5, <1>6

\* A handler goes on to its next statement, or writes a reply.
Moves(c) ==
    /\ pc' = [pc EXCEPT ![c] = pc'[c]]
    /\ pc'[c] \in (Statements \ {"insert_agent", "insert_action"}) \cup {"replied"}
    /\ req[c].op \in OpsAt(pc'[c])
    /\ faults' \in 0..MaxFaults
    /\ UNCHANGED <<minted, req, histVars, requests>>

LEMMA HandleMoves ==
    ASSUME TypeInv, NEW c \in Calls, Handle(c)
    PROVE  Moves(c) /\ pc[c] # "idle"
  <1>0. /\ pc[c] # "idle" /\ pc \in [Calls -> Statements \cup {"idle", "replied"}]
        /\ Works \/ Breaks
        /\ UNCHANGED <<minted, req, histVars, requests>>
    BY Handle(c) DEF Handle, RegisterInsert, RegisterAudit, LoadAgent, LogInsert, SelectActions,
                     SelectAgents, RevokeUpdate, RevokeExists, RevokeAudit, TypeInv, TypeOK
  <1>1. faults' \in 0..MaxFaults
    BY <1>0 DEF Works, Breaks, TypeInv, TypeOK
  <1>2. req[c].op \in OpsAt(pc[c]) /\ req[c].op \in Ops
    BY <1>0 DEF TypeInv, TypeOK, CallsServeRequests, OpsAt, Ops
  <1>3. /\ pc' = [pc EXCEPT ![c] = pc'[c]]
        /\ \/ pc'[c] = "replied"
           \/ pc[c] = "insert_agent" /\ pc'[c] = "audit_issued"
           \/ pc[c] = "update" /\ pc'[c] \in {"exists", "audit_revoked"}
           \/ pc[c] = "exists" /\ pc'[c] = "audit_revoked"
    BY <1>0, Handle(c) DEF Handle, RegisterInsert, RegisterAudit, LoadAgent, LogInsert, SelectActions,
                     SelectAgents, RevokeUpdate, RevokeExists, RevokeAudit, Proceed, Respond
  <1> QED BY <1>0, <1>1, <1>2, <1>3 DEF Moves, Statements, OpsAt

LEMMA HandleTypeInv ==
    ASSUME TypeInv, NEW c \in Calls, Handle(c)
    PROVE  TypeInv'
  <1>1. Moves(c) /\ pc[c] # "idle"
    BY HandleMoves
  <1>2. /\ agents \in [PassportIDs -> AgentRow] /\ agent_actions \in Seq(ActionRow)
        /\ reply \in [Calls -> ReplyRec] /\ req[c] \in RequestRec
        /\ req[c].op \in OpsAt(pc[c]) /\ req[c].id \in PassportIDs
    BY <1>1 DEF TypeInv, TypeOK, CallsServeRequests, RequestRec
  <1>3. agents' \in [PassportIDs -> AgentRow]
    <2>1. CASE StoreAgent(c)
      BY <1>1, <1>2, <2>1, RowsTyped DEF StoreAgent
    <2>2. CASE MarkRevoked(c) /\ pc[c] = "update"
      <3>1. agents[req[c].id] \in AgentRow /\ req[c].reason \in Reasons \cup {None}
        BY <1>2 DEF RequestRec
      <3>2. [agents[req[c].id] EXCEPT !.status = "revoked", !.reason = req[c].reason] \in AgentRow
        BY <3>1 DEF AgentRow, Statuses
      <3> QED BY <1>2, <2>2, <3>2 DEF MarkRevoked
    <2>3. CASE UNCHANGED agents
      BY <1>2, <2>3
    <2> QED BY <2>1, <2>2, <2>3, Handle(c)
            DEF Handle, RegisterInsert, RegisterAudit, LoadAgent, LogInsert, SelectActions,
                SelectAgents, RevokeUpdate, RevokeExists, RevokeAudit, dbVars
  <1>7. pc[c] = "insert_action" => req[c].action \in Actions
    BY DEF TypeInv, CallsServeRequests
  <1>4. agent_actions' \in Seq(ActionRow)
    <2>1. \A action \in Actions \cup {"passport_issued", "passport_revoked"} :
             InsertAction(c, action) => agent_actions' \in Seq(ActionRow)
      BY <1>1, RowsTyped DEF InsertAction
    <2>2. LogInsert(c) => req[c].action \in Actions
      BY <1>7 DEF LogInsert
    <2> QED BY <1>2, <2>1, <2>2, Handle(c)
            DEF Handle, RegisterInsert, RegisterAudit, LoadAgent, LogInsert, SelectActions,
                SelectAgents, RevokeUpdate, RevokeExists, RevokeAudit, dbVars
  <1>5. reply' \in [Calls -> ReplyRec]
    <2>0. Answer(200) \in ReplyRec /\ Answer(201) \in ReplyRec /\ Answer(500) \in ReplyRec
      BY AnswerTyped DEF Codes
    <2>1. \A answer \in ReplyRec : Respond(c, answer) => reply' \in [Calls -> ReplyRec]
      BY <1>2 DEF Respond
    <2>2. CASE RegisterInsert(c)
      BY <1>2, <2>1, <2>2, AnswerTyped DEF RegisterInsert, Proceed, Codes
    <2>3. CASE RegisterAudit(c)
      <3>1. [Answer(201) EXCEPT !.status = "active"] \in ReplyRec
        BY <2>0 DEF ReplyRec, Statuses
      <3> QED BY <2>1, <2>3, <3>1 DEF RegisterAudit
    <2>4. CASE LoadAgent(c)
      BY <1>1, <1>2, <2>1, <2>4, AnswerTyped, RowsTyped DEF LoadAgent, Stored, Codes
    <2>5. CASE LogInsert(c)
      BY <2>1, <2>5, AnswerTyped DEF LogInsert, Codes
    <2>6. CASE SelectActions(c)
      <3>1. NewestActions(req[c].id) \in SUBSET Nat
        BY <1>1, RowsTyped
      <3>2. \A S \in SUBSET Nat : [Answer(200) EXCEPT !.actions = S] \in ReplyRec
        BY <2>0 DEF ReplyRec
      <3>3. [Answer(200) EXCEPT !.actions = NewestActions(req[c].id)] \in ReplyRec
        BY <3>1, <3>2
      <3> QED BY <2>0, <2>1, <2>6, <3>3 DEF SelectActions
    <2>7. CASE SelectAgents(c)
      <3>1. Pages(req[c].filter) \subseteq SUBSET PassportIDs
        BY <1>1, RowsTyped
      <3>2. \A S \in SUBSET PassportIDs : [Answer(200) EXCEPT !.agents = S] \in ReplyRec
        BY <2>0 DEF ReplyRec
      <3>3. CASE Respond(c, Answer(500))
        BY <2>0, <2>1, <3>3
      <3>4. CASE \E page \in Pages(req[c].filter) : Respond(c, [Answer(200) EXCEPT !.agents = page])
        <4>1. PICK page \in Pages(req[c].filter) : Respond(c, [Answer(200) EXCEPT !.agents = page])
          BY <3>4
        <4>2. [Answer(200) EXCEPT !.agents = page] \in ReplyRec
          BY <3>1, <3>2
        <4> QED BY <2>1, <4>1, <4>2
      <3> QED BY <2>7, <3>3, <3>4 DEF SelectAgents
    <2>8. CASE RevokeUpdate(c)
      BY <1>2, <2>1, <2>8, AnswerTyped DEF RevokeUpdate, Proceed, Codes
    <2>9. CASE RevokeExists(c)
      BY <1>2, <2>1, <2>9, AnswerTyped DEF RevokeExists, Proceed, Codes
    <2>10. CASE RevokeAudit(c)
      <3>1. \A why \in Reasons \cup {None} :
               [Answer(200) EXCEPT !.status = "revoked", !.reason = why] \in ReplyRec
        BY <2>0, ReplyFilled DEF Statuses
      <3>2. req[c].reason \in Reasons \cup {None}
        BY <1>2 DEF RequestRec
      <3> QED BY <2>1, <2>10, <3>1, <3>2 DEF RevokeAudit
    <2> QED BY <2>2, <2>3, <2>4, <2>5, <2>6, <2>7, <2>8, <2>9, <2>10, Handle(c) DEF Handle
  <1>6. CallsServeRequests'
    BY <1>1 DEF CallsServeRequests, Moves, TypeInv, TypeOK
  <1> QED BY <1>1, <1>3, <1>4, <1>5, <1>6 DEF Moves, TypeInv, TypeOK, histVars

LEMMA EndTypeInv ==
    ASSUME TypeInv, NEW c \in Calls, Deliver(c) \/ LoseReply(c)
    PROVE  TypeInv'
  <1>1. /\ NoRequest \in RequestRec /\ NoReply \in ReplyRec /\ Acknowledgement(c) \subseteq Receipt
        /\ HangUp(c) /\ UNCHANGED <<dbVars, minted, requests, faults>>
        /\ acked' \in {acked, acked \cup Acknowledgement(c)}
    BY DEF Deliver, LoseReply, TypeInv, TypeOK, CallsServeRequests, NoRequest, NoReply, Answer,
           RequestRec, ReplyRec, Receipt, Acknowledgement, Filters, Codes, OpsAt, Ops, None
  <1>2. TypeOK'
    BY <1>1 DEF TypeInv, TypeOK, HangUp, dbVars
  <1>3. CallsServeRequests'
    BY <1>1 DEF TypeInv, TypeOK, CallsServeRequests, HangUp
  <1> QED BY <1>2, <1>3 DEF TypeInv

LEMMA CrashTypeInv ==
    ASSUME TypeInv, NEW s \in Servers, Crash(s)
    PROVE  TypeInv'
  <1>1. NoRequest \in RequestRec /\ NoReply \in ReplyRec
    BY DEF NoRequest, NoReply, Answer, RequestRec, ReplyRec, Filters, Codes, None
  <1>2. TypeOK'
    BY <1>1 DEF TypeInv, TypeOK, Crash, Breaks, dbVars
  <1>3. CallsServeRequests'
    BY DEF TypeInv, TypeOK, CallsServeRequests, Crash
  <1> QED BY <1>2, <1>3 DEF TypeInv

LEMMA StutterTypeInv == ASSUME TypeInv, UNCHANGED vars PROVE TypeInv'
  BY DEF TypeInv, TypeOK, CallsServeRequests, vars

\* Type correctness: in every reachable state of every instance the tables, the
\* calls and the histories have their types.
THEOREM TypeCorrect == Spec => []TypeOK
  <1>1. TypeInv /\ [Next]_vars => TypeInv'
    BY ArriveTypeInv, HandleTypeInv, EndTypeInv, CrashTypeInv, StutterTypeInv DEF Next, Quiescent
  <1>2. TypeInv => TypeOK
    BY DEF TypeInv
  <1> QED BY InitTypeInv, <1>1, <1>2, PTL DEF Spec

-----------------------------------------------------------------------------
(* Safety.  The properties speak of replies and of what clients had been told *)
(* before; the inductive invariant adds what each statement relies on.        *)

\* What the rows owe to a call that is about to run its next statement, or that
\* has answered.
CallInv(c) ==
    LET p == req[c].id IN
    /\ pc[c] = "insert_agent" =>
          /\ p \in minted /\ ~Stored(p)
          /\ \A d \in Calls : pc[d] = "insert_agent" /\ req[d].id = p => d = c
    /\ pc[c] # "idle" /\ req[c].op # "register" => Stored(p) \/ p = Stranger
    /\ pc[c] = "exists" => agents[p].status # "active"
    /\ pc[c] = "audit_issued" => Stored(p)
    /\ pc[c] = "audit_revoked" => agents[p].status = "revoked"
    /\ pc[c] = "replied" /\ reply[c].code \in {200, 201} =>
          /\ req[c].op = "register" => Stored(p)
          /\ req[c].op = "revoke" => agents[p].status = "revoked"
    /\ before[c] \subseteq acked

\* Only minted identifiers are stored, and Stranger is not one of them.
MintedInv == Stranger \notin minted /\ \A p \in PassportIDs : Stored(p) => p \in minted

\* What clients were told of a passport holds of its row.
AckedInv ==
    \A r \in acked : /\ r.op = "register" => Stored(r.id)
                     /\ r.op = "revoke" => agents[r.id].status = "revoked"

\* The lifecycle rows of the audit trail tell the truth, those that a client logged
\* under the same names excepted.
TrueRow(row) ==
    row.by # "log" =>
        /\ row.action = "passport_issued" => Stored(row.passport_id)
        /\ row.action = "passport_revoked" => agents[row.passport_id].status = "revoked"

TrailInv == \A i \in DOMAIN agent_actions : TrueRow(agent_actions[i])

\* The answer of call c agrees with what its client could already know.
AnswerInv(c) ==
    pc[c] = "replied" => \A r \in before[c] :
        /\ r.op = "revoke" =>
             /\ req[c].op \in {"verify", "capability"} /\ req[c].id = r.id =>
                   reply[c].status # "active" /\ ~reply[c].granted
             /\ req[c].op = "list" /\ req[c].filter = "active" => r.id \notin reply[c].agents
        /\ r.op = "register" =>
             /\ req[c].op \in {"verify", "capability", "log"} /\ req[c].id = r.id =>
                   reply[c].code # 404
             /\ req[c].op = "list" /\ req[c].filter = "any" /\ reply[c].code = 200
                   => \/ r.id \in reply[c].agents
                      \/ Cardinality(reply[c].agents) = ListLimit

SafetyInv == /\ TypeInv /\ MintedInv /\ AckedInv /\ TrailInv
             /\ \A c \in Calls : CallInv(c) /\ AnswerInv(c)

LEMMA InitSafetyInv == Init => SafetyInv
  BY InitTypeInv DEF Init, SafetyInv, MintedInv, AckedInv, TrailInv, CallInv, AnswerInv, Stored,
                     NoRow, NoRequest

\* What statements can do to the table of passports.
Rows(c) ==
    LET p == req[c].id IN
    /\ p \in PassportIDs
    /\ \A q \in PassportIDs : q # p => agents'[q] = agents[q]
    /\ \/ UNCHANGED agents
       \/ pc[c] = "insert_agent" /\ ~Stored(p) /\ agents'[p].status = "active"
       \/ pc[c] = "update" /\ agents[p].status = "active" /\ agents'[p].status = "revoked"

LEMMA HandleRows ==
    ASSUME SafetyInv, NEW c \in Calls, Handle(c)
    PROVE  Rows(c)
  <1>1. /\ agents \in [PassportIDs -> AgentRow] /\ req[c].id \in PassportIDs
        /\ CallInv(c)
    BY DEF SafetyInv, TypeInv, TypeOK, RequestRec
  <1>2. CASE UNCHANGED agents
    BY <1>1, <1>2 DEF Rows
  <1>3. CASE pc[c] = "insert_agent" /\ StoreAgent(c)
    BY <1>1, <1>3 DEF Rows, StoreAgent, IssuedRow, CallInv
  <1>4. CASE pc[c] = "update" /\ MarkRevoked(c)
    <2>1. agents[req[c].id] \in AgentRow
      BY <1>1
    <2>2. agents'[req[c].id].status = "revoked"
      BY <1>1, <1>4, <2>1 DEF MarkRevoked, AgentRow
    <2> QED BY <1>1, <1>4, <2>2 DEF Rows, MarkRevoked, Revocable
  <1> QED BY <1>2, <1>3, <1>4, Handle(c)
          DEF Handle, RegisterInsert, RegisterAudit, LoadAgent, LogInsert, SelectActions,
              SelectAgents, RevokeUpdate, RevokeExists, RevokeAudit, dbVars

\* A stored row stays stored and a revoked one stays as it is; nothing makes
\* a stored row active again.
RowsPersist ==
    \A p \in PassportIDs : /\ Stored(p) => Stored(p)'
                           /\ agents[p].status = "revoked" => agents'[p] = agents[p]

LEMMA RowsGivePersistence ==
    ASSUME NEW c \in Calls, Rows(c)
    PROVE  RowsPersist
  BY DEF Rows, RowsPersist, Stored

LEMMA HandleMintedAcked ==
    ASSUME SafetyInv, NEW c \in Calls, Handle(c)
    PROVE  MintedInv' /\ AckedInv'
  <1>1. Rows(c) /\ RowsPersist /\ Moves(c) /\ CallInv(c)
    BY HandleRows, RowsGivePersistence, HandleMoves DEF SafetyInv
  <1>2. minted' = minted /\ acked' = acked
    BY <1>1 DEF Moves, histVars
  <1>3. MintedInv'
    BY <1>1, <1>2 DEF Rows, MintedInv, SafetyInv, CallInv, Stored
  <1>4. \A r \in acked : r.id \in PassportIDs
    BY DEF SafetyInv, TypeInv, TypeOK, Receipt
  <1>5. AckedInv'
    BY <1>1, <1>2, <1>4 DEF AckedInv, SafetyInv, RowsPersist
  <1> QED BY <1>3, <1>5

LEMMA HandleTrail ==
    ASSUME SafetyInv, NEW c \in Calls, Handle(c)
    PROVE  TrailInv'
  <1>1. RowsPersist /\ CallInv(c)
    BY HandleRows, RowsGivePersistence DEF SafetyInv
  <1>2. /\ agent_actions \in Seq(ActionRow) /\ agents' \in [PassportIDs -> AgentRow]
        /\ req[c].id \in PassportIDs
    BY HandleTypeInv DEF SafetyInv, TypeInv, TypeOK, RequestRec
  <1>6. \A i \in DOMAIN agent_actions : agent_actions[i].passport_id \in PassportIDs
    <2>1. \A i \in DOMAIN agent_actions : agent_actions[i] \in ActionRow
      BY <1>2
    <2> QED BY <2>1 DEF ActionRow
  <1>7. \A i \in DOMAIN agent_actions : TrueRow(agent_actions[i])
    BY DEF SafetyInv, TrailInv
  <1>8. \A row : row.passport_id \in PassportIDs /\ TrueRow(row) /\ row.by # "log" =>
                /\ row.action = "passport_issued" => agents'[row.passport_id].status # "absent"
                /\ row.action = "passport_revoked" => agents'[row.passport_id].status = "revoked"
    BY <1>1 DEF TrueRow, RowsPersist, Stored
  <1>3. CASE UNCHANGED agent_actions
    BY <1>3, <1>6, <1>7, <1>8 DEF TrailInv, TrueRow, Stored
  <1>4. ASSUME NEW action, InsertAction(c, action), TrueRow(AuditRow(c, action))
        PROVE  TrailInv'
    <2>1. agent_actions' = Append(agent_actions, AuditRow(c, action))
      BY <1>4 DEF InsertAction
    <2>2. AuditRow(c, action).passport_id \in PassportIDs
      BY <1>2 DEF AuditRow
    <2>3. \A i \in DOMAIN agent_actions' :
             agent_actions'[i].passport_id \in PassportIDs /\ TrueRow(agent_actions'[i])
      <3>1. \A i \in DOMAIN agent_actions' :
               \/ i \in DOMAIN agent_actions /\ agent_actions'[i] = agent_actions[i]
               \/ agent_actions'[i] = AuditRow(c, action)
        BY <1>2, <2>1
      <3> QED BY <1>4, <1>6, <1>7, <2>2, <3>1
    <2> QED BY <1>8, <2>3 DEF TrailInv, TrueRow, Stored
  <1>5. /\ pc[c] = "audit_issued" => Stored(req[c].id)
        /\ pc[c] = "audit_revoked" => agents[req[c].id].status = "revoked"
        /\ pc[c] = "insert_action" => req[c].op = "log"
    BY <1>1 DEF CallInv, SafetyInv, TypeInv, CallsServeRequests, OpsAt
  <1>9. /\ pc[c] = "audit_issued" => TrueRow(AuditRow(c, "passport_issued"))
        /\ pc[c] = "audit_revoked" => TrueRow(AuditRow(c, "passport_revoked"))
        /\ pc[c] = "insert_action" => TrueRow(AuditRow(c, req[c].action))
    BY <1>5 DEF TrueRow, AuditRow
  <1> QED BY <1>3, <1>4, <1>9, Handle(c)
          DEF Handle, RegisterInsert, RegisterAudit, LoadAgent, LogInsert, SelectActions,
              SelectAgents, RevokeUpdate, RevokeExists, RevokeAudit, dbVars

\* The calls that do not move only see rows persist.
LEMMA HandleOtherCalls ==
    ASSUME SafetyInv, NEW c \in Calls, Handle(c), NEW d \in Calls, d # c
    PROVE  CallInv(d)' /\ AnswerInv(d)'
  <1>1. Rows(c) /\ RowsPersist /\ Moves(c) /\ CallInv(c) /\ CallInv(d) /\ AnswerInv(d) /\ MintedInv
    BY HandleRows, RowsGivePersistence, HandleMoves DEF SafetyInv
  <1>2. /\ pc'[d] = pc[d] /\ reply'[d] = reply[d] /\ req' = req /\ before' = before
        /\ acked' = acked /\ minted' = minted
    <2>1. \A statement : Proceed(c, statement) => reply'[d] = reply[d]
      BY DEF Proceed
    <2>2. \A answer : Respond(c, answer) => reply'[d] = reply[d]
      BY DEF Respond, SafetyInv, TypeInv, TypeOK
    <2>3. reply'[d] = reply[d]
      <3>1. CASE RegisterInsert(c) \/ RegisterAudit(c)
        BY <2>1, <2>2, <3>1 DEF RegisterInsert, RegisterAudit
      <3>2. CASE LoadAgent(c) \/ LogInsert(c)
        BY <2>2, <3>2 DEF LoadAgent, LogInsert
      <3>3. CASE SelectActions(c) \/ SelectAgents(c)
        BY <2>2, <3>3 DEF SelectActions, SelectAgents
      <3>4. CASE RevokeUpdate(c) \/ RevokeExists(c) \/ RevokeAudit(c)
        BY <2>1, <2>2, <3>4 DEF RevokeUpdate, RevokeExists, RevokeAudit
      <3> QED BY <3>1, <3>2, <3>3, <3>4, Handle(c) DEF Handle
    <2> QED BY <1>1, <2>3 DEF Moves, histVars, SafetyInv, TypeInv, TypeOK
  <1>3. req[d].id \in PassportIDs
    BY DEF SafetyInv, TypeInv, TypeOK, RequestRec
  <1>4. AnswerInv(d)'
    BY <1>1, <1>2 DEF AnswerInv
  <1>5. \A e \in Calls : pc'[e] = "insert_agent" => pc[e] = "insert_agent"
    BY <1>1 DEF Moves, SafetyInv, TypeInv, TypeOK
  <1>6. CallInv(d)'
    <2> DEFINE p == req[d].id
    <2>1. pc[d] = "insert_agent" => agents'[p].status = "absent"
      <3>1. pc[d] = "insert_agent" /\ pc[c] = "insert_agent" => req[c].id # p
        BY <1>1 DEF CallInv
      <3>2. pc[d] = "insert_agent" => ~Stored(p)
        BY <1>1 DEF CallInv
      <3>3. req[c].id = p /\ pc[c] = "update" => agents[p].status = "active" \/ UNCHANGED agents
        BY <1>1 DEF Rows
      <3> QED BY <1>1, <1>3, <3>1, <3>2, <3>3 DEF Rows, Stored
    <2>2. pc[d] = "exists" => agents'[p].status # "active"
      <3>1. pc[d] = "exists" => req[d].op # "register"
        BY DEF SafetyInv, TypeInv, CallsServeRequests, OpsAt
      <3>2. pc[d] = "exists" => agents[p].status # "active" /\ (Stored(p) \/ p = Stranger)
        BY <1>1, <3>1 DEF CallInv
      <3>3. pc[c] = "insert_agent" => req[c].id # Stranger
        BY <1>1 DEF CallInv, MintedInv
      <3> QED BY <1>1, <1>3, <3>2, <3>3 DEF Rows, Stored
    <2> QED BY <1>1, <1>2, <1>3, <1>5, <2>1, <2>2 DEF CallInv, RowsPersist, Stored
  <1> QED BY <1>4, <1>6

\* What a call in flight may assume of its own row and its own reply.
LEMMA HandleOwnFacts ==
    ASSUME SafetyInv, NEW c \in Calls, Handle(c)
    PROVE  /\ pc \in [Calls -> Statements \cup {"idle", "replied"}]
           /\ reply \in [Calls -> ReplyRec]
           /\ req[c].id \in PassportIDs /\ req[c].op \in OpsAt(pc[c])
           /\ agents \in [PassportIDs -> AgentRow]
           /\ req' = req /\ before' = before /\ acked' = acked /\ pc'[c] # "insert_agent"
           /\ \A r \in before[c] :
                 /\ r.id \in PassportIDs
                 /\ r.op = "register" => Stored(r.id)
                 /\ r.op = "revoke" => agents[r.id].status = "revoked"
  <1>1. Moves(c) /\ pc[c] # "idle" /\ CallInv(c) /\ AckedInv
    BY HandleMoves DEF SafetyInv
  <1>2. /\ pc \in [Calls -> Statements \cup {"idle", "replied"}]
        /\ reply \in [Calls -> ReplyRec]
        /\ req[c].id \in PassportIDs /\ req[c].op \in OpsAt(pc[c])
        /\ agents \in [PassportIDs -> AgentRow]
        /\ \A r \in acked : r.id \in PassportIDs
    BY <1>1 DEF SafetyInv, TypeInv, TypeOK, CallsServeRequests, RequestRec, Receipt
  <1>3. before[c] \subseteq acked
    BY <1>1 DEF CallInv
  <1>4. req' = req /\ before' = before /\ acked' = acked /\ pc'[c] # "insert_agent"
    BY <1>1 DEF Moves, histVars, Statements
  <1> QED BY <1>1, <1>2, <1>3, <1>4 DEF AckedInv

LEMMA HandleOwnCall ==
    ASSUME SafetyInv, NEW c \in Calls, Handle(c)
    PROVE  CallInv(c)'
  <1>1. Rows(c) /\ RowsPersist /\ CallInv(c)
    BY HandleRows, RowsGivePersistence DEF SafetyInv
  <1>2. /\ pc \in [Calls -> Statements \cup {"idle", "replied"}]
        /\ reply \in [Calls -> ReplyRec]
        /\ req[c].id \in PassportIDs /\ req[c].op \in OpsAt(pc[c])
        /\ req' = req /\ before' = before /\ acked' = acked /\ pc'[c] # "insert_agent"
        /\ pc[c] # "idle" /\ agents \in [PassportIDs -> AgentRow]
    BY HandleOwnFacts, HandleMoves DEF SafetyInv
  <1> DEFINE p == req[c].id
  <1>3. before'[c] \subseteq acked'
    BY <1>1, <1>2 DEF CallInv
  <1>4. req[c].op # "register" => agents'[p].status # "absent" \/ p = Stranger
    BY <1>1, <1>2 DEF CallInv, RowsPersist, Stored
  <1>5. /\ pc'[c] = "exists" => agents'[p].status # "active"
        /\ pc'[c] = "audit_issued" => agents'[p].status # "absent"
        /\ pc'[c] = "audit_revoked" => agents'[p].status = "revoked"
        /\ pc'[c] = "replied" /\ reply'[c].code \in {200, 201} =>
              /\ req[c].op = "register" => agents'[p].status # "absent"
              /\ req[c].op = "revoke" => agents'[p].status = "revoked"
    <2> USE DEF Proceed, Respond
    <2>0. Answer(400).code = 400 /\ Answer(404).code = 404 /\ Answer(500).code = 500
      BY DEF Answer
    <2>1. CASE RegisterInsert(c)
      BY <1>2, <2>0, <2>1 DEF RegisterInsert, StoreAgent, IssuedRow, OpsAt
    <2>2. CASE RegisterAudit(c)
      BY <1>1, <1>2, <2>2 DEF RegisterAudit, CallInv, OpsAt, Stored
    <2>3. CASE LoadAgent(c)
      BY <1>2, <2>3 DEF LoadAgent, OpsAt
    <2>4. CASE LogInsert(c)
      BY <1>2, <2>4 DEF LogInsert, OpsAt
    <2>5. CASE SelectActions(c)
      BY <1>2, <2>5 DEF SelectActions, OpsAt
    <2>6. CASE SelectAgents(c)
      BY <1>2, <2>6 DEF SelectAgents, OpsAt
    <2>7. CASE RevokeUpdate(c)
      <3>1. agents[p] \in AgentRow
        BY <1>2
      <3>2. MarkRevoked(c) => agents'[p].status = "revoked"
        BY <1>2, <3>1 DEF MarkRevoked, AgentRow
      <3>3. ~Revocable(p) => agents[p].status # "active"
        BY DEF Revocable
      <3> QED BY <1>2, <2>0, <2>7, <3>2, <3>3 DEF RevokeUpdate, OpsAt
    <2>8. CASE RevokeExists(c)
      <3>1. agents[p] \in AgentRow /\ agents[p].status # "active"
        BY <1>1, <1>2, <2>8 DEF CallInv, RevokeExists
      <3>2. Stored(p) => agents[p].status = "revoked"
        BY <3>1 DEF AgentRow, Statuses, Stored
      <3> QED BY <1>2, <2>0, <2>8, <3>2 DEF RevokeExists, OpsAt, dbVars
    <2>9. CASE RevokeAudit(c)
      BY <1>1, <1>2, <2>9 DEF RevokeAudit, CallInv, OpsAt
    <2> QED BY <2>1, <2>2, <2>3, <2>4, <2>5, <2>6, <2>7, <2>8, <2>9, Handle(c) DEF Handle
  <1> QED BY <1>2, <1>3, <1>4, <1>5 DEF CallInv, Stored

LEMMA HandleOwnAnswer ==
    ASSUME SafetyInv, NEW c \in Calls, Handle(c)
    PROVE  AnswerInv(c)'
  <1>1. /\ pc \in [Calls -> Statements \cup {"idle", "replied"}]
        /\ reply \in [Calls -> ReplyRec]
        /\ req[c].id \in PassportIDs /\ req[c].op \in OpsAt(pc[c])
        /\ req' = req /\ before' = before /\ pc[c] # "idle"
        /\ \A r \in before[c] :
              /\ r.id \in PassportIDs
              /\ r.op = "register" => Stored(r.id)
              /\ r.op = "revoke" => agents[r.id].status = "revoked"
    BY HandleOwnFacts, HandleMoves DEF SafetyInv
  <1> USE DEF Respond
  <1>0. /\ \A code \in Codes : /\ Answer(code).code = code /\ Answer(code).status = None
                               /\ ~Answer(code).granted /\ Answer(code).agents = {}
        /\ None # "active"
    BY DEF Answer, None
  <1>2. CASE pc[c] \notin {"load", "insert_action", "select_agents"}
    <2>1. req[c].op \in {"register", "actions", "revoke"}
      <3>1. pc[c] # "replied"
        BY Handle(c) DEF Handle, RegisterInsert, RegisterAudit, LoadAgent, LogInsert,
                         SelectActions, SelectAgents, RevokeUpdate, RevokeExists, RevokeAudit
      <3> QED BY <1>1, <1>2, <3>1 DEF OpsAt, Statements
    <2> QED BY <1>1, <2>1 DEF AnswerInv
  <1>3. CASE LoadAgent(c)
    <2> DEFINE row == agents[req[c].id]
    <2>1. VerifyAnswer(c, row).status = row.status /\ VerifyAnswer(c, row).granted = FALSE
          /\ VerifyAnswer(c, row).code = 200
      BY DEF VerifyAnswer, Answer
    <2>2. /\ CapabilityAnswer(c, row).status = None /\ CapabilityAnswer(c, row).code = 200
          /\ row.status = "revoked" => ~CapabilityAnswer(c, row).granted
      BY DEF CapabilityAnswer, Answer
    <2>3. ASSUME NEW r \in before[c], r.op = "revoke", req[c].id = r.id
          PROVE  reply'[c].status # "active" /\ ~reply'[c].granted
      BY <1>0, <1>1, <1>3, <2>1, <2>2, <2>3 DEF LoadAgent, Codes
    <2>4. ASSUME NEW r \in before[c], r.op = "register", req[c].id = r.id
          PROVE  reply'[c].code # 404
      BY <1>0, <1>1, <1>3, <2>1, <2>2, <2>4 DEF LoadAgent, Codes
    <2>5. req[c].op # "list"
      BY <1>1, <1>3 DEF LoadAgent, OpsAt
    <2> QED BY <1>1, <2>3, <2>4, <2>5 DEF AnswerInv
  <1>4. CASE LogInsert(c)
    <2>1. ASSUME NEW r \in before[c], r.op = "register", req[c].id = r.id
          PROVE  reply'[c].code # 404
      BY <1>0, <1>1, <1>4, <2>1 DEF LogInsert, Codes
    <2>2. req[c].op = "log"
      BY <1>1, <1>4 DEF LogInsert, OpsAt
    <2> QED BY <1>1, <2>1, <2>2 DEF AnswerInv
  <1>5. CASE SelectAgents(c)
    <2>1. \A page : [Answer(200) EXCEPT !.agents = page].agents = page
      BY DEF Answer
    <2>2. \/ reply'[c].agents \in Pages(req[c].filter)
          \/ reply'[c].agents = {} /\ reply'[c].code = 500
      <3>1. \A answer : Respond(c, answer) => reply'[c] = answer
        BY <1>1
      <3> HIDE DEF Respond
      <3>2. CASE \E page \in Pages(req[c].filter) :
                    Respond(c, [Answer(200) EXCEPT !.agents = page])
        <4>1. PICK page \in Pages(req[c].filter) :
                 Respond(c, [Answer(200) EXCEPT !.agents = page])
          BY <3>2
        <4>2. reply'[c] = [Answer(200) EXCEPT !.agents = page]
          BY <3>1, <4>1
        <4> QED BY <2>1, <4>1, <4>2
      <3>3. CASE Respond(c, Answer(500))
        BY <1>0, <3>1, <3>3 DEF Codes
      <3> QED BY <1>5, <3>2, <3>3 DEF SelectAgents
    <2>3. ASSUME NEW r \in before[c], r.op = "revoke", req[c].filter = "active"
          PROVE  r.id \notin reply'[c].agents
      <3>1. r.id \notin Listed("active")
        BY <1>1, <2>3 DEF Listed
      <3> QED BY <2>2, <2>3, <3>1 DEF Pages
    <2>5. ASSUME NEW r \in before[c], r.op = "register", req[c].filter = "any",
                 reply'[c].code = 200
          PROVE  \/ r.id \in reply'[c].agents
                 \/ Cardinality(reply'[c].agents) = ListLimit
      <3>1. r.id \in Listed("any")
        BY <1>1, <2>5 DEF Listed
      <3> QED BY <2>2, <2>5, <3>1 DEF Pages
    <2>4. req[c].op = "list"
      BY <1>1, <1>5 DEF SelectAgents, OpsAt
    <2> QED BY <1>1, <2>3, <2>4, <2>5 DEF AnswerInv
  <1> QED BY <1>2, <1>3, <1>4, <1>5, Handle(c)
          DEF Handle, RegisterInsert, RegisterAudit, SelectActions, RevokeUpdate, RevokeExists,
              RevokeAudit

LEMMA HandleSafetyInv ==
    ASSUME SafetyInv, NEW c \in Calls, Handle(c)
    PROVE  SafetyInv'
  <1>1. TypeInv'
    BY HandleTypeInv DEF SafetyInv
  <1>2. \A d \in Calls : CallInv(d)' /\ AnswerInv(d)'
    BY HandleOwnCall, HandleOwnAnswer, HandleOtherCalls
  <1> QED BY <1>1, <1>2, HandleMintedAcked, HandleTrail DEF SafetyInv

LEMMA ArriveSafetyInv ==
    ASSUME SafetyInv, NEW c \in Calls, Arrive(c)
    PROVE  SafetyInv'
  <1>1. PICK r \in RequestRec, statement \in Statements \cup {"replied"} :
           Arrives(c, r, statement)
    BY ArriveArrives DEF SafetyInv
  <1>2. /\ TypeInv' /\ pc[c] = "idle"
        /\ pc \in [Calls -> Statements \cup {"idle", "replied"}]
        /\ req \in [Calls -> RequestRec] /\ reply \in [Calls -> ReplyRec]
        /\ before \in [Calls -> SUBSET Receipt] /\ r.id \in PassportIDs
    BY <1>1, ArriveTypeInv DEF SafetyInv, TypeInv, TypeOK, Arrives, Receive, RequestRec
  <1>3. /\ UNCHANGED <<agents, agent_actions, acked>>
        /\ pc'[c] = statement /\ req'[c] = r /\ before'[c] = acked
        /\ \A d \in Calls : d # c => /\ pc'[d] = pc[d] /\ req'[d] = req[d]
                                     /\ reply'[d] = reply[d] /\ before'[d] = before[d]
        /\ minted \subseteq minted'
    BY <1>1, <1>2 DEF Arrives, Receive, dbVars
  <1>4. MintedInv'
    BY <1>1, <1>3 DEF SafetyInv, MintedInv, Stored, Arrives
  <1>5. AckedInv' /\ TrailInv'
    BY <1>3 DEF SafetyInv, AckedInv, TrailInv, TrueRow, Stored
  <1>6. \A d \in Calls \ {c} : pc[d] = "insert_agent" => req[d].id \in minted
    BY DEF SafetyInv, CallInv
  <1>7. ASSUME NEW d \in Calls, d # c
        PROVE  CallInv(d)' /\ AnswerInv(d)'
    <2>1. CallInv(d) /\ AnswerInv(d)
      BY DEF SafetyInv
    <2>2. AnswerInv(d)'
      BY <1>3, <1>7, <2>1 DEF AnswerInv
    <2>3. statement = "insert_agent" => r.id \notin minted
      BY <1>1 DEF Arrives
    <2> QED BY <1>3, <1>6, <1>7, <2>1, <2>2, <2>3 DEF CallInv, Stored
  <1>8. CallInv(c)'
    <2>1. /\ statement = "insert_agent" =>
                r.id \notin minted /\ r.id # Stranger /\ r.id \in minted' /\ r.op = "register"
          /\ statement # "insert_agent" =>
                r.id \in Addressable /\ statement \notin {"exists", "audit_issued", "audit_revoked"}
          /\ statement = "replied" => reply'[c].code = 400
      BY <1>1, <1>2 DEF Arrives, Answer, OpsAt
    <2>2. statement = "insert_agent" => ~Stored(r.id)
      BY <1>2, <2>1 DEF SafetyInv, MintedInv
    <2>3. r.id \in Addressable => Stored(r.id) \/ r.id = Stranger
      BY DEF Addressable
    <2> QED BY <1>2, <1>3, <1>6, <2>1, <2>2, <2>3 DEF CallInv, Stored
  <1>9. AnswerInv(c)'
    <2>1. statement = "replied" =>
             /\ reply'[c].code = 400 /\ reply'[c].status # "active" /\ ~reply'[c].granted
             /\ reply'[c].agents = {}
      BY <1>1, <1>2 DEF Arrives, Answer, None, OpsAt
    <2> QED BY <1>3, <2>1 DEF AnswerInv
  <1> QED BY <1>2, <1>4, <1>5, <1>7, <1>8, <1>9 DEF SafetyInv

\* Calls that end: delivered, unread, or lost with their replica.
Leaves ==
    /\ UNCHANGED <<agents, agent_actions, minted>>
    /\ \A d \in Calls : \/ pc'[d] = "idle" /\ before'[d] = {}
                        \/ /\ pc'[d] = pc[d] /\ req'[d] = req[d]
                           /\ reply'[d] = reply[d] /\ before'[d] = before[d]
    /\ \/ acked' = acked
       \/ \E c \in Calls : pc[c] = "replied" /\ acked' = acked \cup Acknowledgement(c)

LEMMA EndsLeave ==
    ASSUME TypeInv, \/ \E c \in Calls : Deliver(c) \/ LoseReply(c)
                    \/ \E s \in Servers : Crash(s)
                    \/ UNCHANGED vars
    PROVE  Leaves
  <1> USE DEF Leaves, TypeInv, TypeOK
  <1>1. ASSUME NEW c \in Calls, Deliver(c) \/ LoseReply(c)
        PROVE  Leaves
    BY <1>1 DEF Deliver, LoseReply, HangUp, dbVars
  <1>2. ASSUME NEW s \in Servers, Crash(s)
        PROVE  Leaves
    BY <1>2 DEF Crash, dbVars
  <1>3. CASE UNCHANGED vars
    BY <1>3 DEF vars
  <1> QED BY <1>1, <1>2, <1>3

LEMMA LeaveSafetyInv ==
    ASSUME SafetyInv, TypeInv', Leaves
    PROVE  SafetyInv'
  <1>1. MintedInv' /\ TrailInv'
    BY DEF Leaves, SafetyInv, MintedInv, TrailInv, TrueRow, Stored
  <1>2. acked \subseteq acked'
    BY DEF Leaves
  <1>3. \A d \in Calls : CallInv(d)' /\ AnswerInv(d)'
    <2>1. ASSUME NEW d \in Calls
          PROVE  CallInv(d)' /\ AnswerInv(d)'
      <3>1. CallInv(d) /\ AnswerInv(d)
        BY DEF SafetyInv
      <3>2. AnswerInv(d)'
        BY <3>1 DEF Leaves, AnswerInv
      <3>3. \A e \in Calls : pc'[e] = "insert_agent" =>
                                pc[e] = "insert_agent" /\ req'[e] = req[e]
        BY DEF Leaves
      <3>4. CallInv(d)'
        BY <1>2, <3>1, <3>3 DEF Leaves, CallInv, Stored
      <3> QED BY <3>2, <3>4
    <2> QED BY <2>1
  <1>4. AckedInv'
    <2>1. ASSUME NEW c \in Calls, pc[c] = "replied", NEW r \in Acknowledgement(c)
          PROVE  /\ r.op = "register" => Stored(r.id)
                 /\ r.op = "revoke" => agents[r.id].status = "revoked"
      BY <2>1 DEF Acknowledgement, SafetyInv, CallInv
    <2> QED BY <2>1 DEF Leaves, AckedInv, SafetyInv, Stored
  <1> QED BY <1>1, <1>3, <1>4 DEF SafetyInv

LEMMA NextSafetyInv == SafetyInv /\ [Next]_vars => SafetyInv'
  <1> SUFFICES ASSUME SafetyInv, [Next]_vars
               PROVE  SafetyInv'
    OBVIOUS
  <1>1. ASSUME NEW c \in Calls, Arrive(c) \/ Handle(c)
        PROVE  SafetyInv'
    BY <1>1, ArriveSafetyInv, HandleSafetyInv
  <1>2. CASE \/ \E c \in Calls : Deliver(c) \/ LoseReply(c)
             \/ \E s \in Servers : Crash(s)
             \/ UNCHANGED vars
    <2>1. TypeInv /\ Leaves
      BY <1>2, EndsLeave DEF SafetyInv
    <2>2. TypeInv'
      BY <1>2, <2>1, EndTypeInv, CrashTypeInv, StutterTypeInv
    <2> QED BY <2>1, <2>2, LeaveSafetyInv
  <1> QED BY <1>1, <1>2 DEF Next, Quiescent

THEOREM SafetyInvariant == Spec => []SafetyInv
  BY InitSafetyInv, NextSafetyInv, PTL DEF Spec

\* Whatever the statements of concurrent requests do, whatever fails: a request
\* sent after a client learned of a revocation is not answered as if the
\* passport were active.
THEOREM RevokedMeansNoAuthority == Spec => []NoAuthorityAfterRevocation
  <1>1. SafetyInv => NoAuthorityAfterRevocation
    BY DEF SafetyInv, AnswerInv, NoAuthorityAfterRevocation, AnsweredAfter
  <1> QED BY SafetyInvariant, <1>1, PTL

\* A passport a client holds is found by every request sent after that.
THEOREM IssuedMeansFound == Spec => []PassportNeverForgotten
  <1>1. SafetyInv => PassportNeverForgotten
    BY DEF SafetyInv, AnswerInv, PassportNeverForgotten, AnsweredAfter
  <1> QED BY SafetyInvariant, <1>1, PTL

\* No statement of any handler changes the row of a revoked passport.
THEOREM RevocationStands == Spec => RevocationIsFinal
  <1>1. ASSUME SafetyInv, [Next]_vars
        PROVE  [\A p \in PassportIDs :
                   agents[p].status = "revoked" => agents'[p] = agents[p]]_vars
    <2>1. CASE \E c \in Calls : Handle(c)
      BY <1>1, <2>1, HandleRows, RowsGivePersistence DEF RowsPersist
    <2>2. CASE \E c \in Calls : Arrive(c)
      BY <1>1, <2>2, ArriveArrives DEF SafetyInv, Arrives, Receive, dbVars
    <2>3. CASE \E c \in Calls : Deliver(c) \/ LoseReply(c)
      BY <2>3 DEF Deliver, LoseReply, dbVars
    <2>4. CASE \E s \in Servers : Crash(s)
      BY <2>4 DEF Crash, dbVars
    <2>5. CASE UNCHANGED vars
      BY <2>5
    <2> QED BY <1>1, <2>1, <2>2, <2>3, <2>4, <2>5 DEF Next, Quiescent
  <1> QED BY SafetyInvariant, <1>1, PTL DEF Spec, RevocationIsFinal

-----------------------------------------------------------------------------
(* The audit trail.  A page of the trail is full before it leaves a row out,  *)
(* and a logged row stays where it is.                                        *)

NewerIn(S, x) == {j \in S : j > x}

\* A set S of row numbers, and the k newest of them: a row left out is older than
\* every row on the page, and the page has k rows.
LEMMA NewestOf ==
    ASSUME NEW S, IsFiniteSet(S), S \subseteq Nat, NEW k \in Nat \ {0},
           NEW N \in SUBSET S, \A x \in S : x \in N <=> Cardinality(NewerIn(S, x)) < k,
           NEW i \in S, i \notin N
    PROVE  Cardinality(N) = k /\ \A j \in N : i < j
  <1> DEFINE Newer(x) == NewerIn(S, x)
             size     == Cardinality(S)
             rank     == [x \in S |-> Cardinality(Newer(x))]
             Ranks    == 0..(size - 1)
  <1>1. size \in Nat /\ size > 0
    BY FS_CardinalityType, FS_EmptySet
  <1>2. \A x \in S : IsFiniteSet(Newer(x)) /\ Cardinality(Newer(x)) \in Nat
    BY FS_Subset, FS_CardinalityType DEF NewerIn
  <1>3. ASSUME NEW x \in S
        PROVE  Cardinality(Newer(x)) < size
    <2>1. Newer(x) \in SUBSET S /\ x \notin Newer(x)
      BY DEF NewerIn
    <2>2. Cardinality(Newer(x)) <= size /\ Cardinality(Newer(x)) # size
      BY <2>1, FS_Subset
    <2> QED BY <1>1, <1>2, <2>2
  <1>4. ASSUME NEW x \in S, NEW y \in S, x < y
        PROVE  rank[y] < rank[x]
    <2>0. x \in Nat /\ y \in Nat /\ \A j \in S : j \in Nat
      OBVIOUS
    <2>1. \A j \in S : j > y => j > x
      BY <1>4, <2>0
    <2>2. Newer(y) \in SUBSET Newer(x)
      BY <2>1 DEF NewerIn
    <2>3. y \in Newer(x) /\ y \notin Newer(y)
      BY <1>4, <2>0 DEF NewerIn
    <2>4. Cardinality(Newer(y)) <= Cardinality(Newer(x)) /\ Cardinality(Newer(y)) # Cardinality(Newer(x))
      BY <1>2, <2>2, <2>3, FS_Subset
    <2> QED BY <1>2, <2>4
  <1>5. rank \in [S -> Ranks] /\ \A x \in S : rank[x] = Cardinality(Newer(x))
    BY <1>1, <1>2, <1>3
  <1>6. \A x \in N : x \in S /\ rank[x] < k
    BY <1>5
  <1>7. \A x \in S : rank[x] < k => x \in N
    BY <1>5
  <1> HIDE DEF rank
  <1>8. \A x, y \in S : rank[x] = rank[y] => x = y
    <2> SUFFICES ASSUME NEW x \in S, NEW y \in S, rank[x] = rank[y]
                 PROVE  x = y
      OBVIOUS
    <2>1. ~(x < y) /\ ~(y < x)
      BY <1>4, <1>5
    <2> QED BY <2>1
  <1>9. \A v \in Ranks : \E x \in S : rank[x] = v
    <2>0. size - 1 \in Int /\ 0 \in Int /\ size - 1 >= 0 /\ (size - 1) - 0 + 1 = size
      BY <1>1
    <2>1. IsFiniteSet(Ranks) /\ Cardinality(Ranks) = size
      <3> HIDE DEF size
      <3> QED BY <2>0, FS_Interval
    <2>2. rank \in Injection(S, Ranks)
      BY <1>5, <1>8, Fun_IsInj
    <2>3. rank \in Surjection(S, Ranks)
      BY <2>1, <2>2, FS_Injection
    <2> QED BY <2>3, Fun_SurjectionProperties
  <1>10. rank[i] >= k /\ rank[i] < size
    BY <1>1, <1>5, <1>7
  <1>11. Cardinality(N) = k
    <2> DEFINE Top == 0..(k - 1)
               f   == [x \in N |-> rank[x]]
    <2>1. IsFiniteSet(N)
      BY <1>6, FS_Subset
    <2>2. \A x \in N : rank[x] \in Top
      BY <1>1, <1>5, <1>6
    <2>3. \A x, y \in N : rank[x] = rank[y] => x = y
      BY <1>6, <1>8
    <2>4. \A v \in Top : \E x \in N : rank[x] = v
      <3> SUFFICES ASSUME NEW v \in Top PROVE \E x \in N : rank[x] = v
        OBVIOUS
      <3>1. v \in Ranks /\ v < k
        BY <1>1, <1>5, <1>10
      <3> QED BY <1>7, <1>9, <3>1
    <2> HIDE DEF Top
    <2>5. f \in [N -> Top] /\ \A x \in N : f[x] = rank[x]
      BY <2>2
    <2> HIDE DEF f
    <2>6. f \in Bijection(N, Top)
      BY <2>3, <2>4, <2>5, Fun_IsBij
    <2>7. ExistsBijection(N, Top)
      BY <2>6 DEF ExistsBijection
    <2>8. Cardinality(Top) = Cardinality(N)
      BY <2>1, <2>7, FS_Bijection
    <2> QED BY <2>8, FS_Interval DEF Top
  <1>12. ASSUME NEW j \in N
         PROVE  i < j
    <2>1. j \in S /\ rank[j] < rank[i]
      BY <1>1, <1>5, <1>6, <1>10
    <2>2. ~(j < i) /\ j # i
      BY <1>1, <1>4, <1>5, <2>1
    <2> QED BY <2>1, <2>2
  <1> QED BY <1>11, <1>12

\* A row of the trail of p is on the page that SelectActions returns, or the page
\* is full and every row on it is newer.
LEMMA TrailPage ==
    ASSUME agent_actions \in Seq(ActionRow), NEW p, NEW i \in RowsOf(p)
    PROVE  \/ i \in NewestActions(p)
           \/ Cardinality(NewestActions(p)) = Limit /\ \A j \in NewestActions(p) : i < j
  <1> DEFINE S == RowsOf(p)
             N == NewestActions(p)
  <1>1. Len(agent_actions) \in Nat /\ DOMAIN agent_actions = 1..Len(agent_actions)
    OBVIOUS
  <1>2. IsFiniteSet(DOMAIN agent_actions)
    BY <1>1, FS_Interval
  <1>3. S \in SUBSET DOMAIN agent_actions /\ S \subseteq Nat
    BY <1>1 DEF RowsOf
  <1>4. IsFiniteSet(S)
    BY <1>2, <1>3, FS_Subset
  <1>5. N \in SUBSET S /\ \A x \in S : x \in N <=> Cardinality(NewerIn(S, x)) < Limit
    BY DEF NewestActions, NewerIn
  <1>6. i \in S /\ Limit \in Nat \ {0}
    OBVIOUS
  <1> HIDE DEF S, N
  <1>7. i \notin N => Cardinality(N) = Limit /\ \A j \in N : i < j
    BY <1>3, <1>4, <1>5, <1>6, NewestOf
  <1> QED BY <1>7 DEF N

\* The trail has the row that request n wrote about passport p.
LoggedRow(p, n) ==
    \E i \in DOMAIN agent_actions : agent_actions[i].passport_id = p /\ agent_actions[i].n = n

\* A page of the trail has row i, or is full of newer ones.
Shows(page, i) ==
    \/ i \in page
    \/ Cardinality(page) = Limit /\ \A j \in page : i < j

\* What a call that logged or read the trail has answered.
LogInv(c) ==
    pc[c] = "replied" =>
        /\ req[c].op = "log" /\ reply[c].code \in {200, 201} => LoggedRow(req[c].id, req[c].n)
        /\ req[c].op = "actions" /\ reply[c].code = 200 =>
              \A r \in before[c] : r.op = "log" /\ r.id = req[c].id =>
                  \E i \in DOMAIN agent_actions :
                      agent_actions[i].n = r.n /\ Shows(reply[c].actions, i)

\* As long as nothing has failed, a register or a revoke that answered with
\* success has its lifecycle row.
LifecycleInv(c) ==
    /\ pc[c] = "replied" /\ req[c].op \in {"register", "revoke"}
    /\ reply[c].code \in {200, 201} /\ faults = 0
    => HasLifecycleRow(c)

\* Every action whose logging was acknowledged has its row.
AckedLogs == \A r \in acked : r.op = "log" => LoggedRow(r.id, r.n)

AuditInv == SafetyInv /\ AckedLogs /\ \A c \in Calls : LogInv(c) /\ LifecycleInv(c)

\* No step removes or changes a row of the trail, nor forgets a failure.
RowsKept ==
    /\ \A i \in DOMAIN agent_actions :
          i \in DOMAIN agent_actions' /\ agent_actions'[i] = agent_actions[i]
    /\ faults' = 0 => faults = 0

LEMMA NextRowsKept ==
    ASSUME TypeInv, [Next]_vars
    PROVE  RowsKept
  <1>1. agent_actions \in Seq(ActionRow) /\ faults \in Nat
    BY DEF TypeInv, TypeOK
  <1>7. faults' = 0 => faults = 0
    <2>1. Works \/ Breaks => (faults' = 0 => faults = 0)
      BY <1>1 DEF Works, Breaks
    <2>2. \A c \in Calls : Handle(c) => Works \/ Breaks
      BY DEF Handle, RegisterInsert, RegisterAudit, LoadAgent, LogInsert, SelectActions,
             SelectAgents, RevokeUpdate, RevokeExists, RevokeAudit
    <2>3. \A c \in Calls : Arrive(c) => faults' = faults
      BY ArriveArrives DEF Arrives, Receive
    <2>4. \A c \in Calls : Deliver(c) \/ LoseReply(c) => faults' = faults
      BY DEF Deliver, LoseReply
    <2>5. \A s \in Servers : Crash(s) => Breaks
      BY DEF Crash
    <2>6. UNCHANGED vars => faults' = faults
      BY DEF vars
    <2> QED BY <2>1, <2>2, <2>3, <2>4, <2>5, <2>6 DEF Next, Quiescent
  <1>2. \A x : agent_actions' = Append(agent_actions, x) => RowsKept
    BY <1>1, <1>7 DEF RowsKept
  <1>3. CASE UNCHANGED agent_actions
    BY <1>3, <1>7 DEF RowsKept
  <1>4. ASSUME NEW c \in Calls, Handle(c)
        PROVE  RowsKept
    BY <1>2, <1>3, <1>4
       DEF Handle, RegisterInsert, RegisterAudit, LoadAgent, LogInsert, SelectActions,
           SelectAgents, RevokeUpdate, RevokeExists, RevokeAudit, dbVars, InsertAction
  <1>5. ASSUME NEW c \in Calls, Arrive(c)
        PROVE  UNCHANGED agent_actions
    BY <1>5, ArriveArrives DEF Arrives, Receive, dbVars
  <1>6. CASE \/ \E c \in Calls : Deliver(c) \/ LoseReply(c)
             \/ \E s \in Servers : Crash(s)
             \/ UNCHANGED vars
    <2>1. UNCHANGED agent_actions
      <3>1. \A c \in Calls : Deliver(c) \/ LoseReply(c) => UNCHANGED agent_actions
        BY DEF Deliver, LoseReply, dbVars
      <3>2. \A s \in Servers : Crash(s) => UNCHANGED agent_actions
        BY DEF Crash, dbVars
      <3> QED BY <1>6, <3>1, <3>2 DEF vars
    <2> QED BY <1>3, <2>1
  <1> QED BY <1>3, <1>4, <1>5, <1>6 DEF Next, Quiescent

\* Rows that stay keep both promises of a call that does not move.
LEMMA KeptLogs ==
    ASSUME RowsKept
    PROVE  /\ AckedLogs /\ acked' = acked => AckedLogs'
           /\ \A c \in Calls :
                 /\ LogInv(c) /\ LifecycleInv(c)
                 /\ pc'[c] = pc[c] /\ req'[c] = req[c] /\ reply'[c] = reply[c] /\ before'[c] = before[c]
                 => LogInv(c)' /\ LifecycleInv(c)'
  <1>1. AckedLogs /\ acked' = acked => AckedLogs'
    BY DEF RowsKept, AckedLogs, LoggedRow
  <1>2. ASSUME NEW c \in Calls, LogInv(c), LifecycleInv(c),
               pc'[c] = pc[c], req'[c] = req[c], reply'[c] = reply[c], before'[c] = before[c]
        PROVE  LogInv(c)' /\ LifecycleInv(c)'
    <2>1. LogInv(c)'
      BY <1>2 DEF RowsKept, LogInv, LoggedRow, Shows
    <2>2. LifecycleInv(c)'
      BY <1>2 DEF RowsKept, LifecycleInv, HasLifecycleRow
    <2> QED BY <2>1, <2>2
  <1> QED BY <1>1, <1>2

LEMMA HandleLogInv ==
    ASSUME AuditInv, NEW c \in Calls, Handle(c)
    PROVE  LogInv(c)'
  <1>1. /\ pc \in [Calls -> Statements \cup {"idle", "replied"}]
        /\ reply \in [Calls -> ReplyRec]
        /\ req[c].id \in PassportIDs /\ req[c].op \in OpsAt(pc[c])
        /\ req' = req /\ before' = before /\ acked' = acked
        /\ agent_actions \in Seq(ActionRow) /\ before[c] \subseteq acked /\ pc[c] # "replied"
        /\ pc[c] # "idle"
    <2>1. pc[c] # "replied"
      BY Handle(c) DEF Handle, RegisterInsert, RegisterAudit, LoadAgent, LogInsert,
                       SelectActions, SelectAgents, RevokeUpdate, RevokeExists, RevokeAudit
    <2> QED BY <2>1, HandleOwnFacts, HandleMoves DEF AuditInv, SafetyInv, CallInv, TypeInv, TypeOK
  <1>2. CASE pc[c] \notin {"insert_action", "select_actions"}
    <2>1. req[c].op \notin {"log", "actions"}
      BY <1>1, <1>2 DEF OpsAt, Statements
    <2> QED BY <1>1, <2>1 DEF LogInv
  <1>3. CASE LogInsert(c)
    <2>1. req[c].op = "log"
      BY <1>1, <1>3 DEF LogInsert, OpsAt
    <2>2. CASE InsertAction(c, req[c].action)
      <3> DEFINE n == Len(agent_actions) + 1
      <3>1. agent_actions' = Append(agent_actions, AuditRow(c, req[c].action))
        BY <2>2 DEF InsertAction
      <3>2. n \in DOMAIN agent_actions' /\ agent_actions'[n] = AuditRow(c, req[c].action)
        BY <1>1, <3>1
      <3>3. \E i \in DOMAIN agent_actions' :
               agent_actions'[i].passport_id = req[c].id /\ agent_actions'[i].n = req[c].n
        BY <3>2 DEF AuditRow
      <3> QED BY <1>1, <2>1, <3>3 DEF LogInv, LoggedRow
    <2>3. CASE Respond(c, Answer(404)) \/ Respond(c, Answer(500))
      <3>1. reply'[c].code \in {404, 500}
        BY <1>1, <2>3 DEF Respond, Answer
      <3> QED BY <1>1, <2>1, <3>1 DEF LogInv
    <2> QED BY <1>3, <2>2, <2>3 DEF LogInsert
  <1>4. CASE SelectActions(c)
    <2> DEFINE p == req[c].id
    <2>1. req[c].op = "actions" /\ agent_actions' = agent_actions
      BY <1>1, <1>4 DEF SelectActions, OpsAt, dbVars
    <2>2. CASE Respond(c, Answer(500))
      <3>1. reply'[c].code = 500
        BY <1>1, <2>2 DEF Respond, Answer
      <3> QED BY <1>1, <2>1, <3>1 DEF LogInv
    <2>3. CASE Respond(c, [Answer(200) EXCEPT !.actions = NewestActions(p)])
      <3>1. \A S : [Answer(200) EXCEPT !.actions = S].actions = S
        BY DEF Answer
      <3>2. reply'[c] = [Answer(200) EXCEPT !.actions = NewestActions(p)]
        BY <1>1, <2>3 DEF Respond
      <3>3. reply'[c].actions = NewestActions(p)
        BY <3>1, <3>2
      <3>4. ASSUME NEW r \in before[c], r.op = "log", r.id = p
            PROVE  \E i \in DOMAIN agent_actions :
                      agent_actions[i].n = r.n /\ Shows(NewestActions(p), i)
        <4>1. PICK i \in DOMAIN agent_actions :
                 agent_actions[i].passport_id = p /\ agent_actions[i].n = r.n
          BY <1>1, <3>4 DEF AuditInv, AckedLogs, LoggedRow
        <4>2. i \in RowsOf(p)
          BY <4>1 DEF RowsOf
        <4>3. Shows(NewestActions(p), i)
          BY <1>1, <4>2, TrailPage DEF Shows
        <4> QED BY <4>1, <4>3
      <3>5. \A r \in before'[c] : r.op = "log" /\ r.id = req'[c].id =>
               \E i \in DOMAIN agent_actions' :
                   agent_actions'[i].n = r.n /\ Shows(reply'[c].actions, i)
        BY <1>1, <2>1, <3>3, <3>4
      <3> QED BY <1>1, <2>1, <3>5 DEF LogInv, Shows
    <2> QED BY <1>4, <2>2, <2>3 DEF SelectActions
  <1> QED BY <1>2, <1>3, <1>4, Handle(c)
          DEF Handle, RegisterInsert, RegisterAudit, LoadAgent, SelectAgents, RevokeUpdate,
              RevokeExists, RevokeAudit

LEMMA HandleLifecycleInv ==
    ASSUME AuditInv, NEW c \in Calls, Handle(c)
    PROVE  LifecycleInv(c)'
  <1>1. /\ reply \in [Calls -> ReplyRec] /\ pc \in [Calls -> Statements \cup {"idle", "replied"}]
        /\ req[c].op \in OpsAt(pc[c]) /\ req' = req /\ agent_actions \in Seq(ActionRow)
        /\ faults \in Nat
    BY HandleOwnFacts DEF AuditInv, SafetyInv, TypeInv, TypeOK
  <1>2. /\ \A code \in Codes : Answer(code).code = code
        /\ 404 \in Codes /\ 500 \in Codes
        /\ 404 \notin {200, 201} /\ 500 \notin {200, 201}
    BY DEF Answer, Codes
  <1>3. \A code \in {404, 500} : Respond(c, Answer(code)) => reply'[c].code \notin {200, 201}
    BY <1>1, <1>2 DEF Respond
  <1>4. \A action : InsertAction(c, action) =>
           LET n == Len(agent_actions) + 1 IN
           n \in DOMAIN agent_actions' /\ agent_actions'[n] = AuditRow(c, action)
    BY <1>1 DEF InsertAction
  <1>5. CASE pc[c] \notin {"insert_agent", "audit_issued", "update", "exists", "audit_revoked"}
    <2>1. pc[c] # "replied" /\ pc[c] # "idle"
      BY Handle(c) DEF Handle, RegisterInsert, RegisterAudit, LoadAgent, LogInsert,
                       SelectActions, SelectAgents, RevokeUpdate, RevokeExists, RevokeAudit
    <2>2. req[c].op \notin {"register", "revoke"}
      BY <1>1, <1>5, <2>1 DEF OpsAt, Statements
    <2> QED BY <1>1, <2>2 DEF LifecycleInv
  <1>6. CASE RegisterInsert(c) \/ RevokeUpdate(c) \/ RevokeExists(c)
    <2>1. \/ \E statement \in Statements : Proceed(c, statement)
          \/ Respond(c, Answer(404)) \/ Respond(c, Answer(500))
      BY <1>6 DEF RegisterInsert, RevokeUpdate, RevokeExists, Statements
    <2>2. \A statement \in Statements : Proceed(c, statement) => pc'[c] # "replied"
      BY <1>1 DEF Proceed, Statements
    <2> QED BY <1>3, <2>1, <2>2 DEF LifecycleInv
  <1>7. ASSUME NEW action, InsertAction(c, action), req[c].op \in {"register", "revoke"},
               action = IF req[c].op = "register" THEN "passport_issued" ELSE "passport_revoked"
        PROVE  HasLifecycleRow(c)'
    <2> DEFINE n == Len(agent_actions) + 1
    <2>1. n \in DOMAIN agent_actions' /\ agent_actions'[n] = AuditRow(c, action)
      BY <1>4, <1>7
    <2>2. /\ AuditRow(c, action).n = req'[c].n /\ AuditRow(c, action).by = req'[c].op
          /\ AuditRow(c, action).passport_id = req'[c].id /\ AuditRow(c, action).action = action
      BY <1>1 DEF AuditRow
    <2> HIDE DEF n
    <2> QED BY <1>1, <1>7, <2>1, <2>2 DEF HasLifecycleRow
  <1>8. Breaks => faults' # 0
    BY <1>1 DEF Breaks
  <1>9. CASE RegisterAudit(c)
    <2>1. req[c].op = "register"
      BY <1>1, <1>9 DEF RegisterAudit, OpsAt
    <2>2. InsertAction(c, "passport_issued") \/ Breaks
      BY <1>9 DEF RegisterAudit
    <2> QED BY <1>7, <1>8, <2>1, <2>2 DEF LifecycleInv
  <1>10. CASE RevokeAudit(c)
    <2>1. req[c].op = "revoke"
      BY <1>1, <1>10 DEF RevokeAudit, OpsAt
    <2>2. InsertAction(c, "passport_revoked") \/ Breaks
      BY <1>10 DEF RevokeAudit
    <2> QED BY <1>7, <1>8, <2>1, <2>2 DEF LifecycleInv
  <1> QED BY <1>5, <1>6, <1>9, <1>10, Handle(c)
          DEF Handle, LoadAgent, LogInsert, SelectActions, SelectAgents

LEMMA NextAuditInv == AuditInv /\ [Next]_vars => AuditInv'
  <1> SUFFICES ASSUME AuditInv, [Next]_vars
               PROVE  AuditInv'
    OBVIOUS
  <1>1. SafetyInv' /\ RowsKept /\ TypeInv
    BY NextSafetyInv, NextRowsKept DEF AuditInv, SafetyInv
  <1>2. ASSUME NEW c \in Calls, Handle(c)
        PROVE  AckedLogs' /\ \A d \in Calls : LogInv(d)' /\ LifecycleInv(d)'
    <2>1. acked' = acked /\ LogInv(c)' /\ LifecycleInv(c)'
      BY <1>2, HandleOwnFacts, HandleLogInv, HandleLifecycleInv DEF AuditInv
    <2>2. \A d \in Calls \ {c} : pc'[d] = pc[d] /\ req'[d] = req[d] /\ reply'[d] = reply[d]
                                 /\ before'[d] = before[d]
      <3>1. Moves(c)
        BY <1>1, <1>2, HandleMoves
      <3>2. \A statement : Proceed(c, statement) => \A d \in Calls \ {c} : reply'[d] = reply[d]
        BY DEF Proceed
      <3>3. \A answer : Respond(c, answer) => \A d \in Calls \ {c} : reply'[d] = reply[d]
        BY <1>1 DEF Respond, TypeInv, TypeOK
      <3>4. \A d \in Calls \ {c} : reply'[d] = reply[d]
        BY <1>2, <3>2, <3>3
           DEF Handle, RegisterInsert, RegisterAudit, LoadAgent, LogInsert, SelectActions,
               SelectAgents, RevokeUpdate, RevokeExists, RevokeAudit
      <3> QED BY <1>1, <3>1, <3>4 DEF Moves, histVars, TypeInv, TypeOK
    <2> QED BY <1>1, <2>1, <2>2, KeptLogs DEF AuditInv
  <1>3. ASSUME NEW c \in Calls, Arrive(c)
        PROVE  AckedLogs' /\ \A d \in Calls : LogInv(d)' /\ LifecycleInv(d)'
    <2>1. PICK r \in RequestRec, statement \in Statements \cup {"replied"} :
             Arrives(c, r, statement)
      BY <1>1, <1>3, ArriveArrives
    <2>2. /\ acked' = acked /\ pc'[c] = statement
          /\ statement = "replied" => reply'[c].code = 400
          /\ \A d \in Calls \ {c} : pc'[d] = pc[d] /\ req'[d] = req[d] /\ reply'[d] = reply[d]
                                    /\ before'[d] = before[d]
      BY <1>1, <2>1 DEF Arrives, Receive, Answer, TypeInv, TypeOK
    <2>3. LogInv(c)' /\ LifecycleInv(c)'
      BY <2>2 DEF LogInv, LifecycleInv
    <2> QED BY <1>1, <2>2, <2>3, KeptLogs DEF AuditInv
  <1>4. CASE \/ \E c \in Calls : Deliver(c) \/ LoseReply(c)
             \/ \E s \in Servers : Crash(s)
             \/ UNCHANGED vars
    <2>1. Leaves
      BY <1>1, <1>4, EndsLeave
    <2>2. \A d \in Calls : LogInv(d)' /\ LifecycleInv(d)'
      <3>1. ASSUME NEW d \in Calls
            PROVE  LogInv(d)' /\ LifecycleInv(d)'
        <4>1. CASE pc'[d] = "idle"
          BY <4>1 DEF LogInv, LifecycleInv
        <4> QED BY <1>1, <2>1, <4>1, KeptLogs DEF Leaves, AuditInv
      <3> QED BY <3>1
    <2>3. ASSUME NEW c \in Calls, pc[c] = "replied", NEW r \in Acknowledgement(c), r.op = "log"
          PROVE  LoggedRow(r.id, r.n)
      BY <2>3 DEF Acknowledgement, AuditInv, LogInv
    <2>4. \A r \in acked' : r.op = "log" => LoggedRow(r.id, r.n)
      BY <2>1, <2>3 DEF Leaves, AuditInv, AckedLogs
    <2>5. AckedLogs'
      BY <2>1, <2>4 DEF Leaves, AckedLogs, LoggedRow
    <2> QED BY <1>1, <2>2, <2>5 DEF AuditInv
  <1> QED BY <1>1, <1>2, <1>3, <1>4 DEF Next, Quiescent, AuditInv

LEMMA InitAuditInv == Init => AuditInv
  BY InitSafetyInv DEF Init, AuditInv, AckedLogs, LogInv, LifecycleInv

\* An acknowledged action is in every audit trail read afterwards, unless the
\* page is full of newer rows: a lost reply, a crash or a failed statement in
\* between makes no difference.
THEOREM LoggedMeansListed == Spec => []AcknowledgedActionsListed
  <1>1. AuditInv => AcknowledgedActionsListed
    BY DEF AuditInv, LogInv, Shows, AcknowledgedActionsListed
  <1> QED BY InitAuditInv, NextAuditInv, <1>1, PTL DEF Spec

\* What the server says of a passport's life is true, for any names that clients
\* log: its own lifecycle rows, its answers to revoke, and, as long as nothing has
\* failed, the row of every register and revoke that succeeded.
THEOREM ReportsAreTrue == Spec => []LifecycleReportsAreTrue
  <1>1. AuditInv => LifecycleReportsAreTrue
    BY DEF AuditInv, SafetyInv, TrailInv, TrueRow, CallInv, LifecycleInv, LifecycleReportsAreTrue
  <1> QED BY InitAuditInv, NextAuditInv, <1>1, PTL DEF Spec

=============================================================================
