-------------------------- MODULE AgentLedgerProofs --------------------------
(***************************************************************************)
(* Proof that AgentRegistry implements PassportLedger: to its clients the  *)
(* statement-level agents API is a ledger on which every call takes effect *)
(* at one instant.                                                         *)
(***************************************************************************)
EXTENDS AgentRegistryProofs

USE ServerOfAssumption, StrangerAssumption, LimitAssumption, BoundsAssumption

-----------------------------------------------------------------------------
(* The ledger's variables, as functions of the registry's *)

StatusOf == [p \in PassportIDs |-> agents[p].status]
Phase    == [c \in Calls |-> LedgerPhase(c)]
Target   == [c \in Calls |-> [op |-> req[c].op, id |-> req[c].id]]
Outcome  == [c \in Calls |-> LedgerOutcome(c)]

\* The statements at which a call has not taken effect yet.
Undecided == {"insert_agent", "load", "insert_action", "select_actions", "select_agents",
              "update", "exists"}

LEMMA PhaseOfStatement ==
    ASSUME NEW c \in Calls
    PROVE  /\ pc[c] = "idle" => LedgerPhase(c) = "idle" /\ LedgerOutcome(c) = "none"
           /\ pc[c] \in Undecided => LedgerPhase(c) = "pending" /\ LedgerOutcome(c) = "none"
           /\ pc[c] \in {"audit_issued", "audit_revoked"} =>
                 LedgerPhase(c) = "done" /\ LedgerOutcome(c) = "ok"
           /\ pc[c] = "replied" => LedgerPhase(c) = "done"
  BY DEF LedgerPhase, LedgerOutcome, Undecided

\* What a reply says to the ledger.
LEMMA OutcomeOfReply ==
    ASSUME NEW c \in Calls, pc[c] = "replied"
    PROVE  /\ reply[c].code = 404 => LedgerOutcome(c) = "missing"
           /\ reply[c].code \in {400, 500} => LedgerOutcome(c) = "error"
           /\ reply[c].code \in {200, 201} =>
                 /\ req[c].op = "verify" => LedgerOutcome(c) = reply[c].status
                 /\ req[c].op = "capability" =>
                       LedgerOutcome(c) = IF reply[c].granted THEN "granted" ELSE "denied"
                 /\ req[c].op \notin {"verify", "capability"} => LedgerOutcome(c) = "ok"
  BY DEF LedgerPhase, LedgerOutcome, ReplyOutcome

\* The same, after a step.
LEMMA PhaseOfStatementNext ==
    ASSUME NEW c \in Calls
    PROVE  /\ pc'[c] = "idle" => LedgerPhase(c)' = "idle" /\ LedgerOutcome(c)' = "none"
           /\ pc'[c] \in Undecided => LedgerPhase(c)' = "pending" /\ LedgerOutcome(c)' = "none"
           /\ pc'[c] \in {"audit_issued", "audit_revoked"} =>
                 LedgerPhase(c)' = "done" /\ LedgerOutcome(c)' = "ok"
           /\ pc'[c] = "replied" => LedgerPhase(c)' = "done"
  BY DEF LedgerPhase, LedgerOutcome, Undecided

LEMMA OutcomeOfReplyNext ==
    ASSUME NEW c \in Calls, pc'[c] = "replied"
    PROVE  /\ reply'[c].code = 404 => LedgerOutcome(c)' = "missing"
           /\ reply'[c].code \in {400, 500} => LedgerOutcome(c)' = "error"
           /\ reply'[c].code \in {200, 201} =>
                 /\ req'[c].op = "verify" => LedgerOutcome(c)' = reply'[c].status
                 /\ req'[c].op = "capability" =>
                       LedgerOutcome(c)' = IF reply'[c].granted THEN "granted" ELSE "denied"
                 /\ req'[c].op \notin {"verify", "capability"} => LedgerOutcome(c)' = "ok"
  BY DEF LedgerPhase, LedgerOutcome, ReplyOutcome

\* A call that does not move looks the same.
LEMMA SameCallSameView ==
    ASSUME NEW c \in Calls, pc'[c] = pc[c], reply'[c] = reply[c], req'[c] = req[c]
    PROVE  LedgerPhase(c)' = LedgerPhase(c) /\ LedgerOutcome(c)' = LedgerOutcome(c)
  BY DEF LedgerPhase, LedgerOutcome, ReplyOutcome

LEMMA LedgerQuiet ==
    ASSUME UNCHANGED <<StatusOf, Phase, Target, Outcome>>
    PROVE  UNCHANGED Ledger!vars
  BY DEF Ledger!vars, StatusOf, Phase, Target, Outcome

LEMMA LedgerInit == Init => Ledger!Init
  <1> SUFFICES ASSUME Init PROVE Ledger!Init
    OBVIOUS
  <1>1. \A c \in Calls : LedgerPhase(c) = "idle" /\ LedgerOutcome(c) = "none"
    BY PhaseOfStatement DEF Init
  <1> QED BY <1>1 DEF Init, Ledger!Init, NoRow, NoRequest

-----------------------------------------------------------------------------
(* Requests arrive and end *)

LEMMA LedgerInvoke ==
    ASSUME SafetyInv, NEW c \in Calls, Arrive(c)
    PROVE  Ledger!Invoke(c)
  <1>1. PICK r \in RequestRec, statement \in Statements \cup {"replied"} :
           Arrives(c, r, statement)
    BY ArriveArrives DEF SafetyInv
  <1>2. /\ pc[c] = "idle" /\ pc'[c] = statement /\ req'[c] = r /\ agents' = agents
        /\ r.op \in Ops /\ r.id \in PassportIDs
        /\ \A d \in Calls \ {c} : pc'[d] = pc[d] /\ reply'[d] = reply[d] /\ req'[d] = req[d]
        /\ \/ statement \in Undecided
           \/ statement = "replied" /\ reply'[c].code = 400
    BY <1>1 DEF Arrives, Receive, dbVars, SafetyInv, TypeInv, TypeOK, RequestRec, Undecided, Answer
  <1>3. Phase[c] = "idle" /\ Outcome[c] = "none"
    BY <1>2, PhaseOfStatement DEF Phase, Outcome
  <1>4. StatusOf' = StatusOf
    BY <1>2 DEF StatusOf
  <1>5. Target' = [Target EXCEPT ![c] = [op |-> r.op, id |-> r.id]]
    <2>1. req'[c] = r /\ \A d \in Calls \ {c} : req'[d] = req[d]
      BY <1>2
    <2> QED BY <2>1 DEF Target
  <1>6. \A d \in Calls \ {c} : LedgerPhase(d)' = LedgerPhase(d) /\ LedgerOutcome(d)' = LedgerOutcome(d)
    BY <1>2, SameCallSameView
  <1>7. \/ Phase' = [Phase EXCEPT ![c] = "pending"] /\ Outcome' = Outcome
        \/ Phase' = [Phase EXCEPT ![c] = "done"] /\ Outcome' = [Outcome EXCEPT ![c] = "error"]
    <2>1. CASE statement \in Undecided
      <3>1. LedgerPhase(c)' = "pending" /\ LedgerOutcome(c)' = "none"
        BY <1>2, <2>1, PhaseOfStatementNext
      <3> QED BY <1>3, <1>6, <3>1 DEF Phase, Outcome
    <2>2. CASE statement = "replied"
      <3>1. LedgerPhase(c)' = "done" /\ LedgerOutcome(c)' = "error"
        BY <1>2, <2>2, PhaseOfStatementNext, OutcomeOfReplyNext DEF Undecided
      <3> QED BY <1>6, <3>1 DEF Phase, Outcome
    <2> QED BY <1>2, <2>1, <2>2
  <1>8. Ledger!Ops = Ops
    BY DEF Ledger!Ops, Ledger!Outcomes, Ops
  <1>9. \E op \in Ledger!Ops, p \in PassportIDs : Target' = [Target EXCEPT ![c] = [op |-> op, id |-> p]]
    BY <1>2, <1>5, <1>8
  <1> QED BY <1>3, <1>4, <1>7, <1>9 DEF Ledger!Invoke, Phase, Target, Outcome, StatusOf

\* Calls that end: delivered, unread, or lost with their replica.
LEMMA LedgerEnd ==
    ASSUME NEW C \in SUBSET Calls, agents' = agents,
           \A c \in C : pc'[c] = "idle" /\ req'[c] = NoRequest,
           \A c \in Calls \ C : pc'[c] = pc[c] /\ req'[c] = req[c] /\ reply'[c] = reply[c]
    PROVE  Ledger!End(C)
  <1>1. Phase' = [c \in Calls |-> IF c \in C THEN "idle" ELSE Phase[c]]
    BY PhaseOfStatementNext, SameCallSameView DEF Phase
  <1>2. Outcome' = [c \in Calls |-> IF c \in C THEN "none" ELSE Outcome[c]]
    BY PhaseOfStatementNext, SameCallSameView DEF Outcome
  <1>3. Target' = [c \in Calls |-> IF c \in C THEN [op |-> None, id |-> Stranger] ELSE Target[c]]
    BY DEF Target, NoRequest
  <1>4. StatusOf' = StatusOf
    BY DEF StatusOf
  <1> QED BY <1>1, <1>2, <1>3, <1>4 DEF Ledger!End, Phase, Target, Outcome, StatusOf

-----------------------------------------------------------------------------
(* Statements *)

\* What the ledger allows a call to answer, and leaves behind.
LEMMA LedgerTable ==
    /\ Ledger!Outcomes["register"]["absent"] = {"ok"}
    /\ \A s \in {"absent", "active", "revoked"} :
          /\ "ok" \in Ledger!Outcomes["actions"][s] /\ "ok" \in Ledger!Outcomes["list"][s]
          /\ \A op \in {"verify", "capability", "log", "revoke"} :
                Ledger!Outcomes[op]["absent"] = {"missing"}
          /\ s # "absent" => /\ s \in Ledger!Outcomes["verify"][s]
                             /\ "denied" \in Ledger!Outcomes["capability"][s]
                             /\ {"ok"} = Ledger!Outcomes["log"][s]
                             /\ "ok" \in Ledger!Outcomes["revoke"][s]
    /\ "granted" \in Ledger!Outcomes["capability"]["active"]
    /\ "missing" \in Ledger!Outcomes["revoke"]["revoked"]
  BY DEF Ledger!Outcomes

LEMMA LedgerAfter ==
    ASSUME NEW op \in Ops, NEW s \in {"absent", "active", "revoked"}
    PROVE  /\ op = "register" => Ledger!After(op, s) = "active"
           /\ op = "revoke" => Ledger!After(op, s) = IF s = "absent" THEN "absent" ELSE "revoked"
           /\ op \notin {"register", "revoke"} => Ledger!After(op, s) = s
  BY DEF Ledger!After, Ops

\* A statement of call c, seen from the ledger: only c moves.
OnlyMoves(c) ==
    /\ req' = req
    /\ \A d \in Calls \ {c} : pc'[d] = pc[d] /\ reply'[d] = reply[d]

LEMMA OthersLookTheSame ==
    ASSUME NEW c \in Calls, OnlyMoves(c)
    PROVE  /\ Target' = Target
           /\ Phase' = [Phase EXCEPT ![c] = LedgerPhase(c)']
           /\ Outcome' = [Outcome EXCEPT ![c] = LedgerOutcome(c)']
  <1>1. \A d \in Calls \ {c} : LedgerPhase(d)' = LedgerPhase(d) /\ LedgerOutcome(d)' = LedgerOutcome(d)
    BY SameCallSameView DEF OnlyMoves
  <1> QED BY <1>1 DEF OnlyMoves, Target, Phase, Outcome

\* The statement that decides a call: the table changes as the ledger says, and
\* the answer is one the ledger allows, or an error.
LEMMA LedgerTakes ==
    ASSUME SafetyInv, NEW c \in Calls, pc[c] \in Undecided, OnlyMoves(c),
           NEW o \in Ledger!Outcomes[req[c].op][agents[req[c].id].status],
           LedgerPhase(c)' = "done", LedgerOutcome(c)' \in {o, "error"},
           \A p \in PassportIDs : agents'[p].status =
               IF p = req[c].id THEN Ledger!After(req[c].op, agents[p].status) ELSE agents[p].status
    PROVE  Ledger!TakeEffect(c)
  <1> DEFINE op == req[c].op
             p  == req[c].id
             e  == LedgerOutcome(c)'
  <1>1. p \in PassportIDs
    BY DEF SafetyInv, TypeInv, TypeOK, RequestRec
  <1>2. Phase[c] = "pending" /\ Target[c].op = op /\ Target[c].id = p /\ StatusOf[p] = agents[p].status
    BY <1>1, PhaseOfStatement DEF Phase, Target, StatusOf
  <1>3. /\ Target' = Target /\ Phase' = [Phase EXCEPT ![c] = "done"]
        /\ Outcome' = [Outcome EXCEPT ![c] = e]
    BY OthersLookTheSame
  <1>4. StatusOf' = [StatusOf EXCEPT ![p] = Ledger!After(op, agents[p].status)]
    BY <1>1 DEF StatusOf
  <1> HIDE DEF op, p, e
  <1>5. e \in Ledger!Outcomes[op][StatusOf[p]] \cup {"error"} /\ Ledger!Outcomes[op][StatusOf[p]] # {}
    BY <1>2 DEF op, p, e
  <1> QED BY <1>2, <1>3, <1>4, <1>5 DEF Ledger!TakeEffect, Phase, Target, Outcome, StatusOf

LEMMA LedgerFails ==
    ASSUME NEW c \in Calls, pc[c] \in Undecided, OnlyMoves(c), agents' = agents,
           LedgerPhase(c)' = "done", LedgerOutcome(c)' = "error"
    PROVE  Ledger!Fail(c)
  <1>1. Phase[c] = "pending"
    BY PhaseOfStatement DEF Phase
  <1>2. /\ Target' = Target /\ Phase' = [Phase EXCEPT ![c] = "done"]
        /\ Outcome' = [Outcome EXCEPT ![c] = "error"]
    BY OthersLookTheSame
  <1>3. StatusOf' = StatusOf
    BY DEF StatusOf
  <1> QED BY <1>1, <1>2, <1>3 DEF Ledger!Fail, Phase, Target, Outcome, StatusOf

\* A statement before the deciding one, or after it.
LEMMA LedgerStutters ==
    ASSUME NEW c \in Calls, OnlyMoves(c), agents' = agents,
           LedgerPhase(c)' = LedgerPhase(c), LedgerOutcome(c)' = LedgerOutcome(c)
    PROVE  UNCHANGED Ledger!vars
  <1>1. Target' = Target /\ Phase' = Phase /\ Outcome' = Outcome
    BY OthersLookTheSame DEF Phase, Outcome
  <1> QED BY <1>1, LedgerQuiet DEF StatusOf

\* How a statement of c ends: c has replied, or goes on.
Replies(c, answer) == pc'[c] = "replied" /\ reply'[c] = answer
GoesOn(c, statement) == pc'[c] = statement

LEMMA HandleEnds ==
    ASSUME SafetyInv, NEW c \in Calls, Handle(c)
    PROVE  /\ OnlyMoves(c)
           /\ \A answer : Respond(c, answer) => Replies(c, answer)
           /\ \A statement : Proceed(c, statement) => GoesOn(c, statement)
           /\ req[c].id \in PassportIDs /\ req[c].op \in OpsAt(pc[c]) /\ req[c].op \in Ops
           /\ agents[req[c].id] \in AgentRow /\ agents \in [PassportIDs -> AgentRow]
           /\ CallInv(c)
  <1>1. Moves(c) /\ pc[c] # "idle"
    BY HandleMoves DEF SafetyInv
  <1>2. /\ pc \in [Calls -> Statements \cup {"idle", "replied"}] /\ DOMAIN reply = Calls
        /\ req[c].id \in PassportIDs /\ req[c].op \in OpsAt(pc[c])
        /\ agents \in [PassportIDs -> AgentRow] /\ CallInv(c)
    BY <1>1 DEF SafetyInv, TypeInv, TypeOK, CallsServeRequests, RequestRec
  <1>3. \A answer : Respond(c, answer) => Replies(c, answer) /\ OnlyMoves(c)
    BY <1>1, <1>2 DEF Respond, Replies, OnlyMoves, Moves
  <1>4. \A statement : Proceed(c, statement) => GoesOn(c, statement) /\ OnlyMoves(c)
    BY <1>1, <1>2 DEF Proceed, GoesOn, OnlyMoves, Moves
  <1>5. OnlyMoves(c)
    BY <1>3, <1>4, Handle(c)
       DEF Handle, RegisterInsert, RegisterAudit, LoadAgent, LogInsert, SelectActions,
           SelectAgents, RevokeUpdate, RevokeExists, RevokeAudit
  <1>6. req[c].op \in Ops
    BY <1>2 DEF OpsAt, Ops
  <1> QED BY <1>2, <1>3, <1>4, <1>5, <1>6

-----------------------------------------------------------------------------
(* Handlers: every statement takes effect, fails, or is not seen *)

LedgerMove(c) == Ledger!TakeEffect(c) \/ Ledger!Fail(c) \/ UNCHANGED Ledger!vars

StatusBits == {"absent", "active", "revoked"}

\* An error reply of a statement that left the table alone.
LEMMA ErrorFails ==
    ASSUME SafetyInv, NEW c \in Calls, pc[c] \in Undecided, OnlyMoves(c), agents' = agents,
           Replies(c, Answer(500))
    PROVE  LedgerMove(c)
  <1>1. pc'[c] = "replied" /\ reply'[c].code = 500
    BY DEF Replies, Answer
  <1>2. LedgerPhase(c)' = "done" /\ LedgerOutcome(c)' = "error"
    BY <1>1, PhaseOfStatementNext, OutcomeOfReplyNext
  <1> QED BY <1>2, LedgerFails DEF LedgerMove

\* A decision that leaves the table alone.
LEMMA ReadTakes ==
    ASSUME SafetyInv, NEW c \in Calls, Handle(c), pc[c] \in Undecided, OnlyMoves(c),
           agents' = agents, LedgerPhase(c)' = "done",
           LedgerOutcome(c)' \in Ledger!Outcomes[req[c].op][agents[req[c].id].status],
           Ledger!After(req[c].op, agents[req[c].id].status) = agents[req[c].id].status
    PROVE  LedgerMove(c)
  <1> DEFINE o == LedgerOutcome(c)'
  <1>1. o \in Ledger!Outcomes[req[c].op][agents[req[c].id].status]
    OBVIOUS
  <1>2. \A p \in PassportIDs : agents'[p].status =
            IF p = req[c].id THEN Ledger!After(req[c].op, agents[p].status) ELSE agents[p].status
    OBVIOUS
  <1>3. LedgerOutcome(c)' \in {o, "error"}
    OBVIOUS
  <1> HIDE DEF o
  <1> QED BY <1>1, <1>2, <1>3, LedgerTakes DEF LedgerMove

LEMMA RegisterInsertMoves ==
    ASSUME SafetyInv, NEW c \in Calls, RegisterInsert(c)
    PROVE  LedgerMove(c)
  <1>0. pc[c] = "insert_agent" /\ Handle(c) /\ pc[c] \in Undecided
    BY DEF RegisterInsert, Handle, Undecided
  <1>1. /\ OnlyMoves(c) /\ req[c].id \in PassportIDs /\ req[c].op = "register"
        /\ DOMAIN agents = PassportIDs /\ agents[req[c].id].status = "absent"
        /\ "register" \in Ops
    BY <1>0, HandleEnds DEF OpsAt, CallInv, Stored
  <1>2. CASE StoreAgent(c) /\ (Proceed(c, "audit_issued") \/ Respond(c, Answer(500)))
    <2>1. \A p \in PassportIDs : agents'[p].status =
             IF p = req[c].id THEN Ledger!After(req[c].op, agents[p].status) ELSE agents[p].status
      <3>1. Ledger!After("register", "absent") = "active"
        BY <1>1, LedgerAfter
      <3> QED BY <1>1, <1>2, <3>1 DEF StoreAgent, IssuedRow
    <2>2. "ok" \in Ledger!Outcomes[req[c].op][agents[req[c].id].status]
      BY <1>1, LedgerTable
    <2>3. \/ pc'[c] = "audit_issued"
          \/ pc'[c] = "replied" /\ reply'[c].code = 500
      BY <1>0, <1>2, HandleEnds DEF GoesOn, Replies, Answer
    <2>4. LedgerPhase(c)' = "done" /\ LedgerOutcome(c)' \in {"ok", "error"}
      BY <2>3, PhaseOfStatementNext, OutcomeOfReplyNext
    <2> QED BY <1>0, <1>1, <2>1, <2>2, <2>4, LedgerTakes DEF LedgerMove
  <1>3. CASE UNCHANGED agents /\ Respond(c, Answer(500))
    BY <1>0, <1>1, <1>3, HandleEnds, ErrorFails
  <1> QED BY <1>2, <1>3 DEF RegisterInsert

\* The audit statement of a decided call, then its reply.
LEMMA AuditMoves ==
    ASSUME SafetyInv, NEW c \in Calls, RegisterAudit(c) \/ RevokeAudit(c)
    PROVE  LedgerMove(c)
  <1>0. /\ pc[c] \in {"audit_issued", "audit_revoked"} /\ Handle(c) /\ agents' = agents
        /\ req[c].op \in {"register", "revoke"} /\ OnlyMoves(c)
    BY HandleEnds DEF RegisterAudit, RevokeAudit, Handle, OpsAt
  <1>1. pc'[c] = "replied" /\ reply'[c].code \in {200, 201}
    <2>1. CASE RegisterAudit(c)
      <3>1. Replies(c, [Answer(201) EXCEPT !.status = "active"])
        BY <1>0, <2>1, HandleEnds DEF RegisterAudit
      <3> QED BY <3>1 DEF Replies, Answer
    <2>2. CASE RevokeAudit(c)
      <3>1. Replies(c, [Answer(200) EXCEPT !.status = "revoked", !.reason = req[c].reason])
        BY <1>0, <2>2, HandleEnds DEF RevokeAudit
      <3> QED BY <3>1 DEF Replies, Answer
    <2> QED BY <2>1, <2>2
  <1>2. req'[c].op \notin {"verify", "capability"}
    BY <1>0 DEF OnlyMoves
  <1>3. LedgerPhase(c)' = "done" /\ LedgerOutcome(c)' = "ok"
    BY <1>1, <1>2, PhaseOfStatementNext, OutcomeOfReplyNext
  <1>4. LedgerPhase(c) = "done" /\ LedgerOutcome(c) = "ok"
    BY <1>0, PhaseOfStatement
  <1> QED BY <1>0, <1>3, <1>4, LedgerStutters DEF LedgerMove

\* The status of a row, and the ledger's rules for a call that reads it.
LEMMA StatusOfRow ==
    ASSUME SafetyInv, NEW c \in Calls, Handle(c)
    PROVE  /\ agents[req[c].id].status \in StatusBits
           /\ req[c].op \notin {"register", "revoke"} =>
                 Ledger!After(req[c].op, agents[req[c].id].status) = agents[req[c].id].status
  <1>1. agents[req[c].id] \in AgentRow /\ req[c].op \in Ops
    BY HandleEnds
  <1>2. agents[req[c].id].status \in StatusBits
    BY <1>1 DEF AgentRow, Statuses, StatusBits
  <1> QED BY <1>1, <1>2, LedgerAfter DEF StatusBits

LEMMA LoadAgentMoves ==
    ASSUME SafetyInv, NEW c \in Calls, LoadAgent(c)
    PROVE  LedgerMove(c)
  <1> DEFINE row == agents[req[c].id]
             s   == agents[req[c].id].status
  <1>0. /\ pc[c] \in Undecided /\ Handle(c) /\ agents' = agents /\ OnlyMoves(c)
        /\ req[c].op \in {"verify", "capability"} /\ s \in StatusBits
        /\ Ledger!After(req[c].op, s) = s /\ req'[c].op = req[c].op
    <2>1. pc[c] = "load" /\ Handle(c) /\ agents' = agents
      BY DEF LoadAgent, Handle, dbVars
    <2>2. OnlyMoves(c) /\ req[c].op \in {"verify", "capability"}
      BY <2>1, HandleEnds DEF OpsAt
    <2> QED BY <2>1, <2>2, StatusOfRow DEF Undecided, OnlyMoves
  <1>1. ASSUME NEW a, Replies(c, a), a.code \in {200, 404},
               a.code = 404 => s = "absent",
               a.code = 200 /\ req[c].op = "verify" => a.status = s /\ s # "absent",
               a.code = 200 /\ req[c].op = "capability" =>
                   /\ s # "absent" /\ a.granted \in BOOLEAN
                   /\ a.granted => s = "active"
        PROVE  LedgerMove(c)
    <2>1. pc'[c] = "replied" /\ reply'[c] = a
      BY <1>1 DEF Replies
    <2>2. LedgerPhase(c)' = "done"
      BY <2>1, PhaseOfStatementNext
    <2>3. LedgerOutcome(c)' \in Ledger!Outcomes[req[c].op][s]
      <3>1. CASE a.code = 404
        BY <1>0, <1>1, <2>1, <3>1, OutcomeOfReplyNext, LedgerTable DEF StatusBits
      <3>2. CASE a.code = 200 /\ req[c].op = "verify"
        <4>1. LedgerOutcome(c)' = s
          BY <1>0, <1>1, <2>1, <3>2, OutcomeOfReplyNext
        <4> HIDE DEF s
        <4> QED BY <1>0, <1>1, <3>2, <4>1, LedgerTable DEF StatusBits
      <3>3. CASE a.code = 200 /\ req[c].op = "capability"
        <4>1. LedgerOutcome(c)' = IF a.granted THEN "granted" ELSE "denied"
          BY <1>0, <1>1, <2>1, <3>3, OutcomeOfReplyNext
        <4>2. a.granted => LedgerOutcome(c)' = "granted" /\ s = "active"
          BY <1>1, <3>3, <4>1
        <4>3. ~a.granted => LedgerOutcome(c)' = "denied" /\ s # "absent"
          BY <1>1, <3>3, <4>1
        <4> HIDE DEF s
        <4> QED BY <1>0, <3>3, <4>2, <4>3, LedgerTable DEF StatusBits
      <3> QED BY <1>0, <1>1, <3>1, <3>2, <3>3
    <2> QED BY <1>0, <2>2, <2>3, ReadTakes
  <1>2. CASE ~Stored(req[c].id) /\ Respond(c, Answer(404))
    <2>1. Answer(404).code = 404
      BY DEF Answer
    <2>2. Replies(c, Answer(404)) /\ s = "absent"
      BY <1>0, <1>2, HandleEnds DEF Stored
    <2> HIDE DEF s
    <2> QED BY <1>1, <2>1, <2>2
  <1>3. CASE Stored(req[c].id) /\ req[c].op = "verify" /\ Respond(c, VerifyAnswer(c, row))
    <2> DEFINE a == VerifyAnswer(c, row)
    <2>1. a.code = 200 /\ a.status = s
      BY DEF VerifyAnswer, Answer
    <2>2. Replies(c, a) /\ s # "absent"
      BY <1>0, <1>3, HandleEnds DEF Stored
    <2> HIDE DEF s, a
    <2> QED BY <1>1, <1>3, <2>1, <2>2
  <1>4. CASE Stored(req[c].id) /\ req[c].op = "capability" /\ Respond(c, CapabilityAnswer(c, row))
    <2> DEFINE a == CapabilityAnswer(c, row)
    <2>1. a.code = 200 /\ a.granted \in BOOLEAN /\ (a.granted => row.status # "revoked")
      BY DEF CapabilityAnswer, Answer
    <2>2. Replies(c, a) /\ s # "absent" /\ (a.granted => s = "active")
      BY <1>0, <1>4, <2>1, HandleEnds DEF Stored, StatusBits
    <2> HIDE DEF s, a
    <2> QED BY <1>1, <1>4, <2>1, <2>2
  <1>5. CASE Respond(c, Answer(500))
    BY <1>0, <1>5, HandleEnds, ErrorFails
  <1> QED BY <1>2, <1>3, <1>4, <1>5 DEF LoadAgent

LEMMA LogInsertMoves ==
    ASSUME SafetyInv, NEW c \in Calls, LogInsert(c)
    PROVE  LedgerMove(c)
  <1> DEFINE s == agents[req[c].id].status
  <1>0. /\ pc[c] \in Undecided /\ Handle(c) /\ agents' = agents /\ OnlyMoves(c)
        /\ req[c].op = "log" /\ s \in StatusBits
        /\ Ledger!After(req[c].op, s) = s /\ req'[c].op = req[c].op
    <2>1. pc[c] = "insert_action" /\ Handle(c) /\ agents' = agents
      BY DEF LogInsert, Handle
    <2>2. OnlyMoves(c) /\ req[c].op = "log"
      BY <2>1, HandleEnds DEF OpsAt
    <2> QED BY <2>1, <2>2, StatusOfRow DEF Undecided, OnlyMoves
  <1>1. CASE Stored(req[c].id) /\ Respond(c, Answer(201))
    <2>1. pc'[c] = "replied" /\ reply'[c].code = 201 /\ s # "absent"
      BY <1>0, <1>1, HandleEnds DEF Replies, Answer, Stored
    <2>2. LedgerPhase(c)' = "done" /\ LedgerOutcome(c)' = "ok"
      BY <1>0, <2>1, PhaseOfStatementNext, OutcomeOfReplyNext
    <2>3. LedgerOutcome(c)' \in Ledger!Outcomes[req[c].op][s]
      BY <1>0, <2>1, <2>2, LedgerTable DEF StatusBits
    <2> QED BY <1>0, <2>2, <2>3, ReadTakes
  <1>2. CASE ~Stored(req[c].id) /\ Respond(c, Answer(404))
    <2>1. pc'[c] = "replied" /\ reply'[c].code = 404 /\ s = "absent"
      BY <1>0, <1>2, HandleEnds DEF Replies, Answer, Stored
    <2>2. LedgerPhase(c)' = "done" /\ LedgerOutcome(c)' = "missing"
      BY <1>0, <2>1, PhaseOfStatementNext, OutcomeOfReplyNext
    <2>3. LedgerOutcome(c)' \in Ledger!Outcomes[req[c].op][s]
      BY <1>0, <2>1, <2>2, LedgerTable DEF StatusBits
    <2> QED BY <1>0, <2>2, <2>3, ReadTakes
  <1>3. CASE Respond(c, Answer(500))
    BY <1>0, <1>3, HandleEnds, ErrorFails
  <1> QED BY <1>1, <1>2, <1>3 DEF LogInsert

LEMMA SelectMoves ==
    ASSUME SafetyInv, NEW c \in Calls, SelectActions(c) \/ SelectAgents(c)
    PROVE  LedgerMove(c)
  <1> DEFINE s == agents[req[c].id].status
  <1>0. /\ pc[c] \in Undecided /\ Handle(c) /\ agents' = agents /\ OnlyMoves(c)
        /\ req[c].op \in {"actions", "list"} /\ s \in StatusBits
        /\ Ledger!After(req[c].op, s) = s /\ req'[c].op = req[c].op
    <2>1. pc[c] \in {"select_actions", "select_agents"} /\ Handle(c) /\ agents' = agents
      BY DEF SelectActions, SelectAgents, Handle, dbVars
    <2>2. OnlyMoves(c) /\ req[c].op \in {"actions", "list"}
      BY <2>1, HandleEnds DEF OpsAt
    <2> QED BY <2>1, <2>2, StatusOfRow DEF Undecided, OnlyMoves
  <1>1. \/ pc'[c] = "replied" /\ reply'[c].code = 200
        \/ Replies(c, Answer(500))
    <2>1. CASE SelectActions(c)
      <3>1. \/ Replies(c, [Answer(200) EXCEPT !.actions = NewestActions(req[c].id)])
            \/ Replies(c, Answer(500))
        BY <1>0, <2>1, HandleEnds DEF SelectActions
      <3> QED BY <3>1 DEF Replies, Answer
    <2>2. CASE SelectAgents(c)
      <3>1. CASE Respond(c, Answer(500))
        BY <1>0, <3>1, HandleEnds
      <3>2. ASSUME NEW page, Respond(c, [Answer(200) EXCEPT !.agents = page])
            PROVE  pc'[c] = "replied" /\ reply'[c].code = 200
        <4>1. Replies(c, [Answer(200) EXCEPT !.agents = page])
          BY <1>0, <3>2, HandleEnds
        <4> QED BY <4>1 DEF Replies, Answer
      <3> QED BY <2>2, <3>1, <3>2 DEF SelectAgents
    <2> QED BY <2>1, <2>2
  <1>2. CASE pc'[c] = "replied" /\ reply'[c].code = 200
    <2>2. LedgerPhase(c)' = "done" /\ LedgerOutcome(c)' = "ok"
      BY <1>0, <1>2, PhaseOfStatementNext, OutcomeOfReplyNext
    <2>3. LedgerOutcome(c)' \in Ledger!Outcomes[req[c].op][s]
      BY <1>0, <2>2, LedgerTable DEF StatusBits
    <2> QED BY <1>0, <2>2, <2>3, ReadTakes
  <1>3. CASE Replies(c, Answer(500))
    BY <1>0, <1>3, ErrorFails
  <1> QED BY <1>1, <1>2, <1>3

LEMMA RevokeUpdateMoves ==
    ASSUME SafetyInv, NEW c \in Calls, RevokeUpdate(c)
    PROVE  LedgerMove(c)
  <1>0. /\ pc[c] = "update" /\ pc[c] \in Undecided /\ Handle(c) /\ OnlyMoves(c)
        /\ req[c].op = "revoke" /\ req[c].id \in PassportIDs /\ req'[c].op = req[c].op
        /\ agents \in [PassportIDs -> AgentRow] /\ "revoke" \in Ops
    <2>1. pc[c] = "update" /\ Handle(c)
      BY DEF RevokeUpdate, Handle
    <2>2. OnlyMoves(c) /\ req[c].op = "revoke"
      BY <2>1, HandleEnds DEF OpsAt
    <2> QED BY <2>1, <2>2, HandleEnds DEF Undecided, OnlyMoves, Ops
  <1>1. CASE MarkRevoked(c) /\ (Proceed(c, "audit_revoked") \/ Respond(c, Answer(500)))
    <2> DEFINE p == req[c].id
    <2>1. agents[p].status = "active" /\ agents[p] \in AgentRow
      BY <1>0, <1>1 DEF MarkRevoked, Revocable
    <2>2. agents' = [agents EXCEPT ![p] = [@ EXCEPT !.status = "revoked", !.reason = req[c].reason]]
      BY <1>1 DEF MarkRevoked
    <2>3. agents'[p].status = "revoked" /\ \A q \in PassportIDs : q # p => agents'[q] = agents[q]
      BY <1>0, <2>1, <2>2 DEF AgentRow
    <2>4. Ledger!After("revoke", "active") = "revoked"
      BY <1>0, LedgerAfter
    <2>5. \A q \in PassportIDs : agents'[q].status =
             IF q = req[c].id THEN Ledger!After(req[c].op, agents[q].status) ELSE agents[q].status
      BY <1>0, <2>1, <2>3, <2>4
    <2>6. "ok" \in Ledger!Outcomes[req[c].op][agents[req[c].id].status]
      BY <1>0, <2>1, LedgerTable
    <2>7. \/ pc'[c] = "audit_revoked"
          \/ pc'[c] = "replied" /\ reply'[c].code = 500
      BY <1>0, <1>1, HandleEnds DEF GoesOn, Replies, Answer
    <2>8. LedgerPhase(c)' = "done" /\ LedgerOutcome(c)' \in {"ok", "error"}
      BY <2>7, PhaseOfStatementNext, OutcomeOfReplyNext
    <2> QED BY <1>0, <2>5, <2>6, <2>8, LedgerTakes DEF LedgerMove
  <1>2. CASE UNCHANGED agents /\ Proceed(c, "exists")
    <2>1. pc'[c] \in Undecided
      BY <1>0, <1>2, HandleEnds DEF GoesOn, Undecided
    <2> QED BY <1>0, <1>2, <2>1, PhaseOfStatement, PhaseOfStatementNext, LedgerStutters
            DEF LedgerMove
  <1>3. CASE UNCHANGED agents /\ Respond(c, Answer(500))
    BY <1>0, <1>3, HandleEnds, ErrorFails
  <1> QED BY <1>1, <1>2, <1>3 DEF RevokeUpdate

\* The second look at the row of a passport that was not active: still stored
\* means revoked by somebody else, and a look that fails says "missing".
LEMMA RevokeExistsMoves ==
    ASSUME SafetyInv, NEW c \in Calls, RevokeExists(c)
    PROVE  LedgerMove(c)
  <1> DEFINE s == agents[req[c].id].status
  <1>0. /\ pc[c] \in Undecided /\ Handle(c) /\ agents' = agents /\ OnlyMoves(c)
        /\ req[c].op = "revoke" /\ s \in {"absent", "revoked"} /\ "revoke" \in Ops
        /\ req'[c].op = req[c].op
    <2>1. pc[c] = "exists" /\ Handle(c) /\ agents' = agents
      BY DEF RevokeExists, Handle, dbVars
    <2>2. OnlyMoves(c) /\ req[c].op = "revoke" /\ s # "active"
      BY <2>1, HandleEnds DEF OpsAt, CallInv
    <2> QED BY <2>1, <2>2, StatusOfRow DEF Undecided, OnlyMoves, StatusBits, Ops
  <1>1. Ledger!After(req[c].op, s) = s
    BY <1>0, LedgerAfter
  <1>2. \/ pc'[c] = "audit_revoked" /\ s = "revoked"
        \/ pc'[c] = "replied" /\ reply'[c].code = 404
    BY <1>0, HandleEnds DEF RevokeExists, GoesOn, Replies, Answer, Stored
  <1>3. /\ LedgerPhase(c)' = "done"
        /\ LedgerOutcome(c)' = "missing" \/ (LedgerOutcome(c)' = "ok" /\ s = "revoked")
    BY <1>2, PhaseOfStatementNext, OutcomeOfReplyNext
  <1>4. LedgerOutcome(c)' \in Ledger!Outcomes[req[c].op][s]
    BY <1>0, <1>3, LedgerTable
  <1> QED BY <1>0, <1>1, <1>3, <1>4, ReadTakes

-----------------------------------------------------------------------------
(* Every step of the registry is a step of the ledger, or one it does not see *)

LEMMA LedgerNext == SafetyInv /\ [Next]_vars => [Ledger!Next]_(Ledger!vars)
  <1> SUFFICES ASSUME SafetyInv, [Next]_vars
               PROVE  [Ledger!Next]_(Ledger!vars)
    OBVIOUS
  <1>1. ASSUME NEW c \in Calls, Arrive(c)
        PROVE  Ledger!Next
    BY <1>1, LedgerInvoke DEF Ledger!Next
  <1>2. ASSUME NEW c \in Calls, Handle(c)
        PROVE  [Ledger!Next]_(Ledger!vars)
    <2>1. LedgerMove(c)
      BY <1>2, RegisterInsertMoves, AuditMoves, LoadAgentMoves, LogInsertMoves, SelectMoves,
         RevokeUpdateMoves, RevokeExistsMoves DEF Handle
    <2> QED BY <2>1 DEF LedgerMove, Ledger!Next
  <1>3. ASSUME NEW c \in Calls, Deliver(c) \/ LoseReply(c)
        PROVE  Ledger!Next
    <2>1. HangUp(c) /\ agents' = agents
      BY <1>3 DEF Deliver, LoseReply, dbVars
    <2>2. /\ \A d \in {c} : pc'[d] = "idle" /\ req'[d] = NoRequest
          /\ \A d \in Calls \ {c} : pc'[d] = pc[d] /\ req'[d] = req[d] /\ reply'[d] = reply[d]
      BY <2>1 DEF HangUp, SafetyInv, TypeInv, TypeOK
    <2>3. Ledger!End({c})
      BY <2>1, <2>2, LedgerEnd
    <2> QED BY <2>3 DEF Ledger!Next
  <1>4. ASSUME NEW s \in Servers, Crash(s)
        PROVE  Ledger!Next
    <2> DEFINE lost == {c \in Calls : ServerOf[c] = s}
    <2>1. agents' = agents
      BY <1>4 DEF Crash, dbVars
    <2>2. /\ \A d \in lost : pc'[d] = "idle" /\ req'[d] = NoRequest
          /\ \A d \in Calls \ lost : pc'[d] = pc[d] /\ req'[d] = req[d] /\ reply'[d] = reply[d]
      BY <1>4 DEF Crash
    <2>3. lost \in SUBSET Calls
      OBVIOUS
    <2> HIDE DEF lost
    <2>4. Ledger!End(lost)
      BY <2>1, <2>2, <2>3, LedgerEnd
    <2> QED BY <2>3, <2>4 DEF Ledger!Next
  <1>5. CASE UNCHANGED vars
    <2>1. UNCHANGED <<StatusOf, Phase, Target, Outcome>>
      <3>1. \A c \in Calls : LedgerPhase(c)' = LedgerPhase(c) /\ LedgerOutcome(c)' = LedgerOutcome(c)
        BY <1>5, SameCallSameView DEF vars
      <3> QED BY <1>5, <3>1 DEF vars, StatusOf, Phase, Target, Outcome
    <2> QED BY <2>1, LedgerQuiet
  <1> QED BY <1>1, <1>2, <1>3, <1>4, <1>5 DEF Next, Quiescent

\* To its clients the agents API is the atomic ledger: whatever the statements of
\* concurrent handlers do between each other, whatever fails, every answered call
\* took effect at one instant between its request and its reply.
THEOREM RegistryImplementsLedger == Spec => ImplementsLedger
  BY LedgerInit, LedgerNext, SafetyInvariant, PTL DEF Spec, ImplementsLedger, Ledger!Spec

=============================================================================
