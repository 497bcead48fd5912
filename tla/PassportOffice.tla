--------------------------- MODULE PassportOffice ---------------------------
(***************************************************************************)
(* The organisation-wide registry of the SDK (office.go) over the local    *)
(* passports of LocalPassport.                                             *)
(*                                                                         *)
(* The maps of agents and devices are guarded by a sync.RWMutex.  A lookup *)
(* is one critical section; RegisterAgent and RegisterDevice need the      *)
(* write lock; ActiveAgents, ActiveDevices and AuditReport keep the read   *)
(* lock over all they visit, and take the mutex of each agent's passport,  *)
(* up to three times, while they hold it.  A writer that waits keeps new   *)
(* readers out.  A device passport has no mutex and no method that changes *)
(* it: it says what the server said when the device registered.            *)
(***************************************************************************)
EXTENDS LocalPassport

CONSTANT Devices    \* device identifiers

\* The map of devices is a Go map in memory.
ASSUME DevicesAssumption == IsFiniteSet(Devices)

VARIABLES
    agents,     \* the map: [agent identifiers -> passport, Nobody if absent]
    devices,    \* the map: [Devices -> status in the passport, None if absent]
    office,     \* [Threads -> the office method the goroutine is in]
    report      \* what the last method that visits has returned

officeVars == <<agents, devices, office, report>>
vars == <<passportVars, officeVars>>

OfficeSteps == {"lock", "locked_out", "rlock", "visit", "summary", "audit_log"}

EntryRec == [p: Passports, status: {"active", "expired", "revoked"}, logged: Nat,
             log: Seq(Entry)]
NoEntry  == [p |-> Nobody, status |-> None, logged |-> 0, log |-> << >>]

NoVisit == [step |-> "idle", op |-> None, p |-> Nobody, device |-> None, todo |-> {},
            trusted |-> {}, total |-> 0, total_devices |-> 0, entries |-> {},
            entry |-> NoEntry, since |-> {}]
Nothing == [op |-> None, trusted |-> {}, total |-> 0, active_devices |-> 0,
            total_devices |-> 0, entries |-> {}, since |-> {}]

Registered        == {agents[id] : id \in Passports} \ {Nobody}
RegisteredDevices == {d \in Devices : devices[d] # None}
ActiveDevices     == {d \in Devices : devices[d] = "active"}

OfficeInit ==
    /\ Init
    /\ agents = [id \in Passports |-> Nobody]
    /\ devices = [d \in Devices |-> None]
    /\ office = [t \in Threads |-> NoVisit]
    /\ report = Nothing

AtDesk(t, step) == office[t].step = step
Desk(t, visit)  == office' = [office EXCEPT ![t] = visit]

\* The goroutine takes the next call. Goroutines are alike: the first free one does.
Resting(t) == AtDesk(t, "idle") /\ pc[t] = "idle"
Idle(t)    == Resting(t) /\ t = (CHOOSE u \in Threads : Resting(u)) /\ calls < MaxCalls

-----------------------------------------------------------------------------
(* The RWMutex *)

Readers == {t \in Threads : office[t].step \in {"visit", "summary", "audit_log"}}

\* A writer that has announced itself: RLock waits behind it.
WriterWaits == \E t \in Threads : AtDesk(t, "locked_out")

-----------------------------------------------------------------------------
(* RegisterAgent and RegisterDevice *)

CallRegisterAgent(t) ==
    /\ Idle(t)
    /\ calls' = calls + 1
    /\ \E p \in Live : Desk(t, [NoVisit EXCEPT !.step = "lock", !.op = "register", !.p = p])
    /\ UNCHANGED <<heap, overdue, pc, call, answer, doc, files, told, since, agents, devices, report>>

CallRegisterDevice(t) ==
    /\ Idle(t)
    /\ calls' = calls + 1
    /\ \E d \in Devices, status \in {"pending", "active"} :
          Desk(t, [NoVisit EXCEPT !.step = "lock", !.op = "device",
                                  !.device = [id |-> d, status |-> status]])
    /\ UNCHANGED <<heap, overdue, pc, call, answer, doc, files, told, since, agents, devices, report>>

\* One writer at a time announces itself, and then waits for the readers.
Announce(t) ==
    /\ AtDesk(t, "lock")
    /\ ~WriterWaits
    /\ Desk(t, [office[t] EXCEPT !.step = "locked_out"])
    /\ UNCHANGED <<passportVars, agents, devices, report>>

\* Mutated: the map is keyed by something the copies of a passport do not share.
RegisterAgentByObject(t) ==
    /\ AtDesk(t, "locked_out") /\ office[t].op = "register"
    /\ Readers = {}
    /\ agents' = [agents EXCEPT ![office[t].p] = office[t].p]
    /\ Desk(t, NoVisit)
    /\ UNCHANGED <<passportVars, devices, report>>

RegisterAgent(t) ==
    /\ AtDesk(t, "locked_out") /\ office[t].op = "register"
    /\ Readers = {}
    /\ agents' = [agents EXCEPT ![heap[office[t].p].id] = office[t].p]
    /\ Desk(t, NoVisit)
    /\ UNCHANGED <<passportVars, devices, report>>

RegisterDevice(t) ==
    /\ AtDesk(t, "locked_out") /\ office[t].op = "device"
    /\ Readers = {}
    /\ LET d == office[t].device IN devices' = [devices EXCEPT ![d.id] = d.status]
    /\ Desk(t, NoVisit)
    /\ UNCHANGED <<passportVars, agents, report>>

-----------------------------------------------------------------------------
(* IsTrusted and RevokeAgent: a lookup under the read lock, then the method    *)
(* of the passport found, without it.  A call that has to wait for the lock    *)
(* begins when it gets it.  An identifier that is not in the map is answered   *)
(* at once, and changes nothing.                                               *)

IsTrustedAgent(t) ==
    /\ Idle(t) /\ ~WriterWaits
    /\ \E id \in Passports :
          agents[id] # Nobody /\ Begin(t, Call("trusted", agents[id]), "trusted")
    /\ UNCHANGED officeVars

RevokeAgent(t) ==
    /\ Idle(t) /\ ~WriterWaits
    /\ \E id \in Passports, reason \in Reasons :
          /\ agents[id] # Nobody
          /\ Begin(t, [Call("revoke", agents[id]) EXCEPT !.reason = reason], "revoke")
    /\ UNCHANGED officeVars

-----------------------------------------------------------------------------
(* ActiveAgents, ActiveDevices and AuditReport *)

CallVisit(t, op) ==
    /\ Idle(t)
    /\ calls' = calls + 1
    /\ Desk(t, [NoVisit EXCEPT !.step = "rlock", !.op = op, !.since = told])
    /\ UNCHANGED <<heap, overdue, pc, call, answer, doc, files, told, since, agents, devices, report>>

RLock(t) ==
    /\ AtDesk(t, "rlock")
    /\ ~WriterWaits
    /\ Desk(t, [office[t] EXCEPT
                   !.step = "visit",
                   !.todo = IF office[t].op = "devices" THEN {} ELSE Registered,
                   !.total = Cardinality(Registered),
                   !.total_devices = Cardinality(RegisteredDevices)])
    /\ UNCHANGED <<passportVars, agents, devices, report>>

\* The next passport of the map, in whatever order the range takes it.
VisitTrust(t) ==
    /\ AtDesk(t, "visit")
    /\ \E p \in office[t].todo :
          /\ Check(p)
          /\ Desk(t, [office[t] EXCEPT
                         !.todo = @ \ {p},
                         !.trusted = IF Trusted(p) THEN @ \cup {p} ELSE @,
                         !.p = p,
                         !.step = IF office[t].op = "report" THEN "summary" ELSE "visit"])
    /\ UNCHANGED <<overdue, pc, call, answer, doc, files, told, since, calls, agents, devices, report>>

VisitSummary(t) ==
    /\ AtDesk(t, "summary")
    /\ LET p == office[t].p IN
          Desk(t, [office[t] EXCEPT !.step = "audit_log",
                                    !.entry = [p |-> p, status |-> heap[p].status,
                                               logged |-> Len(heap[p].log), log |-> << >>]])
    /\ UNCHANGED <<passportVars, agents, devices, report>>

VisitAuditLog(t) ==
    /\ AtDesk(t, "audit_log")
    /\ LET v == office[t] IN
          Desk(t, [v EXCEPT !.step = "visit", !.entry = NoEntry,
                            !.entries = @ \cup {[v.entry EXCEPT !.log = heap[v.p].log]}])
    /\ UNCHANGED <<passportVars, agents, devices, report>>

\* Mutated: before it lets go of the lock, the method calls another one that
\* takes it, and tries until it can.
LeaveNested(t) ==
    /\ AtDesk(t, "visit")
    /\ office[t].todo = {}
    /\ office' = IF WriterWaits THEN office ELSE [office EXCEPT ![t] = NoVisit]
    /\ UNCHANGED <<passportVars, agents, devices, report>>

\* The devices are counted last. RUnlock and return.
Leave(t) ==
    /\ AtDesk(t, "visit")
    /\ office[t].todo = {}
    /\ LET v == office[t] IN
          report' = [op |-> v.op, trusted |-> v.trusted, total |-> v.total,
                     active_devices |-> Cardinality(ActiveDevices),
                     total_devices |-> v.total_devices, entries |-> v.entries,
                     since |-> v.since]
    /\ Desk(t, NoVisit)
    /\ UNCHANGED <<passportVars, agents, devices>>

-----------------------------------------------------------------------------
(* A passport can also be used without the office *)

UsePassport(t) ==
    /\ Idle(t)
    /\ (CallIssue(t) \/ CallLogAction(t) \/ CallExport(t))
    /\ UNCHANGED officeVars

StepPassport(t) == (Step(t) \/ Return(t)) /\ UNCHANGED officeVars

OfficeEnter(t) == CallRegisterAgent(t) \/ CallRegisterDevice(t) \/ IsTrustedAgent(t)
                  \/ RevokeAgent(t)
                  \/ (\E op \in {"active", "devices", "report"} : CallVisit(t, op))

OfficeStep(t) == Announce(t) \/ RegisterAgent(t) \/ RegisterDevice(t) \/ RLock(t) \/ VisitTrust(t)
                 \/ VisitSummary(t) \/ VisitAuditLog(t) \/ Leave(t)

OfficeQuiescent ==
    /\ calls = MaxCalls
    /\ \A t \in Threads : Resting(t)
    /\ UNCHANGED vars

OfficeNext == \/ \E t \in Threads : UsePassport(t) \/ OfficeEnter(t)
                                    \/ StepPassport(t) \/ OfficeStep(t)
              \/ (LoadAgentPassport \/ Tick) /\ UNCHANGED officeVars
              \/ OfficeQuiescent

OfficeSpec == OfficeInit /\ [][OfficeNext]_vars

\* Waiting for the RWMutex, to announce a write or to read.
Enqueue(t) == Announce(t) \/ RLock(t)

\* What a goroutine does that waits for no lock but its turn, or for the readers
\* that are in.
Proceed(t) == StepPassport(t) \/ RegisterAgent(t) \/ RegisterDevice(t) \/ VisitTrust(t) \/ VisitSummary(t)
              \/ VisitAuditLog(t) \/ Leave(t)

\* The Go scheduler runs every goroutine that can run, and an RWMutex hands the
\* lock to a waiting writer before new readers, and to waiting readers before the
\* next writer.
OfficeFairSpec ==
    OfficeSpec /\ \A t \in Threads : WF_vars(Proceed(t)) /\ SF_vars(Enqueue(t))

-----------------------------------------------------------------------------
(* Properties *)

\* The variables of the office have their types, those of the passports too; a
\* goroutine is never in the office and in a passport at once.
OfficeTypeOK ==
    /\ TypeOK
    /\ agents \in [Passports -> Live \cup {Nobody}]
    /\ \A id \in Passports : agents[id] # Nobody => heap[agents[id]].id = id
    /\ devices \in [Devices -> {None, "pending", "active"}]
    /\ \A t \in Threads : /\ office[t].step \in OfficeSteps \cup {"idle"}
                          /\ office[t].todo \subseteq Live /\ office[t].trusted \subseteq Live
                          /\ AtDesk(t, "idle") \/ pc[t] = "idle"

\* What the office returns counts nobody in whose revocation had been reported
\* before the call: such a passport is neither in the result of ActiveAgents nor
\* among the active agents of AuditReport, and its entry says revoked.
ReportsKnowRevocations ==
    /\ report.trusted \cap report.since = {}
    /\ \A e \in report.entries : e.p \in report.since => e.status = "revoked"

\* The numbers of a report bound its entries: every agent counted has one entry,
\* each entry that says active was counted as active, and none lists less than it
\* counts, although trust, summary and log are read at different moments. No more
\* devices are active than there are, although they are counted after the agents.
ReportsAddUp ==
    report.op = "report" =>
        /\ Cardinality(report.entries) = report.total
        /\ \A e \in report.entries : e.logged <= Len(e.log)
        /\ {e.p : e \in {x \in report.entries : x.status = "active"}} \subseteq report.trusted
        /\ report.active_devices <= report.total_devices

\* No goroutine waits for ever on the lock, although writers keep readers out and
\* reports hold the lock for long: a goroutine in one of the methods that queue for
\* it (both registrations, both lists of active ones, AuditReport), or in a method
\* of a passport, comes out again. IsTrusted and RevokeAgent wait for the lock as
\* well; in the model they begin when they get it, so their wait is not in this.
OfficeCallsReturn == \A t \in Threads : ~Resting(t) ~> Resting(t)

=============================================================================
