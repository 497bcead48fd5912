------------------------- MODULE PassportOfficeProofs -------------------------
(***************************************************************************)
(* Proofs about PassportOffice, for any number of goroutines, passports,   *)
(* devices and calls: what a report of the office says about passports     *)
(* that go on changing while it is put together.                           *)
(***************************************************************************)
EXTENDS PassportOffice, LocalPassportProofs

USE NobodyAssumption, MaxCallsAssumption, ReasonsAssumption

-----------------------------------------------------------------------------
(* The invariant *)

DeviceRec == [id: Devices, status: {"pending", "active"}]

Visits == [step: OfficeSteps \cup {"idle"},
           op: {None, "register", "device", "active", "devices", "report"},
           p: Passports \cup {Nobody}, device: {None} \cup DeviceRec,
           todo: SUBSET Passports, trusted: SUBSET Passports, total: Nat, total_devices: Nat,
           entries: SUBSET EntryRec, entry: EntryRec \cup {NoEntry}, since: SUBSET Passports]

\* Holding the read lock.
Reading(t) == office[t].step \in {"visit", "summary", "audit_log"}

\* An entry that may stand in the report of visit v.
Honest(e, v) ==
    /\ e.logged <= Len(e.log)
    /\ e.status = "active" => e.p \in v.trusted
    /\ e.p \in v.since => e.status = "revoked"

\* The passport whose entry is being made is not done and not left to do; if it
\* was not counted as trusted, then because the check has left it inactive.
InHand(v) ==
    /\ v.op = "report" /\ v.p \in Live /\ v.p \notin v.todo
    /\ \A e \in v.entries : e.p # v.p
    /\ v.p \notin v.trusted => heap[v.p].status # "active"

\* Its summary has been taken, and its log can only have grown since.
Summed(v) ==
    /\ v.entry \in EntryRec /\ v.entry.p = v.p
    /\ v.entry.logged <= Len(heap[v.p].log)
    /\ v.entry.status = "active" => v.p \in v.trusted
    /\ v.p \in v.since => v.entry.status = "revoked"

\* Done, in hand and to do make the total.
Counted(v) ==
    /\ IsFiniteSet(v.entries)
    /\ \A e \in v.entries : e.p \notin v.todo
    /\ Cardinality(v.entries) + Cardinality(v.todo) + (IF v.step = "visit" THEN 0 ELSE 1) = v.total

VisitOK(t) ==
    LET v == office[t] IN
    /\ v.step # "idle" => pc[t] = "idle"
    /\ v.step \in {"lock", "locked_out"} => /\ v.op = "register" => v.p \in Live
                                            /\ v.op = "device" => v.device \in DeviceRec
    /\ v.todo \subseteq Live /\ v.trusted \subseteq Live /\ v.since \subseteq told
    /\ \A p \in v.trusted : p \notin v.since
    /\ \A e \in v.entries : Honest(e, v)
    /\ ~Reading(t) => v.entries = {} /\ v.trusted = {} /\ v.todo = {}
    /\ Reading(t) => v.total_devices = Cardinality(RegisteredDevices)
    /\ v.step \in {"summary", "audit_log"} => InHand(v)
    /\ v.step = "audit_log" => Summed(v)
    /\ v.op = "report" /\ Reading(t) => Counted(v)

MapsInv ==
    /\ agents \in [Passports -> Live \cup {Nobody}]
    /\ \A id \in Passports : agents[id] # Nobody => heap[agents[id]].id = id
    /\ devices \in [Devices -> {None, "pending", "active"}]

OfficeInv == /\ PassportInv /\ MapsInv /\ office \in [Threads -> Visits]
             /\ ReportsKnowRevocations /\ ReportsAddUp
             /\ \A t \in Threads : VisitOK(t)

LEMMA InitOfficeInv == OfficeInit => OfficeInv
  <1> SUFFICES ASSUME OfficeInit PROVE OfficeInv
    OBVIOUS
  <1>1. PassportInv
    BY InitPassportInv DEF OfficeInit
  <1>2. MapsInv
    BY DEF OfficeInit, MapsInv
  <1>3. NoVisit \in Visits
    BY DEF NoVisit, Visits, OfficeSteps
  <1>4. ReportsKnowRevocations /\ ReportsAddUp
    BY DEF OfficeInit, Nothing, ReportsKnowRevocations, ReportsAddUp, None
  <1>5. ASSUME NEW t \in Threads
        PROVE  VisitOK(t)
    BY DEF OfficeInit, NoVisit, VisitOK, Reading
  <1> QED BY <1>1, <1>2, <1>3, <1>4, <1>5 DEF OfficeInv, OfficeInit

\* The lengths that entries are compared with.
LEMMA LogsTyped ==
    ASSUME HeapType, NEW p \in Live
    PROVE  heap[p] \in Fields /\ p \in Passports /\ Len(heap[p].log) \in Nat
  <1>1. heap[p] \in Fields /\ p \in Passports
    BY LiveFields
  <1> QED BY <1>1 DEF Fields

LEMMA StaysInactive ==
    ASSUME HeapType, Grows, NEW p \in Live, heap[p].status # "active"
    PROVE  heap'[p].status # "active"
  <1>1. heap[p].status \in {"expired", "revoked"}
    BY LogsTyped DEF Fields
  <1> QED BY <1>1 DEF Grows

\* A visit that does not move stays honest while the passports go on.
LEMMA VisitKeeps ==
    ASSUME OfficeInv, Grows, told \subseteq told', NEW t \in Threads, office'[t] = office[t],
           office[t].step # "idle" => pc'[t] = "idle",
           Reading(t) => RegisteredDevices' = RegisteredDevices
    PROVE  VisitOK(t)'
  <1> DEFINE v == office[t]
  <1>1. VisitOK(t) /\ HeapType /\ v \in Visits
    BY DEF OfficeInv, PassportInv
  <1>2. \A p \in Live : p \in Live'
    BY DEF Grows
  <1>3. v.step \in {"summary", "audit_log"} => InHand(v)'
    BY <1>1, <1>2, StaysInactive DEF VisitOK, InHand
  <1>4. v.step = "audit_log" => Summed(v)'
    <2>1. SUFFICES ASSUME v.step = "audit_log" PROVE Summed(v)'
      OBVIOUS
    <2>2. v.p \in Live /\ Summed(v)
      BY <1>1, <2>1 DEF VisitOK, InHand
    <2>3. Len(heap[v.p].log) \in Nat /\ v.entry.logged \in Nat
      BY <1>1, <2>2, LogsTyped DEF Summed, EntryRec
    <2>4. v.entry.logged <= Len(heap'[v.p].log)
      BY <2>2, <2>3 DEF Summed, Grows, Longer
    <2> QED BY <2>2, <2>4 DEF Summed
  <1>5. /\ v.step \in {"lock", "locked_out"} => /\ v.op = "register" => v.p \in Live'
                                                /\ v.op = "device" => v.device \in DeviceRec
        /\ v.todo \subseteq Live' /\ v.trusted \subseteq Live' /\ v.since \subseteq told'
    BY <1>1, <1>2 DEF VisitOK
  <1> HIDE DEF v
  <1>6. /\ \A p \in v.trusted : p \notin v.since
        /\ \A e \in v.entries : Honest(e, v)
        /\ ~Reading(t) => v.entries = {} /\ v.trusted = {} /\ v.todo = {}
        /\ Reading(t) => v.total_devices = Cardinality(RegisteredDevices)
        /\ v.op = "report" /\ Reading(t) => Counted(v)
    BY <1>1 DEF VisitOK, v
  <1>7. office'[t] = v /\ Reading(t)' = Reading(t) /\ (v.step # "idle" => pc'[t] = "idle")
    BY DEF v, Reading
  <1>8. /\ \A p \in office'[t].trusted : p \notin office'[t].since
        /\ \A e \in office'[t].entries : Honest(e, office'[t])
        /\ ~Reading(t)' => office'[t].entries = {} /\ office'[t].trusted = {} /\ office'[t].todo = {}
        /\ Reading(t)' => office'[t].total_devices = Cardinality(RegisteredDevices')
        /\ office'[t].op = "report" /\ Reading(t)' => Counted(office'[t])
    BY <1>6, <1>7
  <1> QED BY <1>3, <1>4, <1>5, <1>7, <1>8 DEF VisitOK, v

\* Passports move, the office does not.
LEMMA OutsideInv ==
    ASSUME OfficeInv, PassportInv', Grows, told \subseteq told', UNCHANGED officeVars,
           \A t \in Threads : office[t].step # "idle" => pc'[t] = "idle"
    PROVE  OfficeInv'
  <1>1. UNCHANGED <<agents, devices, office, report>>
    BY DEF officeVars
  <1>2. MapsInv'
    BY <1>1 DEF OfficeInv, MapsInv, Grows
  <1>3. (ReportsKnowRevocations /\ ReportsAddUp)'
    BY <1>1 DEF OfficeInv, ReportsKnowRevocations, ReportsAddUp
  <1>4. RegisteredDevices' = RegisteredDevices
    BY <1>1 DEF RegisteredDevices
  <1>5. \A t \in Threads : VisitOK(t)'
    BY <1>1, <1>4, VisitKeeps
  <1> QED BY <1>1, <1>2, <1>3, <1>5 DEF OfficeInv

\* A goroutine moves in the office.
LEMMA DeskInv ==
    ASSUME OfficeInv, PassportInv', Grows, UNCHANGED <<pc, told>>, NEW t \in Threads,
           NEW v \in Visits, Desk(t, v), VisitOK(t)', MapsInv',
           (ReportsKnowRevocations /\ ReportsAddUp)',
           \A u \in Threads \ {t} : Reading(u) => RegisteredDevices' = RegisteredDevices
    PROVE  OfficeInv'
  <1>1. office' \in [Threads -> Visits] /\ \A u \in Threads \ {t} : office'[u] = office[u]
    BY DEF Desk, OfficeInv
  <1>2. \A u \in Threads \ {t} : office[u].step # "idle" => pc'[u] = "idle"
    BY DEF OfficeInv, VisitOK
  <1>3. \A u \in Threads \ {t} : VisitOK(u)'
    BY <1>1, <1>2, VisitKeeps
  <1> QED BY <1>1, <1>3 DEF OfficeInv

-----------------------------------------------------------------------------
(* Passports used beside the office *)

\* A call of a passport begins, goes on and ends with the goroutine outside the
\* office, and moves no other goroutine.
LEMMA EnterFrame ==
    ASSUME NEW t \in Threads, PassportInv, Enter(t)
    PROVE  /\ pc[t] = "idle" /\ told' = told
           /\ \A u \in Threads \ {t} : pc'[u] = pc[u]
  <1>1. PICK c, step : Begin(t, c, step)
    BY DEF Enter, CallLogAction, CallIsTrusted, CallIssue, CallVerifyAction, CallRequirePassport,
           CallRevoke, CallExport
  <1> QED BY <1>1 DEF Begin, PassportInv, ShapeOK

LEMMA StepFrame ==
    ASSUME NEW t \in Threads, PassportInv, Step(t) \/ Return(t)
    PROVE  /\ pc[t] # "idle" /\ told \subseteq told'
           /\ \A u \in Threads \ {t} : pc'[u] = pc[u]
  <1>1. CASE Section(t)
    <2>1. SectionEnds(t) /\ pc[t] \in Steps
      BY <1>1, SectionShape
    <2> QED BY <2>1, Ends DEF SectionEnds, SameCall, Steps
  <1>2. CASE Export(t)
    BY <1>2 DEF Export, Answer, Then, PassportInv, ShapeOK
  <1>3. CASE Return(t)
    BY <1>3 DEF Return, PassportInv, ShapeOK
  <1> QED BY <1>1, <1>2, <1>3 DEF Step, Section

LEMMA OutsideEnter ==
    ASSUME OfficeInv, NEW t \in Threads, AtDesk(t, "idle"), Enter(t), UNCHANGED officeVars
    PROVE  OfficeInv'
  <1>1. PassportInv' /\ Grows
    BY EnterInv, SameHeapGrows DEF OfficeInv
  <1>2. \A u \in Threads : office[u].step # "idle" => pc'[u] = "idle"
    BY EnterFrame DEF OfficeInv, VisitOK, AtDesk
  <1> QED BY <1>1, <1>2, EnterFrame, OutsideInv DEF OfficeInv

LEMMA OutsideStep ==
    ASSUME OfficeInv, NEW t \in Threads, StepPassport(t)
    PROVE  OfficeInv'
  <1>1. PassportInv' /\ Grows
    BY StepInv, ReturnInv, SameHeapGrows DEF OfficeInv, StepPassport
  <1>2. \A u \in Threads : office[u].step # "idle" => pc'[u] = "idle"
    BY StepFrame DEF OfficeInv, VisitOK, StepPassport
  <1> QED BY <1>1, <1>2, StepFrame, OutsideInv DEF OfficeInv, StepPassport

LEMMA OutsideAlone ==
    ASSUME OfficeInv, LoadAgentPassport \/ Tick \/ UNCHANGED passportVars, UNCHANGED officeVars
    PROVE  OfficeInv'
  <1>1. PassportInv' /\ Grows
    BY LoadInv, TickInv, StutterInv DEF OfficeInv
  <1>2. UNCHANGED <<pc, told>>
    BY DEF LoadAgentPassport, Tick, passportVars
  <1>3. \A u \in Threads : office[u].step # "idle" => pc'[u] = "idle"
    BY <1>2 DEF OfficeInv, VisitOK
  <1> QED BY <1>1, <1>2, <1>3, OutsideInv

LEMMA OutsideCalls ==
    ASSUME OfficeInv, NEW t \in Threads, UsePassport(t) \/ IsTrustedAgent(t) \/ RevokeAgent(t)
    PROVE  OfficeInv'
  <1>1. AtDesk(t, "idle") /\ UNCHANGED officeVars
    BY DEF UsePassport, IsTrustedAgent, RevokeAgent, Idle, Resting
  <1>2. Enter(t)
    <2>1. \A id \in Passports : agents[id] # Nobody => agents[id] \in Live
      BY DEF OfficeInv, MapsInv
    <2>2. CASE UsePassport(t)
      BY <2>2 DEF UsePassport, Enter
    <2>3. CASE IsTrustedAgent(t)
      BY <2>1, <2>3 DEF IsTrustedAgent, CallIsTrusted, Enter
    <2>4. CASE RevokeAgent(t)
      BY <2>1, <2>4 DEF RevokeAgent, CallRevoke, Enter
    <2> QED BY <2>2, <2>3, <2>4
  <1> QED BY <1>1, <1>2, OutsideEnter

-----------------------------------------------------------------------------
(* Steps in the office that leave the passports and the maps alone *)

LEMMA DeskOnly ==
    ASSUME OfficeInv, UNCHANGED <<heap, overdue, pc, call, answer, doc, files, told, since>>,
           calls' \in 0..MaxCalls, UNCHANGED <<agents, devices, report>>,
           NEW t \in Threads, NEW v \in Visits, Desk(t, v), VisitOK(t)'
    PROVE  OfficeInv'
  <1>1. PassportInv' /\ Grows
    <2>1. HeapStep /\ Live' = Live /\ overdue' \subseteq Passports
      BY DEF HeapStep, Live, OfficeInv, PassportInv, ShapeOK
    <2> QED BY <2>1, Aside DEF OfficeInv
  <1>2. MapsInv' /\ (ReportsKnowRevocations /\ ReportsAddUp)'
    BY <1>1 DEF OfficeInv, MapsInv, Grows, ReportsKnowRevocations, ReportsAddUp
  <1>3. RegisteredDevices' = RegisteredDevices
    BY DEF RegisteredDevices
  <1> QED BY <1>1, <1>2, <1>3, DeskInv

LEMMA NoVisitOK ==
    ASSUME NEW t \in Threads, office'[t] = NoVisit
    PROVE  NoVisit \in Visits /\ VisitOK(t)'
  BY DEF NoVisit, Visits, OfficeSteps, VisitOK, Reading

LEMMA DeskMoved ==
    ASSUME OfficeInv, NEW t \in Threads, NEW v, Desk(t, v)
    PROVE  office'[t] = v
  BY DEF OfficeInv, Desk

\* A method of the office begins.
LEMMA ArriveInv ==
    ASSUME OfficeInv, NEW t \in Threads,
           CallRegisterAgent(t) \/ CallRegisterDevice(t)
           \/ \E op \in {"active", "devices", "report"} : CallVisit(t, op)
    PROVE  OfficeInv'
  <1>1. /\ AtDesk(t, "idle") /\ pc[t] = "idle" /\ calls < MaxCalls /\ calls' = calls + 1
        /\ UNCHANGED <<heap, overdue, pc, call, answer, doc, files, told, since, agents, devices, report>>
    BY DEF CallRegisterAgent, CallRegisterDevice, CallVisit, Idle, Resting
  <1>2. calls' \in 0..MaxCalls /\ Live' = Live
    BY <1>1 DEF OfficeInv, PassportInv, ShapeOK, Live
  <1>3. ASSUME NEW v \in Visits, Desk(t, v), v.step \in {"lock", "rlock"},
               v.step = "lock" => /\ v.op = "register" => v.p \in Live
                                  /\ v.op = "device" => v.device \in DeviceRec,
               v.todo = {}, v.trusted = {}, v.entries = {}, v.since \subseteq told
        PROVE  OfficeInv'
    <2>1. office'[t] = v
      BY <1>3, DeskMoved
    <2>2. VisitOK(t)'
      BY <1>1, <1>2, <1>3, <2>1 DEF VisitOK, Reading
    <2> QED BY <1>1, <1>2, <1>3, <2>2, DeskOnly
  <1> USE DEF NoVisit, Visits, OfficeSteps
  <1>4. CASE CallRegisterAgent(t)
    <2>1. PICK p \in Live : Desk(t, [NoVisit EXCEPT !.step = "lock", !.op = "register", !.p = p])
      BY <1>4 DEF CallRegisterAgent
    <2> DEFINE v == [NoVisit EXCEPT !.step = "lock", !.op = "register", !.p = p]
    <2>2. /\ v \in Visits /\ v.step = "lock" /\ v.op = "register" /\ v.p = p
          /\ v.todo = {} /\ v.trusted = {} /\ v.entries = {} /\ v.since = {}
      BY DEF Live
    <2> HIDE DEF v
    <2> QED BY <1>3, <2>1, <2>2 DEF v
  <1>5. CASE CallRegisterDevice(t)
    <2>1. PICK d \in Devices, status \in {"pending", "active"} :
             Desk(t, [NoVisit EXCEPT !.step = "lock", !.op = "device",
                                     !.device = [id |-> d, status |-> status]])
      BY <1>5 DEF CallRegisterDevice
    <2> DEFINE r == [id |-> d, status |-> status]
               v == [NoVisit EXCEPT !.step = "lock", !.op = "device", !.device = r]
    <2>2. r \in DeviceRec
      BY DEF DeviceRec
    <2>3. Desk(t, v)
      BY <2>1
    <2> HIDE DEF r
    <2>4. /\ v \in Visits /\ v.step = "lock" /\ v.op = "device" /\ v.device = r
          /\ v.todo = {} /\ v.trusted = {} /\ v.entries = {} /\ v.since = {}
      BY <2>2
    <2> HIDE DEF v
    <2> QED BY <1>3, <2>2, <2>3, <2>4
  <1>6. CASE \E op \in {"active", "devices", "report"} : CallVisit(t, op)
    <2>1. PICK op \in {"active", "devices", "report"} :
             Desk(t, [NoVisit EXCEPT !.step = "rlock", !.op = op, !.since = told])
      BY <1>6 DEF CallVisit
    <2> DEFINE v == [NoVisit EXCEPT !.step = "rlock", !.op = op, !.since = told]
    <2>2. told \subseteq Passports
      BY DEF OfficeInv, PassportInv, ToldInv, Live
    <2>3. /\ v \in Visits /\ v.step = "rlock" /\ v.since = told
          /\ v.todo = {} /\ v.trusted = {} /\ v.entries = {}
      BY <2>2
    <2> HIDE DEF v
    <2> QED BY <1>3, <2>1, <2>3 DEF v
  <1> QED BY <1>4, <1>5, <1>6

LEMMA AnnounceInv ==
    ASSUME OfficeInv, NEW t \in Threads, Announce(t)
    PROVE  OfficeInv'
  <1> DEFINE x == office[t]
             v == [x EXCEPT !.step = "locked_out"]
  <1>1. x \in Visits /\ VisitOK(t) /\ x.step = "lock" /\ calls \in 0..MaxCalls
    BY DEF OfficeInv, Announce, AtDesk, PassportInv, ShapeOK
  <1>2. Desk(t, v) /\ office'[t] = v
    BY DeskMoved DEF Announce
  <1>3. UNCHANGED <<heap, overdue, pc, call, answer, doc, files, told, since, calls, agents, devices, report>>
    BY DEF Announce, passportVars
  <1>4. /\ v \in Visits /\ v.step = "locked_out" /\ v.op = x.op /\ v.p = x.p /\ v.device = x.device
        /\ v.todo = x.todo /\ v.trusted = x.trusted /\ v.entries = x.entries /\ v.since = x.since
    <2> HIDE DEF x
    <2> QED BY <1>1 DEF Visits, OfficeSteps
  <1> HIDE DEF v
  <1>5. VisitOK(t)'
    BY <1>1, <1>2, <1>3, <1>4 DEF VisitOK, Reading, Live
  <1> QED BY <1>1, <1>2, <1>3, <1>4, <1>5, DeskOnly

\* What a report counts, it can count.
LEMMA CanBeCounted ==
    ASSUME OfficeInv
    PROVE  /\ Registered \subseteq Live /\ IsFiniteSet(Registered)
           /\ Cardinality(Registered) \in Nat
           /\ IsFiniteSet(RegisteredDevices) /\ Cardinality(RegisteredDevices) \in Nat
           /\ Cardinality(ActiveDevices) <= Cardinality(RegisteredDevices)
  <1>1. Registered \subseteq Live /\ Registered \in SUBSET Passports
    BY DEF OfficeInv, MapsInv, Registered, Live
  <1>2. RegisteredDevices \in SUBSET Devices /\ ActiveDevices \in SUBSET RegisteredDevices
    BY DEF RegisteredDevices, ActiveDevices, None
  <1> QED BY <1>1, <1>2, FS_Subset, FS_CardinalityType, FiniteAssumption, DevicesAssumption

LEMMA RLockInv ==
    ASSUME OfficeInv, NEW t \in Threads, RLock(t)
    PROVE  OfficeInv'
  <1> DEFINE x == office[t]
             S == IF x.op = "devices" THEN {} ELSE Registered
             n == Cardinality(Registered)
             m == Cardinality(RegisteredDevices)
             v == [x EXCEPT !.step = "visit", !.todo = S, !.total = n, !.total_devices = m]
  <1>1. x \in Visits /\ VisitOK(t) /\ x.step = "rlock" /\ calls \in 0..MaxCalls
    BY DEF OfficeInv, RLock, AtDesk, PassportInv, ShapeOK
  <1>2. Desk(t, v) /\ office'[t] = v
    BY DeskMoved DEF RLock
  <1>3. UNCHANGED <<heap, overdue, pc, call, answer, doc, files, told, since, calls, agents, devices, report>>
    BY DEF RLock, passportVars
  <1>4. S \subseteq Live /\ S \in SUBSET Passports /\ n \in Nat /\ m \in Nat
    BY CanBeCounted DEF Live
  <1>5. /\ v \in Visits /\ v.step = "visit" /\ v.op = x.op
        /\ v.todo = S /\ v.trusted = x.trusted /\ v.entries = x.entries /\ v.since = x.since
        /\ v.total = n /\ v.total_devices = m
    <2> HIDE DEF x, S, n, m
    <2> QED BY <1>1, <1>4 DEF Visits, OfficeSteps
  <1>6. /\ x.entries = {} /\ x.trusted = {} /\ x.since \subseteq told /\ pc[t] = "idle"
    BY <1>1 DEF VisitOK, Reading
  <1>7. v.op = "report" => Counted(v)
    <2>1. v.op = "report" => v.todo = Registered /\ v.entries = {}
      BY <1>5, <1>6
    <2> HIDE DEF v, x
    <2> QED BY <1>4, <1>5, <2>1, FS_EmptySet DEF Counted
  <1> HIDE DEF v, x, S
  <1>8. VisitOK(t)'
    <2>1. RegisteredDevices' = RegisteredDevices /\ Live' = Live
      BY <1>3 DEF RegisteredDevices, Live
    <2>2. v.op = "report" => Counted(office'[t])
      BY <1>2, <1>7
    <2>3. \A e \in office'[t].entries : Honest(e, office'[t])
      BY <1>2, <1>5, <1>6
    <2> QED BY <1>2, <1>3, <1>4, <1>5, <1>6, <2>1, <2>2, <2>3 DEF VisitOK, Reading
  <1> QED BY <1>1, <1>2, <1>3, <1>5, <1>8, DeskOnly

-----------------------------------------------------------------------------
(* One agent of a report: trust, summary, log *)

LEMMA SinceRevoked ==
    ASSUME OfficeInv, NEW t \in Threads, NEW p \in office[t].since
    PROVE  RevokedNow(p) /\ p \in Live
  BY DEF OfficeInv, PassportInv, ToldInv, HeapInv, VisitOK

LEMMA TakenFromTodo ==
    ASSUME NEW S \in SUBSET Passports, NEW p \in S
    PROVE  /\ Cardinality(S) \in Nat /\ Cardinality(S \ {p}) \in Nat
           /\ Cardinality(S \ {p}) = Cardinality(S) - 1
  <1>1. IsFiniteSet(S) /\ IsFiniteSet(S \ {p})
    BY FS_Subset, FiniteAssumption
  <1> QED BY <1>1, FS_RemoveElement, FS_CardinalityType

LEMMA VisitTrustInv ==
    ASSUME OfficeInv, NEW t \in Threads, VisitTrust(t)
    PROVE  OfficeInv'
  <1> DEFINE x == office[t]
  <1>1. x \in Visits /\ VisitOK(t) /\ x.step = "visit" /\ Reading(t)
    BY DEF OfficeInv, VisitTrust, AtDesk, Reading
  <1>2. PICK p \in x.todo :
           /\ Check(p)
           /\ Desk(t, [x EXCEPT !.todo = @ \ {p},
                                !.trusted = IF Trusted(p) THEN @ \cup {p} ELSE @,
                                !.p = p,
                                !.step = IF x.op = "report" THEN "summary" ELSE "visit"])
    BY DEF VisitTrust
  <1> DEFINE S == x.todo \ {p}
             T == IF Trusted(p) THEN x.trusted \cup {p} ELSE x.trusted
             step == IF x.op = "report" THEN "summary" ELSE "visit"
             v == [x EXCEPT !.todo = S, !.trusted = T, !.p = p, !.step = step]
  <1>3. UNCHANGED <<overdue, pc, call, answer, doc, files, told, since, calls, agents, devices, report>>
    BY DEF VisitTrust
  <1>4. p \in Live /\ p \in Passports /\ S \subseteq Live /\ T \subseteq Live
    BY <1>1, <1>2 DEF VisitOK, Live
  <1>5. PassportInv' /\ Grows /\ Live' = Live
    <2>1. HeapStep /\ Live' = Live
      BY <1>2, <1>4, CheckedInPlace DEF HeapStep, OfficeInv, PassportInv
    <2>2. overdue' \subseteq Passports /\ calls' \in 0..MaxCalls
      BY <1>3 DEF OfficeInv, PassportInv, ShapeOK
    <2> QED BY <1>3, <2>1, <2>2, Aside DEF OfficeInv
  <1>6. /\ v \in Visits /\ v.step = step /\ v.op = x.op /\ v.p = p
        /\ v.todo = S /\ v.trusted = T /\ v.entries = x.entries /\ v.since = x.since
        /\ v.total = x.total /\ v.total_devices = x.total_devices /\ v.entry = x.entry
    <2>1. S \in SUBSET Passports /\ T \in SUBSET Passports /\ step \in {"visit", "summary"}
      BY <1>4 DEF Live
    <2> HIDE DEF x, S, T, step
    <2> QED BY <1>1, <1>4, <2>1 DEF Visits, OfficeSteps
  <1>7. Desk(t, v) /\ office'[t] = v
    <2>1. Desk(t, v)
      BY <1>1, <1>2 DEF Visits
    <2> QED BY <2>1, DeskMoved
  <1>8. p \notin T => heap'[p].status # "active"
    <2>1. ~Trusted(p) => StatusOnceChecked(p) # "active"
      BY DEF Trusted, StatusOnceChecked
    <2>2. heap'[p].status = StatusOnceChecked(p)
      <3>1. heap[p] \in Fields
        BY <1>4, LogsTyped DEF OfficeInv, PassportInv
      <3> QED BY <1>2, <1>4, <3>1 DEF Check, OfficeInv, PassportInv, HeapType, Fields
    <2> QED BY <2>1, <2>2
  <1>9. \A q \in T : q \notin x.since
    <2>1. p \in x.since => ~Trusted(p)
      BY SinceRevoked DEF RevokedNow, Trusted
    <2> QED BY <1>1, <2>1 DEF VisitOK
  <1>10. x.op = "report" => Counted(v) /\ \A e \in v.entries : e.p # p
    <2>1. SUFFICES ASSUME x.op = "report"
                   PROVE  Counted(v) /\ \A e \in v.entries : e.p # p
      OBVIOUS
    <2>2. Counted(x)
      BY <1>1, <2>1 DEF VisitOK
    <2>3. /\ Cardinality(x.todo) \in Nat /\ Cardinality(S) \in Nat
          /\ Cardinality(S) = Cardinality(x.todo) - 1
      BY <1>1, <1>2, TakenFromTodo DEF Visits
    <2>4. step = "summary" /\ step # "visit"
      BY <2>1
    <2>5. Cardinality(x.entries) \in Nat
      BY <2>2, FS_CardinalityType DEF Counted
    <2> HIDE DEF v, step
    <2> QED BY <1>1, <1>2, <1>6, <2>2, <2>3, <2>4, <2>5 DEF Counted
  <1>11. \A e \in v.entries : Honest(e, v)
    BY <1>1, <1>6 DEF VisitOK, Honest
  <1>12. v.step = "summary" <=> x.op = "report"
    BY <1>6
  <1>13. x.since \subseteq told /\ pc[t] = "idle" /\ x.total_devices = Cardinality(RegisteredDevices)
    BY <1>1 DEF VisitOK
  <1> HIDE DEF v, S, T
  <1>14. RegisteredDevices' = RegisteredDevices
    BY <1>3 DEF RegisteredDevices
  <1>15. VisitOK(t)'
    <2>1. x.op = "report" => InHand(office[t])'
      <3>1. p \in Live' /\ p \notin S
        BY <1>4, <1>5 DEF S
      <3>2. /\ office'[t].op = x.op /\ office'[t].p = p /\ office'[t].todo = S
            /\ office'[t].trusted = T /\ office'[t].entries = x.entries
        BY <1>6, <1>7
      <3>3. x.op = "report" => \A e \in x.entries : e.p # p
        BY <1>6, <1>10
      <3> QED BY <1>8, <3>1, <3>2, <3>3 DEF InHand
    <2>2. /\ x.op = "report" => Counted(office'[t])
          /\ \A e \in office'[t].entries : Honest(e, office'[t])
      BY <1>7, <1>10, <1>11
    <2>3. office'[t].step \in {"visit", "summary"} /\ (office'[t].step = "summary" => x.op = "report")
      BY <1>6, <1>7
    <2>4. office'[t].op = x.op
      BY <1>6, <1>7
    <2>5. Reading(t)'
      BY <2>3 DEF Reading
    <2>6. /\ office'[t].todo \subseteq Live' /\ office'[t].trusted \subseteq Live'
          /\ office'[t].since \subseteq told'
          /\ \A q \in office'[t].trusted : q \notin office'[t].since
          /\ office'[t].total_devices = Cardinality(RegisteredDevices')
          /\ pc'[t] = "idle"
      BY <1>3, <1>4, <1>5, <1>6, <1>7, <1>9, <1>13, <1>14
    <2>7. office'[t].step = "summary" => InHand(office[t])'
      BY <2>1, <2>3
    <2> QED BY <2>2, <2>3, <2>4, <2>5, <2>6, <2>7 DEF VisitOK
  <1>16. MapsInv' /\ (ReportsKnowRevocations /\ ReportsAddUp)'
    BY <1>3, <1>5 DEF OfficeInv, MapsInv, Grows, ReportsKnowRevocations, ReportsAddUp
  <1> QED BY <1>3, <1>5, <1>6, <1>7, <1>14, <1>15, <1>16, DeskInv

LEMMA VisitSummaryInv ==
    ASSUME OfficeInv, NEW t \in Threads, VisitSummary(t)
    PROVE  OfficeInv'
  <1> DEFINE x == office[t]
             p == x.p
             e == [p |-> p, status |-> heap[p].status, logged |-> Len(heap[p].log), log |-> << >>]
             v == [x EXCEPT !.step = "audit_log", !.entry = e]
  <1>1. x \in Visits /\ VisitOK(t) /\ x.step = "summary" /\ Reading(t) /\ InHand(x)
        /\ calls \in 0..MaxCalls
    BY DEF OfficeInv, VisitSummary, AtDesk, Reading, VisitOK, PassportInv, ShapeOK
  <1>2. Desk(t, v) /\ office'[t] = v
    BY DeskMoved DEF VisitSummary
  <1>3. UNCHANGED <<heap, overdue, pc, call, answer, doc, files, told, since, calls, agents, devices, report>>
    BY DEF VisitSummary, passportVars
  <1>4. /\ heap[p] \in Fields /\ p \in Passports /\ Len(heap[p].log) \in Nat
    BY <1>1, LogsTyped DEF InHand, OfficeInv, PassportInv
  <1>5. /\ e \in EntryRec /\ e.p = p /\ e.status = heap[p].status /\ e.logged = Len(heap[p].log)
    BY <1>4 DEF EntryRec, Fields
  <1> HIDE DEF e
  <1>6. /\ v \in Visits /\ v.step = "audit_log" /\ v.op = x.op /\ v.p = p
        /\ v.todo = x.todo /\ v.trusted = x.trusted /\ v.entries = x.entries /\ v.since = x.since
        /\ v.total = x.total /\ v.total_devices = x.total_devices /\ v.entry = e
    <2> HIDE DEF x, p
    <2> QED BY <1>1, <1>5 DEF Visits, OfficeSteps, p
  <1> HIDE DEF v
  <1>7. Summed(v) /\ InHand(v)
    <2>1. p \in x.since => heap[p].status = "revoked"
      BY SinceRevoked DEF RevokedNow
    <2> QED BY <1>1, <1>4, <1>5, <1>6, <2>1 DEF Summed, InHand
  <1>8. Counted(v) /\ (\A y \in v.entries : Honest(y, v)) /\ v.op = "report"
    <2>1. Counted(x)
      BY <1>1 DEF VisitOK, InHand
    <2>2. x.step # "visit" /\ v.step # "visit"
      BY <1>1, <1>6
    <2>3. \A y \in x.entries : Honest(y, x)
      BY <1>1 DEF VisitOK
    <2> HIDE DEF x
    <2> QED BY <1>1, <1>6, <2>1, <2>2, <2>3 DEF Counted, Honest, InHand
  <1>9. VisitOK(t)'
    <2>1. RegisteredDevices' = RegisteredDevices /\ Live' = Live
      BY <1>3 DEF RegisteredDevices, Live
    <2>2. Counted(office'[t]) /\ (\A y \in office'[t].entries : Honest(y, office'[t]))
      BY <1>2, <1>8
    <2>3. InHand(office[t])' /\ Summed(office[t])'
      BY <1>2, <1>3, <1>7, <2>1 DEF InHand, Summed
    <2>4. /\ v.todo \subseteq Live /\ v.trusted \subseteq Live /\ v.since \subseteq told
          /\ \A q \in v.trusted : q \notin v.since
          /\ v.total_devices = Cardinality(RegisteredDevices)
          /\ pc[t] = "idle"
      BY <1>1, <1>6 DEF VisitOK
    <2>5. Reading(t)' /\ office'[t].step = "audit_log"
      BY <1>2, <1>6 DEF Reading
    <2> QED BY <1>2, <1>3, <2>1, <2>2, <2>3, <2>4, <2>5 DEF VisitOK
  <1> QED BY <1>1, <1>2, <1>3, <1>6, <1>9, DeskOnly

LEMMA VisitAuditLogInv ==
    ASSUME OfficeInv, NEW t \in Threads, VisitAuditLog(t)
    PROVE  OfficeInv'
  <1> DEFINE x == office[t]
             p == x.p
             d == x.entry
             log == heap[p].log
             e == [d EXCEPT !.log = log]
             E == x.entries \cup {e}
             v == [x EXCEPT !.step = "visit", !.entry = NoEntry, !.entries = E]
  <1>1. x \in Visits /\ VisitOK(t) /\ x.step = "audit_log" /\ Reading(t) /\ InHand(x) /\ Summed(x)
        /\ calls \in 0..MaxCalls
    BY DEF OfficeInv, VisitAuditLog, AtDesk, Reading, VisitOK, PassportInv, ShapeOK
  <1>2. Desk(t, v) /\ office'[t] = v
    <2>1. Desk(t, v)
      BY <1>1 DEF VisitAuditLog, Visits
    <2> QED BY <2>1, DeskMoved
  <1>3. UNCHANGED <<heap, overdue, pc, call, answer, doc, files, told, since, calls, agents, devices, report>>
    BY DEF VisitAuditLog, passportVars
  <1>4. log \in Seq(Entry) /\ d \in EntryRec
    BY <1>1, LogsTyped DEF InHand, Summed, OfficeInv, PassportInv, Fields
  <1>5. /\ e \in EntryRec /\ e.p = d.p /\ e.status = d.status /\ e.logged = d.logged /\ e.log = log
    <2> HIDE DEF d, log
    <2> QED BY <1>4 DEF EntryRec
  <1>6. Honest(e, x) /\ e.p = p
    BY <1>1, <1>5 DEF Honest, Summed
  <1> HIDE DEF e
  <1>7. /\ v \in Visits /\ v.step = "visit" /\ v.op = x.op
        /\ v.todo = x.todo /\ v.trusted = x.trusted /\ v.entries = E /\ v.since = x.since
        /\ v.total = x.total /\ v.total_devices = x.total_devices
    <2>1. E \in SUBSET EntryRec
      BY <1>1, <1>5 DEF Visits
    <2> HIDE DEF x, E
    <2> QED BY <1>1, <2>1 DEF Visits, OfficeSteps
  <1> HIDE DEF v
  <1>8. (\A y \in v.entries : Honest(y, v))
    BY <1>1, <1>6, <1>7 DEF VisitOK, Honest
  <1>9. Counted(v) /\ v.op = "report"
    <2>1. Counted(x) /\ x.op = "report" /\ p \notin x.todo /\ \A y \in x.entries : y.p # p
      BY <1>1 DEF VisitOK, InHand
    <2>2. e \notin x.entries
      BY <1>6, <2>1
    <2>3. /\ IsFiniteSet(x.entries) /\ IsFiniteSet(E) /\ Cardinality(x.entries) \in Nat
          /\ Cardinality(E) = Cardinality(x.entries) + 1
      BY <2>1, <2>2, FS_AddElement, FS_CardinalityType DEF Counted
    <2>4. Cardinality(x.todo) \in Nat
      BY <1>1, FS_Subset, FS_CardinalityType, FiniteAssumption DEF Visits
    <2>5. \A y \in E : y.p \notin x.todo
      BY <1>6, <2>1 DEF Counted
    <2> HIDE DEF E
    <2> QED BY <1>1, <1>7, <2>1, <2>3, <2>4, <2>5 DEF Counted
  <1>10. VisitOK(t)'
    <2>1. RegisteredDevices' = RegisteredDevices /\ Live' = Live
      BY <1>3 DEF RegisteredDevices, Live
    <2>2. Counted(office'[t]) /\ (\A y \in office'[t].entries : Honest(y, office'[t]))
      BY <1>2, <1>8, <1>9
    <2>3. /\ v.todo \subseteq Live /\ v.trusted \subseteq Live /\ v.since \subseteq told
          /\ \A q \in v.trusted : q \notin v.since
          /\ v.total_devices = Cardinality(RegisteredDevices)
          /\ pc[t] = "idle"
      BY <1>1, <1>7 DEF VisitOK
    <2>4. Reading(t)' /\ office'[t].step = "visit"
      BY <1>2, <1>7 DEF Reading
    <2> QED BY <1>2, <1>3, <2>1, <2>2, <2>3, <2>4 DEF VisitOK
  <1> QED BY <1>1, <1>2, <1>3, <1>7, <1>10, DeskOnly

-----------------------------------------------------------------------------
(* Reports and writers *)

LEMMA LeaveInv ==
    ASSUME OfficeInv, NEW t \in Threads, Leave(t)
    PROVE  OfficeInv'
  <1> DEFINE v == office[t]
             m == Cardinality(ActiveDevices)
             r == [op |-> v.op, trusted |-> v.trusted, total |-> v.total, active_devices |-> m,
                   total_devices |-> v.total_devices, entries |-> v.entries, since |-> v.since]
  <1>1. v \in Visits /\ VisitOK(t) /\ Reading(t) /\ v.step = "visit" /\ v.todo = {}
    BY DEF OfficeInv, Leave, AtDesk, Reading
  <1>2. /\ report' = r /\ Desk(t, NoVisit) /\ UNCHANGED <<passportVars, agents, devices>>
    BY DEF Leave
  <1>3. PassportInv' /\ Grows /\ UNCHANGED <<pc, told>>
    BY <1>2, StutterInv DEF OfficeInv, passportVars
  <1>4. NoVisit \in Visits /\ VisitOK(t)'
    BY <1>2, DeskMoved, NoVisitOK
  <1>5. MapsInv' /\ RegisteredDevices' = RegisteredDevices
    BY <1>2, <1>3 DEF OfficeInv, MapsInv, Grows, RegisteredDevices
  <1>6. /\ r.op = v.op /\ r.trusted = v.trusted /\ r.total = v.total /\ r.active_devices = m
        /\ r.total_devices = v.total_devices /\ r.entries = v.entries /\ r.since = v.since
    OBVIOUS
  <1> HIDE DEF r
  <1>7. ReportsKnowRevocations'
    <2>1. /\ \A p \in v.trusted : p \notin v.since
          /\ \A e \in v.entries : e.p \in v.since => e.status = "revoked"
      BY <1>1 DEF VisitOK, Honest
    <2> QED BY <1>2, <1>6, <2>1 DEF ReportsKnowRevocations
  <1>8. ReportsAddUp'
    <2>1. SUFFICES ASSUME v.op = "report"
                   PROVE  /\ Cardinality(r.entries) = r.total
                          /\ \A e \in r.entries : e.logged <= Len(e.log)
                          /\ {e.p : e \in {x \in r.entries : x.status = "active"}} \subseteq r.trusted
                          /\ r.active_devices <= r.total_devices
      BY <1>2, <1>6 DEF ReportsAddUp
    <2>2. Cardinality(v.entries) = v.total
      <3>1. Counted(v)
        BY <1>1, <2>1 DEF VisitOK
      <3>2. Cardinality(v.entries) \in Nat /\ Cardinality(v.todo) = 0
        BY <1>1, <3>1, FS_CardinalityType, FS_EmptySet DEF Counted
      <3> QED BY <1>1, <3>1, <3>2 DEF Counted
    <2>3. \A e \in v.entries : Honest(e, v)
      BY <1>1 DEF VisitOK
    <2>4. m <= v.total_devices
      BY <1>1, CanBeCounted DEF VisitOK
    <2> HIDE DEF v, m
    <2> QED BY <1>6, <2>2, <2>3, <2>4 DEF Honest
  <1> QED BY <1>2, <1>3, <1>4, <1>5, <1>7, <1>8, DeskInv

LEMMA RegisterAgentInv ==
    ASSUME OfficeInv, NEW t \in Threads, RegisterAgent(t)
    PROVE  OfficeInv'
  <1> DEFINE p == office[t].p
  <1>1. /\ Desk(t, NoVisit) /\ Readers = {} /\ UNCHANGED <<passportVars, devices, report>>
        /\ agents' = [agents EXCEPT ![heap[p].id] = p] /\ p \in Live
    BY DEF RegisterAgent, OfficeInv, VisitOK, AtDesk
  <1>2. PassportInv' /\ Grows /\ UNCHANGED <<pc, told>>
    BY <1>1, StutterInv DEF OfficeInv, passportVars
  <1>3. NoVisit \in Visits /\ VisitOK(t)'
    BY <1>1, DeskMoved, NoVisitOK
  <1>4. MapsInv'
    <2>1. heap[p].id \in Passports
      BY <1>1, LogsTyped DEF OfficeInv, PassportInv, Fields
    <2>2. agents' \in [Passports -> Live \cup {Nobody}] /\ agents'[heap[p].id] = p
          /\ \A id \in Passports : id # heap[p].id => agents'[id] = agents[id]
      BY <1>1, <2>1 DEF OfficeInv, MapsInv
    <2>3. heap' = heap /\ Live' = Live
      BY <1>1 DEF passportVars, Live
    <2> QED BY <1>1, <2>2, <2>3 DEF OfficeInv, MapsInv
  <1>5. RegisteredDevices' = RegisteredDevices
    BY <1>1 DEF RegisteredDevices
  <1>6. (ReportsKnowRevocations /\ ReportsAddUp)'
    BY <1>1 DEF OfficeInv, ReportsKnowRevocations, ReportsAddUp
  <1> QED BY <1>1, <1>2, <1>3, <1>4, <1>5, <1>6, DeskInv

\* The devices change while nobody holds the read lock: what a visit has counted
\* is what there is when it leaves.
LEMMA RegisterDeviceInv ==
    ASSUME OfficeInv, NEW t \in Threads, RegisterDevice(t)
    PROVE  OfficeInv'
  <1> DEFINE d == office[t].device
  <1>1. /\ Desk(t, NoVisit) /\ Readers = {} /\ UNCHANGED <<passportVars, agents, report>>
        /\ devices' = [devices EXCEPT ![d.id] = d.status] /\ d \in DeviceRec
    BY DEF RegisterDevice, OfficeInv, VisitOK, AtDesk
  <1>2. PassportInv' /\ Grows /\ UNCHANGED <<pc, told>>
    BY <1>1, StutterInv DEF OfficeInv, passportVars
  <1>3. NoVisit \in Visits /\ VisitOK(t)'
    BY <1>1, DeskMoved, NoVisitOK
  <1>4. MapsInv'
    <2>1. heap' = heap /\ Live' = Live
      BY <1>1 DEF passportVars, Live
    <2> QED BY <1>1, <2>1 DEF OfficeInv, MapsInv, DeviceRec
  <1>5. \A u \in Threads : ~Reading(u)
    BY <1>1 DEF Readers, Reading
  <1>6. (ReportsKnowRevocations /\ ReportsAddUp)'
    BY <1>1 DEF OfficeInv, ReportsKnowRevocations, ReportsAddUp
  <1> QED BY <1>1, <1>2, <1>3, <1>4, <1>5, <1>6, DeskInv

-----------------------------------------------------------------------------
(* Theorems *)

LEMMA NextOfficeInv == OfficeInv /\ [OfficeNext]_vars => OfficeInv'
  <1> SUFFICES ASSUME OfficeInv, [OfficeNext]_vars
               PROVE  OfficeInv'
    OBVIOUS
  <1>1. CASE \E t \in Threads : UsePassport(t)
    BY <1>1, OutsideCalls
  <1>2. CASE \E t \in Threads : OfficeEnter(t)
    BY <1>2, OutsideCalls, ArriveInv DEF OfficeEnter
  <1>3. CASE \E t \in Threads : StepPassport(t)
    BY <1>3, OutsideStep
  <1>4. CASE \E t \in Threads : OfficeStep(t)
    BY <1>4, AnnounceInv, RegisterAgentInv, RegisterDeviceInv, RLockInv, VisitTrustInv,
       VisitSummaryInv, VisitAuditLogInv, LeaveInv DEF OfficeStep
  <1>5. CASE (LoadAgentPassport \/ Tick) /\ UNCHANGED officeVars
    BY <1>5, OutsideAlone
  <1>6. CASE OfficeQuiescent \/ UNCHANGED vars
    BY <1>6, OutsideAlone DEF OfficeQuiescent, vars
  <1> QED BY <1>1, <1>2, <1>3, <1>4, <1>5, <1>6 DEF OfficeNext

LEMMA OfficeInvHolds == OfficeSpec => []OfficeInv
  BY InitOfficeInv, NextOfficeInv, PTL DEF OfficeSpec

\* The maps, the visits and the passports below them stay in their types: an
\* agent is found under the identifier of its passport, and a goroutine is never
\* in the office and in a method of a passport at once.
THEOREM OfficeTypeCorrect == OfficeSpec => []OfficeTypeOK
  <1>1. OfficeInv => OfficeTypeOK
    <2> SUFFICES ASSUME OfficeInv PROVE OfficeTypeOK
      OBVIOUS
    <2>1. TypeOK
      BY InvariantTyped DEF OfficeInv
    <2>2. ASSUME NEW t \in Threads
          PROVE  /\ office[t].step \in OfficeSteps \cup {"idle"}
                 /\ office[t].todo \subseteq Live /\ office[t].trusted \subseteq Live
                 /\ AtDesk(t, "idle") \/ pc[t] = "idle"
      BY DEF OfficeInv, VisitOK, Visits, AtDesk
    <2> QED BY <2>1, <2>2 DEF OfficeInv, MapsInv, OfficeTypeOK
  <1> QED BY <1>1, OfficeInvHolds, PTL

\* Whatever is revoked, reloaded or expires while ActiveAgents or AuditReport goes
\* through the map, a passport whose revocation had been reported before is not
\* counted as trusted, and its entry says revoked.
THEOREM ReportsKnow == OfficeSpec => []ReportsKnowRevocations
  <1>1. OfficeInv => ReportsKnowRevocations
    BY DEF OfficeInv
  <1> QED BY <1>1, OfficeInvHolds, PTL

\* The numbers of an AuditReport bound its entries, however many agents and
\* devices there are and whatever their passports do between the three looks the
\* report takes at each.
THEOREM ReportsBalance == OfficeSpec => []ReportsAddUp
  <1>1. OfficeInv => ReportsAddUp
    BY DEF OfficeInv
  <1> QED BY <1>1, OfficeInvHolds, PTL

\* The passports below the office.
LEMMA OfficeGrows ==
    ASSUME OfficeInv, [OfficeNext]_vars
    PROVE  Grows
  <1>1. CASE \E t \in Threads : StepPassport(t)
    BY <1>1, StepInv, ReturnInv, SameHeapGrows DEF OfficeInv, StepPassport
  <1>2. CASE \E t \in Threads : VisitTrust(t)
    <2>1. PICK t \in Threads : VisitTrust(t)
      BY <1>2
    <2>2. PICK p \in office[t].todo : Check(p)
      BY <2>1 DEF VisitTrust
    <2>3. HeapStep
      BY <2>2 DEF OfficeInv, VisitOK, HeapStep
    <2> QED BY <2>3, HeapStepKeeps DEF OfficeInv, PassportInv
  <1>3. CASE LoadAgentPassport
    BY <1>3, LoadInv DEF OfficeInv
  <1>4. CASE heap' = heap
    BY <1>4, SameHeapGrows
  <1>5. ASSUME NEW t \in Threads, UsePassport(t) \/ OfficeEnter(t)
        PROVE  heap' = heap
    BY <1>5 DEF UsePassport, OfficeEnter, CallIssue, CallLogAction, CallExport, IsTrustedAgent,
                RevokeAgent, Begin, CallRegisterAgent, CallRegisterDevice, CallVisit
  <1>6. ASSUME NEW t \in Threads, OfficeStep(t), ~VisitTrust(t)
        PROVE  heap' = heap
    BY <1>6 DEF OfficeStep, Announce, RegisterAgent, RegisterDevice, RLock, VisitSummary,
                VisitAuditLog, Leave, passportVars
  <1>7. Tick \/ OfficeQuiescent \/ UNCHANGED vars => heap' = heap
    BY DEF Tick, OfficeQuiescent, vars, passportVars
  <1> QED BY <1>1, <1>2, <1>3, <1>4, <1>5, <1>6, <1>7 DEF OfficeNext

\* Passports keep their promises when they are used through the office too, whose
\* reports check trust, and so write the status, under the office's lock.
THEOREM PassportsOfTheOffice ==
    OfficeSpec => [](RevokedMeansRefused /\ ExportsRememberRevocation) /\ TrustNeverReturns
  <1> DEFINE Kept == \A p \in Passports :
                        /\ heap[p].status = "revoked" => heap'[p].status = "revoked"
                        /\ heap[p].status = "expired" => heap'[p].status \in {"expired", "revoked"}
  <1>1. OfficeInv => RevokedMeansRefused /\ ExportsRememberRevocation
    BY InvariantPromises DEF OfficeInv
  <1>2. OfficeInv /\ [OfficeNext]_vars => [Kept]_passportVars
    BY OfficeGrows, StatusesGrow
  <1> QED BY <1>1, <1>2, OfficeInvHolds, PTL DEF OfficeSpec, TrustNeverReturns

=============================================================================
