---------------------------- MODULE LocalPassport ----------------------------
(***************************************************************************)
(* The local agent passport of the SDK (agent.go) and the RequirePassport  *)
(* wrapper (helpers.go), shared by the goroutines of one process.          *)
(*                                                                         *)
(* The fields of a passport are guarded by its mutex.  A critical section  *)
(* never waits for anything, so it is one action; a method with several    *)
(* critical sections is several actions, and other goroutines run between  *)
(* them.  Export also reads two fields outside the mutex.                  *)
(***************************************************************************)
EXTENDS Integers, Sequences, FiniteSets

CONSTANTS
    Threads,        \* goroutines
    Passports,      \* AgentPassport objects that can be allocated
    Nobody,         \* no passport: a nil ParentPassport
    Actions,        \* actions that are asked for
    Levels,         \* trust levels passports are issued with
    Reasons,        \* revocation reasons
    MaxCalls        \* bound: method calls in one behaviour

ASSUME NobodyAssumption   == Nobody \notin Passports
ASSUME MaxCallsAssumption == MaxCalls \in Nat
ASSUME FiniteAssumption   == IsFiniteSet(Threads) /\ IsFiniteSet(Passports)

VARIABLES
    heap,       \* [Passports -> fields], unallocated objects included
    overdue,    \* agent identifiers whose ExpiresAt has passed
    pc,         \* [Threads -> next critical section]
    call,       \* [Threads -> the method call it is in]
    answer,     \* [Threads -> what the call returns]
    doc,        \* [Threads -> the document Export is putting together]
    files,      \* documents returned by Export
    told,       \* history: passports whose Revoke has returned
    since,      \* [Threads -> told, as it was when the call began]
    calls       \* number of calls so far

passportVars == <<heap, overdue, pc, call, answer, doc, files, told, since, calls>>

None == "none"
NoAction == ""

\* Reasons are what Revoke stores: an empty one has been replaced by its default.
ASSUME ReasonsAssumption == None \notin Reasons

-----------------------------------------------------------------------------
(* Capabilities are the set of actions they allow; nothing else in them is     *)
(* looked at by any method.                                                    *)

Capabilities == LET standard == {"browse_web", "call_api", "access_files"}
                    elevated == standard \cup {"execute_code", "spawn_agent"}
                IN  [restricted |-> {"call_api"},
                     standard   |-> standard,
                     elevated   |-> elevated,
                     autonomous |-> elevated \cup {"access_database", "send_email"}]

CapabilitiesFor(level) ==
    Capabilities[IF level \in DOMAIN Capabilities THEN level ELSE "standard"]

Presets == {CapabilitiesFor(level) : level \in Levels}

Allows(caps, action) == action \in caps

-----------------------------------------------------------------------------

Ops   == {"issue", "log", "trusted", "verify", "require", "revoke", "export"}
Steps == {"issue", "create", "log", "trusted", "require", "verify", "blocked", "run",
          "revoke", "revoke_log", "export"}
Answers == {"issued", "true", "false", "done", "ErrTrust", "ErrAuthentication",
            "ErrRegistration"}

Entry == [n: 1..MaxCalls,
          action: Actions \cup {NoAction, "passport_issued", "passport_revoked"},
          outcome: {"success", "blocked", "failure"}]

Fields == [status: {"active", "expired", "revoked"}, id: Passports, caps: Presets,
           revoked_at: BOOLEAN, reason: Reasons \cup {None, "torn"}, log: Seq(Entry)]
Unallocated == [status |-> None, id |-> Nobody, caps |-> {}, revoked_at |-> FALSE,
                reason |-> None, log |-> << >>]
Live == {p \in Passports : heap[p].status # None}
Free == Passports \ Live

Doc == [status: {"active", "expired", "revoked"}, id: Passports, caps: Presets,
        revoked_at: BOOLEAN, reason: Reasons \cup {None, "torn"}, log: Seq(Entry),
        logged: Nat]
NoDoc == [status |-> None, id |-> Nobody, caps |-> {}, revoked_at |-> FALSE,
          reason |-> None, log |-> << >>, logged |-> 0]
Parts == {"log", "summary", "revoked_at", "reason"}

CallRec == [op: Ops, p: Passports \cup {Nobody}, action: Actions \cup {NoAction},
            reason: Reasons \cup {None}, caps: Presets \cup {{}}, unread: SUBSET Parts,
            n: 1..MaxCalls]
NoCall == [op |-> None, p |-> Nobody, action |-> NoAction, reason |-> None,
           caps |-> {}, unread |-> {}, n |-> 0]
Call(op, p) == [NoCall EXCEPT !.op = op, !.p = p, !.n = calls + 1]

Init ==
    /\ heap = [p \in Passports |-> Unallocated]
    /\ overdue = {}
    /\ pc = [t \in Threads |-> "idle"]
    /\ call = [t \in Threads |-> NoCall]
    /\ answer = [t \in Threads |-> None]
    /\ doc = [t \in Threads |-> NoDoc]
    /\ files = {}
    /\ told = {}
    /\ since = [t \in Threads |-> {}]
    /\ calls = 0

-----------------------------------------------------------------------------
(* How a call moves *)

Begin(t, c, step) ==
    /\ pc[t] = "idle"
    /\ calls < MaxCalls
    /\ calls' = calls + 1
    /\ call' = [call EXCEPT ![t] = c]
    /\ since' = [since EXCEPT ![t] = told]
    /\ pc' = [pc EXCEPT ![t] = step]
    /\ UNCHANGED <<heap, overdue, answer, doc, files, told>>

\* The next critical section of the method, or its return value.
Then(t, step)   == pc' = [pc EXCEPT ![t] = step] /\ answer' = answer
Answer(t, a)    == /\ pc' = [pc EXCEPT ![t] = "returned"]
                   /\ answer' = [answer EXCEPT ![t] = a]
SameCall        == UNCHANGED <<overdue, call, doc, files, told, since, calls>>

Return(t) ==
    /\ pc[t] = "returned"
    /\ pc' = [pc EXCEPT ![t] = "idle"]
    /\ call' = [call EXCEPT ![t] = NoCall]
    /\ answer' = [answer EXCEPT ![t] = None]
    /\ doc' = [doc EXCEPT ![t] = NoDoc]
    /\ since' = [since EXCEPT ![t] = {}]
    /\ files' = IF call[t].op = "export" THEN files \cup {doc[t]} ELSE files
    /\ told' = IF call[t].op = "revoke" THEN told \cup {call[t].p} ELSE told
    /\ UNCHANGED <<heap, overdue, calls>>

-----------------------------------------------------------------------------
(* IsTrusted and LogAction: one critical section each *)

Overdue(p) == heap[p].id \in overdue

\* Mutated: only the clock counts.
TrustedUntilExpiry(p) == ~Overdue(p)

Trusted(p) == heap[p].status = "active" /\ ~Overdue(p)

\* Mutated: the clock is looked at before the status.
StatusOnceCheckedClockFirst(p) == IF Overdue(p) THEN "expired" ELSE heap[p].status

\* Mutated: expiry is reported and not recorded.
StatusOnceCheckedUnrecorded(p) == heap[p].status

\* Expiry flips an active passport the first time it is observed.
StatusOnceChecked(p) ==
    IF heap[p].status = "active" /\ Overdue(p) THEN "expired" ELSE heap[p].status

Check(p) == heap' = [heap EXCEPT ![p].status = StatusOnceChecked(p)]

LogWith(t, e) == Append(heap[call[t].p].log, e)

LogAction(t, action, outcome) ==
    heap' = [heap EXCEPT ![call[t].p].log =
                LogWith(t, [n |-> call[t].n, action |-> action, outcome |-> outcome])]

CallLogAction(t) ==
    \E p \in Live, action \in Actions : Begin(t, [Call("log", p) EXCEPT !.action = action], "log")

Log(t) ==
    /\ pc[t] = "log"
    /\ LogAction(t, call[t].action, "success")
    /\ Answer(t, "done")
    /\ SameCall

CallIsTrusted(t) == \E p \in Live : Begin(t, Call("trusted", p), "trusted")

IsTrusted(t) ==
    /\ pc[t] = "trusted"
    /\ Check(call[t].p)
    /\ Answer(t, IF Trusted(call[t].p) THEN "true" ELSE "false")
    /\ SameCall

-----------------------------------------------------------------------------
(* IssueAgentPassport *)

\* Free objects are alike.
NewObject == CHOOSE p \in Passports : p \in Free

\* An object is left for every call that may allocate one.
RoomToAllocate == Cardinality({t \in Threads : call[t].op = "issue"}) < Cardinality(Free)

CallIssue(t) ==
    /\ RoomToAllocate
    /\ \E parent \in Live \cup {Nobody}, caps \in Presets :
          Begin(t, [Call("issue", parent) EXCEPT !.caps = caps], "issue")

CheckParent(t) ==
    /\ pc[t] = "issue"
    /\ LET parent == call[t].p IN
       \/ parent = Nobody /\ UNCHANGED heap /\ Then(t, "create")
       \/ /\ parent # Nobody /\ ~Allows(heap[parent].caps, "spawn_agent")
          /\ UNCHANGED heap /\ Answer(t, "ErrTrust")
       \/ /\ parent # Nobody /\ Allows(heap[parent].caps, "spawn_agent")
          /\ Check(parent)
          /\ IF Trusted(parent) THEN Then(t, "create") ELSE Answer(t, "ErrTrust")
    /\ SameCall

\* A required field is empty, which is looked at before the parent is, or there is
\* no randomness for the identifier, which is drawn after that.
IssueFails(t) ==
    /\ pc[t] \in {"issue", "create"}
    /\ Answer(t, "ErrRegistration")
    /\ UNCHANGED heap
    /\ SameCall

\* The object is filled in and logs its own issue before anyone else sees it.
Create(t) ==
    /\ pc[t] = "create"
    /\ heap' = [heap EXCEPT ![NewObject] =
                   [status |-> "active", id |-> NewObject, caps |-> call[t].caps,
                    revoked_at |-> FALSE, reason |-> None,
                    log |-> <<[n |-> call[t].n, action |-> "passport_issued",
                               outcome |-> "success"]>>]]
    /\ Answer(t, "issued")
    /\ SameCall

-----------------------------------------------------------------------------
(* VerifyAction and RequirePassport, which checks trust before it calls it.    *)
(* Nothing is shared in a RequirePassport of a nil passport: it is left out.   *)

CallVerifyAction(t) ==
    \E p \in Live, action \in Actions :
        Begin(t, [Call("verify", p) EXCEPT !.action = action], "verify")

CallRequirePassport(t) ==
    \E p \in Live, action \in Actions \cup {NoAction} :
        Begin(t, [Call("require", p) EXCEPT !.action = action], "require")

RequireTrusted(t) ==
    /\ pc[t] = "require"
    /\ Check(call[t].p)
    /\ \/ ~Trusted(call[t].p) /\ Answer(t, "ErrAuthentication")
       \/ /\ Trusted(call[t].p)
          /\ Then(t, IF call[t].action = NoAction THEN "run" ELSE "verify")
    /\ SameCall

\* Mutated: VerifyAction looks at the capability only.
PermittedIfCapable(t) == Allows(heap[call[t].p].caps, call[t].action)

Permitted(t) == Trusted(call[t].p) /\ Allows(heap[call[t].p].caps, call[t].action)

VerifyAction(t) ==
    /\ pc[t] = "verify"
    /\ Check(call[t].p)
    /\ \/ ~Permitted(t) /\ Then(t, "blocked")
       \/ Permitted(t) /\ call[t].op = "verify" /\ Answer(t, "true")
       \/ Permitted(t) /\ call[t].op = "require" /\ Then(t, "run")
    /\ SameCall

\* The negative result of VerifyAction goes to the audit log.
Blocked(t) ==
    /\ pc[t] = "blocked"
    /\ LogAction(t, call[t].action, "blocked")
    /\ Answer(t, IF call[t].op = "verify" THEN "false" ELSE "ErrTrust")
    /\ SameCall

\* fn has run, and its outcome is logged, under the name of the capability and
\* "_call": no property tells that name from the capability's own.
Run(t) ==
    /\ pc[t] = "run"
    /\ \E outcome \in {"success", "failure"} : LogAction(t, call[t].action, outcome)
    /\ Answer(t, "done")
    /\ SameCall

-----------------------------------------------------------------------------
(* Revoke: the status changes in one critical section, the log in another *)

CallRevoke(t) ==
    \E p \in Live, reason \in Reasons :
        Begin(t, [Call("revoke", p) EXCEPT !.reason = reason], "revoke")

Revoke(t) ==
    /\ pc[t] = "revoke"
    /\ heap' = [heap EXCEPT ![call[t].p].status = "revoked",
                            ![call[t].p].revoked_at = TRUE,
                            ![call[t].p].reason = call[t].reason]
    /\ Then(t, "revoke_log")
    /\ SameCall

RevokeLog(t) ==
    /\ pc[t] = "revoke_log"
    /\ LogAction(t, "passport_revoked", "success")
    /\ Answer(t, "done")
    /\ SameCall

-----------------------------------------------------------------------------
(* Export and LoadAgentPassport *)

CallExport(t) == \E p \in Live : Begin(t, [Call("export", p) EXCEPT !.unread = Parts], "export")

\* Mutated: Summary may be taken before the log is copied.
MayReadAnyOrder(t, part) == part \in call[t].unread

\* The log is copied first.  Summary, RevokedAt and RevokeReason are operands of
\* one expression: the language leaves their order open.
MayRead(t, part) ==
    part \in call[t].unread /\ (part = "log" \/ "log" \notin call[t].unread)

\* A revocation may be writing the reason just now: the string that Export reads
\* without the mutex is then the old one, the new one, or a mixture.
Writing(p) == \E t \in Threads : pc[t] = "revoke" /\ call[t].p = p

Filled(t, part) ==
    LET p == call[t].p
        d == doc[t]
    IN  CASE part = "log"        -> {[d EXCEPT !.log = heap[p].log]}
          [] part = "summary"    -> {[d EXCEPT !.status = heap[p].status, !.id = heap[p].id,
                                               !.caps = heap[p].caps,
                                               !.logged = Len(heap[p].log)]}
          [] part = "revoked_at" -> {[d EXCEPT !.revoked_at = heap[p].revoked_at]}
          [] part = "reason"     -> {[d EXCEPT !.reason = r] :
                                        r \in {heap[p].reason}
                                              \cup (IF Writing(p) THEN {"torn"} ELSE {})}

Export(t) ==
    /\ pc[t] = "export"
    /\ \E part \in Parts :
          /\ MayRead(t, part)
          /\ \E d \in Filled(t, part) : doc' = [doc EXCEPT ![t] = d]
          /\ call' = [call EXCEPT ![t].unread = @ \ {part}]
          /\ IF call[t].unread = {part} THEN Answer(t, "done") ELSE Then(t, "export")
    /\ UNCHANGED <<heap, overdue, files, told, since, calls>>

\* Mutated: the status is not restored.
LoadedStatusLost(f) == [status |-> None, id |-> f.id, caps |-> f.caps,
                        revoked_at |-> f.revoked_at, reason |-> f.reason, log |-> f.log]

Loaded(f) == [status |-> f.status, id |-> f.id, caps |-> f.caps,
              revoked_at |-> f.revoked_at, reason |-> f.reason, log |-> f.log]

\* A new object with the contents of the document; nobody else sees it yet.
LoadAgentPassport ==
    /\ calls < MaxCalls
    /\ calls' = calls + 1
    /\ RoomToAllocate
    /\ \E f \in files : heap' = [heap EXCEPT ![NewObject] = Loaded(f)]
    /\ UNCHANGED <<overdue, pc, call, answer, doc, files, told, since>>

\* The clock passes ExpiresAt.
Tick ==
    /\ \E p \in Live : heap[p].id \notin overdue /\ overdue' = overdue \cup {heap[p].id}
    /\ UNCHANGED <<heap, pc, call, answer, doc, files, told, since, calls>>

Quiescent ==
    /\ calls = MaxCalls
    /\ \A t \in Threads : pc[t] = "idle"
    /\ UNCHANGED passportVars

Enter(t) == CallLogAction(t) \/ CallIsTrusted(t) \/ CallIssue(t) \/ CallVerifyAction(t)
            \/ CallRequirePassport(t) \/ CallRevoke(t) \/ CallExport(t)

Step(t) == Log(t) \/ IsTrusted(t) \/ CheckParent(t) \/ IssueFails(t) \/ Create(t)
           \/ RequireTrusted(t) \/ VerifyAction(t) \/ Blocked(t) \/ Run(t) \/ Revoke(t) \/ RevokeLog(t)
           \/ Export(t)

Next == (\E t \in Threads : Enter(t) \/ Step(t) \/ Return(t))
        \/ LoadAgentPassport \/ Tick \/ Quiescent

Spec == Init /\ [][Next]_passportVars

-----------------------------------------------------------------------------
(* Properties *)

\* Every variable stays in its type: the fields of each passport, the call and
\* the half-made document of each goroutine.
TypeOK ==
    /\ heap \in [Passports -> Fields \cup {Unallocated}]
    /\ overdue \subseteq Passports
    /\ pc \in [Threads -> Steps \cup {"idle", "returned"}]
    /\ call \in [Threads -> CallRec \cup {NoCall}]
    /\ answer \in [Threads -> Answers \cup {None}]
    /\ \A t \in Threads : doc[t] = NoDoc \/ call[t].op = "export"
    /\ files \subseteq Doc
    /\ told \subseteq Live
    /\ since \in [Threads -> SUBSET told]
    /\ calls \in 0..MaxCalls

\* Trust never comes back: a revoked passport stays revoked and an expired one
\* does not become active, although every IsTrusted may write the status and
\* Revoke writes it without looking.
TrustNeverReturns ==
    [][\A p \in Passports :
          /\ heap[p].status = "revoked" => heap'[p].status = "revoked"
          /\ heap[p].status = "expired" => heap'[p].status \in {"expired", "revoked"}]_passportVars

\* The comment on Revoke: once Revoke has returned, every IsTrusted and
\* VerifyAction that begins after it fails; so does the wrapped function of
\* RequirePassport, and no child is issued.
RevokedMeansRefused ==
    \A t \in Threads :
        pc[t] = "returned" /\ call[t].p \in since[t] =>
            /\ call[t].op \in {"trusted", "verify"} => answer[t] = "false"
            /\ call[t].op = "require" => answer[t] = "ErrAuthentication"
            /\ call[t].op = "issue" => answer[t] \in {"ErrTrust", "ErrRegistration"}

\* A document that Export returns never hides a revocation its own log speaks
\* of: with a passport_revoked entry come the status, the time and a reason. This
\* needs callers that leave the action passport_revoked to Revoke: LogAction takes
\* any name, and Actions has to be without that one.
ExportsAdmitRevocation ==
    \A f \in files :
        (\E i \in DOMAIN f.log : f.log[i].action = "passport_revoked") =>
            f.status = "revoked" /\ f.revoked_at /\ f.reason # None

\* A reloaded passport, and the document it comes from, are never more trusted
\* than the passport that was exported, except for what happened after Export
\* took the summary: a passport whose Revoke had returned before Export began
\* is revoked in the document, and so in every object loaded from it.
ExportsRememberRevocation ==
    \A t \in Threads :
        pc[t] = "returned" /\ call[t].op = "export" /\ call[t].p \in since[t] =>
            /\ doc[t].status = "revoked" /\ doc[t].revoked_at
            /\ \E i \in DOMAIN doc[t].log : doc[t].log[i].action = "passport_revoked"

\* From the comment on Export, a document "round-trips through Load": the
\* passport loaded from it has the Summary the document carries.
ExportsRoundTrip == \A f \in files : f.logged = Len(f.log)

=============================================================================
