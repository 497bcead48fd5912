------------------------- MODULE LocalPassportProofs -------------------------
(***************************************************************************)
(* Proofs about LocalPassport, for any number of goroutines, passports and *)
(* calls: what a revocation means to every method that runs beside it.     *)
(***************************************************************************)
EXTENDS LocalPassport, FiniteSetTheorems, TLAPS

USE NobodyAssumption, MaxCallsAssumption, ReasonsAssumption

-----------------------------------------------------------------------------
(* The heap.  Every write is one of four: expiry is recorded, an entry is     *)
(* appended, a passport is revoked, or a new object is filled in.             *)

\* All that Revoke writes under the mutex is there.
RevokedNow(p) == heap[p].status = "revoked" /\ heap[p].revoked_at /\ heap[p].reason # None

\* The log has the entry that Revoke writes last.
Speaks(log) == \E i \in DOMAIN log : log[i].action = "passport_revoked"

\* Callers of LogAction leave the name of that entry to Revoke.  Nothing in the code
\* makes them, so it is no assumption: what depends on it says so.
Reserved == "passport_revoked" \notin Actions

\* The log has the entry, and nobody but Revoke can have written it.
Tells(log) == Reserved /\ Speaks(log)

HeapType == heap \in [Passports -> Fields \cup {Unallocated}]

\* A log never runs ahead of the fields: the entry comes after the revocation.
HeapInv == \A p \in Live : Tells(heap[p].log) => RevokedNow(p)

Extends(p, e) == heap' = [heap EXCEPT ![p].log = Append(heap[p].log, e)]
Revokes(p, r) == heap' = [heap EXCEPT ![p].status = "revoked",
                                      ![p].revoked_at = TRUE,
                                      ![p].reason = r]

HeapStep ==
    \/ UNCHANGED heap
    \/ \E p \in Live : Check(p)
    \/ \E p \in Live, e \in Entry :
          Extends(p, e) /\ (Reserved /\ e.action = "passport_revoked" => RevokedNow(p))
    \/ \E p \in Live, r \in Reasons : Revokes(p, r)
    \/ \E q \in Free, new \in Fields :
          /\ heap' = [heap EXCEPT ![q] = new]
          /\ Tells(new.log) => new.status = "revoked" /\ new.revoked_at /\ new.reason # None

\* A log grows by an entry at a time, and keeps those it has.
Longer(old, new) ==
    new = old \/ (Len(new) = Len(old) + 1 /\ \A i \in DOMAIN old : new[i] = old[i])

\* What no write undoes.
Grows ==
    \A p \in Live : /\ p \in Live'
                    /\ RevokedNow(p) => RevokedNow(p)'
                    /\ Speaks(heap[p].log) => Speaks(heap'[p].log)
                    /\ heap[p].status = "expired" => heap'[p].status \in {"expired", "revoked"}
                    /\ heap[p].status = "revoked" => heap'[p].status = "revoked"
                    /\ heap'[p].id = heap[p].id
                    /\ Longer(heap[p].log, heap'[p].log)

LEMMA LiveFields ==
    ASSUME HeapType
    PROVE  /\ Live = {p \in Passports : heap[p] \in Fields}
           /\ Free = {p \in Passports : heap[p] = Unallocated}
           /\ \A x \in Fields : x.status \in {"active", "expired", "revoked"}
  <1>1. \A x \in Fields : x.status \in {"active", "expired", "revoked"} /\ x.status # None
    BY DEF Fields, None
  <1>2. Unallocated.status = None
    BY DEF Unallocated
  <1>3. \A p \in Passports : heap[p] \in Fields \/ heap[p] = Unallocated
    BY DEF HeapType
  <1> QED BY <1>1, <1>2, <1>3 DEF Live, Free

\* A live object is rewritten, the others stay.
LEMMA OneRewritten ==
    ASSUME HeapType, HeapInv, NEW p \in Live, NEW new \in Fields,
           heap' = [heap EXCEPT ![p] = new],
           new.id = heap[p].id, Longer(heap[p].log, new.log),
           RevokedNow(p) => new.status = "revoked" /\ new.revoked_at /\ new.reason # None,
           Speaks(heap[p].log) => Speaks(new.log),
           Tells(new.log) => new.status = "revoked" /\ new.revoked_at /\ new.reason # None,
           heap[p].status = "expired" => new.status \in {"expired", "revoked"},
           heap[p].status = "revoked" => new.status = "revoked"
    PROVE  HeapType' /\ HeapInv' /\ Grows /\ Live' = Live
  <1>1. p \in Passports /\ \A x \in Fields : x.status # None
    BY DEF Live, Fields, None
  <1>2. heap'[p] = new /\ \A q \in Passports : q # p => heap'[q] = heap[q]
    BY <1>1 DEF HeapType
  <1>3. HeapType'
    BY <1>1 DEF HeapType
  <1>4. Live' = Live
    BY <1>1, <1>2 DEF Live
  <1>5. HeapInv'
    BY <1>2, <1>4 DEF HeapInv, RevokedNow, Live
  <1>6. Grows
    BY <1>2, <1>4 DEF Grows, RevokedNow, Live, Longer
  <1> QED BY <1>3, <1>4, <1>5, <1>6

LEMMA SpeaksOn ==
    ASSUME NEW log \in Seq(Entry), NEW e \in Entry
    PROVE  Speaks(Append(log, e)) <=> Speaks(log) \/ e.action = "passport_revoked"
  <1> DEFINE long == Append(log, e)
  <1>1. /\ Len(log) \in Nat /\ DOMAIN log = 1..Len(log) /\ DOMAIN long = 1..(Len(log) + 1)
        /\ \A i \in 1..Len(log) : long[i] = log[i]
        /\ long[Len(log) + 1] = e
    OBVIOUS
  <1> HIDE DEF long
  <1>2. \A i \in 1..(Len(log) + 1) : i \in 1..Len(log) \/ i = Len(log) + 1
    BY <1>1
  <1> QED BY <1>1, <1>2 DEF Speaks, long

LEMMA HeapStepKeeps ==
    ASSUME HeapType, HeapInv, HeapStep
    PROVE  HeapType' /\ HeapInv' /\ Grows
  <1>1. CASE UNCHANGED heap
    BY <1>1 DEF HeapType, HeapInv, Grows, RevokedNow, Live, Longer
  <1>2. ASSUME NEW p \in Live, Check(p)
        PROVE  HeapType' /\ HeapInv' /\ Grows
    <2> DEFINE x == heap[p]
               s == StatusOnceChecked(p)
               new == [x EXCEPT !.status = s]
    <2>1. x \in Fields /\ p \in Passports
      BY LiveFields
    <2>2. /\ s \in {"active", "expired", "revoked"}
          /\ x.status # "active" => s = x.status
      BY <2>1 DEF StatusOnceChecked, Fields
    <2>3. heap' = [heap EXCEPT ![p] = new]
      BY <1>2 DEF Check
    <2>4. /\ new \in Fields /\ new.status = s /\ new.id = x.id /\ new.log = x.log
          /\ new.revoked_at = x.revoked_at /\ new.reason = x.reason
      <3> HIDE DEF x, s
      <3> QED BY <2>1, <2>2 DEF Fields
    <2> HIDE DEF new, s
    <2>5. Tells(x.log) => RevokedNow(p)
      BY DEF HeapInv
    <2> QED BY <2>2, <2>3, <2>4, <2>5, OneRewritten DEF RevokedNow, Longer
  <1>3. ASSUME NEW p \in Live, NEW e \in Entry, Extends(p, e),
               Reserved /\ e.action = "passport_revoked" => RevokedNow(p)
        PROVE  HeapType' /\ HeapInv' /\ Grows
    <2> DEFINE x == heap[p]
               new == [x EXCEPT !.log = Append(x.log, e)]
    <2>1. x \in Fields /\ p \in Passports /\ x.log \in Seq(Entry)
      BY LiveFields DEF Fields
    <2>3. heap' = [heap EXCEPT ![p] = new]
      BY <1>3 DEF Extends
    <2>4. /\ new \in Fields /\ new.status = x.status /\ new.id = x.id /\ new.log = Append(x.log, e)
          /\ new.revoked_at = x.revoked_at /\ new.reason = x.reason
      <3>1. Append(x.log, e) \in Seq(Entry)
        BY <2>1
      <3> DEFINE log == Append(x.log, e)
      <3>2. /\ [x EXCEPT !.log = log] \in Fields
            /\ LET y == [x EXCEPT !.log = log]
               IN  /\ y.status = x.status /\ y.id = x.id /\ y.log = log
                   /\ y.revoked_at = x.revoked_at /\ y.reason = x.reason
        <4> HIDE DEF x, log
        <4> QED BY <2>1, <3>1 DEF Fields, log
      <3> QED BY <3>2
    <2> HIDE DEF new
    <2>5. Tells(x.log) => RevokedNow(p)
      BY DEF HeapInv
    <2>6. Speaks(new.log) <=> Speaks(x.log) \/ e.action = "passport_revoked"
      BY <2>1, <2>4, SpeaksOn
    <2>7. Longer(x.log, new.log)
      <3> DEFINE log == x.log
      <3>1. Len(Append(log, e)) = Len(log) + 1 /\ \A i \in DOMAIN log : Append(log, e)[i] = log[i]
        <4>1. log \in Seq(Entry)
          BY <2>1
        <4> HIDE DEF log
        <4> QED BY <4>1
      <3> QED BY <2>4, <3>1 DEF Longer
    <2> QED BY <1>3, <2>3, <2>4, <2>5, <2>6, <2>7, OneRewritten DEF RevokedNow, Tells
  <1>4. ASSUME NEW p \in Live, NEW r \in Reasons, Revokes(p, r)
        PROVE  HeapType' /\ HeapInv' /\ Grows
    <2> DEFINE x == heap[p]
               new == [x EXCEPT !.status = "revoked", !.revoked_at = TRUE, !.reason = r]
    <2>1. x \in Fields /\ p \in Passports
      BY LiveFields
    <2>3. heap' = [heap EXCEPT ![p] = new]
      BY <1>4, <2>1 DEF Revokes, HeapType
    <2>4. /\ new \in Fields /\ new.status = "revoked" /\ new.id = x.id /\ new.log = x.log
          /\ new.revoked_at = TRUE /\ new.reason = r /\ r # None
      <3> HIDE DEF x
      <3> QED BY <2>1 DEF Fields
    <2> HIDE DEF new
    <2> QED BY <2>3, <2>4, OneRewritten DEF Longer
  <1>5. ASSUME NEW q \in Free, NEW new \in Fields, heap' = [heap EXCEPT ![q] = new],
               Tells(new.log) => new.status = "revoked" /\ new.revoked_at /\ new.reason # None
        PROVE  HeapType' /\ HeapInv' /\ Grows
    <2>1. q \in Passports /\ q \notin Live /\ new.status # None
      BY DEF Free, Fields, None
    <2>2. heap'[q] = new /\ \A p \in Passports : p # q => heap'[p] = heap[p]
      BY <1>5, <2>1 DEF HeapType
    <2>3. Live' = Live \cup {q}
      BY <2>1, <2>2 DEF Live
    <2>4. HeapType'
      BY <1>5, <2>1 DEF HeapType
    <2>5. HeapInv'
      BY <1>5, <2>2, <2>3 DEF HeapInv, RevokedNow, Live
    <2>6. Grows
      BY <2>1, <2>2, <2>3 DEF Grows, RevokedNow, Live, Longer
    <2> QED BY <2>4, <2>5, <2>6
  <1> QED BY <1>1, <1>2, <1>3, <1>4, <1>5 DEF HeapStep

-----------------------------------------------------------------------------
(* The invariant *)

\* The method a goroutine is in, at its next critical section.
OpsAt(step) ==
    CASE step \in {"log", "trusted", "require", "export"} -> {step}
      [] step \in {"issue", "create"}                     -> {"issue"}
      [] step \in {"verify", "blocked"}                   -> {"verify", "require"}
      [] step = "run"                                     -> {"require"}
      [] step \in {"revoke", "revoke_log"}                -> {"revoke"}
      [] OTHER                                            -> Ops

\* A call in progress is one of its method, on a passport that exists.
CallOK(t) ==
    /\ pc[t] = "idle" => call[t] = NoCall
    /\ pc[t] # "idle" =>
          /\ call[t] \in CallRec /\ call[t].op \in OpsAt(pc[t])
          /\ call[t].p \in Live \/ (call[t].op = "issue" /\ call[t].p = Nobody)
          /\ call[t].op = "issue" => call[t].caps \in Presets
          /\ call[t].op = "revoke" => call[t].reason \in Reasons

\* A call that began after a Revoke had returned is on its way to a refusal.
RefusedInv(t) ==
    call[t].p \in since[t] =>
        /\ pc[t] \notin {"create", "run"}
        /\ pc[t] \in {"verify", "blocked"} => call[t].op = "verify"
        /\ pc[t] = "returned" =>
              /\ call[t].op \in {"trusted", "verify"} => answer[t] = "false"
              /\ call[t].op = "require" => answer[t] = "ErrAuthentication"
              /\ call[t].op = "issue" => answer[t] \in {"ErrTrust", "ErrRegistration"}

\* Revoke has set the fields before it logs, and has logged before it returns.
RevokeInv(t) ==
    /\ pc[t] = "revoke_log" => RevokedNow(call[t].p)
    /\ pc[t] = "returned" /\ call[t].op = "revoke" =>
          RevokedNow(call[t].p) /\ Speaks(heap[call[t].p].log)

\* A document being put together.
Draft == [status: {None, "active", "expired", "revoked"}, id: Passports \cup {Nobody},
          caps: Presets \cup {{}}, revoked_at: BOOLEAN, reason: Reasons \cup {None, "torn"},
          log: Seq(Entry), logged: Nat]

\* The log is read first.  If it speaks of a revocation, or the revocation had
\* been reported before, then the parts that are read later carry it.
DocInv(t) ==
    LET p == call[t].p
        d == doc[t]
        U == call[t].unread
    IN  /\ d \in Draft
        /\ call[t].op # "export" => d = NoDoc
        /\ call[t].op = "export" =>
              /\ "log" \in U => U = Parts
              /\ pc[t] = "export" => U # {}
              /\ pc[t] = "returned" => U = {}
              /\ "summary" \notin U => d.status # None /\ d.id # Nobody /\ d.caps \in Presets
              /\ Tells(d.log) \/ p \in since[t] =>
                    /\ RevokedNow(p)
                    /\ "summary" \notin U => d.status = "revoked"
                    /\ "revoked_at" \notin U => d.revoked_at
                    /\ "reason" \notin U => d.reason # None
              /\ p \in since[t] /\ "log" \notin U => Speaks(d.log)

ThreadInv(t) == CallOK(t) /\ RefusedInv(t) /\ RevokeInv(t) /\ DocInv(t)

\* A reported revocation has all its fields, and its entry.
ToldInv == \A p \in told : p \in Live /\ RevokedNow(p) /\ Speaks(heap[p].log)

Admits(f) == Tells(f.log) => f.status = "revoked" /\ f.revoked_at /\ f.reason # None

FilesInv == files \subseteq Doc /\ \A f \in files : Admits(f)

\* An object is left for every goroutine that may still create one.
Pending == {t \in Threads : pc[t] \in {"issue", "create"}}
RoomInv == Cardinality(Pending) <= Cardinality(Free)

ShapeOK ==
    /\ overdue \subseteq Passports
    /\ pc \in [Threads -> Steps \cup {"idle", "returned"}]
    /\ call \in [Threads -> CallRec \cup {NoCall}]
    /\ answer \in [Threads -> Answers \cup {None}]
    /\ DOMAIN doc = Threads /\ doc = [t \in Threads |-> doc[t]]
    /\ since \in [Threads -> SUBSET told]
    /\ calls \in 0..MaxCalls

PassportInv == /\ HeapType /\ HeapInv /\ ToldInv /\ FilesInv /\ RoomInv /\ ShapeOK
               /\ \A t \in Threads : ThreadInv(t)

LEMMA InitPassportInv == Init => PassportInv
  <1> SUFFICES ASSUME Init PROVE PassportInv
    OBVIOUS
  <1>1. /\ HeapType /\ Live = {} /\ Free = Passports
    BY DEF Init, HeapType, Live, Free, Unallocated
  <1>2. HeapInv /\ ToldInv /\ FilesInv /\ ShapeOK
    BY <1>1 DEF Init, HeapInv, ToldInv, FilesInv, ShapeOK
  <1>3. Pending = {} /\ Cardinality(Pending) = 0 /\ Cardinality(Free) \in Nat
    BY <1>1, FS_EmptySet, FS_CardinalityType, FiniteAssumption DEF Init, Pending
  <1>4. NoDoc \in Draft
    BY DEF NoDoc, Draft
  <1>5. ASSUME NEW t \in Threads
        PROVE  ThreadInv(t)
    BY <1>4 DEF Init, ThreadInv, CallOK, RefusedInv, RevokeInv, DocInv, NoCall, None
  <1> QED BY <1>1, <1>2, <1>3, <1>5 DEF PassportInv, RoomInv

\* A goroutine that does not move keeps its promises while the heap grows.
Still(t) == /\ pc'[t] = pc[t] /\ call'[t] = call[t] /\ answer'[t] = answer[t]
            /\ doc'[t] = doc[t] /\ since'[t] = since[t]

LEMMA StillKeeps ==
    ASSUME PassportInv, Grows, NEW t \in Threads, Still(t)
    PROVE  ThreadInv(t)'
  <1>1. ThreadInv(t)
    BY DEF PassportInv
  <1>2. CallOK(t)'
    BY <1>1 DEF ThreadInv, CallOK, Still, Grows
  <1>3. RefusedInv(t)'
    BY <1>1 DEF ThreadInv, RefusedInv, Still
  <1>4. pc[t] # "idle" /\ call[t].op # "issue" => call[t].p \in Live
    BY <1>1 DEF ThreadInv, CallOK
  <1>5. RevokeInv(t)'
    <2>1. pc[t] = "revoke_log" => call[t].op # "issue"
      BY <1>1 DEF ThreadInv, CallOK, OpsAt
    <2> QED BY <1>1, <1>4, <2>1 DEF ThreadInv, RevokeInv, Still, Grows, RevokedNow
  <1>6. DocInv(t)'
    <2>1. call[t].op = "export" => call[t].p \in Live
      BY <1>1, <1>4 DEF ThreadInv, CallOK, NoCall, None
    <2> QED BY <1>1, <2>1 DEF ThreadInv, DocInv, Still, Grows, RevokedNow
  <1> QED BY <1>2, <1>3, <1>5, <1>6 DEF ThreadInv

\* What a call that is under way may rely on.
LEMMA UnderWay ==
    ASSUME PassportInv, NEW t \in Threads, pc[t] # "idle"
    PROVE  /\ call[t] \in CallRec /\ call[t].op \in OpsAt(pc[t])
           /\ call[t].op # "issue" =>
                 call[t].p \in Live /\ call[t].p \in Passports /\ heap[call[t].p] \in Fields
           /\ call[t].op = "issue" => call[t].p \in Live \/ call[t].p = Nobody
           /\ call[t].n \in 1..MaxCalls
           /\ call[t].p \in since[t] => RevokedNow(call[t].p) /\ Speaks(heap[call[t].p].log)
  <1>1. ThreadInv(t) /\ HeapType /\ HeapInv /\ ToldInv /\ since[t] \subseteq told
    BY DEF PassportInv, ShapeOK
  <1>2. call[t] \in CallRec /\ call[t].op \in OpsAt(pc[t])
    BY <1>1 DEF ThreadInv, CallOK
  <1>3. \A p \in Live : heap[p] \in Fields /\ p \in Passports
    BY <1>1, LiveFields
  <1> QED BY <1>1, <1>2, <1>3 DEF ThreadInv, CallOK, CallRec, ToldInv, HeapInv

-----------------------------------------------------------------------------
(* Steps *)

\* Critical sections that read and write fields, Export's reads apart.
Section(t) == Log(t) \/ IsTrusted(t) \/ CheckParent(t) \/ IssueFails(t) \/ Create(t)
              \/ RequireTrusted(t) \/ VerifyAction(t) \/ Blocked(t) \/ Run(t) \/ Revoke(t) \/ RevokeLog(t)

\* A section ends with the next one, or with an answer.
LEMMA Ends ==
    ASSUME PassportInv, NEW t \in Threads
    PROVE  /\ \A step : Then(t, step) => pc'[t] = step /\ answer'[t] = answer[t]
           /\ \A a : Answer(t, a) => pc'[t] = "returned" /\ answer'[t] = a
           /\ \A step \in Steps : Then(t, step) =>
                 /\ pc' \in [Threads -> Steps \cup {"idle", "returned"}]
                 /\ answer' \in [Threads -> Answers \cup {None}]
                 /\ \A u \in Threads \ {t} : pc'[u] = pc[u] /\ answer'[u] = answer[u]
           /\ \A a \in Answers : Answer(t, a) =>
                 /\ pc' \in [Threads -> Steps \cup {"idle", "returned"}]
                 /\ answer' \in [Threads -> Answers \cup {None}]
                 /\ \A u \in Threads \ {t} : pc'[u] = pc[u] /\ answer'[u] = answer[u]
  <1>1. ShapeOK
    BY DEF PassportInv
  <1> QED BY <1>1 DEF ShapeOK, Then, Answer

SectionEnds(t) ==
    /\ SameCall
    /\ \/ \E step \in Steps : /\ Then(t, step) /\ call[t].op \in OpsAt(step)
                              /\ step \notin {"issue", "export"}
                              /\ (step = "create" => pc[t] = "issue")
       \/ \E a \in Answers : Answer(t, a)

LEMMA SectionShape ==
    ASSUME PassportInv, NEW t \in Threads, Section(t)
    PROVE  SectionEnds(t) /\ pc[t] \in Steps \ {"export"}
  <1>1. SameCall /\ pc[t] \in Steps \ {"export"}
    BY Section(t) DEF Section, Log, IsTrusted, CheckParent, IssueFails, Create, RequireTrusted,
                      VerifyAction, Blocked, Run, Revoke, RevokeLog, Steps
  <1>2. call[t].op \in OpsAt(pc[t])
    BY <1>1, UnderWay DEF Steps
  <1> USE DEF Answers, Steps
  <1>3. CASE Log(t) \/ IsTrusted(t) \/ IssueFails(t) \/ Create(t) \/ Blocked(t) \/ Run(t) \/ RevokeLog(t)
    BY <1>1, <1>3 DEF Log, IsTrusted, IssueFails, Create, Blocked, Run, RevokeLog, SectionEnds
  <1>4. CASE CheckParent(t)
    BY <1>1, <1>2, <1>4 DEF CheckParent, SectionEnds, OpsAt
  <1>5. CASE RequireTrusted(t)
    BY <1>1, <1>2, <1>5 DEF RequireTrusted, SectionEnds, OpsAt
  <1>6. CASE VerifyAction(t)
    BY <1>1, <1>2, <1>6 DEF VerifyAction, SectionEnds, OpsAt
  <1>7. CASE Revoke(t)
    BY <1>1, <1>2, <1>7 DEF Revoke, SectionEnds, OpsAt
  <1> QED BY <1>3, <1>4, <1>5, <1>6, <1>7, Section(t) DEF Section

\* An entry that a section appends is well formed, and says that the passport is
\* revoked only when it is.
LEMMA SectionHeap ==
    ASSUME PassportInv, NEW t \in Threads, Section(t)
    PROVE  HeapStep
  <1> DEFINE p == call[t].p
  <1>0. pc[t] # "idle" /\ call[t].op \in OpsAt(pc[t])
    BY SectionShape, UnderWay DEF Steps
  <1>1. call[t].op # "issue" => p \in Live
    BY <1>0, UnderWay
  <1>2. ASSUME NEW action \in Actions \cup {NoAction, "passport_revoked"},
               NEW outcome \in {"success", "blocked", "failure"},
               LogAction(t, action, outcome), call[t].op # "issue",
               Reserved /\ action = "passport_revoked" => RevokedNow(p)
        PROVE  HeapStep
    <2> DEFINE e == [n |-> call[t].n, action |-> action, outcome |-> outcome]
    <2>1. e \in Entry /\ e.action = action
      BY <1>0, UnderWay DEF Entry
    <2>2. Extends(p, e)
      BY <1>2 DEF LogAction, LogWith, Extends
    <2> HIDE DEF e
    <2> QED BY <1>1, <1>2, <2>1, <2>2 DEF HeapStep
  <1>3. call[t].action \in Actions \cup {NoAction} /\ (Reserved => call[t].action # "passport_revoked")
    BY <1>0, UnderWay DEF CallRec, NoAction, Reserved
  <1>4. CASE Log(t)
    BY <1>0, <1>2, <1>3, <1>4 DEF Log, OpsAt
  <1>5. CASE IsTrusted(t) \/ RequireTrusted(t) \/ VerifyAction(t)
    <2>1. call[t].op # "issue" /\ Check(p)
      BY <1>0, <1>5 DEF IsTrusted, RequireTrusted, VerifyAction, OpsAt
    <2> QED BY <1>1, <2>1 DEF HeapStep
  <1>6. CASE CheckParent(t)
    <2>1. call[t].op = "issue"
      BY <1>0, <1>6 DEF CheckParent, OpsAt
    <2>2. p \in Live \/ p = Nobody
      BY <1>0, <2>1, UnderWay
    <2> QED BY <1>6, <2>2 DEF CheckParent, HeapStep
  <1>7. CASE Create(t)
    <2> DEFINE e   == [n |-> call[t].n, action |-> "passport_issued", outcome |-> "success"]
               new == [status |-> "active", id |-> NewObject, caps |-> call[t].caps,
                       revoked_at |-> FALSE, reason |-> None, log |-> <<e>>]
    <2>1. pc[t] = "create" /\ heap' = [heap EXCEPT ![NewObject] = new]
      BY <1>7 DEF Create
    <2>2. t \in Pending /\ IsFiniteSet(Pending) /\ IsFiniteSet(Free)
      <3>1. Pending \in SUBSET Threads /\ Free \in SUBSET Passports /\ t \in Pending
        BY <2>1 DEF Pending, Free
      <3> QED BY <3>1, FS_Subset, FiniteAssumption
    <2>3. Cardinality(Pending) \in Nat /\ Cardinality(Pending) # 0 /\ Cardinality(Free) \in Nat
      BY <2>2, FS_CardinalityType, FS_EmptySet
    <2>4. Free # {}
      BY <2>2, <2>3, FS_EmptySet DEF PassportInv, RoomInv
    <2>5. NewObject \in Free /\ NewObject \in Passports
      BY <2>4 DEF NewObject, Free
    <2>6. e \in Entry /\ e.action # "passport_revoked"
      BY <1>0, UnderWay DEF Entry
    <2>7. call[t].caps \in Presets
      BY <1>0, <2>1 DEF PassportInv, ThreadInv, CallOK, OpsAt
    <2> HIDE DEF e
    <2>8. new \in Fields /\ new.log = <<e>> /\ ~Tells(<<e>>)
      BY <2>5, <2>6, <2>7 DEF Fields, Speaks, Tells
    <2> HIDE DEF new
    <2> QED BY <2>1, <2>5, <2>8 DEF HeapStep
  <1>8. CASE Blocked(t)
    BY <1>0, <1>2, <1>3, <1>8 DEF Blocked, OpsAt
  <1>9. CASE Run(t)
    BY <1>0, <1>2, <1>3, <1>9 DEF Run, OpsAt
  <1>10. CASE Revoke(t)
    <2>1. call[t].op = "revoke" /\ call[t].reason \in Reasons
      BY <1>0, <1>10 DEF Revoke, OpsAt, PassportInv, ThreadInv, CallOK
    <2>2. Revokes(p, call[t].reason)
      BY <1>10 DEF Revoke, Revokes
    <2> QED BY <1>1, <2>1, <2>2 DEF HeapStep
  <1>11. CASE RevokeLog(t)
    <2>1. RevokedNow(p) /\ call[t].op = "revoke"
      BY <1>0, <1>11 DEF RevokeLog, OpsAt, PassportInv, ThreadInv, RevokeInv
    <2> QED BY <1>2, <1>11, <2>1 DEF RevokeLog
  <1>12. CASE IssueFails(t)
    BY <1>12 DEF IssueFails, HeapStep
  <1> QED BY <1>4, <1>5, <1>6, <1>7, <1>8, <1>9, <1>10, <1>11, <1>12, Section(t)
         DEF Section

\* The moved goroutine is in a call as its next section wants it.
LEMMA SectionCallOK ==
    ASSUME PassportInv, Grows, NEW t \in Threads, Section(t)
    PROVE  CallOK(t)' /\ DocInv(t)'
  <1>1. SectionEnds(t) /\ pc[t] \in Steps \ {"export"}
    BY SectionShape
  <1>2. pc[t] # "idle" /\ ThreadInv(t)
    BY <1>1 DEF Steps, PassportInv
  <1>3. call' = call /\ doc' = doc /\ since' = since
    BY <1>1 DEF SectionEnds, SameCall
  <1>4. pc'[t] # "idle" /\ call[t].op \in OpsAt(pc'[t])
    <2>1. CASE \E step \in Steps : Then(t, step) /\ call[t].op \in OpsAt(step)
      BY <2>1, Ends DEF Steps
    <2>2. CASE \E a \in Answers : Answer(t, a)
      <3>1. pc'[t] = "returned" /\ call[t].op \in OpsAt(pc[t])
        BY <1>2, <2>2, Ends, UnderWay
      <3> QED BY <3>1 DEF OpsAt, Ops
    <2> QED BY <1>1, <2>1, <2>2 DEF SectionEnds
  <1>5. CallOK(t)'
    BY <1>2, <1>3, <1>4 DEF ThreadInv, CallOK, Grows
  <1>6. call[t].op # "export"
    BY <1>1, <1>2, UnderWay DEF OpsAt, Steps
  <1>7. DocInv(t)'
    BY <1>2, <1>3, <1>6 DEF ThreadInv, DocInv
  <1> QED BY <1>5, <1>7

\* Whatever a section decides about a passport whose revocation had been
\* reported, it is a refusal.
LEMMA SectionRefuses ==
    ASSUME PassportInv, NEW t \in Threads, Section(t)
    PROVE  RefusedInv(t)'
  <1> DEFINE p == call[t].p
  <1>1. call' = call /\ since' = since
    BY SectionShape DEF SectionEnds, SameCall
  <1>2. SUFFICES ASSUME p \in since[t]
                 PROVE  RefusedInv(t)'
    BY <1>1 DEF RefusedInv
  <1>3. /\ pc[t] # "idle" /\ call[t].op \in OpsAt(pc[t])
        /\ RefusedInv(t)
    BY SectionShape, UnderWay DEF Steps, PassportInv, ThreadInv
  <1>4. ~Trusted(p) /\ ~Permitted(t) /\ p # Nobody
    <2>1. RevokedNow(p)
      BY <1>2, <1>3, UnderWay
    <2>2. p \in Passports
      BY <1>2 DEF PassportInv, ShapeOK, ToldInv, Live
    <2> QED BY <2>1, <2>2 DEF RevokedNow, Trusted, Permitted
  <1>5. /\ pc[t] \notin {"create", "run"}
        /\ pc[t] \in {"verify", "blocked"} => call[t].op = "verify"
    BY <1>2, <1>3 DEF RefusedInv
  <1>6. CASE Log(t)
    BY <1>1, <1>3, <1>6, Ends DEF Log, RefusedInv, OpsAt
  <1>7. CASE IsTrusted(t)
    BY <1>1, <1>3, <1>4, <1>7, Ends DEF IsTrusted, RefusedInv, OpsAt
  <1>8. CASE CheckParent(t)
    BY <1>1, <1>3, <1>4, <1>8, Ends DEF CheckParent, RefusedInv, OpsAt
  <1>9. CASE RequireTrusted(t)
    BY <1>1, <1>3, <1>4, <1>9, Ends DEF RequireTrusted, RefusedInv, OpsAt
  <1>10. CASE VerifyAction(t)
    BY <1>1, <1>3, <1>4, <1>5, <1>10, Ends DEF VerifyAction, RefusedInv, OpsAt
  <1>11. CASE Blocked(t)
    BY <1>1, <1>3, <1>5, <1>11, Ends DEF Blocked, RefusedInv
  <1>12. CASE Revoke(t)
    BY <1>1, <1>3, <1>12, Ends DEF Revoke, RefusedInv, OpsAt
  <1>13. CASE RevokeLog(t)
    BY <1>1, <1>3, <1>13, Ends DEF RevokeLog, RefusedInv, OpsAt
  <1>14. CASE Create(t) \/ Run(t)
    BY <1>5, <1>14 DEF Create, Run
  <1>15. CASE IssueFails(t)
    BY <1>1, <1>3, <1>5, <1>15, Ends DEF IssueFails, RefusedInv, OpsAt
  <1> QED BY <1>6, <1>7, <1>8, <1>9, <1>10, <1>11, <1>12, <1>13, <1>14, <1>15, Section(t)
         DEF Section

LEMMA SectionRevokes ==
    ASSUME PassportInv, NEW t \in Threads, Section(t)
    PROVE  RevokeInv(t)'
  <1> DEFINE p == call[t].p
  <1>1. call' = call
    BY SectionShape DEF SectionEnds, SameCall
  <1>2. pc[t] # "idle" /\ call[t].op \in OpsAt(pc[t])
    BY SectionShape, UnderWay DEF Steps
  <1>3. CASE Revoke(t)
    <2>1. p \in Passports /\ heap[p] \in Fields /\ pc'[t] = "revoke_log"
      BY <1>2, <1>3, UnderWay, Ends DEF Revoke, OpsAt
    <2>2. call[t].reason # None
      BY <1>2, <1>3 DEF Revoke, OpsAt, PassportInv, ThreadInv, CallOK
    <2>3. heap' = [heap EXCEPT ![p].status = "revoked", ![p].revoked_at = TRUE,
                               ![p].reason = call[t].reason]
      BY <1>3 DEF Revoke
    <2>4. /\ heap'[p].status = "revoked" /\ heap'[p].revoked_at
          /\ heap'[p].reason = call[t].reason
      BY <2>1, <2>3 DEF PassportInv, HeapType, Fields
    <2> QED BY <1>1, <2>1, <2>2, <2>4 DEF RevokeInv, RevokedNow
  <1>4. CASE RevokeLog(t)
    <2> DEFINE e == [n |-> call[t].n, action |-> "passport_revoked", outcome |-> "success"]
    <2>1. p \in Passports /\ heap[p] \in Fields /\ pc'[t] = "returned"
      BY <1>2, <1>4, UnderWay, Ends DEF RevokeLog, OpsAt
    <2>2. e \in Entry /\ e.action = "passport_revoked"
      BY <1>2, UnderWay DEF Entry
    <2>3. heap' = [heap EXCEPT ![p].log = Append(heap[p].log, e)]
      BY <1>4 DEF RevokeLog, LogAction, LogWith
    <2> HIDE DEF e
    <2>4. heap[p].log \in Seq(Entry) /\ heap'[p].log = Append(heap[p].log, e)
      BY <2>1, <2>3 DEF PassportInv, HeapType, Fields
    <2>5. Speaks(heap'[p].log)
      BY <2>2, <2>4, SpeaksOn
    <2>6. RevokedNow(p)'
      <3>1. p \in Live /\ RevokedNow(p)
        BY <1>2, <1>4, UnderWay DEF RevokeLog, OpsAt, PassportInv, ThreadInv, RevokeInv
      <3> QED BY <1>1, <3>1, SectionHeap, HeapStepKeeps DEF PassportInv, Grows, RevokedNow
    <2> QED BY <1>1, <2>1, <2>5, <2>6 DEF RevokeInv, RevokedNow
  <1>5. CASE ~Revoke(t) /\ ~RevokeLog(t)
    <2>1. pc[t] \notin {"revoke", "revoke_log"}
      BY <1>5, Section(t)
         DEF Section, Log, IsTrusted, CheckParent, IssueFails, Create, RequireTrusted, VerifyAction,
             Blocked, Run
    <2>2. call[t].op # "revoke"
      BY <1>2, <2>1, SectionShape DEF OpsAt, Steps
    <2>3. pc'[t] # "revoke_log"
      <3>1. \A step \in Steps : Then(t, step) /\ call[t].op \in OpsAt(step) => pc'[t] # "revoke_log"
        BY <2>2, Ends DEF OpsAt
      <3> QED BY <3>1, SectionShape, Ends DEF SectionEnds
    <2> QED BY <1>1, <2>2, <2>3 DEF RevokeInv
  <1> QED BY <1>3, <1>4, <1>5

\* Only Create and LoadAgentPassport fill in objects that were free.
LEMMA SectionFree ==
    ASSUME PassportInv, NEW t \in Threads, Section(t), ~Create(t)
    PROVE  Live' = Live
  <1> DEFINE p == call[t].p
  <1>1. HeapType /\ HeapType' /\ Grows
    BY SectionHeap, HeapStepKeeps DEF PassportInv
  <1>2. pc[t] # "idle" /\ call[t].op \in OpsAt(pc[t])
    BY SectionShape, UnderWay DEF Steps
  <1>3. p \in Live \/ UNCHANGED heap
    <2>1. call[t].op # "issue" => p \in Live
      BY <1>2, UnderWay
    <2>2. call[t].op = "issue" => CheckParent(t) \/ IssueFails(t)
      BY <1>2, Section(t), ~Create(t)
         DEF Section, Log, IsTrusted, RequireTrusted, VerifyAction, Blocked, Run, Revoke, RevokeLog, OpsAt
    <2>3. call[t].op = "issue" => p \in Live \/ p = Nobody
      BY <1>2, UnderWay
    <2> QED BY <2>1, <2>2, <2>3 DEF CheckParent, IssueFails
  <1>4. \A q \in Passports : q # p => heap'[q] = heap[q]
    BY <1>1, Section(t), ~Create(t)
       DEF Section, Log, IsTrusted, CheckParent, IssueFails, RequireTrusted, VerifyAction, Blocked,
           Run, Revoke, RevokeLog, Check, LogAction, HeapType
  <1>5. p \in Live => p \in Live'
    BY <1>1 DEF Grows
  <1> QED BY <1>3, <1>4, <1>5 DEF Live

LEMMA Counts ==
    /\ IsFiniteSet(Pending) /\ Cardinality(Pending) \in Nat
    /\ IsFiniteSet(Free) /\ Cardinality(Free) \in Nat
  <1>1. Pending \in SUBSET Threads /\ Free \in SUBSET Passports
    BY DEF Pending, Free
  <1> QED BY <1>1, FS_Subset, FS_CardinalityType, FiniteAssumption

LEMMA RoomStays ==
    ASSUME RoomInv, Live' = Live, NEW S, S = Pending', S \subseteq Pending
    PROVE  RoomInv'
  <1>1. Cardinality(S) <= Cardinality(Pending) /\ Cardinality(S) \in Nat
    BY Counts, FS_Subset, FS_CardinalityType
  <1>2. Free' = Free
    BY DEF Free
  <1> QED BY <1>1, <1>2, Counts DEF RoomInv

LEMMA SectionRoom ==
    ASSUME PassportInv, NEW t \in Threads, Section(t)
    PROVE  RoomInv'
  <1>1. /\ \A u \in Threads \ {t} : pc'[u] = pc[u]
        /\ pc'[t] \in {"issue", "create"} => pc[t] = "issue"
    <2>1. ASSUME NEW step \in Steps, Then(t, step), step # "issue",
                 step = "create" => pc[t] = "issue"
          PROVE  /\ \A u \in Threads \ {t} : pc'[u] = pc[u]
                 /\ pc'[t] \in {"issue", "create"} => pc[t] = "issue"
      BY <2>1, Ends
    <2>2. ASSUME NEW a \in Answers, Answer(t, a)
          PROVE  /\ \A u \in Threads \ {t} : pc'[u] = pc[u]
                 /\ pc'[t] \in {"issue", "create"} => pc[t] = "issue"
      BY <2>2, Ends
    <2> QED BY <2>1, <2>2, SectionShape DEF SectionEnds
  <1>2. Pending' \subseteq Pending
    BY <1>1 DEF Pending
  <1>3. CASE ~Create(t)
    BY <1>2, <1>3, SectionFree, RoomStays DEF PassportInv
  <1>4. CASE Create(t)
    <2>1. t \in Pending /\ t \notin Pending'
      BY <1>4, Ends DEF Create, Pending
    <2>2. Pending' = Pending \ {t}
      BY <1>1, <2>1 DEF Pending
    <2>3. Cardinality(Pending \ {t}) = Cardinality(Pending) - 1
      BY <2>1, Counts, FS_RemoveElement
    <2>4. Free # {}
      BY <2>1, Counts, FS_EmptySet DEF PassportInv, RoomInv
    <2>5. NewObject \in Free
      BY <2>4 DEF NewObject, Free
    <2>6. Cardinality(Free \ {NewObject}) = Cardinality(Free) - 1
      BY <2>5, Counts, FS_RemoveElement
    <2>7. Free' = Free \ {NewObject}
      <3> DEFINE q == NewObject
      <3>1. q \in Passports /\ heap'[q].status = "active"
        BY <1>4, <2>5 DEF Create, Free, PassportInv, HeapType
      <3>2. \A p \in Passports : p # q => heap'[p] = heap[p]
        BY <1>4, <2>5 DEF Create, PassportInv, HeapType
      <3> HIDE DEF q
      <3>3. Free' = Free \ {q}
        BY <3>1, <3>2 DEF Free, Live, None
      <3> QED BY <3>3 DEF q
    <2> QED BY <2>2, <2>3, <2>6, <2>7, Counts DEF PassportInv, RoomInv
  <1> QED BY <1>3, <1>4

LEMMA SectionInv ==
    ASSUME PassportInv, NEW t \in Threads, Section(t)
    PROVE  PassportInv' /\ Grows
  <1>1. HeapType' /\ HeapInv' /\ Grows
    BY SectionHeap, HeapStepKeeps DEF PassportInv
  <1>2. /\ UNCHANGED <<overdue, call, doc, files, told, since, calls>>
        /\ pc' \in [Threads -> Steps \cup {"idle", "returned"}]
        /\ answer' \in [Threads -> Answers \cup {None}]
        /\ \A u \in Threads \ {t} : pc'[u] = pc[u] /\ answer'[u] = answer[u]
    <2>1. UNCHANGED <<overdue, call, doc, files, told, since, calls>>
      BY SectionShape DEF SectionEnds, SameCall
    <2> QED BY <2>1, SectionShape, Ends DEF SectionEnds
  <1>3. ToldInv' /\ FilesInv' /\ ShapeOK'
    BY <1>1, <1>2 DEF PassportInv, ToldInv, FilesInv, Admits, ShapeOK, Grows
  <1>4. ThreadInv(t)'
    BY <1>1, SectionCallOK, SectionRefuses, SectionRevokes DEF ThreadInv
  <1>5. \A u \in Threads \ {t} : ThreadInv(u)'
    BY <1>1, <1>2, StillKeeps DEF Still
  <1> QED BY <1>1, <1>3, <1>4, <1>5, SectionRoom DEF PassportInv

-----------------------------------------------------------------------------
(* Export *)

\* One part has been read into the draft, as the heap had it at that moment.
PartRead(p, d, part, new) ==
    /\ new \in Draft
    /\ new.log = IF part = "log" THEN heap[p].log ELSE d.log
    /\ new.status = IF part = "summary" THEN heap[p].status ELSE d.status
    /\ new.id = IF part = "summary" THEN heap[p].id ELSE d.id
    /\ new.caps = IF part = "summary" THEN heap[p].caps ELSE d.caps
    /\ new.revoked_at = IF part = "revoked_at" THEN heap[p].revoked_at ELSE d.revoked_at
    /\ new.reason = d.reason \/ (part = "reason" /\ new.reason \in {heap[p].reason, "torn"})
    /\ part = "reason" => new.reason \in {heap[p].reason, "torn"}

LEMMA ReadsOnePart ==
    ASSUME PassportInv, NEW t \in Threads, pc[t] = "export", NEW part \in Parts,
           NEW new \in Filled(t, part)
    PROVE  PartRead(call[t].p, doc[t], part, new)
  <1> DEFINE p == call[t].p
             d == doc[t]
             x == heap[p]
  <1>1. x \in Fields /\ d \in Draft
    <2>1. call[t].op = "export"
      BY UnderWay DEF OpsAt
    <2> QED BY <2>1, UnderWay DEF PassportInv, ThreadInv, DocInv
  <1>2. /\ x.log \in Seq(Entry) /\ Len(x.log) \in Nat
        /\ x.status \in {None, "active", "expired", "revoked"} /\ x.id \in Passports \cup {Nobody}
        /\ x.caps \in Presets \cup {{}} /\ x.revoked_at \in BOOLEAN
        /\ x.reason \in Reasons \cup {None, "torn"}
    BY <1>1 DEF Fields
  <1>3. CASE part = "log"
    <2>1. new = [d EXCEPT !.log = x.log]
      BY <1>3 DEF Filled
    <2> HIDE DEF d, x
    <2> QED BY <1>1, <1>2, <1>3, <2>1 DEF PartRead, Draft, d, x
  <1>4. CASE part = "summary"
    <2>1. new = [d EXCEPT !.status = x.status, !.id = x.id, !.caps = x.caps, !.logged = Len(x.log)]
      BY <1>4 DEF Filled
    <2>2. /\ new \in Draft /\ new.status = x.status /\ new.id = x.id /\ new.caps = x.caps
          /\ new.log = d.log /\ new.revoked_at = d.revoked_at /\ new.reason = d.reason
      <3> DEFINE n == Len(x.log)
      <3>1. n \in Nat
        BY <1>2
      <3> HIDE DEF d, x, n
      <3> QED BY <1>1, <1>2, <2>1, <3>1 DEF Draft, n
    <2> QED BY <1>4, <2>2 DEF PartRead
  <1>5. CASE part = "revoked_at"
    <2>1. new = [d EXCEPT !.revoked_at = x.revoked_at]
      BY <1>5 DEF Filled
    <2> HIDE DEF d, x
    <2> QED BY <1>1, <1>2, <1>5, <2>1 DEF PartRead, Draft, d, x
  <1>6. CASE part = "reason"
    <2>1. PICK r \in {x.reason, "torn"} : new = [d EXCEPT !.reason = r]
      BY <1>6 DEF Filled
    <2> HIDE DEF d, x
    <2> QED BY <1>1, <1>2, <1>6, <2>1 DEF PartRead, Draft, d, x
  <1> QED BY <1>3, <1>4, <1>5, <1>6 DEF Parts

LEMMA ExportInv ==
    ASSUME PassportInv, NEW t \in Threads, Export(t)
    PROVE  PassportInv' /\ heap' = heap
  <1> DEFINE p == call[t].p
             d == doc[t]
             U == call[t].unread
  <1>1. PICK part \in Parts :
           /\ MayRead(t, part)
           /\ \E new \in Filled(t, part) : doc' = [doc EXCEPT ![t] = new]
           /\ call' = [call EXCEPT ![t].unread = @ \ {part}]
           /\ IF call[t].unread = {part} THEN Answer(t, "done") ELSE Then(t, "export")
    BY DEF Export
  <1>2. PICK new \in Filled(t, part) : doc' = [doc EXCEPT ![t] = new]
    BY <1>1
  <1>3. /\ pc[t] = "export" /\ UNCHANGED <<heap, overdue, files, told, since, calls>>
        /\ ThreadInv(t) /\ ShapeOK /\ HeapType
    BY DEF Export, PassportInv
  <1>4. /\ call[t] \in CallRec /\ call[t].op = "export" /\ p \in Live /\ heap[p] \in Fields
        /\ (p \in since[t] => RevokedNow(p) /\ Speaks(heap[p].log))
    BY <1>3, UnderWay DEF OpsAt
  <1>5. PartRead(p, d, part, new)
    BY <1>3, ReadsOnePart
  <1>6. /\ call'[t] \in CallRec /\ call'[t].unread = U \ {part} /\ call'[t].op = "export"
        /\ call'[t].p = p
        /\ \A u \in Threads \ {t} : call'[u] = call[u] /\ doc'[u] = doc[u]
        /\ doc'[t] = new /\ call' \in [Threads -> CallRec \cup {NoCall}]
        /\ DOMAIN doc' = Threads /\ doc' = [u \in Threads |-> doc'[u]]
    <2>1. DOMAIN call = Threads /\ DOMAIN doc = Threads
      BY <1>3 DEF ShapeOK
    <2>2. call'[t] = [call[t] EXCEPT !.unread = @ \ {part}]
      BY <1>1, <2>1
    <2>3. call'[t] \in CallRec /\ call'[t].unread = U \ {part} /\ call'[t].op = "export"
          /\ call'[t].p = p
      BY <1>4, <2>2 DEF CallRec
    <2>4. call' = [call EXCEPT ![t] = call'[t]]
      BY <1>1, <2>1
    <2>5. call' \in [Threads -> CallRec \cup {NoCall}]
      BY <1>3, <2>3, <2>4 DEF ShapeOK
    <2> QED BY <1>2, <2>1, <2>3, <2>4, <2>5
  <1>7. /\ pc' \in [Threads -> Steps \cup {"idle", "returned"}]
        /\ answer' \in [Threads -> Answers \cup {None}]
        /\ \A u \in Threads \ {t} : pc'[u] = pc[u] /\ answer'[u] = answer[u]
        /\ U = {part} => pc'[t] = "returned"
        /\ U # {part} => pc'[t] = "export"
    BY <1>1, Ends DEF Steps, Answers
  <1>8. ShapeOK' /\ HeapType' /\ HeapInv' /\ ToldInv' /\ FilesInv' /\ Grows /\ Live' = Live
    <2>1. HeapType' /\ HeapInv' /\ ToldInv' /\ FilesInv' /\ Grows /\ Live' = Live
      BY <1>3 DEF PassportInv, HeapType, HeapInv, ToldInv, FilesInv, Admits, Grows, RevokedNow, Live,
                  Longer
    <2> QED BY <1>3, <1>6, <1>7, <2>1 DEF ShapeOK
  <1>9. RoomInv'
    <2>1. Pending' \subseteq Pending
      BY <1>3, <1>7 DEF Pending
    <2> QED BY <1>8, <2>1, RoomStays DEF PassportInv
  <1>10. \A u \in Threads \ {t} : ThreadInv(u)'
    BY <1>3, <1>6, <1>7, <1>8, StillKeeps DEF Still
  <1>11. CallOK(t)' /\ RefusedInv(t)' /\ RevokeInv(t)'
    BY <1>3, <1>4, <1>6, <1>7, <1>8 DEF CallOK, RefusedInv, RevokeInv, OpsAt, Ops
  <1>12. DocInv(t)'
    <2> DEFINE V == U \ {part}
    <2>1. /\ part \in U /\ U \subseteq Parts
          /\ (part = "log" \/ "log" \notin U)
          /\ ("log" \in U => U = Parts)
      BY <1>1, <1>3, <1>4 DEF MayRead, ThreadInv, DocInv, CallRec
    <2>2. "log" \notin V /\ (pc'[t] = "export" => V # {}) /\ (pc'[t] = "returned" => V = {})
      BY <1>7, <2>1
    <2>3. "summary" \notin V => new.status # None /\ new.id # Nobody /\ new.caps \in Presets
      <3>1. heap[p].status # None /\ heap[p].id # Nobody /\ heap[p].caps \in Presets
        BY <1>4 DEF Fields, None
      <3>2. "summary" \notin U => d.status # None /\ d.id # Nobody /\ d.caps \in Presets
        BY <1>3, <1>4 DEF ThreadInv, DocInv
      <3> QED BY <1>5, <3>1, <3>2 DEF PartRead
    <2>4. part = "log" => (Tells(new.log) => RevokedNow(p)) /\ U = Parts
      BY <1>4, <1>5, <2>1 DEF PartRead, PassportInv, HeapInv
    <2>5. part # "log" => new.log = d.log
      BY <1>5 DEF PartRead
    <2>6. Tells(d.log) \/ p \in since[t] =>
             /\ RevokedNow(p)
             /\ "summary" \notin U => d.status = "revoked"
             /\ "revoked_at" \notin U => d.revoked_at
             /\ "reason" \notin U => d.reason # None
      BY <1>3, <1>4 DEF ThreadInv, DocInv
    <2>7. ASSUME Tells(new.log) \/ p \in since[t]
          PROVE  /\ RevokedNow(p)
                 /\ "summary" \notin V => new.status = "revoked"
                 /\ "revoked_at" \notin V => new.revoked_at
                 /\ "reason" \notin V => new.reason # None
      <3>1. RevokedNow(p)
        BY <2>4, <2>5, <2>6, <2>7
      <3>2. part # "log" => Tells(d.log) \/ p \in since[t]
        BY <2>5, <2>7
      <3>3. "summary" \notin V => new.status = "revoked"
        BY <1>5, <2>4, <2>6, <3>1, <3>2 DEF PartRead, RevokedNow, Parts
      <3>4. "revoked_at" \notin V => new.revoked_at
        BY <1>5, <2>4, <2>6, <3>1, <3>2 DEF PartRead, RevokedNow, Parts
      <3>5. "reason" \notin V => new.reason # None
        BY <1>5, <2>4, <2>6, <3>1, <3>2 DEF PartRead, RevokedNow, Parts, None
      <3> QED BY <3>1, <3>3, <3>4, <3>5
    <2>8. p \in since[t] => Speaks(new.log)
      <3>1. p \in since[t] /\ "log" \notin U => Speaks(d.log)
        BY <1>3, <1>4 DEF ThreadInv, DocInv
      <3> QED BY <1>4, <1>5, <2>1, <3>1 DEF PartRead
    <2>9. new \in Draft
      BY <1>5 DEF PartRead
    <2>10. doc'[t] = new /\ call'[t].unread = V /\ call'[t].op = "export" /\ call'[t].p = p
           /\ since' = since /\ heap' = heap
      BY <1>3, <1>6
    <2> HIDE DEF V, p, d, U
    <2> QED BY <2>2, <2>3, <2>7, <2>8, <2>9, <2>10 DEF DocInv, RevokedNow
  <1> QED BY <1>3, <1>8, <1>9, <1>10, <1>11, <1>12 DEF PassportInv, ThreadInv

-----------------------------------------------------------------------------
(* Calls begin and return *)

LEMMA CallTyped ==
    ASSUME ShapeOK, calls < MaxCalls, NEW op \in Ops, NEW p \in Passports \cup {Nobody}
    PROVE  /\ Call(op, p) \in CallRec
           /\ Call(op, p).op = op /\ Call(op, p).p = p /\ Call(op, p).unread = {}
           /\ Call(op, p).caps = {} /\ Call(op, p).reason = None
  <1>1. calls + 1 \in 1..MaxCalls
    BY DEF ShapeOK
  <1> DEFINE n == calls + 1
             c == [op |-> op, p |-> p, action |-> NoAction, reason |-> None, caps |-> {},
                   unread |-> {}, n |-> n]
  <1>2. Call(op, p) = [NoCall EXCEPT !.op = op, !.p = p, !.n = n]
    BY DEF Call
  <1>3. n \in 1..MaxCalls
    BY <1>1
  <1> HIDE DEF n
  <1>4. Call(op, p) = c
    BY <1>2 DEF NoCall
  <1>5. c \in CallRec
    BY <1>3 DEF CallRec
  <1> QED BY <1>4, <1>5

\* What a call starts with.
Starts(c, step) ==
    /\ c \in CallRec /\ c.op \in OpsAt(step)
    /\ step \in {"log", "trusted", "issue", "verify", "require", "revoke", "export"}
    /\ c.p \in Live \/ (c.op = "issue" /\ c.p = Nobody)
    /\ c.op = "issue" => c.caps \in Presets /\ RoomToAllocate
    /\ c.op = "revoke" => c.reason \in Reasons
    /\ c.op = "export" => c.unread = Parts
    /\ step = "verify" => c.op = "verify"

LEMMA BeginInv ==
    ASSUME PassportInv, NEW t \in Threads, NEW c, NEW step, Starts(c, step), Begin(t, c, step)
    PROVE  PassportInv' /\ heap' = heap
  <1>1. /\ pc[t] = "idle" /\ calls < MaxCalls /\ calls' = calls + 1
        /\ UNCHANGED <<heap, overdue, answer, doc, files, told>>
        /\ ShapeOK /\ ThreadInv(t)
    BY DEF Begin, PassportInv
  <1>2. /\ call'[t] = c /\ since'[t] = told /\ pc'[t] = step
        /\ \A u \in Threads \ {t} : pc'[u] = pc[u] /\ call'[u] = call[u] /\ since'[u] = since[u]
        /\ ShapeOK'
    <2>1. step \in Steps /\ c \in CallRec
      BY DEF Starts, Steps
    <2> QED BY <1>1, <2>1 DEF Begin, ShapeOK
  <1>3. HeapType' /\ HeapInv' /\ ToldInv' /\ FilesInv' /\ Grows /\ Live' = Live /\ Free' = Free
    BY <1>1 DEF PassportInv, HeapType, HeapInv, ToldInv, FilesInv, Admits, Grows, RevokedNow, Live, Free,
                Longer
  <1>4. \A u \in Threads \ {t} : ThreadInv(u)'
    BY <1>1, <1>2, <1>3, StillKeeps DEF Still
  <1>5. call[t] = NoCall /\ doc[t] = NoDoc
    BY <1>1 DEF ThreadInv, CallOK, DocInv, NoCall, None
  <1>6. \A p \in told : RevokedNow(p)
    BY DEF PassportInv, ToldInv, HeapInv
  <1>7. CallOK(t)'
    BY <1>2, <1>3 DEF CallOK, Starts
  <1>8. RefusedInv(t)' /\ RevokeInv(t)'
    BY <1>2 DEF RefusedInv, RevokeInv, Starts
  <1>9. DocInv(t)'
    <2>1. doc'[t] = NoDoc /\ NoDoc \in Draft /\ ~Tells(NoDoc.log)
      BY <1>1, <1>5 DEF NoDoc, Draft, Speaks, Tells
    <2>2. c.op = "export" => step = "export" /\ c.unread = Parts /\ Parts # {}
      BY DEF Starts, OpsAt, Parts
    <2>3. "log" \in Parts /\ "summary" \in Parts /\ "revoked_at" \in Parts /\ "reason" \in Parts
      BY DEF Parts
    <2> QED BY <1>1, <1>2, <1>6, <2>1, <2>2, <2>3 DEF DocInv, RevokedNow
  <1>10. RoomInv'
    <2>1. CASE c.op # "issue"
      <3>1. step \notin {"issue", "create"}
        BY <2>1 DEF Starts, OpsAt
      <3>2. Pending' \subseteq Pending
        BY <1>1, <1>2, <3>1 DEF Pending
      <3> QED BY <1>3, <3>2, RoomStays DEF PassportInv
    <2>2. CASE c.op = "issue"
      <3> DEFINE issuing == {u \in Threads : call[u].op = "issue"}
      <3>1. Pending' \subseteq Pending \cup {t} /\ t \notin Pending
        BY <1>1, <1>2 DEF Pending
      <3>2. Pending \in SUBSET issuing
        BY DEF Pending, PassportInv, ThreadInv, CallOK, OpsAt
      <3>3. IsFiniteSet(issuing)
        BY FS_Subset, FiniteAssumption
      <3>4. Cardinality(Pending) <= Cardinality(issuing) /\ Cardinality(issuing) \in Nat
        BY <3>2, <3>3, FS_Subset, FS_CardinalityType
      <3>5. Cardinality(issuing) < Cardinality(Free)
        BY <2>2 DEF Starts, RoomToAllocate
      <3>6. IsFiniteSet(Pending \cup {t}) /\ Cardinality(Pending \cup {t}) = Cardinality(Pending) + 1
        BY <3>1, Counts, FS_AddElement
      <3> DEFINE S == Pending'
      <3>7. Cardinality(S) <= Cardinality(Pending \cup {t}) /\ Cardinality(S) \in Nat
        <4>1. S \in SUBSET (Pending \cup {t})
          BY <3>1
        <4> HIDE DEF S
        <4> QED BY <3>6, <4>1, FS_Subset, FS_CardinalityType
      <3> HIDE DEF issuing
      <3>8. Cardinality(S) <= Cardinality(Free)
        BY <3>4, <3>5, <3>6, <3>7, Counts
      <3> QED BY <1>3, <3>8 DEF RoomInv
    <2> QED BY <2>1, <2>2
  <1> QED BY <1>1, <1>2, <1>3, <1>4, <1>7, <1>8, <1>9, <1>10 DEF PassportInv, ThreadInv

LEMMA EnterInv ==
    ASSUME PassportInv, NEW t \in Threads, Enter(t)
    PROVE  PassportInv' /\ heap' = heap
  <1>1. calls < MaxCalls /\ ShapeOK /\ Live \subseteq Passports
    BY Enter(t) DEF Enter, CallLogAction, CallIsTrusted, CallIssue, CallVerifyAction,
                    CallRequirePassport, CallRevoke, CallExport, Begin, PassportInv, Live
  <1> USE DEF Ops
  <1>2. CASE CallLogAction(t)
    <2>1. PICK p \in Live, action \in Actions : Begin(t, [Call("log", p) EXCEPT !.action = action], "log")
      BY <1>2 DEF CallLogAction
    <2> DEFINE x == Call("log", p)
               c == [x EXCEPT !.action = action]
    <2>2. x \in CallRec /\ x.op = "log" /\ x.p = p
      BY <1>1, CallTyped
    <2> HIDE DEF x
    <2>3. c \in CallRec /\ c.op = "log" /\ c.p = p
      BY <2>2 DEF CallRec
    <2>4. Begin(t, c, "log")
      BY <2>1 DEF x
    <2> HIDE DEF c
    <2>5. Starts(c, "log")
      BY <2>3 DEF Starts, OpsAt
    <2> QED BY <2>4, <2>5, BeginInv
  <1>3. CASE CallIsTrusted(t)
    <2>1. PICK p \in Live : Begin(t, Call("trusted", p), "trusted")
      BY <1>3 DEF CallIsTrusted
    <2> DEFINE c == Call("trusted", p)
    <2>2. c \in CallRec /\ c.op = "trusted" /\ c.p = p
      BY <1>1, CallTyped
    <2> HIDE DEF c
    <2>3. Starts(c, "trusted")
      BY <2>2 DEF Starts, OpsAt
    <2> QED BY <2>1, <2>3, BeginInv DEF c
  <1>4. CASE CallIssue(t)
    <2>1. PICK p \in Live \cup {Nobody}, caps \in Presets :
             Begin(t, [Call("issue", p) EXCEPT !.caps = caps], "issue")
      BY <1>4 DEF CallIssue
    <2> DEFINE x == Call("issue", p)
               c == [x EXCEPT !.caps = caps]
    <2>2. x \in CallRec /\ x.op = "issue" /\ x.p = p
      BY <1>1, CallTyped
    <2> HIDE DEF x
    <2>3. c \in CallRec /\ c.op = "issue" /\ c.p = p /\ c.caps = caps
      BY <2>2 DEF CallRec
    <2>4. Begin(t, c, "issue")
      BY <2>1 DEF x
    <2> HIDE DEF c
    <2>5. Starts(c, "issue")
      BY <1>4, <2>1, <2>3 DEF Starts, OpsAt, CallIssue
    <2> QED BY <2>4, <2>5, BeginInv
  <1>5. CASE CallVerifyAction(t)
    <2>1. PICK p \in Live, action \in Actions :
             Begin(t, [Call("verify", p) EXCEPT !.action = action], "verify")
      BY <1>5 DEF CallVerifyAction
    <2> DEFINE x == Call("verify", p)
               c == [x EXCEPT !.action = action]
    <2>2. x \in CallRec /\ x.op = "verify" /\ x.p = p
      BY <1>1, CallTyped
    <2> HIDE DEF x
    <2>3. c \in CallRec /\ c.op = "verify" /\ c.p = p
      BY <2>2 DEF CallRec
    <2>4. Begin(t, c, "verify")
      BY <2>1 DEF x
    <2> HIDE DEF c
    <2>5. Starts(c, "verify")
      BY <2>3 DEF Starts, OpsAt
    <2> QED BY <2>4, <2>5, BeginInv
  <1>6. CASE CallRequirePassport(t)
    <2>1. PICK p \in Live, action \in Actions \cup {NoAction} :
             Begin(t, [Call("require", p) EXCEPT !.action = action], "require")
      BY <1>6 DEF CallRequirePassport
    <2> DEFINE x == Call("require", p)
               c == [x EXCEPT !.action = action]
    <2>2. x \in CallRec /\ x.op = "require" /\ x.p = p
      BY <1>1, CallTyped
    <2> HIDE DEF x
    <2>3. c \in CallRec /\ c.op = "require" /\ c.p = p
      BY <2>2 DEF CallRec
    <2>4. Begin(t, c, "require")
      BY <2>1 DEF x
    <2> HIDE DEF c
    <2>5. Starts(c, "require")
      BY <2>3 DEF Starts, OpsAt
    <2> QED BY <2>4, <2>5, BeginInv
  <1>7. CASE CallRevoke(t)
    <2>1. PICK p \in Live, reason \in Reasons :
             Begin(t, [Call("revoke", p) EXCEPT !.reason = reason], "revoke")
      BY <1>7 DEF CallRevoke
    <2> DEFINE x == Call("revoke", p)
               c == [x EXCEPT !.reason = reason]
    <2>2. x \in CallRec /\ x.op = "revoke" /\ x.p = p
      BY <1>1, CallTyped
    <2> HIDE DEF x
    <2>3. c \in CallRec /\ c.op = "revoke" /\ c.p = p /\ c.reason = reason
      BY <2>2 DEF CallRec
    <2>4. Begin(t, c, "revoke")
      BY <2>1 DEF x
    <2> HIDE DEF c
    <2>5. Starts(c, "revoke")
      BY <2>3 DEF Starts, OpsAt
    <2> QED BY <2>4, <2>5, BeginInv
  <1>8. CASE CallExport(t)
    <2>1. PICK p \in Live : Begin(t, [Call("export", p) EXCEPT !.unread = Parts], "export")
      BY <1>8 DEF CallExport
    <2> DEFINE x == Call("export", p)
               c == [x EXCEPT !.unread = Parts]
    <2>2. x \in CallRec /\ x.op = "export" /\ x.p = p
      BY <1>1, CallTyped
    <2> HIDE DEF x
    <2>3. c \in CallRec /\ c.op = "export" /\ c.p = p /\ c.unread = Parts
      BY <2>2 DEF CallRec
    <2>4. Begin(t, c, "export")
      BY <2>1 DEF x
    <2> HIDE DEF c
    <2>5. Starts(c, "export")
      BY <2>3 DEF Starts, OpsAt
    <2> QED BY <2>4, <2>5, BeginInv
  <1> QED BY <1>2, <1>3, <1>4, <1>5, <1>6, <1>7, <1>8, Enter(t) DEF Enter

LEMMA Finished ==
    ASSUME NEW d \in Draft, d.status # None, d.id # Nobody, d.caps \in Presets
    PROVE  d \in Doc
  <1>1. d.status \in {"active", "expired", "revoked"} /\ d.id \in Passports
    BY DEF Draft
  <1> QED BY <1>1 DEF Draft, Doc

LEMMA ReturnInv ==
    ASSUME PassportInv, NEW t \in Threads, Return(t)
    PROVE  PassportInv' /\ heap' = heap
  <1> DEFINE p == call[t].p
             d == doc[t]
  <1>1. /\ pc[t] = "returned" /\ UNCHANGED <<heap, overdue, calls>>
        /\ ShapeOK /\ ThreadInv(t)
    BY DEF Return, PassportInv
  <1>2. call[t] \in CallRec /\ (call[t].op # "issue" => p \in Live)
    BY <1>1, UnderWay
  <1>3. HeapType' /\ HeapInv' /\ Grows /\ Live' = Live
    BY <1>1 DEF PassportInv, HeapType, HeapInv, Grows, RevokedNow, Live, Longer
  <1>4. /\ told' = IF call[t].op = "revoke" THEN told \cup {p} ELSE told
        /\ files' = IF call[t].op = "export" THEN files \cup {d} ELSE files
        /\ pc'[t] = "idle" /\ call'[t] = NoCall /\ doc'[t] = NoDoc /\ since'[t] = {}
        /\ \A u \in Threads \ {t} : Still(u)
    BY <1>1 DEF Return, ShapeOK, Still
  <1>5. ShapeOK'
    <2>1. told \subseteq told'
      BY <1>4
    <2>2. pc' \in [Threads -> Steps \cup {"idle", "returned"}]
          /\ call' \in [Threads -> CallRec \cup {NoCall}]
          /\ answer' \in [Threads -> Answers \cup {None}]
      BY <1>1 DEF Return, ShapeOK
    <2>3. since' \in [Threads -> SUBSET told']
      BY <1>1, <2>1 DEF Return, ShapeOK
    <2>4. DOMAIN doc' = Threads /\ doc' = [u \in Threads |-> doc'[u]]
      BY <1>1 DEF Return, ShapeOK
    <2> QED BY <1>1, <2>2, <2>3, <2>4 DEF ShapeOK
  <1>6. ToldInv'
    <2>1. call[t].op = "revoke" => p \in Live /\ RevokedNow(p) /\ Speaks(heap[p].log)
      BY <1>1, <1>2 DEF ThreadInv, RevokeInv
    <2> QED BY <1>1, <1>3, <1>4, <2>1 DEF PassportInv, ToldInv, RevokedNow
  <1>7. FilesInv'
    <2>1. ASSUME call[t].op = "export"
          PROVE  d \in Doc /\ Admits(d)
      <3>1. /\ d \in Draft /\ d.status # None /\ d.id # Nobody /\ d.caps \in Presets
            /\ Tells(d.log) => d.status = "revoked" /\ d.revoked_at /\ d.reason # None
        BY <1>1, <2>1 DEF ThreadInv, DocInv
      <3> HIDE DEF d
      <3> QED BY <3>1, Finished DEF Admits
    <2> QED BY <1>4, <2>1 DEF PassportInv, FilesInv, Admits
  <1>8. ThreadInv(t)'
    <2>1. NoDoc \in Draft /\ NoCall.op = None
      BY DEF NoDoc, Draft, NoCall
    <2> QED BY <1>4, <2>1 DEF ThreadInv, CallOK, RefusedInv, RevokeInv, DocInv, None
  <1>9. RoomInv'
    <2>1. Pending' \subseteq Pending
      BY <1>4 DEF Pending, Still
    <2> QED BY <1>3, <2>1, RoomStays DEF PassportInv
  <1>10. \A u \in Threads \ {t} : ThreadInv(u)'
    BY <1>3, <1>4, StillKeeps
  <1> QED BY <1>1, <1>3, <1>5, <1>6, <1>7, <1>8, <1>9, <1>10 DEF PassportInv

-----------------------------------------------------------------------------
(* Steps no call of this module takes: a passport is loaded or checked, the    *)
(* clock moves, other methods count as calls.                                  *)

LEMMA Aside ==
    ASSUME PassportInv, HeapStep, Live' = Live,
           UNCHANGED <<pc, call, answer, doc, files, told, since>>,
           overdue' \subseteq Passports, calls' \in 0..MaxCalls
    PROVE  PassportInv' /\ Grows
  <1>1. HeapType' /\ HeapInv' /\ Grows
    BY HeapStepKeeps DEF PassportInv
  <1>2. ToldInv' /\ FilesInv' /\ ShapeOK'
    BY <1>1 DEF PassportInv, ToldInv, FilesInv, Admits, ShapeOK, Grows
  <1>3. \A t \in Threads : ThreadInv(t)'
    BY <1>1, StillKeeps DEF Still
  <1>4. RoomInv'
    <2>1. Pending' = Pending
      BY DEF Pending
    <2> QED BY <2>1, RoomStays DEF PassportInv
  <1> QED BY <1>1, <1>2, <1>3, <1>4 DEF PassportInv

LEMMA CheckedInPlace ==
    ASSUME HeapType, HeapInv, NEW p \in Live, Check(p)
    PROVE  Live' = Live
  <1>1. HeapStep
    BY DEF HeapStep
  <1>2. Grows
    BY <1>1, HeapStepKeeps
  <1>3. \A q \in Passports : q # p => heap'[q] = heap[q]
    BY DEF Check, HeapType
  <1> QED BY <1>2, <1>3 DEF Grows, Live

LEMMA LoadedTyped ==
    ASSUME NEW f \in Doc
    PROVE  /\ Loaded(f) \in Fields
           /\ Loaded(f).status = f.status /\ Loaded(f).revoked_at = f.revoked_at
           /\ Loaded(f).reason = f.reason /\ Loaded(f).log = f.log /\ Loaded(f).id = f.id
  BY DEF Doc, Fields, Loaded

LEMMA LoadInv ==
    ASSUME PassportInv, LoadAgentPassport
    PROVE  PassportInv' /\ Grows
  <1> DEFINE issuing == {u \in Threads : call[u].op = "issue"}
  <1>1. PICK f \in files : heap' = [heap EXCEPT ![NewObject] = Loaded(f)]
    BY DEF LoadAgentPassport
  <1>2. /\ calls < MaxCalls /\ calls' = calls + 1 /\ RoomToAllocate
        /\ UNCHANGED <<overdue, pc, call, answer, doc, files, told, since>>
        /\ ShapeOK /\ HeapType
    BY DEF LoadAgentPassport, PassportInv
  <1>3. f \in Doc /\ Admits(f)
    BY DEF PassportInv, FilesInv
  <1>4. Cardinality(Pending) <= Cardinality(issuing) /\ Cardinality(issuing) \in Nat
    <2>1. Pending \in SUBSET issuing
      BY DEF Pending, PassportInv, ThreadInv, CallOK, OpsAt
    <2>2. IsFiniteSet(issuing)
      BY FS_Subset, FiniteAssumption
    <2> QED BY <2>1, <2>2, FS_Subset, FS_CardinalityType
  <1>5. Cardinality(issuing) < Cardinality(Free)
    BY <1>2 DEF RoomToAllocate
  <1> HIDE DEF issuing
  <1>6. NewObject \in Free
    <2>1. Free # {}
      BY <1>4, <1>5, Counts, FS_EmptySet
    <2> QED BY <2>1 DEF NewObject, Free
  <1> DEFINE q   == NewObject
             new == Loaded(f)
  <1>7. /\ new \in Fields
        /\ Tells(new.log) => new.status = "revoked" /\ new.revoked_at /\ new.reason # None
    BY <1>3, LoadedTyped DEF Admits
  <1>8. heap' = [heap EXCEPT ![q] = new] /\ q \in Free
    BY <1>1, <1>6
  <1> HIDE DEF q, new
  <1>9. HeapStep
    BY <1>7, <1>8 DEF HeapStep
  <1>10. HeapType' /\ HeapInv' /\ Grows
    BY <1>9, HeapStepKeeps DEF PassportInv
  <1>11. ToldInv' /\ FilesInv' /\ ShapeOK'
    BY <1>2, <1>10 DEF PassportInv, ToldInv, FilesInv, Admits, ShapeOK, Grows
  <1>12. \A t \in Threads : ThreadInv(t)'
    BY <1>2, <1>10, StillKeeps DEF Still
  <1>13. RoomInv'
    <2>1. Free' = Free \ {q}
      <3>1. q \in Passports /\ new.status # None
        BY <1>7, <1>8 DEF Free, Fields, None
      <3>2. heap'[q] = new /\ \A p \in Passports : p # q => heap'[p] = heap[p]
        BY <1>2, <1>8, <3>1 DEF HeapType
      <3> QED BY <3>1, <3>2 DEF Free, Live
    <2>2. Cardinality(Free \ {q}) = Cardinality(Free) - 1
      BY <1>8, Counts, FS_RemoveElement
    <2>3. Pending' = Pending
      BY <1>2 DEF Pending
    <2> QED BY <1>4, <1>5, <2>1, <2>2, <2>3, Counts DEF RoomInv
  <1> QED BY <1>10, <1>11, <1>12, <1>13 DEF PassportInv

LEMMA TickInv ==
    ASSUME PassportInv, Tick
    PROVE  PassportInv' /\ Grows
  <1>1. overdue' \subseteq Passports
    <2>1. \A p \in Live : heap[p].id \in Passports
      BY LiveFields DEF PassportInv, Fields
    <2> QED BY <2>1 DEF Tick, PassportInv, ShapeOK
  <1>2. HeapStep /\ Live' = Live /\ calls' \in 0..MaxCalls
    BY DEF Tick, HeapStep, Live, PassportInv, ShapeOK
  <1> QED BY <1>1, <1>2, Aside DEF Tick

LEMMA StutterInv ==
    ASSUME PassportInv, UNCHANGED passportVars
    PROVE  PassportInv' /\ Grows
  <1>1. HeapStep /\ Live' = Live /\ overdue' \subseteq Passports /\ calls' \in 0..MaxCalls
    BY DEF passportVars, HeapStep, Live, PassportInv, ShapeOK
  <1> QED BY <1>1, Aside DEF passportVars

\* What holds whenever the heap is left alone.
LEMMA SameHeapGrows ==
    ASSUME heap' = heap
    PROVE  Grows
  BY DEF Grows, RevokedNow, Live, Longer

\* A goroutine's next section, whichever it is.
LEMMA StepInv ==
    ASSUME PassportInv, NEW t \in Threads, Step(t)
    PROVE  PassportInv' /\ Grows
  <1>1. Section(t) \/ Export(t)
    BY DEF Step, Section
  <1> QED BY <1>1, SectionInv, ExportInv, SameHeapGrows

LEMMA NextPassportInv == PassportInv /\ [Next]_passportVars => PassportInv' /\ Grows
  <1> SUFFICES ASSUME PassportInv, [Next]_passportVars
               PROVE  PassportInv' /\ Grows
    OBVIOUS
  <1>1. CASE \E t \in Threads : Enter(t) \/ Return(t)
    BY <1>1, EnterInv, ReturnInv, SameHeapGrows
  <1>2. CASE \E t \in Threads : Step(t)
    BY <1>2, StepInv
  <1>3. CASE LoadAgentPassport
    BY <1>3, LoadInv
  <1>4. CASE Tick
    BY <1>4, TickInv
  <1>5. CASE Quiescent \/ UNCHANGED passportVars
    BY <1>5, StutterInv DEF Quiescent
  <1> QED BY <1>1, <1>2, <1>3, <1>4, <1>5 DEF Next

-----------------------------------------------------------------------------
(* Theorems *)

LEMMA InvariantTyped == PassportInv => TypeOK
  <1> SUFFICES ASSUME PassportInv PROVE TypeOK
    OBVIOUS
  <1>1. \A t \in Threads : doc[t] = NoDoc \/ call[t].op = "export"
    BY DEF PassportInv, ThreadInv, DocInv
  <1>2. files \subseteq Doc /\ told \subseteq Live
    BY DEF PassportInv, FilesInv, ToldInv
  <1> QED BY <1>1, <1>2 DEF PassportInv, HeapType, ShapeOK, TypeOK

LEMMA InvariantPromises ==
    PassportInv => /\ RevokedMeansRefused /\ ExportsRememberRevocation
                   /\ Reserved => ExportsAdmitRevocation
  <1> SUFFICES ASSUME PassportInv
               PROVE  /\ RevokedMeansRefused /\ ExportsRememberRevocation
                      /\ Reserved => ExportsAdmitRevocation
    OBVIOUS
  <1>1. RevokedMeansRefused
    BY DEF PassportInv, ThreadInv, RefusedInv, RevokedMeansRefused
  <1>2. Reserved => ExportsAdmitRevocation
    BY DEF PassportInv, FilesInv, Admits, Speaks, Tells, ExportsAdmitRevocation
  <1>3. ExportsRememberRevocation
    <2> SUFFICES ASSUME NEW t \in Threads, pc[t] = "returned",
                        call[t].op = "export", call[t].p \in since[t]
                 PROVE  /\ doc[t].status = "revoked" /\ doc[t].revoked_at
                        /\ Speaks(doc[t].log)
      BY DEF ExportsRememberRevocation, Speaks
    <2> QED BY DEF PassportInv, ThreadInv, DocInv
  <1> QED BY <1>1, <1>2, <1>3

\* What Grows says of the statuses.
LEMMA StatusesGrow ==
    ASSUME Grows, NEW p \in Passports
    PROVE  /\ heap[p].status = "revoked" => heap'[p].status = "revoked"
           /\ heap[p].status = "expired" => heap'[p].status \in {"expired", "revoked"}
  BY DEF Grows, Live, None

LEMMA InvariantHolds == Spec => []PassportInv
  BY InitPassportInv, NextPassportInv, PTL DEF Spec

\* Every variable stays in its type in every behaviour, for any number of
\* goroutines, passports and calls; a document is only made by Export, and only
\* passports that exist are reported revoked.
THEOREM PassportTypeCorrect == Spec => []TypeOK
  BY InvariantTyped, InvariantHolds, PTL

\* The promise on Revoke holds: whatever runs beside it, a check of trust that
\* begins after a Revoke has returned is answered with a refusal.
THEOREM RevokedIsRefused == Spec => []RevokedMeansRefused
  BY InvariantPromises, InvariantHolds, PTL

\* No document that Export has returned hides a revocation that its log speaks
\* of, although log, summary, time and reason are read at different moments and
\* two of them without the mutex, as long as callers of LogAction leave the action
\* passport_revoked to Revoke: an entry of that name by anybody else says nothing.
THEOREM DocumentsAdmitRevocation ==
    "passport_revoked" \notin Actions => (Spec => []ExportsAdmitRevocation)
  <1> SUFFICES ASSUME "passport_revoked" \notin Actions
               PROVE  Spec => []ExportsAdmitRevocation
    OBVIOUS
  <1>1. PassportInv => ExportsAdmitRevocation
    BY InvariantPromises DEF Reserved
  <1> QED BY <1>1, InvariantHolds, PTL

\* An Export that began after a Revoke had returned gives a document with the
\* revocation in its status, its time and its log.
THEOREM DocumentsRememberRevocation == Spec => []ExportsRememberRevocation
  BY InvariantPromises, InvariantHolds, PTL

\* No step of any goroutine, no reload and no tick of the clock takes a passport
\* out of "revoked", or from "expired" back to "active".
THEOREM TrustStaysLost == Spec => TrustNeverReturns
  <1> DEFINE Kept == \A p \in Passports :
                        /\ heap[p].status = "revoked" => heap'[p].status = "revoked"
                        /\ heap[p].status = "expired" => heap'[p].status \in {"expired", "revoked"}
  <1>1. PassportInv /\ [Next]_passportVars => [Kept]_passportVars
    <2> SUFFICES ASSUME PassportInv, [Next]_passportVars
                 PROVE  Kept
      OBVIOUS
    <2> QED BY NextPassportInv, StatusesGrow
  <1> QED BY <1>1, InvariantHolds, PTL DEF Spec, TrustNeverReturns

\* Audit logs are append-only: no step of any goroutine, not even an Export or a
\* Revoke in the middle of another LogAction, loses or rewrites an entry of a
\* passport, and no passport disappears.
THEOREM LogsAreKept ==
    Spec => [][\A p \in Live : /\ p \in Live'
                               /\ Len(heap[p].log) <= Len(heap'[p].log)
                               /\ \A i \in DOMAIN heap[p].log :
                                     heap'[p].log[i] = heap[p].log[i]]_passportVars
  <1> DEFINE Kept == \A p \in Live : /\ p \in Live'
                                     /\ Len(heap[p].log) <= Len(heap'[p].log)
                                     /\ \A i \in DOMAIN heap[p].log :
                                           heap'[p].log[i] = heap[p].log[i]
  <1>1. PassportInv /\ [Next]_passportVars => [Kept]_passportVars
    <2> SUFFICES ASSUME PassportInv, [Next]_passportVars, NEW p \in Live
                 PROVE  /\ p \in Live'
                        /\ Len(heap[p].log) <= Len(heap'[p].log)
                        /\ \A i \in DOMAIN heap[p].log : heap'[p].log[i] = heap[p].log[i]
      OBVIOUS
    <2>1. p \in Live' /\ Longer(heap[p].log, heap'[p].log)
      BY NextPassportInv DEF Grows
    <2>2. heap[p].log \in Seq(Entry) /\ Len(heap[p].log) \in Nat
      BY LiveFields DEF PassportInv, Fields
    <2> DEFINE old == heap[p].log
               new == heap'[p].log
    <2>3. Len(old) <= Len(new) /\ \A i \in DOMAIN old : new[i] = old[i]
      <3>1. Longer(old, new) /\ Len(old) \in Nat
        BY <2>1, <2>2
      <3> HIDE DEF old, new
      <3> QED BY <3>1 DEF Longer
    <2> QED BY <2>1, <2>3
  <1> QED BY <1>1, InvariantHolds, PTL DEF Spec

=============================================================================
