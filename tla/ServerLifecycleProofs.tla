------------------------ MODULE ServerLifecycleProofs ------------------------
(***************************************************************************)
(* Proofs about ServerLifecycle, for any requests of any kinds, any number *)
(* of connections and of failed statements.                                *)
(***************************************************************************)
EXTENDS ServerLifecycle, FiniteSetTheorems, TLAPS

USE KindAssumption, MaxConnsAssumption, FaultsAssumption

-----------------------------------------------------------------------------
(* The inductive invariant *)

\* What run has done tells what may have happened to the requests: nobody is
\* refused or cut before it returns, and if it returns without an error it has
\* waited for everybody and lets nobody in any more.
RunInv ==
    /\ main \in {"select", "shutdown"} => status = 0 /\ pool = "open"
    /\ pool = "open" => refused = {}
    /\ main # "exited" => \A r \in Requests : pc[r] # "cut"
    /\ status = 0 /\ main \in {"return", "exited"} =>
          /\ listener = "drained" /\ refused = {}
          /\ \A r \in Requests : pc[r] \in {"unsent", "answered"}

\* The statement a handler is at fits its kind, and whether it has a connection.
Fits(r) ==
    /\ Kind[r] = "read"   => statement[r] = "select"
    /\ Kind[r] = "revoke" => statement[r] \in {"update", "exists", "audit"}
    /\ Kind[r] = "device" => statement[r] \in {"counter", "insert", "commit"}

StatementInv ==
    \A r \in Requests :
        /\ pc[r] \in {"reading", "acquire", "run"} => Fits(r)
        /\ pc[r] \in {"reading", "acquire"} /\ Kind[r] = "device" => statement[r] = "counter"
        /\ pc[r] \in {"unsent", "respond", "answered"} => statement[r] = None

\* A registration cut by a regular exit is outside its transaction.
CutInv ==
    status # 137 => \A r \in Requests :
        pc[r] = "cut" /\ Kind[r] = "device" => statement[r] \in {"counter", None}

\* A successful revocation is audited unless something went wrong.
AuditInv ==
    \A r \in Requests :
        /\ pc[r] \in {"respond", "answered"} /\ Kind[r] = "revoke" /\ code[r] = 200
        /\ faults = 0 /\ status = 0
        => <<r, "audit">> \in committed

LifeInv == TypeOK /\ IsFiniteSet(holders) /\ RunInv /\ StatementInv /\ CutInv /\ AuditInv

LEMMA KindOfRequest == \A r \in Requests : Kind[r] \in {"read", "revoke", "device"}
  BY DEF Kinds

-----------------------------------------------------------------------------
(* Every step keeps it *)

LEMMA InitLifeInv == Init => LifeInv
  <1> SUFFICES ASSUME Init PROVE LifeInv
    OBVIOUS
  <1> USE DEF Init
  <1>1. IsFiniteSet(holders) /\ Cardinality(holders) <= MaxConns
    BY FS_EmptySet
  <1>2. TypeOK
    <2>1. 0 \in 0..MaxFaults
      OBVIOUS
    <2> QED BY <1>1, <2>1 DEF TypeOK, Listeners
  <1>3. RunInv /\ CutInv
    BY DEF RunInv, CutInv
  <1>4. StatementInv /\ AuditInv
    BY DEF StatementInv, AuditInv
  <1> QED BY <1>1, <1>2, <1>3, <1>4 DEF LifeInv

\* run moves on, or a signal or an error of the listener waits for it.
LEMMA RunKeeps ==
    ASSUME LifeInv,
           Signal \/ Listen \/ BeginShutdown \/ ListenerFailed \/ Drained \/ Deadline \/ ClosePool
    PROVE  LifeInv'
  <1>1. UNCHANGED <<handlers, holders, faults>>
    BY DEF Signal, Listen, BeginShutdown, ListenerFailed, Drained, Deadline, ClosePool
  <1>2. TypeOK'
    <2> USE DEF TypeOK, handlers, LifeInv, Listeners
    <2>1. CASE Signal
      BY <2>1 DEF Signal
    <2>4. CASE Listen
      BY <2>4 DEF Listen
    <2>2. CASE BeginShutdown \/ ListenerFailed
      BY <2>2 DEF BeginShutdown, ListenerFailed
    <2>3. CASE Drained \/ Deadline \/ ClosePool
      BY <2>3 DEF Drained, Deadline, ClosePool, process
    <2> QED BY <2>1, <2>2, <2>3, <2>4
  <1>3. RunInv'
    <2> USE DEF RunInv, handlers, LifeInv
    <2>1. CASE Signal \/ Listen \/ BeginShutdown
      BY <2>1 DEF Signal, Listen, BeginShutdown, TypeOK
    <2>2. CASE ListenerFailed \/ Deadline
      BY <2>2 DEF ListenerFailed, Deadline
    <2>3. CASE Drained
      <3>1. \A r \in Requests : pc[r] \in {"unsent", "answered"}
        BY <2>3 DEF Drained, InFlight, TypeOK
      <3> QED BY <2>3, <3>1 DEF Drained
    <2>4. CASE ClosePool
      BY <2>4 DEF ClosePool, process
    <2> QED BY <2>1, <2>2, <2>3, <2>4
  <1>4. status' = 0 => status = 0
    BY DEF Signal, Listen, BeginShutdown, ListenerFailed, Drained, Deadline, ClosePool, process
  <1>5. StatementInv' /\ AuditInv'
    BY <1>1, <1>4 DEF LifeInv, StatementInv, Fits, AuditInv, handlers
  <1>6. CutInv'
    <2>1. main # "exited"
      BY DEF Signal, Listen, BeginShutdown, ListenerFailed, Drained, Deadline, ClosePool
    <2> QED BY <1>1, <2>1 DEF LifeInv, RunInv, CutInv, handlers
  <1> QED BY <1>1, <1>2, <1>3, <1>5, <1>6 DEF LifeInv

LEMMA ExitKeeps ==
    ASSUME LifeInv, Exit \/ Kill
    PROVE  LifeInv'
  <1>1. /\ main # "exited" /\ main' = "exited" /\ holders' = {}
        /\ UNCHANGED <<signalled, listener, pool, statement, code, committed, refused, faults>>
        /\ pc' = [r \in Requests |-> IF r \in InFlight THEN "cut" ELSE pc[r]]
    BY DEF Exit, Kill
  <1>2. status' = 137 \/ (status' = status /\ main = "return" /\ holders = {})
    BY DEF Exit, Kill
  <1>3. \A r \in Requests :
           \/ pc[r] \in {"reading", "acquire", "run", "respond"} /\ pc'[r] = "cut"
           \/ pc[r] \in {"unsent", "answered"} /\ pc'[r] = pc[r]
    BY <1>1 DEF InFlight, LifeInv, TypeOK, RunInv
  <1>4. IsFiniteSet(holders') /\ Cardinality(holders') <= MaxConns
    BY <1>1, FS_EmptySet
  <1>5. TypeOK'
    <2>1. pc' \in [Requests -> {"unsent", "reading", "acquire", "run", "respond",
                                "answered", "cut"}]
      BY <1>1, <1>3
    <2>2. holders' = {r \in Requests : pc'[r] = "run"}
      BY <1>1, <1>3
    <2>3. status' \in {0, 1, 137}
      BY <1>2 DEF LifeInv, TypeOK
    <2> QED BY <1>1, <1>4, <2>1, <2>2, <2>3 DEF LifeInv, TypeOK
  <1>6. RunInv'
    BY <1>1, <1>2, <1>3 DEF LifeInv, RunInv
  <1>7. StatementInv'
    BY <1>1, <1>3 DEF LifeInv, StatementInv, Fits
  <1>8. CutInv'
    <2>1. ASSUME status' # 137, NEW r \in Requests, pc'[r] = "cut", Kind[r] = "device"
          PROVE  statement'[r] \in {"counter", None}
      <3>1. pc[r] \in {"reading", "acquire", "respond"}
        BY <1>2, <1>3, <2>1 DEF LifeInv, TypeOK
      <3> QED BY <1>1, <2>1, <3>1 DEF LifeInv, StatementInv, Fits
    <2> QED BY <2>1 DEF CutInv
  <1>9. AuditInv'
    BY <1>1, <1>2, <1>3 DEF LifeInv, AuditInv
  <1> QED BY <1>4, <1>5, <1>6, <1>7, <1>8, <1>9 DEF LifeInv

\* What a step of one handler leaves alone.
OnlyHandler(r) ==
    /\ UNCHANGED process
    /\ UNCHANGED pool
    /\ \A q \in Requests \ {r} :
          pc'[q] = pc[q] /\ statement'[q] = statement[q] /\ code'[q] = code[q]
    /\ committed \subseteq committed'

\* A connection is taken while one is free, and given back.
LEMMA HoldersTyped ==
    ASSUME LifeInv, NEW r \in Requests,
           \/ holders' = holders \/ holders' = holders \ {r}
           \/ holders' = holders \cup {r} /\ FreeConn
    PROVE  IsFiniteSet(holders') /\ Cardinality(holders') <= MaxConns
  <1>1. IsFiniteSet(holders) /\ Cardinality(holders) \in Nat /\ Cardinality(holders) <= MaxConns
    BY FS_CardinalityType DEF LifeInv, TypeOK
  <1>2. CASE holders' = holders
    BY <1>1, <1>2
  <1>3. CASE holders' = holders \ {r}
    <2>1. /\ IsFiniteSet(holders \ {r})
          /\ Cardinality(holders \ {r}) = IF r \in holders THEN Cardinality(holders) - 1
                                          ELSE Cardinality(holders)
      BY <1>1, FS_RemoveElement
    <2> DEFINE n == Cardinality(holders)
               m == Cardinality(holders \ {r})
    <2>2. n \in Nat /\ n <= MaxConns /\ (m = n - 1 \/ m = n)
      BY <1>1, <2>1
    <2> HIDE DEF n, m
    <2>3. m <= MaxConns
      BY <2>2
    <2> QED BY <1>3, <2>1, <2>3 DEF m
  <1>4. CASE holders' = holders \cup {r} /\ FreeConn
    <2>1. Cardinality(holders) < MaxConns
      BY <1>4 DEF FreeConn
    <2>2. /\ IsFiniteSet(holders \cup {r})
          /\ Cardinality(holders \cup {r}) = IF r \in holders THEN Cardinality(holders)
                                             ELSE Cardinality(holders) + 1
      BY <1>1, FS_AddElement
    <2> DEFINE n == Cardinality(holders)
               m == Cardinality(holders \cup {r})
    <2>3. n \in Nat /\ n < MaxConns /\ (m = n + 1 \/ m = n)
      BY <1>1, <2>1, <2>2
    <2> HIDE DEF n, m
    <2>4. m <= MaxConns
      BY <2>3
    <2> QED BY <1>4, <2>2, <2>4 DEF m
  <1> QED BY <1>2, <1>3, <1>4

\* The invariant is about one handler at a time: it is enough to look at the one
\* that steps.
LEMMA HandlerKeeps ==
    ASSUME LifeInv, TypeOK', IsFiniteSet(holders'), NEW r \in Requests, OnlyHandler(r),
           pc[r] \in {"unsent", "reading", "acquire", "run", "respond"},
           pc'[r] \in {"reading", "acquire", "run", "respond", "answered"},
           pc[r] = "unsent" => listener # "drained",
           refused' = refused \/ pool = "closed",
           faults = 0 \/ faults' # 0,
           pc'[r] \in {"reading", "acquire", "run"} => Fits(r)',
           pc'[r] \in {"reading", "acquire"} /\ Kind[r] = "device" => statement'[r] = "counter",
           pc'[r] \in {"respond", "answered"} => statement'[r] = None,
           pc'[r] = "answered" => pc[r] = "respond" /\ code'[r] = code[r],
           pc'[r] = "respond" /\ Kind[r] = "revoke" /\ code'[r] = 200 =>
              <<r, "audit">> \in committed' \/ faults' # 0 \/ pool = "closed"
    PROVE  LifeInv'
  <1>1. status = 0 => main \in {"select", "shutdown"}
    BY DEF LifeInv, RunInv, TypeOK
  <1>2. RunInv'
    BY <1>1 DEF LifeInv, RunInv, OnlyHandler, process, TypeOK
  <1>3. StatementInv'
    BY DEF LifeInv, StatementInv, Fits, OnlyHandler
  <1>4. CutInv'
    BY DEF LifeInv, CutInv, OnlyHandler, process
  <1>5. AuditInv'
    <2>1. status' = 0 => pool = "open"
      BY <1>1 DEF LifeInv, RunInv, OnlyHandler, process
    <2>2. ASSUME NEW q \in Requests, pc'[q] \in {"respond", "answered"}, Kind[q] = "revoke",
                 code'[q] = 200, faults' = 0, status' = 0
          PROVE  <<q, "audit">> \in committed'
      <3>1. CASE q = r
        BY <2>1, <2>2, <3>1 DEF LifeInv, AuditInv, OnlyHandler, process
      <3>2. CASE q # r
        BY <2>2, <3>2 DEF LifeInv, AuditInv, OnlyHandler, process
      <3> QED BY <3>1, <3>2
    <2> QED BY <2>2 DEF AuditInv
  <1> QED BY <1>2, <1>3, <1>4, <1>5 DEF LifeInv

LEMMA ArriveKeeps ==
    ASSUME LifeInv, NEW r \in Requests, Accept(r) \/ BodyArrives(r) \/ BodyBreaks(r)
    PROVE  LifeInv'
  <1>1. UNCHANGED <<process, pool, holders, committed, refused, faults>>
    BY DEF Accept, BodyArrives, BodyBreaks
  <1>2. CASE Accept(r)
    <2>1. /\ OnlyHandler(r) /\ pc[r] = "unsent" /\ pc'[r] \in {"reading", "acquire"}
          /\ statement'[r] = FirstStatement[Kind[r]] /\ listener # "drained" /\ code' = code
      BY <1>2 DEF Accept, OnlyHandler, process, LifeInv, TypeOK
    <2>2. /\ Kind[r] = "read" => statement'[r] = "select"
          /\ Kind[r] = "revoke" => statement'[r] = "update"
          /\ Kind[r] = "device" => statement'[r] = "counter"
      BY <2>1 DEF FirstStatement
    <2>3. TypeOK'
      <3>1. pc' \in [Requests -> {"unsent", "reading", "acquire", "run", "respond",
                                  "answered", "cut"}]
        BY <1>2 DEF Accept, LifeInv, TypeOK
      <3>2. statement' \in [Requests -> Statements \cup {None}]
        BY <1>2, <2>1, <2>2, KindOfRequest DEF Accept, LifeInv, TypeOK, Statements
      <3>3. holders' = {q \in Requests : pc'[q] = "run"}
        BY <1>1, <2>1 DEF OnlyHandler, LifeInv, TypeOK
      <3> QED BY <1>1, <2>1, <3>1, <3>2, <3>3 DEF LifeInv, TypeOK, process
    <2>4. Fits(r)'
      BY <2>2 DEF Fits
    <2> QED BY <1>1, <2>1, <2>2, <2>3, <2>4, KindOfRequest, HandlerKeeps DEF LifeInv
  <1>3. CASE BodyArrives(r)
    <2>1. /\ OnlyHandler(r) /\ pc[r] = "reading" /\ pc'[r] = "acquire"
          /\ statement' = statement /\ code' = code
      BY <1>3 DEF BodyArrives, OnlyHandler, process, LifeInv, TypeOK
    <2>2. TypeOK'
      <3>1. pc' \in [Requests -> {"unsent", "reading", "acquire", "run", "respond",
                                  "answered", "cut"}]
        BY <1>3 DEF BodyArrives, LifeInv, TypeOK
      <3>2. holders' = {q \in Requests : pc'[q] = "run"}
        BY <1>1, <2>1 DEF OnlyHandler, LifeInv, TypeOK
      <3> QED BY <1>1, <2>1, <3>1, <3>2 DEF LifeInv, TypeOK, process
    <2> QED BY <1>1, <2>1, <2>2, HandlerKeeps DEF LifeInv, StatementInv, Fits
  <1>4. CASE BodyBreaks(r)
    <2>1. /\ OnlyHandler(r) /\ pc[r] = "reading" /\ pc'[r] = "respond"
          /\ statement'[r] = None /\ code'[r] = 400 /\ Kind[r] # "revoke"
      BY <1>4 DEF BodyBreaks, Respond, OnlyHandler, process, LifeInv, TypeOK
    <2>2. TypeOK'
      <3>1. /\ pc' \in [Requests -> {"unsent", "reading", "acquire", "run", "respond",
                                     "answered", "cut"}]
            /\ statement' \in [Requests -> Statements \cup {None}]
            /\ code' \in [Requests -> {0, 200, 201, 400, 404, 500}]
        BY <1>4 DEF BodyBreaks, Respond, LifeInv, TypeOK
      <3>2. holders' = {q \in Requests : pc'[q] = "run"}
        BY <1>1, <2>1 DEF OnlyHandler, LifeInv, TypeOK
      <3> QED BY <1>1, <2>1, <3>1, <3>2 DEF LifeInv, TypeOK, process
    <2> QED BY <1>1, <2>1, <2>2, HandlerKeeps DEF LifeInv
  <1> QED BY <1>2, <1>3, <1>4

LEMMA RespondTyped ==
    ASSUME LifeInv, NEW r \in Requests, NEW c \in {200, 201, 400, 404, 500}, Respond(r, c)
    PROVE  /\ pc' \in [Requests -> {"unsent", "reading", "acquire", "run", "respond",
                                    "answered", "cut"}]
           /\ statement' \in [Requests -> Statements \cup {None}]
           /\ code' \in [Requests -> {0, 200, 201, 400, 404, 500}]
           /\ pc'[r] = "respond" /\ statement'[r] = None /\ code'[r] = c
           /\ \A q \in Requests \ {r} :
                 pc'[q] = pc[q] /\ statement'[q] = statement[q] /\ code'[q] = code[q]
  BY DEF Respond, LifeInv, TypeOK

LEMMA FailureCodes ==
    ASSUME LifeInv, NEW r \in Requests, pc[r] \in {"acquire", "run"}
    PROVE  FailureCode[statement[r]] \in {200, 201, 400, 404, 500}
  <1>1. statement[r] \in Statements
    BY KindOfRequest DEF LifeInv, StatementInv, Fits, Statements
  <1> QED BY <1>1 DEF FailureCode

LEMMA ConnectionKeeps ==
    ASSUME LifeInv, NEW r \in Requests, Acquire(r) \/ Refuse(r) \/ Finish(r)
    PROVE  LifeInv'
  <1>1. CASE Acquire(r)
    <2>1. /\ OnlyHandler(r) /\ pc[r] = "acquire" /\ pc'[r] = "run" /\ statement' = statement
          /\ UNCHANGED <<process, pool, code, committed, refused, faults>>
          /\ holders' = holders \cup {r} /\ FreeConn
      BY <1>1 DEF Acquire, OnlyHandler, process, LifeInv, TypeOK
    <2>2. IsFiniteSet(holders') /\ Cardinality(holders') <= MaxConns
      BY <2>1, HoldersTyped
    <2>3. TypeOK'
      <3>1. pc' \in [Requests -> {"unsent", "reading", "acquire", "run", "respond",
                                  "answered", "cut"}]
        BY <1>1 DEF Acquire, LifeInv, TypeOK
      <3>2. holders' = {q \in Requests : pc'[q] = "run"}
        BY <2>1 DEF OnlyHandler, LifeInv, TypeOK
      <3> QED BY <2>1, <2>2, <3>1, <3>2 DEF LifeInv, TypeOK, process
    <2> QED BY <2>1, <2>2, <2>3, HandlerKeeps DEF LifeInv, StatementInv, Fits
  <1>2. CASE Refuse(r)
    <2> DEFINE c == FailureCode[statement[r]]
    <2>1. /\ pc[r] = "acquire" /\ pool = "closed" /\ Respond(r, c)
          /\ refused' = refused \cup {r}
          /\ UNCHANGED <<process, pool, holders, committed, faults>>
      BY <1>2 DEF Refuse
    <2>2. c \in {200, 201, 400, 404, 500}
      BY <2>1, FailureCodes
    <2> HIDE DEF c
    <2>3. OnlyHandler(r)
      BY <2>1, <2>2, RespondTyped DEF OnlyHandler
    <2>4. TypeOK'
      <3>1. holders' = {q \in Requests : pc'[q] = "run"}
        BY <2>1, <2>2, RespondTyped DEF LifeInv, TypeOK
      <3> QED BY <2>1, <2>2, <3>1, RespondTyped DEF LifeInv, TypeOK, process
    <2> QED BY <2>1, <2>2, <2>3, <2>4, RespondTyped, HandlerKeeps DEF LifeInv
  <1>3. CASE Finish(r)
    <2>1. /\ OnlyHandler(r) /\ pc[r] = "respond" /\ pc'[r] = "answered"
          /\ UNCHANGED <<process, pool, holders, statement, code, committed, refused, faults>>
      BY <1>3 DEF Finish, OnlyHandler, process, LifeInv, TypeOK
    <2>2. TypeOK'
      <3>1. pc' \in [Requests -> {"unsent", "reading", "acquire", "run", "respond",
                                  "answered", "cut"}]
        BY <1>3 DEF Finish, LifeInv, TypeOK
      <3>2. holders' = {q \in Requests : pc'[q] = "run"}
        BY <2>1 DEF OnlyHandler, LifeInv, TypeOK
      <3> QED BY <2>1, <3>1, <3>2 DEF LifeInv, TypeOK, process
    <2> QED BY <2>1, <2>2, HandlerKeeps DEF LifeInv, StatementInv, Fits
  <1> QED BY <1>1, <1>2, <1>3

LEMMA StepKeeps ==
    ASSUME LifeInv, NEW r \in Requests, Step(r)
    PROVE  LifeInv'
  <1>1. pc[r] = "run" /\ UNCHANGED <<process, pool, refused, faults>>
    BY DEF Step
  <1>2. CASE /\ statement[r] \in {"counter", "insert"}
             /\ \E next \in NextStatement[statement[r]] : statement' = [statement EXCEPT ![r] = next]
             /\ UNCHANGED <<holders, pc, code, committed>>
    <2>1. /\ OnlyHandler(r) /\ statement'[r] \in {"insert", "commit"} /\ Kind[r] = "device"
      BY <1>1, <1>2, KindOfRequest
         DEF OnlyHandler, NextStatement, LifeInv, TypeOK, StatementInv, Fits
    <2>2. TypeOK'
      BY <1>1, <1>2, <2>1 DEF LifeInv, TypeOK, process, Statements, OnlyHandler
    <2>3. Fits(r)'
      BY <2>1 DEF Fits
    <2> QED BY <1>1, <1>2, <2>1, <2>2, <2>3, HandlerKeeps DEF LifeInv
  <1>3. CASE /\ statement[r] \in {"update", "exists"}
             /\ \E next \in NextStatement[statement[r]] : statement' = [statement EXCEPT ![r] = next]
             /\ Effect(r)
             /\ holders' = holders \ {r}
             /\ pc' = [pc EXCEPT ![r] = "acquire"]
             /\ UNCHANGED code
    <2>1. /\ OnlyHandler(r) /\ statement'[r] \in {"audit", "exists"} /\ Kind[r] = "revoke" /\ pc'[r] = "acquire"
      BY <1>1, <1>3, KindOfRequest
         DEF OnlyHandler, NextStatement, Effect, LifeInv, TypeOK, StatementInv, Fits
    <2>2. IsFiniteSet(holders') /\ Cardinality(holders') <= MaxConns
      BY <1>3, HoldersTyped
    <2>3. TypeOK'
      <3>1. pc' \in [Requests -> {"unsent", "reading", "acquire", "run", "respond",
                                  "answered", "cut"}]
        BY <1>3 DEF LifeInv, TypeOK
      <3>2. holders' = {q \in Requests : pc'[q] = "run"}
        BY <1>3, <2>1 DEF OnlyHandler, LifeInv, TypeOK
      <3>3. statement' \in [Requests -> Statements \cup {None}]
        BY <1>3, <2>1 DEF OnlyHandler, LifeInv, TypeOK, Statements
      <3>4. committed' \subseteq (Requests \X Statements)
        BY <1>3 DEF Effect, LifeInv, TypeOK, Statements
      <3> QED BY <1>1, <1>3, <2>2, <3>1, <3>2, <3>3, <3>4 DEF LifeInv, TypeOK, process
    <2>4. Fits(r)'
      BY <2>1 DEF Fits
    <2> QED BY <1>1, <1>3, <2>1, <2>2, <2>3, <2>4, HandlerKeeps DEF LifeInv
  <1>4. CASE /\ statement[r] \in {"select", "audit", "commit"}
             /\ Respond(r, IF statement[r] = "commit" THEN 201 ELSE 200)
             /\ Effect(r)
             /\ holders' = holders \ {r}
    <2> DEFINE c == IF statement[r] = "commit" THEN 201 ELSE 200
    <2>1. c \in {200, 201, 400, 404, 500} /\ Respond(r, c)
      BY <1>4
    <2>2. Kind[r] = "revoke" => statement[r] = "audit"
      BY <1>1, <1>4 DEF LifeInv, StatementInv, Fits
    <2>3. <<r, statement[r]>> \in committed' /\ committed \subseteq committed'
          /\ committed' \subseteq (Requests \X Statements)
      BY <1>4 DEF Effect, LifeInv, TypeOK, Statements
    <2>4. IsFiniteSet(holders') /\ Cardinality(holders') <= MaxConns
      BY <1>4, HoldersTyped
    <2> HIDE DEF c
    <2>5. OnlyHandler(r)
      BY <1>1, <2>1, <2>3, RespondTyped DEF OnlyHandler
    <2>6. TypeOK'
      <3>1. holders' = {q \in Requests : pc'[q] = "run"}
        BY <1>4, <2>1, RespondTyped DEF LifeInv, TypeOK
      <3> QED BY <1>1, <2>1, <2>3, <2>4, <3>1, RespondTyped DEF LifeInv, TypeOK, process
    <2>7. pc'[r] = "respond" /\ statement'[r] = None
      BY <2>1, RespondTyped
    <2>8. /\ refused' = refused /\ (faults = 0 \/ faults' # 0)
          /\ Kind[r] = "revoke" => <<r, "audit">> \in committed'
      BY <1>1, <2>2, <2>3
    <2> QED BY <1>1, <2>4, <2>5, <2>6, <2>7, <2>8, HandlerKeeps
  <1>5. CASE statement[r] = "exists" /\ Respond(r, 404) /\ Effect(r) /\ holders' = holders \ {r}
    <2> DEFINE c == 404
    <2>1. c \in {200, 201, 400, 404, 500} /\ c # 200 /\ Respond(r, c)
      BY <1>5
    <2> HIDE DEF c
    <2>2. <<r, statement[r]>> \in committed' /\ committed \subseteq committed'
          /\ committed' \subseteq (Requests \X Statements)
      BY <1>5 DEF Effect, LifeInv, TypeOK, Statements
    <2>3. IsFiniteSet(holders') /\ Cardinality(holders') <= MaxConns
      BY <1>5, HoldersTyped
    <2>4. OnlyHandler(r)
      BY <1>1, <2>1, <2>2, RespondTyped DEF OnlyHandler
    <2>5. TypeOK'
      <3>1. holders' = {q \in Requests : pc'[q] = "run"}
        BY <1>5, <2>1, RespondTyped DEF LifeInv, TypeOK
      <3> QED BY <1>1, <2>1, <2>2, <2>3, <3>1, RespondTyped DEF LifeInv, TypeOK, process
    <2>6. pc'[r] = "respond" /\ statement'[r] = None /\ code'[r] # 200
      BY <2>1, RespondTyped
    <2>7. refused' = refused /\ (faults = 0 \/ faults' # 0)
      BY <1>1
    <2> QED BY <1>1, <2>3, <2>4, <2>5, <2>6, <2>7, HandlerKeeps
  <1> QED BY <1>2, <1>3, <1>4, <1>5 DEF Step, GoOn

LEMMA StepFailsKeeps ==
    ASSUME LifeInv, NEW r \in Requests, StepFails(r)
    PROVE  LifeInv'
  <1> DEFINE c == FailureCode[statement[r]]
  <1>1. /\ pc[r] \in {"acquire", "run"} /\ Respond(r, c) /\ c \in {200, 201, 400, 404, 500}
        /\ faults' = faults + 1 /\ faults < MaxFaults /\ faults \in 0..MaxFaults
        /\ holders' = holders \ {r} /\ UNCHANGED <<process, pool, refused>>
    BY FailureCodes DEF StepFails, Returned, LifeInv, TypeOK
  <1> HIDE DEF c
  <1>2. faults' \in 0..MaxFaults /\ faults' # 0
    BY <1>1
  <1>3. committed \subseteq committed' /\ committed' \subseteq (Requests \X Statements)
    <2>1. CASE UNCHANGED committed
      BY <2>1 DEF LifeInv, TypeOK
    <2>2. CASE pc[r] = "run" /\ Effect(r)
      <3>1. statement[r] \in Statements
        BY <2>2, KindOfRequest DEF LifeInv, StatementInv, Fits, Statements
      <3> QED BY <2>2, <3>1 DEF Effect, LifeInv, TypeOK
    <2> QED BY <2>1, <2>2 DEF StepFails
  <1>4. IsFiniteSet(holders') /\ Cardinality(holders') <= MaxConns
    BY <1>1, HoldersTyped
  <1>5. OnlyHandler(r)
    BY <1>1, <1>3, RespondTyped DEF OnlyHandler
  <1>6. TypeOK'
    <2>1. holders' = {q \in Requests : pc'[q] = "run"}
      BY <1>1, RespondTyped DEF LifeInv, TypeOK
    <2> QED BY <1>1, <1>2, <1>3, <1>4, <2>1, RespondTyped DEF LifeInv, TypeOK, process
  <1>7. pc'[r] = "respond" /\ statement'[r] = None
    BY <1>1, RespondTyped
  <1>8. refused' = refused /\ (faults = 0 \/ faults' # 0)
    BY <1>1, <1>2
  <1> QED BY <1>1, <1>2, <1>4, <1>5, <1>6, <1>7, <1>8, HandlerKeeps

LEMMA StutterKeeps == ASSUME LifeInv, UNCHANGED vars PROVE LifeInv'
  <1> USE DEF vars, process, handlers
  <1>1. TypeOK' /\ IsFiniteSet(holders')
    BY DEF LifeInv, TypeOK
  <1>2. RunInv' /\ CutInv' /\ AuditInv'
    BY DEF LifeInv, RunInv, CutInv, AuditInv
  <1>3. StatementInv'
    BY DEF LifeInv, StatementInv, Fits
  <1> QED BY <1>1, <1>2, <1>3 DEF LifeInv

LEMMA NextLifeInv == LifeInv /\ [Next]_vars => LifeInv'
  BY RunKeeps, ExitKeeps, ArriveKeeps, ConnectionKeeps, StepKeeps, StepFailsKeeps, StutterKeeps
     DEF Next, Run, Handle, Gone

\* The inductive invariant holds in every reachable state.
THEOREM LifeInvariant == Spec => []LifeInv
  BY InitLifeInv, NextLifeInv, PTL DEF Spec

-----------------------------------------------------------------------------
(* What follows *)

\* Every variable of the process stays in its type, and the pool is never
\* overdrawn.
THEOREM TypeCorrect == Spec => []TypeOK
  <1>1. LifeInv => TypeOK
    BY DEF LifeInv
  <1> QED BY LifeInvariant, <1>1, PTL

\* Exit status 0 means that every accepted request was answered and none refused.
THEOREM ExitIsGraceful == Spec => []GracefulExit
  <1>1. LifeInv => GracefulExit
    BY DEF LifeInv, RunInv, GracefulExit
  <1> QED BY LifeInvariant, <1>1, PTL

\* Only a failed statement or a shutdown out of time leaves a revocation unaudited.
THEOREM AuditsSurviveShutdown == Spec => []RevocationsAudited
  <1>1. LifeInv => RevocationsAudited
    BY DEF LifeInv, AuditInv, RevocationsAudited
  <1> QED BY LifeInvariant, <1>1, PTL

\* No return of run leaves a transaction open on the database.
THEOREM NoTransactionIsCut == Spec => []ExitCutsNoTransaction
  <1>1. LifeInv => ExitCutsNoTransaction
    BY DEF LifeInv, CutInv, TypeOK, ExitCutsNoTransaction
  <1> QED BY LifeInvariant, <1>1, PTL

=============================================================================
