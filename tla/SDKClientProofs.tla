--------------------------- MODULE SDKClientProofs ---------------------------
(***************************************************************************)
(* Proofs about SDKClient, for any number of goroutines, requests, calls,  *)
(* passports and devices: what a caller may conclude from nil and from the *)
(* errors, when connections break and requests outlive their calls.        *)
(***************************************************************************)
EXTENDS SDKClient, TLAPS

USE BoundsAssumption, IdentifiersAssumption, SlotsAssumption

-----------------------------------------------------------------------------
(* The invariant *)

Statuses   == {"absent", "active", "revoked"}
Approvals  == {"absent", "pending", "active"}
Phases     == {"idle", "pending", "done"}
Refusals   == {"missing", "forbidden", "error"}
Replies    == Refusals \cup {None, "ok", "active", "revoked", "granted", "denied", "token"}
Promises   == {"register", "revoke"} \X PassportIDs
CallRec    == [step: {"idle", "wait", "returned"}, op: AgentOps \cup DeviceOps \cup {None},
               about: PassportIDs \cup Devices \cup {None}, name: Names \cup {<< >>},
               slot: Slots \cup {None}, code: Nat, said: Replies, err: Errors,
               since: SUBSET Promises]

ShapeOK ==
    /\ status \in [PassportIDs -> Statuses] /\ device \in [Devices -> Approvals]
    /\ \A p \in PassportIDs \ UUIDs : status[p] = "absent"
    /\ phase \in [Slots -> Phases] /\ dphase \in [Slots -> Phases]
    /\ outcome \in [Slots -> Replies] /\ doutcome \in [Slots -> Replies]
    /\ target = [s \in Slots |-> target[s]] /\ dtarget = [s \in Slots |-> dtarget[s]]
    /\ client \in [Threads -> CallRec]
    /\ told \in SUBSET Promises /\ calls \in 0..MaxCalls

\* A request is for one of the two APIs, and has an answer once it is served. A
\* registration stores its passport under an identifier the server has drawn.
SlotOK(s) ==
    /\ phase[s] = "idle" \/ dphase[s] = "idle"
    /\ phase[s] # "idle" =>
          /\ target[s] \in [op: Agents!Ops, id: PassportIDs]
          /\ target[s].op = "register" => target[s].id \in UUIDs
    /\ dphase[s] # "idle" =>
          dtarget[s] \in [op: {"register", "authenticate"}, type: {"GPU"}, id: Devices]
    /\ phase[s] = "done" <=> outcome[s] # None
    /\ dphase[s] = "done" <=> doutcome[s] # None

\* What answer o to call c says of the passports st and the devices dv.
Known(st, dv, c, o) ==
    /\ c.op = "revoke" /\ o # "error" /\ (o = "missing" => <<"register", c.about>> \in c.since) =>
          st[c.about] = "revoked"
    /\ c.op \in {"register", "verify", "capability", "log"} /\ o \notin {"missing", "error"} =>
          st[c.about] # "absent"
    /\ c.op # "revoke" /\ o = "missing" => <<"register", c.about>> \notin c.since
    /\ <<"revoke", c.about>> \in c.since => ~(c.op = "verify" /\ o = "active") /\ o # "granted"
    /\ c.op = "register_device" /\ o \notin Refusals => dv[c.about] # "absent"
    /\ c.op = "authenticate" /\ o \notin Refusals => dv[c.about] = "active"

\* A call asks for something there may be.
Asks(c) ==
    \/ c.op \in AgentOps /\ c.about \in PassportIDs /\ (c.op = "register" => c.about \in UUIDs)
    \/ c.op \in DeviceOps /\ c.about \in Devices

\* The request in slot s is the one of call c.
Carries(s, c) ==
    /\ c.op \in AgentOps => phase[s] # "idle" /\ target[s].op = c.op /\ target[s].id = c.about
    /\ c.op \in DeviceOps =>
          /\ dphase[s] # "idle" /\ dtarget[s].id = c.about
          /\ dtarget[s].op = (IF c.op = "authenticate" THEN c.op ELSE "register")

\* Error e of call c names what the caller asked for, unless the path carries a text
\* of the caller that begins like a method.
Fits(c, e) ==
    /\ c.op = "revoke" => e \notin {"APIError", "ErrRegistration"}
    /\ c.op \in {"register", "register_device"} => e \notin {"APIError", "ErrRevocation"}
    /\ e = "ErrRevocation" =>
          c.op = "revoke" \/ NamedAlike(c, "revoke") \/ (c.op \in IdOps /\ c.about \in PassportIDs \ UUIDs)
    /\ e = "ErrRegistration" =>
          \/ c.op \in {"register", "register_device"} \/ NamedAlike(c, "register")
          \/ c.op \in IdOps /\ c.about \in PassportIDs \ UUIDs

\* What the caller is told agrees with what is known.
Result(st, dv, c) ==
    /\ c.err = "nil" <=> c.said # None
    /\ c.err = "ErrAPI" <=> c.code = 0
    /\ c.err = "ErrAuthentication" <=> c.code \in {401, 403}
    /\ Fits(c, c.err)
    /\ c.said # None => c.said \notin Refusals /\ Known(st, dv, c, c.said)
    /\ c.code = 404 => (c.op = "capability" /\ Len(c.name) # 1) \/ Known(st, dv, c, "missing")

ClientOK(t) ==
    LET c == client[t] IN
    /\ c.step # "wait" => c.slot = None
    /\ c.step # "idle" => Asks(c) /\ c.since \subseteq told
    /\ c.step = "wait" =>
          /\ c.slot \in Slots /\ c.code = 0 /\ c.said = None /\ c.err = "nil"
          /\ Carries(c.slot, c)
          /\ \A u \in Threads \ {t} : client[u].slot # c.slot
          /\ Said(c.slot) # None => Known(status, device, c, Said(c.slot))
    /\ c.step = "returned" => Result(status, device, c)

\* What has been reported is so.
ToldInv == \A p \in PassportIDs : /\ <<"register", p>> \in told => status[p] # "absent"
                                  /\ <<"revoke", p>> \in told => status[p] = "revoked"

ClientInv == /\ ShapeOK /\ ToldInv
             /\ \A s \in Slots : SlotOK(s)
             /\ \A t \in Threads : ClientOK(t)

LEMMA InitClientInv == Init => ClientInv
  <1> SUFFICES ASSUME Init PROVE ClientInv
    OBVIOUS
  <1> USE DEF Init, Agents!Init, Codes!Init
  <1>1. ShapeOK
    <2>1. NoCall \in CallRec
      BY DEF NoCall, CallRec, Replies, Errors, None
    <2> QED BY <2>1 DEF ShapeOK, Statuses, Approvals, Phases, Replies, None
  <1>2. \A s \in Slots : SlotOK(s)
    BY DEF SlotOK, None
  <1>3. \A t \in Threads : ClientOK(t)
    BY DEF ClientOK, NoCall
  <1>4. ToldInv
    BY DEF ToldInv
  <1> QED BY <1>1, <1>2, <1>3, <1>4 DEF ClientInv

-----------------------------------------------------------------------------
(* What the server does to passports and devices *)

\* Nothing is unregistered, no revocation is taken back and no approval.
Grown(st, dv, st2, dv2) ==
    /\ \A p \in PassportIDs : /\ st[p] # "absent" => st2[p] # "absent"
                              /\ st[p] = "revoked" => st2[p] = "revoked"
    /\ \A d \in Devices : /\ dv[d] # "absent" => dv2[d] # "absent"
                          /\ dv[d] = "active" => dv2[d] = "active"

LEMMA KnownGrows ==
    ASSUME NEW st, NEW dv, NEW st2, NEW dv2, Grown(st, dv, st2, dv2),
           NEW c, Asks(c), NEW o, Known(st, dv, c, o)
    PROVE  Known(st2, dv2, c, o)
  BY DEF Grown, Asks, Known, AgentOps, DeviceOps

LEMMA ResultGrows ==
    ASSUME NEW st, NEW dv, NEW st2, NEW dv2, Grown(st, dv, st2, dv2),
           NEW c, Asks(c), Result(st, dv, c)
    PROVE  Result(st2, dv2, c)
  BY KnownGrows DEF Result

LEMMA GrownTold ==
    ASSUME ToldInv, told' = told, Grown(status, device, status', device')
    PROVE  ToldInv'
  BY DEF ToldInv, Grown

LEMMA NothingGrows == \A st, dv : Grown(st, dv, st, dv)
  BY DEF Grown

LEMMA OpsAre ==
    /\ Agents!Ops = {"register", "verify", "capability", "log", "revoke", "actions", "list"}
    /\ Agents!Ops = AgentOps
  BY DEF Agents!Ops, Agents!Outcomes, AgentOps

\* What the answers of the ledger mean, at the instant a call takes effect.
LEMMA Effects ==
    ASSUME NEW op \in Agents!Ops, NEW s \in Statuses, Agents!Outcomes[op][s] # {}
    PROVE  /\ Agents!After(op, s) \in Statuses
           /\ s # "absent" => Agents!After(op, s) # "absent"
           /\ s = "revoked" => Agents!After(op, s) = "revoked"
           /\ op = "register" => Agents!After(op, s) # "absent"
           /\ op # "register" /\ s = "absent" => Agents!After(op, s) = "absent"
           /\ op = "revoke" /\ s # "absent" => Agents!After(op, s) = "revoked"
           /\ \A o \in Agents!Outcomes[op][s] :
                 /\ o \in Replies \ {None, "error", "forbidden", "token"}
                 /\ o = "missing" => s = "absent" \/ (op = "revoke" /\ s = "revoked")
                 /\ o # "missing" /\ op \in {"verify", "capability", "log", "revoke"} => s # "absent"
                 /\ s = "revoked" => o # "active" /\ o # "granted"
  <1> USE DEF Statuses, Replies, Refusals, None
  <1>1. CASE op = "register"
    BY <1>1 DEF Agents!Outcomes, Agents!After
  <1>2. CASE op = "verify"
    BY <1>2 DEF Agents!Outcomes, Agents!After
  <1>3. CASE op = "capability"
    BY <1>3 DEF Agents!Outcomes, Agents!After
  <1>4. CASE op = "log"
    BY <1>4 DEF Agents!Outcomes, Agents!After
  <1>5. CASE op = "revoke"
    BY <1>5 DEF Agents!Outcomes, Agents!After
  <1>6. CASE op = "actions"
    BY <1>6 DEF Agents!Outcomes, Agents!After
  <1>7. CASE op = "list"
    BY <1>7 DEF Agents!Outcomes, Agents!After
  <1> QED BY <1>1, <1>2, <1>3, <1>4, <1>5, <1>6, <1>7, OpsAre

-----------------------------------------------------------------------------
(* Calls that do not move *)

SlotSame(s) == /\ phase'[s] = phase[s] /\ target'[s] = target[s] /\ outcome'[s] = outcome[s]
               /\ dphase'[s] = dphase[s] /\ dtarget'[s] = dtarget[s] /\ doutcome'[s] = doutcome[s]

LEMMA SlotKeeps ==
    ASSUME NEW s \in Slots, SlotSame(s)
    PROVE  /\ SlotOK(s) => SlotOK(s)'
           /\ Said(s)' = Said(s)
           /\ Free(s)' = Free(s)
  BY DEF SlotSame, SlotOK, Said, Free

\* A call that does not move keeps what it knows while the server goes on, at most
\* with the request of this call.
LEMMA ClientKeeps ==
    ASSUME ClientInv, Grown(status, device, status', device'), told \subseteq told',
           NEW t \in Threads, client'[t] = client[t],
           client[t].step = "wait" =>
               /\ \A u \in Threads \ {t} : client'[u].slot # client[t].slot
               /\ \/ SlotSame(client[t].slot)
                  \/ /\ Carries(client[t].slot, client[t])'
                     /\ Said(client[t].slot)' # None =>
                           Known(status', device', client'[t], Said(client[t].slot)')
    PROVE  ClientOK(t)'
  <1> DEFINE c == client[t]
             s == client[t].slot
  <1>1. ClientOK(t)
    BY DEF ClientInv
  <1>2. c.step # "idle" => Asks(c) /\ c.since \subseteq told'
    BY <1>1 DEF ClientOK
  <1>3. c.step = "returned" => Result(status', device', c)
    BY <1>1, <1>2, ResultGrows DEF ClientOK
  <1>4. ASSUME c.step = "wait"
        PROVE  /\ Carries(s, client[t])'
               /\ Said(s)' # None => Known(status', device', c, Said(s)')
    <2>1. CASE SlotSame(s)
      <3>1. s \in Slots /\ Carries(s, c) /\ (Said(s) # None => Known(status, device, c, Said(s)))
        BY <1>1, <1>4 DEF ClientOK
      <3>2. Said(s)' = Said(s)
        BY <2>1, <3>1, SlotKeeps
      <3>3. Said(s)' # None => Known(status', device', c, Said(s)')
        BY <1>2, <1>4, <3>1, <3>2, KnownGrows
      <3>4. Carries(s, client[t])'
        BY <2>1, <3>1 DEF Carries, SlotSame
      <3> QED BY <3>3, <3>4
    <2>2. CASE ~SlotSame(s)
      BY <1>4, <2>2
    <2> QED BY <2>1, <2>2
  <1> QED BY <1>1, <1>2, <1>3, <1>4 DEF ClientOK

-----------------------------------------------------------------------------
(* The server serves a request *)

\* The request of slot s is answered; nobody else's is touched.
LEMMA Answered ==
    ASSUME ClientInv, NEW s \in Slots, UNCHANGED <<client, told, calls, target, dtarget>>,
           Grown(status, device, status', device'), ShapeOK', SlotOK(s)',
           \A x \in Slots \ {s} : SlotSame(x),
           phase[s] # "idle" => phase'[s] # "idle", dphase[s] # "idle" => dphase'[s] # "idle",
           \A t \in Threads : client[t].step = "wait" /\ client[t].slot = s =>
                                  Known(status', device', client[t], Said(s)')
    PROVE  ClientInv'
  <1>1. \A x \in Slots : SlotOK(x)'
    BY SlotKeeps DEF ClientInv
  <1>2. ToldInv'
    BY GrownTold DEF ClientInv
  <1>3. ASSUME NEW t \in Threads
        PROVE  ClientOK(t)'
    <2>1. ClientOK(t)
      BY DEF ClientInv
    <2>2. client[t].step = "wait" => \A u \in Threads \ {t} : client'[u].slot # client[t].slot
      BY <2>1 DEF ClientOK
    <2>3. client[t].step = "wait" /\ client[t].slot = s =>
             /\ Carries(client[t].slot, client[t])'
             /\ Known(status', device', client'[t], Said(client[t].slot)')
      BY <2>1 DEF ClientOK, Carries, Said
    <2>4. client[t].step = "wait" /\ client[t].slot # s => SlotSame(client[t].slot)
      BY <2>1 DEF ClientOK
    <2>5. client'[t] = client[t] /\ told \subseteq told'
      OBVIOUS
    <2> QED BY <2>2, <2>3, <2>4, <2>5, ClientKeeps
  <1> QED BY <1>1, <1>2, <1>3 DEF ClientInv

\* What a waiting call and its request have in common.
LEMMA Waiting ==
    ASSUME ClientInv, NEW t \in Threads, client[t].step = "wait"
    PROVE  /\ client[t].slot \in Slots /\ Carries(client[t].slot, client[t])
           /\ SlotOK(client[t].slot) /\ Asks(client[t]) /\ client[t].since \subseteq told
  BY DEF ClientInv, ClientOK

LEMMA TakeEffectInv ==
    ASSUME ClientInv, NEW s \in Slots, Agents!TakeEffect(s),
           UNCHANGED <<deviceVars, client, told, calls>>
    PROVE  ClientInv'
  <1> DEFINE op == target[s].op
             p  == target[s].id
             x  == status[p]
             y  == Agents!After(op, x)
  <1>1. /\ phase[s] = "pending" /\ target' = target
        /\ phase' = [phase EXCEPT ![s] = "done"] /\ status' = [status EXCEPT ![p] = y]
        /\ Agents!Outcomes[op][x] # {}
        /\ UNCHANGED <<device, dphase, dtarget, doutcome>>
    BY DEF Agents!TakeEffect, deviceVars
  <1>2. PICK o \in Agents!Outcomes[op][x] \cup {"error"} : outcome' = [outcome EXCEPT ![s] = o]
    BY DEF Agents!TakeEffect
  <1>3. /\ op \in Agents!Ops /\ p \in PassportIDs /\ x \in Statuses
        /\ ShapeOK /\ SlotOK(s) /\ dphase[s] = "idle"
    BY <1>1 DEF ClientInv, SlotOK, ShapeOK
  <1>4. /\ y \in Statuses /\ o \in Replies \ {None, "forbidden", "token"}
        /\ x # "absent" => y # "absent"
        /\ x = "revoked" => y = "revoked"
        /\ op = "register" => y # "absent"
        /\ op # "register" /\ x = "absent" => y = "absent"
        /\ op = "revoke" /\ x # "absent" => y = "revoked"
        /\ o = "missing" => x = "absent" \/ (op = "revoke" /\ x = "revoked")
        /\ o # "missing" /\ o # "error" /\ op \in {"verify", "capability", "log", "revoke"} =>
              x # "absent"
        /\ x = "revoked" => o # "active" /\ o # "granted"
    <2>1. CASE o = "error"
      BY <1>1, <1>3, <2>1, Effects DEF Replies, Refusals, None
    <2>2. CASE o \in Agents!Outcomes[op][x]
      BY <1>1, <1>3, <2>2, Effects
    <2> QED BY <1>2, <2>1, <2>2
  <1> HIDE DEF y
  <1>5. /\ phase'[s] = "done" /\ outcome'[s] = o /\ status'[p] = y
        /\ \A q \in PassportIDs \ {p} : status'[q] = status[q]
        /\ \A z \in Slots \ {s} : SlotSame(z)
    BY <1>1, <1>2, <1>3 DEF ShapeOK, SlotSame
  <1>6. Grown(status, device, status', device')
    BY <1>1, <1>3, <1>4, <1>5 DEF Grown
  <1>7. ShapeOK'
    <2>1. \A q \in PassportIDs \ UUIDs : status'[q] = "absent"
      BY <1>1, <1>3, <1>4, <1>5 DEF ShapeOK, SlotOK
    <2> QED BY <1>1, <1>2, <1>3, <1>4, <2>1 DEF ShapeOK, Phases
  <1>8. SlotOK(s)' /\ Said(s)' = o
    BY <1>1, <1>3, <1>4, <1>5 DEF SlotOK, Said
  <1>9. ASSUME NEW t \in Threads, client[t].step = "wait", client[t].slot = s
        PROVE  Known(status', device', client[t], o)
    <2> DEFINE c == client[t]
    <2>1. Carries(s, c) /\ Asks(c) /\ c.since \subseteq told
      BY <1>9, Waiting
    <2>2. c.op = op /\ c.about = p /\ c.op \notin DeviceOps
      BY <1>3, <2>1 DEF Carries, Asks
    <2>3. /\ <<"register", p>> \in c.since => x # "absent"
          /\ <<"revoke", p>> \in c.since => x = "revoked"
      BY <1>3, <2>1 DEF ClientInv, ToldInv
    <2>4. status'[c.about] = y /\ c.op \notin {"register_device", "authenticate"}
      BY <1>5, <2>2 DEF DeviceOps
    <2>5. c.op = "revoke" /\ o # "error" /\ (o = "missing" => <<"register", c.about>> \in c.since) =>
             y = "revoked"
      BY <1>4, <2>2, <2>3
    <2>6. c.op \in {"register", "verify", "capability", "log"} /\ o \notin {"missing", "error"} =>
             y # "absent"
      BY <1>4, <2>2
    <2>7. /\ c.op # "revoke" /\ o = "missing" => <<"register", c.about>> \notin c.since
          /\ <<"revoke", c.about>> \in c.since => o # "active" /\ o # "granted"
      BY <1>4, <2>2, <2>3
    <2> QED BY <2>4, <2>5, <2>6, <2>7 DEF Known
  <1>10. UNCHANGED <<client, told, calls, target, dtarget>> /\ dphase'[s] = dphase[s]
    BY <1>1
  <1> HIDE DEF op, p, x
  <1> QED BY <1>3, <1>5, <1>6, <1>7, <1>8, <1>9, <1>10, Answered

\* A failed request says nothing.
LEMMA AgentsFailInv ==
    ASSUME ClientInv, NEW s \in Slots, Agents!Fail(s),
           UNCHANGED <<deviceVars, client, told, calls>>
    PROVE  ClientInv'
  <1>1. /\ phase[s] = "pending" /\ target' = target /\ status' = status
        /\ phase' = [phase EXCEPT ![s] = "done"] /\ outcome' = [outcome EXCEPT ![s] = "error"]
        /\ UNCHANGED <<device, dphase, dtarget, doutcome>>
        /\ ShapeOK /\ SlotOK(s)
    BY DEF Agents!Fail, deviceVars, ClientInv
  <1>2. /\ phase'[s] = "done" /\ outcome'[s] = "error"
        /\ \A z \in Slots \ {s} : SlotSame(z)
    BY <1>1 DEF ShapeOK, SlotSame
  <1>3. ShapeOK'
    BY <1>1 DEF ShapeOK, Phases, Replies, Refusals
  <1>4. SlotOK(s)' /\ Said(s)' = "error"
    BY <1>1, <1>2 DEF SlotOK, Said, None
  <1>5. \A t \in Threads : client[t].step = "wait" /\ client[t].slot = s =>
                               Known(status', device', client[t], "error")
    <2> SUFFICES ASSUME NEW t \in Threads, client[t].step = "wait"
                 PROVE  Known(status', device', client[t], "error")
      OBVIOUS
    <2> QED BY DEF Known, Refusals
  <1>6. Grown(status, device, status', device')
    BY <1>1, NothingGrows
  <1>7. dphase'[s] = dphase[s] /\ UNCHANGED <<client, told, calls, target, dtarget>>
    BY <1>1
  <1> QED BY <1>2, <1>3, <1>4, <1>5, <1>6, <1>7, Answered

LEMMA DevicesServeInv ==
    ASSUME ClientInv, NEW s \in Slots, Codes!Register(s) \/ Codes!Authenticate(s) \/ Codes!Fail(s),
           UNCHANGED <<agentVars, client, told, calls>>
    PROVE  ClientInv'
  <1> DEFINE d == dtarget[s].id
  <1>1. /\ dphase[s] = "pending" /\ dtarget' = dtarget
        /\ UNCHANGED <<status, phase, target, outcome>>
        /\ ShapeOK /\ SlotOK(s)
    BY DEF Codes!Register, Codes!Allocate, Codes!Authenticate, Codes!Fail, Codes!Done, agentVars,
           ClientInv
  <1>2. /\ dtarget[s].op \in {"register", "authenticate"} /\ d \in Devices
        /\ device[d] \in Approvals /\ phase[s] = "idle" /\ outcome[s] = None
    BY <1>1 DEF SlotOK, ShapeOK
  <1>3. PICK o \in {"ok", "token"} \cup Refusals :
           /\ dphase' = [dphase EXCEPT ![s] = "done"] /\ doutcome' = [doutcome EXCEPT ![s] = o]
           /\ \/ device' = device
              \/ device[d] = "absent" /\ device' = [device EXCEPT ![d] = "pending"]
           /\ o \notin Refusals /\ dtarget[s].op = "register" => device'[d] # "absent"
           /\ o \notin Refusals /\ dtarget[s].op = "authenticate" => device'[d] = "active"
    <2>1. CASE Codes!Register(s)
      <3>1. /\ dtarget[s].op = "register" /\ device[d] = "absent"
            /\ device' = [device EXCEPT ![d] = "pending"]
        BY <2>1 DEF Codes!Register, Codes!Allocate
      <3>2. PICK o \in {"ok", "error"} : Codes!Done(s, o)
        BY <2>1 DEF Codes!Register
      <3>3. device'[d] = "pending"
        BY <1>1, <1>2, <3>1 DEF ShapeOK
      <3> QED BY <3>1, <3>2, <3>3 DEF Codes!Done, Refusals
    <2>2. CASE Codes!Authenticate(s)
      <3>1. /\ dtarget[s].op = "authenticate" /\ device' = device
            /\ Codes!Done(s, CASE device[d] = "absent"  -> "missing"
                               [] device[d] = "pending" -> "forbidden"
                               [] device[d] = "active"  -> "token")
        BY <2>2 DEF Codes!Authenticate
      <3>2. PICK o \in {"token", "missing", "forbidden"} :
               Codes!Done(s, o) /\ (o = "token" => device[d] = "active")
        BY <1>2, <3>1 DEF Approvals
      <3> QED BY <3>1, <3>2 DEF Codes!Done, Refusals
    <2>3. CASE Codes!Fail(s)
      BY <2>3 DEF Codes!Fail, Codes!Done, Refusals
    <2> QED BY <2>1, <2>2, <2>3
  <1>4. /\ dphase'[s] = "done" /\ doutcome'[s] = o /\ o \in Replies \ {None, "active", "granted"}
        /\ \A z \in Slots \ {s} : SlotSame(z)
    BY <1>1, <1>3 DEF ShapeOK, SlotSame, Replies, Refusals, None
  <1>5. ShapeOK'
    <2>1. device' \in [Devices -> Approvals]
      BY <1>1, <1>3 DEF ShapeOK, Approvals
    <2>2. dphase' \in [Slots -> Phases] /\ doutcome' \in [Slots -> Replies]
      BY <1>1, <1>3, <1>4 DEF ShapeOK, Phases
    <2> QED BY <1>1, <2>1, <2>2 DEF ShapeOK
  <1>6. SlotOK(s)' /\ Said(s)' = o
    BY <1>1, <1>2, <1>4 DEF SlotOK, Said
  <1>7. Grown(status, device, status', device')
    BY <1>1, <1>3 DEF Grown, ShapeOK
  <1>8. ASSUME NEW t \in Threads, client[t].step = "wait", client[t].slot = s
        PROVE  Known(status', device', client[t], o)
    <2> DEFINE c == client[t]
    <2>1. Carries(s, c) /\ Asks(c) /\ c.since \subseteq told
      BY <1>8, Waiting
    <2>2. c.about = d /\ c.op \in DeviceOps /\ c.op \notin AgentOps
          /\ dtarget[s].op = (IF c.op = "authenticate" THEN c.op ELSE "register")
      BY <1>2, <2>1 DEF Carries, Asks, AgentOps, DeviceOps
    <2>3. \A op : <<op, d>> \notin c.since
      BY <1>1, <1>2, <2>1 DEF ShapeOK, Promises
    <2>4. c.op \in {"register_device", "authenticate"}
      BY <2>2 DEF DeviceOps
    <2>5. /\ c.op = "register_device" /\ o \notin Refusals => device'[c.about] # "absent"
          /\ c.op = "authenticate" /\ o \notin Refusals => device'[c.about] = "active"
      BY <1>3, <2>2
    <2>6. \A op : <<op, c.about>> \notin c.since
      BY <2>2, <2>3
    <2> QED BY <2>4, <2>5, <2>6 DEF Known
  <1>9. phase'[s] = phase[s] /\ UNCHANGED <<client, told, calls, target, dtarget>>
    BY <1>1
  <1> QED BY <1>4, <1>5, <1>6, <1>7, <1>8, <1>9, Answered

LEMMA ServeInv ==
    ASSUME ClientInv, NEW s \in Slots, Serve(s)
    PROVE  ClientInv'
  BY TakeEffectInv, AgentsFailInv, DevicesServeInv DEF Serve

LEMMA ApproveInv ==
    ASSUME ClientInv, Approve
    PROVE  ClientInv'
  <1>1. PICK d \in Devices : Codes!Approve(d)
    BY DEF Approve
  <1>2. /\ device[d] = "pending" /\ device' = [device EXCEPT ![d] = "active"]
        /\ UNCHANGED <<status, phase, target, outcome, dphase, dtarget, doutcome, client, told, calls>>
        /\ ShapeOK
    BY <1>1 DEF Approve, Codes!Approve, Codes!callVars, agentVars, ClientInv
  <1>3. ShapeOK'
    BY <1>2 DEF ShapeOK, Approvals
  <1>4. Grown(status, device, status', device')
    BY <1>2 DEF Grown, ShapeOK
  <1>5. \A s \in Slots : SlotSame(s)
    BY <1>2 DEF SlotSame
  <1>6. \A s \in Slots : SlotOK(s)'
    BY <1>5, SlotKeeps DEF ClientInv
  <1>7. ToldInv'
    BY <1>2, <1>4, GrownTold DEF ClientInv
  <1>8. ASSUME NEW t \in Threads
        PROVE  ClientOK(t)'
    <2>1. client'[t] = client[t] /\ told \subseteq told'
      BY <1>2
    <2>2. client[t].step = "wait" =>
             /\ \A u \in Threads \ {t} : client'[u].slot # client[t].slot
             /\ SlotSame(client[t].slot)
      BY <1>2, <1>5 DEF ClientInv, ClientOK
    <2> QED BY <1>4, <2>1, <2>2, ClientKeeps
  <1> QED BY <1>3, <1>6, <1>7, <1>8 DEF ClientInv

-----------------------------------------------------------------------------
(* Requests come to their end *)

\* The server's variables stay in their types.
ServerShape ==
    /\ status \in [PassportIDs -> Statuses] /\ device \in [Devices -> Approvals]
    /\ \A p \in PassportIDs \ UUIDs : status[p] = "absent"
    /\ phase \in [Slots -> Phases] /\ dphase \in [Slots -> Phases]
    /\ outcome \in [Slots -> Replies] /\ doutcome \in [Slots -> Replies]
    /\ target = [s \in Slots |-> target[s]] /\ dtarget = [s \in Slots |-> dtarget[s]]

LEMMA Hung ==
    ASSUME ClientInv, NEW s \in Slots, Hang(s)
    PROVE  /\ ServerShape' /\ SlotOK(s)' /\ UNCHANGED <<status, device>>
           /\ \A x \in Slots \ {s} : SlotSame(x)
           /\ \A x \in Slots : SlotOK(x)'
  <1>1. ShapeOK /\ SlotOK(s)
    BY DEF ClientInv
  <1>2. ServerShape' /\ SlotOK(s)' /\ UNCHANGED <<status, device>> /\ \A x \in Slots \ {s} : SlotSame(x)
    <2>1. CASE phase[s] # "idle" /\ Agents!End({s}) /\ UNCHANGED deviceVars
      <3>1. phase'[s] = "idle" /\ outcome'[s] = None /\ dphase'[s] = "idle" /\ doutcome'[s] = None
            /\ \A x \in Slots \ {s} : SlotSame(x)
        BY <1>1, <2>1 DEF Agents!End, deviceVars, SlotSame, SlotOK, ShapeOK, None
      <3>2. ServerShape' /\ UNCHANGED <<status, device>>
        BY <1>1, <2>1 DEF Agents!End, deviceVars, ShapeOK, ServerShape, Phases, Replies, None
      <3> QED BY <3>1, <3>2 DEF SlotOK, None
    <2>2. CASE dphase[s] # "idle" /\ Codes!End(s) /\ UNCHANGED agentVars
      <3>1. phase'[s] = "idle" /\ outcome'[s] = None /\ dphase'[s] = "idle" /\ doutcome'[s] = None
            /\ \A x \in Slots \ {s} : SlotSame(x)
        BY <1>1, <2>2 DEF Codes!End, Codes!Close, agentVars, SlotSame, SlotOK, ShapeOK, None
      <3>2. ServerShape' /\ UNCHANGED <<status, device>>
        BY <1>1, <2>2 DEF Codes!End, Codes!Close, agentVars, ShapeOK, ServerShape, Phases, Replies, None
      <3> QED BY <3>1, <3>2 DEF SlotOK, None
    <2> QED BY <2>1, <2>2 DEF Hang
  <1> QED BY <1>2, SlotKeeps DEF ClientInv

LEMMA HangUpInv ==
    ASSUME ClientInv, NEW s \in Slots, HangUp(s)
    PROVE  ClientInv'
  <1>1. /\ Hang(s) /\ UNCHANGED <<client, told, calls>>
        /\ \A t \in Threads : client[t].slot # s
    BY DEF HangUp, Abandoned
  <1>2. /\ ServerShape' /\ UNCHANGED <<status, device>>
        /\ \A x \in Slots \ {s} : SlotSame(x)
        /\ \A x \in Slots : SlotOK(x)'
    BY <1>1, Hung
  <1>3. ShapeOK' /\ ToldInv' /\ Grown(status, device, status', device')
    BY <1>1, <1>2, NothingGrows DEF ClientInv, ShapeOK, ServerShape, ToldInv
  <1>4. ASSUME NEW t \in Threads
        PROVE  ClientOK(t)'
    <2>1. client'[t] = client[t] /\ told \subseteq told'
      BY <1>1
    <2>2. client[t].step = "wait" =>
             /\ \A u \in Threads \ {t} : client'[u].slot # client[t].slot
             /\ SlotSame(client[t].slot)
      BY <1>1, <1>2 DEF ClientInv, ClientOK
    <2> QED BY <1>3, <2>1, <2>2, ClientKeeps
  <1> QED BY <1>2, <1>3, <1>4 DEF ClientInv

\* The call of one goroutine moves, with no request or with one of its own.
LEMMA OneMoves ==
    ASSUME ClientInv, NEW t \in Threads, NEW v \in CallRec, client' = [client EXCEPT ![t] = v],
           UNCHANGED <<status, device>>, ServerShape', \A s \in Slots : SlotOK(s)',
           told' \in SUBSET Promises, told \subseteq told', ToldInv', calls' \in 0..MaxCalls,
           \A u \in Threads \ {t} : client[u].step = "wait" =>
               v.slot # client[u].slot /\ SlotSame(client[u].slot),
           ClientOK(t)'
    PROVE  ClientInv'
  <1>1. ShapeOK /\ Grown(status, device, status', device')
    BY NothingGrows DEF ClientInv
  <1>2. ShapeOK'
    BY <1>1 DEF ShapeOK, ServerShape
  <1>3. ASSUME NEW u \in Threads \ {t}
        PROVE  ClientOK(u)'
    <2>1. client'[u] = client[u] /\ client'[t] = v /\ \A w \in Threads \ {t} : client'[w] = client[w]
      BY <1>1 DEF ShapeOK
    <2>2. client[u].step = "wait" =>
             /\ \A w \in Threads \ {u} : client'[w].slot # client[u].slot
             /\ SlotSame(client[u].slot)
      BY <2>1 DEF ClientInv, ClientOK
    <2> QED BY <1>1, <2>1, <2>2, ClientKeeps
  <1> QED BY <1>2, <1>3 DEF ClientInv

LEMMA Returns ==
    ASSUME NEW t \in Threads, NEW c \in CallRec, Return(t, c)
    PROVE  \E v \in CallRec :
              /\ client' = [client EXCEPT ![t] = v]
              /\ v.step = "returned" /\ v.slot = None
              /\ v.op = c.op /\ v.about = c.about /\ v.name = c.name /\ v.since = c.since
              /\ v.code = c.code /\ v.said = c.said /\ v.err = c.err
  <1> DEFINE v == [c EXCEPT !.step = "returned", !.slot = None]
  <1>1. /\ v \in CallRec /\ v.step = "returned" /\ v.slot = None
        /\ v.op = c.op /\ v.about = c.about /\ v.name = c.name /\ v.since = c.since
        /\ v.code = c.code /\ v.said = c.said /\ v.err = c.err
    BY DEF CallRec
  <1>2. client' = [client EXCEPT ![t] = v]
    BY DEF Return
  <1> HIDE DEF v
  <1> QED BY <1>1, <1>2

\* A call that returns with a result that agrees with what is known.
LEMMA ReturnInv ==
    ASSUME ClientInv, NEW t \in Threads, NEW c \in CallRec, Return(t, c),
           Asks(c), c.since \subseteq told,
           UNCHANGED <<status, device, told>>, calls' \in 0..MaxCalls,
           ServerShape', \A s \in Slots : SlotOK(s)',
           \A u \in Threads \ {t} : client[u].step = "wait" => SlotSame(client[u].slot),
           Result(status, device, c)
    PROVE  ClientInv'
  <1>1. PICK v \in CallRec :
              /\ client' = [client EXCEPT ![t] = v]
              /\ v.step = "returned" /\ v.slot = None
              /\ v.op = c.op /\ v.about = c.about /\ v.name = c.name /\ v.since = c.since
              /\ v.code = c.code /\ v.said = c.said /\ v.err = c.err
    BY Returns
  <1>2. client'[t] = v /\ ShapeOK
    BY <1>1 DEF ClientInv, ShapeOK
  <1>3. Result(status, device, v)
    BY <1>1 DEF Result, Known, Fits, NamedAlike
  <1>4. ClientOK(t)'
    BY <1>1, <1>2, <1>3 DEF ClientOK, Asks
  <1>5. \A u \in Threads \ {t} : client[u].step = "wait" =>
           v.slot # client[u].slot /\ SlotSame(client[u].slot)
    BY <1>1 DEF ClientInv, ClientOK
  <1>6. told' \in SUBSET Promises /\ ToldInv'
    BY <1>2 DEF ShapeOK, ClientInv, ToldInv
  <1> QED BY <1>1, <1>4, <1>5, <1>6, OneMoves

LEMMA ErrorsOf ==
    ASSUME NEW c, Asks(c), NEW n
    PROVE  LET e == ErrorOf(c, n)
           IN  /\ e \in Errors \ {"nil", "ErrAPI"}
               /\ e = "ErrAuthentication" <=> n \in {401, 403}
               /\ Fits(c, e)
  <1>1. /\ c.op \in IdOps => c.about \in PassportIDs
        /\ c.op = "revoke" => c.op \in IdOps /\ c.op \notin {"register", "register_device", "capability"}
        /\ c.op \in {"register", "register_device"} => c.op \notin IdOps \cup {"capability", "revoke"}
    BY DEF Asks, IdOps, AgentOps, DeviceOps
  <1>2. \A word \in {"revoke", "register"} : c.op \in IdOps /\ c.about \in Beginning[word] =>
                                              c.about \in PassportIDs \ UUIDs
    BY <1>1 DEF UUIDs
  <1>3. /\ Mentions(c, "revoke") =>
             c.op = "revoke" \/ NamedAlike(c, "revoke") \/ (c.op \in IdOps /\ c.about \in PassportIDs \ UUIDs)
        /\ Mentions(c, "register") =>
             \/ c.op \in {"register", "register_device"} \/ NamedAlike(c, "register")
             \/ c.op \in IdOps /\ c.about \in PassportIDs \ UUIDs
        /\ c.op = "revoke" => Mentions(c, "revoke")
        /\ c.op \in {"register", "register_device"} =>
             Mentions(c, "register") /\ ~Mentions(c, "revoke")
    BY <1>1, <1>2 DEF Mentions, NamedAlike
  <1> QED BY <1>3 DEF ErrorOf, Errors, Fits

LEMMA GiveUpInv ==
    ASSUME ClientInv, NEW t \in Threads, GiveUp(t)
    PROVE  ClientInv'
  <1> DEFINE c == [client[t] EXCEPT !.err = "ErrAPI"]
  <1>1. /\ client[t].step = "wait" /\ client[t] \in CallRec /\ ClientOK(t)
        /\ UNCHANGED <<agentVars, deviceVars, told, calls>>
    BY DEF GiveUp, ClientInv, ShapeOK
  <1>2. /\ c \in CallRec /\ c.op = client[t].op /\ c.about = client[t].about /\ c.err = "ErrAPI"
        /\ c.since = client[t].since /\ c.code = client[t].code /\ c.said = client[t].said
    BY <1>1 DEF CallRec, Errors
  <1>3. Return(t, c)
    BY DEF GiveUp
  <1> HIDE DEF c
  <1>4. Asks(c) /\ c.since \subseteq told /\ Result(status, device, c)
    BY <1>1, <1>2 DEF ClientOK, Asks, Result, Fits
  <1>5. \A s \in Slots : SlotSame(s)
    BY <1>1 DEF agentVars, deviceVars, SlotSame
  <1>6. ServerShape' /\ calls' \in 0..MaxCalls /\ UNCHANGED <<status, device, told>>
    BY <1>1 DEF agentVars, deviceVars, ClientInv, ShapeOK, ServerShape
  <1>7. \A s \in Slots : SlotOK(s)'
    BY <1>5, SlotKeeps DEF ClientInv
  <1>8. \A u \in Threads \ {t} : client[u].step = "wait" => SlotSame(client[u].slot)
    BY <1>5 DEF ClientInv, ClientOK
  <1> QED BY <1>2, <1>3, <1>4, <1>6, <1>7, <1>8, ReturnInv

LEMMA UseInv ==
    ASSUME ClientInv, NEW t \in Threads, Use(t)
    PROVE  ClientInv'
  <1> DEFINE c == client[t]
  <1>1. /\ c.step = "returned" /\ client' = [client EXCEPT ![t] = NoCall]
        /\ told' = IF c.err = "nil" /\ c.op \in {"register", "revoke"}
                   THEN told \cup {<<c.op, c.about>>} ELSE told
        /\ UNCHANGED <<agentVars, deviceVars, calls>>
        /\ ShapeOK /\ ClientOK(t)
    BY DEF Use, ClientInv
  <1>2. NoCall \in CallRec /\ NoCall.step = "idle" /\ NoCall.slot = None
    BY DEF NoCall, CallRec, Replies, Errors, None
  <1>3. client'[t] = NoCall
    BY <1>1 DEF ShapeOK
  <1>4. ClientOK(t)'
    BY <1>2, <1>3 DEF ClientOK
  <1>5. \A s \in Slots : SlotSame(s)
    BY <1>1 DEF agentVars, deviceVars, SlotSame
  <1>6. ServerShape' /\ calls' \in 0..MaxCalls /\ UNCHANGED <<status, device>>
    BY <1>1 DEF agentVars, deviceVars, ShapeOK, ServerShape
  <1>7. \A s \in Slots : SlotOK(s)'
    BY <1>5, SlotKeeps DEF ClientInv
  <1>8. \A u \in Threads \ {t} : client[u].step = "wait" =>
           NoCall.slot # client[u].slot /\ SlotSame(client[u].slot)
    BY <1>2, <1>5 DEF ClientInv, ClientOK
  <1>9. Asks(c) /\ Result(status, device, c)
    BY <1>1 DEF ClientOK
  <1>10. told' \in SUBSET Promises /\ told \subseteq told' /\ ToldInv'
    <2>1. CASE c.err = "nil" /\ c.op \in {"register", "revoke"}
      <3>1. c.about \in PassportIDs
        BY <1>9, <2>1 DEF Asks, DeviceOps
      <3>2. /\ c.op = "register" => status[c.about] # "absent"
            /\ c.op = "revoke" => status[c.about] = "revoked"
        BY <1>9, <2>1 DEF Result, Known, Refusals
      <3>3. <<c.op, c.about>> \in Promises
        BY <2>1, <3>1 DEF Promises
      <3> HIDE DEF c
      <3> QED BY <1>1, <1>6, <2>1, <3>1, <3>2, <3>3 DEF ShapeOK, ClientInv, ToldInv
    <2>2. CASE ~(c.err = "nil" /\ c.op \in {"register", "revoke"})
      BY <1>1, <1>6, <2>2 DEF ShapeOK, ClientInv, ToldInv
    <2> QED BY <2>1, <2>2
  <1> QED BY <1>1, <1>2, <1>4, <1>6, <1>7, <1>8, <1>10, OneMoves

LEMMA ReceiveInv ==
    ASSUME ClientInv, NEW t \in Threads, Receive(t)
    PROVE  ClientInv'
  <1> DEFINE c == client[t]
             s == c.slot
             o == Said(s)
  <1>1. /\ c.step = "wait" /\ o # None /\ Hang(s) /\ UNCHANGED <<told, calls>>
        /\ c \in CallRec /\ ClientOK(t)
    BY DEF Receive, ClientInv, ShapeOK
  <1>2. PICK n \in StatusCodes(o) :
           Return(t, IF Failure(n) THEN [c EXCEPT !.code = n, !.err = ErrorOf(c, n)]
                                   ELSE [c EXCEPT !.code = n, !.said = o])
    BY DEF Receive
  <1>3. /\ s \in Slots /\ c.code = 0 /\ c.said = None /\ c.err = "nil"
        /\ Asks(c) /\ c.since \subseteq told /\ Known(status, device, c, o)
        /\ \A u \in Threads \ {t} : client[u].slot # s
    BY <1>1 DEF ClientOK
  <1>4. o \in Replies
    BY <1>3 DEF ClientInv, ShapeOK, Said
  <1>5. /\ n \in {200, 400, 403, 404, 500} /\ n \in Nat
        /\ n = 404 => o = "missing"
        /\ n = 200 <=> o \notin Refusals
        /\ Failure(n) <=> n # 200
    BY <1>2, <1>4 DEF StatusCodes, Failure, Replies, Refusals
  <1>6. \E v \in CallRec :
           /\ Return(t, v)
           /\ v.op = c.op /\ v.about = c.about /\ v.name = c.name /\ v.since = c.since
           /\ v.code = n
           /\ n = 200 => v.said = o /\ v.err = "nil"
           /\ n # 200 => v.said = None /\ v.err = ErrorOf(c, n)
    <2>1. CASE n = 200
      <3> DEFINE v == [c EXCEPT !.code = n, !.said = o]
      <3>1. Return(t, v)
        BY <1>2, <1>5, <2>1
      <3> HIDE DEF o
      <3>2. /\ v \in CallRec /\ v.op = c.op /\ v.about = c.about /\ v.name = c.name
            /\ v.since = c.since /\ v.code = n /\ v.said = o /\ v.err = "nil"
        <4>1. c \in CallRec /\ c.err = "nil" /\ o \in Replies /\ n \in Nat
          BY <1>1, <1>3, <1>4, <1>5
        <4> HIDE DEF c
        <4> QED BY <4>1 DEF CallRec
      <3> HIDE DEF v
      <3> QED BY <2>1, <3>1, <3>2
    <2>2. CASE n # 200
      <3> DEFINE e == ErrorOf(c, n)
                 v == [c EXCEPT !.code = n, !.err = e]
      <3>1. Return(t, v)
        BY <1>2, <1>5, <2>2
      <3>2. e \in Errors
        BY <1>3, ErrorsOf
      <3> HIDE DEF e
      <3>3. /\ v \in CallRec /\ v.op = c.op /\ v.about = c.about /\ v.name = c.name
            /\ v.since = c.since /\ v.code = n /\ v.said = None /\ v.err = e
        <4>1. c \in CallRec /\ c.said = None /\ e \in Errors /\ n \in Nat
          BY <1>1, <1>3, <1>5, <3>2
        <4> HIDE DEF c
        <4> QED BY <4>1 DEF CallRec
      <3> HIDE DEF v
      <3> QED BY <2>2, <3>1, <3>3 DEF e
    <2> QED BY <2>1, <2>2
  <1>7. PICK v \in CallRec :
           /\ Return(t, v)
           /\ v.op = c.op /\ v.about = c.about /\ v.name = c.name /\ v.since = c.since
           /\ v.code = n
           /\ n = 200 => v.said = o /\ v.err = "nil"
           /\ n # 200 => v.said = None /\ v.err = ErrorOf(c, n)
    BY <1>6
  <1>8. Known(status, device, v, o)
    BY <1>3, <1>7 DEF Known
  <1> HIDE DEF o
  <1>9. Result(status, device, v)
    <2>1. CASE n = 200
      <3>1. Fits(v, "nil")
        BY DEF Fits
      <3> QED BY <1>1, <1>5, <1>7, <1>8, <2>1, <3>1 DEF Result
    <2>2. CASE n # 200
      <3> DEFINE e == ErrorOf(c, n)
      <3>1. /\ e \in Errors \ {"nil", "ErrAPI"}
            /\ e = "ErrAuthentication" <=> n \in {401, 403}
            /\ Fits(c, e)
        BY <1>3, ErrorsOf
      <3>2. n = 404 => Known(status, device, v, "missing")
        BY <1>5, <1>8
      <3>3. v.err = e /\ v.said = None /\ v.code = n /\ n # 0
        BY <1>5, <1>7, <2>2
      <3>4. Fits(v, e)
        <4> HIDE DEF e
        <4> QED BY <1>7, <3>1 DEF Fits, NamedAlike
      <3> HIDE DEF e, c
      <3> QED BY <3>1, <3>2, <3>3, <3>4 DEF Result
    <2> QED BY <2>1, <2>2
  <1>10. /\ ServerShape' /\ UNCHANGED <<status, device>>
         /\ \A x \in Slots \ {s} : SlotSame(x)
         /\ \A x \in Slots : SlotOK(x)'
    BY <1>1, <1>3, Hung
  <1>11. \A u \in Threads \ {t} : client[u].step = "wait" => SlotSame(client[u].slot)
    BY <1>3, <1>10 DEF ClientInv, ClientOK
  <1>12. Asks(v) /\ v.since \subseteq told
    BY <1>3, <1>7 DEF Asks
  <1>13. calls' \in 0..MaxCalls /\ told' = told
    BY <1>1 DEF ClientInv, ShapeOK
  <1> HIDE DEF s, c
  <1> QED BY <1>7, <1>9, <1>10, <1>11, <1>12, <1>13, ReturnInv

-----------------------------------------------------------------------------
(* Calls begin *)

\* The server takes up a request in a free slot.
LEMMA ArriveInv ==
    ASSUME ClientInv, NEW s \in Slots, Free(s), NEW c, Asks(c), Arrive(s, c.op, c.about)
    PROVE  /\ ServerShape' /\ UNCHANGED <<status, device>>
           /\ \A x \in Slots \ {s} : SlotSame(x)
           /\ \A x \in Slots : SlotOK(x)'
           /\ Said(s)' \in {None, "error"}
           /\ c.op \in AgentOps =>
                 phase'[s] # "idle" /\ target'[s].op = c.op /\ target'[s].id = c.about
           /\ c.op \in DeviceOps =>
                 /\ dphase'[s] # "idle" /\ dtarget'[s].id = c.about
                 /\ dtarget'[s].op = (IF c.op = "authenticate" THEN c.op ELSE "register")
  <1>1. ShapeOK /\ SlotOK(s) /\ phase[s] = "idle" /\ dphase[s] = "idle"
        /\ outcome[s] = None /\ doutcome[s] = None
    BY DEF ClientInv, Free, SlotOK
  <1>2. c.op \in AgentOps <=> c.op \notin DeviceOps
    BY DEF Asks, AgentOps, DeviceOps
  <1>3. CASE c.op \in AgentOps
    <2>1. /\ Agents!Invoke(s) /\ target'[s] = [op |-> c.op, id |-> c.about]
          /\ UNCHANGED <<last, device, code, dphase, dtarget, doutcome>>
      BY <1>2, <1>3 DEF Arrive, deviceVars
    <2>2. PICK o \in Agents!Ops, p \in PassportIDs : target' = [target EXCEPT ![s] = [op |-> o, id |-> p]]
      BY <2>1 DEF Agents!Invoke
    <2>3. /\ target'[s] \in [op: Agents!Ops, id: PassportIDs]
          /\ target'[s].op = "register" => target'[s].id \in UUIDs
      <3>1. target'[s].op = c.op /\ target'[s].id = c.about
        BY <2>1
      <3> QED BY <1>1, <1>2, <1>3, <2>2, <3>1 DEF ShapeOK, Asks
    <2>4. /\ phase'[s] \in {"pending", "done"} /\ (phase'[s] = "done" <=> outcome'[s] # None)
          /\ outcome'[s] \in {None, "error"} /\ status' = status
          /\ \A x \in Slots \ {s} : SlotSame(x)
      BY <1>1, <2>1, <2>2 DEF Agents!Invoke, ShapeOK, SlotSame, None
    <2>5. ServerShape'
      <3>1. phase' \in [Slots -> Phases] /\ outcome' \in [Slots -> Replies]
        BY <1>1, <2>1 DEF Agents!Invoke, ShapeOK, Phases, Replies, Refusals
      <3>2. target' = [x \in Slots |-> target'[x]]
        BY <1>1, <2>2 DEF ShapeOK
      <3> QED BY <1>1, <2>1, <2>4, <3>1, <3>2 DEF ShapeOK, ServerShape
    <2>6. SlotOK(s)' /\ Said(s)' \in {None, "error"}
      BY <1>1, <2>1, <2>3, <2>4 DEF SlotOK, Said
    <2>7. \A x \in Slots : SlotOK(x)'
      BY <2>4, <2>6, SlotKeeps DEF ClientInv
    <2> QED BY <1>2, <1>3, <2>1, <2>4, <2>5, <2>6, <2>7
  <1>4. CASE c.op \in DeviceOps
    <2>1. /\ Codes!Invoke(s) /\ UNCHANGED <<status, phase, target, outcome>>
          /\ dtarget'[s].op = (IF c.op = "authenticate" THEN c.op ELSE "register")
          /\ dtarget'[s].id = c.about
      BY <1>2, <1>4 DEF Arrive, agentVars
    <2>2. PICK o \in {"register", "authenticate"}, y \in {"GPU"}, d \in Devices :
             dtarget' = [dtarget EXCEPT ![s] = [op |-> o, type |-> y, id |-> d]]
      BY <2>1 DEF Codes!Invoke
    <2>3. dtarget'[s] \in [op: {"register", "authenticate"}, type: {"GPU"}, id: Devices]
      BY <1>1, <2>2 DEF ShapeOK
    <2>4. /\ dphase'[s] = "pending" /\ doutcome' = doutcome /\ device' = device
          /\ \A x \in Slots \ {s} : SlotSame(x)
      BY <1>1, <2>1, <2>2 DEF Codes!Invoke, ShapeOK, SlotSame
    <2>5. ServerShape'
      <3>1. dphase' \in [Slots -> Phases]
        BY <1>1, <2>1 DEF Codes!Invoke, ShapeOK, Phases
      <3>2. dtarget' = [x \in Slots |-> dtarget'[x]]
        BY <1>1, <2>2 DEF ShapeOK
      <3> QED BY <1>1, <2>1, <2>4, <3>1, <3>2 DEF ShapeOK, ServerShape
    <2>6. SlotOK(s)' /\ Said(s)' \in {None, "error"}
      BY <1>1, <2>1, <2>3, <2>4 DEF SlotOK, Said
    <2>7. \A x \in Slots : SlotOK(x)'
      BY <2>4, <2>6, SlotKeeps DEF ClientInv
    <2> QED BY <1>2, <1>4, <2>1, <2>4, <2>5, <2>6, <2>7
  <1> QED BY <1>2, <1>3, <1>4

LEMMA BeginInv ==
    ASSUME ClientInv, NEW t \in Threads, NEW op, NEW about, NEW name \in Names \cup {<< >>},
           \/ op \in AgentOps /\ about \in PassportIDs /\ (op = "register" => about \in UUIDs)
           \/ op \in DeviceOps /\ about \in Devices,
           Begin(t, op, about, name)
    PROVE  ClientInv'
  <1> DEFINE c == [NoCall EXCEPT !.op = op, !.about = about, !.name = name, !.since = told]
  <1>1. /\ client[t] = NoCall /\ calls < MaxCalls /\ calls' = calls + 1 /\ told' = told
        /\ \/ \E s \in Slots :
                 /\ Arrive(s, op, about)
                 /\ client' = [client EXCEPT ![t] = [c EXCEPT !.step = "wait", !.slot = s]]
           \/ /\ ~Routed(op, name)
              /\ Return(t, [c EXCEPT !.code = 404, !.err = ErrorOf(c, 404)])
              /\ UNCHANGED <<agentVars, deviceVars>>
           \/ /\ Return(t, [c EXCEPT !.err = "ErrAPI"])
              /\ UNCHANGED <<agentVars, deviceVars>>
    BY DEF Begin
  <1>2. ShapeOK /\ calls' \in 0..MaxCalls
    <2>1. calls < MaxCalls /\ calls' = calls + 1 /\ ShapeOK
      BY <1>1 DEF ClientInv
    <2> QED BY <2>1 DEF ShapeOK
  <1>3. /\ c \in CallRec /\ c.op = op /\ c.about = about /\ c.name = name /\ c.since = told
        /\ c.code = 0 /\ c.said = None /\ c.err = "nil" /\ Asks(c)
    <2>1. /\ told \in SUBSET Promises /\ op \in AgentOps \cup DeviceOps
          /\ about \in PassportIDs \cup Devices
      BY <1>2 DEF ShapeOK
    <2>2. /\ c.op = op /\ c.about = about /\ c.name = name /\ c.since = told
          /\ c.code = 0 /\ c.said = None /\ c.err = "nil"
          /\ c \in CallRec
      BY <2>1 DEF NoCall, CallRec, Replies, Errors
    <2> QED BY <2>2 DEF Asks
  <1> HIDE DEF c
  <1>4. CASE \E s \in Slots :
                /\ Arrive(s, op, about)
                /\ client' = [client EXCEPT ![t] = [c EXCEPT !.step = "wait", !.slot = s]]
    <2>1. PICK r \in Slots :
             /\ Arrive(r, op, about) /\ Free(r)
             /\ client' = [client EXCEPT ![t] = [c EXCEPT !.step = "wait", !.slot = r]]
      BY <1>4 DEF Arrive
    <2> DEFINE v == [c EXCEPT !.step = "wait", !.slot = r]
    <2>2. client' = [client EXCEPT ![t] = v]
      BY <2>1
    <2>3. Arrive(r, c.op, c.about)
      BY <1>3, <2>1
    <2>4. /\ v \in CallRec /\ v.step = "wait" /\ v.slot = r
          /\ v.op = op /\ v.about = about /\ v.name = name /\ v.since = told
          /\ v.code = 0 /\ v.said = None /\ v.err = "nil"
      BY <1>3, <2>1 DEF CallRec
    <2> HIDE DEF v
    <2>5. /\ ServerShape' /\ UNCHANGED <<status, device>>
          /\ \A x \in Slots \ {r} : SlotSame(x)
          /\ \A x \in Slots : SlotOK(x)'
          /\ Said(r)' \in {None, "error"}
          /\ op \in AgentOps =>
                phase'[r] # "idle" /\ target'[r].op = op /\ target'[r].id = about
          /\ op \in DeviceOps =>
                /\ dphase'[r] # "idle" /\ dtarget'[r].id = about
                /\ dtarget'[r].op = (IF op = "authenticate" THEN op ELSE "register")
      <3>1. Asks(c) /\ c.op = op /\ c.about = about
        BY <1>3
      <3>2. /\ ServerShape' /\ UNCHANGED <<status, device>>
            /\ \A x \in Slots \ {r} : SlotSame(x)
            /\ \A x \in Slots : SlotOK(x)'
            /\ Said(r)' \in {None, "error"}
            /\ c.op \in AgentOps =>
                  phase'[r] # "idle" /\ target'[r].op = c.op /\ target'[r].id = c.about
            /\ c.op \in DeviceOps =>
                  /\ dphase'[r] # "idle" /\ dtarget'[r].id = c.about
                  /\ dtarget'[r].op = (IF c.op = "authenticate" THEN c.op ELSE "register")
        BY <2>1, <2>3, <3>1, ArriveInv
      <3> QED BY <3>1, <3>2
    <2>6. \A u \in Threads \ {t} : client[u].slot # r
      <3>1. \A u \in Threads : client[u].step = "wait" => client[u].slot \in Slots /\ ~Free(client[u].slot)
        BY DEF ClientInv, ClientOK, Carries, Asks, Free
      <3>2. \A u \in Threads : client[u].step # "wait" => client[u].slot = None
        BY DEF ClientInv, ClientOK
      <3> QED BY <2>1, <3>1, <3>2
    <2>7. client'[t] = v /\ \A u \in Threads \ {t} : client'[u] = client[u]
      BY <1>2, <2>2 DEF ShapeOK
    <2>8. ClientOK(t)'
      <3>1. Known(status', device', v, "error")
        BY DEF Known, Refusals
      <3>2. Carries(client[t].slot, client[t])'
        BY <2>4, <2>5, <2>7 DEF Carries
      <3>3. Asks(client'[t])
        BY <1>3, <2>4, <2>7 DEF Asks
      <3>4. Said(client[t].slot)' # None =>
               Known(status', device', client'[t], Said(client[t].slot)')
        <4>1. Said(client[t].slot)' = Said(r)'
          BY <2>4, <2>7 DEF Said
        <4> QED BY <2>5, <2>7, <3>1, <4>1
      <3> QED BY <1>1, <2>1, <2>4, <2>6, <2>7, <3>2, <3>3, <3>4 DEF ClientOK
    <2>9. \A u \in Threads \ {t} : client[u].step = "wait" =>
             v.slot # client[u].slot /\ SlotSame(client[u].slot)
      BY <2>4, <2>5, <2>6 DEF ClientInv, ClientOK
    <2>10. told' \in SUBSET Promises /\ ToldInv'
      BY <1>1, <1>2, <2>5 DEF ShapeOK, ClientInv, ToldInv
    <2> QED BY <1>1, <1>2, <2>2, <2>4, <2>5, <2>8, <2>9, <2>10, OneMoves
  <1>5. ASSUME UNCHANGED <<agentVars, deviceVars>>, NEW v \in CallRec, Return(t, v),
               v.op = op, v.about = about, v.since = told, Result(status, device, v)
        PROVE  ClientInv'
    <2>1. \A x \in Slots : SlotSame(x)
      BY <1>5 DEF agentVars, deviceVars, SlotSame
    <2>2. ServerShape' /\ UNCHANGED <<status, device>>
      BY <1>2, <1>5 DEF agentVars, deviceVars, ShapeOK, ServerShape
    <2>3. \A x \in Slots : SlotOK(x)'
      BY <2>1, SlotKeeps DEF ClientInv
    <2>4. \A u \in Threads \ {t} : client[u].step = "wait" => SlotSame(client[u].slot)
      BY <2>1 DEF ClientInv, ClientOK
    <2>5. Asks(v) /\ v.since \subseteq told
      BY <1>5 DEF Asks
    <2> QED BY <1>1, <1>2, <1>5, <2>2, <2>3, <2>4, <2>5, ReturnInv
  <1>6. CASE /\ ~Routed(op, name)
             /\ Return(t, [c EXCEPT !.code = 404, !.err = ErrorOf(c, 404)])
             /\ UNCHANGED <<agentVars, deviceVars>>
    <2> DEFINE e == ErrorOf(c, 404)
               n == 404
               v == [c EXCEPT !.code = n, !.err = e]
    <2>1. /\ e \in Errors \ {"nil", "ErrAPI"} /\ e # "ErrAuthentication"
          /\ Fits(c, e)
      BY <1>3, ErrorsOf
    <2>2. Return(t, v)
      BY <1>6
    <2> HIDE DEF e
    <2>3. /\ v \in CallRec /\ v.op = op /\ v.about = about /\ v.name = name /\ v.since = told
          /\ v.code = 404 /\ v.said = None /\ v.err = e
      <3>1. c \in CallRec /\ e \in Errors /\ n \in Nat
        BY <1>3, <2>1
      <3> HIDE DEF n
      <3>2. /\ v \in CallRec /\ v.op = c.op /\ v.about = c.about /\ v.name = c.name
            /\ v.since = c.since /\ v.code = n /\ v.said = c.said /\ v.err = e
        BY <3>1 DEF CallRec
      <3> QED BY <1>3, <3>2 DEF n
    <2> HIDE DEF v
    <2>4. op = "capability" /\ Len(name) # 1
      BY <1>6 DEF Routed
    <2>5. Result(status, device, v)
      <3>1. Fits(v, e)
        BY <1>3, <2>1, <2>3 DEF Fits, NamedAlike
      <3> QED BY <1>3, <2>1, <2>3, <2>4, <3>1 DEF Result
    <2> QED BY <1>5, <1>6, <2>2, <2>3, <2>5
  <1>7. CASE /\ Return(t, [c EXCEPT !.err = "ErrAPI"])
             /\ UNCHANGED <<agentVars, deviceVars>>
    <2> DEFINE v == [c EXCEPT !.err = "ErrAPI"]
    <2>1. Return(t, v)
      BY <1>7
    <2>2. /\ v \in CallRec /\ v.op = op /\ v.about = about /\ v.since = told
          /\ v.code = 0 /\ v.said = None /\ v.err = "ErrAPI"
      BY <1>3 DEF CallRec, Errors
    <2> HIDE DEF v
    <2>3. Result(status, device, v)
      BY <2>2 DEF Result, Fits
    <2> QED BY <1>5, <1>7, <2>1, <2>2, <2>3
  <1> QED BY <1>1, <1>4, <1>6, <1>7

LEMMA CallInv ==
    ASSUME ClientInv, NEW t \in Threads, CallAgents(t) \/ CallDevices(t)
    PROVE  ClientInv'
  <1>1. CASE CallAgents(t)
    <2>1. PICK p \in PassportIDs, op \in AgentOps, name \in Names \cup {<< >>} :
             Begin(t, op, p, name) /\ (op = "register" => p \in UUIDs)
      <3>1. PICK p \in PassportIDs :
               \/ p \in UUIDs /\ Begin(t, "register", p, << >>)
               \/ \E op \in IdOps \ {"capability"} : Begin(t, op, p, << >>)
               \/ Begin(t, "list", p, << >>)
               \/ \E name \in Names : Begin(t, "capability", p, name)
        BY <1>1 DEF CallAgents
      <3> QED BY <3>1 DEF AgentOps, IdOps
    <2> QED BY <2>1, BeginInv
  <1>2. CASE CallDevices(t)
    <2>1. PICK d \in Devices, op \in DeviceOps : Begin(t, op, d, << >>)
      BY <1>2 DEF CallDevices, DeviceOps
    <2>2. op # "register"
      BY DEF DeviceOps
    <2> QED BY <2>1, <2>2, BeginInv
  <1> QED BY <1>1, <1>2

-----------------------------------------------------------------------------
(* Theorems *)

LEMMA StutterInv == ClientInv /\ UNCHANGED vars => ClientInv'
  <1> SUFFICES ASSUME ClientInv, UNCHANGED vars PROVE ClientInv'
    OBVIOUS
  <1>1. UNCHANGED <<status, phase, target, outcome, device, dphase, dtarget, doutcome, client, told, calls>>
    BY DEF vars, agentVars, deviceVars
  <1> QED BY <1>1 DEF ClientInv, ShapeOK, ToldInv, SlotOK, ClientOK, Carries, Said

LEMMA NextClientInv == ClientInv /\ [Next]_vars => ClientInv'
  <1> SUFFICES ASSUME ClientInv, [Next]_vars PROVE ClientInv'
    OBVIOUS
  <1>1. CASE \E t \in Threads : CallAgents(t) \/ CallDevices(t)
    BY <1>1, CallInv
  <1>2. CASE \E t \in Threads : Receive(t) \/ GiveUp(t) \/ Use(t)
    BY <1>2, ReceiveInv, GiveUpInv, UseInv
  <1>3. CASE \E s \in Slots : Serve(s) \/ HangUp(s)
    BY <1>3, ServeInv, HangUpInv
  <1>4. CASE Approve
    BY <1>4, ApproveInv
  <1>5. CASE Quiescent \/ UNCHANGED vars
    BY <1>5, StutterInv DEF Quiescent
  <1> QED BY <1>1, <1>2, <1>3, <1>4, <1>5 DEF Next

LEMMA ClientInvHolds == Spec => []ClientInv
  BY InitClientInv, NextClientInv, PTL DEF Spec

\* Every variable stays in its type; a call that waits has a request on the server
\* that no other call has, and one that has returned has none, however many requests
\* are abandoned and go on without their caller.
THEOREM ClientTypeCorrect == Spec => []TypeOK
  <1>1. ClientInv => TypeOK
    <2> SUFFICES ASSUME ClientInv PROVE TypeOK
      OBVIOUS
    <2>1. /\ status \in [PassportIDs -> {"absent", "active", "revoked"}]
          /\ device \in [Devices -> {"absent", "pending", "active"}]
          /\ \A s \in Slots : phase[s] = "idle" \/ dphase[s] = "idle"
          /\ calls \in 0..MaxCalls
      BY DEF ClientInv, ShapeOK, SlotOK, Statuses, Approvals
    <2>2. ASSUME NEW t \in Threads
          PROVE  /\ client[t].step \in {"idle", "wait", "returned"}
                 /\ client[t].err \in Errors
                 /\ client[t].step = "wait" => client[t].slot \in Slots /\ ~Free(client[t].slot)
                 /\ client[t].step # "wait" => client[t].slot = None
      <3>1. client[t] \in CallRec /\ ClientOK(t)
        BY DEF ClientInv, ShapeOK
      <3>2. client[t].step = "wait" => ~Free(client[t].slot)
        BY <3>1 DEF ClientOK, Carries, Asks, Free
      <3> QED BY <3>1, <3>2 DEF ClientOK, CallRec
    <2>3. ASSUME NEW t \in Threads, NEW u \in Threads \ {t}
          PROVE  client[t].slot = None \/ client[u].slot # client[t].slot
      BY <2>2 DEF ClientInv, ClientOK
    <2> QED BY <2>1, <2>2, <2>3 DEF TypeOK
  <1> QED BY <1>1, ClientInvHolds, PTL

\* Nil from a method of client.go means that the server has done it: neither a
\* connection that breaks, nor a timeout, nor the request of an earlier attempt that
\* is still on its way can make it untrue.
THEOREM NilIsDone == Spec => []NilMeansDone
  <1>1. ClientInv => NilMeansDone
    <2> SUFFICES ASSUME ClientInv, NEW t \in Threads, Returned(t), client[t].err = "nil"
                 PROVE  LET call == client[t] IN
                        /\ call.op = "revoke" => status[call.about] = "revoked"
                        /\ call.op \in {"register", "verify", "capability", "log"} =>
                              status[call.about] # "absent"
                        /\ call.op = "register_device" => device[call.about] # "absent"
                        /\ call.op = "authenticate" => device[call.about] = "active"
      BY DEF NilMeansDone
    <2>1. Result(status, device, client[t])
      BY DEF ClientInv, ClientOK, Returned
    <2>2. client[t].said \notin Refusals /\ Known(status, device, client[t], client[t].said)
      BY <2>1 DEF Result
    <2> QED BY <2>2 DEF Known, Refusals
  <1> QED BY <1>1, ClientInvHolds, PTL

\* Once some RevokeAgent has returned nil, no call that begins later is told by
\* VerifyAgent that the passport is trusted, or by CheckCapability that it is granted.
THEOREM RevocationsKnownHold == Spec => []KnownRevocationsHold
  <1>1. ClientInv => KnownRevocationsHold
    <2> SUFFICES ASSUME ClientInv, NEW t \in Threads, Returned(t),
                        <<"revoke", client[t].about>> \in client[t].since
                 PROVE  ~IsTrusted(client[t]) /\ client[t].said # "granted"
      BY DEF KnownRevocationsHold
    <2>1. Result(status, device, client[t])
      BY DEF ClientInv, ClientOK, Returned
    <2>2. CASE client[t].said = None
      BY <2>2 DEF IsTrusted, None
    <2>3. CASE client[t].said # None
      BY <2>1, <2>3 DEF Result, Known, IsTrusted
    <2> QED BY <2>2, <2>3
  <1> QED BY <1>1, ClientInvHolds, PTL

\* A 404 for a passport whose registration has returned comes from a revoke that has
\* nothing left to revoke, or from the router of server.go, which did not
\* recognise the name of a capability.
THEOREM NotFoundIsThePassport == Spec => []NotFoundIsAboutThePassport
  <1>1. ClientInv => NotFoundIsAboutThePassport
    <2> SUFFICES ASSUME ClientInv, NEW t \in Threads, Returned(t), client[t].code = 404,
                        <<"register", client[t].about>> \in client[t].since,
                        ~(client[t].op = "capability" /\ Len(client[t].name) # 1)
                 PROVE  client[t].op = "revoke" /\ status[client[t].about] = "revoked"
      BY DEF NotFoundIsAboutThePassport
    <2>1. Known(status, device, client[t], "missing")
      BY DEF ClientInv, ClientOK, Returned, Result
    <2> QED BY <2>1 DEF Known
  <1> QED BY <1>1, ClientInvHolds, PTL

\* parseAPIError tells the errors of errors.go apart: by the status for
\* ErrAuthentication and ErrAPI, by the path for the others.  A method that revokes or
\* registers fails with the error of its name, and another one only about a made-up
\* identifier or a capability whose name begins like it.
THEOREM ErrorsAreNamed == Spec => []ErrorsNameTheirCall
  <1>1. ClientInv => ErrorsNameTheirCall
    <2> SUFFICES ASSUME ClientInv, NEW t \in Threads, Returned(t)
                 PROVE  /\ Result(status, device, client[t])
                        /\ \A word \in {"revoke", "register"} :
                              client[t].op \in IdOps /\ client[t].about \in PassportIDs \ UUIDs =>
                                  Misleading(client[t], word)
      BY DEF ErrorsNameTheirCall, Result, Fits, Misleading
    <2>1. Result(status, device, client[t])
      BY DEF ClientInv, ClientOK, Returned
    <2>2. \A p \in PassportIDs \ UUIDs : status[p] = "absent"
      BY DEF ClientInv, ShapeOK
    <2> QED BY <2>1, <2>2 DEF Misleading
  <1> QED BY <1>1, ClientInvHolds, PTL

=============================================================================
