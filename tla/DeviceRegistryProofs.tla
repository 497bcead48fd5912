------------------------ MODULE DeviceRegistryProofs ------------------------
(***************************************************************************)
(* Proofs about DeviceRegistry, for any spelling of device types, any      *)
(* number of registrations in flight, devices, tokens and faults.          *)
(***************************************************************************)
EXTENDS DeviceRegistry, TLAPS

USE ToUpperAssumption, MaxFaultsAssumption, NoneAssumption

-----------------------------------------------------------------------------
(* The inductive invariant *)

\* A registration that is not answered yet has an identifier of its own, under
\* which nothing is stored; once answered, its device is.
IdInv ==
    /\ \A d \in Devices : Stored(d) => d \in drawn
    /\ \A c \in Calls :
          /\ pc[c] # "idle" => tx[c].id \in drawn
          /\ pc[c] \in Statements => ~Stored(tx[c].id)
    /\ \A c, e \in Calls :
          pc[c] # "idle" /\ pc[e] # "idle" /\ tx[c].id = tx[e].id => c = e

\* The lock on a counter: one registration of a type is past it, and knows the
\* next number.
Counted(c) == pc[c] \in {"insert", "commit"}

CounterInv ==
    /\ \A c \in Calls : Counted(c) => tx[c].next = device_counters[tx[c].type] + 1
    /\ \A c, e \in Calls : Counted(c) /\ Counted(e) /\ tx[c].type = tx[e].type => c = e

\* No two devices have the same code, although the counters that produce codes
\* are kept per spelling of the type and the codes are not.
CodesAreUnique ==
    \A d, e \in Devices :
        Stored(d) /\ Stored(e) /\ devices[d].code = devices[e].code => d = e

\* The unique index, which open transactions take part in.
CodeInv ==
    /\ CodesAreUnique
    /\ \A c \in Calls : pc[c] = "commit" => ~CodeTaken(CodeOf(c))
    /\ \A c, e \in Calls :
          pc[c] = "commit" /\ pc[e] = "commit" /\ CodeOf(c) = CodeOf(e) => c = e
    /\ \A d \in Devices : Stored(d) => devices[d].code[1] = ToUpper[devices[d].type]

\* Every number up to the counter is taken, and no other one.
DenseInv ==
    /\ \A d \in Devices : Stored(d) =>
          devices[d].code[2] \in 1..device_counters[devices[d].type]
    /\ \A t \in Types : \A n \in 1..device_counters[t] :
          \E d \in Devices : Stored(d) /\ devices[d].type = t /\ devices[d].code[2] = n

\* What authorised the active devices, and the devices JWTs were issued for.
ApprovedBySomebody(d) == \E token \in Tokens : CheckAdmin(token) /\ <<d, token>> \in approvals

ApprovalInv ==
    /\ \A x \in jwts : Stored(x[1]) /\ devices[x[1]].code = x[2] /\ ApprovedBySomebody(x[1])
    /\ \A d \in Devices : devices[d].status = "active" => ApprovedBySomebody(d)

Untyped   == IdInv /\ CounterInv /\ CodeInv /\ DenseInv /\ ApprovalInv
DeviceInv == TypeOK /\ Untyped

-----------------------------------------------------------------------------
(* Types *)

LEMMA RowTyped ==
    ASSUME TypeOK, NEW d \in Devices
    PROVE  /\ devices[d].status \in {"absent", "pending", "active"}
           /\ Stored(d) => /\ devices[d].type \in Types
                           /\ devices[d].code \in Prefixes \X Nat
                           /\ devices[d].code = <<devices[d].code[1], devices[d].code[2]>>
                           /\ devices[d].code[2] \in Nat
           /\ ~Stored(d) => devices[d] = NoRow
  BY DEF TypeOK, Stored, DeviceRow, NoRow

LEMMA TxTyped ==
    ASSUME TypeOK, NEW c \in Calls, pc[c] # "idle"
    PROVE  /\ tx[c].type \in Types /\ tx[c].id \in Devices /\ tx[c].next \in Nat
           /\ CodeOf(c) = <<ToUpper[tx[c].type], tx[c].next>>
           /\ CodeOf(c) \in Prefixes \X Nat
           /\ CodeOf(c)[1] = ToUpper[tx[c].type] /\ CodeOf(c)[2] = tx[c].next
  BY DEF TypeOK, Transaction, CodeOf, Code, Prefixes

LEMMA InitInv == Init => DeviceInv
  <1> SUFFICES ASSUME Init PROVE DeviceInv
    OBVIOUS
  <1> USE DEF Init, Stored, NoRow
  <1>1. TypeOK
    BY DEF TypeOK, NoTransaction
  <1>2. IdInv /\ CounterInv /\ CodeInv /\ DenseInv
    BY DEF IdInv, CounterInv, Counted, CodeInv, DenseInv, CodesAreUnique, Statements
  <1>3. ApprovalInv
    BY DEF ApprovalInv
  <1> QED BY <1>1, <1>2, <1>3 DEF DeviceInv, Untyped

\* A handler that ends leaves no transaction behind.
LEMMA FinishTyped ==
    ASSUME TypeOK, NEW c \in Calls, Finish(c)
    PROVE  /\ pc' \in [Calls -> Statements \cup {"idle", "replied"}]
           /\ tx' \in [Calls -> Transaction \cup {NoTransaction}]
           /\ \A e \in Calls : pc'[e] # "idle" => tx'[e] \in Transaction
  BY DEF TypeOK, Finish, Goto

LEMMA PublishTyped ==
    ASSUME TypeOK, NEW c \in Calls, pc[c] = "commit", Publish(c)
    PROVE  /\ device_counters' \in [Types -> Nat]
           /\ devices' \in [Devices -> DeviceRow \cup {NoRow}]
  <1>1. /\ tx[c].type \in Types /\ tx[c].id \in Devices /\ tx[c].next \in Nat
        /\ CodeOf(c) \in Prefixes \X Nat
    BY TxTyped
  <1>2. [status |-> "pending", type |-> tx[c].type, code |-> CodeOf(c)] \in DeviceRow
    BY <1>1 DEF DeviceRow
  <1> QED BY <1>1, <1>2 DEF TypeOK, Publish

LEMMA NextTypeOK == TypeOK /\ [Next]_vars => TypeOK'
  <1> SUFFICES ASSUME TypeOK, [Next]_vars PROVE TypeOK'
    OBVIOUS
  <1>1. ASSUME NEW c \in Calls, Begin(c) PROVE TypeOK'
    <2>1. PICK t \in Types, d \in Devices \ drawn :
             /\ tx' = [tx EXCEPT ![c] = [type |-> t, id |-> d, next |-> 0]]
             /\ drawn' = drawn \cup {d}
      BY <1>1 DEF Begin
    <2>2. [type |-> t, id |-> d, next |-> 0] \in Transaction
      BY DEF Transaction
    <2>3. tx' \in [Calls -> Transaction \cup {NoTransaction}]
      BY <2>1, <2>2 DEF TypeOK
    <2>4. \A e \in Calls : pc'[e] # "idle" => tx'[e] \in Transaction
      BY <1>1, <2>1, <2>2 DEF TypeOK, Begin, Goto
    <2> QED BY <1>1, <2>1, <2>3, <2>4 DEF TypeOK, Begin, Goto, Statements, history
  <1>2. ASSUME NEW c \in Calls, Counter(c) PROVE TypeOK'
    <2>1. tx[c] \in Transaction /\ tx[c].type \in Types
      BY <1>2 DEF TypeOK, Counter, Transaction
    <2>2. device_counters[tx[c].type] + 1 \in Nat
      BY <2>1 DEF TypeOK
    <2>3. [tx[c] EXCEPT !.next = device_counters[tx[c].type] + 1] \in Transaction
      BY <2>1, <2>2 DEF Transaction
    <2>4. tx' = [tx EXCEPT ![c] = [tx[c] EXCEPT !.next = device_counters[tx[c].type] + 1]]
      BY <1>2 DEF Counter
    <2>5. tx' \in [Calls -> Transaction \cup {NoTransaction}]
      BY <2>3, <2>4 DEF TypeOK
    <2>6. \A e \in Calls : pc'[e] # "idle" => tx'[e] \in Transaction
      BY <1>2, <2>3, <2>4 DEF TypeOK, Counter, Goto
    <2> QED BY <1>2, <2>5, <2>6 DEF TypeOK, Counter, Goto, Statements, history
  <1>3. ASSUME NEW c \in Calls, InsertDevice(c) PROVE TypeOK'
    <2>1. CASE ~CodeTaken(CodeOf(c)) /\ Goto(c, "commit") /\ UNCHANGED <<tx, conflicts>>
      BY <1>3, <2>1 DEF TypeOK, InsertDevice, Goto, Statements, history
    <2>2. CASE CodeTaken(CodeOf(c)) /\ Finish(c) /\ conflicts' = conflicts \cup {tx[c].type}
      <3>1. tx[c].type \in Types
        BY <1>3, TxTyped DEF InsertDevice
      <3> QED BY <1>3, <2>2, <3>1, FinishTyped DEF TypeOK, InsertDevice, history
    <2> QED BY <1>3, <2>1, <2>2 DEF InsertDevice
  <1>4. ASSUME NEW c \in Calls, Commit(c) PROVE TypeOK'
    BY <1>4, PublishTyped DEF TypeOK, Commit, Goto, Statements, history
  <1>5. ASSUME NEW c \in Calls, Abort(c) \/ Reply(c) PROVE TypeOK'
    BY <1>5, FinishTyped DEF TypeOK, Abort, Reply, history
  <1>6. ASSUME NEW c \in Calls, CommitUnseen(c) PROVE TypeOK'
    BY <1>6, PublishTyped, FinishTyped DEF TypeOK, CommitUnseen, history
  <1>7. ASSUME NEW d \in Devices, Authenticate(d) PROVE TypeOK'
    <2>1. devices[d].code \in Prefixes \X Nat
      BY <1>7, RowTyped DEF Authenticate
    <2> QED BY <1>7, <2>1 DEF TypeOK, Authenticate
  <1>8. ASSUME NEW d \in Devices, NEW token \in Tokens, Approve(d, token) PROVE TypeOK'
    <2>1. devices[d] \in DeviceRow
      BY <1>8 DEF Approve, TypeOK, NoRow
    <2>2. [devices[d] EXCEPT !.status = "active"] \in DeviceRow
      BY <2>1 DEF DeviceRow
    <2>3. devices' = [devices EXCEPT ![d] = [devices[d] EXCEPT !.status = "active"]]
      BY <1>8 DEF Approve
    <2>4. devices' \in [Devices -> DeviceRow \cup {NoRow}]
      BY <2>2, <2>3 DEF TypeOK
    <2> QED BY <1>8, <2>4 DEF TypeOK, Approve
  <1>9. CASE Exhausted \/ UNCHANGED vars
    BY <1>9 DEF TypeOK, Exhausted, vars, history
  <1> QED BY <1>1, <1>2, <1>3, <1>4, <1>5, <1>6, <1>7, <1>8, <1>9 DEF Next, Handle

\* Every variable of the devices API stays in its type.
THEOREM TypeCorrect == Spec => []TypeOK
  <1>1. Init => TypeOK
    BY InitInv DEF DeviceInv
  <1> QED BY <1>1, NextTypeOK, PTL DEF Spec

-----------------------------------------------------------------------------
(* Steps that do not touch the tables *)

OnlyCall(c) ==
    /\ UNCHANGED <<device_counters, devices>>
    /\ \A e \in Calls \ {c} : pc'[e] = pc[e] /\ tx'[e] = tx[e]

LEMMA TablesKept ==
    ASSUME DeviceInv, UNCHANGED <<device_counters, devices>>
    PROVE  /\ \A d \in Devices : Stored(d)' <=> Stored(d)
           /\ \A code : CodeTaken(code)' <=> CodeTaken(code)
           /\ DenseInv' /\ CodesAreUnique'
           /\ \A d \in Devices : Stored(d)' => devices'[d].code[1] = ToUpper[devices'[d].type]
  BY DEF DeviceInv, Untyped, CodeInv, DenseInv, CodesAreUnique, CodeTaken, Stored

LEMMA ApprovalsKept ==
    ASSUME DeviceInv, UNCHANGED <<devices, history>>
    PROVE  ApprovalInv'
  BY DEF DeviceInv, Untyped, ApprovalInv, ApprovedBySomebody, history, Stored, CheckAdmin

LEMMA BeginUntyped ==
    ASSUME DeviceInv, NEW c \in Calls, Begin(c)
    PROVE  Untyped'
  <1>1. PICK t \in Types, d \in Devices \ drawn :
           /\ tx' = [tx EXCEPT ![c] = [type |-> t, id |-> d, next |-> 0]]
           /\ drawn' = drawn \cup {d}
    BY DEF Begin
  <1>2. OnlyCall(c) /\ pc[c] = "idle" /\ pc'[c] = "counter" /\ tx'[c].id = d
    BY <1>1 DEF OnlyCall, Begin, Goto, DeviceInv, TypeOK
  <1>3. IdInv'
    BY <1>1, <1>2 DEF OnlyCall, DeviceInv, Untyped, IdInv, Statements, Stored
  <1>4. CounterInv'
    BY <1>2 DEF OnlyCall, DeviceInv, Untyped, CounterInv, Counted
  <1>5. CodeInv'
    BY <1>2, TablesKept DEF OnlyCall, DeviceInv, Untyped, CodeInv, CodeOf
  <1>6. ApprovalInv'
    BY ApprovalsKept DEF Begin
  <1> QED BY <1>2, <1>3, <1>4, <1>5, <1>6, TablesKept DEF OnlyCall, Untyped

LEMMA CounterUntyped ==
    ASSUME DeviceInv, NEW c \in Calls, Counter(c)
    PROVE  Untyped'
  <1>1. /\ OnlyCall(c) /\ pc[c] = "counter" /\ pc'[c] = "insert"
        /\ tx'[c].id = tx[c].id /\ tx'[c].type = tx[c].type
        /\ tx'[c].next = device_counters[tx[c].type] + 1
    <2>1. tx[c] \in Transaction
      BY DEF Counter, DeviceInv, TypeOK
    <2> QED BY <2>1 DEF OnlyCall, Counter, Goto, DeviceInv, TypeOK, Transaction
  <1>2. IdInv'
    BY <1>1 DEF OnlyCall, Counter, DeviceInv, Untyped, IdInv, Statements, Stored
  <1>3. CounterInv'
    <2>1. \A e \in Calls : Counted(e) => tx[e].type # tx[c].type
      BY DEF Counter, Holders, Counted
    <2> QED BY <1>1, <2>1 DEF OnlyCall, DeviceInv, Untyped, CounterInv, Counted
  <1>4. CodeInv'
    BY <1>1, TablesKept DEF OnlyCall, DeviceInv, Untyped, CodeInv, CodeOf
  <1>5. ApprovalInv'
    BY ApprovalsKept DEF Counter
  <1> QED BY <1>1, <1>2, <1>3, <1>4, <1>5, TablesKept DEF OnlyCall, Untyped

\* A transaction that is over, committed or not, no longer counts.
LEMMA FinishUntyped ==
    ASSUME DeviceInv, NEW c \in Calls, Finish(c),
           UNCHANGED <<device_counters, devices, drawn, history>>
    PROVE  Untyped'
  <1>1. OnlyCall(c) /\ pc'[c] = "idle"
    BY DEF OnlyCall, Finish, Goto, DeviceInv, TypeOK
  <1>2. IdInv'
    BY <1>1 DEF OnlyCall, DeviceInv, Untyped, IdInv, Statements, Stored
  <1>3. CounterInv'
    BY <1>1 DEF OnlyCall, DeviceInv, Untyped, CounterInv, Counted
  <1>4. CodeInv'
    BY <1>1, TablesKept DEF OnlyCall, DeviceInv, Untyped, CodeInv, CodeOf
  <1> QED BY <1>2, <1>3, <1>4, ApprovalsKept, TablesKept DEF Untyped

LEMMA InsertDeviceUntyped ==
    ASSUME DeviceInv, NEW c \in Calls, InsertDevice(c)
    PROVE  Untyped'
  <1>1. CASE CodeTaken(CodeOf(c)) /\ Finish(c)
    BY <1>1, FinishUntyped DEF InsertDevice
  <1>2. CASE ~CodeTaken(CodeOf(c)) /\ Goto(c, "commit") /\ UNCHANGED tx
    <2>1. OnlyCall(c) /\ pc[c] = "insert" /\ pc'[c] = "commit" /\ tx' = tx
      BY <1>2 DEF OnlyCall, InsertDevice, Goto, DeviceInv, TypeOK
    <2>2. IdInv'
      BY <2>1 DEF OnlyCall, InsertDevice, DeviceInv, Untyped, IdInv, Statements, Stored
    <2>3. CounterInv'
      BY <2>1 DEF OnlyCall, DeviceInv, Untyped, CounterInv, Counted
    <2>4. CodeInv'
      <3>1. \A e \in Calls : pc[e] = "commit" => CodeOf(e) # CodeOf(c)
        BY DEF InsertDevice, CodeContended
      <3>2. \A e \in Calls : CodeOf(e)' = CodeOf(e)
        BY <2>1 DEF CodeOf
      <3>3. \A code : CodeTaken(code)' <=> CodeTaken(code)
        BY <2>1, TablesKept DEF OnlyCall
      <3>4. \A e \in Calls : pc'[e] = "commit" => ~CodeTaken(CodeOf(e))'
        <4>1. ASSUME NEW e \in Calls, pc'[e] = "commit" PROVE ~CodeTaken(CodeOf(e))
          BY <1>2, <2>1, <4>1 DEF OnlyCall, DeviceInv, Untyped, CodeInv
        <4> QED BY <2>1, <4>1 DEF CodeTaken, CodeOf, OnlyCall, Stored
      <3>5. \A e, f \in Calls : pc'[e] = "commit" /\ pc'[f] = "commit"
                                /\ CodeOf(e)' = CodeOf(f)' => e = f
        BY <2>1, <3>1, <3>2 DEF OnlyCall, DeviceInv, Untyped, CodeInv
      <3> QED BY <2>1, <3>4, <3>5, TablesKept DEF OnlyCall, CodeInv
    <2> QED BY <2>1, <2>2, <2>3, <2>4, ApprovalsKept, TablesKept
            DEF OnlyCall, InsertDevice, Untyped
  <1> QED BY <1>1, <1>2 DEF InsertDevice

-----------------------------------------------------------------------------
(* Steps that change the tables *)

LEMMA PublishUntyped ==
    ASSUME DeviceInv, TypeOK', NEW c \in Calls, pc[c] = "commit", Publish(c),
           pc'[c] \in {"idle", "replied"},
           \A e \in Calls \ {c} : pc'[e] = pc[e] /\ tx'[e] = tx[e],
           pc'[c] = "replied" => tx'[c] = tx[c],
           UNCHANGED <<drawn, history>>
    PROVE  Untyped'
  <1> DEFINE d0 == tx[c].id
             t0 == tx[c].type
  <1>1. /\ t0 \in Types /\ d0 \in Devices /\ tx[c].next \in Nat
        /\ CodeOf(c)[1] = ToUpper[t0] /\ CodeOf(c)[2] = tx[c].next
    BY TxTyped DEF DeviceInv
  <1>2. /\ tx[c].next = device_counters[t0] + 1 /\ device_counters[t0] \in Nat
        /\ ~Stored(d0) /\ d0 \in drawn /\ ~CodeTaken(CodeOf(c))
    BY <1>1 DEF DeviceInv, Untyped, TypeOK, CounterInv, Counted, IdInv, Statements, CodeInv
  <1>3. /\ devices'[d0].status = "pending" /\ devices'[d0].type = t0
        /\ devices'[d0].code = CodeOf(c)
        /\ \A d \in Devices \ {d0} : devices'[d] = devices[d]
        /\ device_counters'[t0] = tx[c].next
        /\ \A t \in Types \ {t0} : device_counters'[t] = device_counters[t]
    BY <1>1 DEF Publish, DeviceInv, TypeOK
  <1>4. \A d \in Devices : Stored(d)' <=> Stored(d) \/ d = d0
    BY <1>1, <1>3 DEF Stored
  <1>5. IdInv'
    <2>1. \A e \in Calls : pc'[e] # "idle" => tx'[e].id = tx[e].id /\ pc[e] # "idle"
      OBVIOUS
    <2>2. \A e \in Calls : pc'[e] \in Statements =>
             e # c /\ tx'[e].id \in Devices /\ tx'[e].id # d0 /\ ~Stored(tx'[e].id)
      BY TxTyped DEF DeviceInv, Untyped, IdInv, Statements
    <2>3. \A e \in Calls : pc'[e] \in Statements => ~Stored(tx[e].id)'
      BY <1>4, <2>1, <2>2 DEF Stored, Statements
    <2> QED BY <1>2, <1>4, <2>1, <2>3 DEF DeviceInv, Untyped, IdInv
  <1>6. CounterInv'
    <2>1. \A e \in Calls : Counted(e)' =>
             /\ e # c /\ Counted(e) /\ tx'[e] = tx[e]
             /\ tx[e].type \in Types \ {t0}
      BY TxTyped DEF Counted, DeviceInv, Untyped, CounterInv
    <2> QED BY <1>3, <2>1 DEF DeviceInv, Untyped, CounterInv
  <1>7. CodeInv'
    <2>1. CodesAreUnique'
      BY <1>2, <1>3, <1>4 DEF CodesAreUnique, DeviceInv, Untyped, CodeInv, CodeTaken
    <2>2. \A e \in Calls : pc'[e] = "commit" => e # c /\ pc[e] = "commit" /\ CodeOf(e)' = CodeOf(e)
      BY DEF CodeOf
    <2>3. ASSUME NEW e \in Calls, pc'[e] = "commit"
          PROVE  ~CodeTaken(CodeOf(e))'
      <3>1. ~CodeTaken(CodeOf(e)) /\ CodeOf(e) # CodeOf(c)
        BY <2>2, <2>3 DEF DeviceInv, Untyped, CodeInv
      <3> QED BY <1>3, <1>4, <2>2, <2>3, <3>1 DEF CodeTaken
    <2>4. \A d \in Devices : Stored(d)' => devices'[d].code[1] = ToUpper[devices'[d].type]
      BY <1>1, <1>3, <1>4 DEF DeviceInv, Untyped, CodeInv
    <2> QED BY <2>1, <2>2, <2>3, <2>4 DEF DeviceInv, Untyped, CodeInv
  <1>8. DenseInv'
    <2>1. ASSUME NEW d \in Devices, Stored(d)'
          PROVE  devices'[d].code[2] \in 1..device_counters'[devices'[d].type]
      <3>1. CASE d = d0
        BY <1>1, <1>2, <1>3, <3>1
      <3>2. CASE d # d0
        <4>1. /\ Stored(d) /\ devices'[d] = devices[d] /\ devices[d].type \in Types
              /\ devices[d].code[2] \in 1..device_counters[devices[d].type]
          BY <1>3, <1>4, <2>1, <3>2, RowTyped DEF DeviceInv, Untyped, DenseInv
        <4> QED BY <1>2, <1>3, <4>1 DEF DeviceInv, TypeOK
      <3> QED BY <3>1, <3>2
    <2>2. ASSUME NEW t \in Types, NEW n \in 1..device_counters'[t]
          PROVE  \E d \in Devices :
                    Stored(d)' /\ devices'[d].type = t /\ devices'[d].code[2] = n
      <3>1. CASE t = t0 /\ n = tx[c].next
        BY <1>1, <1>3, <1>4, <3>1
      <3>2. CASE ~(t = t0 /\ n = tx[c].next)
        <4>1. n \in 1..device_counters[t]
          BY <1>2, <1>3, <3>2
        <4>2. PICK d \in Devices : Stored(d) /\ devices[d].type = t /\ devices[d].code[2] = n
          BY <4>1 DEF DeviceInv, Untyped, DenseInv
        <4>3. d # d0
          BY <1>2, <4>2
        <4> QED BY <1>3, <1>4, <4>2, <4>3
      <3> QED BY <3>1, <3>2
    <2> QED BY <2>1, <2>2 DEF DenseInv
  <1>9. ApprovalInv'
    <2>1. \A d : ApprovedBySomebody(d)' <=> ApprovedBySomebody(d)
      BY DEF ApprovedBySomebody, CheckAdmin, history
    <2>2. \A x \in jwts : x[1] \in Devices
      BY DEF DeviceInv, TypeOK
    <2> QED BY <1>2, <1>3, <1>4, <2>1, <2>2 DEF DeviceInv, Untyped, ApprovalInv, history
  <1> QED BY <1>5, <1>6, <1>7, <1>8, <1>9 DEF Untyped

LEMMA CommitUntyped ==
    ASSUME DeviceInv, TypeOK', NEW c \in Calls, Commit(c) \/ CommitUnseen(c)
    PROVE  Untyped'
  <1>1. CASE Commit(c)
    <2>1. /\ pc[c] = "commit" /\ Publish(c) /\ pc'[c] = "replied" /\ tx' = tx
          /\ \A e \in Calls \ {c} : pc'[e] = pc[e] /\ tx'[e] = tx[e]
      BY <1>1 DEF Commit, Goto, DeviceInv, TypeOK
    <2> QED BY <1>1, <2>1, PublishUntyped DEF Commit
  <1>2. CASE CommitUnseen(c)
    <2>1. /\ pc[c] = "commit" /\ Publish(c) /\ pc'[c] = "idle"
          /\ \A e \in Calls \ {c} : pc'[e] = pc[e] /\ tx'[e] = tx[e]
      BY <1>2 DEF CommitUnseen, Finish, Goto, DeviceInv, TypeOK
    <2> QED BY <1>2, <2>1, PublishUntyped DEF CommitUnseen
  <1> QED BY <1>1, <1>2

LEMMA ApproveUntyped ==
    ASSUME DeviceInv, NEW d \in Devices, NEW token \in Tokens, Approve(d, token)
    PROVE  Untyped'
  <1>1. /\ Stored(d) /\ devices'[d].status = "active"
        /\ devices'[d].type = devices[d].type /\ devices'[d].code = devices[d].code
        /\ \A e \in Devices \ {d} : devices'[e] = devices[e]
    <2>1. devices[d] \in DeviceRow
      BY DEF Approve, DeviceInv, TypeOK, NoRow
    <2> QED BY <2>1 DEF Approve, DeviceInv, TypeOK, DeviceRow, Stored
  <1>2. \A e \in Devices : /\ Stored(e)' <=> Stored(e)
                           /\ devices'[e].type = devices[e].type
                           /\ devices'[e].code = devices[e].code
    BY <1>1 DEF Stored
  <1>3. \A code : CodeTaken(code)' <=> CodeTaken(code)
    BY <1>2 DEF CodeTaken
  <1>4. UNCHANGED <<device_counters, drawn, pc, tx>>
    BY DEF Approve
  <1>5. IdInv'
    <2>1. \A c \in Calls : pc[c] \in Statements => tx[c].id \in Devices
      BY TxTyped DEF DeviceInv, Statements
    <2> QED BY <1>2, <1>4, <2>1 DEF DeviceInv, Untyped, IdInv, Stored
  <1>6. CounterInv'
    BY <1>4 DEF DeviceInv, Untyped, CounterInv, Counted
  <1>7. CodeInv'
    <2>1. CodesAreUnique'
      BY <1>2 DEF DeviceInv, Untyped, CodeInv, CodesAreUnique
    <2>2. \A c \in Calls : pc'[c] = "commit" => ~CodeTaken(CodeOf(c))'
      BY <1>2, <1>4 DEF DeviceInv, Untyped, CodeInv, CodeTaken, CodeOf
    <2> QED BY <1>2, <1>4, <2>1, <2>2 DEF DeviceInv, Untyped, CodeInv, CodeOf
  <1>8. DenseInv'
    BY <1>2, <1>4 DEF DeviceInv, Untyped, DenseInv
  <1>9. ApprovalInv'
    <2>1. \A e : ApprovedBySomebody(e) => ApprovedBySomebody(e)'
      BY DEF Approve, ApprovedBySomebody, CheckAdmin
    <2>2. ApprovedBySomebody(d)'
      BY DEF Approve, ApprovedBySomebody, CheckAdmin
    <2>3. jwts' = jwts /\ \A x \in jwts : x[1] \in Devices
      BY DEF Approve, DeviceInv, TypeOK
    <2> QED BY <1>1, <1>2, <2>1, <2>2, <2>3 DEF DeviceInv, Untyped, ApprovalInv
  <1> QED BY <1>5, <1>6, <1>7, <1>8, <1>9 DEF Untyped

LEMMA AuthenticateUntyped ==
    ASSUME DeviceInv, NEW d \in Devices, Authenticate(d)
    PROVE  Untyped'
  <1>1. UNCHANGED <<device_counters, devices, drawn, pc, tx, approvals>>
    BY DEF Authenticate
  <1>2. PICK e \in Devices : /\ devices[e].code = devices[d].code /\ devices[e].status = "active"
                             /\ jwts' = jwts \cup {<<e, devices[d].code>>}
    BY DEF Authenticate, MayAuthenticate
  <1>3. ApprovalInv'
    <2>1. \A x : ApprovedBySomebody(x)' <=> ApprovedBySomebody(x)
      BY <1>1 DEF ApprovedBySomebody, CheckAdmin
    <2>2. Stored(e) /\ ApprovedBySomebody(e)
      BY <1>2 DEF Stored, DeviceInv, Untyped, ApprovalInv
    <2>3. \A x \in jwts' : Stored(x[1])' /\ devices'[x[1]].code = x[2] /\ ApprovedBySomebody(x[1])'
      BY <1>1, <1>2, <2>1, <2>2 DEF DeviceInv, Untyped, ApprovalInv, Stored
    <2>4. \A x \in Devices : devices'[x].status = "active" => ApprovedBySomebody(x)'
      BY <1>1, <2>1 DEF DeviceInv, Untyped, ApprovalInv
    <2> QED BY <2>3, <2>4 DEF ApprovalInv
  <1>4. IdInv' /\ CounterInv' /\ DenseInv'
    BY <1>1, TablesKept DEF DeviceInv, Untyped, IdInv, CounterInv, Counted, Stored
  <1>5. CodeInv'
    BY <1>1, TablesKept DEF DeviceInv, Untyped, CodeInv, CodeOf
  <1> QED BY <1>3, <1>4, <1>5 DEF Untyped

LEMMA NextInv == DeviceInv /\ [Next]_vars => DeviceInv'
  <1> SUFFICES ASSUME DeviceInv, [Next]_vars PROVE DeviceInv'
    OBVIOUS
  <1>0. TypeOK'
    BY NextTypeOK DEF DeviceInv
  <1>1. ASSUME NEW c \in Calls, Begin(c) \/ Handle(c) \/ CommitUnseen(c) PROVE Untyped'
    BY <1>0, <1>1, BeginUntyped, CounterUntyped, InsertDeviceUntyped, CommitUntyped DEF Handle
  <1>2. ASSUME NEW c \in Calls, Abort(c) \/ Reply(c) PROVE Untyped'
    BY <1>2, FinishUntyped DEF Abort, Reply
  <1>3. ASSUME NEW d \in Devices, Authenticate(d) \/ \E token \in Tokens : Approve(d, token)
        PROVE Untyped'
    BY <1>3, AuthenticateUntyped, ApproveUntyped
  <1>4. CASE Exhausted \/ UNCHANGED vars
    <2>1. UNCHANGED vars
      BY <1>4 DEF Exhausted
    <2>2. IdInv' /\ CounterInv' /\ DenseInv'
      BY <2>1, TablesKept DEF DeviceInv, Untyped, IdInv, CounterInv, Counted, Stored, vars
    <2>3. CodeInv'
      BY <2>1, TablesKept DEF DeviceInv, Untyped, CodeInv, CodeOf, vars
    <2>4. ApprovalInv'
      BY <2>1, ApprovalsKept DEF vars
    <2> QED BY <1>0, <2>2, <2>3, <2>4 DEF Untyped, DeviceInv
  <1> QED BY <1>0, <1>1, <1>2, <1>3, <1>4 DEF DeviceInv, Next

\* The inductive invariant holds in every reachable state.
THEOREM DeviceInvariant == Spec => []DeviceInv
  BY InitInv, NextInv, PTL DEF Spec

-----------------------------------------------------------------------------
(* What follows *)

\* Whatever fails and in whatever order registrations interleave, the numbers
\* of the devices of a type are 1 up to its counter.
THEOREM NumbersAreDense == Spec => []CodesAreDense
  <1>1. ASSUME DeviceInv, NEW t \in Types
        PROVE  NumbersOf(t) = 1..device_counters[t]
    <2>1. \A d \in Devices : devices[d].type = t => Stored(d)
      BY <1>1, RowTyped DEF DeviceInv, NoRow
    <2>2. NumbersOf(t) \subseteq 1..device_counters[t]
      BY <1>1, <2>1 DEF NumbersOf, DeviceInv, Untyped, DenseInv
    <2>3. 1..device_counters[t] \subseteq NumbersOf(t)
      BY <1>1 DEF NumbersOf, DeviceInv, Untyped, DenseInv
    <2> QED BY <2>2, <2>3
  <1>2. DeviceInv => CodesAreDense
    BY <1>1 DEF CodesAreDense
  <1> QED BY DeviceInvariant, <1>2, PTL

\* Two devices whose codes share a prefix have one spelling of the type: the
\* first numbers of two spellings would be the same code.
THEOREM OneSpelling == Spec => []OneSpellingPerPrefix
  <1>1. ASSUME DeviceInv, NEW d \in Devices, NEW e \in Devices,
               Stored(d), Stored(e), devices[d].code[1] = devices[e].code[1]
        PROVE  devices[d].type = devices[e].type
    <2> DEFINE t == devices[d].type
               u == devices[e].type
    <2>1. t \in Types /\ u \in Types /\ ToUpper[t] = ToUpper[u]
      BY <1>1, RowTyped DEF DeviceInv, Untyped, CodeInv
    <2>2. 1 \in 1..device_counters[t] /\ 1 \in 1..device_counters[u]
      BY <1>1, <2>1 DEF DeviceInv, Untyped, DenseInv, TypeOK
    <2>3. PICK x \in Devices : Stored(x) /\ devices[x].type = t /\ devices[x].code[2] = 1
      BY <1>1, <2>1, <2>2 DEF DeviceInv, Untyped, DenseInv
    <2>4. PICK y \in Devices : Stored(y) /\ devices[y].type = u /\ devices[y].code[2] = 1
      BY <1>1, <2>1, <2>2 DEF DeviceInv, Untyped, DenseInv
    <2>5. devices[x].code = <<ToUpper[t], 1>> /\ devices[y].code = <<ToUpper[u], 1>>
      BY <1>1, <2>3, <2>4, RowTyped DEF DeviceInv, Untyped, CodeInv
    <2>6. x = y
      BY <1>1, <2>1, <2>3, <2>4, <2>5 DEF DeviceInv, Untyped, CodeInv, CodesAreUnique
    <2> QED BY <2>3, <2>4, <2>6
  <1>2. DeviceInv => OneSpellingPerPrefix
    BY <1>1 DEF OneSpellingPerPrefix
  <1> QED BY DeviceInvariant, <1>2, PTL

\* No two devices ever have the same code.
THEOREM UniqueCodes == Spec => []CodesAreUnique
  <1>1. DeviceInv => CodesAreUnique
    BY DEF DeviceInv, Untyped, CodeInv
  <1> QED BY DeviceInvariant, <1>1, PTL

\* A JWT is only ever issued for a device that a holder of the admin token
\* approved before, and it names the device that owns the code.
THEOREM ApprovalComesFirst == Spec => []JwtsNeedApproval
  <1>1. DeviceInv => JwtsNeedApproval
    BY DEF DeviceInv, Untyped, ApprovalInv, ApprovedBySomebody, JwtsNeedApproval
  <1> QED BY DeviceInvariant, <1>1, PTL

\* Codes of a type are committed in increasing order, and a code once committed
\* stays: server/README.md says "allocated monotonically per type".
CodesGrow ==
    [][\A d, e \in Devices :
          Stored(e) =>
             /\ Stored(e)' /\ devices'[e].code = devices[e].code
             /\ ~Stored(d) /\ Stored(d)' /\ devices[e].type = devices'[d].type
                   => devices[e].code[2] < devices'[d].code[2]]_vars

THEOREM CodesOnlyGrow == Spec => CodesGrow
  <1> DEFINE Grow == \A d, e \in Devices :
          Stored(e) =>
             /\ Stored(e)' /\ devices'[e].code = devices[e].code
             /\ ~Stored(d) /\ Stored(d)' /\ devices[e].type = devices'[d].type
                   => devices[e].code[2] < devices'[d].code[2]
  <1>1. ASSUME DeviceInv, UNCHANGED devices PROVE Grow
    BY <1>1 DEF Stored
  <1>2. ASSUME DeviceInv, NEW c \in Calls, pc[c] = "commit", Publish(c) PROVE Grow
    <2>1. /\ tx[c].type \in Types /\ tx[c].id \in Devices /\ CodeOf(c)[2] = tx[c].next
          /\ ~Stored(tx[c].id)
          /\ tx[c].next = device_counters[tx[c].type] + 1
          /\ device_counters[tx[c].type] \in Nat
      BY <1>2, TxTyped DEF DeviceInv, Untyped, IdInv, Statements, CounterInv, Counted, TypeOK
    <2>2. /\ devices'[tx[c].id].type = tx[c].type /\ devices'[tx[c].id].code[2] = tx[c].next
          /\ \A d \in Devices \ {tx[c].id} : devices'[d] = devices[d]
      BY <1>2, <2>1 DEF Publish, DeviceInv, TypeOK
    <2>3. ASSUME NEW e \in Devices, Stored(e)
          PROVE  /\ Stored(e)' /\ devices'[e].code = devices[e].code
                 /\ devices[e].type = tx[c].type => devices[e].code[2] < tx[c].next
      BY <2>1, <2>2, <2>3, <1>2 DEF Stored, DeviceInv, Untyped, DenseInv
    <2>4. ASSUME NEW d \in Devices, ~Stored(d), Stored(d)'
          PROVE  d = tx[c].id
      BY <2>2, <2>4 DEF Stored
    <2> QED BY <2>2, <2>3, <2>4
  <1>3. ASSUME DeviceInv, NEW d \in Devices, NEW token \in Tokens, Approve(d, token) PROVE Grow
    <2>1. devices[d] \in DeviceRow
      BY <1>3 DEF Approve, DeviceInv, TypeOK, NoRow
    <2>2. /\ Stored(d) /\ devices'[d].code = devices[d].code /\ Stored(d)'
          /\ \A e \in Devices \ {d} : devices'[e] = devices[e]
      BY <1>3, <2>1 DEF Approve, DeviceInv, TypeOK, DeviceRow, Stored
    <2> QED BY <2>2 DEF Stored
  <1>4. ASSUME DeviceInv, [Next]_vars PROVE [Grow]_vars
    <2>1. CASE \E c \in Calls : Commit(c) \/ CommitUnseen(c)
      BY <1>2, <1>4, <2>1 DEF Commit, CommitUnseen
    <2>2. CASE \E d \in Devices : \E token \in Tokens : Approve(d, token)
      BY <1>3, <1>4, <2>2
    <2>3. CASE \/ \E c \in Calls : Begin(c) \/ Counter(c) \/ InsertDevice(c) \/ Abort(c) \/ Reply(c)
               \/ \E d \in Devices : Authenticate(d)
      <3>1. UNCHANGED devices
        BY <2>3 DEF Begin, Counter, InsertDevice, Abort, Reply, Authenticate
      <3> QED BY <1>1, <1>4, <3>1
    <2>4. CASE Exhausted \/ UNCHANGED vars
      BY <2>4 DEF Exhausted
    <2> QED BY <1>4, <2>1, <2>2, <2>3, <2>4 DEF Next, Handle
  <1> QED BY DeviceInvariant, <1>4, PTL DEF Spec, CodesGrow

-----------------------------------------------------------------------------
(* The registry implements the allocator *)

\* The allocator's variables, as functions of the registry's.
StatusOf == [d \in Devices |-> devices[d].status]
CodesOf  == [d \in Devices |-> devices[d].code]
Phase    == [c \in Calls |-> CASE pc[c] = "idle"    -> "idle"
                               [] pc[c] = "replied" -> "done"
                               [] OTHER             -> "pending"]
Target   == [c \in Calls |-> IF pc[c] = "idle" THEN NoTransaction
                             ELSE [op |-> "register", type |-> tx[c].type, id |-> tx[c].id]]
Outcome  == [c \in Calls |-> IF pc[c] = "replied" THEN "ok" ELSE "none"]

LEMMA AllocatorInit == Init => Allocator!Init
  BY DEF Init, Allocator!Init, NoRow

LEMMA AllocatorBegin ==
    ASSUME DeviceInv, NEW c \in Calls, Begin(c)
    PROVE  Allocator!Invoke(c)
  <1>1. PICK t \in Types, d \in Devices \ drawn :
           /\ tx' = [tx EXCEPT ![c] = [type |-> t, id |-> d, next |-> 0]]
           /\ drawn' = drawn \cup {d}
    BY DEF Begin
  <1>2. /\ pc[c] = "idle" /\ pc' = [pc EXCEPT ![c] = "counter"]
        /\ UNCHANGED <<device_counters, devices>>
        /\ pc \in [Calls -> Statements \cup {"idle", "replied"}] /\ DOMAIN tx = Calls
    BY DEF Begin, Goto, DeviceInv, TypeOK
  <1>3. Phase[c] = "idle" /\ Phase' = [Phase EXCEPT ![c] = "pending"]
    BY <1>2 DEF Phase
  <1>4. Target' = [Target EXCEPT ![c] = [op |-> "register", type |-> t, id |-> d]]
    BY <1>1, <1>2 DEF Target
  <1>5. Outcome' = Outcome /\ StatusOf' = StatusOf /\ CodesOf' = CodesOf
    BY <1>2 DEF Outcome, StatusOf, CodesOf
  <1>6. \E op \in {"register", "authenticate"}, tt \in Types, dd \in Devices :
           Target' = [Target EXCEPT ![c] = [op |-> op, type |-> tt, id |-> dd]]
    BY <1>4
  <1>7. UNCHANGED <<device_counters, StatusOf, CodesOf, Outcome>>
    BY <1>2, <1>5
  <1> HIDE DEF Statements
  <1> QED BY <1>3, <1>6, <1>7
          DEF Allocator!Invoke, Phase, Target, Outcome, StatusOf, CodesOf

LEMMA AllocatorQuiet ==
    ASSUME UNCHANGED <<device_counters, StatusOf, CodesOf, Phase, Target, Outcome>>
    PROVE  UNCHANGED Allocator!vars
  BY DEF Allocator!vars, Allocator!callVars, Phase, Target, Outcome, StatusOf, CodesOf

\* The statements of a transaction that goes on are invisible.
LEMMA AllocatorStatement ==
    ASSUME DeviceInv, NEW c \in Calls, Counter(c) \/ (InsertDevice(c) /\ pc'[c] = "commit")
    PROVE  UNCHANGED Allocator!vars
  <1>1. /\ UNCHANGED <<device_counters, devices>>
        /\ pc[c] \in {"counter", "insert"} /\ pc'[c] \in {"insert", "commit"}
        /\ tx'[c].type = tx[c].type /\ tx'[c].id = tx[c].id
        /\ \A e \in Calls \ {c} : pc'[e] = pc[e] /\ tx'[e] = tx[e]
    <2>1. CASE Counter(c)
      <3>1. tx[c] \in Transaction
        BY <2>1 DEF Counter, DeviceInv, TypeOK
      <3> QED BY <2>1, <3>1 DEF Counter, Goto, DeviceInv, TypeOK, Transaction
    <2>2. CASE InsertDevice(c) /\ pc'[c] = "commit"
      BY <2>2 DEF InsertDevice, Finish, Goto, DeviceInv, TypeOK
    <2> QED BY <2>1, <2>2
  <1>2. Phase' = Phase /\ Outcome' = Outcome /\ Target' = Target
    BY <1>1 DEF Phase, Outcome, Target
  <1>3. StatusOf' = StatusOf /\ CodesOf' = CodesOf
    BY <1>1 DEF StatusOf, CodesOf
  <1> QED BY <1>1, <1>2, <1>3, AllocatorQuiet

\* What the end of a registration looks like to the allocator.
LEMMA AllocatorClose ==
    ASSUME DeviceInv, NEW c \in Calls, Finish(c)
    PROVE  Allocator!Close(c)
  <1>1. /\ pc' = [pc EXCEPT ![c] = "idle"] /\ pc'[c] = "idle"
        /\ \A e \in Calls \ {c} : pc'[e] = pc[e] /\ tx'[e] = tx[e]
    BY DEF Finish, Goto, DeviceInv, TypeOK
  <1>2. Phase' = [Phase EXCEPT ![c] = "idle"]
    BY <1>1 DEF Phase
  <1>3. Target' = [Target EXCEPT ![c] = NoTransaction]
    BY <1>1 DEF Target
  <1>4. Outcome' = [Outcome EXCEPT ![c] = "none"]
    BY <1>1 DEF Outcome
  <1> QED BY <1>2, <1>3, <1>4 DEF Allocator!Close, Phase, Target, Outcome

LEMMA AllocatorEnd ==
    ASSUME DeviceInv, NEW c \in Calls, Finish(c), UNCHANGED <<device_counters, devices>>
    PROVE  Allocator!End(c)
  BY AllocatorClose DEF Allocator!End

\* A commit gives the device the next number of its type, at one instant.
LEMMA AllocatorPublish ==
    ASSUME DeviceInv, NEW c \in Calls, pc[c] = "commit", Publish(c)
    PROVE  Allocator!Allocate(c)
  <1> DEFINE d0 == tx[c].id
             t0 == tx[c].type
             code0 == Code(t0, device_counters[t0] + 1)
  <1>1. t0 \in Types /\ d0 \in Devices /\ tx[c].next = device_counters[t0] + 1
    BY TxTyped DEF DeviceInv, Untyped, CounterInv, Counted
  <1>2. ~Stored(d0) /\ ~CodeTaken(code0)
    BY <1>1 DEF DeviceInv, Untyped, IdInv, Statements, CodeInv, CodeOf
  <1>3. Phase[c] = "pending" /\ Target[c] = [op |-> "register", type |-> t0, id |-> d0]
    BY DEF Phase, Target
  <1>4. StatusOf[d0] = "absent" /\ ~Allocator!Taken(code0)
    BY <1>1, <1>2 DEF Stored, CodeTaken, Allocator!Taken, StatusOf
  <1>5. device_counters' = [device_counters EXCEPT ![t0] = device_counters[t0] + 1]
    BY <1>1 DEF Publish
  <1>6. devices' = [devices EXCEPT ![d0] = [status |-> "pending", type |-> t0, code |-> code0]]
    BY <1>1 DEF Publish, CodeOf
  <1>7. StatusOf' = [StatusOf EXCEPT ![d0] = "pending"] /\ CodesOf' = [CodesOf EXCEPT ![d0] = code0]
    BY <1>1, <1>6 DEF StatusOf, CodesOf, DeviceInv, TypeOK
  <1> HIDE DEF d0, t0
  <1>8. Target[c].op = "register" /\ Target[c].type = t0 /\ Target[c].id = d0
    BY <1>3
  <1> QED BY <1>3, <1>4, <1>5, <1>7, <1>8
          DEF Allocator!Allocate, Phase, Target, StatusOf, CodesOf

LEMMA AllocatorCommit ==
    ASSUME DeviceInv, NEW c \in Calls, Commit(c)
    PROVE  Allocator!Register(c)
  <1>1. Allocator!Allocate(c)
    BY AllocatorPublish DEF Commit
  <1>2. /\ pc[c] = "commit" /\ pc'[c] = "replied" /\ tx' = tx
        /\ \A e \in Calls \ {c} : pc'[e] = pc[e]
    BY DEF Commit, Goto, DeviceInv, TypeOK
  <1>3. Phase' = [Phase EXCEPT ![c] = "done"]
    BY <1>2 DEF Phase
  <1>4. Target' = Target /\ Outcome' = [Outcome EXCEPT ![c] = "ok"]
    BY <1>2 DEF Target, Outcome
  <1>5. Allocator!Done(c, "ok")
    BY <1>3, <1>4 DEF Allocator!Done, Phase, Target, Outcome
  <1> QED BY <1>1, <1>5 DEF Allocator!Register

LEMMA AllocatorApprove ==
    ASSUME DeviceInv, NEW d \in Devices, NEW token \in Tokens, Approve(d, token)
    PROVE  Allocator!Approve(d)
  <1>1. devices[d] \in DeviceRow /\ devices[d].status = "pending"
    BY DEF Approve, DeviceInv, TypeOK, NoRow
  <1>2. /\ devices'[d].status = "active" /\ devices'[d].code = devices[d].code
        /\ \A e \in Devices \ {d} : devices'[e] = devices[e]
        /\ UNCHANGED <<device_counters, pc, tx>>
    BY <1>1 DEF Approve, DeviceInv, TypeOK, DeviceRow
  <1>3. StatusOf[d] = "pending" /\ StatusOf' = [StatusOf EXCEPT ![d] = "active"]
    BY <1>1, <1>2 DEF StatusOf
  <1>4. CodesOf' = CodesOf
    BY <1>2 DEF CodesOf
  <1>5. Phase' = Phase /\ Target' = Target /\ Outcome' = Outcome
    BY <1>2 DEF Phase, Target, Outcome
  <1> QED BY <1>2, <1>3, <1>4, <1>5
          DEF Allocator!Approve, Allocator!callVars, StatusOf, CodesOf, Phase, Target, Outcome

LEMMA AllocatorNext ==
    ASSUME DeviceInv, [Next]_vars
    PROVE  [Allocator!Next]_(Allocator!vars)
  <1>1. ASSUME NEW c \in Calls, Begin(c) PROVE Allocator!Next
    BY <1>1, AllocatorBegin DEF Allocator!Next
  <1>2. ASSUME NEW c \in Calls, Counter(c) PROVE UNCHANGED Allocator!vars
    BY <1>2, AllocatorStatement
  <1>3. ASSUME NEW c \in Calls, InsertDevice(c)
        PROVE  UNCHANGED Allocator!vars \/ Allocator!Next
    <2>1. CASE Finish(c)
      BY <1>3, <2>1, AllocatorEnd DEF InsertDevice, Allocator!Next
    <2>2. CASE Goto(c, "commit")
      <3>1. pc'[c] = "commit"
        BY <2>2 DEF Goto, DeviceInv, TypeOK
      <3> QED BY <1>3, <3>1, AllocatorStatement
    <2> QED BY <1>3, <2>1, <2>2 DEF InsertDevice
  <1>4. ASSUME NEW c \in Calls, Commit(c) PROVE Allocator!Next
    BY <1>4, AllocatorCommit DEF Allocator!Next
  <1>5. ASSUME NEW c \in Calls, Abort(c) \/ Reply(c) PROVE Allocator!Next
    BY <1>5, AllocatorEnd DEF Abort, Reply, Allocator!Next
  <1>6. ASSUME NEW c \in Calls, CommitUnseen(c) PROVE Allocator!Next
    <2>1. Allocator!RegisterUnseen(c)
      BY <1>6, AllocatorPublish, AllocatorClose DEF CommitUnseen, Allocator!RegisterUnseen
    <2> QED BY <2>1 DEF Allocator!Next
  <1>7. ASSUME NEW d \in Devices, NEW token \in Tokens, Approve(d, token)
        PROVE  Allocator!Next
    BY <1>7, AllocatorApprove DEF Allocator!Next
  <1>8. CASE (\E d \in Devices : Authenticate(d)) \/ Exhausted \/ UNCHANGED vars
    <2>1. UNCHANGED <<device_counters, devices, pc, tx>>
      BY <1>8 DEF Authenticate, Exhausted, vars
    <2>2. UNCHANGED <<StatusOf, CodesOf, Phase, Target, Outcome>>
      BY <2>1 DEF StatusOf, CodesOf, Phase, Target, Outcome
    <2> QED BY <2>1, <2>2, AllocatorQuiet
  <1> QED BY <1>1, <1>2, <1>3, <1>4, <1>5, <1>6, <1>7, <1>8 DEF Next, Handle

\* Every behaviour of the registry is one of the atomic allocator: a registration
\* takes effect at one instant before its reply, or not at all.
THEOREM RegistryImplementsAllocator == Spec => ImplementsAllocator
  BY AllocatorInit, AllocatorNext, DeviceInvariant, PTL DEF Spec, Allocator!Spec, ImplementsAllocator

=============================================================================
