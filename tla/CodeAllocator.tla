--------------------------- MODULE CodeAllocator ---------------------------
(***************************************************************************)
(* What the devices API promises its clients: a registration takes effect  *)
(* at one instant between its request and its reply, at most once, and     *)
(* gives the device the next number of its type; an approved device, and   *)
(* no other, gets a token.  No transactions, no locks, no connections.     *)
(*                                                                         *)
(* A registration may always fail instead; server/handlers_devices.go must *)
(* fail when another type has produced the same code.                      *)
(***************************************************************************)
EXTENDS Integers

CONSTANTS
    Calls,          \* slots for calls in flight
    Types,          \* device types as clients spell them
    Devices,        \* device identifiers
    NoTarget,       \* the target of an idle call
    NoCode,         \* the code of a device that is not registered
    Code(_, _)      \* the code of the n-th device of a type

VARIABLES
    last,           \* [Types -> the number handed out last]
    status,         \* [Devices -> "absent", "pending" or "active"]
    code,           \* [Devices -> its code]
    phase,          \* [Calls -> "idle", "pending" or "done"]
    target,         \* [Calls -> operation, type and device]
    outcome         \* [Calls -> what the call answers, once it is done]

callVars == <<phase, target, outcome>>
vars     == <<last, status, code, callVars>>

Init ==
    /\ last = [t \in Types |-> 0]
    /\ status = [d \in Devices |-> "absent"]
    /\ code = [d \in Devices |-> NoCode]
    /\ phase = [c \in Calls |-> "idle"]
    /\ target = [c \in Calls |-> NoTarget]
    /\ outcome = [c \in Calls |-> "none"]

Invoke(c) ==
    /\ phase[c] = "idle"
    /\ \E op \in {"register", "authenticate"}, t \in Types, d \in Devices :
          target' = [target EXCEPT ![c] = [op |-> op, type |-> t, id |-> d]]
    /\ phase' = [phase EXCEPT ![c] = "pending"]
    /\ UNCHANGED <<last, status, code, outcome>>

Done(c, o) ==
    /\ phase' = [phase EXCEPT ![c] = "done"]
    /\ outcome' = [outcome EXCEPT ![c] = o]
    /\ target' = target

Taken(x) == \E d \in Devices : status[d] # "absent" /\ code[d] = x

\* The next number of the type goes to the device, with its code.
Allocate(c) ==
    LET t == target[c].type
        d == target[c].id
    IN  /\ phase[c] = "pending" /\ target[c].op = "register"
        /\ status[d] = "absent"
        /\ ~Taken(Code(t, last[t] + 1))
        /\ last' = [last EXCEPT ![t] = @ + 1]
        /\ status' = [status EXCEPT ![d] = "pending"]
        /\ code' = [code EXCEPT ![d] = Code(t, last[t] + 1)]

Register(c) == Allocate(c) /\ \E o \in {"ok", "error"} : Done(c, o)

Authenticate(c) ==
    /\ phase[c] = "pending" /\ target[c].op = "authenticate"
    /\ Done(c, CASE status[target[c].id] = "absent"  -> "missing"
                 [] status[target[c].id] = "pending" -> "forbidden"
                 [] status[target[c].id] = "active"  -> "token")
    /\ UNCHANGED <<last, status, code>>

Fail(c) ==
    /\ phase[c] = "pending"
    /\ Done(c, "error")
    /\ UNCHANGED <<last, status, code>>

\* A call ends: its reply arrives, is lost, or its server is gone.
Close(c) ==
    /\ phase' = [phase EXCEPT ![c] = "idle"]
    /\ target' = [target EXCEPT ![c] = NoTarget]
    /\ outcome' = [outcome EXCEPT ![c] = "none"]

End(c) == Close(c) /\ UNCHANGED <<last, status, code>>

\* The server is gone right after the registration took effect.
RegisterUnseen(c) == Allocate(c) /\ Close(c)

Approve(d) ==
    /\ status[d] = "pending"
    /\ status' = [status EXCEPT ![d] = "active"]
    /\ UNCHANGED <<last, code, callVars>>

Next == \/ \E c \in Calls : Invoke(c) \/ Register(c) \/ Authenticate(c) \/ Fail(c)
                            \/ End(c) \/ RegisterUnseen(c)
        \/ \E d \in Devices : Approve(d)

Spec == Init /\ [][Next]_vars

=============================================================================
