--------------------------- MODULE PassportLedger ---------------------------
(***************************************************************************)
(* What the agents API promises its clients: a ledger of passports on      *)
(* which every call takes effect at one instant between its request and    *)
(* its reply, at most once.  No statements, no audit log, no connections.  *)
(*                                                                         *)
(* A call that fails answers "error" and may or may not have taken effect. *)
(* Revoke is allowed to answer "missing" for a passport that is already    *)
(* revoked: the server looks at the row a second time and may fail to.     *)
(***************************************************************************)
CONSTANTS
    Calls,          \* slots for calls in flight
    PassportIDs,    \* passport identifiers
    NoTarget        \* the target of an idle call

VARIABLES
    status,         \* [PassportIDs -> "absent", "active" or "revoked"]
    phase,          \* [Calls -> "idle", "pending" or "done"]
    target,         \* [Calls -> operation and passport]
    outcome         \* [Calls -> what the call answers, once it is done]

vars == <<status, phase, target, outcome>>

Init ==
    /\ status = [p \in PassportIDs |-> "absent"]
    /\ phase = [c \in Calls |-> "idle"]
    /\ target = [c \in Calls |-> NoTarget]
    /\ outcome = [c \in Calls |-> "none"]

\* What a call may answer, given the status its passport has at its instant.
Outcomes == [
    register   |-> [absent |-> {"ok"},      active |-> {},                    revoked |-> {}],
    verify     |-> [absent |-> {"missing"}, active |-> {"active"},            revoked |-> {"revoked"}],
    capability |-> [absent |-> {"missing"}, active |-> {"granted", "denied"}, revoked |-> {"denied"}],
    log        |-> [absent |-> {"missing"}, active |-> {"ok"},                revoked |-> {"ok"}],
    revoke     |-> [absent |-> {"missing"}, active |-> {"ok"},                revoked |-> {"ok", "missing"}],
    actions    |-> [absent |-> {"ok"},      active |-> {"ok"},                revoked |-> {"ok"}],
    list       |-> [absent |-> {"ok"},      active |-> {"ok"},                revoked |-> {"ok"}]]

Ops == DOMAIN Outcomes

\* The status a call leaves behind.
After(op, s) ==
    CASE op = "register"               -> "active"
      [] op = "revoke" /\ s # "absent" -> "revoked"
      [] OTHER                         -> s

Invoke(c) ==
    /\ phase[c] = "idle"
    /\ \E op \in Ops, p \in PassportIDs :
          target' = [target EXCEPT ![c] = [op |-> op, id |-> p]]
    /\ \/ phase' = [phase EXCEPT ![c] = "pending"] /\ outcome' = outcome
       \/ /\ phase' = [phase EXCEPT ![c] = "done"]
          /\ outcome' = [outcome EXCEPT ![c] = "error"]
    /\ status' = status

TakeEffect(c) ==
    LET op == target[c].op
        p  == target[c].id
    IN  /\ phase[c] = "pending"
        /\ Outcomes[op][status[p]] # {}
        /\ status' = [status EXCEPT ![p] = After(op, status[p])]
        /\ \E o \in Outcomes[op][status[p]] \cup {"error"} :
              outcome' = [outcome EXCEPT ![c] = o]
        /\ phase' = [phase EXCEPT ![c] = "done"]
        /\ target' = target

Fail(c) ==
    /\ phase[c] = "pending"
    /\ phase' = [phase EXCEPT ![c] = "done"]
    /\ outcome' = [outcome EXCEPT ![c] = "error"]
    /\ UNCHANGED <<status, target>>

\* Calls end: their replies arrive, are lost, or their server is gone.
End(C) ==
    /\ phase' = [c \in Calls |-> IF c \in C THEN "idle" ELSE phase[c]]
    /\ target' = [c \in Calls |-> IF c \in C THEN NoTarget ELSE target[c]]
    /\ outcome' = [c \in Calls |-> IF c \in C THEN "none" ELSE outcome[c]]
    /\ status' = status

Next == \/ \E c \in Calls : Invoke(c) \/ TakeEffect(c) \/ Fail(c)
        \/ \E C \in SUBSET Calls : End(C)

Spec == Init /\ [][Next]_vars

=============================================================================
