------------------------------ MODULE SDKClient ------------------------------
(***************************************************************************)
(* The REST client of the SDK (client.go, errors.go, device.go) against a  *)
(* server that keeps the promises of PassportLedger and CodeAllocator, as  *)
(* AgentRegistry and DeviceRegistry do.                                    *)
(*                                                                         *)
(* A method of the client is one HTTP request.  The server may answer it,  *)
(* the connection may break before or after the server has acted, the      *)
(* reply may be unreadable, and the client gives up after its timeout; the *)
(* server then goes on with the request, and the caller may try again.     *)
(* Whatever happens becomes nil or one of the errors of errors.go, and     *)
(* that is all a caller knows.                                             *)
(***************************************************************************)
EXTENDS Integers, Sequences, FiniteSets

CONSTANTS
    Threads,        \* goroutines that call the client
    Slots,          \* requests the server has in hand, abandoned ones included
    PassportIDs,    \* passport identifiers, those that a caller made up included
    Devices,        \* devices
    Names,          \* capability names, as the pieces between their slashes
    Beginning,      \* [{"revoke", "register"} -> identifiers and pieces of names]:
                    \* the texts that begin with the word, the word itself included
    MaxCalls        \* bound: calls of client methods

ASSUME BoundsAssumption == MaxCalls \in Nat

VARIABLES
    status, phase, target, outcome,     \* the agents API, see PassportLedger
    last, device, code, dphase, dtarget, doutcome,
                                        \* the devices API, see CodeAllocator
    client,         \* [Threads -> the call it is in]
    told,           \* history: <<op, passport>> of registrations and revocations
                    \* that have returned nil
    calls           \* number of calls so far

agentVars  == <<status, phase, target, outcome>>
deviceVars == <<last, device, code, dphase, dtarget, doutcome>>
vars       == <<agentVars, deviceVars, client, told, calls>>

None     == "none"
Idle     == [op |-> None]
GPU(t, n) == <<t, n>>

\* The server draws the identifiers of passports and of devices as UUIDs, which
\* begin with a hexadecimal digit.
UUIDs == PassportIDs \ (Beginning["revoke"] \cup Beginning["register"])

ASSUME IdentifiersAssumption == PassportIDs \cap Devices = {}
ASSUME SlotsAssumption       == None \notin Slots

Agents == INSTANCE PassportLedger WITH Calls <- Slots, NoTarget <- Idle
Codes  == INSTANCE CodeAllocator WITH
    Calls <- Slots, Types <- {"GPU"}, Code <- GPU, NoTarget <- Idle, NoCode <- <<None, 0>>,
    status <- device, phase <- dphase, target <- dtarget, outcome <- doutcome

AgentOps  == {"register", "verify", "capability", "log", "actions", "revoke", "list"}
\* The methods whose path is /v1/agents/{id}/...
IdOps     == {"verify", "capability", "log", "actions", "revoke"}
DeviceOps == {"register_device", "authenticate"}
Errors    == {"nil", "ErrAPI", "APIError", "ErrAuthentication", "ErrRegistration",
              "ErrRevocation"}

\* slot: the request on the server, None if it never got there; about: passport
\* or device; code: the HTTP status of the answer, 0 without one; said: what a
\* readable answer says; since: told, as it was when the call began.
NoCall == [step |-> "idle", op |-> None, about |-> None, name |-> << >>, slot |-> None,
           code |-> 0, said |-> None, err |-> "nil", since |-> {}]

Init ==
    /\ Agents!Init
    /\ Codes!Init
    /\ client = [t \in Threads |-> NoCall]
    /\ told = {}
    /\ calls = 0

-----------------------------------------------------------------------------
(* What the server makes of a request *)

Free(s) == phase[s] = "idle" /\ dphase[s] = "idle"

\* Mutated: the router expects POST where the client sends DELETE.
RoutedUnlessRevoke(op, name) == op # "revoke"

\* The client escapes a name to one piece of the path; the server splits the
\* path after it has been unescaped, and expects one piece.
Routed(op, name) == op = "capability" => Len(name) = 1

\* The server takes up the request in slot s.
Arrive(s, op, about) ==
    /\ Free(s)
    /\ \/ /\ op \in AgentOps
          /\ Agents!Invoke(s) /\ target'[s] = [op |-> op, id |-> about]
          /\ UNCHANGED deviceVars
       \/ /\ op \in DeviceOps
          /\ Codes!Invoke(s)
          /\ dtarget'[s].op = (IF op = "authenticate" THEN op ELSE "register")
          /\ dtarget'[s].id = about
          /\ UNCHANGED agentVars

Serve(s) ==
    /\ \/ (Agents!TakeEffect(s) \/ Agents!Fail(s)) /\ UNCHANGED deviceVars
       \/ (Codes!Register(s) \/ Codes!Authenticate(s) \/ Codes!Fail(s)) /\ UNCHANGED agentVars
    /\ UNCHANGED <<client, told, calls>>

\* An admin approves a device in the dashboard.
Approve ==
    /\ \E d \in Devices : Codes!Approve(d)
    /\ UNCHANGED <<agentVars, client, told, calls>>

\* The server is done with the request of slot s.
Hang(s) ==
    \/ phase[s] # "idle" /\ Agents!End({s}) /\ UNCHANGED deviceVars
    \/ dphase[s] # "idle" /\ Codes!End(s) /\ UNCHANGED agentVars

\* Mutated: the server drops a request that its client still waits for.
Busy(s) == ~Free(s)

Abandoned(s) == ~Free(s) /\ \A t \in Threads : client[t].slot # s

\* Nobody reads the answer to an abandoned request.
HangUp(s) ==
    /\ Abandoned(s)
    /\ "done" \in {phase[s], dphase[s]}
    /\ Hang(s)
    /\ UNCHANGED <<client, told, calls>>

Said(s) == IF phase[s] = "done" THEN outcome[s] ELSE doutcome[s]

\* The status codes of the handlers.
StatusCodes(said) == CASE said = "missing"   -> {404}
                       [] said = "forbidden" -> {403}
                       [] said = "error"     -> {400, 500}
                       [] OTHER              -> {200}

-----------------------------------------------------------------------------
(* parseAPIError *)

\* The name of a capability begins with the word.
NamedAlike(call, word) ==
    call.op = "capability" /\ call.name # << >> /\ Head(call.name) \in Beginning[word]

\* strings.Contains(path, "/" + word), on the path as the client wrote it: in the
\* last piece of the method's own path, in the identifier or in the name.  Slashes
\* inside those two are escaped, and so is the query of a list.
Mentions(call, word) ==
    \/ call.op = word
    \/ call.op = "register_device" /\ word = "register"
    \/ call.op \in IdOps /\ call.about \in Beginning[word]
    \/ NamedAlike(call, word)

\* Mutated: the path is looked at before the status.
ErrorOfPathFirst(call, c) ==
    IF Mentions(call, "revoke") THEN "ErrRevocation"
    ELSE IF Mentions(call, "register") THEN "ErrRegistration"
    ELSE "APIError"

\* The first case that applies.
ErrorOf(call, c) ==
    IF c \in {401, 403} THEN "ErrAuthentication"
    ELSE IF Mentions(call, "revoke") THEN "ErrRevocation"
    ELSE IF Mentions(call, "register") THEN "ErrRegistration"
    ELSE "APIError"

-----------------------------------------------------------------------------
(* Client.do *)

Return(t, call) == client' = [client EXCEPT ![t] = [call EXCEPT !.step = "returned",
                                                                !.slot = None]]

\* A call begins. Its request reaches the server, or its router has nobody to
\* give it to, or the connection breaks first.
Begin(t, op, about, name) ==
    LET call == [NoCall EXCEPT !.op = op, !.about = about, !.name = name, !.since = told]
    IN  /\ client[t] = NoCall
        /\ calls < MaxCalls
        /\ calls' = calls + 1
        /\ \/ /\ Routed(op, name)
              /\ \E s \in Slots :
                    /\ Arrive(s, op, about)
                    /\ client' = [client EXCEPT ![t] = [call EXCEPT !.step = "wait", !.slot = s]]
           \/ /\ ~Routed(op, name)
              /\ Return(t, [call EXCEPT !.code = 404, !.err = ErrorOf(call, 404)])
              /\ UNCHANGED <<agentVars, deviceVars>>
           \/ /\ Return(t, [call EXCEPT !.err = "ErrAPI"])
              /\ UNCHANGED <<agentVars, deviceVars>>
        /\ UNCHANGED told

\* Nobody else is asking for the identifier the server draws.
Fresh(x) == \A t \in Threads : client[t].about # x

\* The caller has the identifier from a registration or a list, or made it up. A list
\* is about no passport: which one it is given does not matter.
CallAgents(t) ==
    \E p \in PassportIDs :
        \/ p \in UUIDs /\ status[p] = "absent" /\ Fresh(p) /\ Begin(t, "register", p, << >>)
        \/ \E op \in IdOps \ {"capability"} : Begin(t, op, p, << >>)
        \/ p = (CHOOSE q \in PassportIDs : TRUE) /\ Begin(t, "list", p, << >>)
        \/ \E name \in Names : Begin(t, "capability", p, name)

CallDevices(t) ==
    \E d \in Devices :
        \/ device[d] = "absent" /\ Fresh(d) /\ Begin(t, "register_device", d, << >>)
        \/ Begin(t, "authenticate", d, << >>)

\* Mutated: 500 is not taken for an error.
FailureAbove500(c) == c >= 400 /\ c # 500

\* resp.StatusCode >= 400
Failure(c) == c >= 400

\* The reply is read: an error by its status, or a body to decode.
Receive(t) ==
    LET call == client[t] IN
    /\ call.step = "wait"
    /\ Said(call.slot) # None
    /\ Hang(call.slot)
    /\ \E c \in StatusCodes(Said(call.slot)) :
          Return(t, IF Failure(c)
                    THEN [call EXCEPT !.code = c, !.err = ErrorOf(call, c)]
                    ELSE [call EXCEPT !.code = c, !.said = Said(call.slot)])
    /\ UNCHANGED <<told, calls>>

\* The connection may break before or after the server has acted, the reply may
\* be unreadable, and the timeout of the http.Client may be over at any time.
GiveUp(t) ==
    /\ client[t].step = "wait"
    /\ Return(t, [client[t] EXCEPT !.err = "ErrAPI"])
    /\ UNCHANGED <<agentVars, deviceVars, told, calls>>

\* The caller has its result.
Use(t) ==
    LET call == client[t] IN
    /\ call.step = "returned"
    /\ client' = [client EXCEPT ![t] = NoCall]
    /\ told' = IF call.err = "nil" /\ call.op \in {"register", "revoke"}
               THEN told \cup {<<call.op, call.about>>}
               ELSE told
    /\ UNCHANGED <<agentVars, deviceVars, calls>>

\* The bound on calls is used up and the server has nothing left to do.
Quiescent ==
    /\ calls = MaxCalls
    /\ \A t \in Threads : client[t] = NoCall
    /\ \A s \in Slots : Free(s)
    /\ UNCHANGED vars

Next == \/ \E t \in Threads : CallAgents(t) \/ CallDevices(t) \/ Receive(t)
                              \/ GiveUp(t) \/ Use(t)
        \/ \E s \in Slots : Serve(s) \/ HangUp(s)
        \/ Approve
        \/ Quiescent

Spec == Init /\ [][Next]_vars

-----------------------------------------------------------------------------
(* Properties *)

\* Mutated: only the signature is looked at.
TrustedBySignature(call) == call.op = "verify" /\ call.said \in {"active", "revoked"}

\* VerificationResult.IsTrusted; the signature of a stored passport is valid.
IsTrusted(call) == call.op = "verify" /\ call.said = "active"

Returned(t) == client[t].step = "returned"

\* Every variable stays in its type; a call that waits has a request on the
\* server that no other call has, and a call that returned has none.
TypeOK ==
    /\ status \in [PassportIDs -> {"absent", "active", "revoked"}]
    /\ device \in [Devices -> {"absent", "pending", "active"}]
    /\ \A s \in Slots : phase[s] = "idle" \/ dphase[s] = "idle"
    /\ \A t \in Threads :
          /\ client[t].step \in {"idle", "wait", "returned"}
          /\ client[t].err \in Errors
          /\ client[t].slot # None <=> client[t].step = "wait"
          /\ client[t].step = "wait" => ~Free(client[t].slot)
          /\ \A u \in Threads \ {t} : client[t].slot = None \/ client[u].slot # client[t].slot
    /\ calls \in 0..MaxCalls

\* A nil error means that it is done, although connections break, calls are given
\* up and tried again: the passport is revoked or stored, the device registered
\* or approved.
NilMeansDone ==
    \A t \in Threads :
        LET call == client[t] IN
        Returned(t) /\ call.err = "nil" =>
            /\ call.op = "revoke" => status[call.about] = "revoked"
            /\ call.op \in {"register", "verify", "capability", "log"} =>
                  status[call.about] # "absent"
            /\ call.op = "register_device" => device[call.about] # "absent"
            /\ call.op = "authenticate" => device[call.about] = "active"

\* A caller that begins a call after some RevokeAgent has returned nil is not told
\* that the passport may act: IsTrusted and Granted are false.
KnownRevocationsHold ==
    \A t \in Threads :
        LET call == client[t] IN
        Returned(t) /\ <<"revoke", call.about>> \in call.since =>
            ~IsTrusted(call) /\ call.said # "granted"

\* An answer 404 is about the passport, and not about the request: once a
\* registration has returned, the passport is found by every method. A revoke that
\* does not find it has nothing left to revoke, and only a capability name with a
\* slash, or an empty one, gets lost on the way.
NotFoundIsAboutThePassport ==
    \A t \in Threads :
        LET call == client[t] IN
        Returned(t) /\ call.code = 404 /\ <<"register", call.about>> \in call.since =>
            \/ call.op = "revoke" /\ status[call.about] = "revoked"
            \/ call.op = "capability" /\ Len(call.name) # 1

\* The path of the call carries a text of the caller that may read like a method:
\* an identifier the server has not issued, or the name of a capability.
Misleading(call, word) ==
    \/ call.op \in IdOps /\ status[call.about] = "absent"
    \/ NamedAlike(call, word)

\* The errors README.md lists under "Errors" can be told apart: ErrAuthentication
\* is a 401 or 403 and nothing else is, ErrAPI is a call without an answer, and nil
\* one whose answer says something.  A method that revokes or registers fails with
\* the error of its name.  Another one does so only for a capability whose name
\* begins like it or for an identifier that was made up: never about a passport the
\* server has issued.
ErrorsNameTheirCall ==
    \A t \in Threads :
        LET call == client[t] IN
        Returned(t) =>
            /\ call.err = "ErrAuthentication" <=> call.code \in {401, 403}
            /\ call.err = "ErrAPI" <=> call.code = 0
            /\ call.err = "nil" <=> call.said # None
            /\ call.op = "revoke" => call.err \notin {"APIError", "ErrRegistration"}
            /\ call.op \in {"register", "register_device"} =>
                  call.err \notin {"APIError", "ErrRevocation"}
            /\ call.err = "ErrRevocation" => call.op = "revoke" \/ Misleading(call, "revoke")
            /\ call.err = "ErrRegistration" =>
                  call.op \in {"register", "register_device"} \/ Misleading(call, "register")

=============================================================================
