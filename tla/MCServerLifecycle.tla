-------------------------- MODULE MCServerLifecycle --------------------------
(* Small values for ServerLifecycle: one handler of each kind.                 *)
EXTENDS ServerLifecycle, TLC

CONSTANTS get, revoke, device

MCKind == get :> "read" @@ revoke :> "revoke" @@ device :> "device"

=============================================================================
