-------------------------- MODULE MCDeviceRegistry --------------------------
(* Small values for DeviceRegistry: two spellings of one type. *)
EXTENDS DeviceRegistry, TLC

MCToUpper == [t \in Types |-> CASE t = "gpu" -> "GPU" [] OTHER -> t]

=============================================================================
