--------------------------- MODULE MCAgentRegistry ---------------------------
(* Small values for AgentRegistry: two replicas that share the persisted key. *)
EXTENDS AgentRegistry, TLC

CONSTANTS s1, s2, c1, c2, key, p1, p2, stranger, why1, why2

MCServerOf      == c1 :> s1 @@ c2 :> s2
MCSignerKey     == [s \in Servers |-> key]
OnePassport     == {p1, stranger}
TwoPassports    == {p1, p2, stranger}

\* Swapping the two replicas together with the calls they serve.
SwapReplicas == c1 :> c2 @@ c2 :> c1 @@ s1 :> s2 @@ s2 :> s1

\* Neither the passports a register can return, nor the reasons, nor the
\* replicas are told apart.
Symmetry == Permutations(PassportIDs \ {Stranger}) \cup Permutations(Reasons) \cup {SwapReplicas}

=============================================================================
