---------------------------- MODULE MCESignature -----------------------------
(* Three signers and two documents, with the ways of routing that differ. *)
EXTENDS ESignature, TLC

CONSTANTS ann, bob, cyd, d1, d2

People == {ann, bob, cyd}

\* ann and bob share a signing order, cyd comes after both.
SharedOrder == ann :> 1 @@ bob :> 1 @@ cyd :> 2
AnyOrder    == [s \in People |-> 1]

\* Everybody signs the first document, bob also the second, cyd only that one.
Fields == ann :> {d1} @@ bob :> {d1, d2} @@ cyd :> {d2}
=============================================================================
