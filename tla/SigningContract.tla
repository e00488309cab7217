--------------------------- MODULE SigningContract ---------------------------
(***************************************************************************)
(* What an e-signature envelope promises to the people who sign it, with   *)
(* nothing of how ReDOCX keeps the promise: no requests, locks, links,     *)
(* emails or roll-backs.  A signer signs once, in turn when the routing is *)
(* sequential; every document carries exactly the marks of those who       *)
(* signed it; the envelope closes with the last signature and never        *)
(* changes again.  ESignature implements this specification.               *)
(***************************************************************************)
EXTENDS Naturals

CONSTANTS Signers,      \* the people whose signature the envelope requires
          Docs,         \* the documents of the envelope
          Order,        \* the signing_order of each signer
          Assigned,     \* the documents on which each signer has fields
          Sequential,   \* whether routing_mode is sequential
          SelfSigner    \* the owner, if the owner signs too

VARIABLES signed,   \* those who have signed
          paper,    \* the marks each document carries
          closed    \* the envelope is complete and certified

vars == <<signed, paper, closed>>

Marked(S) == [d \in Docs |-> {s \in S : d \in Assigned[s]}]

InTurn(s) == Sequential => \A t \in Signers : Order[t] < Order[s] => t \in signed

Init ==
    /\ signed = {}
    /\ paper = Marked({})
    /\ closed = FALSE

Sign(s) ==
    /\ ~closed
    /\ s \notin signed
    /\ InTurn(s)
    /\ signed' = signed \union {s}
    /\ paper' = [d \in Docs |-> IF d \in Assigned[s] THEN paper[d] \union {s}
                                                     ELSE paper[d]]
    /\ closed' = (signed' = Signers)

Next == \E s \in Signers : Sign(s)

Spec == Init /\ [][Next]_vars
=============================================================================
