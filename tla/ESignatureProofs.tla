-------------------------- MODULE ESignatureProofs ---------------------------
(***************************************************************************)
(* Proofs about ESignature, for any signers, documents, routing and number *)
(* of concurrent requests.                                                 *)
(*                                                                         *)
(* The invariant that carries them says what the working copy of the       *)
(* request that holds the envelope row has in common with the committed    *)
(* row: it has every committed signature and at most one more, of a signer *)
(* whose turn it is.  No other request has a working copy that matters,    *)
(* because the row lock is exclusive.                                      *)
(***************************************************************************)
EXTENDS ESignature, TLAPS

-----------------------------------------------------------------------------
(* What the envelope transitions do, whatever the envelope. *)

LEMMA BlankType ==
    ASSUME NEW st \in EnvelopeStatus
    PROVE  /\ Blank(st) \in Envelopes
           /\ Signed(Blank(st)) = {}
           /\ Blank(st).status = st
           /\ Blank(st).cert = FALSE
           /\ WellMarked(Blank(st))
  BY DEF Blank, Envelopes, RecipientStatus, Signed, WellMarked

LEMMA MarkViewedFacts ==
    ASSUME NEW e \in Envelopes, NEW s \in Signers
    PROVE  /\ MarkViewed(e, s) \in Envelopes
           /\ Signed(MarkViewed(e, s)) = Signed(e)
           /\ MarkViewed(e, s).doc = e.doc
           /\ MarkViewed(e, s).cert = e.cert
           /\ MarkViewed(e, s).status = "completed" <=> e.status = "completed"
  BY DEF MarkViewed, Envelopes, EnvelopeStatus, RecipientStatus, Signed

LEMMA MarkSignedFacts ==
    ASSUME NEW e \in Envelopes, NEW s \in Signers
    PROVE  /\ MarkSigned(e, s) \in Envelopes
           /\ Signed(MarkSigned(e, s)) = Signed(e) \union {s}
           /\ MarkSigned(e, s).cert = e.cert
           /\ MarkSigned(e, s).status = "completed" <=> Signed(e) \union {s} = Signers
           /\ WellMarked(e) => WellMarked(MarkSigned(e, s))
           /\ \A d \in Docs : MarkSigned(e, s).doc[d]
                  = IF d \in Assigned[s] THEN e.doc[d] \union {s} ELSE e.doc[d]
  <1>1. MarkSigned(e, s) \in Envelopes
    <2>1. [e.rstat EXCEPT ![s] = "signed"] \in [Signers -> RecipientStatus]
      BY DEF Envelopes, RecipientStatus
    <2>2. [d \in Docs |-> IF d \in Assigned[s] THEN e.doc[d] \union {s} ELSE e.doc[d]]
             \in [Docs -> SUBSET Signers]
      BY DEF Envelopes
    <2> QED
      BY <2>1, <2>2 DEF MarkSigned, Envelopes, EnvelopeStatus
  <1>2. Signed(MarkSigned(e, s)) = Signed(e) \union {s}
    BY DEF MarkSigned, Envelopes, Signed
  <1>3. /\ MarkSigned(e, s).cert = e.cert
        /\ MarkSigned(e, s).status = "completed" <=> Signed(e) \union {s} = Signers
    BY DEF MarkSigned, Envelopes
  <1>4. \A d \in Docs : MarkSigned(e, s).doc[d]
            = IF d \in Assigned[s] THEN e.doc[d] \union {s} ELSE e.doc[d]
    BY DEF MarkSigned, Envelopes
  <1>5. WellMarked(e) => WellMarked(MarkSigned(e, s))
    BY <1>2, <1>4 DEF WellMarked
  <1> QED
    BY <1>1, <1>2, <1>3, <1>4, <1>5

LEMMA SignerStepFacts ==
    ASSUME NEW e \in Envelopes, NEW s \in Signers
    PROVE  /\ SignerStep(e, s) \in Envelopes
           /\ Signed(SignerStep(e, s)) = Signed(e) \union {s}
           /\ SignerStep(e, s).cert = e.cert
           /\ SignerStep(e, s).status = "completed" <=> Signed(e) \union {s} = Signers
           /\ WellMarked(e) => WellMarked(SignerStep(e, s))
  <1> DEFINE v == MarkViewed(e, s)
  <1>1. /\ v \in Envelopes
        /\ Signed(v) = Signed(e)
        /\ v.doc = e.doc
        /\ v.cert = e.cert
    BY MarkViewedFacts
  <1>2. WellMarked(e) => WellMarked(v)
    BY <1>1 DEF WellMarked
  <1>3. SignerStep(e, s) = MarkSigned(v, s)
    BY DEF SignerStep
  <1> HIDE DEF v
  <1> QED
    BY <1>1, <1>2, <1>3, MarkSignedFacts

LEMMA MarkSentFacts ==
    ASSUME NEW e \in Envelopes
    PROVE  /\ MarkSent(e) \in Envelopes
           /\ Signed(MarkSent(e)) = Signed(e)
           /\ MarkSent(e).cert = e.cert
           /\ MarkSent(e).status # "completed"
           /\ MarkSent(e).rstat = e.rstat
           /\ WellMarked(e) => WellMarked(MarkSent(e))
  BY DEF MarkSent, OutForSignature, Envelopes, EnvelopeStatus, Signed, WellMarked

LEMMA InvitedFacts ==
    ASSUME NEW e \in Envelopes, NEW s \in Signers, e.rstat[s] = "pending"
    PROVE  /\ Invited(e, s) \in Envelopes
           /\ Signed(Invited(e, s)) = Signed(e)
           /\ Invited(e, s).cert = e.cert
           /\ Invited(e, s).status # "completed"
           /\ \A t \in Signers \ {s} : Invited(e, s).rstat[t] = e.rstat[t]
           /\ WellMarked(e) => WellMarked(Invited(e, s))
  BY DEF Invited, OutForSignature, Envelopes, EnvelopeStatus, RecipientStatus, Signed, WellMarked

LEMMA CertifiedFacts ==
    ASSUME NEW e \in Envelopes
    PROVE  /\ Certified(e) \in Envelopes
           /\ Signed(Certified(e)) = Signed(e)
           /\ Certified(e).status = e.status
           /\ Certified(e).cert = TRUE
           /\ WellMarked(e) => WellMarked(Certified(e))
  BY DEF Certified, Envelopes, Signed, WellMarked

\* Whoever is to be invited is still pending, under either routing.
LEMMA ToInvitePending ==
    ASSUME NEW e \in Envelopes
    PROVE  /\ ToInvite(e) \subseteq Signers
           /\ \A s \in ToInvite(e) : e.rstat[s] = "pending"
  BY DEF ToInvite, Lowest
-----------------------------------------------------------------------------
(* The inductive invariant. *)

\* The committed row: certified exactly when complete, signed in order.
EnvelopeOK(e) ==
    /\ WellMarked(e)
    /\ e.cert <=> e.status = "completed"
    /\ e.status = "completed" <=> Signed(e) = Signers
    /\ e.status = "absent" => Signed(e) = {}
    /\ Sequential => \A s, t \in Signers :
          Order[t] < Order[s] /\ s \in Signed(e) => t \in Signed(e)

\* A transaction acts for the signer of its link, or for the owner; it waits
\* only for the rows of a link, and has recipients to invite only while it does.
TransactionOK(t, e) ==
    /\ t.pc \in {"token", "envelope"} => e.status # "absent"
    /\ t.pc \in {"token", "envelope"} => t.kind \in {"view", "sign"}
    /\ t.pc # "invite" => t.todo = {}
    /\ t.kind \in {"view", "sign"} /\ t.pc # "idle" => t.who \in Signers
    /\ t.kind \in {"draft", "send"} => t.who \in {Nobody, SelfSigner}

\* Whether transaction t adds a signature.
Signs(t) == t.kind # "view" /\ t.who \in Signers

\* A transaction that holds the row of envelope e.
HolderOK(t, e) ==
    /\ WellMarked(t.work)
    /\ Signs(t) => /\ t.who \notin Signed(e)
                   /\ Sequential => \A s \in Signers : Order[s] < Order[t.who] => s \in Signed(e)
    /\ Signed(t.work) = IF t.pc # "apply" /\ Signs(t) THEN Signed(e) \union {t.who} ELSE Signed(e)
    /\ \A s \in t.todo : t.work.rstat[s] = "pending"
    /\ t.work.status = "completed" <=> Signed(t.work) = Signers
    /\ t.work.cert <=> t.pc = "commit" /\ Signed(t.work) = Signers
    /\ t.pc \in {"apply", "invite"} => Signed(t.work) # Signers
    /\ t.pc = "complete" => Signed(t.work) = Signers
    /\ t.work.status # "absent"
    /\ t.kind \in {"draft", "send"} => Signed(e) = {}
    /\ t.kind = "send" => Signers # {SelfSigner}

LockExclusive == \A r \in Requests : envLock = r <=> req[r].pc \in Holding

UsedLinksSigned == \A s \in Signers : token[s] = "used" => s \in Signed(env)

IInv ==
    /\ TypeOK
    /\ LockExclusive
    /\ EnvelopeOK(env)
    /\ UsedLinksSigned
    /\ \A r \in Requests : TransactionOK(req[r], env)
    /\ \A r \in Requests : req[r].pc \in Holding => HolderOK(req[r], env)

LEMMA InitInvariant == Init => IInv
  <1> SUFFICES ASSUME Init PROVE IInv
    OBVIOUS
  <1>1. /\ Blank("absent") \in Envelopes
        /\ Signed(Blank("absent")) = {}
        /\ Blank("absent").status = "absent"
        /\ Blank("absent").cert = FALSE
        /\ WellMarked(Blank("absent"))
    BY BlankType DEF EnvelopeStatus
  <1>2. Idle \in Transactions
    BY <1>1 DEF Idle, Transactions, Steps, Kinds
  <1>3. TypeOK
    <2>1. env \in Envelopes /\ req \in [Requests -> Transactions]
      BY <1>1, <1>2 DEF Init
    <2>2. /\ token \in [Signers -> TokenStatus]
          /\ tokenLock \in [Signers -> Requests \union {Nobody}]
          /\ envLock \in Requests \union {Nobody}
      BY DEF Init, TokenStatus
    <2>3. /\ access \in SUBSET Signers
          /\ mailed \in SUBSET Signers
          /\ expired \in BOOLEAN
      BY DEF Init
    <2>4. faults \in 0 .. MaxFaults
      BY MaxFaultsAssumption DEF Init
    <2> QED
      BY <2>1, <2>2, <2>3, <2>4 DEF TypeOK
  <1>4. LockExclusive
    BY NobodyAssumption DEF Init, LockExclusive, Idle, Holding
  <1>5. EnvelopeOK(env)
    BY <1>1, SignersAssumption DEF Init, EnvelopeOK
  <1>6. UsedLinksSigned
    BY DEF Init, UsedLinksSigned
  <1>7. \A r \in Requests : TransactionOK(req[r], env)
    BY DEF Init, TransactionOK, Idle
  <1>8. \A r \in Requests : req[r].pc \in Holding => HolderOK(req[r], env)
    BY DEF Init, Idle, Holding
  <1> QED
    BY <1>3, <1>4, <1>5, <1>6, <1>7, <1>8 DEF IInv

\* A step that leaves the committed rows alone and changes only the transaction
\* of r keeps the invariant if it keeps what the invariant says of r.
LEMMA LocalStep ==
    ASSUME IInv, NEW r \in Requests, NEW t \in Transactions,
           req' = [req EXCEPT ![r] = t],
           UNCHANGED <<env, token>>,
           access' \in SUBSET Signers, expired' \in BOOLEAN,
           mailed' \in SUBSET Signers, faults' \in 0 .. MaxFaults,
           tokenLock' \in [Signers -> Requests \union {Nobody}],
           envLock' \in Requests \union {Nobody},
           envLock' = r <=> t.pc \in Holding,
           \A q \in Requests \ {r} : envLock' = q <=> envLock = q,
           TransactionOK(t, env),
           t.pc \in Holding => HolderOK(t, env)
    PROVE  IInv'
  <1>1. /\ req \in [Requests -> Transactions]
        /\ req'[r] = t
        /\ \A q \in Requests \ {r} : req'[q] = req[q]
    BY DEF IInv, TypeOK
  <1>2. TypeOK'
    BY <1>1 DEF IInv, TypeOK
  <1>3. LockExclusive'
    BY <1>1 DEF IInv, LockExclusive
  <1>4. EnvelopeOK(env)' /\ UsedLinksSigned'
    BY DEF IInv, EnvelopeOK, UsedLinksSigned, WellMarked, Signed
  <1>5. \A q \in Requests : TransactionOK(req'[q], env')
    BY <1>1 DEF IInv
  <1>6. \A q \in Requests : req'[q].pc \in Holding => HolderOK(req'[q], env')
    BY <1>1 DEF IInv
  <1> QED
    BY <1>2, <1>3, <1>4, <1>5, <1>6 DEF IInv, TransactionOK, HolderOK, WellMarked, Signed, Signs

LEMMA IdleFacts ==
    /\ Idle \in Transactions
    /\ Idle.pc = "idle"
    /\ \A e : TransactionOK(Idle, e)
  <1>1. Blank("absent") \in Envelopes
    BY BlankType DEF EnvelopeStatus
  <1> QED
    BY <1>1 DEF Idle, Transactions, Steps, Kinds, TransactionOK

\* The end of a transaction that committed nothing.
LEMMA EndKeeps ==
    ASSUME IInv, NEW r \in Requests, End(r), UNCHANGED <<rows, expired, mailed>>,
           faults' \in 0 .. MaxFaults
    PROVE  IInv'
  <1>1. /\ envLock' \in Requests \union {Nobody}
        /\ tokenLock' \in [Signers -> Requests \union {Nobody}]
        /\ envLock' # r
        /\ \A q \in Requests \ {r} : envLock' = q <=> envLock = q
    BY NobodyAssumption DEF End, IInv, TypeOK
  <1>2. /\ access' \in SUBSET Signers
        /\ expired' \in BOOLEAN
        /\ mailed' \in SUBSET Signers
    BY DEF IInv, TypeOK, rows
  <1> QED
    BY <1>1, <1>2, IdleFacts, LocalStep DEF End, rows, Holding
-----------------------------------------------------------------------------
(* One lemma per action: it keeps the invariant. *)

LEMMA CreateKeeps ==
    ASSUME IInv, NEW r \in Requests, NEW k \in {"draft", "send"}, NEW own \in BOOLEAN,
           Create(r, k, own)
    PROVE  IInv'
  <1> DEFINE t == [Idle EXCEPT !.pc = "apply", !.kind = k, !.work = Blank("draft"),
                               !.who = IF own THEN SelfSigner ELSE Nobody]
  <1>1. /\ Blank("draft") \in Envelopes
        /\ Signed(Blank("draft")) = {}
        /\ Blank("draft").status = "draft"
        /\ Blank("draft").cert = FALSE
        /\ WellMarked(Blank("draft"))
    BY BlankType DEF EnvelopeStatus
  <1>2. /\ t \in Transactions
        /\ t.pc = "apply" /\ t.kind = k /\ t.work = Blank("draft") /\ t.todo = {}
        /\ t.who = IF own THEN SelfSigner ELSE Nobody
    <2>1. own => SelfSigner \in Signers
      BY DEF Create
    <2> QED
      BY <1>1, <2>1 DEF Idle, Transactions, Steps, Kinds
  <1>3. TransactionOK(t, env)
    BY <1>2 DEF TransactionOK
  <1>4. HolderOK(t, env)
    <2>1. Signed(env) = {}
      BY DEF Create, IInv, EnvelopeOK
    <2>2. Signs(t) => \A s \in Signers : ~(Order[s] < Order[t.who])
      BY <1>2, SelfSignerAssumption, OrderAssumption, NobodyAssumption DEF Signs
    <2>3. t.kind = "send" => Signers # {SelfSigner}
      BY <1>2 DEF Create
    <2> HIDE DEF t
    <2> QED
      BY <1>1, <1>2, <2>1, <2>2, <2>3, SignersAssumption DEF HolderOK
  <1>5. /\ envLock' = r
        /\ envLock = Nobody
        /\ req' = [req EXCEPT ![r] = t]
        /\ UNCHANGED <<env, token, access, expired, tokenLock, mailed, faults>>
    BY DEF Create, rows
  <1>6. /\ access' \in SUBSET Signers /\ expired' \in BOOLEAN
        /\ mailed' \in SUBSET Signers /\ faults' \in 0 .. MaxFaults
        /\ tokenLock' \in [Signers -> Requests \union {Nobody}]
    BY <1>5 DEF IInv, TypeOK
  <1>7. \A q \in Requests \ {r} : envLock' = q <=> envLock = q
    BY <1>5, NobodyAssumption
  <1> HIDE DEF t
  <1> QED
    BY <1>2, <1>3, <1>4, <1>5, <1>6, <1>7, LocalStep DEF Holding

LEMMA SubmitKeeps ==
    ASSUME IInv, NEW r \in Requests, NEW k \in {"view", "sign"}, NEW s \in Signers,
           Submit(r, k, s)
    PROVE  IInv'
  <1> DEFINE t == [Idle EXCEPT !.pc = "token", !.kind = k, !.who = s]
  <1>1. t \in Transactions /\ t.pc = "token" /\ t.kind = k /\ t.who = s
    BY IdleFacts DEF Idle, Transactions, Steps, Kinds
  <1>2. TransactionOK(t, env)
    BY <1>1 DEF TransactionOK, Submit, Idle
  <1>3. /\ req' = [req EXCEPT ![r] = t]
        /\ req[r].pc \notin Holding
        /\ UNCHANGED <<env, token, access, expired, envLock, tokenLock, mailed, faults>>
    BY DEF Submit, rows, locks, Holding
  <1>4. envLock' # r
    BY <1>3 DEF IInv, LockExclusive
  <1> HIDE DEF t
  <1> QED
    BY <1>1, <1>2, <1>3, <1>4, LocalStep DEF IInv, TypeOK, Holding

LEMMA LockTokenKeeps ==
    ASSUME IInv, NEW r \in Requests, LockToken(r)
    PROVE  IInv'
  <1> DEFINE t == [req[r] EXCEPT !.pc = "envelope"]
  <1>1. req[r] \in Transactions /\ req[r].pc = "token" /\ TransactionOK(req[r], env)
    BY DEF LockToken, IInv, TypeOK
  <1>2. t \in Transactions /\ t.pc = "envelope" /\ t.kind = req[r].kind /\ t.who = req[r].who
    BY <1>1 DEF Transactions, Steps
  <1>3. TransactionOK(t, env)
    BY <1>1, <1>2 DEF TransactionOK
  <1>4. /\ req' = [req EXCEPT ![r] = t]
        /\ UNCHANGED <<env, token, access, expired, envLock, mailed, faults>>
        /\ tokenLock' = [tokenLock EXCEPT ![req[r].who] = r]
    BY DEF LockToken, rows
  <1>5. envLock' # r
    BY <1>1, <1>4 DEF IInv, LockExclusive, Holding
  <1>6. tokenLock' \in [Signers -> Requests \union {Nobody}]
    BY <1>4 DEF IInv, TypeOK
  <1> HIDE DEF t
  <1> QED
    BY <1>2, <1>3, <1>4, <1>5, <1>6, LocalStep DEF IInv, TypeOK, Holding

LEMMA LockEnvelopeKeeps ==
    ASSUME IInv, NEW r \in Requests, LockEnvelope(r)
    PROVE  IInv'
  <1> DEFINE t == [req[r] EXCEPT !.pc = "apply", !.work = env]
  <1>1. /\ req[r] \in Transactions /\ req[r].pc = "envelope" /\ TransactionOK(req[r], env)
        /\ env \in Envelopes /\ EnvelopeOK(env)
        /\ req[r].todo = {}
    BY DEF LockEnvelope, IInv, TypeOK, TransactionOK
  <1>2. /\ t \in Transactions /\ t.pc = "apply" /\ t.work = env
        /\ t.kind = req[r].kind /\ t.who = req[r].who /\ t.todo = req[r].todo
    BY <1>1 DEF Transactions, Steps
  <1>3. TransactionOK(t, env)
    BY <1>1, <1>2 DEF TransactionOK
  <1>4. /\ t.who \in Signers
        /\ t.kind \in {"view", "sign"}
        /\ t.who \notin Signed(env)
        /\ Signed(env) # Signers
        /\ env.cert = FALSE
        /\ env.status # "completed"
    BY <1>1, <1>2 DEF TransactionOK, LockEnvelope, CanAct, EnvelopeOK, Signed, Envelopes
  <1>5. Sequential => \A s \in Signers : Order[s] < Order[t.who] => s \in Signed(env)
    <2>1. Sequential => t.who \in Lowest(Signers \ Signed(env))
      BY <1>2 DEF LockEnvelope, CanAct, NextRequiredSigners
    <2>2. \A s \in Signers : Order[s] \in Nat
      BY OrderAssumption
    <2> HIDE DEF t
    <2> QED
      BY <1>4, <2>1, <2>2 DEF Lowest
  <1>6. env.status # "absent"
    BY <1>1 DEF TransactionOK
  <1>7. HolderOK(t, env)
    <2> HIDE DEF t
    <2> QED
      BY <1>1, <1>2, <1>4, <1>5, <1>6 DEF HolderOK, EnvelopeOK, Signs
  <1>8. /\ envLock = Nobody
        /\ envLock' = r
        /\ req' = [req EXCEPT ![r] = t]
        /\ UNCHANGED <<env, token, access, expired, tokenLock, mailed, faults>>
    BY DEF LockEnvelope, rows
  <1>9. \A q \in Requests \ {r} : envLock' = q <=> envLock = q
    BY <1>8, NobodyAssumption
  <1> HIDE DEF t
  <1> QED
    BY <1>2, <1>3, <1>7, <1>8, <1>9, LocalStep DEF IInv, TypeOK, Holding

\* A step of the request that holds the row, inside its own transaction.
LEMMA HolderStep ==
    ASSUME IInv, NEW r \in Requests, NEW t \in Transactions,
           req[r].pc \in Holding, t.pc \in Holding,
           req' = [req EXCEPT ![r] = t],
           UNCHANGED <<env, token, access, expired, envLock, faults>>,
           mailed' \in SUBSET Signers,
           tokenLock' \in [Signers -> Requests \union {Nobody}],
           TransactionOK(t, env), HolderOK(t, env)
    PROVE  IInv'
  BY LocalStep DEF IInv, TypeOK, LockExclusive

LEMMA ApplyViewKeeps ==
    ASSUME IInv, NEW r \in Requests, ApplyView(r)
    PROVE  IInv'
  <1> DEFINE e == req[r].work
             v == IF e.rstat[req[r].who] \in {"pending", "sent"}
                  THEN MarkViewed(e, req[r].who) ELSE e
             t == [req[r] EXCEPT !.pc = "commit", !.work = v]
  <1>1. /\ req[r] \in Transactions /\ req[r].pc = "apply" /\ req[r].kind = "view"
        /\ TransactionOK(req[r], env) /\ HolderOK(req[r], env)
    BY DEF ApplyView, IInv, TypeOK, Holding
  <1>2. e \in Envelopes /\ req[r].who \in Signers
    BY <1>1 DEF Transactions, TransactionOK
  <1>3. /\ v \in Envelopes
        /\ Signed(v) = Signed(e)
        /\ v.cert = e.cert
        /\ v.status = "completed" <=> e.status = "completed"
        /\ v.status # "absent" <=> e.status # "absent"
        /\ WellMarked(e) => WellMarked(v)
    <2>1. MarkViewed(e, req[r].who).status # "absent" <=> e.status # "absent"
      BY <1>2 DEF MarkViewed, Envelopes
    <2>2. WellMarked(e) => WellMarked(MarkViewed(e, req[r].who))
      BY <1>2, MarkViewedFacts DEF WellMarked
    <2> QED
      BY <1>2, <2>1, <2>2, MarkViewedFacts
  <1> HIDE DEF v
  <1>4. /\ t \in Transactions /\ t.pc = "commit" /\ t.work = v
        /\ t.kind = "view" /\ t.who = req[r].who /\ t.todo = req[r].todo
    BY <1>1, <1>3 DEF Transactions, Steps
  <1>5. req' = [req EXCEPT ![r] = t]
    BY DEF ApplyView, v
  <1> HIDE DEF t
  <1>6. TransactionOK(t, env)
    BY <1>1, <1>4 DEF TransactionOK
  <1>7. HolderOK(t, env)
    BY <1>1, <1>3, <1>4 DEF HolderOK, Signs, TransactionOK
  <1>8. UNCHANGED <<env, token, access, expired, envLock, tokenLock, mailed, faults>>
    BY DEF ApplyView, rows, locks
  <1> QED
    BY <1>1, <1>4, <1>5, <1>6, <1>7, <1>8, HolderStep DEF IInv, TypeOK, Holding

LEMMA ApplySignKeeps ==
    ASSUME IInv, NEW r \in Requests, ApplySign(r)
    PROVE  IInv'
  <1> DEFINE e == SignerStep(req[r].work, req[r].who)
             last == e.status = "completed"
             t == [req[r] EXCEPT !.work = e,
                                 !.pc = IF last THEN "complete" ELSE "invite",
                                 !.todo = IF last THEN {} ELSE ToInvite(e)]
  <1>1. /\ req[r] \in Transactions /\ req[r].pc = "apply" /\ req[r].kind = "sign"
        /\ TransactionOK(req[r], env) /\ HolderOK(req[r], env)
    BY DEF ApplySign, IInv, TypeOK, Holding
  <1>2. req[r].work \in Envelopes /\ req[r].who \in Signers
    BY <1>1 DEF Transactions, TransactionOK
  <1>3. /\ e \in Envelopes
        /\ Signed(e) = Signed(req[r].work) \union {req[r].who}
        /\ e.cert = req[r].work.cert
        /\ e.status = "completed" <=> Signed(e) = Signers
        /\ e.status # "absent"
        /\ WellMarked(req[r].work) => WellMarked(e)
    <2>1. e.status # "absent"
      BY <1>2, MarkViewedFacts DEF SignerStep, MarkSigned, Envelopes
    <2>2. /\ e \in Envelopes
          /\ Signed(e) = Signed(req[r].work) \union {req[r].who}
          /\ e.cert = req[r].work.cert
          /\ e.status = "completed" <=> Signed(req[r].work) \union {req[r].who} = Signers
          /\ WellMarked(req[r].work) => WellMarked(e)
      BY <1>2, SignerStepFacts
    <2> HIDE DEF e
    <2> QED
      BY <2>1, <2>2
  <1> HIDE DEF e
  <1>4. ToInvite(e) \subseteq Signers /\ \A s \in ToInvite(e) : e.rstat[s] = "pending"
    BY <1>3, ToInvitePending
  <1>5. /\ t \in Transactions /\ t.pc = (IF last THEN "complete" ELSE "invite") /\ t.work = e
        /\ t.kind = "sign" /\ t.who = req[r].who
        /\ t.todo = IF last THEN {} ELSE ToInvite(e)
    BY <1>1, <1>3, <1>4 DEF Transactions, Steps
  <1>6. req' = [req EXCEPT ![r] = t]
    BY DEF ApplySign, e
  <1> HIDE DEF t
  <1>7. TransactionOK(t, env)
    BY <1>1, <1>5 DEF TransactionOK
  <1>8. HolderOK(t, env)
    BY <1>1, <1>2, <1>3, <1>4, <1>5 DEF HolderOK, Signs
  <1>9. UNCHANGED <<env, token, access, expired, envLock, tokenLock, mailed, faults>>
    BY DEF ApplySign, rows, locks
  <1> QED
    BY <1>1, <1>5, <1>6, <1>7, <1>8, <1>9, HolderStep DEF IInv, TypeOK, Holding

LEMMA CertifyKeeps ==
    ASSUME IInv, NEW r \in Requests, Certify(r)
    PROVE  IInv'
  <1> DEFINE c == Certified(req[r].work)
             t == [req[r] EXCEPT !.pc = "commit", !.work = c]
  <1>1. /\ req[r] \in Transactions /\ req[r].pc = "complete"
        /\ TransactionOK(req[r], env) /\ HolderOK(req[r], env)
    BY DEF Certify, IInv, TypeOK, Holding
  <1>2. /\ c \in Envelopes
        /\ Signed(c) = Signed(req[r].work)
        /\ c.status = req[r].work.status
        /\ c.cert = TRUE
        /\ WellMarked(req[r].work) => WellMarked(c)
    BY <1>1, CertifiedFacts DEF Transactions
  <1> HIDE DEF c
  <1>3. /\ t \in Transactions /\ t.pc = "commit" /\ t.work = c
        /\ t.kind = req[r].kind /\ t.who = req[r].who /\ t.todo = req[r].todo
    BY <1>1, <1>2 DEF Transactions, Steps
  <1>4. req' = [req EXCEPT ![r] = t]
    BY DEF Certify, c
  <1> HIDE DEF t
  <1>5. TransactionOK(t, env)
    BY <1>1, <1>3 DEF TransactionOK
  <1>6. HolderOK(t, env)
    BY <1>1, <1>2, <1>3 DEF HolderOK, Signs, TransactionOK
  <1>7. UNCHANGED <<env, token, access, expired, envLock, tokenLock, mailed, faults>>
    BY DEF Certify, rows, locks
  <1> QED
    BY <1>1, <1>3, <1>4, <1>5, <1>6, <1>7, HolderStep DEF IInv, TypeOK, Holding

LEMMA ApplyCreateKeeps ==
    ASSUME IInv, NEW r \in Requests, ApplyCreate(r)
    PROVE  IInv'
  <1> DEFINE w == req[r].work
             x == req[r].who
             e == IF x = Nobody THEN w ELSE SignerStep(w, x)
             n == IF req[r].kind = "send" THEN MarkSent(e) ELSE e
             p == CASE n.status = "completed" -> "complete"
                    [] req[r].kind = "send" -> "invite"
                    [] OTHER -> "commit"
             d == IF req[r].kind = "send" THEN ToInvite(n) ELSE {}
             t == [req[r] EXCEPT !.work = n, !.pc = p, !.todo = d]
  <1>1. /\ req[r] \in Transactions /\ req[r].pc = "apply" /\ req[r].kind \in {"draft", "send"}
        /\ TransactionOK(req[r], env) /\ HolderOK(req[r], env)
    BY DEF ApplyCreate, IInv, TypeOK, Holding
  <1>2. /\ w \in Envelopes
        /\ x \in Signers \union {Nobody}
        /\ x \in {Nobody, SelfSigner}
        /\ Nobody \notin Signers
        /\ Signed(env) = {} /\ Signed(w) = {}
        /\ w.cert = FALSE /\ w.status # "completed" /\ w.status # "absent" /\ WellMarked(w)
    BY <1>1, NobodyAssumption DEF Transactions, TransactionOK, HolderOK
  <1> HIDE DEF w, x
  <1>3. /\ e \in Envelopes
        /\ Signed(e) = IF x \in Signers THEN {x} ELSE {}
        /\ e.cert = FALSE
        /\ e.status = "completed" <=> Signed(e) = Signers
        /\ e.status # "absent"
        /\ WellMarked(e)
    <2>1. CASE x = Nobody
      BY <1>2, <2>1, SignersAssumption
    <2>2. CASE x \in Signers
      <3>1. /\ SignerStep(w, x) \in Envelopes
            /\ Signed(SignerStep(w, x)) = Signed(w) \union {x}
            /\ SignerStep(w, x).cert = w.cert
            /\ SignerStep(w, x).status = "completed" <=> Signed(w) \union {x} = Signers
            /\ WellMarked(w) => WellMarked(SignerStep(w, x))
        BY <1>2, <2>2, SignerStepFacts
      <3>2. SignerStep(w, x).status # "absent"
        BY <1>2, <2>2, MarkViewedFacts DEF SignerStep, MarkSigned, Envelopes
      <3> QED
        BY <1>2, <2>2, <3>1, <3>2
    <2> QED
      BY <1>2, <2>1, <2>2
  <1> HIDE DEF e
  <1>4. /\ n \in Envelopes
        /\ Signed(n) = IF x \in Signers THEN {x} ELSE {}
        /\ n.cert = FALSE
        /\ n.status = "completed" <=> Signed(n) = Signers
        /\ n.status # "absent"
        /\ WellMarked(n)
        /\ req[r].kind = "send" => Signed(n) # Signers
    <2>1. CASE req[r].kind = "send"
      <3>1. /\ n \in Envelopes
            /\ Signed(n) = Signed(e)
            /\ n.cert = e.cert
            /\ n.status # "completed"
            /\ WellMarked(n)
        BY <1>3, <2>1, MarkSentFacts
      <3>2. n.status # "absent"
        BY <1>3, <2>1 DEF MarkSent, OutForSignature, Envelopes
      <3>3. Signers # {SelfSigner}
        BY <1>1, <2>1 DEF HolderOK
      <3>4. Signed(n) # Signers
        BY <1>2, <1>3, <3>1, <3>3, SignersAssumption
      <3> HIDE DEF n
      <3> QED
        BY <1>3, <3>1, <3>2, <3>4
    <2>2. CASE req[r].kind # "send"
      BY <1>3, <2>2
    <2> QED
      BY <2>1, <2>2
  <1>5. n.status = "completed" => req[r].kind # "send"
    BY <1>4
  <1> HIDE DEF n
  <1>6. ToInvite(n) \subseteq Signers /\ \A s \in ToInvite(n) : n.rstat[s] = "pending"
    BY <1>4, ToInvitePending
  <1>7. /\ d \subseteq Signers
        /\ \A s \in d : n.rstat[s] = "pending"
        /\ p \in {"complete", "invite", "commit"}
        /\ p = "complete" <=> n.status = "completed"
        /\ p = "invite" <=> req[r].kind = "send"
        /\ p # "invite" => d = {}
    BY <1>1, <1>5, <1>6
  <1> HIDE DEF d, p
  <1>8. /\ t \in Transactions /\ t.pc = p /\ t.work = n /\ t.todo = d
        /\ t.kind = req[r].kind /\ t.who = x
    BY <1>1, <1>4, <1>7 DEF Transactions, Steps, x
  <1>9. req' = [req EXCEPT ![r] = t]
    <2>1. n = Created(req[r])
      BY DEF n, e, w, x, Created
    <2> QED
      BY <2>1 DEF ApplyCreate, p, d
  <1> HIDE DEF t
  <1>10. TransactionOK(t, env)
    BY <1>1, <1>2, <1>7, <1>8 DEF TransactionOK
  <1>11. HolderOK(t, env)
    <2>1. Signs(t) <=> x \in Signers
      BY <1>1, <1>8 DEF Signs
    <2>2. x \in Signers => \A s \in Signers : ~(Order[s] < Order[x])
      BY <1>2, SelfSignerAssumption, OrderAssumption
    <2>3. t.kind = "send" => Signers # {SelfSigner}
      BY <1>1, <1>8 DEF HolderOK
    <2> QED
      BY <1>1, <1>2, <1>4, <1>7, <1>8, <2>1, <2>2, <2>3 DEF HolderOK
  <1>12. UNCHANGED <<env, token, access, expired, envLock, tokenLock, mailed, faults>>
    BY DEF ApplyCreate, rows, locks
  <1> QED
    BY <1>1, <1>7, <1>8, <1>9, <1>10, <1>11, <1>12, HolderStep DEF IInv, TypeOK, Holding

LEMMA InviteKeeps ==
    ASSUME IInv, NEW r \in Requests, Invite(r)
    PROVE  IInv'
  <1>1. PICK s \in req[r].todo :
            /\ req[r].pc = "invite"
            /\ tokenLock' = IF token[s] = "active" THEN [tokenLock EXCEPT ![s] = r] ELSE tokenLock
            /\ mailed' = mailed \union {s}
            /\ req' = [req EXCEPT ![r].todo = @ \ {s}, ![r].issued = @ \union {s},
                                  ![r].work = Invited(@, s)]
            /\ UNCHANGED <<rows, expired, envLock, faults>>
    BY DEF Invite
  <1> DEFINE i == Invited(req[r].work, s)
             t == [req[r] EXCEPT !.todo = @ \ {s}, !.issued = @ \union {s}, !.work = i]
  <1>2. /\ req[r] \in Transactions
        /\ TransactionOK(req[r], env) /\ HolderOK(req[r], env)
    BY <1>1 DEF IInv, TypeOK, Holding
  <1>3. s \in Signers /\ req[r].work \in Envelopes /\ req[r].work.rstat[s] = "pending"
    BY <1>2 DEF Transactions, HolderOK
  <1>4. /\ i \in Envelopes
        /\ Signed(i) = Signed(req[r].work)
        /\ i.cert = req[r].work.cert
        /\ i.status # "completed"
        /\ i.status # "absent"
        /\ \A q \in Signers \ {s} : i.rstat[q] = req[r].work.rstat[q]
        /\ WellMarked(req[r].work) => WellMarked(i)
    <2>1. i.status # "absent"
      BY <1>3 DEF Invited, OutForSignature, Envelopes
    <2> QED
      BY <1>3, <2>1, InvitedFacts
  <1> HIDE DEF i
  <1>5. /\ t \in Transactions /\ t.pc = "invite" /\ t.work = i
        /\ t.kind = req[r].kind /\ t.who = req[r].who /\ t.todo = req[r].todo \ {s}
    BY <1>1, <1>2, <1>3, <1>4 DEF Transactions, Steps
  <1>6. req' = [req EXCEPT ![r] = t]
    BY <1>1 DEF i
  <1> HIDE DEF t
  <1>7. TransactionOK(t, env)
    BY <1>1, <1>2, <1>5 DEF TransactionOK
  <1>8. HolderOK(t, env)
    BY <1>1, <1>2, <1>4, <1>5 DEF HolderOK, Signs, Transactions
  <1>9. /\ UNCHANGED <<env, token, access, expired, envLock, faults>>
        /\ mailed' \in SUBSET Signers
        /\ tokenLock' \in [Signers -> Requests \union {Nobody}]
    BY <1>1, <1>3 DEF IInv, TypeOK, rows
  <1> QED
    BY <1>1, <1>5, <1>6, <1>7, <1>8, <1>9, HolderStep DEF Holding

LEMMA CommitKeeps ==
    ASSUME IInv, NEW r \in Requests, Commit(r)
    PROVE  IInv'
  <1> DEFINE t == req[r]
  <1>1. /\ t \in Transactions /\ t.pc \in {"commit", "invite"}
        /\ TransactionOK(t, env) /\ HolderOK(t, env)
        /\ envLock = r
        /\ env' = t.work
    BY DEF Commit, IInv, TypeOK, LockExclusive, Holding
  <1>2. /\ req'[r] = Idle
        /\ \A q \in Requests \ {r} : req'[q] = req[q] /\ req[q].pc \notin Holding
        /\ req' \in [Requests -> Transactions]
    BY <1>1, IdleFacts DEF Commit, End, IInv, TypeOK, LockExclusive
  <1>3. env' \in Envelopes /\ env'.status # "absent"
    BY <1>1 DEF Transactions, HolderOK
  <1>4. TypeOK'
    <2>1. token' \in [Signers -> TokenStatus]
      BY DEF Commit, IInv, TypeOK, TokenStatus
    <2>2. /\ envLock' = Nobody
          /\ tokenLock' \in [Signers -> Requests \union {Nobody}]
      BY <1>1 DEF Commit, End, IInv, TypeOK
    <2>3. /\ access' \in SUBSET Signers
          /\ UNCHANGED <<expired, mailed, faults>>
      BY DEF Commit, IInv, TypeOK
    <2> QED
      BY <1>2, <1>3, <2>1, <2>2, <2>3 DEF IInv, TypeOK
  <1>5. LockExclusive'
    BY <1>1, <1>2, IdleFacts, NobodyAssumption DEF Commit, End, LockExclusive, Holding
  <1>6. Signed(env') = IF Signs(t) THEN Signed(env) \union {t.who} ELSE Signed(env)
    BY <1>1 DEF HolderOK
  <1>7. EnvelopeOK(env')
    <2>1. WellMarked(env')
      BY <1>1 DEF HolderOK
    <2>2. /\ env'.cert <=> env'.status = "completed"
          /\ env'.status = "completed" <=> Signed(env') = Signers
      BY <1>1 DEF HolderOK
    <2>3. ASSUME Sequential, NEW s \in Signers, NEW q \in Signers,
                 Order[q] < Order[s], s \in Signed(env')
          PROVE  q \in Signed(env')
      BY <1>1, <1>6, <2>3 DEF HolderOK, IInv, EnvelopeOK
    <2> QED
      BY <1>3, <2>1, <2>2, <2>3 DEF EnvelopeOK
  <1>8. UsedLinksSigned'
    <2> SUFFICES ASSUME NEW s \in Signers, token'[s] = "used"
                 PROVE  s \in Signed(env')
      BY DEF UsedLinksSigned, Signed
    <2>1. CASE t.kind = "sign" /\ s = t.who
      BY <1>6, <2>1 DEF Signs
    <2>2. CASE ~(t.kind = "sign" /\ s = t.who)
      BY <1>6, <2>2 DEF Commit, IInv, UsedLinksSigned
    <2> QED
      BY <2>1, <2>2
  <1>9. \A q \in Requests : TransactionOK(req'[q], env')
    BY <1>2, <1>3, IdleFacts DEF IInv, TransactionOK
  <1>10. \A q \in Requests : req'[q].pc \in Holding => HolderOK(req'[q], env')
    BY <1>2, IdleFacts DEF Holding
  <1>11. EnvelopeOK(env)'
    BY <1>7 DEF EnvelopeOK, WellMarked, Signed
  <1>12. \A q \in Requests : TransactionOK(req[q], env)'
    BY <1>9 DEF TransactionOK
  <1>13. \A q \in Requests : (req[q].pc \in Holding => HolderOK(req[q], env))'
    BY <1>10 DEF HolderOK, WellMarked, Signed, Signs
  <1> QED
    BY <1>4, <1>5, <1>8, <1>11, <1>12, <1>13 DEF IInv

LEMMA NextKeeps == IInv /\ [Next]_vars => IInv'
  <1> SUFFICES ASSUME IInv, [Next]_vars PROVE IInv'
    OBVIOUS
  <1>1. ASSUME NEW r \in Requests, NEW k \in {"draft", "send"}, NEW own \in BOOLEAN,
               Create(r, k, own)
        PROVE  IInv'
    BY <1>1, CreateKeeps
  <1>2. ASSUME NEW r \in Requests, NEW k \in {"view", "sign"}, NEW s \in Signers,
               Submit(r, k, s)
        PROVE  IInv'
    BY <1>2, SubmitKeeps
  <1>3. ASSUME NEW r \in Requests, LockToken(r) PROVE IInv'
    BY <1>3, LockTokenKeeps
  <1>4. ASSUME NEW r \in Requests, LockEnvelope(r) PROVE IInv'
    BY <1>4, LockEnvelopeKeeps
  <1>5. ASSUME NEW r \in Requests, Step(r) PROVE IInv'
    <2>1. ASSUME RejectLink(r) \/ RejectSigner(r) \/ RefuseExpiredInvite(r) PROVE IInv'
      <3>1. /\ End(r)
            /\ UNCHANGED <<rows, expired, mailed>>
            /\ faults' \in 0 .. MaxFaults
        BY <2>1 DEF RejectLink, RejectSigner, RefuseExpiredInvite, IInv, TypeOK
      <3> QED
        BY <3>1, EndKeeps
    <2>2. ASSUME ApplyView(r) PROVE IInv'
      BY <2>2, ApplyViewKeeps
    <2>3. ASSUME ApplySign(r) PROVE IInv'
      BY <2>3, ApplySignKeeps
    <2>4. ASSUME ApplyCreate(r) PROVE IInv'
      BY <2>4, ApplyCreateKeeps
    <2>5. ASSUME Invite(r) PROVE IInv'
      BY <2>5, InviteKeeps
    <2>6. ASSUME Certify(r) PROVE IInv'
      BY <2>6, CertifyKeeps
    <2>7. ASSUME Commit(r) PROVE IInv'
      BY <2>7, CommitKeeps
    <2> QED
      BY <1>5, <2>1, <2>2, <2>3, <2>4, <2>5, <2>6, <2>7 DEF Step
  <1>6. ASSUME NEW r \in Requests, Rollback(r) PROVE IInv'
    <2>1. /\ End(r)
          /\ UNCHANGED <<rows, expired, mailed>>
          /\ faults' \in 0 .. MaxFaults
      BY <1>6, MaxFaultsAssumption DEF Rollback, IInv, TypeOK
    <2> QED
      BY <2>1, EndKeeps
  <1>7. ASSUME Expire PROVE IInv'
    <2>1. /\ expired' \in BOOLEAN
          /\ UNCHANGED <<env, token, access, envLock, tokenLock, req, mailed, faults>>
      BY <1>7 DEF Expire, rows, locks
    <2>2. TypeOK' /\ LockExclusive' /\ UsedLinksSigned'
      BY <2>1 DEF IInv, TypeOK, LockExclusive, UsedLinksSigned, Signed
    <2> QED
      BY <2>1, <2>2 DEF IInv, EnvelopeOK, TransactionOK, HolderOK, WellMarked, Signed, Signs
  <1>8. ASSUME UNCHANGED vars PROVE IInv'
    <2>1. UNCHANGED <<env, token, access, expired, envLock, tokenLock, req, mailed, faults>>
      BY <1>8 DEF vars, rows, locks
    <2>2. TypeOK' /\ LockExclusive' /\ UsedLinksSigned'
      BY <2>1 DEF IInv, TypeOK, LockExclusive, UsedLinksSigned, Signed
    <2> QED
      BY <2>1, <2>2 DEF IInv, EnvelopeOK, TransactionOK, HolderOK, WellMarked, Signed, Signs
  <1> QED
    BY <1>1, <1>2, <1>3, <1>4, <1>5, <1>6, <1>7, <1>8 DEF Next
-----------------------------------------------------------------------------
(* The theorems. *)

\* The inductive invariant holds in every behaviour.
THEOREM Invariance == Spec => []IInv
  BY InitInvariant, NextKeeps, PTL DEF Spec

\* Type correctness of the envelope service's state.
THEOREM TypeCorrectness == Spec => []TypeOK
  <1>1. IInv => TypeOK
    BY DEF IInv
  <1> QED
    BY <1>1, Invariance, PTL

\* No signature is ever lost: the committed documents show exactly the marks of
\* those who signed, whoever else was signing, viewing or failing at the time.
THEOREM SignaturesAreKept == Spec => []NoSignatureLost
  <1>1. IInv => NoSignatureLost
    BY DEF IInv, EnvelopeOK, UsedLinksSigned, NoSignatureLost
  <1> QED
    BY <1>1, Invariance, PTL

\* Sequential routing is enforced, although a recipient may be invited early and
\* the owner signs without being asked whose turn it is.
THEOREM OrderIsRespected == Spec => []SigningOrderRespected
  <1>1. IInv => SigningOrderRespected
    BY DEF IInv, EnvelopeOK, Signed, SigningOrderRespected
  <1> QED
    BY <1>1, Invariance, PTL

\* A completed envelope stays so: nobody can act on it, so that whoever holds the
\* row of an envelope found a signature missing.
LEMMA CompletedIsLeftAlone ==
    ASSUME IInv, NEW r \in Requests, Commit(r), env.cert
    PROVE  env'.cert
  <1>1. /\ req[r].pc \in {"commit", "invite"}
        /\ env' = req[r].work
        /\ EnvelopeOK(env)
        /\ HolderOK(req[r], env)
    BY DEF Commit, IInv, Holding
  <1>2. Signed(env) = Signers
    BY <1>1 DEF EnvelopeOK
  <1>3. Signed(req[r].work) = Signers
    BY <1>1, <1>2 DEF HolderOK, Signs
  <1>4. req[r].pc = "commit"
    BY <1>1, <1>3 DEF HolderOK
  <1> QED
    BY <1>1, <1>3, <1>4 DEF HolderOK

\* Until it commits a request changes no row.
LEMMA OnlyCommitWrites ==
    ASSUME [Next]_vars, \A r \in Requests : ~Commit(r)
    PROVE  rows' = rows
  <1>1. ASSUME NEW r \in Requests,
               \/ \E k \in {"draft", "send"}, own \in BOOLEAN : Create(r, k, own)
               \/ \E k \in {"view", "sign"}, s \in Signers : Submit(r, k, s)
               \/ LockToken(r) \/ LockEnvelope(r) \/ Rollback(r)
        PROVE  rows' = rows
    BY <1>1 DEF Create, Submit, LockToken, LockEnvelope, Rollback
  <1>2. ASSUME NEW r \in Requests, Step(r), ~Commit(r) PROVE rows' = rows
    BY <1>2 DEF Step, RejectLink, RejectSigner, ApplyView, ApplySign, ApplyCreate, Invite,
                RefuseExpiredInvite, Certify
  <1>3. ASSUME Expire \/ UNCHANGED vars PROVE rows' = rows
    BY <1>3 DEF Expire, vars
  <1> QED
    BY <1>1, <1>2, <1>3 DEF Next

\* Completion links exist only for a certified envelope.
AccessIsEarned == access # {} => env.cert

LEMMA NextAccess == IInv /\ AccessIsEarned /\ [Next]_vars => AccessIsEarned'
  <1> SUFFICES ASSUME IInv, AccessIsEarned, [Next]_vars PROVE AccessIsEarned'
    OBVIOUS
  <1>1. ASSUME NEW r \in Requests, Commit(r) PROVE AccessIsEarned'
    <2>1. CASE req[r].kind = "sign" /\ req[r].work.cert
      BY <1>1, <2>1 DEF Commit, AccessIsEarned
    <2>2. CASE ~(req[r].kind = "sign" /\ req[r].work.cert)
      BY <1>1, <2>2, CompletedIsLeftAlone DEF Commit, AccessIsEarned
    <2> QED
      BY <2>1, <2>2
  <1>2. (\A r \in Requests : ~Commit(r)) => rows' = rows
    BY OnlyCommitWrites
  <1>3. rows' = rows => AccessIsEarned'
    BY DEF rows, AccessIsEarned
  <1> QED
    BY <1>1, <1>2, <1>3

\* The envelope is completed and certified exactly when everybody has signed, and
\* nobody is given a completion link before.
THEOREM CompletionIsSound == Spec => []CompletionIsEarned
  <1>1. Init => AccessIsEarned
    BY DEF Init, AccessIsEarned
  <1>2. IInv /\ AccessIsEarned => CompletionIsEarned
    BY DEF IInv, EnvelopeOK, AccessIsEarned, CompletionIsEarned
  <1> QED
    BY <1>1, <1>2, NextAccess, Invariance, PTL DEF Spec
-----------------------------------------------------------------------------
(* The service implements the signing contract. *)

LEMMA SameMarks ==
    ASSUME NEW e \in Envelopes, WellMarked(e)
    PROVE  e.doc = [d \in Docs |-> {s \in Signed(e) : d \in Assigned[s]}]
  BY DEF Envelopes, WellMarked

LEMMA ContractInit == Init => Contract!Init
  <1> SUFFICES ASSUME Init PROVE Contract!Init
    OBVIOUS
  <1>1. /\ Signed(env) = {}
        /\ env.cert = FALSE
        /\ env \in Envelopes /\ WellMarked(env)
    BY BlankType DEF Init, EnvelopeStatus
  <1>2. env.doc = [d \in Docs |-> {s \in Signed(env) : d \in Assigned[s]}]
    BY <1>1, SameMarks
  <1> QED
    BY <1>1, <1>2 DEF Contract!Init, Contract!Marked

\* A commit that carries a signature is a Sign of the contract, any other step
\* leaves what the contract sees unchanged.
LEMMA CommitSigns ==
    ASSUME IInv, NEW r \in Requests, Commit(r)
    PROVE  Contract!Next \/ UNCHANGED Contract!vars
  <1> DEFINE t == req[r]
  <1>1. /\ t \in Transactions /\ t.pc \in {"commit", "invite"}
        /\ HolderOK(t, env)
        /\ env' = t.work
        /\ env \in Envelopes /\ EnvelopeOK(env)
    BY DEF Commit, IInv, TypeOK, Holding
  <1>2. env' \in Envelopes
    BY <1>1 DEF Transactions
  <1>3. /\ Signed(env)' = IF Signs(t) THEN Signed(env) \union {t.who} ELSE Signed(env)
        /\ env'.cert <=> Signed(env)' = Signers
        /\ env.cert <=> Signed(env) = Signers
    BY <1>1 DEF HolderOK, EnvelopeOK, Signed
  <1>4. /\ env.doc = [d \in Docs |-> {s \in Signed(env) : d \in Assigned[s]}]
        /\ env'.doc = [d \in Docs |-> {s \in Signed(env)' : d \in Assigned[s]}]
    <2>1. WellMarked(env) /\ WellMarked(env') /\ Signed(env)' = Signed(env')
      BY <1>1 DEF HolderOK, EnvelopeOK, Signed
    <2> QED
      BY <1>1, <1>2, <2>1, SameMarks
  <1>5. env.cert \in BOOLEAN /\ env'.cert \in BOOLEAN
    BY <1>1, <1>2 DEF Envelopes
  <1>6. CASE Signs(t)
    <2>1. /\ t.who \in Signers
          /\ t.who \notin Signed(env)
          /\ Sequential => \A s \in Signers : Order[s] < Order[t.who] => s \in Signed(env)
      BY <1>1, <1>6 DEF HolderOK, Signs
    <2>2. ~env.cert
      BY <1>3, <2>1
    <2>3. env'.doc = [d \in Docs |-> IF d \in Assigned[t.who] THEN env.doc[d] \union {t.who}
                                                             ELSE env.doc[d]]
      BY <1>3, <1>4, <1>6
    <2>4. env'.cert = (Signed(env)' = Signers)
      BY <1>3, <1>5
    <2>5. Contract!Sign(t.who)
      BY <1>3, <1>6, <2>1, <2>2, <2>3, <2>4 DEF Contract!Sign, Contract!InTurn
    <2> QED
      BY <2>1, <2>5 DEF Contract!Next
  <1>7. CASE ~Signs(t)
    <2>1. Signed(env)' = Signed(env) /\ env'.doc = env.doc
      BY <1>3, <1>4, <1>7
    <2>2. env'.cert = env.cert
      BY <1>3, <1>5, <2>1
    <2> QED
      BY <2>1, <2>2 DEF Contract!vars
  <1> QED
    BY <1>6, <1>7

LEMMA StepImplements == IInv /\ [Next]_vars => [Contract!Next]_(Contract!vars)
  <1> SUFFICES ASSUME IInv, [Next]_vars
               PROVE  Contract!Next \/ UNCHANGED Contract!vars
    OBVIOUS
  <1>1. ASSUME NEW r \in Requests, Commit(r)
        PROVE  Contract!Next \/ UNCHANGED Contract!vars
    BY <1>1, CommitSigns
  <1>2. (\A r \in Requests : ~Commit(r)) => rows' = rows
    BY OnlyCommitWrites
  <1>3. rows' = rows => UNCHANGED Contract!vars
    BY DEF Contract!vars, Signed, rows
  <1> QED
    BY <1>1, <1>2, <1>3

\* ESignature implements SigningContract: every behaviour of the service, with
\* its locks, links, mails and roll-backs hidden, is one the contract allows.
THEOREM ContractIsKept == Spec => ContractKept
  BY ContractInit, StepImplements, Invariance, PTL DEF Spec, ContractKept, Contract!Spec
=============================================================================
