----------------------------- MODULE ESignature ------------------------------
(***************************************************************************)
(* The life of one e-signature envelope in ReDOCX, as the requests of      *)
(* backend/routes/route_v1.py drive backend/src/esignature_service.py.     *)
(*                                                                         *)
(* Every request is one PostgreSQL transaction (get_db).  A request on a   *)
(* signing link locks the row of its token, then the row of the envelope,  *)
(* reads both again under the lock, changes a working copy, and writes the *)
(* copy back when it commits.  Emails leave in the middle of the           *)
(* transaction and stay sent when it rolls back.  Any step may fail, and   *)
(* then everything but the emails is undone.                               *)
(*                                                                         *)
(* Abstracted: a document revision is the set of signers whose fields it   *)
(* shows (revisions are files under fresh names, never overwritten);       *)
(* hashes, previews, certificates' contents, audit text and addresses are  *)
(* left out.  Not reachable from the routes, and left out: voiding an      *)
(* envelope, sending an existing one again, declining.                     *)
(***************************************************************************)
EXTENDS Naturals, FiniteSets

CONSTANTS Signers, Docs, Order, Assigned, Sequential, SelfSigner,
          Requests,     \* the requests that may be in progress at once
          Nobody,       \* no request (a free lock)
          MaxFaults     \* bound: the roll-backs a behaviour may contain

ASSUME SignersAssumption == Signers # {} /\ IsFiniteSet(Signers)
ASSUME OrderAssumption == Order \in [Signers -> Nat \ {0}]
ASSUME AssignedAssumption ==
    Assigned \in [Signers -> (SUBSET Docs) \ {{}}]  \* fields.py 171-186
ASSUME RoutingAssumption ==                         \* schema.py 1745-1749
    /\ Sequential \in BOOLEAN
    /\ ~Sequential => \A s \in Signers : Order[s] = 1
ASSUME SelfSignerAssumption ==                      \* fields.py 192-206
    SelfSigner \in Signers => Order[SelfSigner] = 1
ASSUME NobodyAssumption == Nobody \notin Requests \union Signers
ASSUME MaxFaultsAssumption == MaxFaults \in Nat

VARIABLES
    env,        \* the committed row of esignature_envelopes
    token,      \* the committed signing link of each signer
    access,     \* the signers with a committed completion link
    expired,    \* expires_at has passed, for the envelope and its links
    envLock,    \* which request holds the envelope row
    tokenLock,  \* which request holds each signer's token row
    req,        \* the transaction each request is in
    mailed,     \* the signers whose invitation a mail provider accepted
    faults      \* the roll-backs so far

rows  == <<env, token, access>>
locks == <<envLock, tokenLock>>
vars  == <<rows, expired, locks, req, mailed, faults>>
-----------------------------------------------------------------------------
RecipientStatus == {"pending", "sent", "viewed", "signed"}
EnvelopeStatus  == {"absent", "draft", "sent", "viewed", "partially_signed", "completed"}
TokenStatus     == {"none", "active", "used"}
Kinds           == {"draft", "send", "view", "sign"}
Steps           == {"idle", "token", "envelope", "apply", "invite", "complete", "commit"}

Envelopes == [status : EnvelopeStatus,
              rstat  : [Signers -> RecipientStatus],
              doc    : [Docs -> SUBSET Signers],
              cert   : BOOLEAN]

\* A transaction: the step it is at, what it was asked to do and for which
\* signer, its copy of the envelope, the recipients it has still to invite and
\* those it has inserted links for.
Transactions == [pc     : Steps,
                 kind   : Kinds,
                 who    : Signers \union {Nobody},
                 work   : Envelopes,
                 todo   : SUBSET Signers,
                 issued : SUBSET Signers]

\* The steps at which a request holds the envelope row.
Holding == {"apply", "invite", "complete", "commit"}

TypeOK ==
    /\ env \in Envelopes
    /\ token \in [Signers -> TokenStatus]
    /\ access \in SUBSET Signers
    /\ expired \in BOOLEAN
    /\ envLock \in Requests \union {Nobody}
    /\ tokenLock \in [Signers -> Requests \union {Nobody}]
    /\ req \in [Requests -> Transactions]
    /\ mailed \in SUBSET Signers
    /\ faults \in 0 .. MaxFaults
-----------------------------------------------------------------------------
(* The transitions of an envelope, as functions from one to the next. *)

Signed(e) == {s \in Signers : e.rstat[s] = "signed"}

Blank(status) == [status |-> status,
                  rstat  |-> [s \in Signers |-> "pending"],
                  doc    |-> [d \in Docs |-> {}],
                  cert   |-> FALSE]

Idle == [pc |-> "idle", kind |-> "view", who |-> Nobody,
         work |-> Blank("absent"), todo |-> {}, issued |-> {}]

Lowest(S) == {s \in S : \A t \in S : Order[s] <= Order[t]}

NextRequiredSigners(e) == Lowest(Signers \ Signed(e))

MarkViewed(e, s) ==
    [e EXCEPT !.status = IF @ = "sent" THEN "viewed" ELSE @,
              !.rstat[s] = IF @ \in {"pending", "sent"} THEN "viewed" ELSE @]

\* Bug: the status is derived from the recipients before this one is marked.
MarkSigned_StaleStatus(e, s) ==
    [e EXCEPT !.status = IF Signed(e) = Signers THEN "completed" ELSE "partially_signed",
              !.rstat[s] = "signed",
              !.doc = [d \in Docs |-> IF d \in Assigned[s] THEN @[d] \union {s} ELSE @[d]]]

MarkSigned(e, s) ==
    [e EXCEPT !.status = IF Signed(e) \union {s} = Signers THEN "completed"
                                                           ELSE "partially_signed",
              !.rstat[s] = "signed",
              !.doc = [d \in Docs |-> IF d \in Assigned[s] THEN @[d] \union {s} ELSE @[d]]]

OutForSignature(e) == IF Signed(e) # {} THEN "partially_signed" ELSE "sent"

MarkSent(e) == [e EXCEPT !.status = OutForSignature(e)]

\* Bug: the recipient gets a status that none of the other steps knows.
Invited_UnknownStatus(e, s) == [e EXCEPT !.rstat[s] = "invited", !.status = OutForSignature(e)]

Invited(e, s) == [e EXCEPT !.rstat[s] = "sent", !.status = OutForSignature(e)]

Certified(e) == [e EXCEPT !.cert = TRUE]

\* Bug: only the recipients of the first signing order are ever invited.
ToInvite_FirstOrder(e) ==
    IF Sequential THEN {s \in Lowest(Signers) : e.rstat[s] = "pending"}
                  ELSE {s \in Signers : e.rstat[s] = "pending"}

\* The recipients _send_signing_invitations writes to: those still pending,
\* under sequential routing the lowest signing order among them.
ToInvite(e) ==
    LET pending == {s \in Signers : e.rstat[s] = "pending"}
    IN  IF Sequential THEN Lowest(pending) ELSE pending

\* Bug: turns are not enforced when the link is used.
CanAct_AnyTurn(e, s) ==
    /\ e.status # "completed"
    /\ ~expired
    /\ e.rstat[s] # "signed"

CanAct(e, s) ==
    /\ e.status # "completed"
    /\ ~expired
    /\ e.rstat[s] # "signed"
    /\ Sequential => s \in NextRequiredSigners(e)
-----------------------------------------------------------------------------
Init ==
    /\ env = Blank("absent")
    /\ token = [s \in Signers |-> "none"]
    /\ access = {}
    /\ expired = FALSE
    /\ envLock = Nobody
    /\ tokenLock = [s \in Signers |-> Nobody]
    /\ req = [r \in Requests |-> Idle]
    /\ mailed = {}
    /\ faults = 0

\* POST /e-signature: the owner creates the envelope, as a draft or to send it,
\* with or without a signature of the owner's own.  The inserted row belongs to
\* the transaction until it commits.
Create(r, k, ownSignature) ==
    /\ req[r].pc = "idle"
    /\ env.status = "absent"
    /\ envLock = Nobody
    /\ ownSignature => SelfSigner \in Signers
    /\ k = "send" => Signers # {SelfSigner}
    /\ envLock' = r
    /\ req' = [req EXCEPT ![r] =
                 [Idle EXCEPT !.pc = "apply", !.kind = k, !.work = Blank("draft"),
                              !.who = IF ownSignature THEN SelfSigner ELSE Nobody]]
    /\ UNCHANGED <<rows, expired, tokenLock, mailed, faults>>

\* Somebody presents a signing link of signer s, to see the documents or to sign.
Submit(r, k, s) ==
    /\ req[r].pc = "idle"
    /\ env.status # "absent"
    /\ req' = [req EXCEPT ![r] = [Idle EXCEPT !.pc = "token", !.kind = k, !.who = s]]
    /\ UNCHANGED <<rows, expired, locks, mailed, faults>>

\* The transaction ends: its locks are free again and nothing of it is left.
End(r) ==
    /\ req' = [req EXCEPT ![r] = Idle]
    /\ envLock' = IF envLock = r THEN Nobody ELSE envLock
    /\ tokenLock' = [s \in Signers |-> IF tokenLock[s] = r THEN Nobody ELSE tokenLock[s]]

LinkIsValid(s) == token[s] = "active" /\ ~expired

\* SELECT ... FROM esignature_tokens FOR UPDATE, then the checks of the token.
LockToken(r) ==
    LET s == req[r].who IN
    /\ req[r].pc = "token"
    /\ tokenLock[s] = Nobody
    /\ LinkIsValid(s)
    /\ tokenLock' = [tokenLock EXCEPT ![s] = r]
    /\ req' = [req EXCEPT ![r].pc = "envelope"]
    /\ UNCHANGED <<rows, expired, envLock, mailed, faults>>

\* Bug: the request waits for the link to become valid.
RejectLink_Waits(r) ==
    /\ req[r].pc = "token"
    /\ ~LinkIsValid(req[r].who)
    /\ UNCHANGED vars

RejectLink(r) ==
    /\ req[r].pc = "token"
    /\ tokenLock[req[r].who] = Nobody
    /\ ~LinkIsValid(req[r].who)
    /\ End(r)
    /\ UNCHANGED <<rows, expired, mailed, faults>>

\* Bug: get instead of get_for_update, the envelope row is read but not locked.
LockEnvelope_Unlocked(r) ==
    /\ req[r].pc = "envelope"
    /\ CanAct(env, req[r].who)
    /\ req' = [req EXCEPT ![r].pc = "apply", ![r].work = env]
    /\ UNCHANGED <<rows, expired, locks, mailed, faults>>

\* get_for_update: the row is read once it is locked.
LockEnvelope(r) ==
    /\ req[r].pc = "envelope"
    /\ envLock = Nobody
    /\ CanAct(env, req[r].who)
    /\ envLock' = r
    /\ req' = [req EXCEPT ![r].pc = "apply", ![r].work = env]
    /\ UNCHANGED <<rows, expired, tokenLock, mailed, faults>>

RejectSigner(r) ==
    /\ req[r].pc = "envelope"
    /\ envLock = Nobody
    /\ ~CanAct(env, req[r].who)
    /\ End(r)
    /\ UNCHANGED <<rows, expired, mailed, faults>>

\* GET /e-signature/recipient: the first visit of a signer is recorded.
ApplyView(r) ==
    /\ req[r].pc = "apply"
    /\ req[r].kind = "view"
    /\ req' = [req EXCEPT ![r].pc = "commit",
                          ![r].work = IF @.rstat[req[r].who] \in {"pending", "sent"}
                                      THEN MarkViewed(@, req[r].who) ELSE @]
    /\ UNCHANGED <<rows, expired, locks, mailed, faults>>

SignerStep(e, s) == MarkSigned(MarkViewed(e, s), s)

\* The signer's fields go into every document that has some, the signer is
\* marked signed, and whoever comes next is to be invited; after the last
\* signature the envelope is to be certified instead.
ApplySign(r) ==
    LET e == SignerStep(req[r].work, req[r].who)
        last == e.status = "completed"
    IN  /\ req[r].pc = "apply"
        /\ req[r].kind = "sign"
        /\ req' = [req EXCEPT ![r].work = e,
                              ![r].pc   = IF last THEN "complete" ELSE "invite",
                              ![r].todo = IF last THEN {} ELSE ToInvite(e)]
        /\ UNCHANGED <<rows, expired, locks, mailed, faults>>

\* What creating leaves of the envelope: the owner's own signature, if there is
\* one, is applied without asking whose turn it is.
Created(t) ==
    LET e == IF t.who = Nobody THEN t.work ELSE SignerStep(t.work, t.who)
    IN  IF t.kind = "send" THEN MarkSent(e) ELSE e

ApplyCreate(r) ==
    LET e == Created(req[r])
    IN  /\ req[r].pc = "apply"
        /\ req[r].kind \in {"draft", "send"}
        /\ req' = [req EXCEPT ![r] =
                     [@ EXCEPT !.work = e,
                               !.pc   = CASE e.status = "completed" -> "complete"
                                          [] req[r].kind = "send" -> "invite"
                                          [] OTHER -> "commit",
                               !.todo = IF req[r].kind = "send" THEN ToInvite(e) ELSE {}]]
        /\ UNCHANGED <<rows, expired, locks, mailed, faults>>

\* Bug: a mail the provider refuses is logged, as for completion mails, and
\* the recipient counts as invited.
Invite_IgnoreRefusal(r) ==
    \E s \in req[r].todo :
        /\ req[r].pc = "invite"
        /\ ~expired
        /\ mailed' \in {mailed, mailed \union {s}}
        /\ req' = [req EXCEPT ![r].todo = @ \ {s}, ![r].issued = @ \union {s},
                              ![r].work = Invited(@, s)]
        /\ UNCHANGED <<rows, expired, locks, faults>>

\* One pass of the loop of _send_signing_invitations: an earlier link of the
\* recipient is revoked (its row is locked by the update), a new one is
\* inserted, and the provider accepts the mail.
Invite(r) ==
    \E s \in req[r].todo :
        /\ req[r].pc = "invite"
        /\ ~expired
        /\ token[s] = "active" => tokenLock[s] \in {Nobody, r}
        /\ tokenLock' = IF token[s] = "active" THEN [tokenLock EXCEPT ![s] = r] ELSE tokenLock
        /\ mailed' = mailed \union {s}
        /\ req' = [req EXCEPT ![r].todo = @ \ {s}, ![r].issued = @ \union {s},
                              ![r].work = Invited(@, s)]
        /\ UNCHANGED <<rows, expired, envLock, faults>>

\* Every document is sealed and the certificate made.
Certify(r) ==
    /\ req[r].pc = "complete"
    /\ req' = [req EXCEPT ![r].pc = "commit", ![r].work = Certified(@)]
    /\ UNCHANGED <<rows, expired, locks, mailed, faults>>

\* Bug: the signing link is not marked used.
Commit_LinkStaysActive(r) ==
    /\ req[r].pc = "commit" \/ (req[r].pc = "invite" /\ req[r].todo = {})
    /\ env' = req[r].work
    /\ token' = [s \in Signers |-> IF s \in req[r].issued THEN "active" ELSE token[s]]
    /\ access' = IF req[r].kind = "sign" /\ req[r].work.cert THEN Signers ELSE access
    /\ End(r)
    /\ UNCHANGED <<expired, mailed, faults>>

\* The working copy, the new links, the completion links and the use of the
\* signing link are committed together.  (Completion mails, whose failure is
\* only logged, leave no trace here; a self-signed envelope sends none.)
Commit(r) ==
    /\ req[r].pc = "commit" \/ (req[r].pc = "invite" /\ req[r].todo = {})
    /\ req[r].kind = "sign" => token[req[r].who] # "used"
    /\ env' = req[r].work
    /\ token' = [s \in Signers |-> IF s \in req[r].issued THEN "active"
                                   ELSE IF req[r].kind = "sign" /\ s = req[r].who THEN "used"
                                   ELSE token[s]]
    /\ access' = IF req[r].kind = "sign" /\ req[r].work.cert THEN Signers ELSE access
    /\ End(r)
    /\ UNCHANGED <<expired, mailed, faults>>

\* A step fails (a PDF cannot be written, the provider refuses a mail, the
\* database or the process stops): the exception leaves get_db and the
\* transaction rolls back, but mails that were accepted stay sent.
Rollback(r) ==
    /\ req[r].pc # "idle"
    /\ faults < MaxFaults
    /\ faults' = faults + 1
    /\ End(r)
    /\ UNCHANGED <<rows, expired, mailed>>

\* A link cannot be made for an envelope that expired since it was locked.
RefuseExpiredInvite(r) ==
    /\ req[r].pc = "invite"
    /\ req[r].todo # {}
    /\ expired
    /\ End(r)
    /\ UNCHANGED <<rows, expired, mailed, faults>>

Expire ==
    /\ env.status # "absent"
    /\ ~expired
    /\ expired' = TRUE
    /\ UNCHANGED <<rows, locks, req, mailed, faults>>

Step(r) == \/ RejectLink(r) \/ RejectSigner(r)
           \/ ApplyView(r) \/ ApplySign(r) \/ ApplyCreate(r)
           \/ Invite(r) \/ RefuseExpiredInvite(r)
           \/ Certify(r) \/ Commit(r)

Next ==
    \/ \E r \in Requests :
          \/ \E k \in {"draft", "send"}, own \in BOOLEAN : Create(r, k, own)
          \/ \E k \in {"view", "sign"}, s \in Signers : Submit(r, k, s)
          \/ LockToken(r)
          \/ LockEnvelope(r)
          \/ Step(r)
          \/ Rollback(r)
    \/ Expire

Spec == Init /\ [][Next]_vars

\* PostgreSQL queues those who wait for a row, so a request that can get a lock
\* again and again gets it; a request that runs takes its next step; and a
\* signer who has not been able to sign tries again.
Fairness ==
    /\ \A r \in Requests : /\ WF_vars(Step(r))
                           /\ SF_vars(LockToken(r))
                           /\ SF_vars(LockEnvelope(r))
    /\ \A s \in Signers : SF_vars(\E r \in Requests : Submit(r, "sign", s))

FairSpec == Spec /\ Fairness
-----------------------------------------------------------------------------
\* Safety: every committed document shows the marks of exactly those signers
\* who are recorded as signed and have fields on it, and a signer whose link is
\* used up is among them.  Two signers who start from the same revision would
\* lose one signature (esignature_persistence.py 274-277).
WellMarked(e) == \A d \in Docs : e.doc[d] = {s \in Signed(e) : d \in Assigned[s]}

NoSignatureLost ==
    /\ WellMarked(env)
    /\ \A s \in Signers : token[s] = "used" => s \in Signed(env)

\* Safety: a recipient has a live link from the invitation until the signature,
\* which uses it up; only the owner, signing when creating, needs none.
LinksMatchRecipients ==
    \A s \in Signers :
        /\ token[s] = "active" <=> env.rstat[s] \in {"sent", "viewed"}
        /\ env.rstat[s] = "signed" => token[s] = "used" \/ s = SelfSigner

\* Safety: under sequential routing nobody has signed before everybody of a
\* lower signing order has.
SigningOrderRespected ==
    Sequential => \A s, t \in Signers :
        Order[t] < Order[s] /\ env.rstat[s] = "signed" => env.rstat[t] = "signed"

\* Safety: once the envelope is out for signature, everybody whose turn it is
\* holds a live link: the envelope cannot be stuck for want of an invitation.
NextSignersHaveLinks ==
    (\E s \in Signers : token[s] # "none") =>
        \A s \in NextRequiredSigners(env) : token[s] = "active"

\* Safety: the envelope is completed and certified exactly when everybody has
\* signed, and completion links exist only then.
CompletionIsEarned ==
    /\ env.cert <=> env.status = "completed"
    /\ env.cert <=> Signed(env) = Signers
    /\ access # {} => env.cert

\* Safety: no link is committed unless the mail that carries it was accepted.
LinksWereMailed == \A s \in Signers : token[s] # "none" => s \in mailed

\* Safety: links are in step with the recipients, whose turn it is and the mails
\* that left, whatever requests roll back.
LinksAreSound == LinksMatchRecipients /\ NextSignersHaveLinks /\ LinksWereMailed

\* What the sender is told of sequential routing (Frontend/lib/translations.js
\* 2865): "Each person receives the document after the previous signer finishes."
\* The code does not ensure it when two recipients share a signing order.
InvitedAfterPrevious ==
    Sequential => \A s, t \in Signers :
        Order[t] < Order[s] /\ env.rstat[s] # "pending" => env.rstat[t] = "signed"

\* Liveness: a request that began ends and lets go of its rows.
RequestsEnd == \A r \in Requests : (req[r].pc # "idle") ~> (req[r].pc = "idle")

\* Liveness: an envelope that is out for signature is completed if the signers
\* keep trying, unless it expires first.
EnvelopeSettles == (\E s \in Signers : token[s] # "none") ~> (env.cert \/ expired)

\* Liveness: requests do not wait for each other's rows for ever, and signing ends.
SigningSettles == RequestsEnd /\ EnvelopeSettles

\* Refinement: the service keeps the signing contract.
Contract == INSTANCE SigningContract
                WITH signed <- Signed(env), paper <- env.doc, closed <- env.cert

ContractKept == Contract!Spec
=============================================================================
