------------------------- MODULE ESignatureLinkProofs -------------------------
(***************************************************************************)
(* Proofs that the signing links of an envelope stay in step with its      *)
(* recipients, for any signers, documents, routing and number of           *)
(* concurrent requests.                                                    *)
(*                                                                         *)
(* They rest on ESignatureProofs!Invariance and on a second invariant,     *)
(* which says how the working copy of the request that holds the envelope  *)
(* differs from the committed row: in the recipient it acts for, and in    *)
(* those it has just invited, who had no link.  A request that got past    *)
(* the row of its link still has a link to act on, since it keeps that row.*)
(*                                                                         *)
(* The last part proves in which order recipients are invited, and that    *)
(* what InvitedAfterPrevious says, which fails for recipients who share a  *)
(* signing order, holds when nobody does.                                  *)
(***************************************************************************)
EXTENDS ESignatureProofs

-----------------------------------------------------------------------------
(* What the envelope transitions do to the status of each recipient. *)

LEMMA MarkViewedRecipients ==
    ASSUME NEW e \in Envelopes, NEW s \in Signers
    PROVE  /\ \A t \in Signers \ {s} : MarkViewed(e, s).rstat[t] = e.rstat[t]
           /\ MarkViewed(e, s).rstat[s] = IF e.rstat[s] \in {"pending", "sent"}
                                          THEN "viewed" ELSE e.rstat[s]
  BY DEF MarkViewed, Envelopes

LEMMA SignerStepRecipients ==
    ASSUME NEW e \in Envelopes, NEW s \in Signers
    PROVE  /\ \A t \in Signers \ {s} : SignerStep(e, s).rstat[t] = e.rstat[t]
           /\ SignerStep(e, s).rstat[s] = "signed"
  <1> DEFINE v == MarkViewed(e, s)
  <1>1. v \in Envelopes /\ \A t \in Signers \ {s} : v.rstat[t] = e.rstat[t]
    BY MarkViewedFacts, MarkViewedRecipients
  <1>2. SignerStep(e, s) = MarkSigned(v, s)
    BY DEF SignerStep
  <1> HIDE DEF v
  <1> QED
    BY <1>1, <1>2 DEF MarkSigned, Envelopes

LEMMA InvitedRecipients ==
    ASSUME NEW e \in Envelopes, NEW s \in Signers
    PROVE  /\ \A t \in Signers \ {s} : Invited(e, s).rstat[t] = e.rstat[t]
           /\ Invited(e, s).rstat[s] = "sent"
  BY DEF Invited, Envelopes

\* Whoever's turn it is and has not been invited is among those to invite: under
\* sequential routing the lowest order of those who have not signed is also the
\* lowest of those still pending.
LEMMA ToInviteCoversTheTurn ==
    ASSUME NEW e \in Envelopes, NEW s \in NextRequiredSigners(e), e.rstat[s] = "pending"
    PROVE  s \in ToInvite(e)
  <1>1. s \in Signers
    BY DEF NextRequiredSigners, Lowest
  <1>2. CASE Sequential
    <2>1. \A t \in Signers : e.rstat[t] = "pending" => t \in Signers \ Signed(e)
      BY DEF Signed
    <2>2. \A t \in Signers : e.rstat[t] = "pending" => Order[s] <= Order[t]
      BY <2>1 DEF NextRequiredSigners, Lowest
    <2> QED
      BY <1>1, <1>2, <2>2 DEF ToInvite, Lowest
  <1>3. CASE ~Sequential
    BY <1>1, <1>3 DEF ToInvite
  <1> QED
    BY <1>2, <1>3

\* It is the turn of the same signers in two envelopes with the same signatures.
LEMMA SameTurn ==
    ASSUME NEW e, NEW f, Signed(e) = Signed(f)
    PROVE  NextRequiredSigners(e) = NextRequiredSigners(f)
  BY DEF NextRequiredSigners

\* Nobody's turn is left once everybody has signed; whose turn it is has not signed.
LEMMA TurnsAreUnsigned ==
    ASSUME NEW e
    PROVE  /\ NextRequiredSigners(e) \subseteq Signers \ Signed(e)
           /\ Signed(e) = Signers => NextRequiredSigners(e) = {}
  BY DEF NextRequiredSigners, Lowest
-----------------------------------------------------------------------------
(* The invariant. *)

\* The working copy of a transaction t that holds the row of envelope e.
HolderLinks(t, e) ==
    /\ \A s \in t.issued : t.work.rstat[s] = "sent" /\ e.rstat[s] = "pending"
    /\ \A s \in Signers \ t.issued :
          s # t.who \/ t.pc = "apply" => t.work.rstat[s] = e.rstat[s]
    /\ t.pc # "apply" /\ t.who \in Signers =>
          IF t.kind = "view" THEN t.work.rstat[t.who] \in {"sent", "viewed"}
                             ELSE t.work.rstat[t.who] = "signed"
    /\ t.pc = "apply" \/ t.kind \in {"view", "draft"} => t.issued = {}
    /\ t.pc = "invite" => t.kind \in {"sign", "send"}
    /\ t.pc = "complete" => t.kind # "view"
    /\ t.pc = "commit" => t.kind \in {"view", "draft"} \/ Signed(t.work) = Signers
    /\ t.pc = "invite" => \A s \in NextRequiredSigners(t.work) :
                              s \in t.todo \union t.issued \/ token[s] = "active"
    /\ t.kind \in {"draft", "send"} => e.status = "absent"

\* A transaction on a signing link, past the row of that link.
PastLink(t) == t.pc \in Holding \union {"envelope"} /\ t.kind \in {"view", "sign"}

LinkHeld(r) == token[req[r].who] = "active" /\ tokenLock[req[r].who] = r

BlankUntilCreated ==
    env.status = "absent" => \A s \in Signers : env.rstat[s] = "pending"

\* A transaction inserts links only while it holds the envelope row, each before
\* the commit and after the mail.
IssuedOK(t) == t.issued \subseteq mailed /\ (t.pc \notin Holding => t.issued = {})

LInv ==
    /\ LinksAreSound
    /\ BlankUntilCreated
    /\ \A r \in Requests : IssuedOK(req[r])
    /\ \A r \in Requests : PastLink(req[r]) => LinkHeld(r)
    /\ \A r \in Requests : req[r].pc \in Holding => HolderLinks(req[r], env)

LEMMA InitLinks == Init => LInv
  <1> SUFFICES ASSUME Init PROVE LInv
    OBVIOUS
  <1>1. /\ \A s \in Signers : env.rstat[s] = "pending" /\ token[s] = "none"
        /\ \A r \in Requests : req[r].pc = "idle" /\ req[r].issued = {}
    BY DEF Init, Blank, Idle
  <1>2. LinksAreSound
    BY <1>1 DEF LinksAreSound, LinksMatchRecipients, NextSignersHaveLinks, LinksWereMailed
  <1> QED
    BY <1>1, <1>2 DEF LInv, BlankUntilCreated, IssuedOK, PastLink, Holding

\* A step that leaves the committed rows alone, lets no other request lose a link
\* row and changes only the transaction of r.
LEMMA LinkStep ==
    ASSUME IInv, LInv, NEW r \in Requests, NEW t \in Transactions,
           req' = [req EXCEPT ![r] = t],
           UNCHANGED <<env, token>>,
           mailed \subseteq mailed',
           \A q \in Requests \ {r}, s \in Signers : tokenLock[s] = q => tokenLock'[s] = q,
           t.issued \subseteq mailed', t.pc \notin Holding => t.issued = {},
           PastLink(t) => token[t.who] = "active" /\ tokenLock'[t.who] = r,
           t.pc \in Holding => HolderLinks(t, env)
    PROVE  LInv'
  <1>1. /\ req'[r] = t
        /\ \A q \in Requests \ {r} : req'[q] = req[q]
    BY DEF IInv, TypeOK
  <1>2. LinksAreSound' /\ BlankUntilCreated'
    BY DEF LInv, LinksAreSound, LinksMatchRecipients, NextSignersHaveLinks, LinksWereMailed,
           BlankUntilCreated, NextRequiredSigners, Signed
  <1>3. \A q \in Requests : IssuedOK(req[q])'
    BY <1>1 DEF LInv, IssuedOK
  <1>4. \A q \in Requests : PastLink(req'[q]) => LinkHeld(q)'
    <2> SUFFICES ASSUME NEW q \in Requests \ {r}, PastLink(req[q])
                 PROVE  token'[req[q].who] = "active" /\ tokenLock'[req[q].who] = q
      BY <1>1 DEF LinkHeld
    <2>1. LinkHeld(q)
      BY DEF LInv
    <2>2. req[q].who \in Signers
      BY DEF IInv, TransactionOK, PastLink, Holding
    <2> QED
      BY <2>1, <2>2 DEF LinkHeld
  <1>5. \A q \in Requests : req'[q].pc \in Holding => HolderLinks(req'[q], env)
    BY <1>1 DEF LInv
  <1>6. \A q \in Requests : (req[q].pc \in Holding => HolderLinks(req[q], env))'
    <2> SUFFICES ASSUME NEW q \in Requests, req'[q].pc \in Holding
                 PROVE  HolderLinks(req[q], env)'
      OBVIOUS
    <2>1. HolderLinks(req'[q], env)
      BY <1>5
    <2>2. NextRequiredSigners(req[q].work)' = NextRequiredSigners(req'[q].work)
      BY DEF NextRequiredSigners, Signed
    <2>3. Signed(req[q].work)' = Signed(req'[q].work)
      BY DEF Signed
    <2> QED
      BY <2>1, <2>2, <2>3 DEF HolderLinks
  <1>7. \A q \in Requests : (PastLink(req[q]) => LinkHeld(q))'
    BY <1>4 DEF PastLink
  <1> QED
    BY <1>2, <1>3, <1>6, <1>7 DEF LInv

\* The end of a transaction that committed nothing.
LEMMA EndLinks ==
    ASSUME IInv, LInv, NEW r \in Requests, End(r), UNCHANGED <<env, token, mailed>>
    PROVE  LInv'
  <1>1. /\ Idle \in Transactions
        /\ Idle.pc = "idle" /\ Idle.issued = {}
    BY IdleFacts DEF Idle
  <1>2. \A q \in Requests \ {r}, s \in Signers : tokenLock[s] = q => tokenLock'[s] = q
    BY DEF End
  <1> QED
    BY <1>1, <1>2, LinkStep DEF End, PastLink, Holding
-----------------------------------------------------------------------------
(* One lemma per action. *)

LEMMA CreateLinks ==
    ASSUME IInv, LInv, NEW r \in Requests, NEW k \in {"draft", "send"}, NEW own \in BOOLEAN,
           Create(r, k, own)
    PROVE  LInv'
  <1> DEFINE t == [Idle EXCEPT !.pc = "apply", !.kind = k, !.work = Blank("draft"),
                               !.who = IF own THEN SelfSigner ELSE Nobody]
  <1>1. /\ t \in Transactions
        /\ t.pc = "apply" /\ t.kind = k /\ t.issued = {}
        /\ \A s \in Signers : t.work.rstat[s] = "pending"
    <2>1. own => SelfSigner \in Signers
      BY DEF Create
    <2>2. Blank("draft") \in Envelopes /\ \A s \in Signers : Blank("draft").rstat[s] = "pending"
      BY BlankType DEF EnvelopeStatus, Blank
    <2> QED
      BY <2>1, <2>2 DEF Idle, Transactions, Steps, Kinds
  <1> HIDE DEF t
  <1>2. /\ env.status = "absent"
        /\ req' = [req EXCEPT ![r] = t]
        /\ UNCHANGED <<env, token, tokenLock, mailed>>
    BY DEF Create, rows, t
  <1>3. \A s \in Signers : env.rstat[s] = "pending"
    BY <1>2 DEF LInv, BlankUntilCreated
  <1>4. HolderLinks(t, env)
    BY <1>1, <1>2, <1>3 DEF HolderLinks
  <1> QED
    BY <1>1, <1>2, <1>4, LinkStep DEF PastLink

LEMMA SubmitLinks ==
    ASSUME IInv, LInv, NEW r \in Requests, NEW k \in {"view", "sign"}, NEW s \in Signers,
           Submit(r, k, s)
    PROVE  LInv'
  <1> DEFINE t == [Idle EXCEPT !.pc = "token", !.kind = k, !.who = s]
  <1>1. t \in Transactions /\ t.pc = "token" /\ t.issued = {}
    BY IdleFacts DEF Idle, Transactions, Steps, Kinds
  <1>2. req' = [req EXCEPT ![r] = t] /\ UNCHANGED <<env, token, tokenLock, mailed>>
    BY DEF Submit, rows, locks
  <1> HIDE DEF t
  <1> QED
    BY <1>1, <1>2, LinkStep DEF PastLink, Holding

\* The link is active when its row is locked, and the row keeps it so.
LEMMA LockTokenLinks ==
    ASSUME IInv, LInv, NEW r \in Requests, LockToken(r)
    PROVE  LInv'
  <1> DEFINE t == [req[r] EXCEPT !.pc = "envelope"]
  <1>1. /\ req[r] \in Transactions /\ req[r].pc = "token" /\ TransactionOK(req[r], env)
        /\ req[r].issued = {}
        /\ tokenLock \in [Signers -> Requests \union {Nobody}]
    BY DEF LockToken, IInv, TypeOK, LInv, IssuedOK, Holding
  <1>2. /\ t \in Transactions /\ t.pc = "envelope" /\ t.who = req[r].who
        /\ t.issued = req[r].issued
    BY <1>1 DEF Transactions, Steps
  <1>3. /\ req' = [req EXCEPT ![r] = t]
        /\ UNCHANGED <<env, token, mailed>>
        /\ tokenLock[req[r].who] = Nobody /\ token[req[r].who] = "active"
        /\ tokenLock' = [tokenLock EXCEPT ![req[r].who] = r]
    BY DEF LockToken, LinkIsValid, rows
  <1>4. req[r].who \in Signers
    BY <1>1 DEF TransactionOK
  <1> HIDE DEF t
  <1>5. \A q \in Requests \ {r}, s \in Signers : tokenLock[s] = q => tokenLock'[s] = q
    BY <1>1, <1>3, <1>4, NobodyAssumption
  <1>6. tokenLock'[t.who] = r /\ token[t.who] = "active"
    BY <1>1, <1>2, <1>3, <1>4
  <1> QED
    BY <1>1, <1>2, <1>3, <1>5, <1>6, LinkStep DEF Holding

LEMMA LockEnvelopeLinks ==
    ASSUME IInv, LInv, NEW r \in Requests, LockEnvelope(r)
    PROVE  LInv'
  <1> DEFINE t == [req[r] EXCEPT !.pc = "apply", !.work = env]
  <1>1. /\ req[r] \in Transactions /\ req[r].pc = "envelope" /\ TransactionOK(req[r], env)
        /\ req[r].issued = {}
        /\ env \in Envelopes
        /\ PastLink(req[r]) => LinkHeld(r)
    BY DEF LockEnvelope, IInv, TypeOK, LInv, IssuedOK, Holding
  <1>2. /\ t \in Transactions /\ t.pc = "apply" /\ t.work = env
        /\ t.kind = req[r].kind /\ t.who = req[r].who /\ t.issued = req[r].issued
    BY <1>1 DEF Transactions, Steps
  <1>3. req' = [req EXCEPT ![r] = t] /\ UNCHANGED <<env, token, tokenLock, mailed>>
    BY DEF LockEnvelope, rows
  <1> HIDE DEF t
  <1>4. t.kind \in {"view", "sign"} /\ LinkHeld(r)
    BY <1>1, <1>2 DEF TransactionOK, PastLink
  <1>5. HolderLinks(t, env)
    BY <1>1, <1>2, <1>4 DEF HolderLinks
  <1> QED
    BY <1>1, <1>2, <1>3, <1>4, <1>5, LinkStep DEF LinkHeld

\* A step of the request that holds the envelope row, which takes no link row of
\* another request.
LEMMA HolderLinkStep ==
    ASSUME IInv, LInv, NEW r \in Requests, NEW t \in Transactions,
           req[r].pc \in Holding, t.pc \in Holding,
           t.who = req[r].who, t.kind = req[r].kind,
           req' = [req EXCEPT ![r] = t],
           UNCHANGED <<env, token>>,
           mailed \subseteq mailed',
           \A s \in Signers : tokenLock[s] # Nobody => tokenLock'[s] = tokenLock[s],
           t.issued \subseteq mailed',
           HolderLinks(t, env)
    PROVE  LInv'
  <1>1. \A q \in Requests, s \in Signers : tokenLock[s] = q => tokenLock'[s] = q
    BY NobodyAssumption
  <1>2. PastLink(t) => PastLink(req[r]) /\ req[r].who \in Signers
    BY DEF PastLink, IInv, TransactionOK, Holding
  <1>3. PastLink(t) => token[t.who] = "active" /\ tokenLock'[t.who] = r
    BY <1>1, <1>2 DEF LInv, LinkHeld
  <1> QED
    BY <1>1, <1>3, LinkStep

LEMMA ApplyViewLinks ==
    ASSUME IInv, LInv, NEW r \in Requests, ApplyView(r)
    PROVE  LInv'
  <1> DEFINE e == req[r].work
             v == IF e.rstat[req[r].who] \in {"pending", "sent"}
                  THEN MarkViewed(e, req[r].who) ELSE e
             t == [req[r] EXCEPT !.pc = "commit", !.work = v]
  <1>1. /\ req[r] \in Transactions /\ req[r].pc = "apply" /\ req[r].kind = "view"
        /\ req[r].who \in Signers
        /\ HolderLinks(req[r], env)
        /\ IssuedOK(req[r])
        /\ LinkHeld(r)
    BY DEF ApplyView, IInv, TypeOK, TransactionOK, LInv, PastLink, Holding
  <1>2. e \in Envelopes /\ env \in Envelopes
    BY <1>1 DEF Transactions, IInv, TypeOK
  <1>3. v \in Envelopes /\ \A s \in Signers \ {req[r].who} : v.rstat[s] = e.rstat[s]
    BY <1>1, <1>2, MarkViewedFacts, MarkViewedRecipients
  <1>4. v.rstat[req[r].who] \in {"sent", "viewed"}
    <2>1. env.rstat[req[r].who] \in {"sent", "viewed"}
      BY <1>1 DEF LInv, LinksAreSound, LinksMatchRecipients, LinkHeld
    <2>2. e.rstat[req[r].who] = env.rstat[req[r].who]
      BY <1>1 DEF HolderLinks
    <2> QED
      BY <1>1, <1>2, <2>1, <2>2, MarkViewedRecipients
  <1> HIDE DEF v
  <1>5. /\ t \in Transactions /\ t.pc = "commit" /\ t.work = v
        /\ t.kind = "view" /\ t.who = req[r].who /\ t.issued = req[r].issued
    BY <1>1, <1>3 DEF Transactions, Steps
  <1>6. req' = [req EXCEPT ![r] = t] /\ UNCHANGED <<env, token, tokenLock, mailed>>
    BY DEF ApplyView, v, rows, locks
  <1> HIDE DEF t
  <1>7. HolderLinks(t, env)
    BY <1>1, <1>3, <1>4, <1>5 DEF HolderLinks
  <1> QED
    BY <1>1, <1>5, <1>6, <1>7, HolderLinkStep DEF IssuedOK, Holding

\* After a signature whoever's turn comes is invited now or was invited before.
LEMMA ApplySignLinks ==
    ASSUME IInv, LInv, NEW r \in Requests, ApplySign(r)
    PROVE  LInv'
  <1> DEFINE x == req[r].who
             e == SignerStep(req[r].work, x)
             last == e.status = "completed"
             t == [req[r] EXCEPT !.work = e,
                                 !.pc = IF last THEN "complete" ELSE "invite",
                                 !.todo = IF last THEN {} ELSE ToInvite(e)]
  <1>1. /\ req[r] \in Transactions /\ req[r].pc = "apply" /\ req[r].kind = "sign"
        /\ x \in Signers
        /\ HolderLinks(req[r], env)
        /\ IssuedOK(req[r])
        /\ env \in Envelopes
    BY DEF ApplySign, IInv, TypeOK, TransactionOK, LInv, Holding
  <1>2. req[r].work \in Envelopes /\ req[r].issued = {}
    BY <1>1 DEF Transactions, HolderLinks
  <1> HIDE DEF x
  <1>3. /\ e \in Envelopes
        /\ \A s \in Signers \ {x} : e.rstat[s] = env.rstat[s]
        /\ e.rstat[x] = "signed"
    <2>1. \A s \in Signers : req[r].work.rstat[s] = env.rstat[s]
      BY <1>1, <1>2 DEF HolderLinks
    <2>2. e \in Envelopes
      BY <1>1, <1>2, SignerStepFacts
    <2>3. /\ \A s \in Signers \ {x} : e.rstat[s] = req[r].work.rstat[s]
          /\ e.rstat[x] = "signed"
      BY <1>1, <1>2, SignerStepRecipients
    <2> QED
      BY <2>1, <2>2, <2>3
  <1> HIDE DEF e
  <1>4. ToInvite(e) \subseteq Signers
    BY <1>3, ToInvitePending
  <1>5. /\ t \in Transactions /\ t.pc = (IF last THEN "complete" ELSE "invite") /\ t.work = e
        /\ t.kind = "sign" /\ t.who = x /\ t.issued = {}
        /\ t.todo = IF last THEN {} ELSE ToInvite(e)
    BY <1>1, <1>2, <1>3, <1>4 DEF Transactions, Steps, x
  <1>6. req' = [req EXCEPT ![r] = t] /\ UNCHANGED <<env, token, tokenLock, mailed>>
    BY DEF ApplySign, e, x, rows, locks
  <1>7. ASSUME ~last, NEW s \in NextRequiredSigners(e)
        PROVE  s \in ToInvite(e) \/ token[s] = "active"
    <2>1. s \in Signers /\ e.rstat[s] # "signed"
      BY <1>7, TurnsAreUnsigned DEF Signed
    <2>2. CASE e.rstat[s] = "pending"
      BY <1>3, <1>7, <2>2, ToInviteCoversTheTurn
    <2>3. CASE e.rstat[s] # "pending"
      <3>1. env.rstat[s] \in {"sent", "viewed"}
        BY <1>3, <2>1, <2>3 DEF Envelopes, RecipientStatus
      <3> QED
        BY <2>1, <3>1 DEF LInv, LinksAreSound, LinksMatchRecipients
    <2> QED
      BY <2>2, <2>3
  <1> HIDE DEF t, last
  <1>8. HolderLinks(t, env)
    BY <1>1, <1>3, <1>5, <1>7 DEF HolderLinks
  <1> QED
    BY <1>1, <1>5, <1>6, <1>8, HolderLinkStep DEF Holding, x

LEMMA ApplyCreateLinks ==
    ASSUME IInv, LInv, NEW r \in Requests, ApplyCreate(r)
    PROVE  LInv'
  <1> DEFINE w == req[r].work
             x == req[r].who
             e == IF x = Nobody THEN w ELSE SignerStep(w, x)
             n == IF req[r].kind = "send" THEN MarkSent(e) ELSE e
             p == CASE n.status = "completed" -> "complete"
                    [] req[r].kind = "send" -> "invite"
                    [] OTHER -> "commit"
             d == IF req[r].kind = "send" THEN ToInvite(n) ELSE {}
             t == [req[r] EXCEPT !.work = n, !.pc = p, !.todo = d]
  <1>1. /\ req[r] \in Transactions /\ req[r].pc = "apply" /\ req[r].kind \in {"draft", "send"}
        /\ HolderLinks(req[r], env)
        /\ IssuedOK(req[r])
        /\ env.status = "absent"
        /\ Nobody \notin Signers
    BY NobodyAssumption DEF ApplyCreate, IInv, TypeOK, LInv, Holding, HolderLinks
  <1>2. /\ w \in Envelopes
        /\ x \in Signers \union {Nobody}
        /\ req[r].issued = {}
        /\ \A s \in Signers : w.rstat[s] = "pending" /\ env.rstat[s] = "pending"
    BY <1>1 DEF Transactions, HolderLinks, LInv, BlankUntilCreated
  <1> HIDE DEF w, x
  <1>3. /\ e \in Envelopes
        /\ \A s \in Signers \ {x} : e.rstat[s] = "pending"
        /\ x \in Signers => e.rstat[x] = "signed"
    BY <1>1, <1>2, SignerStepFacts, SignerStepRecipients
  <1> HIDE DEF e
  <1>4. /\ n \in Envelopes
        /\ n.rstat = e.rstat
        /\ req[r].kind = "send" => n.status # "completed"
    BY <1>3, MarkSentFacts
  <1> HIDE DEF n
  <1>5. /\ d \subseteq Signers
        /\ p = "invite" => req[r].kind = "send" /\ d = ToInvite(n)
        /\ p = "commit" => req[r].kind = "draft"
        /\ p \in {"complete", "invite", "commit"}
    BY <1>1, <1>4, ToInvitePending
  <1> HIDE DEF p, d
  <1>6. /\ t \in Transactions /\ t.pc = p /\ t.work = n /\ t.todo = d
        /\ t.kind = req[r].kind /\ t.who = x /\ t.issued = {}
    BY <1>1, <1>2, <1>4, <1>5 DEF Transactions, Steps, x
  <1>7. req' = [req EXCEPT ![r] = t] /\ UNCHANGED <<env, token, tokenLock, mailed>>
    <2>1. n = Created(req[r])
      BY DEF n, e, w, x, Created
    <2> QED
      BY <2>1 DEF ApplyCreate, p, d, rows, locks
  <1> HIDE DEF t
  <1>8. \A s \in NextRequiredSigners(n) : n.rstat[s] = "pending"
    BY <1>3, <1>4, TurnsAreUnsigned DEF Signed
  <1>9. HolderLinks(t, env)
    <2>1. p = "invite" => \A s \in NextRequiredSigners(n) : s \in d
      BY <1>4, <1>5, <1>8, ToInviteCoversTheTurn
    <2> QED
      BY <1>1, <1>2, <1>3, <1>4, <1>5, <1>6, <2>1 DEF HolderLinks
  <1> QED
    BY <1>1, <1>5, <1>6, <1>7, <1>9, HolderLinkStep DEF Holding, x

LEMMA CertifyLinks ==
    ASSUME IInv, LInv, NEW r \in Requests, Certify(r)
    PROVE  LInv'
  <1> DEFINE c == Certified(req[r].work)
             t == [req[r] EXCEPT !.pc = "commit", !.work = c]
  <1>1. /\ req[r] \in Transactions /\ req[r].pc = "complete"
        /\ HolderLinks(req[r], env) /\ HolderOK(req[r], env)
        /\ IssuedOK(req[r])
    BY DEF Certify, IInv, TypeOK, LInv, Holding
  <1>2. /\ c \in Envelopes
        /\ Signed(c) = Signers
        /\ c.rstat = req[r].work.rstat
    <2>1. req[r].work \in Envelopes /\ Signed(req[r].work) = Signers
      BY <1>1 DEF Transactions, HolderOK
    <2>2. c.rstat = req[r].work.rstat
      BY <2>1 DEF Certified, Envelopes
    <2> QED
      BY <2>1, <2>2, CertifiedFacts
  <1> HIDE DEF c
  <1>3. /\ t \in Transactions /\ t.pc = "commit" /\ t.work = c /\ t.issued = req[r].issued
        /\ t.kind = req[r].kind /\ t.who = req[r].who
    BY <1>1, <1>2 DEF Transactions, Steps
  <1>4. req' = [req EXCEPT ![r] = t] /\ UNCHANGED <<env, token, tokenLock, mailed>>
    BY DEF Certify, c, rows, locks
  <1> HIDE DEF t
  <1>5. HolderLinks(t, env)
    BY <1>1, <1>2, <1>3 DEF HolderLinks
  <1> QED
    BY <1>1, <1>3, <1>4, <1>5, HolderLinkStep DEF IssuedOK, Holding

\* A recipient who is invited had no link, so that no link row is taken.
LEMMA InviteLinks ==
    ASSUME IInv, LInv, NEW r \in Requests, Invite(r)
    PROVE  LInv'
  <1>1. PICK s \in req[r].todo :
            /\ req[r].pc = "invite"
            /\ tokenLock' = IF token[s] = "active" THEN [tokenLock EXCEPT ![s] = r] ELSE tokenLock
            /\ mailed' = mailed \union {s}
            /\ req' = [req EXCEPT ![r].todo = @ \ {s}, ![r].issued = @ \union {s},
                                  ![r].work = Invited(@, s)]
            /\ UNCHANGED <<rows, expired, envLock, faults>>
    BY DEF Invite
  <1> DEFINE i == Invited(req[r].work, s)
             t == [req[r] EXCEPT !.todo = @ \ {s}, !.issued = @ \union {s}, !.work = i]
  <1>2. /\ req[r] \in Transactions /\ env \in Envelopes
        /\ HolderOK(req[r], env) /\ HolderLinks(req[r], env)
        /\ TransactionOK(req[r], env)
        /\ IssuedOK(req[r])
        /\ req[r].kind \in {"sign", "send"}
    BY <1>1 DEF IInv, TypeOK, LInv, HolderLinks, Holding
  <1>3. s \in Signers /\ req[r].work \in Envelopes /\ req[r].work.rstat[s] = "pending"
    BY <1>2 DEF Transactions, HolderOK
  <1>4. s \notin req[r].issued /\ s # req[r].who /\ env.rstat[s] = "pending"
    BY <1>1, <1>2, <1>3 DEF HolderLinks
  <1>5. tokenLock' = tokenLock
    BY <1>1, <1>3, <1>4 DEF LInv, LinksAreSound, LinksMatchRecipients
  <1>6. /\ i \in Envelopes
        /\ Signed(i) = Signed(req[r].work)
        /\ \A q \in Signers \ {s} : i.rstat[q] = req[r].work.rstat[q]
        /\ i.rstat[s] = "sent"
    BY <1>3, InvitedFacts, InvitedRecipients
  <1> HIDE DEF i
  <1>7. /\ t \in Transactions /\ t.pc = "invite" /\ t.work = i
        /\ t.kind = req[r].kind /\ t.who = req[r].who /\ t.todo = req[r].todo \ {s}
        /\ t.issued = req[r].issued \union {s}
    BY <1>1, <1>2, <1>3, <1>6 DEF Transactions, Steps
  <1>8. /\ req' = [req EXCEPT ![r] = t]
        /\ UNCHANGED <<env, token>>
        /\ mailed' = mailed \union {s}
    BY <1>1 DEF i, rows
  <1> HIDE DEF t
  <1>9. HolderLinks(t, env)
    <2>1. NextRequiredSigners(i) = NextRequiredSigners(req[r].work)
      BY <1>6, SameTurn
    <2>2. \A q \in NextRequiredSigners(t.work) : q \in t.todo \union t.issued \/ token[q] = "active"
      BY <1>1, <1>2, <1>7, <2>1 DEF HolderLinks
    <2>3. \A q \in t.issued : t.work.rstat[q] = "sent" /\ env.rstat[q] = "pending"
      BY <1>2, <1>4, <1>6, <1>7 DEF HolderLinks, Transactions
    <2>4. \A q \in Signers \ t.issued : q # t.who => t.work.rstat[q] = env.rstat[q]
      BY <1>2, <1>6, <1>7 DEF HolderLinks
    <2>5. t.who \in Signers => t.work.rstat[t.who] = "signed"
      BY <1>1, <1>2, <1>4, <1>6, <1>7 DEF HolderLinks
    <2> QED
      BY <1>1, <1>2, <1>7, <2>2, <2>3, <2>4, <2>5 DEF HolderLinks
  <1> QED
    BY <1>1, <1>2, <1>5, <1>7, <1>8, <1>9, HolderLinkStep DEF IssuedOK, Holding

\* What a commit leaves of the recipients and their links.
LEMMA CommitLinks ==
    ASSUME IInv, LInv, NEW r \in Requests, Commit(r)
    PROVE  LInv'
  <1> DEFINE t == req[r]
  <1>1. /\ t \in Transactions /\ t.pc \in {"commit", "invite"} /\ t.pc \in Holding
        /\ t.kind \in Kinds
        /\ TransactionOK(t, env) /\ HolderOK(t, env)
        /\ HolderLinks(t, env) /\ IssuedOK(t)
        /\ t.issued \subseteq mailed
        /\ PastLink(t) => LinkHeld(r)
        /\ env \in Envelopes /\ t.work \in Envelopes
        /\ envLock = r
    BY DEF Commit, IInv, TypeOK, LInv, IssuedOK, LockExclusive, Holding, Transactions
  <1>2. /\ env' = t.work
        /\ token' = [s \in Signers |-> IF s \in t.issued THEN "active"
                                       ELSE IF t.kind = "sign" /\ s = t.who THEN "used"
                                       ELSE token[s]]
        /\ mailed' = mailed
        /\ End(r)
        /\ t.pc = "invite" => t.todo = {}
    BY <1>1 DEF Commit
  <1>3. /\ req'[r] = Idle
        /\ \A q \in Requests \ {r} : req'[q] = req[q] /\ req[q].pc \notin Holding
    BY <1>1, <1>2 DEF End, IInv, TypeOK, LockExclusive
  <1>4. t.kind \in {"view", "sign"} => t.who \in Signers /\ token[t.who] = "active"
                                      /\ tokenLock[t.who] = r
    BY <1>1 DEF TransactionOK, PastLink, LinkHeld
  <1>5. /\ \A s \in t.issued : env'.rstat[s] = "sent" /\ env.rstat[s] = "pending"
        /\ \A s \in Signers \ t.issued : s # t.who => env'.rstat[s] = env.rstat[s]
        /\ t.who \in Signers => IF t.kind = "view" THEN env'.rstat[t.who] \in {"sent", "viewed"}
                                                   ELSE env'.rstat[t.who] = "signed"
    BY <1>1, <1>2 DEF HolderLinks
  <1>6. \A s \in Signers : /\ token[s] \in TokenStatus
                           /\ token[s] = "active" <=> env.rstat[s] \in {"sent", "viewed"}
                           /\ env.rstat[s] = "signed" => token[s] = "used" \/ s = SelfSigner
                           /\ token[s] = "used" => env.rstat[s] = "signed"
                           /\ token[s] # "none" => s \in mailed
    BY DEF IInv, TypeOK, UsedLinksSigned, Signed, LInv, LinksAreSound, LinksMatchRecipients,
           LinksWereMailed
  <1>7. t.kind \in {"draft", "send"} =>
            /\ t.who \in {Nobody, SelfSigner}
            /\ \A s \in Signers : env.rstat[s] = "pending" /\ token[s] = "none"
    <2> SUFFICES ASSUME t.kind \in {"draft", "send"}
                 PROVE  /\ t.who \in {Nobody, SelfSigner}
                        /\ \A s \in Signers : env.rstat[s] = "pending" /\ token[s] = "none"
      OBVIOUS
    <2>1. \A s \in Signers : env.rstat[s] = "pending"
      BY <1>1 DEF HolderLinks, LInv, BlankUntilCreated
    <2>2. \A s \in Signers : token[s] = "none"
      BY <1>6, <2>1 DEF TokenStatus
    <2> QED
      BY <1>1, <2>1, <2>2 DEF TransactionOK
  <1>8. env'.status # "absent"
    BY <1>1, <1>2 DEF HolderOK
  <1>9. \A s \in t.issued : s # t.who
    BY <1>1, <1>5 DEF Transactions, HolderLinks
  <1>10. LinksMatchRecipients'
    <2> SUFFICES ASSUME NEW s \in Signers
                 PROVE  /\ token'[s] = "active" <=> env'.rstat[s] \in {"sent", "viewed"}
                        /\ env'.rstat[s] = "signed" => token'[s] = "used" \/ s = SelfSigner
      BY DEF LinksMatchRecipients
    <2>1. CASE s \in t.issued
      BY <1>2, <1>5, <2>1
    <2>2. CASE s \notin t.issued /\ s # t.who
      BY <1>2, <1>5, <1>6, <2>2
    <2>3. CASE s = t.who /\ t.kind = "sign"
      BY <1>2, <1>5, <1>9, <2>3
    <2>4. CASE s = t.who /\ t.kind = "view"
      BY <1>2, <1>4, <1>5, <1>9, <2>4
    <2>5. CASE s = t.who /\ t.kind \in {"draft", "send"}
      BY <1>2, <1>5, <1>7, <1>9, <2>5, NobodyAssumption
    <2> QED
      BY <1>1, <2>1, <2>2, <2>3, <2>4, <2>5 DEF Kinds
  <1>11. LinksWereMailed'
    <2> SUFFICES ASSUME NEW s \in Signers, token'[s] # "none"
                 PROVE  s \in mailed
      BY <1>2 DEF LinksWereMailed
    <2> QED
      BY <1>1, <1>2, <1>4, <1>6
  <1>12. NextSignersHaveLinks'
    <2>1. CASE t.kind = "view"
      <3>1. t.issued = {} /\ token' = token
        <4>1. t.issued = {}
          BY <1>1, <2>1 DEF HolderLinks
        <4>2. token \in [Signers -> TokenStatus]
          BY DEF IInv, TypeOK
        <4> QED
          BY <1>2, <2>1, <4>1, <4>2
      <3>2. Signed(env') = Signed(env)
        BY <1>1, <1>2, <2>1 DEF HolderOK, Signs
      <3>3. NextRequiredSigners(env') = NextRequiredSigners(env)
        BY <3>2, SameTurn
      <3> QED
        BY <3>1, <3>3 DEF NextSignersHaveLinks, NextRequiredSigners, Signed, LInv, LinksAreSound
    <2>2. CASE t.kind = "draft"
      <3>1. \A s \in Signers : token'[s] = "none"
        BY <1>1, <1>2, <1>7, <2>2 DEF HolderLinks
      <3> QED
        BY <3>1 DEF NextSignersHaveLinks
    <2>3. CASE t.kind \in {"sign", "send"} /\ t.pc = "commit"
      <3>1. Signed(env') = Signers
        BY <1>1, <1>2, <2>3 DEF HolderLinks
      <3>2. NextRequiredSigners(env') = {}
        BY <3>1, TurnsAreUnsigned
      <3> QED
        BY <3>2 DEF NextSignersHaveLinks, NextRequiredSigners, Signed
    <2>4. CASE t.kind \in {"sign", "send"} /\ t.pc = "invite"
      <3>1. \A s \in NextRequiredSigners(env') : s \in t.issued \/ token[s] = "active"
        BY <1>1, <1>2, <2>4 DEF HolderLinks
      <3>2. \A s \in NextRequiredSigners(env') : s \in Signers /\ env'.rstat[s] # "signed"
        BY TurnsAreUnsigned DEF Signed
      <3>3. \A s \in NextRequiredSigners(env') : token'[s] = "active"
        BY <1>2, <1>5, <2>4, <3>1, <3>2
      <3>4. \A s \in NextRequiredSigners(env)' : token'[s] = "active"
        BY <3>3 DEF NextRequiredSigners, Signed
      <3> QED
        BY <3>4 DEF NextSignersHaveLinks
    <2> QED
      BY <1>1, <2>1, <2>2, <2>3, <2>4 DEF Kinds
  <1>13. BlankUntilCreated'
    BY <1>8 DEF BlankUntilCreated
  <1>14. \A q \in Requests : IssuedOK(req[q])'
    BY <1>2, <1>3 DEF LInv, IssuedOK, Idle
  <1>15. \A q \in Requests : (PastLink(req[q]) => LinkHeld(q))'
    <2> SUFFICES ASSUME NEW q \in Requests, PastLink(req'[q])
                 PROVE  token'[req'[q].who] = "active" /\ tokenLock'[req'[q].who] = q
      BY DEF PastLink, LinkHeld
    <2>1. q # r /\ req'[q] = req[q]
      BY <1>3, IdleFacts DEF PastLink, Holding
    <2>2. LinkHeld(q) /\ req[q].who \in Signers
      BY <2>1 DEF LInv, IInv, TransactionOK, PastLink, Holding
    <2>3. tokenLock'[req[q].who] = q
      BY <1>2, <2>1, <2>2, NobodyAssumption DEF End, LinkHeld
    <2>4. token'[req[q].who] = "active"
      BY <1>2, <1>4, <2>1, <2>2 DEF LinkHeld
    <2> QED
      BY <2>1, <2>3, <2>4
  <1>16. \A q \in Requests : (req[q].pc \in Holding => HolderLinks(req[q], env))'
    BY <1>3, IdleFacts DEF Holding
  <1> QED
    BY <1>10, <1>11, <1>12, <1>13, <1>14, <1>15, <1>16 DEF LInv, LinksAreSound

LEMMA NextLinks == IInv /\ LInv /\ [Next]_vars => LInv'
  <1> SUFFICES ASSUME IInv, LInv, [Next]_vars PROVE LInv'
    OBVIOUS
  <1>1. ASSUME NEW r \in Requests, NEW k \in {"draft", "send"}, NEW own \in BOOLEAN,
               Create(r, k, own)
        PROVE  LInv'
    BY <1>1, CreateLinks
  <1>2. ASSUME NEW r \in Requests, NEW k \in {"view", "sign"}, NEW s \in Signers,
               Submit(r, k, s)
        PROVE  LInv'
    BY <1>2, SubmitLinks
  <1>3. ASSUME NEW r \in Requests, LockToken(r) PROVE LInv'
    BY <1>3, LockTokenLinks
  <1>4. ASSUME NEW r \in Requests, LockEnvelope(r) PROVE LInv'
    BY <1>4, LockEnvelopeLinks
  <1>5. ASSUME NEW r \in Requests,
               RejectLink(r) \/ RejectSigner(r) \/ RefuseExpiredInvite(r) \/ Rollback(r)
        PROVE  LInv'
    <2>1. End(r) /\ UNCHANGED <<env, token, mailed>>
      BY <1>5 DEF RejectLink, RejectSigner, RefuseExpiredInvite, Rollback, rows
    <2> QED
      BY <2>1, EndLinks
  <1>6. ASSUME NEW r \in Requests, ApplyView(r) PROVE LInv'
    BY <1>6, ApplyViewLinks
  <1>7. ASSUME NEW r \in Requests, ApplySign(r) PROVE LInv'
    BY <1>7, ApplySignLinks
  <1>8. ASSUME NEW r \in Requests, ApplyCreate(r) PROVE LInv'
    BY <1>8, ApplyCreateLinks
  <1>9. ASSUME NEW r \in Requests, Invite(r) PROVE LInv'
    BY <1>9, InviteLinks
  <1>10. ASSUME NEW r \in Requests, Certify(r) PROVE LInv'
    BY <1>10, CertifyLinks
  <1>11. ASSUME NEW r \in Requests, Commit(r) PROVE LInv'
    BY <1>11, CommitLinks
  <1>12. ASSUME Expire \/ UNCHANGED vars PROVE LInv'
    <2>1. UNCHANGED <<env, token, tokenLock, req, mailed>>
      BY <1>12 DEF Expire, vars, rows, locks
    <2>2. LinksAreSound' /\ BlankUntilCreated'
      BY <2>1 DEF LInv, LinksAreSound, LinksMatchRecipients, NextSignersHaveLinks,
                  LinksWereMailed, BlankUntilCreated, NextRequiredSigners, Signed
    <2>3. \A r \in Requests : IssuedOK(req[r])' /\ (PastLink(req[r]) => LinkHeld(r))'
      BY <2>1 DEF LInv, IssuedOK, PastLink, LinkHeld
    <2>4. \A r \in Requests : (req[r].pc \in Holding => HolderLinks(req[r], env))'
      BY <2>1 DEF LInv, HolderLinks, NextRequiredSigners, Signed
    <2> QED
      BY <2>2, <2>3, <2>4 DEF LInv
  <1> QED
    BY <1>1, <1>2, <1>3, <1>4, <1>5, <1>6, <1>7, <1>8, <1>9, <1>10, <1>11, <1>12
       DEF Next, Step
-----------------------------------------------------------------------------
(* The theorems. *)

\* The links' invariant holds in every behaviour.
THEOREM LinkInvariance == Spec => []LInv
  BY InitLinks, NextLinks, Invariance, PTL DEF Spec

\* Links are in step with the recipients, whose turn it is and the mails that
\* left: a recipient has a live link from the invitation until the signature, an
\* envelope that is out is never stuck for want of an invitation, and no link is
\* committed that was not mailed, whatever requests run at once or roll back.
THEOREM LinksStaySound == Spec => []LinksAreSound
  <1>1. LInv => LinksAreSound
    BY DEF LInv
  <1> QED
    BY <1>1, LinkInvariance, PTL
-----------------------------------------------------------------------------
(* The order of the invitations.  Under sequential routing nobody is ever  *)
(* invited before everybody of a lower signing order has been; if no two   *)
(* recipients share an order, even not before all of those have signed.    *)

DistinctOrders == \A s, t \in Signers : Order[s] = Order[t] => s = t

\* What may be asked of those who come before an invited recipient.
Past(W) == W = {"sent", "viewed", "signed"} \/ (W = {"signed"} /\ DistinctOrders)

Behind(e, s, W) == \A q \in Signers : Order[q] < Order[s] => e.rstat[q] \in W

\* It is so in the committed row, and in a working copy for those whose link is
\* about to be inserted, or was.
Waits(W) == Sequential =>
    /\ \A s \in Signers : env.rstat[s] # "pending" => Behind(env, s, W)
    /\ \A r \in Requests : req[r].pc \in Holding =>
          \A s \in req[r].todo \union req[r].issued : Behind(req[r].work, s, W)

WaitsForInvited == Waits({"sent", "viewed", "signed"})

WaitsForSigned == DistinctOrders => Waits({"signed"})

\* A step of one transaction that leaves the committed row alone.
LEMMA WaitsStep ==
    ASSUME IInv, NEW W, Waits(W), NEW r \in Requests, NEW t,
           req' = [req EXCEPT ![r] = t], env' = env,
           Sequential /\ t.pc \in Holding =>
               \A s \in t.todo \union t.issued : Behind(t.work, s, W)
    PROVE  Waits(W)'
  <1>1. req'[r] = t /\ \A q \in Requests \ {r} : req'[q] = req[q]
    BY DEF IInv, TypeOK
  <1> QED
    BY <1>1 DEF Waits, Behind

\* The transaction of r keeps the statuses of its copy and invites nobody new.
LEMMA WaitsOn ==
    ASSUME IInv, NEW W, Waits(W), NEW r \in Requests, NEW t,
           req' = [req EXCEPT ![r] = t], env' = env,
           t.pc \in Holding =>
               \/ t.todo \union t.issued = {}
               \/ /\ req[r].pc \in Holding
                  /\ t.todo \union t.issued \subseteq req[r].todo \union req[r].issued
                  /\ t.work.rstat = req[r].work.rstat
    PROVE  Waits(W)'
  <1>1. ASSUME Sequential, t.pc \in Holding, NEW s \in t.todo \union t.issued
        PROVE  Behind(t.work, s, W)
    BY <1>1 DEF Waits, Behind
  <1> QED
    BY <1>1, WaitsStep

LEMMA EndWaits ==
    ASSUME IInv, NEW W, Waits(W), NEW r \in Requests, End(r), env' = env
    PROVE  Waits(W)'
  BY IdleFacts, WaitsOn DEF End, Holding

\* Until the envelope row is locked nobody is to be invited; the owner's new
\* envelope and a signer's visit invite nobody.
LEMMA QuietWaits ==
    ASSUME IInv, LInv, NEW W, Waits(W), NEW r \in Requests,
           \/ \E k \in {"draft", "send"}, own \in BOOLEAN : Create(r, k, own)
           \/ \E k \in {"view", "sign"}, s \in Signers : Submit(r, k, s)
           \/ LockToken(r) \/ LockEnvelope(r) \/ ApplyView(r) \/ Certify(r)
    PROVE  Waits(W)'
  <1>1. req[r] \in Transactions /\ TransactionOK(req[r], env) /\ IssuedOK(req[r])
    BY DEF IInv, TypeOK, LInv
  <1>2. CASE \E k \in {"draft", "send"}, own \in BOOLEAN : Create(r, k, own)
    <2>1. PICK k \in {"draft", "send"}, own \in BOOLEAN : Create(r, k, own)
      BY <1>2
    <2> DEFINE t == [Idle EXCEPT !.pc = "apply", !.kind = k, !.work = Blank("draft"),
                                 !.who = IF own THEN SelfSigner ELSE Nobody]
    <2>2. t.todo \union t.issued = {}
      BY DEF Idle
    <2>3. req' = [req EXCEPT ![r] = t] /\ env' = env
      BY <2>1 DEF Create, rows
    <2> HIDE DEF t
    <2> QED
      BY <2>2, <2>3, WaitsOn
  <1>3. CASE \E k \in {"view", "sign"}, s \in Signers : Submit(r, k, s)
    <2>1. PICK k \in {"view", "sign"}, s \in Signers : Submit(r, k, s)
      BY <1>3
    <2> DEFINE t == [Idle EXCEPT !.pc = "token", !.kind = k, !.who = s]
    <2>2. t.todo \union t.issued = {}
      BY DEF Idle
    <2>3. req' = [req EXCEPT ![r] = t] /\ env' = env
      BY <2>1 DEF Submit, rows
    <2> HIDE DEF t
    <2> QED
      BY <2>2, <2>3, WaitsOn
  <1>4. CASE LockToken(r)
    <2> DEFINE t == [req[r] EXCEPT !.pc = "envelope"]
    <2>1. t.pc \notin Holding
      BY <1>1 DEF Transactions, Holding
    <2>2. req' = [req EXCEPT ![r] = t] /\ env' = env
      BY <1>4 DEF LockToken, rows
    <2> HIDE DEF t
    <2> QED
      BY <2>1, <2>2, WaitsOn
  <1>5. CASE LockEnvelope(r)
    <2> DEFINE t == [req[r] EXCEPT !.pc = "apply", !.work = env]
    <2>1. t.todo \union t.issued = {}
      BY <1>1, <1>5 DEF Transactions, LockEnvelope, TransactionOK, IssuedOK, Holding
    <2>2. req' = [req EXCEPT ![r] = t] /\ env' = env
      BY <1>5 DEF LockEnvelope, rows
    <2> HIDE DEF t
    <2> QED
      BY <2>1, <2>2, WaitsOn
  <1>6. CASE ApplyView(r)
    <2> DEFINE v == IF req[r].work.rstat[req[r].who] \in {"pending", "sent"}
                    THEN MarkViewed(req[r].work, req[r].who) ELSE req[r].work
               t == [req[r] EXCEPT !.pc = "commit", !.work = v]
    <2>1. req[r].todo = {} /\ req[r].issued = {}
      BY <1>1, <1>6 DEF ApplyView, TransactionOK, LInv, HolderLinks, Holding
    <2>2. t.todo \union t.issued = {}
      BY <1>1, <2>1 DEF Transactions
    <2>3. req' = [req EXCEPT ![r] = t] /\ env' = env
      BY <1>6 DEF ApplyView, rows
    <2> HIDE DEF t
    <2> QED
      BY <2>2, <2>3, WaitsOn
  <1>7. CASE Certify(r)
    <2> DEFINE t == [req[r] EXCEPT !.pc = "commit", !.work = Certified(@)]
    <2>1. req[r].pc = "complete" /\ req[r].work \in Envelopes
      BY <1>1, <1>7 DEF Certify, Transactions
    <2>2. /\ t.todo = req[r].todo /\ t.issued = req[r].issued
          /\ t.work.rstat = req[r].work.rstat
      BY <1>1, <2>1 DEF Transactions, Certified, Envelopes
    <2>3. req' = [req EXCEPT ![r] = t] /\ env' = env
      BY <1>7 DEF Certify, rows
    <2> HIDE DEF t
    <2> QED
      BY <2>1, <2>2, <2>3, WaitsOn DEF Holding
  <1> QED
    BY <1>2, <1>3, <1>4, <1>5, <1>6, <1>7

\* Those whose turn comes after a signature come after recipients who have been
\* invited.  If orders differ, one of these who has not signed comes before the
\* signer, whose turn it was, or was invited after the signer had signed.
LEMMA ApplySignWaits ==
    ASSUME IInv, LInv, NEW W, Past(W), Waits(W), NEW r \in Requests, ApplySign(r)
    PROVE  Waits(W)'
  <1> DEFINE x == req[r].who
             e == SignerStep(req[r].work, x)
             last == e.status = "completed"
             t == [req[r] EXCEPT !.work = e,
                                 !.pc = IF last THEN "complete" ELSE "invite",
                                 !.todo = IF last THEN {} ELSE ToInvite(e)]
  <1>1. /\ req[r] \in Transactions /\ req[r].pc = "apply" /\ req[r].kind = "sign"
        /\ x \in Signers
        /\ HolderLinks(req[r], env) /\ HolderOK(req[r], env)
        /\ env \in Envelopes
    BY DEF ApplySign, IInv, TypeOK, TransactionOK, LInv, Holding
  <1>2. /\ req[r].work \in Envelopes /\ req[r].issued = {}
        /\ \A s \in Signers : req[r].work.rstat[s] = env.rstat[s]
        /\ x \notin Signed(env)
        /\ Sequential => \A s \in Signers : Order[s] < Order[x] => s \in Signed(env)
    BY <1>1 DEF Transactions, HolderLinks, HolderOK, Signs
  <1>3. req' = [req EXCEPT ![r] = t] /\ env' = env
    BY DEF ApplySign, rows
  <1> HIDE DEF x
  <1>4. /\ e \in Envelopes
        /\ \A s \in Signers \ {x} : e.rstat[s] = env.rstat[s]
        /\ e.rstat[x] = "signed"
    <2>1. e \in Envelopes
      BY <1>1, <1>2, SignerStepFacts
    <2>2. /\ \A s \in Signers \ {x} : e.rstat[s] = req[r].work.rstat[s]
          /\ e.rstat[x] = "signed"
      BY <1>1, <1>2, SignerStepRecipients
    <2> QED
      BY <1>2, <2>1, <2>2
  <1> HIDE DEF e
  <1>5. t.work = e /\ t.todo \subseteq ToInvite(e) /\ t.issued = {}
    BY <1>1, <1>2 DEF Transactions
  <1> HIDE DEF t, last
  <1>6. ASSUME Sequential, NEW s \in ToInvite(e) PROVE Behind(e, s, W)
    <2> SUFFICES ASSUME NEW q \in Signers, Order[q] < Order[s] PROVE e.rstat[q] \in W
      BY DEF Behind
    <2>1. s \in Signers /\ e.rstat[q] # "pending"
      BY <1>6, OrderAssumption DEF ToInvite, Lowest
    <2>2. e.rstat[q] \in {"sent", "viewed", "signed"}
      BY <1>4, <2>1 DEF Envelopes, RecipientStatus
    <2>3. ASSUME DistinctOrders, W = {"signed"}, e.rstat[q] # "signed" PROVE FALSE
      <3>1. q # x /\ env.rstat[q] = e.rstat[q]
        BY <1>4, <2>3
      <3>2. Order[q] # Order[x] /\ Order[q] \in Nat /\ Order[x] \in Nat
        BY <1>1, <2>3, <3>1, OrderAssumption DEF DistinctOrders
      <3>3. CASE Order[q] < Order[x]
        BY <1>2, <1>6, <2>3, <3>1, <3>3 DEF Signed
      <3>4. CASE Order[x] < Order[q]
        BY <1>1, <1>2, <1>6, <2>1, <2>3, <3>1, <3>4 DEF Waits, Behind, Signed
      <3> QED
        BY <3>2, <3>3, <3>4
    <2> QED
      BY <2>2, <2>3 DEF Past
  <1> QED
    BY <1>3, <1>5, <1>6, WaitsStep

\* The first to be invited come after nobody but the owner, who has signed.
LEMMA ApplyCreateWaits ==
    ASSUME IInv, LInv, NEW W, Past(W), Waits(W), NEW r \in Requests, ApplyCreate(r)
    PROVE  Waits(W)'
  <1> DEFINE w == req[r].work
             x == req[r].who
             e == IF x = Nobody THEN w ELSE SignerStep(w, x)
             n == IF req[r].kind = "send" THEN MarkSent(e) ELSE e
             p == CASE n.status = "completed" -> "complete"
                    [] req[r].kind = "send" -> "invite"
                    [] OTHER -> "commit"
             t == [req[r] EXCEPT !.work = n, !.pc = p,
                                 !.todo = IF req[r].kind = "send" THEN ToInvite(n) ELSE {}]
  <1>1. /\ req[r] \in Transactions /\ req[r].pc = "apply" /\ req[r].kind \in {"draft", "send"}
        /\ HolderLinks(req[r], env)
        /\ env.status = "absent"
        /\ Nobody \notin Signers
    BY NobodyAssumption DEF ApplyCreate, IInv, TypeOK, LInv, Holding, HolderLinks
  <1>2. /\ w \in Envelopes
        /\ x \in Signers \union {Nobody}
        /\ req[r].issued = {}
        /\ \A s \in Signers : w.rstat[s] = "pending"
    BY <1>1 DEF Transactions, HolderLinks, LInv, BlankUntilCreated
  <1>3. req' = [req EXCEPT ![r] = t] /\ env' = env
    <2>1. n = Created(req[r])
      BY DEF Created
    <2> HIDE DEF n
    <2> QED
      BY <2>1 DEF ApplyCreate, rows
  <1> HIDE DEF w, x
  <1>4. /\ e \in Envelopes
        /\ \A s \in Signers \ {x} : e.rstat[s] = "pending"
        /\ x \in Signers => e.rstat[x] = "signed"
    BY <1>1, <1>2, SignerStepFacts, SignerStepRecipients
  <1> HIDE DEF e
  <1>5. n \in Envelopes /\ n.rstat = e.rstat
    BY <1>4, MarkSentFacts
  <1> HIDE DEF n
  <1>6. t.work = n /\ t.todo \subseteq ToInvite(n) /\ t.issued = {}
    BY <1>1, <1>2 DEF Transactions
  <1> HIDE DEF t, p
  <1>7. ASSUME Sequential, NEW s \in ToInvite(n) PROVE Behind(n, s, W)
    <2> SUFFICES ASSUME NEW q \in Signers, Order[q] < Order[s] PROVE n.rstat[q] \in W
      BY DEF Behind
    <2>1. n.rstat[q] # "pending"
      BY <1>7, OrderAssumption DEF ToInvite, Lowest
    <2> QED
      BY <1>4, <1>5, <2>1 DEF Past
  <1> QED
    BY <1>3, <1>6, <1>7, WaitsStep

\* Who is being invited was pending, so nobody else was waiting behind them.
LEMMA InviteWaits ==
    ASSUME IInv, LInv, NEW W, Past(W), Waits(W), NEW r \in Requests, Invite(r)
    PROVE  Waits(W)'
  <1>1. PICK s \in req[r].todo :
            /\ req[r].pc = "invite"
            /\ req' = [req EXCEPT ![r].todo = @ \ {s}, ![r].issued = @ \union {s},
                                  ![r].work = Invited(@, s)]
            /\ UNCHANGED <<rows, expired, envLock, faults>>
    BY DEF Invite
  <1> DEFINE i == Invited(req[r].work, s)
             t == [req[r] EXCEPT !.todo = @ \ {s}, !.issued = @ \union {s}, !.work = i]
  <1>2. req[r] \in Transactions /\ HolderOK(req[r], env)
    BY <1>1 DEF IInv, TypeOK, Holding
  <1>3. s \in Signers /\ req[r].work \in Envelopes /\ req[r].work.rstat[s] = "pending"
    BY <1>2 DEF Transactions, HolderOK
  <1>4. req' = [req EXCEPT ![r] = t] /\ env' = env
    BY <1>1 DEF rows
  <1>5. \A q \in Signers \ {s} : i.rstat[q] = req[r].work.rstat[q]
    BY <1>3, InvitedRecipients
  <1> HIDE DEF i
  <1>6. t.work = i /\ t.todo \union t.issued = req[r].todo \union req[r].issued
    BY <1>2 DEF Transactions
  <1> HIDE DEF t
  <1>7. ASSUME Sequential, NEW u \in req[r].todo \union req[r].issued
        PROVE  Behind(i, u, W)
    <2>1. Behind(req[r].work, u, W)
      BY <1>1, <1>7 DEF Waits, Holding
    <2>2. "pending" \notin W
      BY DEF Past
    <2> QED
      BY <1>3, <1>5, <2>1, <2>2 DEF Behind
  <1> QED
    BY <1>4, <1>6, <1>7, WaitsStep

\* The copy that is committed differs from the row in the recipient it acts for,
\* whose turn it was, and in those it invited.
LEMMA CommitWaits ==
    ASSUME IInv, IInv', LInv, NEW W, Past(W), Waits(W), NEW r \in Requests, Commit(r)
    PROVE  Waits(W)'
  <1> SUFFICES ASSUME Sequential PROVE Waits(W)'
    BY DEF Waits
  <1> DEFINE x == req[r].who
             w == req[r].work
  <1>1. /\ req[r].pc \in {"commit", "invite"}
        /\ env' = w
        /\ req' = [req EXCEPT ![r] = Idle]
    BY DEF Commit, End
  <1>2. /\ req[r] \in Transactions /\ w \in Envelopes /\ env \in Envelopes
        /\ HolderOK(req[r], env) /\ HolderLinks(req[r], env) /\ TransactionOK(req[r], env)
        /\ PastLink(req[r]) => LinkHeld(r)
        /\ \A q \in Requests \ {r} : req[q].pc \notin Holding
    BY <1>1 DEF IInv, TypeOK, LInv, Transactions, LockExclusive, Holding
  <1>3. \A s \in Signers \ {x} : s \notin req[r].issued => w.rstat[s] = env.rstat[s]
    BY <1>2 DEF HolderLinks
  <1>4. req[r].kind = "view" => /\ x \in Signers
                                /\ env.rstat[x] \in {"sent", "viewed"}
                                /\ w.rstat[x] \in {"sent", "viewed"}
    <2> SUFFICES ASSUME req[r].kind = "view" PROVE /\ x \in Signers
                                                   /\ env.rstat[x] \in {"sent", "viewed"}
                                                   /\ w.rstat[x] \in {"sent", "viewed"}
      OBVIOUS
    <2>1. x \in Signers /\ PastLink(req[r])
      BY <1>1, <1>2 DEF TransactionOK, PastLink, Holding
    <2>2. env.rstat[x] \in {"sent", "viewed"}
      BY <1>2, <2>1 DEF LinkHeld, LInv, LinksAreSound, LinksMatchRecipients
    <2> QED
      BY <1>1, <1>2, <2>1, <2>2 DEF HolderLinks
  <1>5. x \in Signers /\ req[r].kind # "view" => w.rstat[x] = "signed"
    BY <1>1, <1>2 DEF HolderLinks
  <1>6. \A q \in Signers : env.rstat[q] \in W => w.rstat[q] \in W
    <2> SUFFICES ASSUME NEW q \in Signers, env.rstat[q] \in W PROVE w.rstat[q] \in W
      OBVIOUS
    <2>1. q \notin req[r].issued
      BY <1>2 DEF HolderLinks, Past
    <2> QED
      BY <1>3, <1>4, <1>5, <2>1 DEF Past
  <1>7. ASSUME NEW s \in Signers, w.rstat[s] # "pending" PROVE Behind(w, s, W)
    <2>1. CASE s \in req[r].issued
      BY <1>1, <2>1 DEF Waits, Holding
    <2>2. CASE s \notin req[r].issued /\ env.rstat[s] # "pending"
      <3>1. Behind(env, s, W)
        BY <2>2 DEF Waits
      <3> QED
        BY <1>6, <3>1 DEF Behind
    <2>3. CASE s \notin req[r].issued /\ env.rstat[s] = "pending"
      <3>1. s = x /\ w.rstat[s] = "signed"
        BY <1>3, <1>4, <1>5, <1>7, <2>3
      <3>2. \A q \in Signers : Order[q] < Order[s] => w.rstat[q] = "signed"
        BY <1>1, <3>1 DEF IInv, EnvelopeOK, Signed
      <3> QED
        BY <3>2 DEF Behind, Past
    <2> QED
      BY <2>1, <2>2, <2>3
  <1>8. \A q \in Requests : req'[q].pc \notin Holding
    BY <1>1, <1>2, IdleFacts DEF IInv, TypeOK, Holding
  <1> QED
    BY <1>1, <1>7, <1>8 DEF Waits, Behind

LEMMA NextWaits ==
    ASSUME IInv, IInv', LInv, NEW W, Past(W), Waits(W), [Next]_vars
    PROVE  Waits(W)'
  <1>1. ASSUME NEW r \in Requests,
               \/ \E k \in {"draft", "send"}, own \in BOOLEAN : Create(r, k, own)
               \/ \E k \in {"view", "sign"}, s \in Signers : Submit(r, k, s)
               \/ LockToken(r) \/ LockEnvelope(r) \/ ApplyView(r) \/ Certify(r)
        PROVE  Waits(W)'
    BY <1>1, QuietWaits
  <1>2. ASSUME NEW r \in Requests,
               RejectLink(r) \/ RejectSigner(r) \/ RefuseExpiredInvite(r) \/ Rollback(r)
        PROVE  Waits(W)'
    <2>1. End(r) /\ env' = env
      BY <1>2 DEF RejectLink, RejectSigner, RefuseExpiredInvite, Rollback, rows
    <2> QED
      BY <2>1, EndWaits
  <1>3. ASSUME NEW r \in Requests, ApplySign(r) PROVE Waits(W)'
    BY <1>3, ApplySignWaits
  <1>4. ASSUME NEW r \in Requests, ApplyCreate(r) PROVE Waits(W)'
    BY <1>4, ApplyCreateWaits
  <1>5. ASSUME NEW r \in Requests, Invite(r) PROVE Waits(W)'
    BY <1>5, InviteWaits
  <1>6. ASSUME NEW r \in Requests, Commit(r) PROVE Waits(W)'
    BY <1>6, CommitWaits
  <1>7. ASSUME Expire \/ UNCHANGED vars PROVE Waits(W)'
    BY <1>7 DEF Expire, vars, rows, locks, Waits, Behind
  <1> QED
    BY <1>1, <1>2, <1>3, <1>4, <1>5, <1>6, <1>7 DEF Next, Step

LEMMA InitWaits == ASSUME NEW W, Init PROVE Waits(W)
  BY DEF Init, Blank, Idle, Waits, Holding

\* Under sequential routing nobody has been invited before everybody of a lower
\* signing order was.
InvitedInOrder ==
    Sequential => \A s, t \in Signers :
        Order[t] < Order[s] /\ env.rstat[s] # "pending" => env.rstat[t] # "pending"

\* That holds whatever requests run at once or roll back, and whoever shares an
\* order.
THEOREM InvitationsFollowTheOrder == Spec => []InvitedInOrder
  <1>1. Init => WaitsForInvited
    BY InitWaits DEF WaitsForInvited
  <1>2. IInv /\ IInv' /\ LInv /\ WaitsForInvited /\ [Next]_vars => WaitsForInvited'
    BY NextWaits DEF WaitsForInvited, Past
  <1>3. WaitsForInvited => InvitedInOrder
    BY DEF WaitsForInvited, Waits, Behind, InvitedInOrder
  <1> QED
    BY <1>1, <1>2, <1>3, Invariance, LinkInvariance, PTL DEF Spec

\* What the sender is told of sequential routing holds if no two recipients share
\* a signing order: a shared order is the only way to be invited too early.
THEOREM DistinctOrdersWait == Spec => [](DistinctOrders => InvitedAfterPrevious)
  <1>1. Init => WaitsForSigned
    BY InitWaits DEF WaitsForSigned
  <1>2. IInv /\ IInv' /\ LInv /\ WaitsForSigned /\ [Next]_vars => WaitsForSigned'
    BY NextWaits DEF WaitsForSigned, Past, DistinctOrders
  <1>3. WaitsForSigned => (DistinctOrders => InvitedAfterPrevious)
    BY DEF WaitsForSigned, Waits, Behind, InvitedAfterPrevious
  <1> QED
    BY <1>1, <1>2, <1>3, Invariance, LinkInvariance, PTL DEF Spec
=============================================================================
