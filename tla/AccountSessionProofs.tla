------------------------ MODULE AccountSessionProofs -------------------------
(***************************************************************************)
(* What AccountSession guarantees for all users and tabs.                  *)
(*                                                                         *)
(* A step changes the page of at most one tab, so everything is said of    *)
(* the state of one tab (Sound) and of one tab before and after (May).  A  *)
(* suppressed tab waits for no answer, and so none can restore its         *)
(* profile; that is also why a tab which clears itself a second time, and  *)
(* then returns early, is not left loading.                                *)
(***************************************************************************)
EXTENDS AccountSession, SequenceTheorems, TLAPS

Sound(s) ==
    /\ s \in TabStates
    /\ s.suppressed => s.request = NoRequest /\ s.cache = NoUser
    /\ s.loading => s.request # NoRequest \/ s.page = "leaving"
    /\ s.page = "away" => ~s.suppressed /\ s.request = NoRequest /\ ~s.deleting

May(s, r) == Sound(r) /\ (s.suppressed => r.shown \in {s.shown, NoUser})

IInv == TypeOK /\ \A t \in Tabs : Sound(tab[t])
-----------------------------------------------------------------------------
(* What the handlers make of one tab. *)

LEMMA NoRequestTyped == NoRequest \in Requests
BY DEF NoRequest, Requests, Answers, Somebody

LEMMA BlankSound ==
    ASSUME NEW marker \in BOOLEAN, NEW cache \in Somebody
    PROVE  Sound(Blank(marker, cache))
BY NoRequestTyped DEF Blank, Sound, TabStates, Somebody

LEMMA SuppressedTyped ==
    ASSUME NEW s \in TabStates
    PROVE  Suppressed(s) \in TabStates
BY NoRequestTyped DEF Suppressed, Aborted, TabStates, Somebody

LEMMA ClearedSound ==
    ASSUME NEW s \in TabStates, s.page # "away"
    PROVE  May(s, Cleared(s))
BY NoRequestTyped DEF Cleared, Suppressed, Aborted, May, Sound, TabStates, Somebody

LEMMA AlreadyClearedSound ==
    ASSUME NEW s, Sound(s), s.page # "away", AlreadyCleared(s)
    PROVE  May(s, Suppressed(s))
BY NoRequestTyped
   DEF AlreadyCleared, Suppressed, Aborted, May, Sound, TabStates, Somebody

LEMMA LeavingSound ==
    ASSUME NEW s \in TabStates
    PROVE  May(s, Leaving(s))
BY NoRequestTyped
   DEF Leaving, Markers, Suppressed, Aborted, May, Sound, TabStates, Somebody

LEMMA SentAwaySound ==
    ASSUME NEW s, Sound(s)
    PROVE  May(s, [Markers(IF AlreadyCleared(s) THEN Suppressed(s) ELSE Cleared(s))
                     EXCEPT !.page = "leaving"])
<1>1. CASE AlreadyCleared(s)
  BY <1>1, NoRequestTyped
     DEF Markers, Suppressed, Aborted, May, Sound, TabStates, Somebody
<1>2. CASE ~AlreadyCleared(s)
  BY <1>2, NoRequestTyped
     DEF Markers, Cleared, Suppressed, Aborted, May, Sound, TabStates, Somebody
<1> QED
  BY <1>1, <1>2

LEMMA AskingSound ==
    ASSUME NEW s \in TabStates, ~s.suppressed, s.page # "away",
           NEW background \in BOOLEAN, NEW fallback \in BOOLEAN, NEW crossTab \in BOOLEAN
    PROVE  Sound(Asking(s, background, fallback, crossTab))
<1> DEFINE asked == [state |-> "asked", user |-> NoUser,
                     fallback |-> fallback, crossTab |-> crossTab]
<1>1. asked \in Requests /\ asked # NoRequest
  BY DEF Requests, Answers, Somebody, NoRequest
<1>2. /\ Aborted(s) \in TabStates
      /\ Aborted(s).suppressed = s.suppressed /\ Aborted(s).page = s.page
  BY NoRequestTyped DEF Aborted, TabStates
<1>3. Asking(s, background, fallback, crossTab) =
        [Aborted(s) EXCEPT !.loading = @ \/ ~background, !.request = asked]
  BY DEF Asking
<1> HIDE DEF asked
<1> QED
  BY <1>1, <1>2, <1>3 DEF Sound, TabStates
-----------------------------------------------------------------------------
(* Steps. *)

LEMMA BecomeSound ==
    ASSUME IInv, NEW t \in Tabs, NEW r, Become(t, r), May(tab[t], r)
    PROVE  /\ tab' \in [Tabs -> TabStates]
           /\ \A x \in Tabs : May(tab[x], tab'[x])
BY DEF IInv, TypeOK, Become, May, Sound

LEMMA AnnounceTyped ==
    ASSUME TypeOK, NEW t \in Tabs, NEW signedIn \in BOOLEAN, Announce(t, signedIn)
    PROVE  events' \in [Tabs -> Seq(BOOLEAN)]
<1>1. \A x \in Tabs : events[x] \in Seq(BOOLEAN)
  BY DEF TypeOK
<1>2. \A q \in Seq(BOOLEAN) : Append(q, signedIn) \in Seq(BOOLEAN)
  BY AppendProperties, Zenon
<1> QED
  BY <1>1, <1>2, Zenon DEF Announce

\* What a step keeps of the tabs.
TabsMay == tab' \in [Tabs -> TabStates] /\ \A x \in Tabs : May(tab[x], tab'[x])

LEMMA SendAwayMay ==
    ASSUME IInv, NEW t \in Tabs, SendAway(t)
    PROVE  TabsMay /\ events' \in [Tabs -> Seq(BOOLEAN)] /\ cookie' \in BOOLEAN
<1>1. TabsMay
  BY SentAwaySound, BecomeSound DEF SendAway, TabsMay, IInv
<1>2. events' \in [Tabs -> Seq(BOOLEAN)]
  BY AnnounceTyped DEF SendAway, IInv, TypeOK
<1> QED
  BY <1>1, <1>2 DEF SendAway

\* The parts of TypeOK that are not about tabs.
RestTyped ==
    /\ session \in Somebody /\ purged \subseteq Users /\ cookie \in BOOLEAN
    /\ events \in [Tabs -> Seq(BOOLEAN)]
    /\ signIns \in 0 .. MaxSignIns /\ other \in 0 .. MaxOther

LEMMA TabsUnchangedMay ==
    ASSUME IInv, UNCHANGED tab
    PROVE  TabsMay
BY DEF IInv, TypeOK, TabsMay, May

LEMMA OtherTyped ==
    ASSUME TypeOK, Other
    PROVE  other' \in 0 .. MaxOther
BY BoundsAssumption DEF TypeOK, Other

LEMMA LoadMay ==
    ASSUME IInv, NEW t \in Tabs, Load(t)
    PROVE  TabsMay /\ RestTyped'
<1> DEFINE s == tab[t]
           cached == s.cache # NoUser
           gone == [Blank(FALSE, NoUser) EXCEPT
                       !.page = "app", !.suppressed = TRUE, !.cleared = TRUE]
           shows == [s EXCEPT !.page = "app", !.shown = s.cache, !.loading = ~cached]
<1>1. Sound(s) /\ s \in TabStates
  BY DEF IInv, Sound
<1>2. ASSUME cookie \/ s.marker PROVE TabsMay
  <2>1. May(s, gone)
    BY <1>1, NoRequestTyped DEF May, Sound, Blank, TabStates, Somebody
  <2> QED
    BY <1>2, <2>1, BecomeSound DEF Load, TabsMay
<1>3. ASSUME ~(cookie \/ s.marker) PROVE TabsMay
  <2>1. Become(t, Asking(shows, cached, cached, TRUE))
    BY <1>3 DEF Load
  <2>2. ~s.suppressed /\ shows \in TabStates /\ ~shows.suppressed /\ shows.page # "away"
    BY <1>1 DEF Load, Sound, TabStates
  <2>3. Sound(Asking(shows, cached, cached, TRUE))
    <3> HIDE DEF shows
    <3> QED
      BY <2>2, AskingSound
  <2> QED
    BY <2>1, <2>2, <2>3, BecomeSound DEF May, TabsMay
<1>4. RestTyped'
  BY DEF Load, RestTyped, IInv, TypeOK, counters
<1> QED
  BY <1>2, <1>3, <1>4

LEMMA PagesMay ==
    ASSUME IInv, NEW t \in Tabs, Close(t) \/ Depart(t) \/ \E u \in Users : SignIn(t, u)
    PROVE  TabsMay /\ RestTyped'
<1>1. Unload(t)
  BY DEF Close, Depart, SignIn
<1>2. May(tab[t], Blank(tab[t].marker, tab[t].cache))
  <2>1. tab[t] \in TabStates
    BY DEF IInv, TypeOK
  <2>2. Sound(Blank(tab[t].marker, tab[t].cache))
    BY <2>1, BlankSound DEF TabStates
  <2> QED
    BY <2>2 DEF May, Blank
<1>3. TabsMay
  BY <1>1, <1>2, BecomeSound DEF Unload, TabsMay
<1>4. events' \in [Tabs -> Seq(BOOLEAN)]
  <2>1. <<>> \in Seq(BOOLEAN)
    BY EmptySeq, Zenon
  <2> QED
    BY <1>1, <2>1, Zenon DEF Unload, IInv, TypeOK
<1>5. session' \in Somebody /\ UNCHANGED <<purged, cookie>>
  BY DEF Close, Depart, SignIn, IInv, TypeOK, Somebody
<1>6. signIns' \in 0 .. MaxSignIns
  BY BoundsAssumption DEF Close, Depart, SignIn, IInv, TypeOK, counters
<1>7. other' \in 0 .. MaxOther
  BY OtherTyped DEF Close, Depart, SignIn, IInv, TypeOK, counters
<1> QED
  BY <1>3, <1>4, <1>5, <1>6, <1>7 DEF RestTyped, IInv, TypeOK

LEMMA EnvironmentMay ==
    ASSUME IInv, SessionEnds \/ MarkerExpires \/ \E u \in Users : Purge(u)
    PROVE  TabsMay /\ RestTyped'
<1>1. Other
  BY DEF SessionEnds, MarkerExpires, Purge
<1>2. TabsMay
  <2>1. CASE UNCHANGED tab
    BY <2>1, TabsUnchangedMay
  <2>2. ASSUME NEW t \in Tabs, Become(t, [tab[t] EXCEPT !.marker = FALSE]) PROVE TabsMay
    <3>1. May(tab[t], [tab[t] EXCEPT !.marker = FALSE])
      BY DEF IInv, Sound, May, TabStates
    <3> QED
      BY <2>2, <3>1, BecomeSound DEF TabsMay
  <2> QED
    BY <2>1, <2>2 DEF SessionEnds, MarkerExpires, Purge
<1> QED
  BY <1>1, <1>2, OtherTyped
     DEF SessionEnds, MarkerExpires, Purge, RestTyped, IInv, TypeOK, Somebody

LEMMA ReloadMay ==
    ASSUME IInv, NEW t \in Tabs, NEW background \in BOOLEAN, NEW fallback \in BOOLEAN,
           Reload(t, background, fallback)
    PROVE  TabsMay /\ RestTyped'
<1>1. Sound(tab[t]) /\ tab[t] \in TabStates /\ tab[t].page # "away"
  BY DEF IInv, Sound, Reload, Running
<1>2. CASE tab[t].suppressed
  <2>1. May(tab[t], [tab[t] EXCEPT !.loading = @ /\ background])
    BY <1>1 DEF Sound, May, TabStates
  <2> QED
    BY <1>2, <2>1, BecomeSound, OtherTyped DEF Reload, TabsMay, RestTyped, IInv, TypeOK
<1>3. CASE ~tab[t].suppressed
  <2>1. May(tab[t], Asking(tab[t], background, fallback, TRUE))
    BY <1>1, <1>3, AskingSound DEF May
  <2> QED
    BY <1>3, <2>1, BecomeSound, OtherTyped DEF Reload, TabsMay, RestTyped, IInv, TypeOK
<1> QED
  BY <1>2, <1>3

LEMMA IntervalMay ==
    ASSUME IInv, NEW t \in Tabs, Interval(t)
    PROVE  TabsMay /\ RestTyped'
<1>1. May(tab[t], Asking(tab[t], TRUE, TRUE, TRUE))
  BY AskingSound DEF Interval, May, IInv, Sound
<1> QED
  BY <1>1, BecomeSound DEF Interval, TabsMay, RestTyped, IInv, TypeOK, counters

LEMMA ServeMay ==
    ASSUME IInv, NEW t \in Tabs, Serve(t)
    PROVE  TabsMay /\ RestTyped'
<1>1. PICK answer \in Answers \ {"none", "asked"} :
        /\ Become(t, [tab[t] EXCEPT !.request.state = answer,
                          !.request.user = IF answer = "account" THEN session ELSE NoUser])
        /\ IF answer \in {"cut", "failed"} THEN Other ELSE UNCHANGED other
  BY DEF Serve
<1> DEFINE served == [tab[t].request EXCEPT !.state = answer,
                          !.user = IF answer = "account" THEN session ELSE NoUser]
<1>2. Sound(tab[t]) /\ tab[t].request # NoRequest
  BY DEF Serve, IInv, NoRequest
<1>3. served \in Requests /\ served # NoRequest
  BY <1>2 DEF Sound, TabStates, Requests, NoRequest, IInv, TypeOK, Somebody
<1>4. Become(t, [tab[t] EXCEPT !.request = served])
  BY <1>1, <1>2 DEF Sound, TabStates, Requests
<1>5. May(tab[t], [tab[t] EXCEPT !.request = served])
  <2> HIDE DEF served
  <2> QED
    BY <1>2, <1>3 DEF Sound, May, TabStates
<1>6. TabsMay
  BY <1>4, <1>5, BecomeSound DEF TabsMay
<1> QED
  BY <1>1, <1>6, OtherTyped DEF Serve, RestTyped, IInv, TypeOK

LEMMA AnswerMay ==
    ASSUME IInv, NEW t \in Tabs, Answer(t)
    PROVE  TabsMay /\ RestTyped'
<1>1. /\ Sound(tab[t]) /\ tab[t].request # NoRequest
      /\ ~tab[t].suppressed /\ tab[t].page # "away"
  <2>1. tab[t].request.state # "none"
    BY DEF Answer, AnswerAccount, AnswerCut, AnswerUnauthorized, AnswerTerminal,
           AnswerFailed, Answered
  <2>2. tab[t].request # NoRequest
    BY <2>1 DEF NoRequest
  <2> QED
    BY <2>2 DEF IInv, Sound
<1>2. CASE AnswerAccount(t)
  <2>1. May(tab[t], [tab[t] EXCEPT
              !.suppressed = FALSE, !.cleared = FALSE, !.loading = FALSE,
              !.cache = tab[t].request.user, !.shown = tab[t].request.user,
              !.request = NoRequest])
    BY <1>1, NoRequestTyped DEF Sound, May, TabStates, Requests
  <2> QED
    BY <1>2, <2>1, BecomeSound, AnnounceTyped
       DEF AnswerAccount, TabsMay, RestTyped, IInv, TypeOK, counters
<1>3. CASE AnswerCut(t)
  <2>1. May(tab[t], [tab[t] EXCEPT
              !.suppressed = TRUE, !.cleared = TRUE, !.loading = FALSE,
              !.cache = NoUser, !.shown = NoUser, !.request = NoRequest])
    BY <1>1, NoRequestTyped DEF Sound, May, TabStates, Somebody
  <2> QED
    BY <1>3, <2>1, BecomeSound, AnnounceTyped
       DEF AnswerCut, TabsMay, RestTyped, IInv, TypeOK, counters
<1>4. CASE AnswerUnauthorized(t)
  <2>1. CASE tab[t].shown # NoUser
    BY <1>4, <2>1, SendAwayMay DEF AnswerUnauthorized, RestTyped, IInv, TypeOK, counters
  <2>2. CASE tab[t].shown = NoUser
    <3>1. May(tab[t], Cleared(tab[t]))
      BY <1>1, ClearedSound DEF Sound
    <3> QED
      BY <1>4, <2>2, <3>1, BecomeSound, AnnounceTyped
         DEF AnswerUnauthorized, TabsMay, RestTyped, IInv, TypeOK, counters
  <2> QED
    BY <2>1, <2>2
<1>5. CASE AnswerTerminal(t)
  BY <1>5, SendAwayMay DEF AnswerTerminal, RestTyped, IInv, TypeOK, counters
<1>6. CASE AnswerFailed(t)
  <2> DEFINE kept == IF tab[t].request.fallback THEN tab[t].shown ELSE NoUser
  <2>1. kept \in {tab[t].shown, NoUser} /\ kept \in Somebody
    BY <1>1 DEF Sound, TabStates, Somebody
  <2>2. Become(t, [tab[t] EXCEPT !.shown = kept, !.loading = FALSE, !.request = NoRequest,
                       !.suppressed = @ /\ kept = NoUser, !.cleared = @ /\ kept = NoUser])
    BY <1>6 DEF AnswerFailed
  <2>3. May(tab[t], [tab[t] EXCEPT !.shown = kept, !.loading = FALSE, !.request = NoRequest,
                       !.suppressed = @ /\ kept = NoUser, !.cleared = @ /\ kept = NoUser])
    <3> HIDE DEF kept
    <3> QED
      BY <1>1, <2>1, NoRequestTyped DEF Sound, May, TabStates
  <2> QED
    BY <1>6, <2>2, <2>3, BecomeSound
       DEF AnswerFailed, TabsMay, RestTyped, IInv, TypeOK, counters
<1> QED
  BY <1>2, <1>3, <1>4, <1>5, <1>6 DEF Answer

LEMMA LateMay ==
    ASSUME IInv, NEW t \in Tabs, Late(t)
    PROVE  TabsMay /\ RestTyped'
<1>1. May(tab[t], [tab[t] EXCEPT !.cut = FALSE])
  BY DEF IInv, Sound, May, TabStates
<1> QED
  BY <1>1, BecomeSound DEF Late, TabsMay, RestTyped, IInv, TypeOK, counters

LEMMA HearMay ==
    ASSUME IInv, NEW t \in Tabs, Hear(t)
    PROVE  TabsMay /\ RestTyped'
<1>1. Sound(tab[t]) /\ tab[t] \in TabStates /\ tab[t].page # "away"
  BY DEF IInv, Sound, Hear, Running
<1>2. ASSUME Head(events[t]) PROVE TabsMay
  <2> DEFINE woken == [tab[t] EXCEPT !.suppressed = FALSE]
  <2>1. woken \in TabStates /\ ~woken.suppressed /\ woken.page # "away"
    BY <1>1 DEF TabStates
  <2>2. Sound(Asking(woken, TRUE, TRUE, FALSE))
    <3> HIDE DEF woken
    <3> QED
      BY <2>1, AskingSound
  <2>3. Asking(woken, TRUE, TRUE, FALSE).shown = tab[t].shown
    BY <1>1 DEF Asking, Aborted, TabStates
  <2>4. May(tab[t], Asking(woken, TRUE, TRUE, FALSE))
    BY <2>2, <2>3 DEF May
  <2> QED
    BY <1>2, <2>4, BecomeSound DEF Hear, TabsMay
<1>3. ASSUME ~Head(events[t]) PROVE TabsMay
  <2>1. CASE AlreadyCleared(tab[t])
    BY <1>1, <1>3, <2>1, BecomeSound, AlreadyClearedSound DEF Hear, TabsMay
  <2>2. CASE ~AlreadyCleared(tab[t])
    BY <1>1, <1>3, <2>2, BecomeSound, ClearedSound DEF Hear, TabsMay
  <2> QED
    BY <2>1, <2>2
<1>4. events' \in [Tabs -> Seq(BOOLEAN)]
  <2>1. events[t] \in Seq(BOOLEAN) /\ events[t] # <<>>
    BY DEF Hear, IInv, TypeOK
  <2>2. Tail(events[t]) \in Seq(BOOLEAN)
    BY <2>1, HeadTailProperties, Zenon
  <2> QED
    BY <2>2, Zenon DEF Hear, IInv, TypeOK
<1> QED
  BY <1>2, <1>3, <1>4 DEF Hear, RestTyped, IInv, TypeOK, counters

LEMMA ExitMay ==
    ASSUME IInv, NEW t \in Tabs,
           Logout(t) \/ AskDeletion(t) \/ DeletionAnswered(t) \/ Invalidated(t)
    PROVE  TabsMay /\ RestTyped'
<1>1. Sound(tab[t]) /\ tab[t] \in TabStates
  BY DEF IInv, Sound
<1>2. May(tab[t], Leaving(tab[t]))
  BY <1>1, LeavingSound
<1>3. CASE Logout(t)
  BY <1>2, <1>3, BecomeSound DEF Logout, TabsMay, RestTyped, IInv, TypeOK, counters
<1>4. CASE AskDeletion(t)
  <2>1. May(tab[t], [tab[t] EXCEPT !.deleting = TRUE])
    BY <1>1, <1>4 DEF AskDeletion, Sound, May, TabStates
  <2> QED
    BY <1>4, <2>1, BecomeSound, OtherTyped
       DEF AskDeletion, TabsMay, RestTyped, IInv, TypeOK
<1>5. CASE DeletionAnswered(t)
  <2>1. May(tab[t], [tab[t] EXCEPT !.deleting = FALSE])
    BY <1>1 DEF Sound, May, TabStates
  <2> QED
    BY <1>2, <1>5, <2>1, BecomeSound
       DEF DeletionAnswered, TabsMay, RestTyped, IInv, TypeOK, counters
<1>6. CASE Invalidated(t)
  BY <1>6, SendAwayMay DEF Invalidated, RestTyped, IInv, TypeOK, counters
<1> QED
  BY <1>3, <1>4, <1>5, <1>6

LEMMA NextMay ==
    ASSUME IInv, [Next]_vars
    PROVE  TabsMay /\ RestTyped'
<1>1. CASE UNCHANGED vars
  BY <1>1, TabsUnchangedMay DEF vars, counters, RestTyped, IInv, TypeOK
<1>2. CASE Next
  BY <1>2, LoadMay, PagesMay, EnvironmentMay, ReloadMay, IntervalMay, ServeMay, AnswerMay,
     LateMay, HearMay, ExitMay
     DEF Next
<1> QED
  BY <1>1, <1>2

LEMMA Invariance == Spec => []IInv
<1>1. Init => IInv
  <2> SUFFICES ASSUME Init PROVE IInv
    OBVIOUS
  <2>1. \A t \in Tabs : Sound(tab[t])
    BY BlankSound DEF Init, Somebody
  <2>2. <<>> \in Seq(BOOLEAN)
    BY EmptySeq, Zenon
  <2>3. events \in [Tabs -> Seq(BOOLEAN)]
    BY <2>2, Zenon DEF Init
  <2>4. tab \in [Tabs -> TabStates]
    BY <2>1 DEF Init, Sound
  <2>5. session \in Somebody /\ purged = {} /\ cookie = FALSE /\ signIns = 0 /\ other = 0
    BY DEF Init
  <2>6. signIns \in 0 .. MaxSignIns /\ other \in 0 .. MaxOther
    BY <2>5, BoundsAssumption
  <2> QED
    BY <2>1, <2>3, <2>4, <2>5, <2>6, Zenon DEF IInv, TypeOK
<1>2. IInv /\ [Next]_vars => IInv'
  BY NextMay DEF TabsMay, RestTyped, May, IInv, TypeOK
<1> QED
  BY <1>1, <1>2, PTL DEF Spec
-----------------------------------------------------------------------------
\* Tabs, storage events and the browser's markers keep their types.
THEOREM AccountTypeCorrectness == Spec => []TypeOK
BY Invariance, PTL DEF IInv

\* A tab that left, or was told that nobody is signed in, waits for no answer and
\* keeps no account to show (beginAccountExit, clearAccount, loadAccount).
THEOREM ExitIsClean == Spec => []ExitLeavesNothing
<1>1. IInv => ExitLeavesNothing
  BY DEF IInv, Sound, ExitLeavesNothing
<1> QED
  BY <1>1, Invariance, PTL

\* In such a tab no answer, early or late, brings the profile back.
THEOREM ExitIsKept == Spec => ExitHolds
<1>1. IInv /\ [Next]_vars =>
        [\A t \in Tabs : tab[t].suppressed => tab'[t].shown \in {tab[t].shown, NoUser}]_vars
  BY NextMay DEF TabsMay, May
<1> QED
  BY <1>1, Invariance, PTL DEF Spec, ExitHolds

\* A tab that says it is loading waits for an answer or is leaving, whatever
\* requests were overtaken (the `finally' of loadAccount runs for the last only).
THEOREM LoadingIsWaiting == Spec => []NotStuckLoading
<1>1. IInv => NotStuckLoading
  BY DEF IInv, Sound, NotStuckLoading
<1> QED
  BY <1>1, Invariance, PTL
=============================================================================
