--------------------------- MODULE AccountSession ----------------------------
(***************************************************************************)
(* Who the tabs of one browser believe is signed in,                       *)
(* Frontend/components/account_provider.jsx with the account requests of   *)
(* Frontend/lib/api_client.js.                                             *)
(*                                                                         *)
(* The session is a cookie of the browser: every tab asks the server who   *)
(* it belongs to.  A tab asks when its page loads, when it is focused or   *)
(* told to, every minute, and when another tab announces an account        *)
(* through localStorage.  A request and its answer are steps of their own; *)
(* in between the tab may ask again, leave, or hear that nobody is signed  *)
(* in.  Signing out is a navigation: the page goes on running until it has *)
(* left.                                                                   *)
(*                                                                         *)
(* Abstracted: accounts (a user stands for the whole of it), the four      *)
(* attempts of one request, `refreshing', `error' and `lastSyncedAt', the  *)
(* reasons for leaving.  redirectToLogout always follows clearAccount, so  *)
(* that its own guard and its beginAccountExit change nothing more.        *)
(***************************************************************************)
EXTENDS Naturals, Sequences

CONSTANTS Users, NoUser,
          Tabs,
          MaxSignIns,   \* bound: how often somebody signs in
          MaxOther      \* bound: reloads besides the regular ones, pages closed,
                        \* deletions, purges, requests that fail or are cut short,
                        \* sessions that end and markers that lapse

ASSUME UsersAssumption == NoUser \notin Users
ASSUME BoundsAssumption == MaxSignIns \in Nat /\ MaxOther \in Nat

VARIABLES
    session,   \* whom the session cookie belongs to
    purged,    \* users whose account is gone from the backend
    cookie,    \* the exit marker that all tabs share
    tab,       \* what each tab shows and waits for
    events,    \* storage events each tab has yet to handle: is anybody signed in?
    signIns, other

counters == <<signIns, other>>
vars     == <<session, purged, cookie, tab, events, counters>>
-----------------------------------------------------------------------------
Somebody == Users \union {NoUser}

\* "asked": on its way; "cut": an answer without a readable body.
Answers == {"none", "asked", "account", "cut", "unauthorized", "terminal", "failed"}

Requests == [state : Answers, user : Somebody, fallback : BOOLEAN, crossTab : BOOLEAN]

NoRequest == [state |-> "none", user |-> NoUser, fallback |-> FALSE, crossTab |-> FALSE]

TabStates == [page : {"away", "app", "leaving"},
              marker : BOOLEAN,      \* the exit marker in sessionStorage
              cache : Somebody,      \* the account in sessionStorage
              shown : Somebody,      \* accountRef and the account rendered
              loading : BOOLEAN,
              suppressed : BOOLEAN,  \* accountRefreshSuppressedRef
              cleared : BOOLEAN,     \* accountClearCommittedRef
              request : Requests,    \* the one whose number is requestSeqRef
              cut : BOOLEAN,         \* an aborted one has yet to notice
              deleting : BOOLEAN]    \* a deletion of the account is under way

TypeOK ==
    /\ session \in Somebody
    /\ purged \subseteq Users
    /\ cookie \in BOOLEAN
    /\ tab \in [Tabs -> TabStates]
    /\ events \in [Tabs -> Seq(BOOLEAN)]
    /\ signIns \in 0 .. MaxSignIns
    /\ other \in 0 .. MaxOther
-----------------------------------------------------------------------------
\* A tab without a page: only its sessionStorage is left.
Blank(marker, cache) ==
    [page |-> "away", marker |-> marker, cache |-> cache, shown |-> NoUser,
     loading |-> FALSE, suppressed |-> FALSE, cleared |-> FALSE,
     request |-> NoRequest, cut |-> FALSE, deleting |-> FALSE]

Init ==
    /\ session \in Somebody
    /\ purged = {}
    /\ cookie = FALSE
    /\ tab = [t \in Tabs |-> Blank(FALSE, NoUser)]
    /\ events = [t \in Tabs |-> <<>>]
    /\ signIns = 0
    /\ other = 0

Other == other < MaxOther /\ other' = other + 1

Running(t) == tab[t].page # "away"

Become(t, state) == tab' = [tab EXCEPT ![t] = state]

\* The next number in requestSeqRef, and abortRef aborted.  The aborted request
\* rejects, or returns without a body: `res.json().catch(() => null)'.
Aborted(s) == [s EXCEPT !.cut = s.cut \/ s.request # NoRequest, !.request = NoRequest]

\* Bug: the request under way is not aborted.
Suppressed_Unaborted(s) == [s EXCEPT !.suppressed = TRUE, !.cache = NoUser]
\* Bug: the cached account stays.
Suppressed_KeepsCache(s) == [Aborted(s) EXCEPT !.suppressed = TRUE]

Suppressed(s) == [Aborted(s) EXCEPT !.suppressed = TRUE, !.cache = NoUser]

\* Bug: what was loading goes on loading.
Cleared_StillLoading(s) == [Suppressed(s) EXCEPT !.cleared = TRUE, !.shown = NoUser]

\* What clearAccount makes of a tab, without the announcement.
Cleared(s) == [Suppressed(s) EXCEPT !.cleared = TRUE, !.shown = NoUser, !.loading = FALSE]

AlreadyCleared(s) == s.cleared /\ s.suppressed /\ s.shown = NoUser

\* Starting a request for the account, when that is not suppressed.
Asking(s, background, fallback, crossTab) ==
    [Aborted(s) EXCEPT
        !.loading = @ \/ ~background,
        !.request = [state |-> "asked", user |-> NoUser,
                     fallback |-> fallback, crossTab |-> crossTab]]

\* broadcastAccountState: a storage event for every other tab with a page.
Announce(t, signedIn) ==
    events' = [x \in Tabs |-> IF x # t /\ Running(x) THEN Append(events[x], signedIn)
                                                     ELSE events[x]]

Markers(s) == [s EXCEPT !.marker = TRUE]
-----------------------------------------------------------------------------
(* Pages. *)

\* Bug: the cached account itself is passed on, and the marker is not read.
Load_Fallback(t) ==
    /\ tab[t].page = "away"
    /\ Become(t, Asking([tab[t] EXCEPT !.page = "app", !.shown = tab[t].cache],
                        tab[t].cache # NoUser, tab[t].cache, TRUE))
    /\ cookie' = FALSE
    /\ UNCHANGED <<session, purged, events, counters>>

\* A page is loaded.  After an exit it comes up signed out and asks nobody; else
\* it shows the account it has cached while it asks.
Load(t) ==
    LET s == tab[t]
        cached == s.cache # NoUser
    IN  /\ s.page = "away"
        /\ IF cookie \/ s.marker
             THEN Become(t, [Blank(FALSE, NoUser) EXCEPT
                                !.page = "app", !.suppressed = TRUE, !.cleared = TRUE])
             ELSE Become(t, Asking([s EXCEPT !.page = "app", !.shown = s.cache, !.loading = ~cached],
                                   cached, cached, TRUE))
        /\ cookie' = FALSE
        /\ UNCHANGED <<session, purged, events, counters>>

\* The page is gone, and with it everything but sessionStorage.
Unload(t) ==
    /\ Become(t, Blank(tab[t].marker, tab[t].cache))
    /\ events' = [events EXCEPT ![t] = <<>>]

\* Closing or reloading the page.
Close(t) ==
    /\ tab[t].page = "app"
    /\ Other
    /\ Unload(t)
    /\ UNCHANGED <<session, purged, cookie, signIns>>

\* The navigation to /auth/logout ends the browser's session, whoever has it.
Depart(t) ==
    /\ tab[t].page = "leaving"
    /\ session' = NoUser
    /\ Unload(t)
    /\ UNCHANGED <<purged, cookie, counters>>

\* The sign-in page, linked where nobody is shown; it ends in a new page.
SignIn(t, u) ==
    /\ tab[t].page = "app" /\ tab[t].shown = NoUser
    /\ u \notin purged
    /\ signIns < MaxSignIns
    /\ signIns' = signIns + 1
    /\ session' = u
    /\ Unload(t)
    /\ UNCHANGED <<purged, cookie, other>>

\* The session ends at its provider.
SessionEnds ==
    /\ session # NoUser
    /\ Other
    /\ session' = NoUser
    /\ UNCHANGED <<purged, cookie, tab, events, signIns>>

Purge(u) ==
    /\ u \notin purged
    /\ Other
    /\ purged' = purged \union {u}
    /\ UNCHANGED <<session, cookie, tab, events, signIns>>

\* Markers are ignored two minutes after they were written.
MarkerExpires ==
    /\ \/ cookie /\ cookie' = FALSE /\ UNCHANGED tab
       \/ \E t \in Tabs : /\ tab[t].marker
                          /\ Become(t, [tab[t] EXCEPT !.marker = FALSE])
                          /\ UNCHANGED cookie
    /\ Other
    /\ UNCHANGED <<session, purged, events, signIns>>
-----------------------------------------------------------------------------
(* Asking for the account. *)

\* reloadAccount, for the pages and for realtime events.
Reload(t, background, fallback) ==
    /\ Running(t)
    /\ Other
    /\ IF tab[t].suppressed
         THEN Become(t, [tab[t] EXCEPT !.loading = @ /\ background])
         ELSE Become(t, Asking(tab[t], background, fallback, TRUE))
    /\ UNCHANGED <<session, purged, cookie, events, signIns>>

\* Nothing is under way in any tab.
Quiet == \A t \in Tabs : /\ tab[t].page # "leaving" /\ ~tab[t].cut /\ ~tab[t].deleting
                         /\ tab[t].request = NoRequest /\ events[t] = <<>>

\* The refresh of every minute; a minute is longer than a request is under way.
Interval(t) ==
    /\ Quiet
    /\ tab[t].page = "app" /\ ~tab[t].suppressed
    /\ Become(t, Asking(tab[t], TRUE, TRUE, TRUE))
    /\ UNCHANGED <<session, purged, cookie, events, counters>>

\* The server answers for the session as it is now.
Serve(t) ==
    /\ tab[t].request.state = "asked"
    /\ \E answer \in Answers \ {"none", "asked"} :
        /\ answer = "unauthorized" => session = NoUser
        /\ answer = "terminal" => session \in purged
        /\ answer \in {"account", "cut"} => session \in Users \ purged
        /\ IF answer \in {"cut", "failed"} THEN Other ELSE UNCHANGED other
        /\ Become(t, [tab[t] EXCEPT !.request.state = answer,
                          !.request.user = IF answer = "account" THEN session ELSE NoUser])
    /\ UNCHANGED <<session, purged, cookie, events, signIns>>

Answered(t, answer) == tab[t].request.state = answer

\* Bug: the answer is cached and not rendered.
AnswerAccount_CacheOnly(t) ==
    /\ Answered(t, "account")
    /\ Become(t, [tab[t] EXCEPT !.suppressed = FALSE, !.cleared = FALSE, !.loading = FALSE,
                      !.cache = tab[t].request.user, !.request = NoRequest])
    /\ IF tab[t].request.crossTab THEN Announce(t, TRUE) ELSE UNCHANGED events
    /\ UNCHANGED <<session, purged, cookie, counters>>

AnswerAccount(t) ==
    /\ Answered(t, "account")
    /\ Become(t, [tab[t] EXCEPT !.suppressed = FALSE, !.cleared = FALSE, !.loading = FALSE,
                      !.cache = tab[t].request.user, !.shown = tab[t].request.user,
                      !.request = NoRequest])
    /\ IF tab[t].request.crossTab THEN Announce(t, TRUE) ELSE UNCHANGED events
    /\ UNCHANGED <<session, purged, cookie, counters>>

\* An answer that cannot be read is taken for "nobody is signed in".
AnswerCut(t) ==
    /\ Answered(t, "cut")
    /\ Become(t, [tab[t] EXCEPT !.suppressed = TRUE, !.cleared = TRUE, !.loading = FALSE,
                      !.cache = NoUser, !.shown = NoUser, !.request = NoRequest])
    /\ IF tab[t].request.crossTab THEN Announce(t, FALSE) ELSE UNCHANGED events
    /\ UNCHANGED <<session, purged, cookie, counters>>

\* clearAccount with an exit reason, and redirectToLogout.
SendAway(t) ==
    /\ Become(t, [Markers(IF AlreadyCleared(tab[t]) THEN Suppressed(tab[t]) ELSE Cleared(tab[t]))
                    EXCEPT !.page = "leaving"])
    /\ cookie' = TRUE
    /\ IF AlreadyCleared(tab[t]) THEN UNCHANGED events ELSE Announce(t, FALSE)

\* No session: somebody who is shown is sent to sign out, nobody is just cleared.
AnswerUnauthorized(t) ==
    /\ Answered(t, "unauthorized")
    /\ IF tab[t].shown # NoUser
         THEN SendAway(t)
         ELSE Become(t, Cleared(tab[t])) /\ Announce(t, FALSE) /\ UNCHANGED cookie
    /\ UNCHANGED <<session, purged, counters>>

\* The account is gone: the request itself tells the provider.
AnswerTerminal(t) ==
    /\ Answered(t, "terminal")
    /\ SendAway(t)
    /\ UNCHANGED <<session, purged, counters>>

\* All attempts failed: what is shown stays, where the caller allows it.
AnswerFailed(t) ==
    LET kept == IF tab[t].request.fallback THEN tab[t].shown ELSE NoUser
    IN  /\ Answered(t, "failed")
        /\ Become(t, [tab[t] EXCEPT !.shown = kept, !.loading = FALSE, !.request = NoRequest,
                          !.suppressed = @ /\ kept = NoUser, !.cleared = @ /\ kept = NoUser])
        /\ UNCHANGED <<session, purged, cookie, events, counters>>

Answer(t) == \/ AnswerAccount(t) \/ AnswerCut(t) \/ AnswerUnauthorized(t)
             \/ AnswerTerminal(t) \/ AnswerFailed(t)

\* A request that was aborted ends; its number is no longer requestSeqRef.
Late(t) ==
    /\ tab[t].cut
    /\ Become(t, [tab[t] EXCEPT !.cut = FALSE])
    /\ UNCHANGED <<session, purged, cookie, events, counters>>

\* Bug: the refresh another tab asked for is announced as well.
Hear_Announces(t) ==
    /\ Running(t) /\ events[t] # <<>>
    /\ events' = [events EXCEPT ![t] = Tail(@)]
    /\ Become(t, IF Head(events[t])
                   THEN Asking([tab[t] EXCEPT !.suppressed = FALSE], TRUE, TRUE, TRUE)
                   ELSE IF AlreadyCleared(tab[t]) THEN Suppressed(tab[t]) ELSE Cleared(tab[t]))
    /\ UNCHANGED <<session, purged, cookie, counters>>

\* Another tab's announcement.  Somebody signed in: ask, and do not announce.
Hear(t) ==
    /\ Running(t) /\ events[t] # <<>>
    /\ events' = [events EXCEPT ![t] = Tail(@)]
    /\ Become(t, IF Head(events[t])
                   THEN Asking([tab[t] EXCEPT !.suppressed = FALSE], TRUE, TRUE, FALSE)
                   ELSE IF AlreadyCleared(tab[t]) THEN Suppressed(tab[t]) ELSE Cleared(tab[t]))
    /\ UNCHANGED <<session, purged, cookie, counters>>
-----------------------------------------------------------------------------
(* Leaving. *)

\* beginAccountExit, and the navigation to /auth/logout.
Leaving(s) == [Markers(Suppressed(s)) EXCEPT !.page = "leaving", !.deleting = FALSE]

\* The log-out button of the profile that is shown.
Logout(t) ==
    /\ tab[t].page = "app" /\ tab[t].shown # NoUser /\ ~tab[t].deleting
    /\ Become(t, Leaving(tab[t]))
    /\ cookie' = TRUE
    /\ UNCHANGED <<session, purged, events, counters>>

AskDeletion(t) ==
    /\ tab[t].page = "app" /\ tab[t].shown # NoUser /\ ~tab[t].deleting
    /\ Other
    /\ Become(t, [tab[t] EXCEPT !.deleting = TRUE])
    /\ UNCHANGED <<session, purged, cookie, events, signIns>>

\* The deletion is accepted, whatever the tab shows by now, or refused.
DeletionAnswered(t) ==
    /\ tab[t].deleting
    /\ \/ Become(t, Leaving(tab[t])) /\ cookie' = TRUE
       \/ Become(t, [tab[t] EXCEPT !.deleting = FALSE]) /\ UNCHANGED cookie
    /\ UNCHANGED <<session, purged, events, counters>>

\* Any other request of the page is told that the account is gone.
Invalidated(t) ==
    /\ tab[t].page = "app" /\ tab[t].shown # NoUser /\ session \in purged
    /\ SendAway(t)
    /\ UNCHANGED <<session, purged, counters>>

Next ==
    \/ \E t \in Tabs :
        \/ Load(t) \/ Close(t) \/ Depart(t)
        \/ \E u \in Users : SignIn(t, u)
        \/ \E background, fallback \in BOOLEAN : Reload(t, background, fallback)
        \/ Interval(t) \/ Serve(t) \/ Answer(t) \/ Late(t) \/ Hear(t)
        \/ Logout(t) \/ AskDeletion(t) \/ DeletionAnswered(t) \/ Invalidated(t)
    \/ SessionEnds
    \/ \E u \in Users : Purge(u)
    \/ MarkerExpires

Spec == Init /\ [][Next]_vars

\* Requests are answered, events are delivered, a navigation arrives.  A tab's
\* interval goes off again and again, but other tabs may be busy whenever it
\* does: what comes again and again must happen (SF).
Fairness == \A t \in Tabs :
    /\ WF_vars(Serve(t)) /\ WF_vars(Answer(t)) /\ WF_vars(Late(t)) /\ WF_vars(Hear(t))
    /\ WF_vars(Depart(t)) /\ WF_vars(DeletionAnswered(t))
    /\ SF_vars(Interval(t))

FairSpec == Spec /\ Fairness
-----------------------------------------------------------------------------
\* Safety: a tab that left or was told that nobody is signed in waits for no
\* answer and keeps nothing that its next page would show.
ExitLeavesNothing ==
    \A t \in Tabs : tab[t].suppressed => tab[t].request = NoRequest /\ tab[t].cache = NoUser

\* Action property: in such a tab nothing brings the profile back, "so a late
\* focus/pageshow/realtime event cannot briefly restore the signed-in profile"
\* (account_provider.jsx 379-381); only another tab's announcement ends this.
ExitHolds ==
    [][\A t \in Tabs : tab[t].suppressed => tab'[t].shown \in {tab[t].shown, NoUser}]_vars

\* Safety: a tab that says it is loading has a request that will end it, however
\* many were started, overtaken and aborted; or it is leaving.
NotStuckLoading ==
    \A t \in Tabs : tab[t].loading => tab[t].request # NoRequest \/ tab[t].page = "leaving"

\* Liveness: tabs do not keep each other busy: "two open tabs would otherwise
\* continuously refresh each other" (account_provider.jsx 616-617).
TabsQuieten == []<>Quiet

\* Liveness: in the end every page shows whom the session belongs to, or nobody,
\* and nobody only if it was told so.
TabsFollowSession ==
    <>[](\A t \in Tabs : Running(t) =>
            \/ tab[t].shown = session
            \/ tab[t].shown = NoUser /\ tab[t].suppressed)

\* Liveness: when nobody does anything any more, the tabs come to rest, and agree
\* with the session.
TabsSettle == TabsQuieten /\ TabsFollowSession
=============================================================================
