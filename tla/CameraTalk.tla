------------------------------ MODULE CameraTalk ------------------------------
(***************************************************************************)
(* Talking to a camera from a dashboard page.  A click starts a run of     *)
(* startDashboardCameraTalk, which waits for the microphone, for a session *)
(* of the server and for its offer to be taken; the server tells the phone *)
(* with push messages, which may be lost and arrive in any order.  A       *)
(* session has the name of the run that asked for it.                      *)
(***************************************************************************)
EXTENDS Naturals, FiniteSets

CONSTANTS Camera, Run, None,
          MaxLosses   \* bound: push messages and notices of the page that get lost

VARIABLES
  camera,     \* of each run: the camera it is about
  at,         \* of each run: what it waits for; "over" once it let go
  open,       \* androidCameraTalkSessions: the run of each camera
  requested,  \* cameraTalkRequested of each button
  lit,        \* the button shows an active talk
  gone,       \* the page was left
  state,      \* VOICE_TALK_SESSIONS: the state of each session
  answered,   \* sessions with an answer
  linked,     \* runs that took the answer
  phone,      \* what the phone does about each session
  push,       \* push messages on their way to the phone
  reports,    \* posts of the phone on their way
  notices,    \* sessions the page told the server to end
  early,      \* history: sessions that were over before the phone took part
  losses

page == <<camera, at, open, requested, lit, gone>>
server == <<state, answered, early>>
vars == <<page, server, linked, phone, push, reports, notices, losses>>

Terminal == {"ended", "failed", "expired"}
Waits == {"microphone", "session", "offer"}

TypeOK ==
  /\ camera \in [Run -> Camera \cup {None}]
  /\ at \in [Run -> Waits \cup {"unused", "live", "stopped", "over"}]
  /\ open \in [Camera -> Run \cup {None}]
  /\ \A c \in Camera : open[c] # None => camera[open[c]] = c /\ at[open[c]] \in {"offer", "live"}
  /\ requested \in [Camera -> BOOLEAN] /\ lit \in [Camera -> BOOLEAN] /\ gone \in BOOLEAN
  /\ state \in [Run -> Terminal \cup {"none", "requested", "offered", "answered", "connected"}]
  /\ phone \in [Run -> {"none", "talking", "connected", "over"}]
  /\ answered \subseteq Run /\ linked \subseteq answered /\ notices \cup early \subseteq Run
  /\ push \subseteq Run \X {"request", "end"}
  /\ reports \subseteq Run \X {"answer", "connected", "ended"}

Init ==
  /\ camera = [r \in Run |-> None] /\ at = [r \in Run |-> "unused"]
  /\ open = [c \in Camera |-> None]
  /\ requested = [c \in Camera |-> FALSE] /\ lit = [c \in Camera |-> FALSE] /\ gone = FALSE
  /\ state = [r \in Run |-> "none"] /\ phone = [r \in Run |-> "none"]
  /\ answered = {} /\ linked = {} /\ push = {} /\ reports = {} /\ notices = {}
  /\ early = {} /\ losses = 0

-----------------------------------------------------------------------------
(* The page.                                                               *)

\* Stopping finds only runs whose session is open.  One that still waits for
\* its offer to be posted is told when the post is over.
Opened(C) == {open[c] : c \in C} \ {None}

Released(R) ==
  [r \in Run |-> IF r \notin R THEN at[r] ELSE IF at[r] = "offer" THEN "stopped" ELSE "over"]

StopLeavingOpen(C, notify) ==
  /\ UNCHANGED open
  /\ requested' = [c \in Camera |-> requested[c] /\ c \notin C]
  /\ lit' = [c \in Camera |-> lit[c] /\ c \notin C]
  /\ notices' = IF notify THEN notices \cup Opened(C) ELSE notices

Stop(C, notify) ==
  /\ open' = [c \in Camera |-> IF c \in C THEN None ELSE open[c]]
  /\ requested' = [c \in Camera |-> requested[c] /\ c \notin C]
  /\ lit' = [c \in Camera |-> lit[c] /\ c \notin C]
  /\ notices' = IF notify THEN notices \cup Opened(C) ELSE notices

IsOnOrPending(c) == open[c] # None \/ requested[c] \/ lit[c]

ToggleOff(c) ==
  /\ ~gone /\ IsOnOrPending(c)
  /\ at' = Released(Opened({c})) /\ Stop({c}, TRUE)
  /\ UNCHANGED <<camera, gone, server, linked, phone, push, reports, losses>>

\* Every other talk is stopped first.
ToggleOn(c, r) ==
  /\ ~gone /\ ~IsOnOrPending(c) /\ at[r] = "unused"
  /\ at' = [Released(Opened(Camera)) EXCEPT ![r] = "microphone"]
  /\ camera' = [camera EXCEPT ![r] = c]
  /\ open' = [d \in Camera |-> None] /\ lit' = [d \in Camera |-> FALSE]
  /\ requested' = [d \in Camera |-> d = c]
  /\ notices' = notices \cup Opened(Camera)
  /\ UNCHANGED <<gone, server, linked, phone, push, reports, losses>>

\* A run that fails stops what is open for its camera, itself or not.
Fail(r) ==
  /\ \/ at[r] \in {"microphone", "session"}
     \/ at[r] \in {"offer", "stopped"} /\ state[r] \in Terminal
  /\ at' = [Released(Opened({camera[r]})) EXCEPT ![r] = "over"]
  /\ Stop({camera[r]}, TRUE)
  /\ UNCHANGED <<camera, gone, server, linked, phone, push, reports, losses>>

MicrophoneGranted(r) ==
  /\ at[r] = "microphone"
  /\ at' = [at EXCEPT ![r] = IF requested[camera[r]] THEN "session" ELSE "over"]
  /\ UNCHANGED <<camera, open, requested, lit, gone, server, linked, phone, push, reports, notices, losses>>

SessionCreated(r) ==
  /\ at[r] = "session"
  /\ state' = [state EXCEPT ![r] = "requested"]
  /\ at' = [at EXCEPT ![r] = "offer"]
  /\ open' = [open EXCEPT ![camera[r]] = r]
  /\ UNCHANGED <<camera, requested, lit, gone, answered, linked, phone, push, reports, notices, early, losses>>

OfferPosted(r) ==
  /\ at[r] \in {"offer", "stopped"} /\ state[r] \notin Terminal
  /\ state' = [state EXCEPT ![r] = "offered"]
  /\ push' = push \cup {<<r, "request">>}
  /\ at' = [at EXCEPT ![r] = IF @ = "offer" THEN "live" ELSE "over"]
  /\ lit' = [lit EXCEPT ![camera[r]] = TRUE]
  /\ UNCHANGED <<camera, open, requested, gone, answered, linked, phone, reports, notices, early, losses>>

\* A poll of a live run: it ends with its session, or takes the answer.
Poll(r) ==
  /\ at[r] = "live"
  /\ IF state[r] \in Terminal
     THEN /\ at' = Released(Opened({camera[r]})) /\ Stop({camera[r]}, FALSE)
          /\ UNCHANGED linked
     ELSE /\ r \in answered \ linked /\ linked' = linked \cup {r}
          /\ UNCHANGED <<at, open, requested, lit, notices>>
  /\ UNCHANGED <<camera, gone, server, phone, push, reports, losses>>

\* connectTimer of a run: 20 s without a connection.
ConnectTimeout(r) ==
  /\ at[r] = "live" /\ phone[r] # "connected"
  /\ at' = Released(Opened({camera[r]})) /\ Stop({camera[r]}, TRUE)
  /\ UNCHANGED <<camera, gone, server, linked, phone, push, reports, losses>>

PageHide ==
  /\ ~gone /\ gone' = TRUE
  /\ at' = [r \in Run |-> "over"] /\ Stop(Camera, TRUE)
  /\ UNCHANGED <<camera, server, linked, phone, push, reports, losses>>

-----------------------------------------------------------------------------
(* The server.                                                             *)

\* Whoever ends a session does so whatever state it is in.
End(r, s) ==
  /\ state' = [state EXCEPT ![r] = s]
  /\ early' = IF phone[r] = "none" THEN early \cup {r} ELSE early

NoticeArrives(r) ==
  /\ r \in notices /\ notices' = notices \ {r}
  /\ IF state[r] = "none" THEN UNCHANGED <<state, early, push>>
     ELSE End(r, "ended") /\ push' = push \cup {<<r, "end">>}
  /\ UNCHANGED <<page, answered, linked, phone, reports, losses>>

NoticeLost(r) ==
  /\ r \in notices /\ losses < MaxLosses
  /\ notices' = notices \ {r} /\ losses' = losses + 1
  /\ UNCHANGED <<page, server, linked, phone, push, reports>>

ExpiresPending(r) == state[r] \in {"requested", "offered"}
Expires(r) == state[r] \notin Terminal \cup {"none"}

\* prune_voice_talk_sessions: 30 s after the last change, 120 s in all.
Expire(r) ==
  /\ Expires(r)
  /\ End(r, "expired")
  /\ UNCHANGED <<page, answered, linked, phone, push, reports, notices, losses>>

-----------------------------------------------------------------------------
(* The phone and its endpoints.                                            *)

MayClaim(r) == state[r] \notin Terminal \cup {"none", "requested"}

\* A request reaches the phone, or the phone asks for pending sessions; both
\* ways it gets the offer only as long as the session is not over.
Claim(r) ==
  /\ phone[r] = "none"
  /\ \/ <<r, "request">> \in push /\ push' = push \ {<<r, "request">>}
     \/ UNCHANGED push
  /\ MayClaim(r)
  /\ phone' = [phone EXCEPT ![r] = "talking"]
  /\ reports' = reports \cup {<<r, "answer">>}
  /\ UNCHANGED <<page, server, linked, notices, losses>>

RequestDropped(r) ==
  /\ <<r, "request">> \in push /\ push' = push \ {<<r, "request">>}
  /\ phone[r] # "none" \/ ~MayClaim(r)
  /\ UNCHANGED <<page, server, linked, phone, reports, notices, losses>>

PushLost(m) ==
  /\ m \in push /\ losses < MaxLosses
  /\ push' = push \ {m} /\ losses' = losses + 1
  /\ UNCHANGED <<page, server, linked, phone, reports, notices>>

Connect(r) ==
  /\ phone[r] = "talking" /\ r \in linked /\ at[r] = "live"
  /\ phone' = [phone EXCEPT ![r] = "connected"]
  /\ reports' = reports \cup {<<r, "connected">>}
  /\ UNCHANGED <<page, server, linked, push, notices, losses>>

\* The talk ends on the phone: it was told, or the page let go.
HangUp(r) ==
  /\ \/ <<r, "end">> \in push /\ push' = push \ {<<r, "end">>}
     \/ at[r] = "over" /\ phone[r] # "none" /\ UNCHANGED push
  /\ IF phone[r] \in {"talking", "connected"}
     THEN phone' = [phone EXCEPT ![r] = "over"] /\ reports' = reports \cup {<<r, "ended">>}
     ELSE <<r, "end">> \in push /\ UNCHANGED <<phone, reports>>
  /\ UNCHANGED <<page, server, linked, notices, losses>>

PhoneFails(r) ==
  /\ phone[r] \in {"talking", "connected"}
  /\ phone' = [phone EXCEPT ![r] = "over"] /\ reports' = reports \cup {<<r, "ended">>}
  /\ UNCHANGED <<page, server, linked, push, notices, losses>>

\* An answer comes too late for a session that is over; a state does not.
ReportArrives(r, what) ==
  /\ <<r, what>> \in reports /\ reports' = reports \ {<<r, what>>}
  /\ CASE what = "answer" ->
            IF state[r] \in Terminal THEN UNCHANGED <<state, answered, early>>
            ELSE state' = [state EXCEPT ![r] = "answered"] /\ answered' = answered \cup {r}
                 /\ UNCHANGED early
       [] what = "connected" ->
            state' = [state EXCEPT ![r] = "connected"] /\ UNCHANGED <<answered, early>>
       [] what = "ended" -> End(r, "ended") /\ UNCHANGED answered
  /\ UNCHANGED <<page, linked, phone, push, notices, losses>>

Next ==
  \/ \E c \in Camera : ToggleOff(c) \/ \E r \in Run : ToggleOn(c, r)
  \/ \E r \in Run : Fail(r) \/ MicrophoneGranted(r) \/ SessionCreated(r) \/ OfferPosted(r)
  \/ \E r \in Run : Poll(r) \/ ConnectTimeout(r) \/ NoticeArrives(r) \/ NoticeLost(r) \/ Expire(r)
  \/ \E r \in Run : Claim(r) \/ RequestDropped(r) \/ Connect(r) \/ HangUp(r) \/ PhoneFails(r)
  \/ \E r \in Run, what \in {"answer", "connected", "ended"} : ReportArrives(r, what)
  \/ \E m \in push : PushLost(m)
  \/ PageHide

Spec == Init /\ [][Next]_vars

\* Awaited calls return, timers and polls run, messages arrive.  Nobody has
\* to click, and nothing says that a talk gets connected.
Fairness ==
  \A r \in Run :
    /\ WF_vars(MicrophoneGranted(r)) /\ WF_vars(SessionCreated(r))
    /\ WF_vars(OfferPosted(r) \/ Fail(r))
    /\ WF_vars(Poll(r)) /\ WF_vars(NoticeArrives(r)) /\ WF_vars(Expire(r))
    /\ WF_vars(HangUp(r)) /\ WF_vars(RequestDropped(r))
    /\ \A what \in {"answer", "connected", "ended"} : WF_vars(ReportArrives(r, what))

FairSpec == Spec /\ Fairness

-----------------------------------------------------------------------------
(* Properties.                                                             *)

\* A session that was over before the phone took part never makes it talk,
\* though the push that ends it may overtake the one that announces it.
NoTalkAfterEnd == \A r \in early : phone[r] = "none"

\* A talk the server holds comes to an end even if the page is gone and its
\* last notice lost, and stays ended though a late report revives it.
SessionsEnd == \A r \in Run : <>[](state[r] \in Terminal \cup {"none"})

\* The page lets go of a talk that ended on the phone, though the report of
\* it may be overtaken and undone by the one that it was connected.
PageFollows == \A r \in Run : phone[r] = "over" ~> at[r] # "live"

\* Only one talk holds the microphone once its start is through.
OneTarget == \A r, q \in Run : at[r] = "live" /\ at[q] = "live" => r = q

\* A button that is off is off for good, until it is clicked again.
OffReleases ==
  [][\A c \in Camera : ~IsOnOrPending(c) /\ IsOnOrPending(c)' => requested'[c]]_vars
=============================================================================
