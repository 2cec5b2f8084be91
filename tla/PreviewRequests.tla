---------------------------- MODULE PreviewRequests ----------------------------
(***************************************************************************)
(* How an Android camera learns whether somebody watches it: the pages of  *)
(* the dashboard post that they show the camera (static/js/dashboard-api,  *)
(* dashboard-main), the server keeps the viewers (subsystems/client-       *)
(* android-home) and tells the phone by push messages, each sent by its    *)
(* own thread, and in the answers to the phone's polls and frame uploads.  *)
(*                                                                         *)
(* The phone is known from what src/ says of it: it stores what a push or  *)
(* an answer tells it, polls for ever, and uploads frames while somebody   *)
(* watches.  Posts, pushes and answers overtake each other and get lost.   *)
(* One camera with a push token and nothing to record or detect.           *)
(***************************************************************************)
EXTENDS Naturals

CONSTANTS
  Page,
  PhonePoll,   \* the phone's heartbeat
  Upload,      \* its concurrent frame uploads
  ViewerTTL,   \* PREVIEW_VIEWER_TTL_SECONDS
  None,
  MaxNotices,  \* bound: push messages of a kind in flight
  MaxLeft      \* bound: pages that are closed

ASSUME PreviewRequestsAssumption == ViewerTTL \in Nat /\ MaxNotices \in Nat /\ MaxLeft \in Nat

VARIABLES
  active,   \* previewActiveDeviceIds of each page has the camera
  post,     \* previewViewerPostInflight: none, sent, or served and not answered
  recent,   \* what each page posted within previewViewerMinRepeatMs
  viewers,  \* preview_viewers: how long ago each page asked, None without
  notices,  \* push messages in flight, by what they tell
  told,     \* history: what the last push that was sent told
  prefs,    \* system_prefs.previewRequested of the phone
  talk,     \* the phone's requests: none, asked, or answered on or off
  left      \* bound

vars == <<active, post, recent, viewers, notices, told, prefs, talk, left>>
pages == <<active, post, recent, left>>

Channel == {PhonePoll} \cup Upload
Nobody == [p \in Page |-> None]

\* Everything is where the code can leave it.
TypeOK ==
  /\ active \in [Page -> BOOLEAN] /\ recent \in [Page -> BOOLEAN \cup {None}]
  /\ post \in [Page \X BOOLEAN -> {"none", "sent", "served"}]
  /\ viewers \in [Page -> (0 .. ViewerTTL + 1) \cup {None}]
  /\ notices \in [BOOLEAN -> 0 .. MaxNotices]
  /\ {told, prefs} \subseteq BOOLEAN
  /\ talk \in [Channel -> {"none", "asked", "on", "off"}] /\ left \in 0 .. MaxLeft

\* preview_requested_for_client: the viewers that asked in time.
Pruned == [p \in Page |-> IF viewers[p] = None \/ viewers[p] > ViewerTTL THEN None ELSE viewers[p]]
Requested(v) == v # Nobody

Init ==
  /\ active = [p \in Page |-> FALSE] /\ recent = [p \in Page |-> None]
  /\ post = [x \in Page \X BOOLEAN |-> "none"]
  /\ viewers = Nobody
  /\ notices = [b \in BOOLEAN |-> 0] /\ told = FALSE
  /\ prefs = FALSE
  /\ talk = [ch \in Channel |-> "none"] /\ left = 0

-----------------------------------------------------------------------------
(* The pages. *)

\* setPreviewViewer: not while the same wish is in flight, or was sent lately.
Send(p, wish) ==
  IF post[<<p, wish>>] # "none" \/ recent[p] = wish
  THEN UNCHANGED <<post, recent>>
  ELSE /\ post' = [post EXCEPT ![<<p, wish>>] = "sent"]
       /\ recent' = [recent EXCEPT ![p] = wish]

\* updatePreviewViewerState: the card comes into view, or is no longer shown.
Open(p) ==
  /\ ~active[p] /\ active' = [active EXCEPT ![p] = TRUE] /\ Send(p, TRUE)
  /\ UNCHANGED <<viewers, notices, told, prefs, talk, left>>

Close(p) ==
  /\ active[p] /\ active' = [active EXCEPT ![p] = FALSE] /\ Send(p, FALSE)
  /\ UNCHANGED <<viewers, notices, told, prefs, talk, left>>

\* The heartbeat of a visible page.
Beat(p) ==
  /\ active[p] /\ Send(p, TRUE)
  /\ <<post, recent>>' # <<post, recent>>
  /\ UNCHANGED <<active, viewers, notices, told, prefs, talk, left>>

\* The page is closed: a beacon goes out whatever is in flight.
Leave(p) ==
  /\ active[p] /\ left < MaxLeft /\ left' = left + 1
  /\ active' = [active EXCEPT ![p] = FALSE]
  /\ post' = [post EXCEPT ![<<p, FALSE>>] = "sent"]
  /\ recent' = [recent EXCEPT ![p] = FALSE]
  /\ UNCHANGED <<viewers, notices, told, prefs, talk>>

\* The repeat time is over.
Settle(p) ==
  /\ recent[p] # None /\ recent' = [recent EXCEPT ![p] = None]
  /\ UNCHANGED <<active, post, viewers, notices, told, prefs, talk, left>>

\* The post is answered, or fails before or after it was served.
Done(p, wish) ==
  /\ post[<<p, wish>>] # "none" /\ post' = [post EXCEPT ![<<p, wish>>] = "none"]
  /\ UNCHANGED <<active, recent, viewers, notices, told, prefs, talk, left>>

-----------------------------------------------------------------------------
(* The server. *)

\* A mutant: the push tells what this page wants.
NotifyWish(before, after, p, wish) ==
  IF wish # (before[p] # None)
  THEN told' = wish /\ notices' = [notices EXCEPT ![wish] = IF @ < MaxNotices THEN @ + 1 ELSE @]
  ELSE UNCHANGED <<told, notices>>

\* A new viewer, or the end of the last one, is pushed to the phone; a message
\* beyond MaxNotices is one that got lost.
Notify(before, after, p, wish) ==
  IF (wish /\ before[p] = None) \/ (Requested(before) /\ ~Requested(after))
  THEN LET on == Requested(after) IN
       told' = on /\ notices' = [notices EXCEPT ![on] = IF @ < MaxNotices THEN @ + 1 ELSE @]
  ELSE UNCHANGED <<told, notices>>

\* api_preview_viewer: expired viewers go first, then this page comes or goes.
Serve(p, wish) ==
  /\ post[<<p, wish>>] = "sent" /\ post' = [post EXCEPT ![<<p, wish>>] = "served"]
  /\ viewers' = [Pruned EXCEPT ![p] = IF wish THEN 0 ELSE None]
  /\ Notify(Pruned, viewers', p, wish)
  /\ UNCHANGED <<active, recent, prefs, talk, left>>

\* A poll or an upload is answered with what the viewers ask for.
Answer(ch) ==
  /\ talk[ch] = "asked"
  /\ viewers' = Pruned
  /\ talk' = [talk EXCEPT ![ch] = IF Requested(Pruned) THEN "on" ELSE "off"]
  /\ UNCHANGED <<pages, notices, told, prefs>>

\* A status snapshot prunes too, and tells the phone nothing.
Status ==
  /\ viewers' = Pruned /\ viewers' # viewers
  /\ UNCHANGED <<pages, notices, told, prefs, talk>>

Tick ==
  /\ viewers' = [p \in Page |-> IF viewers[p] = None \/ viewers[p] > ViewerTTL THEN viewers[p] ELSE viewers[p] + 1]
  /\ viewers' # viewers
  /\ UNCHANGED <<pages, notices, told, prefs, talk>>

-----------------------------------------------------------------------------
(* The phone. *)

\* A push arrives, or is lost.
PushEnds(b, arrives) ==
  /\ notices[b] > 0 /\ notices' = [notices EXCEPT ![b] = @ - 1]
  /\ prefs' = IF arrives THEN b ELSE prefs
  /\ UNCHANGED <<pages, viewers, told, talk>>

Ask(ch) ==
  /\ talk[ch] = "none" /\ (ch = PhonePoll \/ prefs)
  /\ talk' = [talk EXCEPT ![ch] = "asked"]
  /\ UNCHANGED <<pages, viewers, notices, told, prefs>>

Apply(ch) ==
  /\ talk[ch] \in {"on", "off"}
  /\ prefs' = (talk[ch] = "on") /\ talk' = [talk EXCEPT ![ch] = "none"]
  /\ UNCHANGED <<pages, viewers, notices, told>>

\* The request or its answer is lost.
Lose(ch) ==
  /\ talk[ch] # "none" /\ talk' = [talk EXCEPT ![ch] = "none"]
  /\ UNCHANGED <<pages, viewers, notices, told, prefs>>

Next ==
  \/ \E p \in Page : Open(p) \/ Close(p) \/ Beat(p) \/ Leave(p) \/ Settle(p)
  \/ \E p \in Page, wish \in BOOLEAN : Serve(p, wish) \/ Done(p, wish)
  \/ \E ch \in Channel : Ask(ch) \/ Answer(ch) \/ Apply(ch) \/ Lose(ch)
  \/ \E b \in BOOLEAN, arrives \in BOOLEAN : PushEnds(b, arrives)
  \/ Status \/ Tick

\* Time passes and requests end; a page and a phone that try again and again
\* are heard at last, and so is a push that wakes the camera and is sent for
\* every page whose interest expired.  No push to stop it has to arrive.
Fairness ==
  /\ WF_vars(Tick)
  /\ \A p \in Page :
       /\ WF_vars(Beat(p)) /\ WF_vars(Settle(p)) /\ SF_vars(Serve(p, TRUE))
       /\ \A wish \in BOOLEAN : WF_vars(Serve(p, wish) \/ Done(p, wish))
  /\ WF_vars(Ask(PhonePoll)) /\ SF_vars(Answer(PhonePoll)) /\ SF_vars(Apply(PhonePoll))
  /\ \A ch \in Upload : WF_vars(Answer(ch) \/ Apply(ch) \/ Lose(ch))
  /\ \A b \in BOOLEAN : WF_vars(PushEnds(b, TRUE) \/ PushEnds(b, FALSE))
  /\ SF_vars(PushEnds(TRUE, TRUE))

Spec == Init /\ [][Next]_vars
FairSpec == Spec /\ Fairness

-----------------------------------------------------------------------------
(* Properties. *)

\* While the server counts a viewer, the last push it sent woke the camera,
\* whichever of several viewers came, left, or was forgotten in between.
LastPushWakes == Requested(viewers) => told

\* When no page shows the camera any more, it stops at last for good, although
\* pushes and posts are lost, and those to start it arrive after those to stop.
CameraRests == <>[](\A p \in Page : ~active[p]) => <>[]~prefs

\* A camera that a page goes on showing runs again and again, although its
\* posts are skipped, lost, or overtaken, and its interest expires meanwhile.
CameraWakes == \A p \in Page : <>[]active[p] => []<>prefs
=============================================================================
