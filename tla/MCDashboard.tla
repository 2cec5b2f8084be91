----------------------------- MODULE MCDashboard -----------------------------
(***************************************************************************)
(* What the dashboard shows, for TLC: uploads of videos, the status        *)
(* stream, the activity log, the notification history and the previews of  *)
(* Tapo cameras. The components share no state: a behaviour is about one   *)
(* of them, as part says, and the others stay in their initial states.     *)
(***************************************************************************)
EXTENDS VideoUpload

CONSTANTS Parts, Remover

VARIABLES
  part, \* which component the behaviour is about
  version, lock, writer, listeners, queue, free, lease, streamStep, hand,
  shown, snapshotShown, revoked, gone, overtakenPayload,
  now, events, signature, queued, logDisk, stamped, page, overtaken,
  logCrashes,
  server, history, appended, tool, read, recovery, swallowed, overlapped,
  starts, tears, runs,
  watching, request, client, viewers, stream, slot, used

Stream == INSTANCE StatusStream WITH
  Streams <- {"s1"}, Writers <- {"w1", "w2"}, Limit <- 1, MaxVersion <- 3,
  step <- streamStep, first <- snapshotShown, overtaken <- overtakenPayload
Slots == INSTANCE StatusStream WITH
  Streams <- {"s1", "s2"}, Writers <- {"w1"}, Limit <- 1, MaxVersion <- 1,
  step <- streamStep, first <- snapshotShown, overtaken <- overtakenPayload
Pages == INSTANCE ActivityLog WITH
  StateKinds <- {"k1"}, EventKinds <- {"k2"}, Initial <- {"k1"},
  States <- {"on"}, Threads <- {"t1", "t2"}, Readers <- {"r1"}, Buckets <- 2,
  BucketTime <- 2, Limit <- 1, MaxWait <- 1, MaxTime <- 4, MaxCrashes <- 0,
  disk <- logDisk, crashes <- logCrashes
Log == INSTANCE ActivityLog WITH
  StateKinds <- {"k1", "k2"}, EventKinds <- {"k3"}, Initial <- {"k1"},
  States <- {"on", "off"}, Threads <- {"t1"}, Readers <- {}, Buckets <- 2,
  BucketTime <- 2, Limit <- 1, MaxWait <- 1, MaxTime <- 5, MaxCrashes <- 1,
  disk <- logDisk, crashes <- logCrashes
History == INSTANCE PushHistory WITH
  Records <- {"p1", "r1", "r2", "r3"}, Legacy <- <<"r1", "p1">>,
  Private <- {"p1"}, Torn <- "torn", Spoiled <- "spoiled", MaxStarts <- 3,
  MaxTears <- 1, MaxRuns <- 2
Preview == INSTANCE CameraPreview WITH
  Page <- {"p1", "p2"}, Camera <- {"c1"}, Looks <- {"p1", "p2"} \X {"c1"},
  Leaving <- {"p1"}, ViewerTTL <- 1, StreamTTL <- 2, MaxClients <- 1,
  MaxRemovals <- 1, MaxMoves <- 0, MaxFaults <- 0

streamVars == <<version, lock, writer, listeners, queue, free, lease,
                streamStep, hand, shown, snapshotShown, revoked, gone, overtakenPayload>>
logVars == <<now, events, signature, queued, logDisk, stamped, page,
             overtaken, logCrashes>>
historyVars == <<server, history, appended, tool, read, recovery, swallowed,
                 overlapped, starts, tears, runs>>
previewVars == <<watching, request, client, viewers, stream, slot, used>>
MCvars == <<part, vars, streamVars, logVars, historyVars, previewVars>>

MCInit ==
  /\ part \in Parts
  /\ Init
  /\ CASE part = "slots" -> Slots!Init
       [] OTHER -> Stream!Init
  /\ CASE part = "log" -> Log!Init
       [] OTHER -> Pages!Init
  /\ History!Init
  /\ Preview!Init

\* The uploads are interchangeable: they come in the order of their numbers.
InOrder == \A u, v \in Uploads : u < v /\ step[u] = "sent" => step[v] = "sent"

\* What the others would use stays as it is.
UploadsStep ==
  /\ part = "uploads" /\ Next /\ InOrder'
  /\ UNCHANGED <<part, streamVars, logVars, historyVars, previewVars>>
StreamStep ==
  /\ \/ part = "stream" /\ Stream!Next
     \/ part = "slots" /\ Slots!Next
  /\ UNCHANGED <<part, vars, logVars, historyVars, previewVars>>
LogStep ==
  /\ \/ part = "pages" /\ Pages!Next
     \/ part = "log" /\ Log!Next
  /\ UNCHANGED <<part, vars, streamVars, historyVars, previewVars>>
HistoryStep ==
  /\ part = "history" /\ History!Next
  /\ UNCHANGED <<part, vars, streamVars, logVars, previewVars>>
PreviewStep ==
  /\ part = "preview" /\ Preview!Next
  /\ UNCHANGED <<part, vars, streamVars, logVars, historyVars>>

MCNext == UploadsStep \/ StreamStep \/ LogStep \/ HistoryStep \/ PreviewStep

MCSpec == MCInit /\ [][MCNext]_MCvars

------------------------------------------------------------------------------
\* The types of the components.
TypesOK ==
  /\ TypeOK
  /\ part = "stream" => Stream!TypeOK
  /\ part = "slots" => Slots!TypeOK
  /\ part = "pages" => Pages!TypeOK
  /\ part = "log" => Log!TypeOK
  /\ part = "history" => History!TypeOK
  /\ part = "preview" => Preview!TypeOK

\* Whether or not handlers broadcast under the lock: a page that has caught up
\* shows the newest state or a payload that a newer one has overtaken on its way
\* (two broadcasts at once, kotibot_server.py:957-977), goes back only with such
\* a payload or one from before its own snapshot, and shows nothing that happened
\* after its session was revoked; a camera that it looks at has a stream that no
\* request prunes and none that nobody knows of.
PagesAreServed ==
  /\ [](part = "stream" => Stream!Settled /\ Stream!RevokedSeesNothingNew)
  /\ [](part = "slots" => Slots!Settled /\ Slots!RevokedSeesNothingNew)
  /\ [](part = "preview" => Preview!Served)
  /\ [][/\ part = "stream" => Stream!NeverBack
        /\ part = "preview" => Preview!LeavesNothing]_MCvars

\* What was logged is kept until it is too old, is not repeated, and reaches
\* who reads all pages; the notification history keeps what is public and
\* gives back nothing private, whatever crashed or was torn.
LogsAreKept ==
  /\ [](part = "pages" => Pages!PagesComplete)
  /\ [](part = "history" => History!Kept /\ History!PrivateGone)
  /\ [][/\ part = "log" => Log!Kept /\ Log!NoRepeat
        /\ part = "history" => History!NoneReturns]_MCvars
==============================================================================
