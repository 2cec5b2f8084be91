----------------------------- MODULE CameraPreview -----------------------------
(***************************************************************************)
(* Live previews of the Tapo cameras (subsystems/client-tapo): the pages   *)
(* that show a camera renew their interest in it, an ffmpeg process turns  *)
(* its RTSP stream into HLS files while somebody watches, and requests     *)
(* that end prune the streams of every camera nobody asked for lately.     *)
(* Commands of one camera hold its slot; the client they work for can be   *)
(* removed by the general route, which does not take the slot.             *)
(*                                                                         *)
(* Time is kept as ages: of a viewer's last request and of a stream's last *)
(* use.  A page has at most one request of each kind in flight per camera. *)
(***************************************************************************)
EXTENDS Naturals

CONSTANTS
  Page,
  Camera,
  Looks,       \* which page may show which camera
  Leaving,     \* bound: the pages that may hide a camera again, or end
  ViewerTTL,   \* PREVIEW_VIEWER_TTL_SECONDS
  StreamTTL,   \* TAPO_CAMERA_STREAM_TTL_SECONDS
  Remover,     \* the route that removes a Tapo client
  None,
  MaxClients, MaxRemovals, MaxMoves, MaxFaults \* bounds: registrations, removals, new addresses; failures and ends of a page or process

VARIABLES
  watching,  \* tapoCameraPreviewState: the cameras each page shows
  request,   \* of each page, camera and wish (active or not): where it is
  client,    \* which client is registered for each camera and at which address, 0 for none
  viewers,   \* preview_viewers of it: how long ago each one asked, None without
  stream,    \* TAPO_CAMERA_STREAMS: [proc, age]
  slot,      \* who holds the slot of each camera
  used       \* bounds

vars == <<watching, request, client, viewers, stream, slot, used>>

Requests == {<<l[1], l[2], active>> : l \in Looks, active \in BOOLEAN}
Clients == 0 .. MaxClients + MaxMoves + 1
Ages == 0 .. StreamTTL + 1
Nobody == [p \in Page |-> None]
NoStream == [proc |-> "none", age |-> 0]
NoRequest == [at |-> "none", client |-> 0, viewers |-> Nobody, todo |-> {}, pruning |-> None]

Bounds == [clients |-> MaxClients, removals |-> MaxRemovals, moves |-> MaxMoves, faults |-> MaxFaults]

\* Every request and every stream is somewhere the code can leave it; a slot
\* belongs to the one request that is between taking and leaving it.
TypeOK ==
  /\ watching \in [Page -> SUBSET Camera]
  /\ request \in [Requests ->
       [at : {"none", "sent", "found", "begun", "acted", "pruning", "stopping"}, client : Clients,
        viewers : [Page -> Ages \cup {None}], todo : SUBSET Camera, pruning : Camera \cup {None}]]
  /\ client \in [Camera -> Clients]
  /\ viewers \in [Camera -> [Page -> Ages \cup {None}]]
  /\ stream \in [Camera -> [proc : {"none", "running", "dead"}, age : Ages]]
  /\ slot \in [Camera -> Requests \cup {None, Remover}]
  /\ \A b \in DOMAIN Bounds : used[b] \in 0 .. Bounds[b]
  /\ \A r \in Requests : request[r].at \in {"begun", "acted"} => slot[r[2]] = r
  /\ \A r \in Requests : request[r].at = "stopping" => slot[request[r].pruning] = r
  /\ \A c \in Camera : slot[c] \in Requests => request[slot[c]].at \in {"begun", "acted", "stopping"}

Use(b) == used[b] < Bounds[b] /\ used' = [used EXCEPT ![b] = @ + 1]
Older(age) == IF age = None \/ age = StreamTTL + 1 THEN age ELSE age + 1
AllOlder(ages) == [p \in Page |-> Older(ages[p])]
Fresh(age) == age # None /\ age <= ViewerTTL
Stale(c) == stream[c].proc # "none" /\ stream[c].age > StreamTTL
Somebody(ages) == ages # Nobody
IsCurrent(r) == client[r[2]] = request[r].client

Send(p, c, active) ==
  /\ request[<<p, c, active>>].at = "none"
  /\ request' = [request EXCEPT ![<<p, c, active>>] = [NoRequest EXCEPT !.at = "sent"]]

Move(r, at) == request' = [request EXCEPT ![r].at = at]
Drop(r) == request' = [request EXCEPT ![r] = NoRequest]

Init ==
  /\ watching = [p \in Page |-> {}]
  /\ request = [r \in Requests |-> NoRequest]
  /\ client = [c \in Camera |-> 1]
  /\ viewers = [c \in Camera |-> Nobody]
  /\ stream = [c \in Camera |-> NoStream]
  /\ slot = [c \in Camera |-> None]
  /\ used = [b \in DOMAIN Bounds |-> 0]

-----------------------------------------------------------------------------
(* The pages. *)

\* A camera comes into view.
Show(p, c) ==
  /\ <<p, c>> \in Looks /\ c \notin watching[p] /\ Send(p, c, TRUE)
  /\ watching' = [watching EXCEPT ![p] = @ \cup {c}]
  /\ UNCHANGED <<client, viewers, stream, slot, used>>

\* A visible camera is asked for again when the last request is old enough.
Renew(p, c) ==
  /\ c \in watching[p] /\ Send(p, c, TRUE)
  /\ UNCHANGED <<watching, client, viewers, stream, slot, used>>

\* The camera is out of view for long enough, or the page is left (a beacon).
Hide(p, c) ==
  /\ c \in watching[p] /\ p \in Leaving /\ Send(p, c, FALSE)
  /\ watching' = [watching EXCEPT ![p] = @ \ {c}]
  /\ UNCHANGED <<client, viewers, stream, slot, used>>

\* The page ends without saying so.
Gone(p) ==
  /\ watching[p] # {} /\ p \in Leaving /\ Use("faults")
  /\ watching' = [watching EXCEPT ![p] = {}]
  /\ UNCHANGED <<request, client, viewers, stream, slot>>

\* The player of a page fetches the playlist or a segment.
Fetch(p, c) ==
  /\ c \in watching[p] /\ stream[c].proc # "none"
  /\ stream' = [stream EXCEPT ![c].age = 0]
  /\ UNCHANGED <<watching, request, client, viewers, slot, used>>

-----------------------------------------------------------------------------
(* A preview request in the server. *)

\* The client is looked up before the request waits for the slot.
Find(r) ==
  /\ request[r].at = "sent"
  /\ request' = [request EXCEPT ![r] = IF client[r[2]] = 0 THEN NoRequest
                                       ELSE [@ EXCEPT !.at = "found", !.client = client[r[2]]]]
  /\ UNCHANGED <<watching, client, viewers, stream, slot, used>>

\* The request never arrives.
Lose(r) ==
  /\ request[r].at = "sent"
  /\ Drop(r) /\ UNCHANGED <<watching, client, viewers, stream, slot, used>>

\* The request has waited too long for the slot.
GiveUp(r) ==
  /\ request[r].at = "found" /\ slot[r[2]] # None /\ Use("faults")
  /\ Drop(r) /\ UNCHANGED <<watching, client, viewers, stream, slot>>

\* The viewers once this request counts; the others are kept as they are.
WithRequest(r) == [viewers[r[2]] EXCEPT ![r[1]] = IF r[3] THEN 0 ELSE None]

\* With the slot, under STATE_LOCK: the request is refused if its client was
\* replaced meanwhile; otherwise it works on a copy of the viewers.
Begin(r) ==
  /\ request[r].at = "found" /\ slot[r[2]] = None
  /\ \/ IsCurrent(r)
        /\ slot' = [slot EXCEPT ![r[2]] = r]
        /\ request' = [request EXCEPT ![r].at = "begun", ![r].viewers = WithRequest(r)]
     \/ ~IsCurrent(r) /\ Drop(r) /\ UNCHANGED slot
  /\ UNCHANGED <<watching, client, viewers, stream, used>>

\* start_tapo_camera_stream: a live process is kept and marked as used.
StartStream(r) ==
  /\ request[r].at = "begun" /\ Somebody(request[r].viewers)
  /\ stream' = [stream EXCEPT ![r[2]] = [proc |-> "running", age |-> 0]]
  /\ Move(r, "acted")
  /\ UNCHANGED <<watching, client, viewers, slot, used>>

\* stop_tapo_camera_stream.
StopStream(r) ==
  /\ request[r].at = "begun" /\ ~Somebody(request[r].viewers)
  /\ stream' = [stream EXCEPT ![r[2]] = NoStream]
  /\ Move(r, "acted")
  /\ UNCHANGED <<watching, client, viewers, slot, used>>

\* The streams the request looks at once it has left its slot.
ThenPrune(r) == request' = [request EXCEPT ![r] =
  [NoRequest EXCEPT !.at = "pruning", !.todo = {c \in Camera : stream'[c].proc # "none"}]]

\* There is no stream to keep and ffmpeg cannot be started: nothing is stored.
StartFails(r) ==
  /\ request[r].at = "begun" /\ Somebody(request[r].viewers)
  /\ stream[r[2]].proc # "running" /\ Use("faults")
  /\ UNCHANGED stream /\ ThenPrune(r)
  /\ slot' = [slot EXCEPT ![r[2]] = None]
  /\ UNCHANGED <<watching, client, viewers>>

\* Under STATE_LOCK the copy replaces the viewers of the client.
Commit(r) ==
  /\ request[r].at = "acted" /\ IsCurrent(r)
  /\ viewers' = [viewers EXCEPT ![r[2]] = request[r].viewers]
  /\ slot' = [slot EXCEPT ![r[2]] = None]
  /\ UNCHANGED stream /\ ThenPrune(r)
  /\ UNCHANGED <<watching, client, used>>

\* The client was replaced meanwhile: a stream that was asked for is stopped.
Undo(r) ==
  /\ request[r].at = "acted" /\ ~IsCurrent(r)
  /\ stream' = [stream EXCEPT ![r[2]] = IF Somebody(request[r].viewers) THEN NoStream ELSE @]
  /\ slot' = [slot EXCEPT ![r[2]] = None]
  /\ Drop(r) /\ UNCHANGED <<watching, client, viewers, used>>

\* One stream of the list: passed over if it was used lately, or if a command
\* of its camera is under way; otherwise its slot is taken to stop it.
PruneOne(r, c) ==
  /\ request[r].at = "pruning" /\ c \in request[r].todo
  /\ \/ /\ Stale(c) /\ slot[c] = None
        /\ slot' = [slot EXCEPT ![c] = r]
        /\ request' = [request EXCEPT ![r].at = "stopping", ![r].pruning = c, ![r].todo = @ \ {c}]
     \/ /\ ~Stale(c) \/ slot[c] # None
        /\ request' = [request EXCEPT ![r].todo = @ \ {c}] /\ UNCHANGED slot
  /\ UNCHANGED <<watching, client, viewers, stream, used>>

PruneStop(r) ==
  /\ request[r].at = "stopping"
  /\ stream' = [stream EXCEPT ![request[r].pruning] = NoStream]
  /\ slot' = [slot EXCEPT ![request[r].pruning] = None]
  /\ request' = [request EXCEPT ![r].at = "pruning", ![r].pruning = None]
  /\ UNCHANGED <<watching, client, viewers, used>>

PruneEnd(r) ==
  /\ request[r].at = "pruning" /\ request[r].todo = {}
  /\ Drop(r) /\ UNCHANGED <<watching, client, viewers, stream, slot, used>>

-----------------------------------------------------------------------------
(* The rest of the server. *)

\* A status snapshot forgets the viewers that did not ask again in time.
Status(c) ==
  /\ client[c] # 0
  /\ viewers' = [viewers EXCEPT ![c] = [p \in Page |-> IF Fresh(@[p]) THEN @[p] ELSE None]]
  /\ viewers' # viewers
  /\ UNCHANGED <<watching, request, client, stream, slot, used>>

\* The Tapo route removes the camera in its slot, and then stops its stream.
Remove(c) ==
  /\ client[c] # 0 /\ slot[c] = None /\ Use("removals")
  /\ client' = [client EXCEPT ![c] = 0]
  /\ viewers' = [viewers EXCEPT ![c] = Nobody]
  /\ slot' = [slot EXCEPT ![c] = Remover]
  /\ UNCHANGED <<watching, request, stream>>

RemoveStream(c) ==
  /\ slot[c] = Remover
  /\ stream' = [stream EXCEPT ![c] = NoStream]
  /\ slot' = [slot EXCEPT ![c] = None]
  /\ UNCHANGED <<watching, request, client, viewers, used>>

\* The general route removes the client at once and knows no streams.
Forget(c) ==
  /\ client[c] # 0 /\ Use("removals")
  /\ client' = [client EXCEPT ![c] = 0]
  /\ viewers' = [viewers EXCEPT ![c] = Nobody]
  /\ UNCHANGED <<watching, request, stream, slot>>

NewClient == used'["clients"] + used'["moves"] + 1

\* Discovery registers the camera again, as a new client.
Detect(c) ==
  /\ client[c] = 0 /\ Use("clients")
  /\ client' = [client EXCEPT ![c] = NewClient]
  /\ UNCHANGED <<watching, request, viewers, stream, slot>>

\* Discovery finds the camera at another address: the client stays, but it is
\* not the one a command began with.
Readdress(c) ==
  /\ client[c] # 0 /\ Use("moves")
  /\ client' = [client EXCEPT ![c] = NewClient]
  /\ UNCHANGED <<watching, request, viewers, stream, slot>>

\* ffmpeg ends by itself: the camera is off, the network is gone.
Die(c) ==
  /\ stream[c].proc = "running" /\ Use("faults")
  /\ stream' = [stream EXCEPT ![c].proc = "dead"]
  /\ UNCHANGED <<watching, request, client, viewers, slot>>

Tick ==
  /\ stream' = [c \in Camera |-> [stream[c] EXCEPT !.age = IF stream[c].proc = "none" THEN 0 ELSE Older(@)]]
  /\ viewers' = [c \in Camera |-> AllOlder(viewers[c])]
  /\ request' = [r \in Requests |-> [request[r] EXCEPT !.viewers = AllOlder(@)]]
  /\ <<stream, viewers, request>>' # <<stream, viewers, request>>
  /\ UNCHANGED <<watching, client, slot, used>>

\* What the thread of a request does once it has the slot.
Work(r) ==
  \/ StartStream(r) \/ StopStream(r) \/ StartFails(r) \/ Commit(r) \/ Undo(r)
  \/ PruneStop(r) \/ PruneEnd(r) \/ \E c \in Camera : PruneOne(r, c)

Next ==
  \/ \E p \in Page, c \in Camera : Show(p, c) \/ Renew(p, c) \/ Hide(p, c) \/ Fetch(p, c)
  \/ \E p \in Page : Gone(p)
  \/ \E r \in Requests : Find(r) \/ Lose(r) \/ GiveUp(r) \/ Begin(r) \/ Work(r)
  \/ \E c \in Camera : Status(c) \/ Remove(c) \/ RemoveStream(c) \/ Forget(c) \/ Detect(c)
                        \/ Readdress(c) \/ Die(c)
  \/ Tick

\* Threads run, time passes, a page that shows a camera asks again; a request
\* that is sent again and again arrives, and the first in line gets the slot.
Fairness ==
  /\ WF_vars(Tick)
  /\ \A l \in Looks : LET r == <<l[1], l[2], TRUE>> IN
       WF_vars(Renew(l[1], l[2])) /\ SF_vars(Find(r)) /\ SF_vars(Begin(r))
  /\ \A r \in Requests : WF_vars(Work(r))
  /\ \A c \in Camera : WF_vars(RemoveStream(c))

Spec == Init /\ [][Next]_vars
FairSpec == Spec /\ Fairness

-----------------------------------------------------------------------------
(* Properties. *)

\* A viewer whose last request counts and is not too old has a stream that no
\* request would prune, whichever pages have left and whatever was pruned
\* since, unless a command of the camera is under way.  (A camera found at a
\* new address while a command works loses its stream until it is asked for
\* again: WatchersAreServed.)
Served ==
  \A c \in Camera, p \in Page :
    slot[c] = None /\ Fresh(viewers[c][p]) => stream[c].proc # "none" /\ ~Stale(c)

\* A request that leaves the slot of a camera removed or replaced while it
\* worked leaves no process behind that nobody would know of.
LeavesNothing ==
  \A r \in Requests :
    LET c == r[2] IN
    slot[c] = r /\ slot'[c] = None /\ request[r].at # "stopping"
      => client[c] = request[r].client \/ stream'[c].proc # "running"

\* A camera no page shows any more loses its stream, although its last page
\* did not say that it left, as long as another camera is watched.
StreamsEnd ==
  \A c \in Camera :
    <>[]((\A p \in Page : c \notin watching[p]) /\ \E p \in Page : watching[p] # {})
      => <>[](stream[c].proc = "none")

\* A page that goes on showing a camera sees it again and again, although
\* other pages leave, requests are lost or overtake each other, and ffmpeg ends.
WatchersAreServed ==
  \A l \in Looks : <>[](l[2] \in watching[l[1]]) => []<>(stream[l[2]].proc = "running")

\* The last viewer stops: when a leaving request has finished and nobody else
\* has asked within the lifetime of a viewer, the stream is stopped.
LastViewerStops ==
  [][\A r \in Requests :
       LET c == r[2] IN
       /\ request[r].at = "acted" /\ ~r[3] /\ slot'[c] = None /\ client[c] = request[r].client
       /\ \A p \in Page : ~Fresh(viewers[c][p]) \/ p = r[1]
       => stream'[c].proc # "running"]_vars
=============================================================================
