------------------------------ MODULE TapoScenes ------------------------------
(***************************************************************************)
(* Home scenes: a click on a page becomes a request with the page's        *)
(* session and sequence number; requests may reach execute_home_scene in   *)
(* another order.  An admitted request reserves its place at every device, *)
(* sends to each when its turn comes, and then persists the home mode.     *)
(* A mode is named by the click that asked for it.                         *)
(***************************************************************************)
EXTENDS Naturals, Sequences, SequencesExt, FiniteSets

CONSTANTS Page, Device, None,
          Cap,       \* 128: pages whose sequence numbers are remembered
          Limit,     \* TapoCommandQueue.limit
          MaxClicks, \* bound: clicks per page
          MaxSaves   \* bound: savings of the lighting settings

VARIABLES
  clicks,     \* clicks of each page
  shown,      \* the home mode a page holds
  sent,       \* requests on their way
  sequences,  \* scene_sequences: <<page, sequence>>, the oldest entry first
  requested,  \* scene_requested_mode
  queue,      \* the tickets of each device
  targets,    \* of each running request: devices it still has to serve
  lit,        \* what each device shows
  home,       \* activeSchemes.home in the lighting file
  admitted,   \* history: requests in the order they were admitted
  saves

vars == <<clicks, shown, sent, sequences, requested, queue, targets, lit, home, admitted, saves>>
pages == <<clicks, shown>>
lights == <<queue, targets, lit>>

Click == Page \X (1 .. MaxClicks)
Running == DOMAIN targets

TypeOK ==
  /\ clicks \in [Page -> 0 .. MaxClicks] /\ shown \in [Page -> Click \cup {None}]
  /\ sent \subseteq Click /\ ToSet(admitted) \subseteq Click
  /\ {requested, home} \cup {lit[d] : d \in Device} \subseteq Click \cup {None}
  /\ Len(sequences) <= Cap
  /\ \A i, j \in DOMAIN sequences : i # j => sequences[i][1] # sequences[j][1]
  /\ \A d \in Device : Len(queue[d]) <= Limit
  /\ \A d \in Device : ToSet(queue[d]) = {r \in Running : d \in targets[r]}

Init ==
  /\ clicks = [p \in Page |-> 0] /\ shown = [p \in Page |-> None]
  /\ sent = {} /\ sequences = <<>> /\ requested = None
  /\ queue = [d \in Device |-> <<>>] /\ targets = <<>>
  /\ lit = [d \in Device |-> None] /\ home = None
  /\ admitted = <<>> /\ saves = 0

-----------------------------------------------------------------------------
(* A page.                                                                 *)

Choose(p) ==
  /\ clicks[p] < MaxClicks
  /\ clicks' = [clicks EXCEPT ![p] = @ + 1]
  /\ shown' = [shown EXCEPT ![p] = <<p, clicks'[p]>>]
  /\ sent' = sent \cup {<<p, clicks'[p]>>}
  /\ UNCHANGED <<sequences, requested, lights, home, admitted, saves>>

\* The connection breaks before the server has the request; it is not sent again.
Lose(r) ==
  /\ r \in sent /\ sent' = sent \ {r}
  /\ UNCHANGED <<pages, sequences, requested, lights, home, admitted, saves>>

\* writeDashboardHomeLightingModeConfig sends every scheme the page holds.
SaveSettings(p) ==
  /\ saves < MaxSaves /\ saves' = saves + 1 /\ shown[p] # None
  /\ home' = shown[p]
  /\ UNCHANGED <<pages, sent, sequences, requested, lights, admitted>>

-----------------------------------------------------------------------------
(* execute_home_scene                                                      *)

Latest(p) ==
  LET of == {s \in ToSet(sequences) : s[1] = p}
  IN  IF of = {} THEN 0 ELSE (CHOOSE s \in of : TRUE)[2]

Evicted(s) == IF Len(s) > Cap THEN Tail(s) ELSE s

\* The page that clicked last is forgotten last.
Remember(r) == Evicted(Append(SelectSeq(sequences, LAMBDA s : s[1] # r[1]), r))

Supersede(r) ==
  /\ r \in sent /\ sent' = sent \ {r} /\ r[2] <= Latest(r[1])
  /\ UNCHANGED <<pages, sequences, requested, lights, home, admitted, saves>>

\* A device whose queue is full is left out; the others get a place at once.
Admit(r) ==
  /\ r \in sent /\ sent' = sent \ {r} /\ r[2] > Latest(r[1])
  /\ sequences' = Remember(r) /\ requested' = r /\ admitted' = Append(admitted, r)
  /\ LET free == {d \in Device : Len(queue[d]) < Limit} IN
     /\ queue' = [d \in Device |-> IF d \in free THEN Append(queue[d], r) ELSE queue[d]]
     /\ targets' = [x \in Running \cup {r} |-> IF x = r THEN free ELSE targets[x]]
  /\ UNCHANGED <<pages, lit, home, saves>>

Leave(r, d) ==
  /\ queue' = [queue EXCEPT ![d] = SelectSeq(@, LAMBDA x : x # r)]
  /\ targets' = [targets EXCEPT ![r] = @ \ {d}]
  /\ UNCHANGED <<pages, sent, sequences, requested, home, admitted, saves>>

\* dispatch_scene.send_target: the device takes the scene, or fails.
Send(r, d) ==
  /\ r \in Running /\ d \in targets[r] /\ Head(queue[d]) = r
  /\ lit' \in {lit, [lit EXCEPT ![d] = r]} /\ Leave(r, d)

\* The wait for the slot times out.
GiveUp(r, d) ==
  /\ r \in Running /\ d \in targets[r] /\ Head(queue[d]) # r
  /\ Leave(r, d) /\ UNCHANGED lit

FinishOwn(r) ==
  /\ r \in Running /\ targets[r] = {} /\ home' = r
  /\ targets' = [x \in Running \ {r} |-> targets[x]]
  /\ shown' = [shown EXCEPT ![r[1]] = IF r[2] = clicks[r[1]] THEN home' ELSE @]
  /\ UNCHANGED <<clicks, sent, sequences, requested, queue, lit, admitted, saves>>
\* The file gets the mode admitted last; the page takes the answer to its last click.
Finish(r) ==
  /\ r \in Running /\ targets[r] = {} /\ home' = requested
  /\ targets' = [x \in Running \ {r} |-> targets[x]]
  /\ shown' = [shown EXCEPT ![r[1]] = IF r[2] = clicks[r[1]] THEN home' ELSE @]
  /\ UNCHANGED <<clicks, sent, sequences, requested, queue, lit, admitted, saves>>

Next ==
  \/ \E p \in Page : Choose(p) \/ SaveSettings(p)
  \/ \E r \in sent : Lose(r) \/ Supersede(r) \/ Admit(r)
  \/ \E r \in Running : Finish(r) \/ \E d \in Device : Send(r, d) \/ GiveUp(r, d)

Spec == Init /\ [][Next]_vars

\* Waits and calls end by their deadlines.
FairSpec ==
  /\ Spec
  /\ \A r \in Click : WF_vars(Finish(r)) /\ \A d \in Device : WF_vars(Send(r, d))

-----------------------------------------------------------------------------
\* An older click follows a newer one of its page only if Cap other pages clicked between.
ClickOrder ==
  \A i, j \in DOMAIN admitted :
    i < j /\ admitted[i][1] = admitted[j][1] /\ admitted[i][2] > admitted[j][2]
      => Cardinality({admitted[k][1] : k \in i + 1 .. j - 1} \ {admitted[i][1]}) >= Cap

\* No device goes back from a scene to one that was admitted before it.
NoInversion ==
  \A d \in Device : lit[d] # None /\ lit'[d] # lit[d] =>
    SelectInSeq(admitted, LAMBDA r : r = lit'[d]) > SelectInSeq(admitted, LAMBDA r : r = lit[d])

\* When no scene is under way, the file has the mode of the scene admitted last.
HomeIsNewest ==
  targets = <<>> /\ admitted # <<>> => home = admitted[Len(admitted)]

\* Every admitted scene comes to an end, however devices fail and waits time out.
ScenesEnd == \A r \in Click : r \in Running ~> r \notin Running
=============================================================================
