--------------------------- MODULE MatterController ---------------------------
(***************************************************************************)
(* The Matter controller (subsystems/matter/matter_runtime.py): its state  *)
(* file, which every request reads, changes and writes as a whole without  *)
(* a lock, and the directory with the controller's identity, which the     *)
(* replacement of a connection moves away and back.                        *)
(*                                                                         *)
(* An identity is "old" (the one the server came with), "new" (made by a   *)
(* replacement) or "stray" (made by chip-tool because it found an empty    *)
(* directory).  Directories for subscriptions are copies and left out, and *)
(* so are syncs and subscriptions: they do not run during a replacement    *)
(* (see MatterSync).                                                       *)
(***************************************************************************)
EXTENDS Naturals

CONSTANTS
  Caller,   \* request threads
  Node, Unit,
  None,
  FirstUnit,
  MaxRequests, MaxReplacements, MaxCrashes \* bounds

File == [unit : Unit, nodes : SUBSET Node]
Request ==
  [kind : {"settings"}, unit : Unit] \cup [kind : {"save", "remove", "inspect"}, node : Node]
    \cup [kind : {"command"}]

VARIABLES
  up,       \* the server runs
  file,     \* matter_state.json
  shown,    \* matter_settings, what the status payload shows
  at,       \* where the thread of a request is
  request,  \* what it was asked
  copy,     \* the state it has read
  storage,  \* what is in the controller's storage directory
  backups,  \* the identities in directories chip_tool_storage.bad-*
  replacer, \* where the replacement is; matter_maintenance_lock admits one
  overlapped, \* history: a command was under way when a replacement began
  used      \* bounds

requests == <<at, request, copy>>
directories == <<storage, backups>>
vars == <<up, file, shown, requests, directories, replacer, overlapped, used>>

TypeOK ==
  /\ up \in BOOLEAN /\ overlapped \in BOOLEAN
  /\ file \in File /\ shown \in Unit
  /\ at \in [Caller -> {"idle", "editing", "reading", "running", "collected", "showing"}]
  /\ \A c \in Caller : at[c] # "idle" => request[c] \in Request /\ copy[c] \in File
  /\ storage \in {"none", "empty", "old", "new", "stray"}
  /\ backups \subseteq {"empty", "old", "new", "stray"}
  /\ replacer \in [at : {"idle", "renamed", "paired", "refused", "failed", "recording", "writing"},
                   from : {None, "empty", "old", "new", "stray"}, copy : File \cup {None}]

Idle == [at |-> "idle", from |-> None, copy |-> None]
Nobody == [c \in Caller |-> None]

Init ==
  /\ up = TRUE /\ overlapped = FALSE
  /\ file = [unit |-> FirstUnit, nodes |-> {}] /\ shown = FirstUnit
  /\ at = [c \in Caller |-> "idle"] /\ request = Nobody /\ copy = Nobody
  /\ storage = "old" /\ backups = {} /\ replacer = Idle
  /\ used = [requests |-> 0, replacements |-> 0, crashes |-> 0]

Spend(b, max) == used[b] < max /\ used' = [used EXCEPT ![b] = @ + 1]

\* chip_tool_storage_dir refuses to go on without the directory; read_state
\* asks it for the default value of a field, so it refuses too.
Available == storage # "none"

-----------------------------------------------------------------------------
(* Requests.                                                               *)

CallerAt(c, place) == at' = [at EXCEPT ![c] = place]

\* Every request starts with read_state.  save_settings, save_node and
\* remove_node then edit the copy; the others run chip-tool first.
Begin(c, r) ==
  /\ up /\ at[c] = "idle" /\ Spend("requests", MaxRequests) /\ Available
  /\ request' = [request EXCEPT ![c] = r] /\ copy' = [copy EXCEPT ![c] = file]
  /\ CallerAt(c, IF r.kind \in {"command", "inspect"} THEN "reading" ELSE "editing")
  /\ UNCHANGED <<up, file, shown, directories, replacer, overlapped>>

Edited(r, f) ==
  CASE r.kind = "settings" -> [f EXCEPT !.unit = r.unit]
    [] r.kind \in {"save", "inspect"} -> [f EXCEPT !.nodes = @ \cup {r.node}]
    [] r.kind = "remove" -> [f EXCEPT !.nodes = @ \ {r.node}]

Save(c) ==
  /\ at[c] = "editing"
  /\ file' = Edited(request[c], copy[c])
  /\ CallerAt(c, IF request[c].kind = "settings" THEN "showing" ELSE "idle")
  /\ UNCHANGED <<up, shown, request, copy, directories, replacer, overlapped, used>>

\* _save_matter_settings keeps what save_settings returned.
Show(c) ==
  /\ at[c] = "showing" /\ CallerAt(c, "idle")
  /\ shown' = request[c].unit
  /\ UNCHANGED <<up, file, request, copy, directories, replacer, overlapped, used>>

\* The directory is asked for again; chip-tool makes itself an identity when it
\* finds none in it.
Launch(c) ==
  /\ at[c] = "reading"
  /\ CallerAt(c, IF Available THEN "running" ELSE "idle")
  /\ storage' = IF storage = "empty" THEN "stray" ELSE storage
  /\ UNCHANGED <<up, file, shown, request, copy, backups, replacer, overlapped, used>>

\* The finally block makes the directory when it is not there, and the copy read
\* before the tool ran is written.
EndTool(c) ==
  /\ at[c] = "running"
  /\ storage' = (IF Available THEN storage ELSE "empty") /\ file' = copy[c]
  /\ CallerAt(c, IF request[c].kind = "inspect" THEN "collected" ELSE "idle")
  /\ UNCHANGED <<up, shown, request, copy, backups, replacer, overlapped, used>>

\* inspect_node and discover_endpoints read the state again to add their result.
Reread(c) ==
  /\ at[c] = "collected"
  /\ CallerAt(c, IF Available THEN "editing" ELSE "idle")
  /\ copy' = [copy EXCEPT ![c] = file]
  /\ UNCHANGED <<up, file, shown, request, directories, replacer, overlapped, used>>

-----------------------------------------------------------------------------
(* recommission_node.                                                      *)

ReplacerAt(place) == replacer' = [replacer EXCEPT !.at = place]

\* Every backup gets a name of its own.
MoveAway ==
  /\ up /\ replacer.at = "idle" /\ Available /\ Spend("replacements", MaxReplacements)
  /\ storage' = "none" /\ backups' = backups \cup {storage}
  /\ replacer' = [at |-> "renamed", from |-> storage, copy |-> None]
  /\ overlapped' = (overlapped \/ \E c \in Caller : at[c] \in {"reading", "running"})
  /\ UNCHANGED <<up, file, shown, requests>>

Refused == replacer.at = "renamed" /\ ~Available /\ ReplacerAt("refused")
  /\ UNCHANGED <<up, file, shown, requests, directories, overlapped, used>>

\* It goes on only when a command has made the directory in the meantime.
ReadForPairing ==
  /\ replacer.at = "renamed" /\ Available
  /\ \E ok \in BOOLEAN : replacer' = [replacer EXCEPT !.at = IF ok THEN "paired" ELSE "failed", !.copy = file]
  /\ UNCHANGED <<up, file, shown, requests, directories, overlapped, used>>

\* A directory can be renamed onto an empty directory, not onto a full one.
Renamable == storage \in {"none", "empty"}

Restore == storage' = replacer.from /\ backups' = backups \ {replacer.from}

RollBack ==
  /\ replacer.at = "refused" /\ replacer' = Idle
  /\ IF ~Available THEN Restore ELSE UNCHANGED directories
  /\ UNCHANGED <<up, file, shown, requests, overlapped, used>>

\* The tool has failed.
GiveUp ==
  /\ replacer.at = "failed" /\ replacer' = Idle
  /\ file' = replacer.copy
  /\ IF Renamable THEN Restore ELSE UNCHANGED directories
  /\ UNCHANGED <<up, shown, requests, overlapped, used>>

Replace ==
  /\ replacer.at = "paired"
  /\ file' = replacer.copy
  /\ IF Renamable THEN storage' = "new" /\ ReplacerAt("recording")
     ELSE UNCHANGED storage /\ replacer' = Idle
  /\ UNCHANGED <<up, shown, requests, backups, overlapped, used>>

\* The node is added to the state file.
ReadForRecord ==
  /\ replacer.at = "recording"
  /\ replacer' = [replacer EXCEPT !.at = "writing", !.copy = file]
  /\ UNCHANGED <<up, file, shown, requests, directories, overlapped, used>>

Record ==
  /\ replacer.at = "writing" /\ replacer' = Idle
  /\ \E n \in Node : file' = [replacer.copy EXCEPT !.nodes = @ \cup {n}]
  /\ UNCHANGED <<up, shown, requests, directories, overlapped, used>>

-----------------------------------------------------------------------------
Crash ==
  /\ up /\ Spend("crashes", MaxCrashes) /\ up' = FALSE
  /\ at' = [c \in Caller |-> "idle"] /\ request' = Nobody /\ copy' = Nobody
  /\ replacer' = Idle
  /\ UNCHANGED <<file, shown, directories, overlapped>>

\* register_matter_routes reads the state: the server does not start without
\* the directory.
Start ==
  /\ ~up /\ Available /\ up' = TRUE /\ shown' = file.unit
  /\ UNCHANGED <<file, requests, directories, replacer, overlapped, used>>

RequestStep(c) == Save(c) \/ Show(c) \/ Launch(c) \/ EndTool(c) \/ Reread(c)
ReplaceStep ==
  Refused \/ ReadForPairing \/ RollBack \/ GiveUp \/ Replace \/ ReadForRecord \/ Record

Next ==
  \/ \E c \in Caller : RequestStep(c) \/ \E r \in Request : Begin(c, r)
  \/ MoveAway \/ ReplaceStep
  \/ Crash \/ Start

Spec == Init /\ [][Next]_vars
Fairness == WF_vars(ReplaceStep) /\ \A c \in Caller : WF_vars(RequestStep(c))
LiveSpec == Spec /\ Fairness

-----------------------------------------------------------------------------
Quiet == \A c \in Caller : at[c] = "idle"

\* The identity the nodes were commissioned with is on disk at any moment,
\* in the storage directory or in a backup, whatever fails or crashes in the
\* middle of a replacement.
IdentityKept == storage = "old" \/ "old" \in backups

\* A replacement that no command overlaps leaves the identity where it was when
\* it does not succeed, and a server that runs has an identity.
InPlaceUnlessOverlapped ==
  up /\ ~overlapped /\ replacer.at = "idle" => storage = "old"

\* "Matter controller storage is unavailable; refusing to initialize
\* replacement identity." (matter_runtime.py:606): chip-tool never makes itself
\* an identity.
NoStrayIdentity == storage # "stray" /\ "stray" \notin backups

\* "matter_state.json: Retain commissioned node identity and user settings"
\* (1_KotiBot_Fixes_Stability_Roadmap.md:187): with no request under way the
\* file has the settings the user sees.
SettingsKept == up /\ Quiet /\ replacer.at = "idle" => file.unit = shown

\* "KotiBot will back up its current Matter controller storage before pairing
\* again." (dashboard-render.js:4178): when the new code works, a replacement
\* that nothing disturbs gets as far as pairing.
Pairs == (replacer.at = "renamed" /\ ~overlapped) ~> (replacer.at \in {"paired", "failed"})
=============================================================================
