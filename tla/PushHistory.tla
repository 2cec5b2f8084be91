------------------------------ MODULE PushHistory ------------------------------
(***************************************************************************)
(* The notification history: a file of lines to which the server appends,  *)
(* taken over once from where an earlier version kept it, and a tool that  *)
(* rewrites it without private or malformed records, for which the server  *)
(* is to be stopped.                                                       *)
(*                                                                         *)
(* A line is a record, or Torn, the start of a record without its end, or  *)
(* Spoiled, a torn line with a whole record behind it.                     *)
(***************************************************************************)
EXTENDS Naturals, SequencesExt

CONSTANTS Records,
          Legacy,      \* the earlier version's file, a sequence of records
          Private,     \* the records with signaling in them; only the legacy file has any
          Torn, Spoiled, None,
          MaxStarts, MaxTears, MaxRuns   \* bounds

VARIABLES
  server,     \* "down", "copying" or "up"
  history,    \* notification_queue.jsonl, None while there is no file
  appended,   \* records whose append returned
  tool,       \* the step of the tool
  read,       \* the payload the tool has read
  recovery,   \* the rollback copy, None while there is none, <<Torn>> if it is incomplete
  swallowed,  \* history: records appended to a torn line
  overlapped, \* history: records appended after the tool had read
  starts, tears, runs

vars == <<server, history, appended, tool, read, recovery, swallowed, overlapped, starts, tears, runs>>
serving == <<server, appended, swallowed, overlapped, starts, tears>>

Line == Records \cup {Torn, Spoiled}
ToolSteps == {"idle", "read", "checked", "copied", "replaced", "clean", "stopped"}
New == Records \ ToSet(Legacy)
Lines(file) == IF file = None THEN {} ELSE ToSet(file)

TypeOK ==
  /\ server \in {"down", "copying", "up"} /\ tool \in ToolSteps
  /\ history \in Seq(Line) \cup {None} /\ read \in Seq(Line)
  /\ recovery \in Seq(Line) \cup {None}
  /\ appended \subseteq New /\ swallowed \subseteq New /\ overlapped \subseteq New
  /\ starts \in 0 .. MaxStarts /\ tears \in 0 .. MaxTears /\ runs \in 0 .. MaxRuns
  /\ history # None =>
       \A i \in DOMAIN history : history[i] = Torn => i = Len(history)

Init ==
  /\ server = "down" /\ history = None /\ appended = {}
  /\ tool = "idle" /\ read = <<>> /\ recovery = None
  /\ swallowed = {} /\ overlapped = {} /\ starts = 0 /\ tears = 0 /\ runs = 0

-----------------------------------------------------------------------------
(* The server.                                                             *)

\* _migrate_legacy_queue: only when there is no history yet.
Start ==
  /\ server = "down" /\ starts < MaxStarts /\ starts' = starts + 1
  /\ server' = IF history = None /\ Legacy # <<>> THEN "copying" ELSE "up"
  /\ UNCHANGED <<history, appended, tool, read, recovery, swallowed, overlapped, tears, runs>>

Migrate ==
  /\ server = "copying" /\ server' = "up" /\ history' = Legacy
  /\ UNCHANGED <<appended, tool, read, recovery, swallowed, overlapped, starts, tears, runs>>

EndsTorn(file) == file # None /\ file # <<>> /\ Last(file) = Torn
Opened(file) == IF file = None THEN <<>> ELSE file
WithLine(file, r) ==
  IF EndsTorn(file) THEN Front(file) \o <<Spoiled>> ELSE Append(Opened(file), r)

AppendRecord(r) ==
  /\ server = "up" /\ r \notin appended /\ history' = WithLine(history, r)
  /\ appended' = appended \cup {r}
  /\ swallowed' = IF EndsTorn(history) THEN swallowed \cup {r} ELSE swallowed
  /\ overlapped' = IF tool \in {"read", "checked", "copied"} THEN overlapped \cup {r} ELSE overlapped
  /\ UNCHANGED <<server, tool, read, recovery, starts, tears, runs>>

\* The write is cut off, by a full disk or the end of the process.
Tear ==
  /\ server = "up" /\ tears < MaxTears /\ tears' = tears + 1
  /\ history' = IF EndsTorn(history) THEN history ELSE Append(Opened(history), Torn)
  /\ server' \in {"up", "down"}
  /\ UNCHANGED <<appended, tool, read, recovery, swallowed, overlapped, starts, runs>>

Stop == /\ server # "down" /\ server' = "down"
        /\ UNCHANGED <<history, appended, tool, read, recovery, swallowed, overlapped, starts, tears, runs>>

-----------------------------------------------------------------------------
(* The tool.                                                               *)

Sanitized(lines) == SelectSeq(lines, LAMBDA l : l \in Records \ Private)

Read ==
  /\ tool \in {"idle", "clean", "stopped"} /\ history # None
  /\ runs < MaxRuns /\ runs' = runs + 1
  /\ read' = history /\ tool' = IF Sanitized(history) = history THEN "clean" ELSE "read"
  /\ UNCHANGED <<serving, history, recovery>>

\* The server is looked at after the history has been read.
Check ==
  /\ tool = "read"
  /\ tool' = IF server # "down" \/ recovery # None THEN "stopped" ELSE "checked"
  /\ UNCHANGED <<serving, history, read, recovery, runs>>

Copy ==
  /\ tool = "checked" /\ recovery' = read /\ tool' = "copied"
  /\ UNCHANGED <<serving, history, read, runs>>

Replace ==
  /\ tool = "copied" /\ recovery = read
  /\ history' = Sanitized(read) /\ tool' = "replaced"
  /\ UNCHANGED <<serving, read, recovery, runs>>

Validate ==
  /\ tool = "replaced"
  /\ tool' = IF Sanitized(history) = history THEN "clean" ELSE "stopped"
  /\ UNCHANGED <<serving, history, read, recovery, runs>>

KillRollingBack ==
  /\ tool \in {"read", "checked", "copied", "replaced"} /\ tool' = "stopped"
  /\ history' = IF tool = "replaced" THEN read ELSE history
  /\ UNCHANGED <<serving, read, recovery, runs>>
\* Killed; in the middle of the copy it leaves part of it.
Kill ==
  /\ tool \in {"read", "checked", "copied", "replaced"} /\ tool' = "stopped"
  /\ recovery' \in {recovery} \cup (IF tool = "checked" THEN {<<Torn>>} ELSE {})
  /\ UNCHANGED <<serving, history, read, runs>>

Next ==
  \/ Start \/ Migrate \/ (\E r \in New : AppendRecord(r)) \/ Tear \/ Stop
  \/ Read \/ Check \/ Copy \/ Replace \/ Validate \/ Kill

Spec == Init /\ [][Next]_vars

-----------------------------------------------------------------------------
(* A record that came into the history, from the legacy file or appended,  *)
(* is in the history or in the rollback copy, through stops in the middle  *)
(* of the migration or of the tool; only a torn line before it and a       *)
(* server that runs beside the tool can lose one.                          *)
Known == appended \cup (IF history = None THEN {} ELSE ToSet(Legacy))
Kept ==
  \A r \in Known \ (swallowed \cup overlapped) : r \in Lines(history) \cup Lines(recovery)

(* Once the tool has rewritten the history no private record comes back    *)
(* into it.                                                                *)
PrivateGone == recovery # None /\ tool = "clean" => Lines(history) \cap Private = {}
NoneReturns ==
  history # None /\ history' # None =>
    (Lines(history') \ Lines(history)) \cap Private = {}

(* kotibot_push.py: "server records notification intent locally": what was *)
(* appended can be read back.                                              *)
Recorded == appended \subseteq Lines(history) \cup Lines(recovery)

(* The tool: "Remove malformed/private WebRTC records from notification    *)
(* history safely."                                                        *)
RemovesNothingElse ==
  [][\A r \in New : r \in Lines(history) => r \in Lines(history')]_vars
=============================================================================
