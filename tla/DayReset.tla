------------------------------- MODULE DayReset -------------------------------
(***************************************************************************)
(* The daily return of the lights to their Day preset (run_tapo_day_reset_ *)
(* once in subsystems/automations/automations_routes.py): a background     *)
(* loop reads its settings and the active lighting modes, commands the     *)
(* lights without waiting for any of them, and stores that Day is active   *)
(* again.  Meanwhile users choose modes and save the settings.             *)
(*                                                                         *)
(* Of the modes other than Day one stands for all; every key has a Day     *)
(* scheme, and its lights are what KeyDevices says.                        *)
(***************************************************************************)
EXTENDS Naturals, FiniteSets

CONSTANTS
  Key,        \* a light or a room in the lighting state
  Device,
  KeyDevices, \* the lights of each key
  User,
  None,
  LastHour,   \* the clock of a day goes from 0 to this hour
  MaxDays, MaxChoices, MaxSaves, MaxFailures \* bounds

Hour == 0 .. LastHour
Mode == {"day", "movie"}
Settings == [enabled : BOOLEAN, hour : Hour]

VARIABLES
  today, clock,
  settings, last, \* tapo_day_reset in automations_state.json: lastRunDate is last
  active,         \* activeSchemes in tapo_lighting_state.json
  light,          \* what each light shows
  slot,           \* who holds the command slot of each light
  loop,           \* the run in progress: what it has read, and each light's part
  waiting,        \* day_reset_retry_not_before lies ahead
  user,           \* each user: the mode's key and the lights still to be commanded
  used,           \* bounds
  wanted,         \* history: the settings saved last
  newer,          \* history: keys and lights users have changed since the run read
  done            \* history: the last date with a successful run

clocks == <<today, clock>>
files == <<settings, last, active>>
vars == <<clocks, files, light, slot, loop, waiting, user, used, wanted, newer, done>>

NoRun == [at |-> "idle", settings |-> None, date |-> 0, keys |-> {}, part |-> [d \in Device |-> "none"]]
NoChoice == [key |-> None, todo |-> {}]

TypeOK ==
  /\ today \in 1 .. MaxDays /\ clock \in Hour
  /\ settings \in Settings /\ wanted \in Settings /\ last \in 0 .. MaxDays /\ done \in 0 .. MaxDays
  /\ active \in [Key -> Mode] /\ light \in [Device -> Mode]
  /\ slot \in [Device -> User \cup {"loop", None}]
  /\ loop.at \in {"idle", "read", "sending"} /\ loop.settings \in Settings \cup {None}
  /\ loop.part \in [Device -> {"none", "todo", "held", "ok", "failed"}]
  /\ loop.date \in 0 .. MaxDays /\ loop.keys \subseteq Key
  /\ user \in [User -> [key : Key \cup {None}, todo : SUBSET Device]]
  /\ waiting \in BOOLEAN /\ newer \subseteq Key \cup Device
  /\ \A d \in Device : slot[d] = "loop" <=> loop.part[d] = "held"

Init ==
  /\ today = 1 /\ clock = 0
  /\ settings = [enabled |-> TRUE, hour |-> 1] /\ wanted = settings /\ last = 0 /\ done = 0
  /\ active = [k \in Key |-> "movie"] /\ light = [d \in Device |-> "movie"]
  /\ slot = [d \in Device |-> None] /\ loop = NoRun /\ waiting = FALSE
  /\ user = [u \in User |-> NoChoice] /\ newer = {}
  /\ used = [choices |-> 0, saves |-> 0, failures |-> 0]

Spend(b, max) == used[b] < max /\ used' = [used EXCEPT ![b] = @ + 1]

-----------------------------------------------------------------------------
(* The run.                                                                *)

DueOnTheHour == settings.enabled /\ clock = settings.hour /\ last # today /\ ~waiting
Due == settings.enabled /\ clock >= settings.hour /\ last # today /\ ~waiting

\* The settings and the modes are read without a lock.
Read ==
  /\ loop.at = "idle" /\ Due
  /\ loop' = [NoRun EXCEPT !.at = "read", !.settings = settings, !.date = today,
                           !.keys = {k \in Key : active[k] # "day"}]
  /\ newer' = {}
  /\ UNCHANGED <<clocks, files, light, slot, waiting, user, used, wanted, done>>

\* Only lights that are on are commanded.
Prepare ==
  /\ loop.at = "read"
  /\ \E on \in SUBSET Device :
       loop' = [loop EXCEPT !.at = "sending",
                  !.part = [d \in Device |->
                    IF d \in on /\ \E k \in loop.keys : d \in KeyDevices[k] THEN "todo" ELSE "none"]]
  /\ UNCHANGED <<clocks, files, light, slot, waiting, user, used, wanted, newer, done>>

PartIs(d, part) == loop' = [loop EXCEPT !.part[d] = part]

\* try_hold: a light that is busy is left alone.
TryHold(d) ==
  /\ loop.at = "sending" /\ loop.part[d] = "todo"
  /\ IF slot[d] = None THEN slot' = [slot EXCEPT ![d] = "loop"] /\ PartIs(d, "held")
     ELSE UNCHANGED slot /\ PartIs(d, "failed")
  /\ UNCHANGED <<clocks, files, light, waiting, user, used, wanted, newer, done>>

SendHolding(d) ==
  /\ loop.part[d] = "held" /\ PartIs(d, "ok") /\ light' = [light EXCEPT ![d] = "day"]
  /\ UNCHANGED <<clocks, files, slot, waiting, user, used, wanted, newer, done>>
Send(d) ==
  /\ loop.part[d] = "held" /\ slot' = [slot EXCEPT ![d] = None]
  /\ \/ light' = [light EXCEPT ![d] = "day"] /\ PartIs(d, "ok") /\ newer' = newer \ {d} /\ UNCHANGED used
     \/ Spend("failures", MaxFailures) /\ PartIs(d, "failed") /\ UNCHANGED <<light, newer>>
  /\ UNCHANGED <<clocks, files, waiting, user, wanted, done>>

Over == loop.at = "sending" /\ \A d \in Device : loop.part[d] \notin {"todo", "held"}
Failed == \E d \in Device : loop.part[d] = "failed"

\* The result is stored under STATE_LOCK, with the settings that were read.
Finish ==
  /\ Over /\ loop' = NoRun
  /\ IF Failed THEN waiting' = TRUE /\ UNCHANGED <<files, done>>
     ELSE /\ waiting' = FALSE /\ done' = loop.date
          /\ active' = [k \in Key |-> IF k \in loop.keys THEN "day" ELSE active[k]]
          /\ settings' = loop.settings /\ last' = loop.date
  /\ UNCHANGED <<clocks, light, slot, user, used, wanted, newer>>

Retry ==
  /\ waiting /\ waiting' = FALSE
  /\ UNCHANGED <<clocks, files, light, slot, loop, user, used, wanted, newer, done>>

-----------------------------------------------------------------------------
(* Users: a mode is chosen by commanding its lights and then storing it.   *)

Choose(u, k) ==
  /\ user[u].key = None /\ Spend("choices", MaxChoices)
  /\ user' = [user EXCEPT ![u] = [key |-> k, todo |-> KeyDevices[k]]]
  /\ UNCHANGED <<clocks, files, light, slot, loop, waiting, wanted, newer, done>>

Hold(u, d) ==
  /\ d \in user[u].todo /\ slot[d] = None
  /\ slot' = [slot EXCEPT ![d] = u]
  /\ UNCHANGED <<clocks, files, light, loop, waiting, user, used, wanted, newer, done>>

Command(u, d) ==
  /\ slot[d] = u
  /\ slot' = [slot EXCEPT ![d] = None] /\ user' = [user EXCEPT ![u].todo = @ \ {d}]
  /\ light' = [light EXCEPT ![d] = "movie"] /\ newer' = newer \cup {d}
  /\ UNCHANGED <<clocks, files, loop, waiting, used, wanted, done>>

StoreChoice(u) ==
  /\ user[u].key # None /\ user[u].todo = {}
  /\ active' = [active EXCEPT ![user[u].key] = "movie"] /\ newer' = newer \cup {user[u].key}
  /\ user' = [user EXCEPT ![u] = NoChoice]
  /\ UNCHANGED <<clocks, settings, last, light, slot, loop, waiting, used, wanted, done>>

\* write_day_reset_config keeps lastRunDate.
SaveForgetting(s) ==
  /\ Spend("saves", MaxSaves) /\ settings' = s /\ wanted' = s /\ last' = 0
  /\ UNCHANGED <<clocks, active, light, slot, loop, waiting, user, newer, done>>
Save(s) ==
  /\ Spend("saves", MaxSaves) /\ settings' = s /\ wanted' = s
  /\ UNCHANGED <<clocks, last, active, light, slot, loop, waiting, user, newer, done>>

Tick ==
  /\ IF clock < LastHour THEN clock' = clock + 1 /\ UNCHANGED today
     ELSE today < MaxDays /\ today' = today + 1 /\ clock' = 0
  /\ UNCHANGED <<files, light, slot, loop, waiting, user, used, wanted, newer, done>>

RunStep == Read \/ Prepare \/ Finish \/ \E d \in Device : TryHold(d) \/ Send(d)
UserStep(u) == StoreChoice(u) \/ \E d \in Device : Hold(u, d) \/ Command(u, d)

Next ==
  \/ RunStep \/ Retry \/ Tick
  \/ \E u \in User : UserStep(u) \/ \E k \in Key : Choose(u, k)
  \/ \E s \in Settings : Save(s)

Spec == Init /\ [][Next]_vars

\* The loop goes round every minute, five minutes pass, and users' requests end.
Fairness == WF_vars(RunStep) /\ WF_vars(Retry) /\ \A u \in User : WF_vars(UserStep(u))
LiveSpec == Spec /\ Fairness

-----------------------------------------------------------------------------
Succeeds == Over /\ loop'.at = "idle" /\ ~Failed

\* The lights return to Day once a date: what users choose afterwards is not
\* undone the same day, whatever they save meanwhile.
OncePerDate == Succeeds => done # loop.date

\* Day is stored as active only when every light that had to be commanded
\* shows it, unless a user has changed that light since.
MarkedWhenShown ==
  Succeeds => \A d \in Device :
    loop.part[d] = "none" \/ light[d] = "day" \/ d \in newer

\* A reset that is due is made or is no longer wanted, whatever was busy or
\* failed: it neither waits for the next day nor for the exact hour.
ResetHappens == []<>(~settings.enabled \/ clock < settings.hour \/ last = today)

\* "background work never queues behind or overwrites a newer user command"
\* (automations_routes.py:1075): a mode chosen during the run stays active.
ChoiceKept == [][Succeeds => \A k \in newer \cap Key : active'[k] = active[k]]_vars

\* "automations_state.json: Retain as authoritative user configuration"
\* (1_KotiBot_Fixes_Stability_Roadmap.md:184).
SettingsKept == settings = wanted
=============================================================================
