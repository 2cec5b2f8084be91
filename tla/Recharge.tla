------------------------------- MODULE Recharge -------------------------------
(***************************************************************************)
(* Charging Android clients through Tapo plugs (run_tapo_recharge_once in  *)
(* subsystems/automations/automations_routes.py).  A pass of the           *)
(* automation loop reads rules, batteries and recorded plug states under   *)
(* STATE_LOCK, commands the plugs without the lock and without the command *)
(* slot of the plug, and records the results under STATE_LOCK again.       *)
(* Users command the same plugs, phones appear, vanish and are renamed,    *)
(* and a watcher reads the plugs back.                                     *)
(***************************************************************************)
EXTENDS Naturals, FiniteSets, SequencesExt

CONSTANTS
  Clients,  \* the phones in the order of CLIENTS
  Plug, Name, None,
  Ruled,    \* the plug of each phone's first rule
  MaxCommands, MaxFailures, MaxChanges \* bounds

Phone == Range(Clients)
Level == {"low", "between", "full"}
NoRule == [plug |-> None, name |-> None]
NoItem == [plug |-> None, on |-> FALSE]

VARIABLES
  known,   \* phones and plugs in CLIENTS
  name,    \* clientName of each phone
  battery, fresh, \* the battery reported last, and whether that was recent
  rule,    \* tapo_recharge_android_battery in automations_state.json
  isOn,    \* the relay of each plug
  record,  \* tapo_is_on in CLIENTS
  pass,    \* the pass: the commands it has prepared and their results
  user,    \* the user command in the slot of each plug
  reading, \* what the watcher has read of each plug and not yet recorded
  newer,   \* history: the user's command of each plug since the pass decided
  left,    \* history: the plugs taken out by a command or with the add-on
  used     \* bounds

clientVars == <<known, name, battery, fresh>>
plugs == <<isOn, record>>
vars == <<clientVars, rule, plugs, pass, user, reading, newer, left, used>>

Idle == [at |-> "idle", todo |-> [p \in Phone |-> NoItem], done |-> [p \in Phone |-> NoItem]]

TypeOK ==
  /\ known \subseteq Phone \cup Plug /\ name \in [Phone -> Name]
  /\ battery \in [Phone -> Level] /\ fresh \in [Phone -> BOOLEAN]
  /\ rule \in [Phone -> [plug : Plug \cup {None}, name : Name \cup {None}]]
  /\ isOn \in [Plug -> BOOLEAN] /\ record \in [Plug -> BOOLEAN]
  /\ pass.at \in {"idle", "commanding"}
  /\ \A p \in Phone : pass.todo[p].plug # None => pass.done[p] = NoItem
  /\ user \in [Plug -> {None, TRUE, FALSE}] /\ newer \in [Plug -> {None, TRUE, FALSE}]
  /\ reading \in [Plug -> {None, TRUE, FALSE}] /\ left \subseteq Plug

Init ==
  /\ known = Phone \cup Plug /\ name \in [Phone -> Name]
  /\ battery = [p \in Phone |-> "between"] /\ fresh = [p \in Phone |-> FALSE]
  /\ rule = [p \in Phone |-> IF Ruled[p] = None THEN NoRule
                             ELSE [plug |-> Ruled[p], name |-> name[p]]]
  /\ isOn = [s \in Plug |-> FALSE] /\ record = isOn
  /\ pass = Idle
  /\ user = [s \in Plug |-> None] /\ reading = user /\ newer = user /\ left = {}
  /\ used = [commands |-> 0, failures |-> 0, changes |-> 0]

Spend(b, max) == used[b] < max /\ used' = [used EXCEPT ![b] = @ + 1]

-----------------------------------------------------------------------------
(* The rules.                                                              *)

\* The rule goes along with a name that one client and one other rule have.
Named(r, n) == {q \in Phone : r[q].plug # None /\ r[q].name = n}
HandOverCopying(r, p) ==
  LET others == Named(r, name[p]) \ {p}
  IN IF /\ r[p].plug = None /\ Cardinality(others) = 1
        /\ {q \in Phone \cap known : name[q] = name[p]} = {p}
     THEN [r EXCEPT ![p] = r[CHOOSE q \in others : TRUE]]
     ELSE r
HandOver(r, p) ==
  LET others == Named(r, name[p]) \ {p}
  IN IF /\ r[p].plug = None /\ Cardinality(others) = 1
        /\ {q \in Phone \cap known : name[q] = name[p]} = {p}
     THEN [q \in Phone |-> IF q = p THEN r[CHOOSE o \in others : TRUE]
                           ELSE IF q \in others THEN NoRule ELSE r[q]]
     ELSE r

\* tapo_recharge_rules: one client after the other, and its new name is stored.
Visit(r, p) ==
  LET moved == HandOver(r, p)
  IN IF p \notin known THEN r
     ELSE IF moved[p].plug = None THEN moved ELSE [moved EXCEPT ![p].name = name[p]]
Rules == FoldLeft(Visit, rule, Clients)

Without(r, d) == [p \in Phone |-> IF d \in {p, r[p].plug} THEN NoRule ELSE r[p]]

Save(p, s) ==
  /\ {p, s} \subseteq known /\ Spend("changes", MaxChanges)
  /\ rule' = [Rules EXCEPT ![p] = [plug |-> s, name |-> name[p]]]
  /\ UNCHANGED <<clientVars, plugs, pass, user, reading, newer, left>>

\* /api/remove-client.
RemovePhone(p) ==
  /\ p \in known /\ Spend("changes", MaxChanges)
  /\ rule' = Without(rule, p) /\ known' = known \ {p}
  /\ UNCHANGED <<name, battery, fresh, plugs, pass, user, reading, newer, left>>

Leaves(s) ==
  /\ s \in known /\ known' = known \ {s}
  /\ Spend("changes", MaxChanges) /\ user[s] = None
  /\ UNCHANGED <<name, battery, fresh, plugs, pass, user, reading, newer>>

\* /api/tapo/remove-client and /api/tapo/remove-addon.
RemovePlug(s) == Leaves(s) /\ rule' = Without(rule, s) /\ UNCHANGED left

\* /api/tapo/client-command with the action "remove", and /api/tapo/disable.
\* They leave the rules as they are.
RemoveByCommand(s) == Leaves(s) /\ left' = left \cup {s} /\ UNCHANGED rule

Register(d) ==
  /\ d \notin known /\ known' = known \cup {d} /\ Spend("changes", MaxChanges)
  /\ IF d \in Plug THEN record' = [record EXCEPT ![d] = isOn[d]] ELSE UNCHANGED record
  /\ left' = left \ {d}
  /\ UNCHANGED <<name, battery, fresh, rule, isOn, pass, user, reading, newer>>

Rename(p, n) ==
  /\ p \in known /\ n # name[p] /\ name' = [name EXCEPT ![p] = n]
  /\ Spend("changes", MaxChanges)
  /\ UNCHANGED <<known, battery, fresh, rule, plugs, pass, user, reading, newer, left>>

\* A heartbeat or telemetry reports the battery.
Report(p, level) ==
  /\ p \in known /\ battery' = [battery EXCEPT ![p] = level] /\ fresh' = [fresh EXCEPT ![p] = TRUE]
  /\ <<battery, fresh>>' # <<battery, fresh>>
  /\ UNCHANGED <<known, name, rule, plugs, pass, user, reading, newer, used, left>>

\* recharge_battery_is_current: nothing heard for two heartbeats.
FallSilent(p) ==
  /\ fresh[p] /\ fresh' = [fresh EXCEPT ![p] = FALSE]
  /\ UNCHANGED <<known, name, battery, rule, plugs, pass, user, reading, newer, used, left>>

-----------------------------------------------------------------------------
(* The pass.                                                               *)

Wants(p) == fresh[p] /\ battery[p] # "between"

Item(r, p) ==
  LET s == r[p].plug
      on == battery[p] = "low"
  IN IF /\ p \in known /\ Wants(p) /\ s # None
        /\ s \in known /\ record[s] # on
     THEN [plug |-> s, on |-> on] ELSE NoItem

Prepare ==
  /\ pass.at = "idle"
  /\ rule' = Rules
  /\ pass' = [at |-> "commanding", todo |-> [p \in Phone |-> Item(rule', p)],
              done |-> [p \in Phone |-> NoItem]]
  /\ newer' = [s \in Plug |-> None]
  /\ UNCHANGED <<clientVars, plugs, user, reading, used, left>>

\* set_tapo_device_from_info, in the order of the clients; it may fail.
Turn(p) ==
  LET item == pass.todo[p]
  IN /\ item.plug # None
     /\ \/ /\ isOn' = [isOn EXCEPT ![item.plug] = item.on]
           /\ pass' = [pass EXCEPT !.todo[p] = NoItem, !.done[p] = item]
           /\ UNCHANGED used
        \/ /\ Spend("failures", MaxFailures)
           /\ pass' = [pass EXCEPT !.todo[p] = NoItem] /\ UNCHANGED isOn
     /\ UNCHANGED <<clientVars, rule, record, user, reading, newer, left>>

\* update_tapo_client_from_command_result, for the plugs still in CLIENTS.
Results(s) == {p \in Phone : pass.done[p].plug = s}
Record ==
  /\ pass.at = "commanding" /\ \A p \in Phone : pass.todo[p].plug = None
  /\ pass' = Idle
  /\ record' \in [Plug -> BOOLEAN]
  /\ \A s \in Plug : IF s \in known /\ Results(s) # {}
                     THEN \E p \in Results(s) : record'[s] = pass.done[p].on
                     ELSE record'[s] = record[s]
  /\ UNCHANGED <<clientVars, rule, isOn, user, reading, newer, used, left>>

-----------------------------------------------------------------------------
(* What else reaches a plug.                                               *)

\* A user's command holds the slot of the plug and makes readings stale.
Command(s, on) ==
  /\ s \in known /\ user[s] = None /\ Spend("commands", MaxCommands)
  /\ user' = [user EXCEPT ![s] = on] /\ reading' = [reading EXCEPT ![s] = None]
  /\ UNCHANGED <<clientVars, rule, plugs, pass, newer, left>>

Obey(s) ==
  /\ user[s] # None
  /\ isOn' = [isOn EXCEPT ![s] = user[s]] /\ record' = [record EXCEPT ![s] = user[s]]
  /\ newer' = [newer EXCEPT ![s] = user[s]] /\ user' = [user EXCEPT ![s] = None]
  /\ UNCHANGED <<clientVars, rule, pass, reading, used, left>>

\* The watcher reads a plug, and records the reading when no command came since.
Read(s) ==
  /\ s \in known /\ user[s] = None /\ reading[s] = None
  /\ reading' = [reading EXCEPT ![s] = isOn[s]]
  /\ UNCHANGED <<clientVars, rule, plugs, pass, user, newer, used, left>>

Refresh(s) ==
  /\ reading[s] # None /\ reading' = [reading EXCEPT ![s] = None]
  /\ record' = IF s \in known THEN [record EXCEPT ![s] = reading[s]] ELSE record
  /\ UNCHANGED <<clientVars, rule, isOn, pass, user, newer, used, left>>

-----------------------------------------------------------------------------
Next ==
  \/ Prepare \/ Record
  \/ \E p \in Phone : \/ Turn(p) \/ FallSilent(p) \/ RemovePhone(p)
                      \/ \E level \in Level : Report(p, level)
                      \/ \E n \in Name : Rename(p, n)
                      \/ \E s \in Plug : Save(p, s)
  \/ \E d \in Phone \cup Plug : Register(d)
  \/ \E s \in Plug : \/ Obey(s) \/ Read(s) \/ Refresh(s) \/ RemovePlug(s) \/ RemoveByCommand(s)
                     \/ \E on \in BOOLEAN : Command(s, on)

\* The loop, the watcher and the workers of user commands are threads that go on.
Spec == Init /\ [][Next]_vars
FairSpec ==
  /\ Spec /\ WF_vars(Prepare) /\ WF_vars(Record)
  /\ \A p \in Phone : WF_vars(Turn(p))
  /\ \A s \in Plug : WF_vars(Obey(s)) /\ WF_vars(Read(s)) /\ WF_vars(Refresh(s))

-----------------------------------------------------------------------------
(* Properties.                                                             *)

\* A rule names only clients that are registered, but for a plug that a command
\* or the end of its add-on took out: every other removal takes its rules along,
\* and no pass, rename or hand-over brings one back.
NoDanglingRule ==
  \A p \in Phone : rule[p].plug # None => {p, rule[p].plug} \subseteq known \cup left

\* The same of every removal, as remove_tapo_recharge_rules_for_device has it:
\* a plug removed by a command refutes it.
NoDanglingRuleAtAll ==
  \A p \in Phone : rule[p].plug # None => {p, rule[p].plug} \subseteq known

\* Following renamed clients, a pass neither loses nor doubles a rule.
PlugsRuled(r) == [s \in Plug |-> Cardinality({p \in Phone : r[p].plug = s})]
RulesKept == pass.at = "idle" /\ pass'.at = "commanding" => PlugsRuled(rule') = PlugsRuled(rule)

\* The rule of a client that stays registered is not given to another one
\* because names were exchanged (automations_state.json is the user's).
RuleStays ==
  [][\A p \in Phone : p \in known \cap known' /\ rule[p].plug \in known' => rule'[p].plug # None]_vars

\* A user's command that is newer than the decision of the pass stands when
\* both are over.
UserCommandStands ==
  \A s \in Plug : pass.at = "idle" /\ user[s] = None /\ newer[s] # None => isOn[s] = newer[s]

\* A phone that keeps reporting a low battery is charged, and one that keeps
\* reporting a full one no longer, unless it shares the plug with another rule.
Owed(p, s) == p \in known /\ s \in known /\ fresh[p] /\ rule[p].plug = s
              /\ \A q \in Phone \ {p} : rule[q].plug # s
Charged ==
  \A p \in Phone, s \in Plug :
    /\ Owed(p, s) /\ battery[p] = "low" ~> isOn[s] \/ ~(Owed(p, s) /\ battery[p] = "low")
    /\ Owed(p, s) /\ battery[p] = "full" ~> ~isOn[s] \/ ~(Owed(p, s) /\ battery[p] = "full")
===============================================================================
