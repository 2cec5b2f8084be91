--------------------------- MODULE AutomationRoutes ---------------------------
(***************************************************************************)
(* The lists of automations and security actions and the requests that     *)
(* change them (/api/automation-routes and /api/routes in                  *)
(* subsystems/automations/trigger_routes.py).  Both scopes share one list  *)
(* in memory.  A page shows automations as /api/automations reads them     *)
(* from the saved file and names them by position; security actions it     *)
(* names by value.  A handler runs under STATE_LOCK, so it is one step; a  *)
(* save that is rejected leaves the list changed and the files not.        *)
(***************************************************************************)
EXTENDS Naturals, FiniteSets, SequencesExt

CONSTANTS
  Page,
  Value,    \* what a route says: source, trigger, action
  Device,
  SourceOf, \* the device a route of a value listens to
  None,
  MaxRoutes, MaxFailures, MaxRestarts, MaxPrunes \* bounds

\* A route has an identity only in this model; a fired one carries last_* fields.
Route == [id : 1 .. MaxRoutes, scope : {"automation", "security"}, value : Value, fired : BOOLEAN]
Nothing == [asked |-> None, hit |-> None, late |-> FALSE]

VARIABLES
  routes, \* ROUTES in memory
  file,   \* security_actions.json and automations_state.json
  view,   \* what each page shows of both scopes
  next,   \* the identity of the next route
  used,   \* bounds
  last,   \* history: the automation the last request named, the one it changed,
          \* and whether its page was behind
  gone,   \* history: security actions deleted and not saved again since
  behind, \* history: pages whose automations others have changed since they loaded
  unsaved \* history: an automation was changed and the change not saved

vars == <<routes, file, view, next, used, last, gone, behind, unsaved>>

Scope(rs, scope) == SelectSeq(rs, LAMBDA r : r.scope = scope)
Ids(rs) == {r.id : r \in Range(rs)}
Shown == [auto |-> Scope(file, "automation"), sec |-> Scope(routes, "security")]

TypeOK ==
  /\ Range(routes) \subseteq Route /\ Range(file) \subseteq Route
  /\ \A p \in Page : Range(view[p].auto) \cup Range(view[p].sec) \subseteq Route
  /\ next \in 1 .. MaxRoutes + 1 /\ gone \subseteq Value
  /\ behind \subseteq Page /\ unsaved \in BOOLEAN
  /\ Cardinality(Ids(routes)) = Len(routes)

Init ==
  /\ routes = <<>> /\ file = <<>> /\ next = 1
  /\ view = [p \in Page |-> [auto |-> <<>>, sec |-> <<>>]]
  /\ used = [failures |-> 0, restarts |-> 0, prunes |-> 0]
  /\ last = Nothing /\ gone = {} /\ behind = {} /\ unsaved = FALSE

Spend(b, max) == used[b] < max /\ used' = [used EXCEPT ![b] = @ + 1]

New(v, scope) == [id |-> next, scope |-> scope, value |-> v, fired |-> FALSE]
May == next <= MaxRoutes

\* save_state: all documents or none.
Saved == file' = routes' /\ UNCHANGED used
Rejected == UNCHANGED file /\ Spend("failures", MaxFailures)

\* A request of page p: a page whose request succeeds loads the lists again.
Loaded(p) == view' = [view EXCEPT ![p] = Shown']
Answered(p) ==
  \/ Saved /\ Loaded(p) /\ behind' = behind \ {p} /\ unsaved' = FALSE
  \/ Rejected /\ UNCHANGED <<view, behind, unsaved>>

\* The same when the request takes an automation out or replaces it.
AnsweredChange(p) ==
  \/ Saved /\ Loaded(p) /\ behind' = Page \ {p} /\ unsaved' = FALSE
  \/ Rejected /\ UNCHANGED view /\ behind' = Page /\ unsaved' = TRUE

-----------------------------------------------------------------------------
Open(p) ==
  /\ UNCHANGED <<routes, file, next, used, last, gone, unsaved>>
  /\ Loaded(p) /\ view' # view
  /\ behind' = IF unsaved THEN behind ELSE behind \ {p}

\* The comparison is of whole routes, fired ones are never equal to a new one.
Post(p, v) ==
  /\ May /\ next' = next + 1 /\ last' = Nothing
  /\ IF \E r \in Range(routes) : r.scope = "automation" /\ r.value = v /\ ~r.fired
     THEN UNCHANGED routes ELSE routes' = Append(routes, New(v, "automation"))
  /\ Answered(p) /\ UNCHANGED gone

Position(i) ==
  {n \in 1 .. Len(routes) :
     /\ routes[n].scope = "automation"
     /\ Cardinality({m \in 1 .. n : routes[m].scope = "automation"}) = i}

\* A position that is not there is answered 404.
Delete(p, i) ==
  /\ i <= Len(view[p].auto)
  /\ \E n \in Position(i) :
       /\ routes' = RemoveAt(routes, n)
       /\ last' = [asked |-> view[p].auto[i].id, hit |-> routes[n].id, late |-> p \in behind]
  /\ AnsweredChange(p) /\ UNCHANGED <<next, gone>>

\* An edit replaces the automation by one or more.
Edit(p, i, v) ==
  /\ i <= Len(view[p].auto) /\ May /\ next' = next + 1
  /\ \E n \in Position(i) :
       /\ routes' = ReplaceAt(routes, n, New(v, "automation"))
       /\ last' = [asked |-> view[p].auto[i].id, hit |-> routes[n].id, late |-> p \in behind]
  /\ AnsweredChange(p) /\ UNCHANGED gone

\* Security actions are compared without their last_* fields.
Same(r, v) == r.scope = "security" /\ r.value = v
Known(v) == \E r \in Range(routes) : Same(r, v)

PostSecurity(p, v) ==
  /\ May /\ next' = next + 1 /\ last' = Nothing
  /\ IF Known(v) THEN UNCHANGED routes ELSE routes' = Append(routes, New(v, "security"))
  /\ gone' = gone \ {v}
  /\ Answered(p)

\* The first match is taken out; none is answered 404.
Matches(v) == {n \in 1 .. Len(routes) : Same(routes[n], v)}
DeleteSecurity(p, i) ==
  /\ i <= Len(view[p].sec)
  /\ LET v == view[p].sec[i].value
     IN \E n \in Matches(v) :
          /\ \A m \in Matches(v) : n <= m
          /\ routes' = RemoveAt(routes, n)
          /\ Answered(p)
          /\ gone' = IF used' = used THEN gone \cup {v} ELSE gone
  /\ last' = Nothing /\ UNCHANGED next

\* A route that runs notes when it did; the note is saved at some later change.
Fire(n) ==
  /\ ~routes[n].fired /\ routes' = [routes EXCEPT ![n].fired = TRUE]
  /\ UNCHANGED <<file, view, next, used, last, gone, behind, unsaved>>

\* prune_routes_for_client_change, when a client is removed.
Prune(d) ==
  /\ Spend("prunes", MaxPrunes)
  /\ routes' = SelectSeq(routes, LAMBDA r : SourceOf[r.value] # d)
  /\ file' = routes' /\ last' = Nothing
  /\ behind' = IF Scope(routes', "automation") = Scope(routes, "automation") THEN behind ELSE Page
  /\ unsaved' = FALSE /\ UNCHANGED <<view, next, gone>>

\* load_state: security actions first.
Restart ==
  /\ Spend("restarts", MaxRestarts)
  /\ routes' = Scope(file, "security") \o Scope(file, "automation")
  /\ last' = Nothing /\ unsaved' = FALSE
  /\ UNCHANGED <<file, view, next, gone, behind>>

Next ==
  \/ \E p \in Page :
       \/ Open(p)
       \/ \E v \in Value : Post(p, v) \/ PostSecurity(p, v)
       \/ \E i \in 1 .. MaxRoutes : \/ Delete(p, i) \/ DeleteSecurity(p, i)
                                    \/ \E v \in Value : Edit(p, i, v)
  \/ \E n \in 1 .. Len(routes) : Fire(n)
  \/ \E d \in Device : Prune(d)
  \/ Restart

Spec == Init /\ [][Next]_vars

-----------------------------------------------------------------------------
(* Properties.                                                             *)

\* "Delete this automation?" means the one the page shows: a request changes
\* the automation that its position named when the page was loaded, after
\* restarts, fired routes, security actions, added automations and rejected saves
\* of those, unless an automation was deleted or edited since by another page,
\* with its client, or by a request whose save was rejected.
ChangesWhatIsShown == last.hit # last.asked => last.late

\* The same without the exception, which two pages or a rejected save refute.
ChangesWhatIsShownAlways == last.hit = last.asked

\* What is saved as a security action exists once, fired or not.
OneOfEach == \A v \in Value : Cardinality(Matches(v)) <= 1

\* A security action whose deletion was confirmed does not come back, after
\* other pages' changes, rejected saves and restarts, until someone saves it.
StaysDeleted == \A v \in gone : Matches(v) = {}
===============================================================================
