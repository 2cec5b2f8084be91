------------------------------- MODULE MCTapo --------------------------------
(***************************************************************************)
(* Tapo for TLC: the command queues of one device and of two devices with  *)
(* scenes, the sessions with a device, and the requests of pages. The      *)
(* components share no state: a behaviour is about one of them, as part    *)
(* says, and the others stay in their initial states.                      *)
(***************************************************************************)
EXTENDS TapoCommands

CONSTANTS
  Parts,
  SceneCommands, PlainCommands, RefreshLoop,      \* the sessions: their users
  MaxSessions, MaxAway, MaxLost, MaxFlips         \* bounds of them

VARIABLES
  part, \* which component the behaviour is about
  up, session, on, cache, auth, connecting, step, dev, wish, keep, seen,
  again, clean, knownOn, applied, result, used,
  clicks, shown, sent, sequences, requested, sceneQueue, sceneTargets, lit,
  home, admitted, saves

Two == INSTANCE TapoCommands WITH
  Command <- {}, Watcher <- {}, MaxIssued <- 2, MaxClients <- 1
Sessions == INSTANCE TapoSessions WITH
  Scenes <- SceneCommands, Plain <- PlainCommands, Refresh <- RefreshLoop,
  at <- step, known <- knownOn
Scenes == INSTANCE TapoScenes WITH
  Page <- {"p1", "p2"}, Device <- {"d1", "d2"}, Cap <- 2, Limit <- 2,
  MaxClicks <- 2, MaxSaves <- 0, queue <- sceneQueue, targets <- sceneTargets
Pages == INSTANCE TapoScenes WITH
  Page <- {"p1", "p2"}, Device <- {"d1"}, Cap <- 1, Limit <- 1,
  MaxClicks <- 2, MaxSaves <- 0, queue <- sceneQueue, targets <- sceneTargets

\* The refresh is no command, and no command is of both kinds.
ASSUME SessionsAssumption ==
  /\ RefreshLoop \notin SceneCommands \cup PlainCommands /\ SceneCommands \cap PlainCommands = {}
  /\ None \notin Sessions!Steps \cup Sessions!Actors \cup {"sent"} /\ None \notin BOOLEAN

sessionsVars == <<up, session, on, cache, auth, connecting, step, dev, wish,
                  keep, seen, again, clean, knownOn, applied, result, used>>
scenesVars == <<clicks, shown, sent, sequences, requested, sceneQueue,
                sceneTargets, lit, home, admitted, saves>>
MCvars == <<part, vars, sessionsVars, scenesVars>>

MCInit ==
  /\ part \in Parts
  /\ Init
  /\ CASE part = "sessions" -> Sessions!Init
       [] OTHER -> Sessions!Init /\ on = FALSE
  /\ CASE part = "pages" -> Pages!Init
       [] OTHER -> Scenes!Init

\* The second device and the second scene stay out.
OneDevice ==
  /\ targets'["s2"] = {} /\ \A e \in Device : at'["s2"][e] = "idle"
  /\ \A a \in Agent : at'[a]["d2"] = "idle"
  /\ "d2" \notin targets'["s1"]
  /\ client'["d2"] = 1 /\ power'["d2"] = 1 /\ got'["d2"] = 0

\* What the others would use stays as it is.
CommandsStep ==
  /\ \/ part = "device" /\ Next /\ OneDevice
     \/ part = "two devices" /\ Two!Next
  /\ UNCHANGED <<part, sessionsVars, scenesVars>>
SessionsStep ==
  /\ part = "sessions" /\ Sessions!Next
  /\ UNCHANGED <<part, vars, scenesVars>>
ScenesStep ==
  /\ \/ part = "scenes" /\ Scenes!Next
     \/ part = "pages" /\ Pages!Next
  /\ UNCHANGED <<part, vars, sessionsVars>>

MCNext == CommandsStep \/ SessionsStep \/ ScenesStep

MCSpec == MCInit /\ [][MCNext]_MCvars

------------------------------------------------------------------------------
\* However sessions end and answers are lost, a command acts at most once, is
\* reported as done only when it was, and no second login replaces a handle
\* that is in use (the connection cache of tapo_control.py).
CommandsAreTrue ==
  /\ [](part = "sessions" => Sessions!AtMostOnce /\ Sessions!Truthful)
  /\ [][part = "sessions" => Sessions!NoSecondLogin]_MCvars

\* The home ends in the scene that was admitted last, at every device and in
\* the file, and a page's older click overtakes its newer one only when the
\* page was forgotten between them (execute_home_scene).
LastSceneWins ==
  /\ [](part = "scenes" => Scenes!HomeIsNewest)
  /\ [][part = "scenes" => Scenes!NoInversion]_MCvars
  /\ [](part = "pages" => Pages!ClickOrder)
==============================================================================
