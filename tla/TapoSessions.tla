----------------------------- MODULE TapoSessions -----------------------------
(***************************************************************************)
(* The sessions of the server with one Tapo device: the cached handle, the *)
(* slot for new connections, the commands that use the one without asking  *)
(* the device first (scenes, lights) or after asking it (the others), and  *)
(* the refresh that reads it.  Commands of one device follow each other    *)
(* (TapoCommands); the refresh runs beside them.  The device may end a     *)
(* session, be away, be switched by hand, or lose an answer.               *)
(***************************************************************************)
EXTENDS Naturals, FiniteSets

CONSTANTS Scenes, Plain, Refresh,  \* commands of either kind, and the refresh
          None,
          MaxSessions, MaxAway, MaxLost, MaxFlips  \* bounds

Commands == Scenes \cup Plain
Actors == Commands \cup {Refresh}
VARIABLES
  up, session, on,  \* the device: reachable, its session, its power
  cache, auth,      \* _tapo_handles of the device; the session of each handle
  connecting,       \* who holds the connection slot
  at, dev, wish, keep, \* step, handle and wanted power of each actor; who keeps the power
  seen,             \* what an actor has read
  again,            \* actors that have read with a second handle
  clean,            \* no command since the refresh began
  known,            \* tapo_is_on of the client
  applied, result,  \* history of each command
  used

vars == <<up, session, on, cache, auth, connecting, at, dev, wish, keep, seen, again, clean,
          known, applied, result, used>>
device == <<up, session, on>>
handles == <<cache, auth>>
history == <<applied, result>>

Handle == 1 .. Cardinality(Actors) + 1
Using == {"write", "renew", "rewrite", "read", "verify", "ask"}
Idle == {"idle", "ok", "failed"}
Steps == Idle \cup {"get", "verify", "connect", "login", "ask", "write", "renew", "rewrite",
                    "read", "publish"}

TypeOK ==
  /\ session \in 1 .. MaxSessions /\ cache \in Handle \cup {None}
  /\ auth \in [Handle -> 0 .. MaxSessions]
  /\ at \in [Actors -> Steps] /\ dev \in [Actors -> Handle \cup {None}]
  /\ known \in BOOLEAN \cup {None}
  /\ \A a \in Actors : at[a] \in Using <=> dev[a] # None
  /\ \A a \in Actors : at[a] = "login" => connecting = a
  /\ \A a \in Actors : connecting = a => at[a] \in {"login", "verify"}

Init ==
  /\ up = TRUE /\ session = 1 /\ on \in BOOLEAN /\ known = on
  /\ cache = None /\ auth = [h \in Handle |-> 0] /\ connecting = None
  /\ at = [a \in Actors |-> "idle"] /\ dev = [a \in Actors |-> None]
  /\ wish = [a \in Actors |-> None] /\ seen = [a \in Actors |-> None]
  /\ keep = {} /\ again = {} /\ clean = TRUE
  /\ applied = [c \in Commands |-> 0] /\ result = [c \in Commands |-> None]
  /\ used = [away |-> 0, lost |-> 0, flips |-> 0]

Spend(b, max) == used[b] < max /\ used' = [used EXCEPT ![b] = @ + 1]
Accepts(h) == up /\ auth[h] = session
Move(a, step) == at' = [at EXCEPT ![a] = step]
Dropped(h) == IF cache = h THEN None ELSE cache

-----------------------------------------------------------------------------
(* _get_tapo_device.                                                       *)

Work(a) ==
  CASE a \in Scenes /\ wish[a] = None -> "ask"
    [] a \in Commands /\ result[a] = None -> "write"
    [] OTHER -> "read"

Start(c) ==
  /\ at[c] = "idle" /\ \A d \in Commands : at[d] \in Idle
  /\ \E w \in BOOLEAN \cup {None} :
       /\ c \in Plain => w # None
       /\ wish' = [wish EXCEPT ![c] = IF w = None THEN known ELSE w]
       /\ keep' = IF w = None THEN keep \cup {c} ELSE keep
  /\ Move(c, "get") /\ clean' = FALSE
  /\ UNCHANGED <<device, handles, connecting, dev, seen, again, known, history, used>>

Drop(a) == dev' = [dev EXCEPT ![a] = None]

Fail(a) ==
  /\ Drop(a)
  /\ IF a = Refresh
     THEN /\ Move(a, "idle") /\ known' = (IF clean THEN None ELSE known) /\ UNCHANGED result
     ELSE /\ Move(a, "failed") /\ result' = [result EXCEPT ![a] = "failed"] /\ UNCHANGED known

\* A scene and a reading take the handle as it is; other commands first ask the device.
Asks(a) == a \in Plain /\ result[a] = None

Get(a) ==
  /\ at[a] = "get"
  /\ \/ /\ ~Asks(a) /\ cache # None
        /\ dev' = [dev EXCEPT ![a] = cache]
        /\ Move(a, Work(a))
        /\ UNCHANGED <<cache, known, result, again>>
     \/ /\ Asks(a) /\ up /\ cache # None
        /\ dev' = [dev EXCEPT ![a] = cache] /\ Move(a, "verify")
        /\ UNCHANGED <<cache, known, result, again>>
     \/ Asks(a) /\ ~up /\ cache' = None /\ Fail(a) /\ UNCHANGED again
     \/ /\ cache = None /\ (Asks(a) => up) /\ Move(a, "connect")
        /\ again' = again \cup {a}
        /\ UNCHANGED <<cache, dev, known, result>>
  /\ UNCHANGED <<device, auth, connecting, wish, keep, seen, clean, applied, used>>

Left(a) == IF connecting = a THEN None ELSE connecting

\* A handle that does not answer is forgotten; in the slot, its holder connects at once.
Verify(a) ==
  /\ at[a] = "verify"
  /\ IF Accepts(dev[a])
     THEN Move(a, "write") /\ connecting' = Left(a) /\ UNCHANGED <<cache, dev>>
     ELSE /\ Move(a, IF connecting = a THEN "login" ELSE "connect")
          /\ cache' = None /\ Drop(a) /\ UNCHANGED connecting
  /\ UNCHANGED <<device, auth, wish, keep, seen, again, clean, known, history, used>>

EnterUnchecked(a) ==
  /\ at[a] = "connect" /\ connecting = None
  /\ connecting' = a /\ Move(a, "login")
  /\ UNCHANGED <<device, handles, dev, wish, keep, seen, again, clean, known, history, used>>
\* Another request may have connected meanwhile.
Enter(a) ==
  /\ at[a] = "connect" /\ connecting = None
  /\ dev' = [dev EXCEPT ![a] = cache]
  /\ \/ cache = None /\ connecting' = a /\ Move(a, "login")
     \/ cache # None /\ Asks(a) /\ connecting' = a /\ Move(a, "verify")
     \/ cache # None /\ ~Asks(a) /\ Move(a, Work(a)) /\ UNCHANGED connecting
  /\ UNCHANGED <<device, handles, wish, keep, seen, again, clean, known, history, used>>

\* _connect_tapo_device
Login(a) ==
  /\ at[a] = "login" /\ connecting' = None
  /\ \/ /\ up
        /\ LET h == CHOOSE i \in Handle \ {cache} : \A b \in Actors : dev[b] # i IN
           /\ auth' = [auth EXCEPT ![h] = session] /\ cache' = h
           /\ dev' = [dev EXCEPT ![a] = h]
        /\ Move(a, Work(a))
        /\ UNCHANGED <<known, result>>
     \/ ~up /\ cache' = None /\ Fail(a) /\ UNCHANGED auth
  /\ UNCHANGED <<device, wish, keep, seen, again, clean, applied, used>>

-----------------------------------------------------------------------------
(* tapo_scenes.set_tapo_scene_from_info and set_tapo_device.               *)

\* The power to keep is not known: it is read, with a renewed session if need be.
Ask(c) ==
  /\ at[c] = "ask"
  /\ \/ /\ up /\ Move(c, "write") /\ wish' = [wish EXCEPT ![c] = on]
        /\ auth' = [auth EXCEPT ![dev[c]] = session]
        /\ UNCHANGED <<known, result, cache, dev>>
     \/ ~up /\ Fail(c) /\ cache' \in {cache, Dropped(dev[c])} /\ UNCHANGED <<auth, wish>>
  /\ UNCHANGED <<device, connecting, keep, seen, again, clean, applied, used>>

Apply(c) == on' = wish[c] /\ applied' = [applied EXCEPT ![c] = @ + 1]

\* A scene is done when the device has answered; another command reads it back.
Done(c) ==
  /\ Drop(c) /\ again' = again \ {c}
  /\ IF c \in Scenes
     THEN Move(c, "ok") /\ result' = [result EXCEPT ![c] = "ok"] /\ known' = wish[c]
     ELSE result' = [result EXCEPT ![c] = "sent"] /\ Move(c, "get") /\ UNCHANGED known

\* Answered, or applied and the answer lost, or refused because the session is over.
Write(c) ==
  /\ at[c] = "write"
  /\ \/ Accepts(dev[c]) /\ Apply(c) /\ Done(c) /\ UNCHANGED used
     \/ Accepts(dev[c]) /\ Apply(c) /\ Spend("lost", MaxLost) /\ Fail(c) /\ UNCHANGED again
     \/ /\ c \in Scenes /\ up /\ ~Accepts(dev[c]) /\ Move(c, "renew")
        /\ UNCHANGED <<on, applied, known, result, used, dev, again>>
     \/ /\ ~Accepts(dev[c]) /\ (c \in Plain \/ ~up) /\ Fail(c)
        /\ UNCHANGED <<on, applied, used, again>>
  /\ UNCHANGED <<up, session, handles, connecting, wish, keep, seen, clean>>

\* refresh_session; a handle that could not be renewed is not left for the next click.
Renew(c) ==
  /\ at[c] = "renew"
  /\ IF up THEN /\ auth' = [auth EXCEPT ![dev[c]] = session] /\ Move(c, "rewrite")
                /\ UNCHANGED <<cache, dev, known, result>>
     ELSE Fail(c) /\ cache' = Dropped(dev[c]) /\ UNCHANGED auth
  /\ UNCHANGED <<device, connecting, wish, keep, seen, again, clean, applied, used>>

Rewrite(c) ==
  /\ at[c] = "rewrite"
  /\ \/ Accepts(dev[c]) /\ Apply(c) /\ Done(c) /\ UNCHANGED <<cache, used>>
     \/ /\ Accepts(dev[c]) /\ Apply(c) /\ Spend("lost", MaxLost)
        /\ Fail(c) /\ cache' = Dropped(dev[c]) /\ UNCHANGED again
     \/ /\ ~Accepts(dev[c]) /\ Fail(c) /\ cache' = Dropped(dev[c])
        /\ UNCHANGED <<on, applied, used, again>>
  /\ UNCHANGED <<up, session, auth, connecting, wish, keep, seen, clean>>

-----------------------------------------------------------------------------
(* _read_tapo_refresh_info and _enrich_control_state.                      *)

BeginRefresh ==
  /\ at[Refresh] = "idle" /\ Move(Refresh, "get")
  /\ clean' = (\A c \in Commands : at[c] \in Idle) /\ again' = again \ {Refresh}
  /\ UNCHANGED <<device, handles, connecting, dev, wish, keep, seen, known, history, used>>

ReadBack(c) ==
  /\ Move(c, IF on = wish[c] THEN "ok" ELSE "failed")
  /\ result' = [result EXCEPT ![c] = IF on = wish[c] THEN "ok" ELSE "failed"]
  /\ known' = IF on = wish[c] THEN wish[c] ELSE known
  /\ UNCHANGED seen

\* A reading that fails drops the handle, once more with a new one while the device is there.
Read(a) ==
  /\ at[a] = "read"
  /\ \/ /\ Accepts(dev[a])
        /\ IF a = Refresh THEN /\ seen' = [seen EXCEPT ![a] = on] /\ Move(a, "publish")
                               /\ UNCHANGED <<known, result>>
           ELSE ReadBack(a)
        /\ Drop(a)
        /\ UNCHANGED <<cache, again>>
     \/ /\ up /\ ~Accepts(dev[a]) /\ a \notin again
        /\ cache' = Dropped(dev[a]) /\ again' = again \cup {a} /\ Move(a, "get") /\ Drop(a)
        /\ UNCHANGED <<seen, known, result>>
     \/ ~Accepts(dev[a]) /\ (~up \/ a \in again) /\ cache' = None /\ Fail(a) /\ UNCHANGED <<again, seen>>
  /\ UNCHANGED <<device, auth, connecting, wish, keep, clean, applied, used>>

Publish ==
  /\ at[Refresh] = "publish" /\ Move(Refresh, "idle")
  /\ known' = (IF clean THEN seen[Refresh] ELSE known)
  /\ seen' = [seen EXCEPT ![Refresh] = None]
  /\ UNCHANGED <<device, handles, connecting, dev, wish, keep, again, clean, history, used>>

\* wait_for gives the refresh up at any of its waits and drops the handle.
GiveUp ==
  /\ at[Refresh] \in {"get", "connect", "login", "read"}
  /\ connecting' = Left(Refresh)
  /\ cache' = None /\ Fail(Refresh) /\ Spend("lost", MaxLost)
  /\ UNCHANGED <<device, auth, wish, keep, seen, again, clean, applied>>

-----------------------------------------------------------------------------
(* The device.                                                             *)

EndSession ==
  /\ session < MaxSessions /\ session' = session + 1
  /\ UNCHANGED <<up, on, handles, connecting, at, dev, wish, keep, seen, again, clean, known, history, used>>
GoAway ==
  /\ up /\ Spend("away", MaxAway) /\ up' = FALSE
  /\ UNCHANGED <<session, on, handles, connecting, at, dev, wish, keep, seen, again, clean, known, history>>
ComeBack ==
  /\ ~up /\ up' = TRUE
  /\ UNCHANGED <<session, on, handles, connecting, at, dev, wish, keep, seen, again, clean, known, history, used>>
Flip ==
  /\ Spend("flips", MaxFlips) /\ on' = ~on
  /\ UNCHANGED <<up, session, handles, connecting, at, dev, wish, keep, seen, again, clean, known, history>>

Act(a) == Get(a) \/ Verify(a) \/ Enter(a) \/ Login(a) \/ Read(a)
CommandStep(c) == Start(c) \/ Ask(c) \/ Write(c) \/ Renew(c) \/ Rewrite(c)

Next ==
  \/ \E a \in Actors : Act(a)
  \/ \E c \in Commands : CommandStep(c)
  \/ BeginRefresh \/ Publish \/ GiveUp
  \/ EndSession \/ GoAway \/ ComeBack \/ Flip

Spec == Init /\ [][Next]_vars

\* Calls end by their deadlines; the refresh loop comes round.
FairSpec ==
  /\ Spec /\ WF_vars(BeginRefresh) /\ WF_vars(Publish)
  /\ \A a \in Actors : WF_vars(Act(a)) /\ SF_vars(Enter(a))
  /\ \A c \in Commands : WF_vars(CommandStep(c))

-----------------------------------------------------------------------------
\* A command changes the device at most once, however its session ends or its answer is lost.
AtMostOnce == \A c \in Commands : applied[c] <= 1

\* A command that is reported as done was done by the device.
Truthful == \A c \in Commands : result[c] = "ok" => applied[c] > 0

\* Nobody connects over a handle that is cached: a new one comes when the last was dropped.
NoSecondLogin == cache' # cache /\ cache' # None => cache = None

\* A handle whose session the device has ended does not stay in the cache.
StaleHandleGoes ==
  (cache # None /\ auth[cache] # session) ~> (cache = None \/ auth[cache] = session)

\* A command that was to keep the power never turns on a device that is off.
KeepsOff ==
  [][\A c \in Scenes : c \in keep /\ applied'[c] > applied[c] /\ ~on => ~on']_vars
=============================================================================
