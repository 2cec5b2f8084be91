------------------------------ MODULE VideoUpload ------------------------------
(***************************************************************************)
(* Recording segments of the phones: upload_video reserves a name, copies  *)
(* the body into it, probes its rotation, and turns it by way of a staging *)
(* file, which is renamed over the recording or, across file systems,      *)
(* copied beside it first.                                                 *)
(*                                                                         *)
(* The uploads share a directory and a stem: the same camera in the same   *)
(* second.  A content is the upload it comes from and how far it has come. *)
(***************************************************************************)
EXTENDS Naturals, FiniteSets

CONSTANTS Uploads, None,
          MaxCrashes   \* bound

VARIABLES
  role,     \* "cam", "none" or "gone": the client record of the camera
  step,     \* where the handler of each upload is
  name,     \* the index of the name it chose
  turn,     \* whether its rotation asks for a transcode
  file,     \* the recording directory
  staged,   \* the file in the transcode directory
  beside,   \* the file beside the recording
  last,     \* last_video_path
  crashes

vars == <<role, step, name, turn, file, staged, beside, last, crashes>>
disk == <<file, staged, beside>>

Names == 0 .. Cardinality(Uploads)
Forms == {"part", "whole", "turned"}
Content == [of : Uploads, form : Forms]
Ends == {"ok", "refused", "failed", "killed"}
Steps == {"sent", "admitted", "named", "reserved", "stored", "probed", "made", "turning", "staged",
          "crossing", "copied", "done"} \cup Ends

ASSUME VideoUploadAssumption == None \notin Content /\ MaxCrashes \in Nat

TypeOK ==
  /\ role \in {"cam", "none", "gone"} /\ step \in [Uploads -> Steps]
  /\ name \in [Uploads -> Names \cup {None}] /\ turn \in [Uploads -> BOOLEAN]
  /\ file \in [Names -> Content \cup {None}]
  /\ staged \in [Uploads -> {None, "empty", "part", "turned"}]
  /\ beside \in [Uploads -> {None, "part", "turned"}]
  /\ last \in Names \cup {None} /\ crashes \in 0 .. MaxCrashes
  /\ \A u \in Uploads : step[u] = "reserved" => file[name[u]] # None

Init ==
  /\ role = "cam" /\ step = [u \in Uploads |-> "sent"] /\ name = [u \in Uploads |-> None]
  /\ turn = [u \in Uploads |-> FALSE] /\ file = [n \in Names |-> None]
  /\ staged = [u \in Uploads |-> None] /\ beside = [u \in Uploads |-> None]
  /\ last = None /\ crashes = 0

Goto(u, s) == step' = [step EXCEPT ![u] = s]
Put(n, u, form) == file' = [file EXCEPT ![n] = [of |-> u, form |-> form]]

-----------------------------------------------------------------------------
(* A name for the recording.                                               *)

Admit(u) ==
  /\ step[u] = "sent" /\ Goto(u, IF role = "cam" THEN "admitted" ELSE "refused")
  /\ UNCHANGED <<role, name, turn, disk, last, crashes>>

\* available_video_path: the first index that does not exist.
Available(n) == file[n] = None /\ \A m \in Names : m < n => file[m] # None

Choose(u) ==
  /\ step[u] = "admitted"
  /\ \E n \in Names : Available(n) /\ name' = [name EXCEPT ![u] = n]
  /\ Goto(u, "named") /\ UNCHANGED <<role, turn, disk, last, crashes>>

Reserve(u) ==
  /\ step[u] = "named"
  /\ IF file[name[u]] = None THEN Goto(u, "reserved") /\ Put(name[u], u, "part")
     ELSE Goto(u, "admitted") /\ UNCHANGED file
  /\ UNCHANGED <<role, name, turn, staged, beside, last, crashes>>

-----------------------------------------------------------------------------
(* The body and its rotation.                                              *)

Store(u) ==
  /\ step[u] = "reserved" /\ Put(name[u], u, "whole") /\ Goto(u, "stored")
  /\ UNCHANGED <<role, name, turn, staged, beside, last, crashes>>
StoreFailsUnnoticed(u) ==
  /\ step[u] = "reserved" /\ file' = [file EXCEPT ![name[u]] = None] /\ Goto(u, "stored")
  /\ UNCHANGED <<role, name, turn, staged, beside, last, crashes>>
StoreFails(u) ==
  /\ step[u] = "reserved" /\ file' = [file EXCEPT ![name[u]] = None] /\ Goto(u, "failed")
  /\ UNCHANGED <<role, name, turn, staged, beside, last, crashes>>

\* The rotation the request, or else the probe, asks for; without ffmpeg
\* the segment is left as it is.
Probe(u) ==
  /\ step[u] = "stored"
  /\ \E asked \in BOOLEAN : turn' = [turn EXCEPT ![u] = asked]
  /\ Goto(u, "probed") /\ UNCHANGED <<role, name, disk, last, crashes>>
\* A probe that takes too long raises out of the handler.
ProbeTimeout(u) ==
  /\ step[u] = "stored" /\ Goto(u, "failed")
  /\ UNCHANGED <<role, name, turn, disk, last, crashes>>

Untouched(u) ==
  /\ step[u] = "probed" /\ ~ turn[u] /\ Goto(u, "done")
  /\ UNCHANGED <<role, name, turn, disk, last, crashes>>
Stage(u) ==
  /\ step[u] = "probed" /\ turn[u]
  /\ staged' = [staged EXCEPT ![u] = "empty"] /\ Goto(u, "made")
  /\ UNCHANGED <<role, name, turn, file, beside, last, crashes>>

\* The empty file is made private, or stays: nothing removes it yet.
Secure(u) ==
  /\ step[u] = "made"
  /\ staged' = [staged EXCEPT ![u] = "part"] /\ Goto(u, "turning")
  /\ UNCHANGED <<role, name, turn, file, beside, last, crashes>>
SecureFails(u) ==
  /\ step[u] = "made" /\ Goto(u, "done")
  /\ UNCHANGED <<role, name, turn, disk, last, crashes>>
Transcode(u) ==
  /\ step[u] = "turning"
  /\ staged' = [staged EXCEPT ![u] = "turned"] /\ Goto(u, "staged")
  /\ UNCHANGED <<role, name, turn, file, beside, last, crashes>>

\* From then on normalize_video_rotation removes its staging file however it is
\* left, and the handler only notes the error.
GiveUpTurning(u) ==
  /\ step[u] \in {"probed", "turning", "staged"} /\ turn[u]
  /\ staged' = [staged EXCEPT ![u] = None] /\ Goto(u, "done")
  /\ UNCHANGED <<role, name, turn, file, beside, last, crashes>>

-----------------------------------------------------------------------------
(* replace_staged_video                                                    *)

Rename(u) ==
  /\ step[u] = "staged" /\ Put(name[u], u, "turned")
  /\ staged' = [staged EXCEPT ![u] = None] /\ Goto(u, "done")
  /\ UNCHANGED <<role, name, turn, beside, last, crashes>>

CrossInPlace(u) ==
  /\ step[u] = "staged" /\ Put(name[u], u, "part") /\ Goto(u, "crossing")
  /\ beside' = [beside EXCEPT ![u] = "part"]
  /\ UNCHANGED <<role, name, turn, staged, last, crashes>>
\* Another file system: the copy goes to a file beside the recording.
Cross(u) ==
  /\ step[u] = "staged" /\ beside' = [beside EXCEPT ![u] = "part"] /\ Goto(u, "crossing")
  /\ UNCHANGED <<role, name, turn, file, staged, last, crashes>>
CopyAcross(u) ==
  /\ step[u] = "crossing" /\ beside' = [beside EXCEPT ![u] = "turned"] /\ Goto(u, "copied")
  /\ UNCHANGED <<role, name, turn, file, staged, last, crashes>>
ReplaceCrossed(u) ==
  /\ step[u] = "copied" /\ Put(name[u], u, "turned") /\ Goto(u, "done")
  /\ beside' = [beside EXCEPT ![u] = None] /\ staged' = [staged EXCEPT ![u] = None]
  /\ UNCHANGED <<role, name, turn, last, crashes>>
CrossFailsLeaving(u) ==
  /\ step[u] \in {"crossing", "copied"} /\ Goto(u, "done")
  /\ staged' = [staged EXCEPT ![u] = None]
  /\ UNCHANGED <<role, name, turn, file, beside, last, crashes>>
CrossFails(u) ==
  /\ step[u] \in {"crossing", "copied"} /\ Goto(u, "done")
  /\ beside' = [beside EXCEPT ![u] = None] /\ staged' = [staged EXCEPT ![u] = None]
  /\ UNCHANGED <<role, name, turn, file, last, crashes>>

-----------------------------------------------------------------------------
(* The answer, and what happens around the handlers.                       *)

\* The client record may be gone by now.
RecordVideo(u) ==
  /\ step[u] = "done" /\ Goto(u, "ok")
  /\ last' = IF role = "gone" THEN last ELSE name[u]
  /\ UNCHANGED <<role, name, turn, disk, crashes>>

ChangeRole ==
  /\ role = "cam" /\ role' \in {"none", "gone"}
  /\ UNCHANGED <<step, name, turn, disk, last, crashes>>

\* The server stops: its files stay as they are.
Crash ==
  /\ crashes < MaxCrashes /\ crashes' = crashes + 1
  /\ step' = [u \in Uploads |-> IF step[u] \in Ends \cup {"sent"} THEN step[u] ELSE "killed"]
  /\ UNCHANGED <<role, name, turn, disk, last>>

Transfer(u) == Choose(u) \/ Reserve(u) \/ Store(u) \/ StoreFails(u)
Turn(u) == Probe(u) \/ ProbeTimeout(u) \/ Untouched(u) \/ Stage(u)
           \/ Secure(u) \/ SecureFails(u) \/ Transcode(u) \/ GiveUpTurning(u)
Replace(u) == Rename(u) \/ Cross(u) \/ CopyAcross(u) \/ ReplaceCrossed(u) \/ CrossFails(u)
Handler(u) == Transfer(u) \/ Turn(u) \/ Replace(u) \/ RecordVideo(u)

Next == ChangeRole \/ Crash \/ \E u \in Uploads : Admit(u) \/ Handler(u)

Spec == Init /\ [][Next]_vars /\ \A u \in Uploads : WF_vars(Handler(u))

-----------------------------------------------------------------------------
(* An upload that was answered has its own segment under its name, whole,  *)
(* whichever uploads of the same second ran beside it, and so has the name *)
(* the camera shows as its last video.                                     *)
Complete(n) == file[n] # None /\ file[n].form \in {"whole", "turned"}
AnsweredIsStored ==
  /\ \A u \in Uploads : step[u] = "ok" => Complete(name[u]) /\ file[name[u]].of = u
  /\ last # None => Complete(last)

(* A whole segment stays whole and the same, through every transcode,      *)
(* failure and crash: a reader never meets one that is being rewritten.    *)
WholeStays ==
  [][\A n \in Names : Complete(n) => Complete(n)' /\ file'[n].of = file[n].of]_vars

(* A handler that has ended has left nothing of a video but a whole        *)
(* recording: no staging file but an empty one that could not be made      *)
(* private, no copy beside the recording, and no recording if the body did *)
(* not arrive whole. Only a crash leaves more.                             *)
NothingLeftBehind ==
  \A u \in Uploads : step[u] \in Ends \ {"killed"} =>
    /\ staged[u] \in {None, "empty"} /\ beside[u] = None
    /\ \A n \in Names : file[n] # None /\ file[n].of = u => Complete(n)

(* Every upload that was admitted is answered, refused or fails; the names *)
(* others take do not keep it looking for one.                             *)
UploadsEnd == \A u \in Uploads : step[u] = "admitted" ~> step[u] \in Ends
=============================================================================
