--------------------------- MODULE VideoUploadProofs ---------------------------
(***************************************************************************)
(* Proofs about VideoUpload for any number of uploads and any bound on the *)
(* crashes: the inductive invariant UploadInv says, for every step of a    *)
(* handler, which file is its own and in what state it is.                 *)
(***************************************************************************)
EXTENDS VideoUpload, TLAPS

USE VideoUploadAssumption

\* The handler has stored its segment under its name.
Holding == {"stored", "probed", "made", "turning", "staged", "crossing", "copied", "done", "ok"}

\* The name a handler has chosen, and what lies there once it has reserved it.
Placed(u) ==
  /\ step[u] \in {"named", "reserved"} \cup Holding => name[u] \in Names
  /\ step[u] = "reserved" => file[name[u]] = [of |-> u, form |-> "part"]
  /\ step[u] \in Holding => Complete(name[u]) /\ file[name[u]].of = u

\* Where a handler may have files besides its recording.
Tidy(u) ==
  /\ step[u] \notin {"turning", "staged", "crossing", "copied", "killed"} => staged[u] \in {None, "empty"}
  /\ step[u] \notin {"crossing", "copied", "killed"} => beside[u] = None

\* A recording that is not whole belongs to a handler that is at it, or was killed.
PartsAreOwned ==
  \A n \in Names : file[n] # None /\ file[n].form = "part" =>
    LET u == file[n].of IN step[u] = "killed" \/ (step[u] = "reserved" /\ name[u] = n)

ShownIsWhole == last # None => last \in Names /\ Complete(last)

UploadInv ==
  /\ TypeOK /\ PartsAreOwned /\ ShownIsWhole
  /\ \A u \in Uploads : Placed(u) /\ Tidy(u)

-----------------------------------------------------------------------------
(* The initial state, and steps that change nothing.                       *)

\* No handler has begun, and there are no files.
LEMMA InitInv == Init => UploadInv
<1> SUFFICES ASSUME Init PROVE UploadInv
  OBVIOUS
<1>1. TypeOK
  BY DEF Init, TypeOK, Steps, Ends
<1>2. PartsAreOwned /\ ShownIsWhole
  BY DEF Init, PartsAreOwned, ShownIsWhole
<1>3. \A u \in Uploads : Placed(u) /\ Tidy(u)
  BY DEF Init, Placed, Tidy, Holding
<1> QED
  BY <1>1, <1>2, <1>3 DEF UploadInv

\* A stuttering step leaves everything the invariant relates alone.
LEMMA StutterInv == UploadInv /\ UNCHANGED vars => UploadInv'
BY DEF vars, disk, UploadInv, TypeOK, PartsAreOwned, ShownIsWhole, Placed, Tidy, Complete

-----------------------------------------------------------------------------
(* Steps that leave the recordings alone: whoever owns what still does.    *)

\* The beginning of a body belongs to the handler that is writing it.
LEMMA ReservedPart ==
  ASSUME UploadInv, NEW u \in Uploads, step[u] = "reserved"
  PROVE  /\ name[u] \in Names /\ file[name[u]] # None
         /\ file[name[u]].of = u /\ file[name[u]].form = "part"
<1> DEFINE c == [of |-> u, form |-> "part"]
<1>1. name[u] \in Names /\ file[name[u]] = c
  BY DEF UploadInv, Placed
<1>2. c \in Content /\ c.of = u /\ c.form = "part"
  BY DEF Content, Forms
<1> QED
  BY <1>1, <1>2

\* If a step of u leaves the recordings and the names as they are, the other
\* handlers are still where they were.
LEMMA OthersStay ==
  ASSUME UploadInv, NEW u \in Uploads, name' = name, file' = file,
         \A v \in Uploads \ {u} :
           step'[v] = step[v] /\ staged'[v] = staged[v] /\ beside'[v] = beside[v]
  PROVE  \A v \in Uploads \ {u} : Placed(v)' /\ Tidy(v)'
<1> SUFFICES ASSUME NEW v \in Uploads \ {u} PROVE Placed(v)' /\ Tidy(v)'
  OBVIOUS
<1>1. Placed(v)'
  BY DEF UploadInv, Placed, Complete
<1>2. Tidy(v)'
  BY DEF UploadInv, Tidy
<1> QED
  BY <1>1, <1>2

\* A step within Holding, or out of it into an end, keeps the parts owned.
LEMMA PartsStay ==
  ASSUME UploadInv, NEW u \in Uploads, UNCHANGED <<name, file>>,
         step[u] # "reserved", step[u] # "killed",
         \A v \in Uploads \ {u} : step'[v] = step[v]
  PROVE  PartsAreOwned'
BY DEF UploadInv, PartsAreOwned, TypeOK, Content

\* The client record is looked up before anything is written.
LEMMA AdmitInv == ASSUME UploadInv, NEW u \in Uploads, Admit(u) PROVE UploadInv'
<1> USE DEF Admit, Goto, disk
<1>1. TypeOK'
  BY DEF UploadInv, TypeOK, Steps, Ends
<1>2. PartsAreOwned' /\ \A v \in Uploads \ {u} : Placed(v)' /\ Tidy(v)'
  BY OthersStay, PartsStay DEF UploadInv, TypeOK
<1>3. Placed(u)' /\ Tidy(u)'
  BY DEF UploadInv, Placed, Tidy, TypeOK, Holding, Complete
<1>4. ShownIsWhole'
  BY DEF UploadInv, ShownIsWhole, Complete
<1> QED
  BY <1>1, <1>2, <1>3, <1>4 DEF UploadInv

\* The rotation is asked for.
LEMMA ProbeInv == ASSUME UploadInv, NEW u \in Uploads, Probe(u) PROVE UploadInv'
<1> USE DEF Probe, Goto, disk
<1>1. TypeOK'
  BY DEF UploadInv, TypeOK, Steps, Ends
<1>2. PartsAreOwned' /\ \A v \in Uploads \ {u} : Placed(v)' /\ Tidy(v)'
  BY OthersStay, PartsStay DEF UploadInv, TypeOK
<1>3. Placed(u)' /\ Tidy(u)'
  BY DEF UploadInv, Placed, Tidy, TypeOK, Holding, Complete
<1>4. ShownIsWhole'
  BY DEF UploadInv, ShownIsWhole, Complete
<1> QED
  BY <1>1, <1>2, <1>3, <1>4 DEF UploadInv

\* A probe that raises ends the handler with its segment stored.
LEMMA ProbeTimeoutInv == ASSUME UploadInv, NEW u \in Uploads, ProbeTimeout(u) PROVE UploadInv'
<1> USE DEF ProbeTimeout, Goto, disk
<1>1. TypeOK'
  BY DEF UploadInv, TypeOK, Steps, Ends
<1>2. PartsAreOwned' /\ \A v \in Uploads \ {u} : Placed(v)' /\ Tidy(v)'
  BY OthersStay, PartsStay DEF UploadInv, TypeOK
<1>3. Placed(u)' /\ Tidy(u)'
  BY DEF UploadInv, Placed, Tidy, TypeOK, Holding, Complete
<1>4. ShownIsWhole'
  BY DEF UploadInv, ShownIsWhole, Complete
<1> QED
  BY <1>1, <1>2, <1>3, <1>4 DEF UploadInv

\* A segment that is not turned is ready.
LEMMA UntouchedInv == ASSUME UploadInv, NEW u \in Uploads, Untouched(u) PROVE UploadInv'
<1> USE DEF Untouched, Goto, disk
<1>1. TypeOK'
  BY DEF UploadInv, TypeOK, Steps, Ends
<1>2. PartsAreOwned' /\ \A v \in Uploads \ {u} : Placed(v)' /\ Tidy(v)'
  BY OthersStay, PartsStay DEF UploadInv, TypeOK
<1>3. Placed(u)' /\ Tidy(u)'
  BY DEF UploadInv, Placed, Tidy, TypeOK, Holding, Complete
<1>4. ShownIsWhole'
  BY DEF UploadInv, ShownIsWhole, Complete
<1> QED
  BY <1>1, <1>2, <1>3, <1>4 DEF UploadInv

\* The staging file is begun.
LEMMA StageInv == ASSUME UploadInv, NEW u \in Uploads, Stage(u) PROVE UploadInv'
<1> USE DEF Stage, Goto, disk
<1>1. TypeOK'
  BY DEF UploadInv, TypeOK, Steps, Ends
<1>2. PartsAreOwned' /\ \A v \in Uploads \ {u} : Placed(v)' /\ Tidy(v)'
  BY OthersStay, PartsStay DEF UploadInv, TypeOK
<1>3. Placed(u)' /\ Tidy(u)'
  <2>1. Placed(u)'
    BY DEF UploadInv, Placed, TypeOK, Holding, Complete
  <2>2. Tidy(u)'
    BY DEF UploadInv, Tidy, TypeOK
  <2> QED  BY <2>1, <2>2
<1>4. ShownIsWhole'
  BY DEF UploadInv, ShownIsWhole, Complete
<1> QED
  BY <1>1, <1>2, <1>3, <1>4 DEF UploadInv

\* It is made private.
LEMMA SecureInv == ASSUME UploadInv, NEW u \in Uploads, Secure(u) PROVE UploadInv'
<1> USE DEF Secure, Goto, disk
<1>1. TypeOK'
  BY DEF UploadInv, TypeOK, Steps, Ends
<1>2. PartsAreOwned' /\ \A v \in Uploads \ {u} : Placed(v)' /\ Tidy(v)'
  BY OthersStay, PartsStay DEF UploadInv, TypeOK
<1>3. Placed(u)' /\ Tidy(u)'
  BY DEF UploadInv, Placed, Tidy, TypeOK, Holding, Complete
<1>4. ShownIsWhole'
  BY DEF UploadInv, ShownIsWhole, Complete
<1> QED
  BY <1>1, <1>2, <1>3, <1>4 DEF UploadInv

\* It stays although it could not be made private.
LEMMA SecureFailsInv == ASSUME UploadInv, NEW u \in Uploads, SecureFails(u) PROVE UploadInv'
<1> USE DEF SecureFails, Goto, disk
<1>1. TypeOK'
  BY DEF UploadInv, TypeOK, Steps, Ends
<1>2. PartsAreOwned' /\ \A v \in Uploads \ {u} : Placed(v)' /\ Tidy(v)'
  BY OthersStay, PartsStay DEF UploadInv, TypeOK
<1>3. Placed(u)' /\ Tidy(u)'
  BY DEF UploadInv, Placed, Tidy, TypeOK, Holding, Complete
<1>4. ShownIsWhole'
  BY DEF UploadInv, ShownIsWhole, Complete
<1> QED
  BY <1>1, <1>2, <1>3, <1>4 DEF UploadInv

\* The staging file is complete.
LEMMA TranscodeInv == ASSUME UploadInv, NEW u \in Uploads, Transcode(u) PROVE UploadInv'
<1> USE DEF Transcode, Goto, disk
<1>1. TypeOK'
  BY DEF UploadInv, TypeOK, Steps, Ends
<1>2. PartsAreOwned' /\ \A v \in Uploads \ {u} : Placed(v)' /\ Tidy(v)'
  BY OthersStay, PartsStay DEF UploadInv, TypeOK
<1>3. Placed(u)' /\ Tidy(u)'
  BY DEF UploadInv, Placed, Tidy, TypeOK, Holding, Complete
<1>4. ShownIsWhole'
  BY DEF UploadInv, ShownIsWhole, Complete
<1> QED
  BY <1>1, <1>2, <1>3, <1>4 DEF UploadInv

\* The staging file is removed and the segment stays as it came.
LEMMA GiveUpTurningInv == ASSUME UploadInv, NEW u \in Uploads, GiveUpTurning(u) PROVE UploadInv'
<1> USE DEF GiveUpTurning, Goto, disk
<1>1. TypeOK'
  BY DEF UploadInv, TypeOK, Steps, Ends
<1>2. PartsAreOwned' /\ \A v \in Uploads \ {u} : Placed(v)' /\ Tidy(v)'
  BY OthersStay, PartsStay DEF UploadInv, TypeOK
<1>3. Placed(u)' /\ Tidy(u)'
  BY DEF UploadInv, Placed, Tidy, TypeOK, Holding, Complete
<1>4. ShownIsWhole'
  BY DEF UploadInv, ShownIsWhole, Complete
<1> QED
  BY <1>1, <1>2, <1>3, <1>4 DEF UploadInv

\* The copy beside the recording is begun.
LEMMA CrossInv == ASSUME UploadInv, NEW u \in Uploads, Cross(u) PROVE UploadInv'
<1> USE DEF Cross, Goto, disk
<1>1. TypeOK'
  BY DEF UploadInv, TypeOK, Steps, Ends
<1>2. PartsAreOwned' /\ \A v \in Uploads \ {u} : Placed(v)' /\ Tidy(v)'
  BY OthersStay, PartsStay DEF UploadInv, TypeOK
<1>3. Placed(u)' /\ Tidy(u)'
  BY DEF UploadInv, Placed, Tidy, TypeOK, Holding, Complete
<1>4. ShownIsWhole'
  BY DEF UploadInv, ShownIsWhole, Complete
<1> QED
  BY <1>1, <1>2, <1>3, <1>4 DEF UploadInv

\* The copy is complete.
LEMMA CopyAcrossInv == ASSUME UploadInv, NEW u \in Uploads, CopyAcross(u) PROVE UploadInv'
<1> USE DEF CopyAcross, Goto, disk
<1>1. TypeOK'
  BY DEF UploadInv, TypeOK, Steps, Ends
<1>2. PartsAreOwned' /\ \A v \in Uploads \ {u} : Placed(v)' /\ Tidy(v)'
  BY OthersStay, PartsStay DEF UploadInv, TypeOK
<1>3. Placed(u)' /\ Tidy(u)'
  BY DEF UploadInv, Placed, Tidy, TypeOK, Holding, Complete
<1>4. ShownIsWhole'
  BY DEF UploadInv, ShownIsWhole, Complete
<1> QED
  BY <1>1, <1>2, <1>3, <1>4 DEF UploadInv

\* Both copies are removed and the segment stays as it came.
LEMMA CrossFailsInv == ASSUME UploadInv, NEW u \in Uploads, CrossFails(u) PROVE UploadInv'
<1> USE DEF CrossFails, Goto, disk
<1>1. TypeOK'
  BY DEF UploadInv, TypeOK, Steps, Ends
<1>2. PartsAreOwned' /\ \A v \in Uploads \ {u} : Placed(v)' /\ Tidy(v)'
  BY OthersStay, PartsStay DEF UploadInv, TypeOK
<1>3. Placed(u)' /\ Tidy(u)'
  BY DEF UploadInv, Placed, Tidy, TypeOK, Holding, Complete
<1>4. ShownIsWhole'
  BY DEF UploadInv, ShownIsWhole, Complete
<1> QED
  BY <1>1, <1>2, <1>3, <1>4 DEF UploadInv
\* A handler takes the first free name; it has no file yet.
LEMMA ChooseInv == ASSUME UploadInv, NEW u \in Uploads, Choose(u) PROVE UploadInv'
<1> USE DEF Choose, Goto, disk
<1>1. PICK n \in Names : name' = [name EXCEPT ![u] = n]
  OBVIOUS
<1>2. TypeOK'
  BY <1>1 DEF UploadInv, TypeOK, Steps
<1>3. PartsAreOwned'
  BY <1>1 DEF UploadInv, PartsAreOwned, TypeOK, Content
<1>4. ShownIsWhole'
  BY DEF UploadInv, ShownIsWhole, Complete
<1>5. \A v \in Uploads : Placed(v)' /\ Tidy(v)'
  BY ZenonT(30), <1>1 DEF UploadInv, Placed, Tidy, TypeOK, Complete, Holding
<1> QED
  BY <1>2, <1>3, <1>4, <1>5 DEF UploadInv

-----------------------------------------------------------------------------
(* Steps that write a recording: they write under the handler's own name.  *)

\* What u puts under a name that is free or its own is no other handler's.
LEMMA OthersUndisturbed ==
  ASSUME UploadInv, NEW u \in Uploads, NEW c \in Content \cup {None},
         name[u] \in Names, name' = name, file' = [file EXCEPT ![name[u]] = c],
         file[name[u]] = None \/ file[name[u]].of = u,
         \A v \in Uploads \ {u} :
           step'[v] = step[v] /\ staged'[v] = staged[v] /\ beside'[v] = beside[v]
  PROVE  \A v \in Uploads \ {u} : Placed(v)' /\ Tidy(v)'
<1> SUFFICES ASSUME NEW v \in Uploads \ {u} PROVE Placed(v)' /\ Tidy(v)'
  OBVIOUS
<1>1. Tidy(v)'
  BY DEF UploadInv, Tidy
<1>2. step[v] \in {"reserved"} \cup Holding => file[name[v]] # None /\ file[name[v]].of = v
  BY ReservedPart DEF UploadInv, Placed, Complete
<1>3. step[v] \in {"reserved"} \cup Holding => name[v] # name[u] /\ file'[name[v]] = file[name[v]]
  BY <1>2 DEF UploadInv, TypeOK, Placed
<1>4. Placed(v)'
  BY <1>3 DEF UploadInv, Placed, Complete
<1> QED
  BY <1>1, <1>4

\* A name that is still free becomes the handler's; another one is looked for
\* otherwise.
LEMMA ReserveInv == ASSUME UploadInv, NEW u \in Uploads, Reserve(u) PROVE UploadInv'
<1> USE DEF Reserve, Goto, Put
<1> DEFINE c == [of |-> u, form |-> "part"]
<1>1. name[u] \in Names /\ c \in Content
  BY DEF UploadInv, Placed, Content, Forms
<1>2. CASE file[name[u]] = None
  <2>1. file' = [file EXCEPT ![name[u]] = c] /\ step' = [step EXCEPT ![u] = "reserved"]
    BY <1>2
  <2>2. TypeOK'
    BY <1>1, <2>1 DEF UploadInv, TypeOK, Steps, Content
  <2>3. PartsAreOwned'
    BY <1>1, <2>1 DEF UploadInv, PartsAreOwned, TypeOK, Content
  <2>4. ShownIsWhole'
    BY <1>1, <1>2, <2>1 DEF UploadInv, ShownIsWhole, TypeOK, Complete
  <2>5. \A v \in Uploads \ {u} : Placed(v)' /\ Tidy(v)'
    BY <1>1, <1>2, <2>1, OthersUndisturbed DEF UploadInv, TypeOK
  <2>6. Placed(u)' /\ Tidy(u)'
    BY <1>1, <2>1 DEF UploadInv, Placed, Tidy, TypeOK, Holding
  <2> QED
    BY <2>2, <2>3, <2>4, <2>5, <2>6 DEF UploadInv
<1>3. CASE file[name[u]] # None
  <2>1. file' = file /\ step' = [step EXCEPT ![u] = "admitted"]
    BY <1>3
  <2>2. TypeOK'
    BY <2>1 DEF UploadInv, TypeOK, Steps
  <2>3. PartsAreOwned' /\ \A v \in Uploads \ {u} : Placed(v)' /\ Tidy(v)'
    BY <2>1, OthersStay, PartsStay DEF UploadInv, TypeOK
  <2>4. ShownIsWhole' /\ Placed(u)' /\ Tidy(u)'
    BY <2>1 DEF UploadInv, ShownIsWhole, Placed, Tidy, TypeOK, Complete, Holding
  <2> QED
    BY <2>2, <2>3, <2>4 DEF UploadInv
<1> QED
  BY <1>2, <1>3

\* The whole of the body replaces its beginning.
LEMMA StoreInv == ASSUME UploadInv, NEW u \in Uploads, Store(u) PROVE UploadInv'
<1> USE DEF Store, Goto, Put
<1> DEFINE c == [of |-> u, form |-> "whole"]
<1>1. name[u] \in Names /\ c \in Content /\ file[name[u]].of = u
  BY ReservedPart DEF Content, Forms
<1>2. TypeOK'
  BY <1>1 DEF UploadInv, TypeOK, Steps
<1>3. PartsAreOwned'
  BY <1>1 DEF UploadInv, PartsAreOwned, TypeOK, Content
<1>4. ShownIsWhole'
  BY <1>1 DEF UploadInv, ShownIsWhole, TypeOK, Complete, Content
<1>5. \A v \in Uploads \ {u} : Placed(v)' /\ Tidy(v)'
  BY <1>1, OthersUndisturbed DEF UploadInv, TypeOK
<1>6. Placed(u)' /\ Tidy(u)'
  BY <1>1 DEF UploadInv, Placed, Tidy, TypeOK, Holding, Complete
<1> QED
  BY <1>2, <1>3, <1>4, <1>5, <1>6 DEF UploadInv

\* A body that breaks off takes its beginning with it.
LEMMA StoreFailsInv == ASSUME UploadInv, NEW u \in Uploads, StoreFails(u) PROVE UploadInv'
<1> USE DEF StoreFails, Goto
<1>1. name[u] \in Names /\ file[name[u]].of = u /\ file[name[u]].form = "part"
  BY ReservedPart
<1>2. TypeOK'
  <2>1. file' \in [Names -> Content \cup {None}] /\ step' \in [Uploads -> Steps]
    BY <1>1 DEF UploadInv, TypeOK, Steps, Ends
  <2>2. \A v \in Uploads : step'[v] = "reserved" => file'[name'[v]] # None
    <3> SUFFICES ASSUME NEW v \in Uploads, step'[v] = "reserved" PROVE file'[name'[v]] # None
      OBVIOUS
    <3>1. v # u /\ step[v] = "reserved"
      BY DEF UploadInv, TypeOK
    <3>2. name[v] # name[u] /\ file[name[v]] # None
      BY <1>1, <3>1, ReservedPart
    <3> QED
      BY <3>2 DEF UploadInv, TypeOK
  <2> QED
    BY <2>1, <2>2 DEF UploadInv, TypeOK
<1>3. PartsAreOwned'
  BY <1>1 DEF UploadInv, PartsAreOwned, TypeOK, Content
<1>4. ShownIsWhole'
  BY <1>1 DEF UploadInv, ShownIsWhole, TypeOK, Complete
<1>5. \A v \in Uploads \ {u} : Placed(v)' /\ Tidy(v)'
  BY <1>1, OthersUndisturbed DEF UploadInv, TypeOK
<1>6. Placed(u)' /\ Tidy(u)'
  BY <1>1 DEF UploadInv, Placed, Tidy, TypeOK, Holding
<1> QED
  BY <1>2, <1>3, <1>4, <1>5, <1>6 DEF UploadInv

\* The turned segment replaces the one that came, in one step.
LEMMA RenameInv == ASSUME UploadInv, NEW u \in Uploads, Rename(u) PROVE UploadInv'
<1> USE DEF Rename, Goto, Put
<1> DEFINE c == [of |-> u, form |-> "turned"]
<1>1. name[u] \in Names /\ c \in Content /\ file[name[u]].of = u
  BY DEF UploadInv, Placed, Content, Forms, Holding
<1>2. TypeOK'
  BY <1>1 DEF UploadInv, TypeOK, Steps
<1>3. PartsAreOwned'
  BY <1>1 DEF UploadInv, PartsAreOwned, TypeOK, Content
<1>4. ShownIsWhole'
  BY <1>1 DEF UploadInv, ShownIsWhole, TypeOK, Complete, Content
<1>5. \A v \in Uploads \ {u} : Placed(v)' /\ Tidy(v)'
  BY <1>1, OthersUndisturbed DEF UploadInv, TypeOK
<1>6. Placed(u)' /\ Tidy(u)'
  <2>1. Placed(u)'
    BY <1>1 DEF UploadInv, Placed, TypeOK, Holding, Complete
  <2>2. Tidy(u)'
    BY <1>1 DEF UploadInv, Tidy, TypeOK
  <2> QED  BY <2>1, <2>2
<1> QED
  BY <1>2, <1>3, <1>4, <1>5, <1>6 DEF UploadInv

\* So it does from another file system, once its copy is complete.
LEMMA ReplaceCrossedInv == ASSUME UploadInv, NEW u \in Uploads, ReplaceCrossed(u) PROVE UploadInv'
<1> USE DEF ReplaceCrossed, Goto, Put
<1> DEFINE c == [of |-> u, form |-> "turned"]
<1>1. name[u] \in Names /\ c \in Content /\ file[name[u]].of = u
  BY DEF UploadInv, Placed, Content, Forms, Holding
<1>2. TypeOK'
  BY <1>1 DEF UploadInv, TypeOK, Steps
<1>3. PartsAreOwned'
  BY <1>1 DEF UploadInv, PartsAreOwned, TypeOK, Content
<1>4. ShownIsWhole'
  BY <1>1 DEF UploadInv, ShownIsWhole, TypeOK, Complete, Content
<1>5. \A v \in Uploads \ {u} : Placed(v)' /\ Tidy(v)'
  BY <1>1, OthersUndisturbed DEF UploadInv, TypeOK
<1>6. Placed(u)' /\ Tidy(u)'
  BY <1>1 DEF UploadInv, Placed, Tidy, TypeOK, Holding, Complete
<1> QED
  BY <1>2, <1>3, <1>4, <1>5, <1>6 DEF UploadInv

-----------------------------------------------------------------------------
(* The answer, and what happens around the handlers.                       *)

\* What is shown as the last video of the camera is this segment, which is whole.
LEMMA RecordVideoInv == ASSUME UploadInv, NEW u \in Uploads, RecordVideo(u) PROVE UploadInv'
<1> USE DEF RecordVideo, Goto, disk
<1>1. name[u] \in Names /\ Complete(name[u])
  BY DEF UploadInv, Placed, Holding
<1>2. TypeOK'
  BY <1>1 DEF UploadInv, TypeOK, Steps, Ends
<1>3. PartsAreOwned' /\ \A v \in Uploads \ {u} : Placed(v)' /\ Tidy(v)'
  BY OthersStay, PartsStay DEF UploadInv, TypeOK
<1>4. ShownIsWhole'
  BY <1>1 DEF UploadInv, ShownIsWhole, Complete
<1>5. Placed(u)' /\ Tidy(u)'
  BY DEF UploadInv, Placed, Tidy, TypeOK, Holding, Complete
<1> QED
  BY <1>2, <1>3, <1>4, <1>5 DEF UploadInv

\* The role of the client is not part of what the invariant relates.
LEMMA ChangeRoleInv == UploadInv /\ ChangeRole => UploadInv'
BY DEF ChangeRole, disk, UploadInv, TypeOK, PartsAreOwned, ShownIsWhole, Placed, Tidy, Complete

\* A crash leaves the files and only ends handlers: a part they leave is then
\* that of a killed one.
LEMMA CrashInv == UploadInv /\ Crash => UploadInv'
<1> SUFFICES ASSUME UploadInv, Crash PROVE UploadInv'
  OBVIOUS
<1> USE DEF Crash, disk
<1>1. \A u \in Uploads :
        step'[u] = IF step[u] \in Ends \cup {"sent"} THEN step[u] ELSE "killed"
  OBVIOUS
<1>2. TypeOK'
  <2>1. step' \in [Uploads -> Steps]
    BY DEF UploadInv, TypeOK, Steps, Ends
  <2>2. crashes' \in 0 .. MaxCrashes
    BY DEF UploadInv, TypeOK
  <2>3. \A u \in Uploads : step'[u] # "reserved"
    BY <1>1 DEF Ends
  <2> QED
    BY <2>1, <2>2, <2>3 DEF UploadInv, TypeOK
<1>3. PartsAreOwned'
  BY <1>1 DEF UploadInv, PartsAreOwned, TypeOK, Content, Ends
<1>4. ShownIsWhole'
  BY DEF UploadInv, ShownIsWhole, Complete
<1>5. \A u \in Uploads : Placed(u)' /\ Tidy(u)'
  BY <1>1 DEF UploadInv, Placed, Tidy, Complete, Holding, Ends
<1> QED
  BY <1>2, <1>3, <1>4, <1>5 DEF UploadInv

-----------------------------------------------------------------------------
(* The invariant, and what follows from it.                                *)

\* No step of the server, the handlers or the registry breaks the invariant.
LEMMA NextInv == UploadInv /\ [Next]_vars => UploadInv'
<1> SUFFICES ASSUME UploadInv, [Next]_vars PROVE UploadInv'
  OBVIOUS
<1>1. CASE ChangeRole \/ Crash
  BY <1>1, ChangeRoleInv, CrashInv
<1>2. ASSUME NEW u \in Uploads, Admit(u) PROVE UploadInv'
  BY <1>2, AdmitInv
<1>3. ASSUME NEW u \in Uploads, Transfer(u) PROVE UploadInv'
  BY <1>3, ChooseInv, ReserveInv, StoreInv, StoreFailsInv DEF Transfer
<1>4. ASSUME NEW u \in Uploads, Turn(u) PROVE UploadInv'
  BY <1>4, ProbeInv, ProbeTimeoutInv, UntouchedInv, StageInv, SecureInv, SecureFailsInv,
     TranscodeInv, GiveUpTurningInv DEF Turn
<1>5. ASSUME NEW u \in Uploads, Replace(u) PROVE UploadInv'
  BY <1>5, RenameInv, CrossInv, CopyAcrossInv, ReplaceCrossedInv, CrossFailsInv DEF Replace
<1>6. ASSUME NEW u \in Uploads, RecordVideo(u) PROVE UploadInv'
  BY <1>6, RecordVideoInv
<1>7. CASE UNCHANGED vars
  BY <1>7, StutterInv
<1> QED
  BY <1>1, <1>2, <1>3, <1>4, <1>5, <1>6, <1>7 DEF Next, Handler

\* UploadInv holds in every state of every behaviour.
THEOREM Invariance == Spec => []UploadInv
<1>1. Init => UploadInv
  BY InitInv
<1>2. UploadInv /\ [Next]_vars => UploadInv'
  BY NextInv
<1> QED
  BY <1>1, <1>2, PTL DEF Spec

\* The files and the handlers keep their types; a handler that has reserved a
\* name has a file under it.
THEOREM TypeCorrect == Spec => []TypeOK
<1>1. UploadInv => TypeOK
  BY DEF UploadInv
<1> QED
  BY <1>1, Invariance, PTL

\* For any number of uploads of the same second and any number of crashes, a
\* phone that was answered has its own segment under its name, whole, and the
\* camera shows no other kind of segment as its last (upload_video).
THEOREM AnsweredStored == Spec => []AnsweredIsStored
<1>1. UploadInv => AnsweredIsStored
  BY DEF UploadInv, Placed, Holding, ShownIsWhole, AnsweredIsStored
<1> QED
  BY <1>1, Invariance, PTL

\* However a handler of a living server ends, its staging file is gone, unless it
\* is still empty because it could not be made private, and so are the copy
\* beside the recording and a body that did not arrive whole.
THEOREM NothingLeft == Spec => []NothingLeftBehind
<1>1. UploadInv => NothingLeftBehind
  <2> SUFFICES ASSUME UploadInv, NEW u \in Uploads, step[u] \in Ends \ {"killed"}
               PROVE  /\ staged[u] \in {None, "empty"} /\ beside[u] = None
                      /\ \A n \in Names : file[n] # None /\ file[n].of = u => Complete(n)
    BY DEF NothingLeftBehind
  <2>1. staged[u] \in {None, "empty"} /\ beside[u] = None
    BY DEF UploadInv, Tidy, Ends
  <2>2. ASSUME NEW n \in Names, file[n] # None, file[n].of = u PROVE Complete(n)
    <3>1. file[n].form # "part"
      BY <2>2 DEF UploadInv, PartsAreOwned, Ends
    <3> QED
      BY <2>2, <3>1 DEF UploadInv, TypeOK, Content, Forms, Complete
  <2> QED
    BY <2>1, <2>2
<1> QED
  BY <1>1, Invariance, PTL

\* A handler writes only under its own name: over nothing, over the beginning
\* of its own body, or a turned copy over its own whole segment.
LEMMA WritesOwn ==
  ASSUME UploadInv, NEW u \in Uploads, Handler(u), NEW n \in Names, Complete(n)
  PROVE  Complete(n)' /\ file'[n].of = file[n].of
<1> USE DEF UploadInv
<1>1. CASE Reserve(u)
  BY <1>1 DEF Reserve, Put, Placed, TypeOK, Complete
<1>2. CASE Store(u) \/ StoreFails(u)
  <2>1. name[u] # n
    BY <1>2, ReservedPart DEF Store, StoreFails, Complete
  <2>2. file'[n] = file[n]
    BY <1>2, <2>1 DEF Store, StoreFails, Put, TypeOK
  <2> QED
    BY <2>2 DEF Complete
<1>3. CASE Rename(u) \/ ReplaceCrossed(u)
  <2>1. name[u] \in Names /\ file[name[u]].of = u
    BY <1>3 DEF Rename, ReplaceCrossed, Placed, Holding
  <2>2. file' = [file EXCEPT ![name[u]] = [of |-> u, form |-> "turned"]]
    BY <1>3 DEF Rename, ReplaceCrossed, Put
  <2>3. [of |-> u, form |-> "turned"] # None
    BY DEF Content, Forms
  <2> QED
    BY <2>1, <2>2, <2>3 DEF TypeOK, Complete
<1>4. CASE Choose(u) \/ Turn(u) \/ Cross(u) \/ CopyAcross(u) \/ CrossFails(u) \/ RecordVideo(u)
  <2>1. file' = file
    BY <1>4 DEF Choose, Turn, Probe, ProbeTimeout, Untouched, Stage, Secure, SecureFails, Transcode,
                GiveUpTurning, Cross, CopyAcross, CrossFails, RecordVideo, disk
  <2> QED
    BY <2>1 DEF Complete
<1> QED
  BY <1>1, <1>2, <1>3, <1>4 DEF Handler, Transfer, Replace

\* Whatever uploads, transcodes, failures and crashes there are, a recording that
\* was whole is never seen otherwise, nor replaced by another phone's.
THEOREM WholeSegmentsStay == Spec => WholeStays
<1>1. ASSUME UploadInv, [Next]_vars, NEW n \in Names, Complete(n)
      PROVE  Complete(n)' /\ file'[n].of = file[n].of
  <2>1. CASE ChangeRole \/ Crash \/ UNCHANGED vars \/ \E u \in Uploads : Admit(u)
    <3>1. file' = file
      BY <2>1 DEF ChangeRole, Crash, Admit, disk, vars
    <3> QED
      BY <1>1, <3>1 DEF Complete
  <2>2. ASSUME NEW u \in Uploads, Handler(u)
        PROVE  Complete(n)' /\ file'[n].of = file[n].of
    BY <1>1, <2>2, WritesOwn
  <2> QED
    BY <1>1, <2>1, <2>2 DEF Next
<1>2. UploadInv /\ [Next]_vars =>
        [\A n \in Names : Complete(n) => Complete(n)' /\ file'[n].of = file[n].of]_vars
  BY <1>1
<1> QED
  BY <1>2, Invariance, PTL DEF Spec, WholeStays

=============================================================================
