--------------------------- MODULE InputFilesProofs ---------------------------
(***************************************************************************)
(* Theorems about InputFiles, for any number of files, batches, runs,      *)
(* imports and faults: requests are never rewritten, manifests tell the    *)
(* truth, no clarification is sent before its files are committed, a run   *)
(* is announced with the bytes that were sent, its index leads to every    *)
(* batch an agent has got, and none is refused without damage.  The first  *)
(* three rest on the lock of a batch, the others on the session's history. *)
(***************************************************************************)
EXTENDS InputFiles, DataFacts

-----------------------------------------------------------------------------
(* The inductive invariant.                                                 *)

HookRuns == procs[Hook].pc # "idle" => Last > 0
FrozenRefers == frozen # Unfrozen => frozen.anchor \in Anchors

(* What a process has done and may do.                                      *)
Works(p) == procs[p].pc \in {"files", "save", "request", "manifest"}
ProcessOK(p) ==
    LET q == procs[p]
        asked == request[q.anchor]
    IN
    /\ q.ready \subseteq q.want /\ q.left \subseteq q.want
    /\ \A f \in q.ready : data[f] # "absent"
    /\ q.pc = "save" => q.file \in q.want /\ data[q.file] # "absent"
    /\ Works(p) => asked \in {None, q.want}
    /\ Works(p) /\ (p = Hook \/ q.pc = "manifest") => asked = q.want
    /\ q.pc = "exit" /\ p # Hook => asked = q.want /\ (damage = 0 => manifest[q.anchor] # None)

(* One process at a time works on a batch.                                  *)
Exclusive == \A p, q \in Processes : p # q /\ Works(p) /\ Works(q) => procs[p].anchor # procs[q].anchor

(* The connector feeds one import at most, the one its input waits for.     *)
Feeding ==
    \A p \in Importers : procs[p].fed =>
        /\ frozen # Unfrozen /\ ~frozen.imported
        /\ procs[p].anchor = frozen.anchor /\ procs[p].want = frozen.want
        /\ \A q \in Importers : procs[q].fed => q = p
Imported ==
    frozen.imported =>
        /\ request[frozen.anchor] = frozen.want
        /\ damage = 0 => manifest[frozen.anchor] # None

IInv ==
    /\ TypeOK /\ HookRuns /\ FrozenRefers /\ (\A p \in Processes : ProcessOK(p))
    /\ Exclusive /\ Feeding /\ Imported /\ ManifestBacked /\ CommittedBeforeSent

-----------------------------------------------------------------------------
(* Types.                                                                   *)

LEMMA Basics ==
    /\ Hook \in Processes /\ Hook \notin Importers /\ Importers \subseteq Processes
    /\ \A p \in Processes : p # Hook => p \in Importers
    /\ LastAnchor \in Nat /\ MaxRuns \in Nat /\ MaxFaults \in Nat /\ MaxDamage \in Nat
    /\ \A w \in SUBSET Files : w # None
    /\ \A a \in Anchors : a # 0 /\ a \in 0 .. LastAnchor /\ \A w \in Drafts[a] : w \subseteq Files
    /\ 0 \notin Files /\ 1 \in Anchors
  BY BoundAssumption, NamesAssumption, DraftsAssumption DEF Processes, Hook, Anchors

LEMMA RunsTyped ==
    ASSUME TypeOK
    PROVE  /\ Last \in 0 .. MaxRuns /\ DOMAIN runs = 1 .. Last
           /\ \A r \in DOMAIN runs : r \in Runs /\ runs[r] \in Run
           /\ \A m \in DOMAIN messages : messages[m] \in Message
  BY Basics DEF TypeOK, Last, Runs

LEMMA LastPreparedTyped == TypeOK => LastPrepared \in 0 .. MaxRuns
<1> SUFFICES ASSUME TypeOK PROVE LastPrepared \in 0 .. MaxRuns
  OBVIOUS
<1> DEFINE done == {r \in DOMAIN runs : runs[r].prepared}
<1>1. done \subseteq 0 .. MaxRuns
  BY RunsTyped, Basics DEF Runs
<1>2. CASE done = {}
  BY <1>2, Basics DEF LastPrepared
<1>3. CASE done # {}
  <2>1. \E r \in done : \A s \in done : s <= r
    <3> HIDE DEF done
    <3> QED BY <1>1, <1>3, Basics, GreatestOfBounded
  <2>2. LastPrepared \in done
    BY <1>3, <2>1 DEF LastPrepared
  <2> QED BY <1>1, <2>2
<1> QED BY <1>2, <1>3

LEMMA ProcessTyped ==
    /\ Idle \in Process
    /\ \A a \in Anchors, w \in SUBSET Files : Started(a, w) \in Process
  BY Basics DEF Idle, Process, Started, Anchors

(* A fault is counted.                                                      *)
LEMMA FaultTyped == TypeOK /\ (Fault \/ Damage) => bounds' \in (0 .. MaxFaults) \X (0 .. MaxDamage)
  BY Basics DEF TypeOK, Fault, Damage, bounds

LEMMA BoundsTyped == TypeOK /\ UNCHANGED bounds => bounds' \in (0 .. MaxFaults) \X (0 .. MaxDamage)
  BY DEF TypeOK, bounds

FrozenType == [anchor : 0 .. LastAnchor, want : SUBSET Files, run : 0 .. MaxRuns, imported : BOOLEAN]
RunsOK == runs \in Seq(Run) /\ Last <= MaxRuns
WorkspaceOK ==
    /\ request \in [Anchors -> {None} \cup SUBSET Files]
    /\ manifest \in [Anchors -> {None} \cup Manifest]
    /\ index \in [Runs -> {None} \cup Page] /\ current \in 0 .. MaxRuns
    /\ data \in [Files -> {"absent", "good", "bad"}] /\ cache \subseteq Files

LEMMA TypeParts ==
    TypeOK <=> /\ RunsOK /\ messages \in Seq(Message) /\ frozen \in FrozenType /\ WorkspaceOK
               /\ procs \in [Processes -> Process]
               /\ bounds \in (0 .. MaxFaults) \X (0 .. MaxDamage)
  BY DEF TypeOK, RunsOK, FrozenType, WorkspaceOK, bounds, Last

LEMMA RunsUpdated ==
    ASSUME RunsOK, Last > 0, NEW new \in Run, runs' = [runs EXCEPT ![Last] = new]
    PROVE  RunsOK' /\ Last' = Last
<1>1. Last \in DOMAIN runs
  BY DEF RunsOK, Last
<1> QED BY <1>1, ExceptElements DEF RunsOK, Last

LEMMA HookFailsTyped ==
    ASSUME RunsOK, Last > 0, NEW why \in {"conflict", "index", "killed"}, HookFails(why)
    PROVE  RunsOK' /\ Last' = Last
<1> DEFINE new == [runs[Last] EXCEPT !.status = "failed", !.why = why]
<1>1. runs[Last] \in Run
  BY DEF RunsOK, Last
<1>2. new \in Run
  BY <1>1 DEF Run
<1>3. runs' = [runs EXCEPT ![Last] = new]
  BY DEF HookFails
<1> HIDE DEF new
<1> QED BY <1>2, <1>3, RunsUpdated

-----------------------------------------------------------------------------
(* A process takes a step: what changes is its own place and its own batch. *)

LEMMA Update ==
    ASSUME procs \in [Processes -> Process], NEW p \in Processes, NEW q \in Process,
           procs' = [procs EXCEPT ![p] = q]
    PROVE  /\ procs' \in [Processes -> Process] /\ procs'[p] = q
           /\ \A o \in Processes \ {p} : procs'[o] = procs[o]
OBVIOUS

Steps == {"idle", "lock", "files", "save", "request", "manifest", "index", "page", "current", "exit"}
LEMMA GoTyped ==
    ASSUME procs \in [Processes -> Process], NEW p \in Processes, NEW pc \in Steps, Go(p, pc)
    PROVE  /\ procs' \in [Processes -> Process]
           /\ \A o \in Processes \ {p} : procs'[o] = procs[o]
           /\ procs'[p].pc = pc /\ procs'[p].anchor = procs[p].anchor /\ procs'[p].want = procs[p].want
           /\ procs'[p].left = procs[p].left /\ procs'[p].ready = procs[p].ready
           /\ procs'[p].file = procs[p].file /\ procs'[p].fed = procs[p].fed
<1> DEFINE new == [procs[p] EXCEPT !.pc = pc]
<1>1. procs[p] \in Process
  OBVIOUS
<1>2. /\ new \in Process
      /\ new.pc = pc /\ new.anchor = procs[p].anchor /\ new.want = procs[p].want /\ new.left = procs[p].left
      /\ new.ready = procs[p].ready /\ new.file = procs[p].file /\ new.fed = procs[p].fed
  BY <1>1 DEF Process, Steps
<1>3. procs' = [procs EXCEPT ![p] = new]
  BY DEF Go
<1> HIDE DEF new
<1> QED BY <1>2, <1>3, Update

LEMMA StopTyped ==
    ASSUME procs \in [Processes -> Process], NEW p \in Processes, Stop(p)
    PROVE  /\ procs' \in [Processes -> Process] /\ procs'[p] = Idle
           /\ \A o \in Processes \ {p} : procs'[o] = procs[o]
  BY ProcessTyped, Update DEF Stop

(* What others rely on survives the step.                                   *)
Own(p) ==
    /\ \A o \in Processes \ {p} : procs'[o] = procs[o]
    /\ \A a \in Anchors : request'[a] # request[a] =>
          a = procs[p].anchor /\ \A o \in Processes \ {p} : ~HoldsBatch(o, a)
    /\ \A a \in Anchors : request[a] # None => request'[a] = request[a]
    /\ \A a \in Anchors : manifest[a] # None => manifest'[a] # None
    /\ \A f \in Files : data[f] # "absent" => data'[f] # "absent"
    /\ UNCHANGED <<messages, frozen, damage, Last>>
Keeps(p) ==
    /\ procs'[p].pc \in {"files", "save", "request", "manifest"} =>
          procs'[p].anchor = procs[p].anchor /\ (Works(p) \/ BatchFree(procs[p].anchor))
    /\ p = Hook /\ procs'[p].pc # "idle" => procs[p].pc # "idle"
    /\ p # Hook /\ procs'[p].fed =>
          procs[p].fed /\ procs'[p].anchor = procs[p].anchor /\ procs'[p].want = procs[p].want

LEMMA Typed ==
    ASSUME TypeOK, NEW p \in Processes
    PROVE  /\ procs[p] \in Process /\ procs[p].anchor \in Anchors
           /\ procs[p].want \subseteq Files /\ procs[p].want # None
           /\ procs[p].left \subseteq Files /\ procs[p].ready \subseteq Files
           /\ procs[p].fed \in BOOLEAN /\ procs[p].pc \in Steps
<1>1. procs[p] \in Process
  BY DEF TypeOK
<1> QED BY <1>1, Basics DEF Process, Steps

LEMMA OthersKeep ==
    ASSUME IInv, NEW p \in Processes, Own(p), NEW o \in Processes \ {p}
    PROVE  ProcessOK(o)'
<1>1. procs'[o] = procs[o] /\ damage' = damage
  BY DEF Own
<1>2. /\ procs[o].anchor \in Anchors /\ procs[o].want # None /\ procs[o].want \subseteq Files
      /\ procs[o].ready \subseteq Files
  BY Typed DEF IInv
<1>3. ProcessOK(o)
  BY DEF IInv
<1>4. Works(o) => request'[procs[o].anchor] = request[procs[o].anchor]
  BY <1>2 DEF Own, HoldsBatch, Works
<1>5. request[procs[o].anchor] = procs[o].want => request'[procs[o].anchor] = procs[o].want
  BY <1>2 DEF Own
<1>6. manifest[procs[o].anchor] # None => manifest'[procs[o].anchor] # None
  BY <1>2 DEF Own
<1>7. \A f \in procs[o].want : data[f] # "absent" => data'[f] # "absent"
  BY <1>2 DEF Own
<1> QED BY <1>1, <1>3, <1>4, <1>5, <1>6, <1>7 DEF ProcessOK, Works

LEMMA ExclusiveKeeps ==
    ASSUME IInv, NEW p \in Processes, Own(p), Keeps(p)
    PROVE  Exclusive'
<1> SUFFICES ASSUME NEW o \in Processes, NEW q \in Processes, o # q, Works(o)', Works(q)'
             PROVE  procs'[o].anchor # procs'[q].anchor
  BY DEF Exclusive
<1>1. \A k \in Processes \ {p} : procs'[k] = procs[k]
  BY DEF Own
<1>2. CASE o # p /\ q # p
  BY <1>1, <1>2 DEF IInv, Exclusive, Works
<1>3. \A k \in Processes \ {p} : Works(p)' /\ Works(k) => procs[k].anchor # procs'[p].anchor
  BY DEF IInv, Exclusive, Works, Keeps, BatchFree, HoldsBatch
<1> QED BY <1>1, <1>2, <1>3 DEF Works

LEMMA StepOf ==
    ASSUME IInv, NEW p \in Processes, Own(p), Keeps(p), TypeOK', ProcessOK(p)', ManifestBacked'
    PROVE  IInv'
<1>1. \A o \in Processes : ProcessOK(o)'
  BY OthersKeep
<1>2. Exclusive'
  BY ExclusiveKeeps
<1>3. HookRuns' /\ FrozenRefers'
  BY Basics DEF IInv, HookRuns, FrozenRefers, Own, Keeps
<1>4. Feeding'
  BY Basics DEF IInv, Feeding, Own, Keeps
<1>5. Imported'
  <2>1. frozen' = frozen /\ damage' = damage
    BY DEF Own
  <2> SUFFICES ASSUME frozen.imported
               PROVE  request'[frozen.anchor] = frozen.want /\ (damage = 0 => manifest'[frozen.anchor] # None)
    BY <2>1 DEF Imported
  <2>2. frozen.anchor \in Anchors
    BY DEF IInv, FrozenRefers, Unfrozen
  <2>3. frozen.want # None
    BY Basics DEF IInv, TypeOK
  <2> QED BY <2>2, <2>3 DEF IInv, Imported, Own
<1>6. CommittedBeforeSent'
  <2>1. messages' = messages /\ damage' = damage
    BY DEF Own
  <2> SUFFICES ASSUME NEW m \in DOMAIN messages
               PROVE  /\ request'[messages[m].anchor] = messages[m].want
                      /\ damage = 0 => manifest'[messages[m].anchor] # None
    BY <2>1 DEF CommittedBeforeSent
  <2>2. messages[m].anchor \in Anchors /\ messages[m].want # None
    BY RunsTyped, Basics DEF IInv, Message
  <2> QED BY <2>2 DEF IInv, CommittedBeforeSent, Own
<1> QED BY <1>1, <1>2, <1>3, <1>4, <1>5, <1>6 DEF IInv

LEMMA ManifestsKeep ==
    ASSUME IInv, NEW p, Own(p), UNCHANGED manifest
    PROVE  ManifestBacked'
<1> SUFFICES ASSUME NEW a \in Anchors, manifest[a] # None
             PROVE  /\ request'[a] = manifest[a].want
                    /\ \A f \in manifest[a].ready : f \in manifest[a].want /\ data'[f] # "absent"
  BY DEF ManifestBacked
<1>1. manifest[a] \in Manifest
  BY DEF IInv, TypeOK
<1>2. manifest[a].want # None /\ manifest[a].ready \subseteq Files
  BY <1>1, Basics DEF Manifest
<1> QED BY <1>2 DEF IInv, ManifestBacked, Own

(* A step that only moves a process on.                                     *)
LEMMA MoveInv ==
    ASSUME IInv, NEW p \in Processes, NEW pc \in Steps, Go(p, pc), procs[p].pc # "idle",
           UNCHANGED <<orpheus, frozen, batchFiles, bounds>>,
           index' \in [Runs -> {None} \cup Page], current' \in 0 .. MaxRuns, UNCHANGED <<data, cache>>,
           pc \in {"files", "save", "request", "manifest"} => Works(p) \/ BatchFree(procs[p].anchor),
           ProcessOK(p)'
    PROVE  IInv'
<1>1. /\ procs' \in [Processes -> Process]
      /\ \A o \in Processes \ {p} : procs'[o] = procs[o]
      /\ procs'[p].pc = pc /\ procs'[p].anchor = procs[p].anchor /\ procs'[p].want = procs[p].want
      /\ procs'[p].fed = procs[p].fed
  BY GoTyped DEF IInv, TypeOK
<1>2. TypeOK'
  BY <1>1 DEF IInv, TypeOK, orpheus, batchFiles, bounds
<1>3. Own(p)
  BY <1>1 DEF Own, orpheus, batchFiles, bounds, Last
<1>4. Keeps(p)
  BY <1>1 DEF Keeps
<1> QED BY <1>2, <1>3, <1>4, ManifestsKeep, StepOf DEF batchFiles

LEMMA OpensInv ==
    ASSUME IInv, NEW p \in Importers, ImportOpens(p)
    PROVE  IInv'
<1>1. p \in Processes /\ p # Hook /\ ProcessOK(p)
  BY Basics DEF IInv
<1>2. /\ procs[p].pc = "lock" /\ BatchFree(procs[p].anchor) /\ Agrees(p) /\ Go(p, "files")
      /\ UNCHANGED <<orpheus, frozen, batchFiles, runFiles, inputFiles, bounds>>
  BY DEF ImportOpens
<1>3. /\ procs'[p].pc = "files" /\ procs'[p].anchor = procs[p].anchor /\ procs'[p].want = procs[p].want
      /\ procs'[p].left = procs[p].left /\ procs'[p].ready = procs[p].ready
  BY <1>1, <1>2, GoTyped DEF IInv, TypeOK, Steps
<1>4. ProcessOK(p)'
  BY <1>1, <1>2, <1>3 DEF ProcessOK, Works, Agrees, batchFiles, inputFiles
<1> QED BY <1>1, <1>2, <1>4, MoveInv DEF Steps, IInv, TypeOK, runFiles, inputFiles

LEMMA EndsInv ==
    ASSUME IInv, NEW p \in Importers, ImportEnds(p)
    PROVE  IInv'
<1>1. p \in Processes /\ p # Hook /\ ProcessOK(p)
  BY Basics DEF IInv
<1>2. /\ procs[p].pc = "files" /\ Go(p, "request")
      /\ UNCHANGED <<orpheus, frozen, batchFiles, runFiles, inputFiles, bounds>>
  BY DEF ImportEnds
<1>3. /\ procs'[p].pc = "request" /\ procs'[p].anchor = procs[p].anchor /\ procs'[p].want = procs[p].want
      /\ procs'[p].left = procs[p].left /\ procs'[p].ready = procs[p].ready
  BY <1>1, <1>2, GoTyped DEF IInv, TypeOK, Steps
<1>4. ProcessOK(p)'
  BY <1>1, <1>2, <1>3 DEF ProcessOK, Works, batchFiles, inputFiles
<1> QED BY <1>1, <1>2, <1>4, MoveInv DEF Steps, IInv, TypeOK, runFiles, inputFiles, Works

(* The hook checks the index, writes its page and announces the run.        *)
LEMMA IndexInv ==
    ASSUME IInv, VerifyIndex \/ WriteIndex \/ WriteCurrent
    PROVE  IInv'
<1>1. Hook \in Processes /\ ProcessOK(Hook) /\ (procs[Hook].pc # "idle" => Last \in Runs)
  <2>1. HookRuns /\ Last \in 0 .. MaxRuns
    BY RunsTyped DEF IInv
  <2> QED BY Basics, <2>1 DEF IInv, HookRuns, Runs
<1>2. PICK pc \in {"page", "current", "exit"} :
          Go(Hook, pc) /\ procs[Hook].pc \in {"index", "page", "current"}
             /\ UNCHANGED <<orpheus, frozen, batchFiles, inputFiles, bounds>>
  BY DEF VerifyIndex, WriteIndex, WriteCurrent
<1>3. /\ procs'[Hook].pc = pc /\ procs'[Hook].anchor = procs[Hook].anchor /\ procs'[Hook].want = procs[Hook].want
      /\ procs'[Hook].left = procs[Hook].left /\ procs'[Hook].ready = procs[Hook].ready
  BY <1>1, <1>2, GoTyped DEF IInv, TypeOK, Steps
<1>4. ProcessOK(Hook)'
  BY <1>1, <1>2, <1>3 DEF ProcessOK, Works, batchFiles, inputFiles
<1>5. index' \in [Runs -> {None} \cup Page] /\ current' \in 0 .. MaxRuns
  <2>1. CASE VerifyIndex
    BY <2>1 DEF VerifyIndex, runFiles, IInv, TypeOK
  <2>2. CASE WriteCurrent
    BY <1>1, <2>2, Basics DEF WriteCurrent, IInv, TypeOK, Runs
  <2>3. CASE WriteIndex
    <3>1. runs[Last] \in Run
      BY <1>1, <2>3, RunsTyped DEF WriteIndex, IInv, Runs
    <3>2. NewPage \in Page
      BY <3>1 DEF NewPage, Page, Run
    <3> QED BY <1>1, <2>3, <3>2 DEF WriteIndex, IInv, TypeOK
  <2> QED BY <2>1, <2>2, <2>3
<1> QED BY <1>1, <1>2, <1>4, <1>5, MoveInv DEF Steps, inputFiles

LEMMA IdleOK == \A p \in Processes : procs'[p] = Idle => ProcessOK(p)' /\ ~Works(p)'
  BY DEF ProcessOK, Works, Idle

(* A process ends: it is done, finds a conflict or a bad index, is killed or
   expires.                                                                 *)
LEMMA StopInv ==
    ASSUME IInv, NEW p \in Processes, Stop(p), procs[p].pc # "idle",
           UNCHANGED <<messages, frozen, batchFiles, runFiles, inputFiles, damage>>,
           faults' \in 0 .. MaxFaults, RunsOK', Last' = Last
    PROVE  IInv'
<1>1. /\ procs' \in [Processes -> Process] /\ procs'[p] = Idle
      /\ \A o \in Processes \ {p} : procs'[o] = procs[o]
  BY StopTyped DEF IInv, TypeOK
<1>2. TypeOK'
  BY <1>1 DEF IInv, TypeOK, RunsOK, Last, batchFiles, runFiles, inputFiles
<1>3. Own(p)
  BY <1>1 DEF Own, batchFiles, inputFiles
<1>4. Keeps(p)
  BY <1>1 DEF Keeps, Idle
<1> QED BY <1>1, <1>2, <1>3, <1>4, IdleOK, ManifestsKeep, StepOf DEF batchFiles

LEMMA FailsInv ==
    ASSUME IInv, NEW p \in Processes, NEW why \in {"conflict", "index", "killed"}, Stop(p), procs[p].pc # "idle",
           IF p = Hook THEN HookFails(why) ELSE UNCHANGED runs,
           UNCHANGED <<messages, frozen, batchFiles, runFiles, inputFiles, damage>>, faults' \in 0 .. MaxFaults
    PROVE  IInv'
<1>1. RunsOK
  BY TypeParts DEF IInv
<1>2. RunsOK' /\ Last' = Last
  <2>1. CASE p = Hook
    BY <1>1, <2>1, HookFailsTyped DEF IInv, HookRuns
  <2>2. CASE p # Hook
    BY <1>1, <2>2 DEF RunsOK, Last
  <2> QED BY <2>1, <2>2
<1> QED BY <1>2, StopInv

LEMMA EndsBadly ==
    ASSUME IInv, NEW p \in Processes, Conflict(p) \/ Kill(p) \/ (p = Hook /\ RefuseIndex)
    PROVE  IInv'
<1>1. CASE Conflict(p)
  BY <1>1, FailsInv DEF Conflict, bounds, IInv, TypeOK
<1>2. CASE Kill(p)
  BY <1>2, FailsInv, FaultTyped DEF Kill, Fault, bounds, IInv
<1>3. CASE p = Hook /\ RefuseIndex
  BY <1>3, FailsInv DEF RefuseIndex, bounds, IInv, TypeOK
<1> QED BY <1>1, <1>2, <1>3

LEMMA ExpireInv ==
    ASSUME IInv, NEW p \in Importers, Expire(p)
    PROVE  IInv'
  BY Basics, StopInv, TypeParts DEF Expire, Awaits, IInv, TypeOK, RunsOK, Last, orpheus, bounds

LEMMA HookDoneInv ==
    ASSUME IInv, HookDone
    PROVE  IInv'
<1> DEFINE new == [runs[Last] EXCEPT !.status = "running", !.prepared = TRUE]
<1>1. RunsOK /\ Last > 0 /\ Last \in DOMAIN runs
  BY TypeParts, RunsTyped DEF IInv, HookRuns, HookDone
<1>2. new \in Run
  <2>1. runs[Last] \in Run
    BY <1>1, RunsTyped DEF IInv
  <2> QED BY <2>1 DEF Run
<1>3. runs' = [runs EXCEPT ![Last] = new]
  BY DEF HookDone
<1> HIDE DEF new
<1>4. RunsOK' /\ Last' = Last
  BY <1>1, <1>2, <1>3, RunsUpdated
<1> QED BY <1>4, StopInv, Basics DEF HookDone, bounds, IInv, TypeOK

(* What an import has finished, the connector learns if it still waits.     *)
LEMMA ImportDoneInv ==
    ASSUME IInv, NEW p \in Importers, ImportDone(p)
    PROVE  IInv'
<1>1. p \in Processes /\ p # Hook /\ ProcessOK(p)
  BY Basics DEF IInv
<1>2. CASE ~procs[p].fed
  BY <1>1, <1>2, StopInv, TypeParts DEF ImportDone, IInv, TypeOK, RunsOK, Last, orpheus, bounds
<1>3. CASE procs[p].fed
  <2>1. /\ procs[p].pc = "exit" /\ Stop(p) /\ frozen' = [frozen EXCEPT !.imported = TRUE]
        /\ UNCHANGED <<orpheus, batchFiles, runFiles, inputFiles, bounds>>
    BY <1>3 DEF ImportDone
  <2>2. /\ procs' \in [Processes -> Process] /\ procs'[p] = Idle
        /\ \A o \in Processes \ {p} : procs'[o] = procs[o]
    BY <1>1, <2>1, StopTyped DEF IInv, TypeOK
  <2>3. /\ frozen # Unfrozen /\ frozen.anchor \in Anchors
        /\ procs[p].anchor = frozen.anchor /\ procs[p].want = frozen.want
        /\ \A q \in Importers : procs[q].fed => q = p
    BY <1>3 DEF IInv, Feeding, FrozenRefers
  <2>4. /\ frozen' \in [anchor : 0 .. LastAnchor, want : SUBSET Files, run : 0 .. MaxRuns, imported : BOOLEAN]
        /\ frozen'.anchor = frozen.anchor /\ frozen'.want = frozen.want /\ frozen'.imported
    BY <2>1 DEF IInv, TypeOK
  <2>5. TypeOK'
    BY <2>1, <2>2, <2>4 DEF IInv, TypeOK, orpheus, batchFiles, runFiles, inputFiles, bounds
  <2>6. \A o \in Processes : ProcessOK(o)'
    BY <2>1, <2>2, IdleOK DEF IInv, ProcessOK, Works, batchFiles, inputFiles, bounds
  <2>7. HookRuns' /\ FrozenRefers'
    BY <1>1, <2>1, <2>2, <2>3, <2>4, Basics DEF IInv, HookRuns, FrozenRefers, orpheus, Last
  <2>8. Exclusive'
    BY <2>2, IdleOK DEF IInv, Exclusive, Works
  <2>9. Feeding'
    <3>1. \A q \in Importers : ~procs'[q].fed
      BY <2>2, <2>3, Basics DEF Idle
    <3> QED BY <3>1 DEF Feeding
  <2>10. Imported'
    BY <1>1, <2>1, <2>3, <2>4 DEF ProcessOK, Imported, batchFiles, bounds
  <2>11. ManifestBacked' /\ CommittedBeforeSent'
    BY <2>1 DEF IInv, ManifestBacked, CommittedBeforeSent, orpheus, batchFiles, inputFiles, bounds
  <2> QED BY <2>5, <2>6, <2>7, <2>8, <2>9, <2>10, <2>11 DEF IInv
<1> QED BY <1>2, <1>3

(* The hook writes the request it agrees with.                              *)
LEMMA HookOpensInv ==
    ASSUME IInv, HookOpens
    PROVE  IInv'
<1> DEFINE a == procs[Hook].anchor
<1>1. /\ Hook \in Processes /\ ProcessOK(Hook) /\ a \in Anchors
      /\ procs[Hook].want \subseteq Files /\ procs[Hook].want # None
  BY Basics, Typed DEF IInv
<1>2. /\ procs[Hook].pc = "lock" /\ BatchFree(a) /\ request[a] \in {None, procs[Hook].want} /\ Go(Hook, "files")
      /\ request' = [request EXCEPT ![a] = procs[Hook].want]
      /\ UNCHANGED <<orpheus, frozen, manifest, runFiles, inputFiles, bounds>>
  BY DEF HookOpens, Agrees
<1> HIDE DEF a
<1>3. /\ procs' \in [Processes -> Process]
      /\ \A o \in Processes \ {Hook} : procs'[o] = procs[o]
      /\ procs'[Hook].pc = "files" /\ procs'[Hook].anchor = a /\ procs'[Hook].want = procs[Hook].want
      /\ procs'[Hook].left = procs[Hook].left /\ procs'[Hook].ready = procs[Hook].ready
  BY <1>1, <1>2, GoTyped DEF IInv, TypeOK, Steps, a
<1>4. /\ request' \in [Anchors -> {None} \cup SUBSET Files] /\ request'[a] = procs[Hook].want
      /\ \A b \in Anchors : b # a => request'[b] = request[b]
  BY <1>1, <1>2 DEF IInv, TypeOK
<1>5. TypeOK'
  BY <1>2, <1>3, <1>4 DEF IInv, TypeOK, orpheus, runFiles, inputFiles, bounds
<1>6. Own(Hook)
  BY <1>1, <1>2, <1>3, <1>4 DEF Own, BatchFree, a, orpheus, inputFiles, bounds, Last
<1>7. Keeps(Hook)
  BY <1>2, <1>3 DEF Keeps, a
<1>8. ProcessOK(Hook)'
  BY <1>1, <1>2, <1>3, <1>4 DEF ProcessOK, Works, inputFiles
<1> QED BY <1>1, <1>2, <1>5, <1>6, <1>7, <1>8, ManifestsKeep, StepOf

LEMMA ImportRequestInv ==
    ASSUME IInv, NEW p \in Importers, ImportRequest(p)
    PROVE  IInv'
<1> DEFINE a == procs[p].anchor
<1>1. /\ p \in Processes /\ p # Hook /\ ProcessOK(p) /\ a \in Anchors
      /\ procs[p].want \subseteq Files /\ procs[p].want # None
  BY Basics, Typed DEF IInv
<1>2. /\ procs[p].pc = "request" /\ Go(p, "manifest")
      /\ request' = [request EXCEPT ![a] = procs[p].want]
      /\ UNCHANGED <<orpheus, frozen, manifest, runFiles, inputFiles, bounds>>
  BY DEF ImportRequest
<1>3. request[a] \in {None, procs[p].want} /\ Works(p)
  BY <1>1, <1>2 DEF ProcessOK, Works
<1>4. \A o \in Processes \ {p} : ~HoldsBatch(o, a)
  BY <1>1, <1>3 DEF IInv, Exclusive, HoldsBatch, Works
<1> HIDE DEF a
<1>5. /\ procs' \in [Processes -> Process]
      /\ \A o \in Processes \ {p} : procs'[o] = procs[o]
      /\ procs'[p].pc = "manifest" /\ procs'[p].anchor = a /\ procs'[p].want = procs[p].want
      /\ procs'[p].left = procs[p].left /\ procs'[p].ready = procs[p].ready /\ procs'[p].fed = procs[p].fed
  BY <1>1, <1>2, GoTyped DEF IInv, TypeOK, Steps, a
<1>6. /\ request' \in [Anchors -> {None} \cup SUBSET Files] /\ request'[a] = procs[p].want
      /\ \A b \in Anchors : b # a => request'[b] = request[b]
  BY <1>1, <1>2 DEF IInv, TypeOK
<1>7. TypeOK'
  BY <1>2, <1>5, <1>6 DEF IInv, TypeOK, orpheus, runFiles, inputFiles, bounds
<1>8. Own(p)
  BY <1>1, <1>2, <1>3, <1>4, <1>5, <1>6 DEF Own, a, orpheus, inputFiles, bounds, Last
<1>9. Keeps(p)
  BY <1>1, <1>3, <1>5 DEF Keeps, a
<1>10. ProcessOK(p)'
  BY <1>1, <1>2, <1>5, <1>6 DEF ProcessOK, Works, inputFiles
<1> QED BY <1>1, <1>2, <1>7, <1>8, <1>9, <1>10, ManifestsKeep, StepOf

(* The manifest, by the hook or by an import.                               *)
LEMMA ManifestInv ==
    ASSUME IInv, NEW p \in Processes, NEW pc \in {"index", "exit"}, Go(p, pc), Works(p),
           request[procs[p].anchor] = procs[p].want,
           manifest' = [manifest EXCEPT ![procs[p].anchor] = ManifestOf(p)],
           UNCHANGED <<orpheus, frozen, request, runFiles, inputFiles, bounds>>
    PROVE  IInv'
<1> DEFINE a == procs[p].anchor
<1>1. /\ ProcessOK(p) /\ a \in Anchors /\ procs[p].want \subseteq Files /\ procs[p].ready \subseteq Files
  BY Typed DEF IInv
<1>2. /\ ManifestOf(p) \in Manifest /\ ManifestOf(p).want = procs[p].want /\ ManifestOf(p).ready = procs[p].ready
  BY <1>1 DEF ManifestOf, Manifest
<1>3. ManifestOf(p) # None
  BY <1>2, NoneAssumption
<1>4. /\ procs' \in [Processes -> Process]
      /\ \A o \in Processes \ {p} : procs'[o] = procs[o]
      /\ procs'[p].pc = pc /\ procs'[p].anchor = a /\ procs'[p].want = procs[p].want
      /\ procs'[p].left = procs[p].left /\ procs'[p].ready = procs[p].ready /\ procs'[p].fed = procs[p].fed
  BY GoTyped DEF IInv, TypeOK, Steps
<1>5. /\ manifest' \in [Anchors -> {None} \cup Manifest] /\ manifest'[a] = ManifestOf(p)
      /\ \A b \in Anchors : b # a => manifest'[b] = manifest[b]
  BY <1>1, <1>2 DEF IInv, TypeOK
<1>6. TypeOK'
  BY <1>4, <1>5 DEF IInv, TypeOK, orpheus, runFiles, inputFiles, bounds
<1>7. Own(p)
  BY <1>3, <1>4, <1>5 DEF Own, orpheus, inputFiles, bounds, Last
<1>8. Keeps(p)
  BY <1>4 DEF Keeps, Works
<1>9. ProcessOK(p)'
  BY <1>1, <1>3, <1>4, <1>5 DEF ProcessOK, Works, inputFiles
<1>10. ManifestBacked'
  BY <1>1, <1>2, <1>5 DEF IInv, ManifestBacked, ProcessOK, inputFiles
<1> QED BY <1>6, <1>7, <1>8, <1>9, <1>10, StepOf

LEMMA ManifestsInv ==
    ASSUME IInv, HookManifest \/ \E p \in Importers : ImportManifest(p)
    PROVE  IInv'
<1>1. \A p \in Processes : ProcessOK(p)
  BY DEF IInv
<1>2. CASE HookManifest
  BY <1>1, <1>2, Basics, ManifestInv DEF HookManifest, ProcessOK, Works
<1>3. ASSUME NEW p \in Importers, ImportManifest(p) PROVE IInv'
  BY <1>1, <1>3, Basics, ManifestInv DEF ImportManifest, ProcessOK, Works
<1> QED BY <1>2, <1>3

(* Files: kept, unavailable or saved.                                       *)
LEMMA FileInv ==
    ASSUME IInv, NEW p \in Processes, NEW q \in Process, procs' = [procs EXCEPT ![p] = q],
           Works(p), q.pc \in {"files", "save"}, procs[p].pc \in {"files", "save"},
           q.anchor = procs[p].anchor, q.want = procs[p].want, q.fed = procs[p].fed,
           q.left \subseteq q.want, q.ready \subseteq q.want,
           \A f \in q.ready : data'[f] # "absent",
           q.pc = "save" => q.file \in q.want /\ data'[q.file] # "absent",
           data' \in [Files -> {"absent", "good", "bad"}], cache' \subseteq Files,
           \A f \in Files : data[f] # "absent" => data'[f] # "absent",
           faults' \in 0 .. MaxFaults,
           UNCHANGED <<orpheus, frozen, batchFiles, runFiles, damage>>
    PROVE  IInv'
<1>1. procs' \in [Processes -> Process] /\ procs'[p] = q /\ \A o \in Processes \ {p} : procs'[o] = procs[o]
  BY Update DEF IInv, TypeOK
<1>2. TypeOK'
  BY <1>1 DEF IInv, TypeOK, orpheus, batchFiles, runFiles
<1>3. Own(p)
  BY <1>1 DEF Own, orpheus, batchFiles, Last
<1>4. Keeps(p)
  BY <1>1 DEF Keeps, Works
<1>5. ProcessOK(p)'
  BY <1>1 DEF IInv, ProcessOK, Works, batchFiles
<1> QED BY <1>2, <1>3, <1>4, <1>5, ManifestsKeep, StepOf DEF batchFiles

LEMMA FilesInv ==
    ASSUME IInv, NEW p \in Processes, NEW f \in Files,
           Unavailable(p, f) \/ (p = Hook /\ Keep(f)) \/ SaveData(p, f)
    PROVE  IInv'
<1>1. /\ procs[p] \in Process /\ ProcessOK(p) /\ procs[p].pc = "files" /\ f \in procs[p].left /\ Works(p)
      /\ procs \in [Processes -> Process]
  BY Typed DEF IInv, TypeOK, Unavailable, Keep, SaveData, At, Works
<1>2. CASE Unavailable(p, f)
  <2> DEFINE q == [procs[p] EXCEPT !.left = @ \ {f}]
  <2>1. /\ q \in Process /\ q.pc = "files" /\ q.anchor = procs[p].anchor /\ q.want = procs[p].want
        /\ q.fed = procs[p].fed /\ q.left = procs[p].left \ {f} /\ q.ready = procs[p].ready
    BY <1>1 DEF Process
  <2>2. procs' = [procs EXCEPT ![p] = q]
    BY <1>2 DEF Unavailable
  <2> HIDE DEF q
  <2>3. faults' \in 0 .. MaxFaults /\ damage' = damage
    BY <1>2, FaultTyped DEF Unavailable, Fault, bounds, IInv
  <2>4. UNCHANGED <<orpheus, frozen, batchFiles, runFiles, inputFiles>>
    BY <1>2 DEF Unavailable
  <2> QED BY <1>1, <2>1, <2>2, <2>3, <2>4, FileInv DEF ProcessOK, inputFiles, IInv, TypeOK
<1>3. CASE p = Hook /\ Keep(f)
  <2> DEFINE q == [procs[p] EXCEPT !.left = @ \ {f}, !.ready = @ \cup {f}]
  <2>1. /\ q \in Process /\ q.pc = "files" /\ q.anchor = procs[p].anchor /\ q.want = procs[p].want
        /\ q.fed = procs[p].fed /\ q.left = procs[p].left \ {f} /\ q.ready = procs[p].ready \cup {f}
    BY <1>1 DEF Process
  <2>2. procs' = [procs EXCEPT ![p] = q]
    BY <1>3 DEF Keep
  <2> HIDE DEF q
  <2>3. /\ UNCHANGED <<orpheus, frozen, batchFiles, runFiles, inputFiles, bounds>>
        /\ data[f] = "good"
    BY <1>3 DEF Keep, Cached
  <2>4. /\ data' = data /\ cache' = cache /\ faults' = faults /\ damage' = damage
        /\ UNCHANGED <<orpheus, frozen, batchFiles, runFiles>>
    BY <2>3 DEF inputFiles, bounds
  <2>5. data \in [Files -> {"absent", "good", "bad"}] /\ cache \subseteq Files /\ faults \in 0 .. MaxFaults
    BY DEF IInv, TypeOK
  <2>6. f \in procs[p].want
    BY <1>1 DEF ProcessOK
  <2>7. q.left \subseteq q.want /\ q.ready \subseteq q.want /\ \A g \in q.ready : data'[g] # "absent"
    BY <1>1, <2>1, <2>3, <2>4, <2>6 DEF ProcessOK
  <2> QED BY <1>1, <2>1, <2>2, <2>4, <2>5, <2>7, FileInv
<1>4. CASE SaveData(p, f)
  <2> DEFINE q == [procs[p] EXCEPT !.pc = "save", !.file = f]
  <2>1. /\ q \in Process /\ q.pc = "save" /\ q.anchor = procs[p].anchor /\ q.want = procs[p].want
        /\ q.fed = procs[p].fed /\ q.left = procs[p].left /\ q.ready = procs[p].ready /\ q.file = f
    BY <1>1 DEF Process
  <2>2. procs' = [procs EXCEPT ![p] = q]
    BY <1>4 DEF SaveData
  <2> HIDE DEF q
  <2>3. /\ UNCHANGED <<orpheus, frozen, batchFiles, runFiles, cache, bounds>>
        /\ data' = [data EXCEPT ![f] = "good"]
    BY <1>4 DEF SaveData
  <2>4. /\ data' \in [Files -> {"absent", "good", "bad"}] /\ data'[f] = "good"
        /\ \A g \in Files : g # f => data'[g] = data[g]
    BY <2>3 DEF IInv, TypeOK
  <2>5. procs[p].ready \subseteq Files /\ f \in procs[p].want
    BY <1>1 DEF Process, ProcessOK
  <2>6. \A g \in Files : data[g] # "absent" => data'[g] # "absent"
    BY <2>4
  <2>7. q.left \subseteq q.want /\ q.ready \subseteq q.want /\ \A g \in q.ready : data'[g] # "absent"
    BY <1>1, <2>1, <2>5, <2>6 DEF ProcessOK
  <2>8. cache' \subseteq Files /\ faults' \in 0 .. MaxFaults /\ damage' = damage
    BY <2>3 DEF IInv, TypeOK, bounds
  <2>9. data'[q.file] # "absent" /\ q.file \in q.want
    BY <2>1, <2>4, <2>5
  <2> QED BY <1>1, <2>1, <2>2, <2>3, <2>4, <2>6, <2>7, <2>8, <2>9, FileInv
<1> QED BY <1>2, <1>3, <1>4

LEMMA SaveCacheInv ==
    ASSUME IInv, NEW p \in Processes, SaveCache(p)
    PROVE  IInv'
<1>1. /\ procs[p] \in Process /\ ProcessOK(p) /\ procs[p].pc = "save" /\ Works(p)
      /\ procs \in [Processes -> Process]
  BY Typed DEF IInv, TypeOK, SaveCache, Works
<1> DEFINE f == procs[p].file
           q == [procs[p] EXCEPT !.pc = "files", !.left = @ \ {f}, !.ready = @ \cup {f}, !.file = 0]
<1>2. f \in Files /\ f \in procs[p].want /\ data[f] # "absent"
  BY <1>1 DEF ProcessOK, Process
<1>3. procs' = [procs EXCEPT ![p] = q]
  BY <1>1 DEF SaveCache
<1>4. /\ UNCHANGED <<orpheus, frozen, batchFiles, runFiles, data, bounds>>
      /\ cache' = cache \cup {f}
  BY DEF SaveCache
<1> HIDE DEF f
<1>5. /\ q \in Process /\ q.pc = "files" /\ q.anchor = procs[p].anchor /\ q.want = procs[p].want
      /\ q.fed = procs[p].fed /\ q.left = procs[p].left \ {f} /\ q.ready = procs[p].ready \cup {f}
  BY <1>1, <1>2 DEF Process
<1> HIDE DEF q
<1>6. /\ data \in [Files -> {"absent", "good", "bad"}] /\ cache' \subseteq Files /\ faults \in 0 .. MaxFaults
      /\ data' = data /\ faults' = faults /\ damage' = damage
  BY <1>2, <1>4 DEF IInv, TypeOK, bounds
<1>7. q.left \subseteq q.want /\ q.ready \subseteq q.want /\ \A g \in q.ready : data'[g] # "absent"
  BY <1>1, <1>2, <1>5, <1>6 DEF ProcessOK
<1> QED BY <1>1, <1>3, <1>4, <1>5, <1>6, <1>7, FileInv

-----------------------------------------------------------------------------
(* The connector.                                                           *)

(* A process is started.                                                    *)
LEMMA StartsOK ==
    ASSUME IInv, NEW p \in Processes, NEW a \in Anchors, NEW w \in SUBSET Files,
           procs' = [procs EXCEPT ![p] = Started(a, w)], UNCHANGED <<batchFiles, data, damage>>
    PROVE  /\ procs' \in [Processes -> Process] /\ procs'[p] = Started(a, w)
           /\ \A o \in Processes \ {p} : procs'[o] = procs[o]
           /\ (\A o \in Processes : ProcessOK(o)') /\ Exclusive' /\ ManifestBacked'
<1> DEFINE q == Started(a, w)
<1>1. q \in Process /\ q.pc = "lock" /\ q.want = w /\ q.left = w /\ q.ready = {}
  BY ProcessTyped DEF Started, Idle
<1> HIDE DEF q
<1>2. procs' \in [Processes -> Process] /\ procs'[p] = q /\ \A o \in Processes \ {p} : procs'[o] = procs[o]
  BY <1>1, Update DEF IInv, TypeOK, q
<1>3. \A o \in Processes : ProcessOK(o)'
  BY <1>1, <1>2 DEF IInv, ProcessOK, Works, batchFiles
<1>4. Exclusive'
  BY <1>1, <1>2 DEF IInv, Exclusive, Works
<1>5. ManifestBacked'
  BY DEF IInv, ManifestBacked, batchFiles
<1> QED BY <1>2, <1>3, <1>4, <1>5 DEF q

(* Processes and batches stay as they are.                                  *)
LEMMA StaysOK ==
    ASSUME IInv, UNCHANGED <<batchFiles, data, damage, procs>>
    PROVE  (\A o \in Processes : ProcessOK(o)') /\ Exclusive' /\ ManifestBacked'
  BY DEF IInv, ProcessOK, Works, Exclusive, ManifestBacked, batchFiles

LEMMA StartRunInv ==
    ASSUME IInv, NEW a \in Anchors, NEW w \in SUBSET Files, StartRun(a, w)
    PROVE  IInv'
<1> DEFINE new == [anchor |-> a, want |-> w, prev |-> LastPrepared,
                   delivered |-> DeliveredTo(LastPrepared), status |-> "starting",
                   prepared |-> FALSE, why |-> "ok"]
<1>1. /\ Last < MaxRuns /\ runs' = Append(runs, new)
      /\ procs' = [procs EXCEPT ![Hook] = Started(a, w)]
      /\ UNCHANGED <<messages, frozen, batchFiles, runFiles, inputFiles, bounds>>
  BY DEF StartRun
<1>2. DeliveredTo(LastPrepared) \subseteq Anchors
  <2>1. \A m \in DOMAIN messages : messages[m].anchor \in Anchors
    BY RunsTyped DEF IInv, Message
  <2> QED BY <2>1 DEF DeliveredTo
<1>3. new \in Run
  BY <1>2, LastPreparedTyped DEF Run, IInv
<1> HIDE DEF new
<1>4. runs \in Seq(Run) /\ Last \in Nat
  BY DEF IInv, TypeOK, Last
<1>5. runs' \in Seq(Run) /\ Last' = Last + 1
  BY <1>1, <1>3, <1>4 DEF Last
<1>6. /\ procs' \in [Processes -> Process]
      /\ \A o \in Processes \ {Hook} : procs'[o] = procs[o]
      /\ (\A o \in Processes : ProcessOK(o)') /\ Exclusive' /\ ManifestBacked'
  BY <1>1, StartsOK, Basics DEF inputFiles, bounds
<1>7. RunsOK' /\ HookRuns'
  BY <1>1, <1>4, <1>5, Basics DEF RunsOK, HookRuns
<1>8. TypeOK'
  BY <1>1, <1>6, <1>7 DEF IInv, TypeOK, RunsOK, Last, batchFiles, runFiles, inputFiles, bounds
<1>9. Feeding'
  BY <1>1, <1>6, Basics DEF IInv, Feeding
<1>10. FrozenRefers' /\ Imported' /\ CommittedBeforeSent'
  BY <1>1 DEF IInv, FrozenRefers, Imported, CommittedBeforeSent, batchFiles, bounds
<1> QED BY <1>6, <1>7, <1>8, <1>9, <1>10 DEF IInv

LEMMA StartImportInv ==
    ASSUME IInv, NEW p \in Importers, StartImport(p)
    PROVE  IInv'
<1>1. /\ frozen # Unfrozen /\ ~frozen.imported /\ \A q \in Importers : ~procs[q].fed
      /\ procs' = [procs EXCEPT ![p] = Started(frozen.anchor, frozen.want)]
      /\ UNCHANGED <<orpheus, frozen, batchFiles, runFiles, inputFiles, bounds>>
  BY DEF StartImport
<1>2. p \in Processes /\ p # Hook /\ frozen.anchor \in Anchors /\ frozen.want \in SUBSET Files
  BY <1>1, Basics DEF IInv, FrozenRefers, TypeOK
<1>3. /\ procs' \in [Processes -> Process] /\ procs'[p] = Started(frozen.anchor, frozen.want)
      /\ \A o \in Processes \ {p} : procs'[o] = procs[o]
      /\ (\A o \in Processes : ProcessOK(o)') /\ Exclusive' /\ ManifestBacked'
  BY <1>1, <1>2, StartsOK DEF inputFiles, bounds
<1>4. TypeOK' /\ HookRuns'
  BY <1>1, <1>2, <1>3, Basics DEF IInv, TypeOK, HookRuns, orpheus, batchFiles, runFiles, inputFiles, bounds, Last
<1>5. Feeding'
  <2>1. procs'[p].anchor = frozen.anchor /\ procs'[p].want = frozen.want
    BY <1>3 DEF Started, Idle
  <2>2. \A q \in Importers : procs'[q].fed => q = p
    BY <1>1, <1>3, Basics
  <2> QED BY <1>1, <2>1, <2>2 DEF Feeding
<1>6. FrozenRefers' /\ Imported' /\ CommittedBeforeSent'
  BY <1>1 DEF IInv, FrozenRefers, Imported, CommittedBeforeSent, orpheus, batchFiles, bounds
<1> QED BY <1>3, <1>4, <1>5, <1>6 DEF IInv

LEMMA NobodyFed ==
    ASSUME IInv, frozen = Unfrozen \/ frozen.imported
    PROVE  \A q \in Importers : ~procs[q].fed
  BY DEF IInv, Feeding

LEMMA UnfrozenTyped == Unfrozen \in FrozenType /\ ~Unfrozen.imported
  BY Basics DEF Unfrozen, FrozenType

LEMMA FreezeInv ==
    ASSUME IInv, NEW a \in Anchors, NEW w \in SUBSET Files, Freeze(a, w)
    PROVE  IInv'
<1>1. /\ frozen = Unfrozen /\ frozen' = [anchor |-> a, want |-> w, run |-> Last, imported |-> FALSE]
      /\ UNCHANGED <<orpheus, batchFiles, runFiles, inputFiles, procs, bounds>>
  BY DEF Freeze
<1>2. frozen' \in FrozenType /\ frozen'.anchor = a /\ ~frozen'.imported
  BY <1>1, Basics, RunsTyped DEF FrozenType, IInv
<1>3. TypeOK' /\ HookRuns'
  BY <1>1, <1>2 DEF IInv, TypeOK, FrozenType, HookRuns, orpheus, batchFiles, runFiles, inputFiles, bounds, Last
<1>4. FrozenRefers' /\ Imported'
  BY <1>2 DEF FrozenRefers, Imported
<1>5. Feeding'
  BY <1>1, NobodyFed DEF Feeding
<1>6. CommittedBeforeSent' /\ (\A o \in Processes : ProcessOK(o)') /\ Exclusive' /\ ManifestBacked'
  BY <1>1, StaysOK DEF IInv, CommittedBeforeSent, orpheus, batchFiles, inputFiles, bounds
<1> QED BY <1>3, <1>4, <1>5, <1>6 DEF IInv

(* The clarification is sent after its import.                              *)
LEMMA SubmitInv ==
    ASSUME IInv, Submit
    PROVE  IInv'
<1> DEFINE new == [anchor |-> frozen.anchor, want |-> frozen.want, run |-> frozen.run, delivery |-> "pending"]
<1>1. /\ frozen.imported /\ frozen.run \in DOMAIN runs /\ messages' = Append(messages, new)
      /\ frozen' = Unfrozen
      /\ UNCHANGED <<runs, batchFiles, runFiles, inputFiles, procs, bounds>>
  BY DEF Submit, Running
<1>2. frozen.anchor \in Anchors /\ frozen.want \in SUBSET Files /\ frozen.run \in Runs
  BY <1>1, RunsTyped, UnfrozenTyped DEF IInv, FrozenRefers, TypeOK
<1>3. new \in Message /\ new.anchor = frozen.anchor /\ new.want = frozen.want
  BY <1>2 DEF Message
<1> HIDE DEF new
<1>4. messages \in Seq(Message)
  BY DEF IInv, TypeOK
<1>5. messages' \in Seq(Message)
  BY <1>1, <1>3, <1>4
<1>6. \A m \in DOMAIN messages' : messages'[m] = new \/ (m \in DOMAIN messages /\ messages'[m] = messages[m])
  BY <1>1, <1>3, <1>4
<1>7. TypeOK' /\ HookRuns'
  BY <1>1, <1>5, UnfrozenTyped DEF IInv, TypeOK, FrozenType, HookRuns, batchFiles, runFiles, inputFiles, bounds, Last
<1>8. FrozenRefers' /\ Imported' /\ Feeding'
  BY <1>1, NobodyFed, UnfrozenTyped DEF FrozenRefers, Imported, Feeding
<1>9. CommittedBeforeSent'
  BY <1>1, <1>3, <1>6 DEF IInv, Imported, CommittedBeforeSent, batchFiles, bounds
<1>10. (\A o \in Processes : ProcessOK(o)') /\ Exclusive' /\ ManifestBacked'
  BY <1>1, StaysOK DEF inputFiles, bounds
<1> QED BY <1>7, <1>8, <1>9, <1>10 DEF IInv

LEMMA RunGoneInv ==
    ASSUME IInv, RunGone
    PROVE  IInv'
<1>1. /\ frozen' = Unfrozen /\ \A q \in Importers : ~procs[q].fed
      /\ UNCHANGED <<orpheus, batchFiles, runFiles, inputFiles, procs, bounds>>
  BY DEF RunGone
<1>2. TypeOK' /\ HookRuns'
  BY <1>1, UnfrozenTyped DEF IInv, TypeOK, FrozenType, HookRuns, orpheus, batchFiles, runFiles, inputFiles, bounds, Last
<1>3. FrozenRefers' /\ Imported' /\ Feeding'
  BY <1>1, UnfrozenTyped DEF FrozenRefers, Imported, Feeding
<1>4. CommittedBeforeSent' /\ (\A o \in Processes : ProcessOK(o)') /\ Exclusive' /\ ManifestBacked'
  BY <1>1, StaysOK DEF IInv, CommittedBeforeSent, orpheus, batchFiles, inputFiles, bounds
<1> QED BY <1>2, <1>3, <1>4 DEF IInv

(* An import goes on by itself when the connector leaves it.                *)
LEMMA DetachInv ==
    ASSUME IInv, GiveUp \/ Restart
    PROVE  IInv'
<1>1. /\ procs' = Detached /\ frozen' \in {frozen, Unfrozen} /\ Fault
      /\ UNCHANGED <<orpheus, batchFiles, runFiles, inputFiles>>
  BY DEF GiveUp, Restart
<1>2. bounds' \in (0 .. MaxFaults) \X (0 .. MaxDamage) /\ damage' = damage
  BY <1>1, FaultTyped DEF IInv, Fault
<1>3. ASSUME NEW p \in Processes
      PROVE  /\ procs'[p] \in Process
             /\ procs'[p].pc = procs[p].pc /\ procs'[p].anchor = procs[p].anchor /\ procs'[p].want = procs[p].want
             /\ procs'[p].left = procs[p].left /\ procs'[p].ready = procs[p].ready
             /\ procs'[p].file = procs[p].file
             /\ p \in Importers => ~procs'[p].fed
  <2>1. procs[p] \in Process
    BY Typed DEF IInv
  <2>2. CASE p \in Importers
    <3> DEFINE q == [procs[p] EXCEPT !.fed = FALSE]
    <3>1. procs'[p] = q
      BY <1>1, <2>2 DEF Detached
    <3>2. /\ q \in Process /\ q.pc = procs[p].pc /\ q.anchor = procs[p].anchor /\ q.want = procs[p].want
          /\ q.left = procs[p].left /\ q.ready = procs[p].ready /\ q.file = procs[p].file /\ ~q.fed
      BY <2>1 DEF Process
    <3> HIDE DEF q
    <3> QED BY <3>1, <3>2
  <2>3. CASE p \notin Importers
    BY <1>1, <2>1, <2>3 DEF Detached
  <2> QED BY <2>2, <2>3
<1>4. procs' \in [Processes -> Process]
  BY <1>1, <1>3 DEF Detached
<1>5. frozen' \in FrozenType
  BY <1>1, UnfrozenTyped, TypeParts DEF IInv
<1>6. TypeOK' /\ HookRuns'
  <2>1. TypeOK'
    BY <1>1, <1>2, <1>4, <1>5 DEF IInv, TypeOK, FrozenType, orpheus, batchFiles, runFiles, inputFiles, bounds
  <2> QED BY <1>1, <1>3, <2>1, Basics DEF IInv, HookRuns, orpheus, Last
<1>7. \A p \in Processes : ProcessOK(p)'
  BY <1>1, <1>2, <1>3 DEF IInv, ProcessOK, Works, batchFiles, inputFiles
<1>8. Exclusive'
  BY <1>3 DEF IInv, Exclusive, Works
<1>9. Feeding'
  BY <1>3, Basics DEF Feeding
<1>10. FrozenRefers' /\ Imported'
  BY <1>1, <1>2, UnfrozenTyped DEF IInv, FrozenRefers, Imported, batchFiles
<1>11. CommittedBeforeSent' /\ ManifestBacked'
  BY <1>1, <1>2 DEF IInv, CommittedBeforeSent, ManifestBacked, orpheus, batchFiles, inputFiles
<1> QED BY <1>6, <1>7, <1>8, <1>9, <1>10, <1>11 DEF IInv

-----------------------------------------------------------------------------
(* Orpheus and the agent.                                                   *)

LEMMA DeliverInv ==
    ASSUME IInv, NEW m \in DOMAIN messages, Deliver(m)
    PROVE  IInv'
<1> DEFINE new == [messages[m] EXCEPT !.delivery = "delivered"]
<1>1. messages' = [messages EXCEPT ![m] = new] /\ UNCHANGED <<runs, frozen, batchFiles, runFiles, inputFiles, procs, bounds>>
  BY DEF Deliver
<1>2. messages[m] \in Message /\ messages \in Seq(Message)
  BY RunsTyped DEF IInv, TypeOK
<1>3. new \in Message /\ new.anchor = messages[m].anchor /\ new.want = messages[m].want
  BY <1>2 DEF Message
<1> HIDE DEF new
<1>4. /\ messages' \in Seq(Message) /\ DOMAIN messages' = DOMAIN messages
      /\ messages'[m] = new /\ \A i \in DOMAIN messages : i # m => messages'[i] = messages[i]
  BY <1>1, <1>2, <1>3, ExceptElements
<1>5. TypeOK' /\ HookRuns'
  BY <1>1, <1>4 DEF IInv, TypeOK, HookRuns, batchFiles, runFiles, inputFiles, bounds, Last
<1>6. FrozenRefers' /\ Imported' /\ Feeding'
  BY <1>1 DEF IInv, FrozenRefers, Imported, Feeding, batchFiles, bounds
<1>7. CommittedBeforeSent'
  BY <1>1, <1>3, <1>4 DEF IInv, CommittedBeforeSent, batchFiles, bounds
<1>8. (\A o \in Processes : ProcessOK(o)') /\ Exclusive' /\ ManifestBacked'
  BY <1>1, StaysOK DEF inputFiles, bounds
<1> QED BY <1>5, <1>6, <1>7, <1>8 DEF IInv

LEMMA EndRunInv ==
    ASSUME IInv, NEW how \in {"completed", "failed"}, EndRun(how)
    PROVE  IInv'
<1> DEFINE new == [runs[Last] EXCEPT !.status = how]
           left(m) == IF messages[m].delivery = "pending" THEN [messages[m] EXCEPT !.delivery = "rejected"]
                      ELSE messages[m]
<1>1. /\ Last \in DOMAIN runs /\ runs' = [runs EXCEPT ![Last] = new]
      /\ messages' = [m \in DOMAIN messages |-> left(m)]
      /\ UNCHANGED <<frozen, batchFiles, runFiles, inputFiles, procs, bounds>>
  BY DEF EndRun, Running
<1>2. RunsOK /\ Last > 0 /\ runs[Last] \in Run
  BY <1>1, RunsTyped, TypeParts DEF IInv
<1>3. new \in Run
  BY <1>2 DEF Run
<1>4. ASSUME NEW m \in DOMAIN messages
      PROVE  left(m) \in Message /\ left(m).anchor = messages[m].anchor /\ left(m).want = messages[m].want
  <2>1. messages[m] \in Message
    BY RunsTyped DEF IInv
  <2> QED BY <2>1 DEF Message
<1> HIDE DEF new, left
<1>5. RunsOK' /\ Last' = Last
  BY <1>1, <1>2, <1>3, RunsUpdated
<1>6. messages' \in Seq(Message) /\ DOMAIN messages' = DOMAIN messages
  <2>1. Len(messages) \in Nat /\ DOMAIN messages = 1 .. Len(messages)
    BY DEF IInv, TypeOK
  <2> QED BY <1>1, <1>4, <2>1
<1>7. TypeOK' /\ HookRuns'
  BY <1>1, <1>5, <1>6 DEF IInv, TypeOK, HookRuns, RunsOK, batchFiles, runFiles, inputFiles, bounds, Last
<1>8. FrozenRefers' /\ Imported' /\ Feeding'
  BY <1>1 DEF IInv, FrozenRefers, Imported, Feeding, batchFiles, bounds
<1>9. CommittedBeforeSent'
  BY <1>1, <1>4, <1>6 DEF IInv, CommittedBeforeSent, batchFiles, bounds
<1>10. (\A o \in Processes : ProcessOK(o)') /\ Exclusive' /\ ManifestBacked'
  BY <1>1, StaysOK DEF inputFiles, bounds
<1> QED BY <1>7, <1>8, <1>9, <1>10 DEF IInv

(* Damage excuses a manifest that is gone, not one that is wrong.           *)
LEMMA DamageInv ==
    ASSUME IInv, (\E f \in Files : DamageFile(f)) \/ (\E a \in Anchors : DamageManifest(a))
    PROVE  IInv'
<1>1. /\ Damage /\ UNCHANGED <<orpheus, frozen, request, runFiles, cache, procs>>
      /\ manifest' \in [Anchors -> {None} \cup Manifest] /\ data' \in [Files -> {"absent", "good", "bad"}]
      /\ \A a \in Anchors : manifest'[a] \in {manifest[a], None}
      /\ \A f \in Files : data[f] # "absent" => data'[f] # "absent"
  <2>1. CASE \E f \in Files : DamageFile(f)
    BY <2>1 DEF DamageFile, IInv, TypeOK, batchFiles
  <2>2. CASE \E a \in Anchors : DamageManifest(a)
    BY <2>2 DEF DamageManifest, IInv, TypeOK, inputFiles
  <2> QED BY <2>1, <2>2
<1>2. bounds' \in (0 .. MaxFaults) \X (0 .. MaxDamage) /\ damage' # 0
  BY <1>1, FaultTyped DEF IInv, TypeOK, Damage
<1>3. TypeOK' /\ HookRuns'
  BY <1>1, <1>2 DEF IInv, TypeOK, HookRuns, orpheus, runFiles, bounds, Last
<1>4. FrozenRefers' /\ Feeding' /\ Exclusive'
  BY <1>1 DEF IInv, FrozenRefers, Feeding, Exclusive, Works
<1>5. Imported' /\ CommittedBeforeSent'
  BY <1>1, <1>2 DEF IInv, Imported, CommittedBeforeSent, orpheus
<1>6. ASSUME NEW p \in Processes PROVE ProcessOK(p)'
  <2>1. procs[p].want \subseteq Files /\ ProcessOK(p)
    BY Typed DEF IInv
  <2> QED BY <1>1, <1>2, <2>1 DEF ProcessOK, Works
<1>7. ManifestBacked'
  <2> SUFFICES ASSUME NEW a \in Anchors, manifest'[a] # None
               PROVE  /\ request'[a] = manifest'[a].want
                      /\ \A f \in manifest'[a].ready : f \in manifest'[a].want /\ data'[f] # "absent"
    BY DEF ManifestBacked
  <2>1. manifest'[a] = manifest[a] /\ manifest[a] \in Manifest
    BY <1>1 DEF IInv, TypeOK
  <2>2. manifest[a].ready \subseteq Files
    BY <2>1 DEF Manifest
  <2> QED BY <1>1, <2>1, <2>2 DEF IInv, ManifestBacked
<1> QED BY <1>3, <1>4, <1>5, <1>6, <1>7 DEF IInv

-----------------------------------------------------------------------------

LEMMA InitInv == Init => IInv
<1> SUFFICES ASSUME Init PROVE IInv
  OBVIOUS
<1>1. \A p \in Processes : procs[p] = Idle
  BY DEF Init
<1>2. /\ TypeOK
  <2>1. /\ runs \in Seq(Run) /\ Len(runs) = 0 /\ messages \in Seq(Message)
        /\ frozen \in FrozenType /\ procs \in [Processes -> Process]
    BY UnfrozenTyped, ProcessTyped DEF Init
  <2> QED BY <2>1, Basics DEF Init, TypeOK, FrozenType
<1>3. \A p \in Processes : ProcessOK(p) /\ ~Works(p)
  BY <1>1 DEF ProcessOK, Works, Idle
<1>4. HookRuns /\ FrozenRefers /\ Exclusive /\ Imported
  BY <1>1, <1>3, Basics, UnfrozenTyped DEF Init, HookRuns, FrozenRefers, Exclusive, Imported, Idle
<1>5. Feeding
  BY <1>1, Basics DEF Feeding, Idle
<1>6. ManifestBacked /\ CommittedBeforeSent
  BY DEF Init, ManifestBacked, CommittedBeforeSent
<1> QED BY <1>2, <1>3, <1>4, <1>5, <1>6 DEF IInv

LEMMA ConnectorInv == IInv /\ Connector => IInv'
<1> SUFFICES ASSUME IInv, Connector PROVE IInv'
  OBVIOUS
<1>1. \A a \in Anchors : \A w \in Drafts[a] \cup {messages[m].want : m \in DOMAIN messages} : w \in SUBSET Files
  BY RunsTyped, Basics DEF IInv, Message
<1> QED BY <1>1, StartRunInv, FreezeInv, StartImportInv, SubmitInv, RunGoneInv, DetachInv DEF Connector

LEMMA EnvironmentInv == IInv /\ Environment => IInv'
  BY DeliverInv, EndRunInv, DamageInv DEF Environment

LEMMA PreparingInv == IInv /\ Preparing => IInv'
  BY HookOpensInv, EndsBadly, SaveCacheInv, FilesInv, ManifestsInv, IndexInv, HookDoneInv, Basics DEF Preparing

LEMMA ImportingInv ==
    ASSUME IInv, NEW p \in Importers, Importing(p) \/ Expire(p)
    PROVE  IInv'
  BY OpensInv, EndsBadly, SaveCacheInv, FilesInv, EndsInv, ImportRequestInv, ManifestsInv, ImportDoneInv,
     ExpireInv, Basics DEF Importing

LEMMA Inductive == IInv /\ [Next]_vars => IInv'
<1> SUFFICES ASSUME IInv, [Next]_vars PROVE IInv'
  OBVIOUS
<1>1. CASE UNCHANGED vars
  <2>1. TypeOK' /\ HookRuns' /\ FrozenRefers'
    BY <1>1 DEF vars, orpheus, batchFiles, runFiles, inputFiles, bounds, IInv, TypeOK, HookRuns, FrozenRefers, Last
  <2>2. Feeding' /\ Imported' /\ CommittedBeforeSent'
    BY <1>1 DEF vars, orpheus, batchFiles, bounds, IInv, Feeding, Imported, CommittedBeforeSent
  <2> QED BY <1>1, <2>1, <2>2, StaysOK DEF vars, inputFiles, bounds, IInv
<1>2. CASE \E p \in Processes : Kill(p)
  BY <1>2, EndsBadly
<1> QED BY <1>1, <1>2, ConnectorInv, EnvironmentInv, PreparingInv, ImportingInv DEF Next

LEMMA Invariance == Spec => []IInv
  BY InitInv, Inductive, PTL DEF Spec

-----------------------------------------------------------------------------

(* Types of the state.                                                      *)
THEOREM TypeCorrect == Spec => []TypeOK
<1>1. IInv => TypeOK
  BY DEF IInv
<1> QED BY Invariance, <1>1, PTL

(* A manifest belongs to the request beside it, its files have been written,
   and a clarification's batch is committed before it is sent, whatever is
   killed and whichever processes prepare it (files.py:305, 333,
   access.go:213-228).                                                      *)
THEOREM Committed == Spec => []BatchCommitted
<1>1. IInv => BatchCommitted
  BY DEF IInv, BatchCommitted
<1> QED BY Invariance, <1>1, PTL

(* Only the hook's first step and an import's last ones write a request, each
   after comparing it under the lock of the batch.                          *)
LEMMA RequestWrites ==
    ASSUME IInv, [Next]_vars, NEW a \in Anchors, request[a] # None
    PROVE  request'[a] = request[a]
<1>1. CASE HookOpens
  BY <1>1, Typed, Basics DEF HookOpens, Agrees, IInv, TypeOK
<1>2. ASSUME NEW p \in Importers, ImportRequest(p) PROVE request'[a] = request[a]
  <2>1. ProcessOK(p) /\ procs[p].anchor \in Anchors
    BY Typed, Basics DEF IInv
  <2> QED BY <1>2, <2>1 DEF ImportRequest, ProcessOK, Works, IInv, TypeOK
<1>3. CASE ~HookOpens /\ \A p \in Importers : ~ImportRequest(p)
  <2>1. Connector \/ Environment => UNCHANGED request
    BY DEF Connector, Environment, StartRun, Freeze, StartImport, Submit, RunGone, GiveUp, Restart,
           Deliver, EndRun, DamageFile, DamageManifest, batchFiles
  <2>2. Preparing => UNCHANGED request
    BY <1>3 DEF Preparing, Conflict, SaveCache, Keep, SaveData, Unavailable, HookManifest, VerifyIndex, RefuseIndex,
                WriteIndex, WriteCurrent, HookDone, batchFiles
  <2>3. \A p \in Importers : Importing(p) \/ Expire(p) => UNCHANGED request
    BY <1>3 DEF Importing, Expire, ImportOpens, Conflict, SaveCache, SaveData, Unavailable, ImportEnds,
                ImportManifest, ImportDone, batchFiles
  <2>4. \A p \in Processes : Kill(p) => UNCHANGED request
    BY DEF Kill, batchFiles
  <2> QED BY <2>1, <2>2, <2>3, <2>4 DEF Next, vars, batchFiles
<1> QED BY <1>1, <1>2, <1>3

(* A request never changes (files.py:238), however many processes prepare its
   batch at once and whichever of them are killed.                          *)
THEOREM RequestsFrozen == Spec => RequestFrozen
<1>1. IInv /\ [Next]_vars => [\A a \in Anchors : request[a] # None => request'[a] = request[a]]_vars
  BY RequestWrites
<1> QED BY Invariance, <1>1, PTL DEF Spec, RequestFrozen

-----------------------------------------------------------------------------
(* The session's history.  Each run continues the index of the last one that *)
(* was prepared, and that was so for good when it started: only the last run *)
(* is prepared or delivered anything.                                       *)

OnlyLast == \A r \in DOMAIN runs : r # Last => runs[r].status \in {"completed", "failed"}
HookRun ==
    procs[Hook].pc # "idle" =>
        runs[Last].status = "starting" /\ ~runs[Last].prepared /\ procs[Hook].anchor = runs[Last].anchor
Chained ==
    \A r \in DOMAIN runs :
        /\ runs[r].prev < r /\ (runs[r].prev # 0 => runs[runs[r].prev].prepared)
        /\ \A s \in DOMAIN runs : runs[r].prev < s /\ s < r => ~runs[s].prepared
        /\ runs[r].delivered = DeliveredTo(runs[r].prev)
PageOf(r) == [prev |-> runs[r].prev, batches |-> runs[r].delivered \cup {runs[r].anchor}]
Paged ==
    /\ \A r \in Runs : index[r] # None => r \in DOMAIN runs /\ index[r] = PageOf(r)
    /\ \A r \in DOMAIN runs : runs[r].prepared => index[r] # None
    /\ procs[Hook].pc \in {"current", "exit"} => index[Last] # None
History == OnlyLast /\ HookRun /\ Chained /\ Paged

(* A step after which the runs have the same past.                          *)
SameRuns ==
    /\ Last' = Last /\ DOMAIN runs' = DOMAIN runs
    /\ \A r \in DOMAIN runs :
          /\ runs'[r].anchor = runs[r].anchor /\ runs'[r].prev = runs[r].prev
          /\ runs'[r].delivered = runs[r].delivered
          /\ r # Last => runs'[r] = runs[r]
          /\ runs[r].prepared => runs'[r].prepared
          /\ runs'[r].prepared => runs[r].prepared \/ index[r] # None
SameDelivered == \A s \in 0 .. MaxRuns : s # Last => DeliveredTo(s)' = DeliveredTo(s)
SameHook ==
    /\ procs'[Hook].pc # "idle" =>
          procs[Hook].pc # "idle" /\ procs'[Hook].anchor = procs[Hook].anchor /\ runs' = runs
    /\ procs'[Hook].pc \in {"current", "exit"} => index'[Last] # None
SameIndex == index' = index \/ (procs[Hook].pc = "page" /\ index' = [index EXCEPT ![Last] = NewPage])

LEMMA HistoryKept ==
    ASSUME IInv, History, SameRuns, SameDelivered, SameHook, SameIndex
    PROVE  History'
<1>1. Last \in 0 .. MaxRuns /\ DOMAIN runs = 1 .. Last /\ (\A r \in DOMAIN runs : r \in Runs /\ runs[r] \in Run)
      /\ MaxRuns \in Nat
  BY RunsTyped, Basics DEF IInv
<1>2. \A r \in DOMAIN runs : runs[r].prev \in 0 .. MaxRuns /\ r \in Nat
  BY <1>1 DEF Run, Runs
<1>3. OnlyLast'
  BY DEF History, OnlyLast, SameRuns
<1>4. HookRun'
  BY DEF History, HookRun, SameHook, SameRuns
<1>5. Chained'
  <2>1. ASSUME NEW r \in DOMAIN runs
        PROVE  /\ runs'[r].prev < r /\ (runs'[r].prev # 0 => runs'[runs'[r].prev].prepared)
               /\ \A s \in DOMAIN runs : runs'[r].prev < s /\ s < r => ~runs'[s].prepared
               /\ runs'[r].delivered = DeliveredTo(runs[r].prev)'
    <3>1. /\ runs[r].prev < r /\ (runs[r].prev # 0 => runs[runs[r].prev].prepared)
          /\ \A s \in DOMAIN runs : runs[r].prev < s /\ s < r => ~runs[s].prepared
          /\ runs[r].delivered = DeliveredTo(runs[r].prev)
      BY DEF History, Chained
    <3>2. PICK k \in 0 .. MaxRuns : k = runs[r].prev
      BY <1>2
    <3>3. k # Last /\ (k # 0 => k \in DOMAIN runs)
      BY <1>1, <1>2, <3>1, <3>2
    <3>4. DeliveredTo(k)' = DeliveredTo(k)
      BY <3>3 DEF SameDelivered
    <3>5. \A s \in DOMAIN runs : s < r => runs'[s] = runs[s]
      BY <1>1 DEF SameRuns
    <3>6. runs'[r].prev = k /\ runs'[r].delivered = runs[r].delivered
      BY <3>2 DEF SameRuns
    <3>7. k # 0 => runs'[k].prepared
      BY <3>1, <3>2, <3>3 DEF SameRuns
    <3>8. DeliveredTo(runs[r].prev)' = DeliveredTo(k)'
      BY <3>2, <3>6 DEF DeliveredTo
    <3> QED BY <3>1, <3>2, <3>4, <3>5, <3>6, <3>7, <3>8
  <2> QED BY <2>1 DEF Chained, SameRuns
<1>6. \A r \in DOMAIN runs : PageOf(r)' = PageOf(r)
  BY DEF PageOf, SameRuns
<1>7. \A r \in Runs : index'[r] # index[r] => r \in DOMAIN runs /\ index'[r] = PageOf(r) /\ index'[r] # None
  <2>1. CASE index' = index
    BY <2>1
  <2>2. CASE procs[Hook].pc = "page" /\ index' = [index EXCEPT ![Last] = NewPage]
    <3>1. Last > 0 /\ Last \in DOMAIN runs /\ Last \in Runs
      BY <1>1, <2>2 DEF IInv, HookRuns, Runs
    <3>2. NewPage = PageOf(Last)
      BY DEF NewPage, PageOf
    <3>3. NewPage \in Page
      BY <1>1, <3>1 DEF NewPage, Page, Run
    <3> QED BY <2>2, <3>1, <3>2, <3>3, NoneAssumption DEF IInv, TypeOK
  <2> QED BY <2>1, <2>2 DEF SameIndex
<1>8. Paged'
  <2>1. \A r \in Runs : index'[r] # None => r \in DOMAIN runs' /\ index'[r] = PageOf(r)'
    BY <1>6, <1>7 DEF History, Paged, SameRuns
  <2>2. \A r \in DOMAIN runs' : runs'[r].prepared => index'[r] # None
    BY <1>1, <1>7 DEF History, Paged, SameRuns
  <2> QED BY <2>1, <2>2 DEF Paged, SameHook, SameRuns
<1> QED BY <1>3, <1>4, <1>5, <1>8 DEF History

(* A message goes to the run that is running, which is the last one.        *)
LEMMA RunningLast ==
    ASSUME IInv, History, NEW r, Running(r)
    PROVE  r = Last /\ r \in DOMAIN runs /\ procs[Hook].pc = "idle"
<1>1. r = Last /\ r \in DOMAIN runs
  BY DEF Running, History, OnlyLast
<1> QED BY <1>1 DEF Running, History, HookRun

LEMMA MessagesKept ==
    ASSUME IInv, History, Submit \/ (\E m \in DOMAIN messages : Deliver(m)) \/ \E how \in {"completed", "failed"} : EndRun(how)
    PROVE  History'
<1>1. messages \in Seq(Message) /\ DOMAIN messages = 1 .. Len(messages)
      /\ \A m \in DOMAIN messages : messages[m] \in Message
  BY RunsTyped DEF IInv, TypeOK
<1>2. CASE Submit
  <2>1. /\ messages' = Append(messages, [anchor |-> frozen.anchor, want |-> frozen.want, run |-> frozen.run, delivery |-> "pending"])
        /\ UNCHANGED <<runs, index, procs>> /\ Running(frozen.run)
    BY <1>2 DEF Submit, runFiles
  <2>2. frozen.run = Last
    BY <2>1, RunningLast
  <2>3. ASSUME NEW s \in 0 .. MaxRuns, s # Last
        PROVE  DeliveredTo(s)' = DeliveredTo(s)
    <3>1. {m \in DOMAIN messages' : messages'[m].run = s /\ messages'[m].delivery = "delivered"}
              = {m \in DOMAIN messages : messages[m].run = s /\ messages[m].delivery = "delivered"}
      BY <1>1, <2>1, <2>2, <2>3
    <3>2. \A m \in DOMAIN messages : messages'[m] = messages[m]
      BY <1>1, <2>1
    <3> QED BY <3>1, <3>2 DEF DeliveredTo
  <2>4. SameRuns /\ SameDelivered /\ SameHook /\ SameIndex
    BY <2>1, <2>3 DEF SameRuns, SameDelivered, SameHook, SameIndex, Last, History, Paged
  <2> QED BY <2>4, HistoryKept
<1>3. ASSUME NEW k \in DOMAIN messages, Deliver(k)
      PROVE  History'
  <2>1. /\ messages' = [messages EXCEPT ![k].delivery = "delivered"] /\ UNCHANGED <<runs, index, procs>>
        /\ messages[k].run = Last
    BY <1>3, RunningLast DEF Deliver, runFiles
  <2>2. DOMAIN messages' = DOMAIN messages
        /\ \A m \in DOMAIN messages : messages'[m].run = messages[m].run /\ messages'[m].anchor = messages[m].anchor
              /\ (m # k => messages'[m] = messages[m])
    BY <1>1, <2>1 DEF Message
  <2>3. ASSUME NEW s \in 0 .. MaxRuns, s # Last
        PROVE  DeliveredTo(s)' = DeliveredTo(s)
    <3>1. {m \in DOMAIN messages' : messages'[m].run = s /\ messages'[m].delivery = "delivered"}
              = {m \in DOMAIN messages : messages[m].run = s /\ messages[m].delivery = "delivered"}
      BY <2>1, <2>2, <2>3
    <3> QED BY <2>2, <3>1 DEF DeliveredTo
  <2>4. SameRuns /\ SameDelivered /\ SameHook /\ SameIndex
    BY <2>1, <2>3 DEF SameRuns, SameDelivered, SameHook, SameIndex, Last, History, Paged
  <2> QED BY <2>4, HistoryKept
<1>4. ASSUME NEW how \in {"completed", "failed"}, EndRun(how)
      PROVE  History'
  <2>1. /\ runs' = [runs EXCEPT ![Last].status = how] /\ UNCHANGED <<index, procs>>
        /\ messages' = [m \in DOMAIN messages |->
                          IF messages[m].delivery = "pending" THEN [messages[m] EXCEPT !.delivery = "rejected"]
                          ELSE messages[m]]
        /\ Last \in DOMAIN runs /\ procs[Hook].pc = "idle"
    BY <1>4, RunningLast DEF EndRun, runFiles
  <2>2. DOMAIN messages' = DOMAIN messages
        /\ \A m \in DOMAIN messages : messages'[m].run = messages[m].run /\ messages'[m].anchor = messages[m].anchor
              /\ (messages'[m].delivery = "delivered" <=> messages[m].delivery = "delivered")
    BY <1>1, <2>1 DEF Message
  <2>3. \A s \in 0 .. MaxRuns : DeliveredTo(s)' = DeliveredTo(s)
    BY <2>2 DEF DeliveredTo
  <2>4. runs \in Seq(Run) /\ runs[Last] \in Run
    BY <2>1, RunsTyped DEF IInv, TypeOK
  <2>5. SameRuns
    BY <2>1, <2>4 DEF SameRuns, Last, Run
  <2>6. SameDelivered /\ SameHook /\ SameIndex
    BY <2>1, <2>3 DEF SameDelivered, SameHook, SameIndex
  <2> QED BY <2>5, <2>6, HistoryKept
<1> QED BY <1>2, <1>3, <1>4

(* The other steps, by what they do to the hook.                            *)
LEMMA StillHook ==
    ASSUME IInv, History, UNCHANGED <<runs, messages, index>>,
           procs'[Hook].pc # "idle" => procs[Hook].pc # "idle" /\ procs'[Hook].anchor = procs[Hook].anchor,
           procs'[Hook].pc \in {"current", "exit"} => procs[Hook].pc \in {"current", "exit"}
    PROVE  History'
<1>1. SameRuns /\ SameDelivered /\ SameIndex
  BY DEF SameRuns, SameDelivered, SameIndex, Last, DeliveredTo
<1>2. SameHook
  BY DEF SameHook, History, Paged
<1> QED BY <1>1, <1>2, HistoryKept

LEMMA HookStops ==
    ASSUME IInv, History, Stop(Hook), UNCHANGED <<messages, index>>, procs[Hook].pc # "idle",
           HookDone \/ \E why \in {"conflict", "index", "killed"} : HookFails(why)
    PROVE  History'
<1>1. Last \in DOMAIN runs /\ runs \in Seq(Run) /\ runs[Last] \in Run
  BY RunsTyped DEF IInv, HookRuns, TypeOK
<1>2. procs'[Hook].pc = "idle"
  BY StopTyped, Basics DEF IInv, TypeOK, Idle
<1>3. SameRuns
  <2>1. CASE HookDone
    <3>1. runs' = [runs EXCEPT ![Last].status = "running", ![Last].prepared = TRUE] /\ index[Last] # None
      BY <2>1 DEF HookDone, History, Paged
    <3> QED BY <1>1, <3>1 DEF SameRuns, Last, Run
  <2>2. ASSUME NEW why \in {"conflict", "index", "killed"}, HookFails(why)
        PROVE  SameRuns
    BY <1>1, <2>2 DEF HookFails, SameRuns, Last, Run
  <2> QED BY <2>1, <2>2
<1>4. SameDelivered /\ SameHook /\ SameIndex
  BY <1>2 DEF SameDelivered, SameHook, SameIndex, DeliveredTo
<1> QED BY <1>3, <1>4, HistoryKept

LEMMA LastPreparedIs ==
    ASSUME TypeOK
    PROVE  /\ LastPrepared \in 0 .. MaxRuns /\ LastPrepared <= Last
           /\ LastPrepared # 0 => LastPrepared \in DOMAIN runs /\ runs[LastPrepared].prepared
           /\ \A s \in DOMAIN runs : LastPrepared < s => ~runs[s].prepared
<1> DEFINE done == {r \in DOMAIN runs : runs[r].prepared}
<1>1. done \subseteq 0 .. MaxRuns /\ done \subseteq 1 .. Last /\ DOMAIN runs = 1 .. Last /\ Last \in 0 .. MaxRuns
  BY RunsTyped, Basics DEF Runs
<1>2. CASE done = {}
  BY <1>1, <1>2, Basics DEF LastPrepared
<1>3. CASE done # {}
  <2>1. \E r \in done : \A s \in done : s <= r
    <3> HIDE DEF done
    <3> QED BY <1>1, <1>3, Basics, GreatestOfBounded
  <2>2. LastPrepared \in done /\ \A s \in done : s <= LastPrepared
    BY <1>3, <2>1 DEF LastPrepared
  <2>3. \A s \in DOMAIN runs : LastPrepared < s => ~runs[s].prepared
    BY <1>1, <2>2
  <2> QED BY <1>1, <2>2, <2>3
<1> QED BY <1>2, <1>3

LEMMA StartsHistory ==
    ASSUME IInv, History, NEW a \in Anchors, NEW w \in SUBSET Files, StartRun(a, w)
    PROVE  History'
<1> DEFINE new == [anchor |-> a, want |-> w, prev |-> LastPrepared,
                   delivered |-> DeliveredTo(LastPrepared), status |-> "starting",
                   prepared |-> FALSE, why |-> "ok"]
           n == Last + 1
<1>1. /\ ~Active /\ runs' = Append(runs, new) /\ procs' = [procs EXCEPT ![Hook] = Started(a, w)]
      /\ UNCHANGED <<messages, index>>
  BY DEF StartRun, runFiles
<1>2. /\ Last \in 0 .. MaxRuns /\ DOMAIN runs = 1 .. Last /\ Last \in Nat
      /\ \A r \in DOMAIN runs : r \in Runs /\ runs[r] \in Run /\ r \in Nat
  BY RunsTyped, Basics DEF IInv
<1>3. /\ LastPrepared \in 0 .. MaxRuns /\ LastPrepared <= Last
      /\ LastPrepared # 0 => LastPrepared \in DOMAIN runs /\ runs[LastPrepared].prepared
      /\ \A s \in DOMAIN runs : LastPrepared < s => ~runs[s].prepared
  BY LastPreparedIs DEF IInv
<1>4. \A r \in DOMAIN runs : runs[r].status \in {"completed", "failed"}
  BY <1>1, <1>2 DEF Active, History, OnlyLast, Run
<1>5. PICK k \in 0 .. MaxRuns : k = LastPrepared
  BY <1>3
<1>6. new.prev = k /\ new.delivered = DeliveredTo(k) /\ ~new.prepared /\ new.anchor = a /\ new.status = "starting"
  BY <1>5
<1> HIDE DEF new
<1>7. /\ DOMAIN runs' = 1 .. n /\ Last' = n /\ runs'[n] = new /\ n \in Nat
      /\ \A r \in DOMAIN runs : runs'[r] = runs[r] /\ r # n /\ r \in DOMAIN runs'
      /\ \A r \in DOMAIN runs' : r = n \/ r \in DOMAIN runs
  BY <1>1, <1>2 DEF IInv, TypeOK, Last
<1>8. \A s : DeliveredTo(s)' = DeliveredTo(s)
  BY <1>1 DEF DeliveredTo
<1>9. procs'[Hook].pc = "lock" /\ procs'[Hook].anchor = a
  BY <1>1, Basics DEF Started, Idle, IInv, TypeOK
<1>10. OnlyLast' /\ HookRun'
  BY <1>4, <1>6, <1>7, <1>9 DEF OnlyLast, HookRun
<1>11. Chained'
  <2>1. ASSUME NEW r \in DOMAIN runs'
        PROVE  /\ runs'[r].prev < r /\ (runs'[r].prev # 0 => runs'[runs'[r].prev].prepared)
               /\ \A s \in DOMAIN runs' : runs'[r].prev < s /\ s < r => ~runs'[s].prepared
               /\ runs'[r].delivered = DeliveredTo(runs'[r].prev)
    <3>1. CASE r = n
      BY <1>2, <1>3, <1>5, <1>6, <1>7, <3>1
    <3>2. CASE r \in DOMAIN runs
      <4>1. /\ runs[r].prev < r /\ (runs[r].prev # 0 => runs[runs[r].prev].prepared)
            /\ \A s \in DOMAIN runs : runs[r].prev < s /\ s < r => ~runs[s].prepared
            /\ runs[r].delivered = DeliveredTo(runs[r].prev)
        BY <3>2 DEF History, Chained
      <4>2. runs[r].prev \in Nat /\ (runs[r].prev # 0 => runs[r].prev \in DOMAIN runs)
        BY <1>2, <3>2, <4>1, Basics DEF Run
      <4> QED BY <1>2, <1>7, <3>2, <4>1, <4>2
    <3> QED BY <1>7, <3>1, <3>2
  <2>2. \A r \in DOMAIN runs' : runs'[r].delivered = DeliveredTo(runs[r].prev)'
    BY <1>1, <2>1 DEF DeliveredTo
  <2> QED BY <2>1, <2>2 DEF Chained
<1>12. Paged'
  <2>1. \A r \in Runs : index[r] # None => r \in DOMAIN runs /\ index[r] = PageOf(r)
    BY DEF History, Paged
  <2>2. \A r \in DOMAIN runs : PageOf(r)' = PageOf(r)
    BY <1>7 DEF PageOf
  <2>3. \A r \in DOMAIN runs' : runs'[r].prepared => index'[r] # None
    BY <1>1, <1>6, <1>7 DEF History, Paged
  <2> QED BY <1>1, <1>7, <1>9, <2>1, <2>2, <2>3 DEF Paged
<1> QED BY <1>10, <1>11, <1>12 DEF History

(* What the steps of the other processes and of the connector leave alone.  *)
LEMMA OthersHistory ==
    ASSUME IInv, History,
           \/ \E a \in Anchors : \E w \in SUBSET Files : Freeze(a, w)
           \/ \E p \in Importers : StartImport(p) \/ Importing(p) \/ Expire(p) \/ Kill(p)
           \/ RunGone \/ GiveUp \/ Restart
           \/ (\E f \in Files : DamageFile(f)) \/ (\E a \in Anchors : DamageManifest(a))
           \/ UNCHANGED vars
    PROVE  History'
<1> SUFFICES UNCHANGED <<runs, messages, index>> /\ procs'[Hook].pc = procs[Hook].pc
             /\ procs'[Hook].anchor = procs[Hook].anchor
  BY StillHook
<1>1. CASE \E a \in Anchors : \E w \in SUBSET Files : Freeze(a, w)
  BY <1>1 DEF Freeze, orpheus, runFiles
<1>2. ASSUME NEW p \in Importers, StartImport(p) \/ Expire(p) \/ Kill(p)
      PROVE  UNCHANGED <<runs, messages, index>> /\ procs'[Hook] = procs[Hook]
  BY <1>2, Basics DEF StartImport, Expire, Kill, Stop, orpheus, runFiles, IInv, TypeOK
<1>3. ASSUME NEW p \in Importers, Importing(p)
      PROVE  UNCHANGED <<runs, messages, index>> /\ procs'[Hook] = procs[Hook]
  <2>1. CASE ImportOpens(p) \/ Conflict(p) \/ SaveCache(p) \/ (\E f \in Files : SaveData(p, f) \/ Unavailable(p, f))
    BY <2>1, Basics DEF ImportOpens, Conflict, SaveCache, SaveData, Unavailable, Stop, Go, orpheus, runFiles, IInv, TypeOK
  <2>2. CASE ImportEnds(p) \/ ImportRequest(p) \/ ImportManifest(p) \/ ImportDone(p)
    BY <2>2, Basics DEF ImportEnds, ImportRequest, ImportManifest, ImportDone, Stop, Go, orpheus, runFiles, IInv, TypeOK
  <2> QED BY <1>3, <2>1, <2>2 DEF Importing
<1>4. CASE RunGone
  BY <1>4 DEF RunGone, orpheus, runFiles
<1>5. CASE GiveUp \/ Restart
  BY <1>5, Basics DEF GiveUp, Restart, Detached, orpheus, runFiles, IInv, TypeOK
<1>6. CASE (\E f \in Files : DamageFile(f)) \/ (\E a \in Anchors : DamageManifest(a))
  BY <1>6 DEF DamageFile, DamageManifest, orpheus, runFiles
<1>7. CASE UNCHANGED vars
  BY <1>7 DEF vars, orpheus, runFiles
<1> QED BY <1>1, <1>2, <1>3, <1>4, <1>5, <1>6, <1>7

(* The hook's own steps.                                                    *)
LEMMA HookHistory ==
    ASSUME IInv, History, Preparing \/ Kill(Hook)
    PROVE  History'
<1>0. procs \in [Processes -> Process] /\ Hook \in Processes /\ procs[Hook] \in Process
  BY Typed, Basics DEF IInv, TypeOK
<1>1. CASE HookOpens \/ HookManifest \/ VerifyIndex
  <2>1. /\ UNCHANGED <<runs, messages, index>> /\ procs[Hook].pc # "idle"
        /\ \E pc \in {"files", "index", "page"} : Go(Hook, pc)
    BY <1>1 DEF HookOpens, HookManifest, VerifyIndex, orpheus, runFiles
  <2> QED BY <1>0, <2>1, GoTyped, StillHook DEF Steps
<1>2. CASE SaveCache(Hook) \/ \E f \in Files : Keep(f) \/ SaveData(Hook, f) \/ Unavailable(Hook, f)
  <2>1. UNCHANGED <<runs, messages, index>> /\ procs[Hook].pc \in {"files", "save"}
    BY <1>2 DEF SaveCache, Keep, SaveData, Unavailable, At, orpheus, runFiles
  <2>2. procs'[Hook].pc \in {"files", "save"} /\ procs'[Hook].anchor = procs[Hook].anchor
    <3>1. CASE SaveCache(Hook)
      BY <1>0, <3>1 DEF SaveCache, Process
    <3>2. ASSUME NEW f \in Files, Keep(f) \/ Unavailable(Hook, f)
          PROVE  procs'[Hook].pc = procs[Hook].pc /\ procs'[Hook].anchor = procs[Hook].anchor
      BY <1>0, <3>2 DEF Keep, Unavailable, Process
    <3>3. ASSUME NEW f \in Files, SaveData(Hook, f)
          PROVE  procs'[Hook].pc = "save" /\ procs'[Hook].anchor = procs[Hook].anchor
      BY <1>0, <3>3 DEF SaveData, Process
    <3> QED BY <1>2, <2>1, <3>1, <3>2, <3>3
  <2> QED BY <2>1, <2>2, StillHook
<1>3. CASE WriteIndex
  <2>1. /\ UNCHANGED <<runs, messages>> /\ procs[Hook].pc = "page" /\ Go(Hook, "current")
        /\ index' = [index EXCEPT ![Last] = NewPage]
    BY <1>3 DEF WriteIndex, orpheus
  <2>2. procs'[Hook].pc = "current" /\ procs'[Hook].anchor = procs[Hook].anchor
    BY <1>0, <2>1, GoTyped DEF Steps
  <2>3. index'[Last] # None
    <3>1. Last \in Runs /\ runs[Last] \in Run
      BY <2>1, RunsTyped DEF IInv, HookRuns, Runs
    <3>2. NewPage \in Page
      BY <3>1 DEF NewPage, Page, Run
    <3> QED BY <2>1, <3>1, <3>2, NoneAssumption DEF IInv, TypeOK
  <2>4. SameRuns /\ SameDelivered /\ SameHook /\ SameIndex
    BY <2>1, <2>2, <2>3 DEF SameRuns, SameDelivered, SameHook, SameIndex, Last, DeliveredTo
  <2> QED BY <2>4, HistoryKept
<1>4. CASE WriteCurrent
  <2>1. UNCHANGED <<runs, messages, index>> /\ procs[Hook].pc = "current" /\ Go(Hook, "exit")
    BY <1>4 DEF WriteCurrent, orpheus
  <2> QED BY <1>0, <2>1, GoTyped, StillHook DEF Steps
<1>5. CASE Conflict(Hook) \/ RefuseIndex \/ HookDone \/ Kill(Hook)
  <2>1. Stop(Hook) /\ UNCHANGED <<messages, index>> /\ procs[Hook].pc # "idle"
    BY <1>5 DEF Conflict, RefuseIndex, HookDone, Kill, runFiles
  <2>2. HookDone \/ \E why \in {"conflict", "index", "killed"} : HookFails(why)
    BY <1>5 DEF Conflict, RefuseIndex, Kill
  <2> QED BY <2>1, <2>2, HookStops
<1> QED BY <1>1, <1>2, <1>3, <1>4, <1>5 DEF Preparing

LEMMA HistoryNext == IInv /\ History /\ [Next]_vars => History'
<1> SUFFICES ASSUME IInv, History, [Next]_vars PROVE History'
  OBVIOUS
<1>1. CASE Connector
  <2>1. \A a \in Anchors : \A w \in Drafts[a] \cup {messages[m].want : m \in DOMAIN messages} : w \in SUBSET Files
    BY RunsTyped, Basics DEF IInv, Message
  <2> QED BY <1>1, <2>1, StartsHistory, OthersHistory, MessagesKept DEF Connector
<1>2. CASE Environment
  BY <1>2, MessagesKept, OthersHistory DEF Environment
<1>3. CASE Preparing
  BY <1>3, HookHistory
<1>4. CASE \E p \in Importers : Importing(p) \/ Expire(p)
  BY <1>4, OthersHistory
<1>5. CASE \E p \in Processes : Kill(p)
  BY <1>5, Basics, OthersHistory, HookHistory
<1>6. CASE UNCHANGED vars
  BY <1>6, OthersHistory
<1> QED BY <1>1, <1>2, <1>3, <1>4, <1>5, <1>6 DEF Next

LEMMA HistoryInit == Init => History
  BY Basics DEF Init, History, OnlyLast, HookRun, Chained, Paged, Idle

LEMMA AlwaysHistory == Spec => [](IInv /\ History)
  BY InitInv, Inductive, HistoryInit, HistoryNext, PTL DEF Spec

-----------------------------------------------------------------------------
(* The pages from a run on back.  Where each page names an earlier run there
   is one function with the equation of Pages, and Pages is it.             *)

Backwards == \A r \in Runs : index[r] # None => index[r].prev \in 0 .. (r - 1)
PagesBy(f, r) == IF r = 0 THEN {} ELSE {r} \cup IF index[r] = None THEN {} ELSE f[index[r].prev]

LEMMA PagesUpTo ==
    ASSUME Backwards, NEW n \in 0 .. MaxRuns
    PROVE  \E f : \A r \in 0 .. n : f[r] = PagesBy(f, r)
<1> DEFINE Some(k) == \E f : \A r \in 0 .. k : f[r] = PagesBy(f, r)
           Bad == {k \in 0 .. MaxRuns : ~Some(k)}
<1>1. MaxRuns \in Nat
  BY Basics
<1>2. Some(0)
  <2>1. PICK f : f = [r \in {0} |-> {}]
    OBVIOUS
  <2>2. \A r \in 0 .. 0 : f[r] = PagesBy(f, r)
    BY <2>1 DEF PagesBy
  <2> QED BY <2>2
<1>3. ASSUME NEW k \in Nat, k + 1 <= MaxRuns, Some(k)
      PROVE  Some(k + 1)
  <2>1. PICK f : \A r \in 0 .. k : f[r] = PagesBy(f, r)
    BY <1>3
  <2>2. PICK g : g = [r \in 0 .. (k + 1) |-> IF r = k + 1 THEN PagesBy(f, r) ELSE f[r]]
    OBVIOUS
  <2>3. \A r \in 0 .. k : g[r] = f[r]
    BY <2>2
  <2>4. \A r \in 1 .. (k + 1) : index[r] # None => index[r].prev \in 0 .. k
    BY <1>1, <1>3 DEF Backwards, Runs
  <2>5. \A r \in 0 .. (k + 1) : PagesBy(g, r) = PagesBy(f, r)
    BY <2>3, <2>4 DEF PagesBy
  <2>6. \A r \in 0 .. (k + 1) : g[r] = PagesBy(g, r)
    BY <2>1, <2>2, <2>5
  <2> QED BY <2>6
<1> HIDE DEF Some
<1>4. Bad = {}
  <2> SUFFICES ASSUME Bad # {} PROVE FALSE
    OBVIOUS
  <2>1. Bad \subseteq Nat
    BY <1>1
  <2>2. PICK k \in Bad : \A y \in Bad : k <= y
    <3> HIDE DEF Bad
    <3> QED BY <2>1, MinOfNat
  <2>3. k # 0 /\ k \in Nat /\ k <= MaxRuns
    BY <1>1, <1>2
  <2>4. k - 1 \in Nat /\ k - 1 \in 0 .. MaxRuns /\ k - 1 \notin Bad /\ k - 1 + 1 = k
    BY <1>1, <2>2, <2>3
  <2>5. Some(k - 1 + 1)
    BY <1>3, <2>3, <2>4
  <2> QED BY <2>2, <2>4, <2>5
<1> QED BY <1>4 DEF Some

LEMMA PagesAre ==
    ASSUME Backwards, NEW r \in 0 .. MaxRuns
    PROVE  Pages[r] = PagesBy(Pages, r)
<1>1. MaxRuns \in Nat /\ MaxRuns \in 0 .. MaxRuns
  BY Basics
<1>2. PICK f : \A k \in 0 .. MaxRuns : f[k] = PagesBy(f, k)
  BY <1>1, PagesUpTo
<1>3. PICK h : h = [k \in 0 .. MaxRuns |-> f[k]]
  OBVIOUS
<1>4. \A k \in 0 .. MaxRuns : k # 0 /\ index[k] # None => index[k].prev \in 0 .. MaxRuns
  BY <1>1 DEF Backwards, Runs
<1>5. \A k \in 0 .. MaxRuns : PagesBy(h, k) = PagesBy(f, k)
  BY <1>3, <1>4 DEF PagesBy
<1>6. h = [k \in 0 .. MaxRuns |-> PagesBy(h, k)]
  BY <1>2, <1>3, <1>5
<1>7. Pages = [k \in 0 .. MaxRuns |-> PagesBy(Pages, k)]
  BY <1>6 DEF Pages, PagesBy
<1> QED BY <1>7

LEMMA HistoryBackwards ==
    ASSUME IInv, History
    PROVE  /\ Backwards
           /\ \A r \in DOMAIN runs : runs[r].prepared => /\ index[r] = PageOf(r) /\ r \in Runs /\ r \in 0 .. MaxRuns
                                                         /\ r \in Pages[r]
                                                         /\ Pages[runs[r].prev] \subseteq Pages[r]
                                                         /\ Pages[r] = {r} \cup Pages[runs[r].prev]
<1>1. /\ MaxRuns \in Nat /\ DOMAIN runs = 1 .. Last /\ Last \in 0 .. MaxRuns
      /\ \A r \in DOMAIN runs : r \in Runs /\ runs[r] \in Run
  BY RunsTyped, Basics DEF IInv
<1>2. \A r \in DOMAIN runs : PageOf(r).prev = runs[r].prev /\ runs[r].prev < r /\ runs[r].prev \in 0 .. MaxRuns
  BY <1>1 DEF History, Chained, PageOf, Run
<1>3. Backwards
  BY <1>1, <1>2 DEF Backwards, History, Paged, Runs
<1>4. ASSUME NEW r \in DOMAIN runs, runs[r].prepared
      PROVE  /\ index[r] = PageOf(r) /\ r \in Runs /\ r \in 0 .. MaxRuns /\ Pages[r] = {r} \cup Pages[runs[r].prev]
  <2>1. index[r] = PageOf(r) /\ index[r] # None /\ r \in Runs
    BY <1>1, <1>4 DEF History, Paged
  <2>2. r \in 0 .. MaxRuns /\ r # 0
    BY <1>1, <2>1 DEF Runs
  <2>3. Pages[r] = PagesBy(Pages, r)
    BY <1>3, <2>2, PagesAre
  <2> QED BY <1>2, <2>1, <2>2, <2>3 DEF PagesBy
<1> QED BY <1>3, <1>4

-----------------------------------------------------------------------------
(* Nothing an agent has got is forgotten.  No run is prepared between a run  *)
(* and the one it continues, so the pages lead through every prepared run,  *)
(* and each is followed by one that names what it was delivered.            *)

LEMMA PreparedPages ==
    ASSUME IInv, History, NEW r \in DOMAIN runs, runs[r].prepared
    PROVE  \A s \in DOMAIN runs : runs[s].prepared /\ s <= r => s \in Pages[r]
<1> DEFINE Missed(k) == \E s \in DOMAIN runs : runs[s].prepared /\ s <= k /\ s \notin Pages[k]
           Bad == {k \in DOMAIN runs : runs[k].prepared /\ Missed(k)}
<1>1. /\ DOMAIN runs = 1 .. Last /\ Last \in 0 .. MaxRuns /\ MaxRuns \in Nat
      /\ \A k \in DOMAIN runs : runs[k] \in Run /\ k \in Nat /\ k # 0
  BY RunsTyped, Basics DEF IInv
<1>2. Bad = {}
  <2> SUFFICES ASSUME Bad # {} PROVE FALSE
    OBVIOUS
  <2>1. PICK k \in Bad : \A y \in Bad : k <= y
    <3>1. Bad \subseteq Nat
      BY <1>1
    <3> HIDE DEF Bad
    <3> QED BY <3>1, MinOfNat
  <2>2. k \in DOMAIN runs /\ runs[k].prepared
    BY <2>1
  <2>3. PICK s \in DOMAIN runs : runs[s].prepared /\ s <= k /\ s \notin Pages[k]
    BY <2>1
  <2>4. PICK p \in 0 .. MaxRuns : p = runs[k].prev
    BY <1>1, <2>2 DEF Run
  <2>5. p < k /\ (p # 0 => runs[p].prepared) /\ \A t \in DOMAIN runs : p < t /\ t < k => ~runs[t].prepared
    BY <2>2, <2>4 DEF History, Chained
  <2>6. k \in Pages[k] /\ Pages[p] \subseteq Pages[k]
    BY <2>2, <2>4, HistoryBackwards
  <2>7. s # k
    BY <2>3, <2>6
  <2>8. s <= p
    BY <1>1, <2>2, <2>3, <2>5, <2>7
  <2>9. p \in DOMAIN runs /\ runs[p].prepared
    BY <1>1, <2>2, <2>5, <2>8
  <2>10. s \notin Pages[p]
    BY <2>3, <2>6
  <2>11. p \in Bad
    BY <2>3, <2>8, <2>9, <2>10
  <2> QED BY <1>1, <2>1, <2>2, <2>5, <2>9, <2>11
<1> QED BY <1>2

LEMMA ContinuedBy ==
    ASSUME IInv, History, NEW s \in DOMAIN runs, NEW r \in DOMAIN runs, runs[s].prepared, runs[r].prepared, s < r
    PROVE  \E t \in DOMAIN runs : runs[t].prepared /\ t <= r /\ runs[t].prev = s
<1> DEFINE later == {t \in DOMAIN runs : runs[t].prepared /\ s < t}
<1>1. /\ DOMAIN runs = 1 .. Last /\ Last \in 0 .. MaxRuns /\ MaxRuns \in Nat
      /\ \A k \in DOMAIN runs : runs[k] \in Run /\ k \in Nat /\ k # 0
  BY RunsTyped, Basics DEF IInv
<1>2. PICK t \in later : \A y \in later : t <= y
  <2>1. later \subseteq Nat /\ later # {}
    BY <1>1
  <2> HIDE DEF later
  <2> QED BY <2>1, MinOfNat
<1>3. PICK p \in 0 .. MaxRuns : p = runs[t].prev
  BY <1>1 DEF Run
<1>4. p < t /\ (p # 0 => runs[p].prepared) /\ \A k \in DOMAIN runs : p < k /\ k < t => ~runs[k].prepared
  BY <1>3 DEF History, Chained
<1>5. ~(p < s)
  BY <1>4
<1>6. ~(s < p)
  <2> SUFFICES ASSUME s < p PROVE FALSE
    OBVIOUS
  <2>1. p \in DOMAIN runs /\ runs[p].prepared
    BY <1>1, <1>4
  <2>2. p \in later
    BY <2>1
  <2> QED BY <1>1, <1>2, <1>4, <2>2
<1>7. p = s
  BY <1>1, <1>5, <1>6
<1> QED BY <1>2, <1>3, <1>7

LEMMA Unforgotten == IInv /\ History => NothingForgotten
<1> SUFFICES ASSUME IInv, History, NEW r, r = LastPrepared, NEW s \in 1 .. r, runs[s].prepared
             PROVE  /\ runs[s].anchor \in Covered(r)
                    /\ s < r => \A m \in DOMAIN messages :
                           messages[m].run = s /\ messages[m].delivery = "delivered" => messages[m].anchor \in Covered(r)
  BY DEF NothingForgotten
<1>1. /\ r \in 0 .. MaxRuns /\ r <= Last /\ (r # 0 => r \in DOMAIN runs /\ runs[r].prepared)
      /\ DOMAIN runs = 1 .. Last /\ Last \in 0 .. MaxRuns /\ MaxRuns \in Nat
  BY LastPreparedIs, RunsTyped, Basics DEF IInv
<1>2. r \in DOMAIN runs /\ runs[r].prepared /\ s \in DOMAIN runs /\ s <= r
  BY <1>1
<1>3. \A t \in DOMAIN runs : runs[t].prepared /\ t <= r => index[t].batches \subseteq Covered(r)
  BY <1>2, PreparedPages DEF Covered
<1>4. \A t \in DOMAIN runs : runs[t].prepared => index[t].batches = runs[t].delivered \cup {runs[t].anchor}
  <2>1. \A t \in DOMAIN runs : runs[t].prepared => index[t] = PageOf(t)
    BY HistoryBackwards
  <2>2. \A t \in DOMAIN runs : PageOf(t).batches = runs[t].delivered \cup {runs[t].anchor}
    BY DEF PageOf
  <2> QED BY <2>1, <2>2
<1>5. runs[s].anchor \in Covered(r)
  BY <1>2, <1>3, <1>4
<1>6. ASSUME s < r, NEW m \in DOMAIN messages, messages[m].run = s, messages[m].delivery = "delivered"
      PROVE  messages[m].anchor \in Covered(r)
  <2>1. PICK t \in DOMAIN runs : runs[t].prepared /\ t <= r /\ runs[t].prev = s
    BY <1>2, <1>6, ContinuedBy
  <2>2. runs[t].delivered = DeliveredTo(s)
    BY <2>1 DEF History, Chained
  <2>3. messages[m].anchor \in DeliveredTo(s)
    BY <1>6 DEF DeliveredTo
  <2> QED BY <1>3, <1>4, <2>1, <2>2, <2>3
<1> QED BY <1>5, <1>6

(* The index of a run leads to every batch an agent of the session has got,
   past runs whose preparation failed or was killed (engine.go:510-538).    *)
THEOREM Remembers == Spec => []NothingForgotten
  BY AlwaysHistory, Unforgotten, PTL

-----------------------------------------------------------------------------
(* An index is refused only over damage.  As long as there is none, the      *)
(* batches of every page that was written stay committed.                   *)

LEMMA NoPages == Backwards => Pages[0] = {}
<1> SUFFICES ASSUME Backwards PROVE Pages[0] = {}
  OBVIOUS
<1>1. 0 \in 0 .. MaxRuns
  BY Basics
<1>2. Pages[0] = PagesBy(Pages, 0)
  BY <1>1, PagesAre
<1> QED BY <1>2 DEF PagesBy

LEMMA PagesPrepared ==
    ASSUME IInv, History, NEW r \in DOMAIN runs, runs[r].prepared
    PROVE  \A s \in Pages[r] : s \in DOMAIN runs /\ runs[s].prepared
<1> DEFINE Bad == {k \in DOMAIN runs : runs[k].prepared /\ \E s \in Pages[k] : ~(s \in DOMAIN runs /\ runs[s].prepared)}
<1>1. /\ DOMAIN runs = 1 .. Last /\ Last \in 0 .. MaxRuns /\ MaxRuns \in Nat
      /\ \A k \in DOMAIN runs : runs[k] \in Run /\ k \in Nat /\ k # 0
  BY RunsTyped, Basics DEF IInv
<1>2. Bad = {}
  <2> SUFFICES ASSUME Bad # {} PROVE FALSE
    OBVIOUS
  <2>1. PICK k \in Bad : \A y \in Bad : k <= y
    <3>1. Bad \subseteq Nat
      BY <1>1
    <3> HIDE DEF Bad
    <3> QED BY <3>1, MinOfNat
  <2>2. k \in DOMAIN runs /\ runs[k].prepared
    BY <2>1
  <2>3. PICK s \in Pages[k] : ~(s \in DOMAIN runs /\ runs[s].prepared)
    BY <2>1
  <2>4. PICK p \in 0 .. MaxRuns : p = runs[k].prev
    BY <1>1, <2>2 DEF Run
  <2>5. p < k /\ (p # 0 => runs[p].prepared)
    BY <2>2, <2>4 DEF History, Chained
  <2>6. Pages[k] = {k} \cup Pages[p]
    BY <2>2, <2>4, HistoryBackwards
  <2>7. s \in Pages[p]
    BY <2>2, <2>3, <2>6
  <2>8. p # 0
    <3>1. Pages[0] = {}
      BY HistoryBackwards, NoPages
    <3> QED BY <2>7, <3>1
  <2>9. p \in DOMAIN runs /\ runs[p].prepared
    BY <1>1, <2>2, <2>5, <2>8
  <2>10. p \in Bad
    BY <2>3, <2>7, <2>9
  <2> QED BY <1>1, <2>1, <2>2, <2>5, <2>9, <2>10
<1> QED BY <1>2

AtIndex == {"index", "page", "current", "exit"}
Manifested ==
    damage = 0 =>
        /\ \A r \in DOMAIN runs : index[r] # None => manifest[runs[r].anchor] # None
        /\ procs[Hook].pc \in AtIndex => manifest[procs[Hook].anchor] # None

LEMMA Accepts ==
    ASSUME IInv, History, Manifested, damage = 0, procs[Hook].pc = "index"
    PROVE  Acceptable
<1>1. /\ DOMAIN runs = 1 .. Last /\ Last \in DOMAIN runs /\ Last \in Nat
      /\ \A r \in DOMAIN runs : runs[r] \in Run /\ runs[r].anchor \in Anchors
      /\ \A m \in DOMAIN messages : messages[m].anchor \in Anchors
  BY RunsTyped, Basics DEF IInv, HookRuns, Run, Message
<1>2. \A a \in Anchors : manifest[a] # None => Verified(a)
  BY DEF IInv, ManifestBacked, Verified
<1>3. \A s, a : a \in DeliveredTo(s) => Verified(a)
  BY <1>1, <1>2 DEF DeliveredTo, IInv, CommittedBeforeSent
<1>4. \A r \in DOMAIN runs : \A a \in runs[r].delivered : Verified(a)
  BY <1>3 DEF History, Chained
<1>5. Verified(runs[Last].anchor)
  BY <1>1, <1>2 DEF Manifested, History, HookRun, AtIndex
<1>6. ASSUME NEW s \in DOMAIN runs, runs[s].prepared
      PROVE  index[s] # None /\ \A a \in index[s].batches : Verified(a)
  <2>1. index[s] = PageOf(s) /\ index[s] # None
    BY <1>6, HistoryBackwards DEF History, Paged
  <2>2. Verified(runs[s].anchor)
    BY <1>1, <1>2, <2>1 DEF Manifested
  <2>3. PageOf(s).batches = runs[s].delivered \cup {runs[s].anchor}
    BY DEF PageOf
  <2> QED BY <1>4, <2>1, <2>2, <2>3
<1>7. PICK p \in 0 .. MaxRuns : p = runs[Last].prev
  BY <1>1 DEF Run
<1>8. Complete(p)
  <2>1. CASE p = 0
    <3>1. Pages[0] = {}
      BY HistoryBackwards, NoPages
    <3> QED BY <2>1, <3>1 DEF Complete
  <2>2. CASE p # 0
    <3>1. p < Last /\ runs[p].prepared
      BY <1>1, <1>7, <2>2 DEF History, Chained
    <3>2. p \in DOMAIN runs
      BY <1>1, <2>2, <3>1
    <3>3. \A s \in Pages[p] : s \in DOMAIN runs /\ runs[s].prepared
      BY <3>1, <3>2, PagesPrepared
    <3> QED BY <1>6, <3>3 DEF Complete
  <2> QED BY <2>1, <2>2
<1>9. NewPage.prev = p /\ NewPage.batches = runs[Last].delivered \cup {runs[Last].anchor}
  BY <1>7 DEF NewPage
<1> QED BY <1>1, <1>4, <1>5, <1>8, <1>9 DEF Acceptable

(* Manifests go only by damage, pages are written only for the last run, and
   every new manifest or page is as said.                                   *)
LEMMA ManifestedKept ==
    ASSUME IInv, History, Manifested, UNCHANGED damage, DOMAIN runs' = DOMAIN runs,
           \A a \in Anchors : manifest[a] # None => manifest'[a] # None,
           \A r \in DOMAIN runs : runs'[r].anchor = runs[r].anchor,
           \A r \in DOMAIN runs : index'[r] # None => index[r] # None \/ (r = Last /\ procs[Hook].pc \in AtIndex),
           procs'[Hook].pc \in AtIndex => \/ procs[Hook].pc \in AtIndex /\ procs'[Hook].anchor = procs[Hook].anchor
                                          \/ manifest'[procs'[Hook].anchor] # None
    PROVE  Manifested'
<1>1. \A r \in DOMAIN runs : runs[r].anchor \in Anchors
  BY RunsTyped DEF IInv, Run
<1>2. procs[Hook].anchor \in Anchors
  BY Typed, Basics DEF IInv
<1>3. ASSUME damage = 0, NEW r \in DOMAIN runs, index'[r] # None
      PROVE  manifest'[runs[r].anchor] # None
  BY <1>1, <1>2, <1>3 DEF Manifested, History, HookRun, AtIndex
<1> QED BY <1>2, <1>3 DEF Manifested

(* A new manifest replaces none by none.                                    *)
LEMMA ManifestAdded ==
    ASSUME IInv, NEW p \in Processes, manifest' = [manifest EXCEPT ![procs[p].anchor] = ManifestOf(p)]
    PROVE  /\ manifest'[procs[p].anchor] = ManifestOf(p) /\ ManifestOf(p) # None
           /\ \A a \in Anchors : manifest[a] # None => manifest'[a] # None
<1>1. /\ procs[p].anchor \in Anchors /\ procs[p].want \subseteq Files /\ procs[p].ready \subseteq Files
  BY Typed DEF IInv
<1>2. ManifestOf(p) # None
  BY <1>1, NoneAssumption DEF ManifestOf, Manifest
<1> QED BY <1>1, <1>2 DEF IInv, TypeOK

(* Steps that leave the pages alone and do not bring the hook to them.      *)
LEMMA ManifestedStill ==
    ASSUME IInv, History, Manifested, UNCHANGED <<damage, index>>, manifest' = manifest,
           DOMAIN runs' = DOMAIN runs, \A r \in DOMAIN runs : runs'[r].anchor = runs[r].anchor,
           procs'[Hook].pc \in AtIndex => procs[Hook].pc \in AtIndex /\ procs'[Hook].anchor = procs[Hook].anchor
    PROVE  Manifested'
  BY ManifestedKept

LEMMA RunsTouched ==
    ASSUME IInv, History, (\E how \in {"completed", "failed"} : EndRun(how)) \/ HookDone
                          \/ \E why \in {"conflict", "killed"} : HookFails(why)
    PROVE  /\ DOMAIN runs' = DOMAIN runs
           /\ \A r \in DOMAIN runs : runs'[r].anchor = runs[r].anchor /\ runs'[r].why \in {runs[r].why, "conflict", "killed"}
<1>1. \A r \in DOMAIN runs : runs[r] \in Run
  BY RunsTyped DEF IInv
<1>2. CASE \E how \in {"completed", "failed"} : EndRun(how)
  BY <1>1, <1>2 DEF EndRun, Run
<1>3. CASE HookDone
  BY <1>1, <1>3 DEF HookDone, Run
<1>4. CASE \E why \in {"conflict", "killed"} : HookFails(why)
  BY <1>1, <1>4 DEF HookFails, Run
<1> QED BY <1>2, <1>3, <1>4

Explained == Manifested /\ RefusalExplained

LEMMA RefusalKept ==
    ASSUME RefusalExplained, damage <= damage', DOMAIN runs' = DOMAIN runs, damage \in Nat, damage' \in Nat,
           \A r \in DOMAIN runs : runs'[r].why \in {runs[r].why, "conflict", "killed"}
    PROVE  RefusalExplained'
  BY DEF RefusalExplained

LEMMA DamageTyped == TypeOK => damage \in Nat
  BY Basics DEF TypeOK

LEMMA OthersExplained ==
    ASSUME IInv, History, Explained,
           \/ \E a \in Anchors : \E w \in SUBSET Files : Freeze(a, w)
           \/ \E p \in Importers : StartImport(p) \/ Importing(p) \/ Expire(p) \/ Kill(p)
           \/ Submit \/ RunGone \/ GiveUp \/ Restart
           \/ (\E m \in DOMAIN messages : Deliver(m)) \/ \E how \in {"completed", "failed"} : EndRun(how)
           \/ UNCHANGED vars
    PROVE  Explained'
<1>0. damage \in Nat
  BY DamageTyped DEF IInv
<1>1. CASE \E a \in Anchors : \E w \in SUBSET Files : Freeze(a, w)
  <2>1. UNCHANGED <<runs, index, manifest, procs, damage>>
    BY <1>1 DEF Freeze, orpheus, runFiles, batchFiles, bounds
  <2> QED BY <1>0, <2>1, ManifestedStill, RefusalKept DEF Explained
<1>2. ASSUME NEW p \in Importers, StartImport(p) \/ Expire(p) \/ Kill(p)
      PROVE  Explained'
  <2>1. UNCHANGED <<runs, index, manifest, damage>> /\ procs'[Hook] = procs[Hook]
    BY <1>2, Basics DEF StartImport, Expire, Kill, Stop, Fault, orpheus, runFiles, batchFiles, bounds, IInv, TypeOK
  <2> QED BY <1>0, <2>1, ManifestedStill, RefusalKept DEF Explained
<1>3. ASSUME NEW p \in Importers, Importing(p), ~ImportManifest(p)
      PROVE  Explained'
  <2>1. UNCHANGED <<runs, index, manifest, damage>> /\ procs'[Hook] = procs[Hook]
    <3>1. CASE ImportOpens(p) \/ Conflict(p) \/ SaveCache(p) \/ (\E f \in Files : SaveData(p, f) \/ Unavailable(p, f))
      BY <3>1, Basics DEF ImportOpens, Conflict, SaveCache, SaveData, Unavailable, Stop, Go, Fault, orpheus, runFiles, batchFiles,
                          bounds, IInv, TypeOK
    <3>2. CASE ImportEnds(p) \/ ImportRequest(p) \/ ImportDone(p)
      BY <3>2, Basics DEF ImportEnds, ImportRequest, ImportDone, Stop, Go, orpheus, runFiles, batchFiles, bounds, IInv, TypeOK
    <3> QED BY <1>3, <3>1, <3>2 DEF Importing
  <2> QED BY <1>0, <2>1, ManifestedStill, RefusalKept DEF Explained
<1>4. ASSUME NEW p \in Importers, ImportManifest(p)
      PROVE  Explained'
  <2>1. UNCHANGED <<runs, index, damage>> /\ procs'[Hook] = procs[Hook]
        /\ manifest' = [manifest EXCEPT ![procs[p].anchor] = ManifestOf(p)]
    BY <1>4, Basics DEF ImportManifest, Go, orpheus, runFiles, bounds, IInv, TypeOK
  <2>2. \A a \in Anchors : manifest[a] # None => manifest'[a] # None
    BY <2>1, ManifestAdded, Basics
  <2>3. Manifested'
    BY <2>1, <2>2, ManifestedKept DEF Explained
  <2> QED BY <1>0, <2>1, <2>3, RefusalKept DEF Explained
<1>5. CASE Submit \/ RunGone \/ \E m \in DOMAIN messages : Deliver(m)
  <2>1. UNCHANGED <<runs, index, manifest, procs, damage>>
    BY <1>5 DEF Submit, RunGone, Deliver, orpheus, runFiles, batchFiles, bounds
  <2> QED BY <1>0, <2>1, ManifestedStill, RefusalKept DEF Explained
<1>6. CASE GiveUp \/ Restart
  <2>1. UNCHANGED <<runs, index, manifest, damage>> /\ procs'[Hook] = procs[Hook]
    BY <1>6, Basics DEF GiveUp, Restart, Detached, Fault, orpheus, runFiles, batchFiles, IInv, TypeOK
  <2> QED BY <1>0, <2>1, ManifestedStill, RefusalKept DEF Explained
<1>7. CASE \E how \in {"completed", "failed"} : EndRun(how)
  <2>1. UNCHANGED <<index, manifest, procs, damage>>
    BY <1>7 DEF EndRun, runFiles, batchFiles, bounds
  <2> QED BY <1>0, <1>7, <2>1, RunsTouched, ManifestedStill, RefusalKept DEF Explained
<1>8. CASE UNCHANGED vars
  <2>1. UNCHANGED <<runs, index, manifest, procs, damage>>
    BY <1>8 DEF vars, orpheus, runFiles, batchFiles, bounds
  <2> QED BY <1>0, <2>1, ManifestedStill, RefusalKept DEF Explained
<1> QED BY <1>1, <1>2, <1>3, <1>4, <1>5, <1>6, <1>7, <1>8

LEMMA HookExplained ==
    ASSUME IInv, History, Explained, Preparing \/ Kill(Hook)
    PROVE  Explained'
<1>0. procs \in [Processes -> Process] /\ Hook \in Processes /\ procs[Hook] \in Process /\ damage \in Nat
      /\ damage' = damage
  <2>1. damage' = damage
    <3>1. CASE HookOpens \/ Conflict(Hook) \/ SaveCache(Hook) \/ \E f \in Files : Keep(f) \/ SaveData(Hook, f) \/ Unavailable(Hook, f)
      BY <3>1 DEF HookOpens, Conflict, SaveCache, Keep, SaveData, Unavailable, Fault, bounds
    <3>2. CASE HookManifest \/ VerifyIndex \/ RefuseIndex \/ WriteIndex \/ WriteCurrent \/ HookDone \/ Kill(Hook)
      BY <3>2 DEF HookManifest, VerifyIndex, RefuseIndex, WriteIndex, WriteCurrent, HookDone, Kill, Fault, bounds
    <3> QED BY <3>1, <3>2 DEF Preparing
  <2> QED BY <2>1, Typed, Basics, DamageTyped DEF IInv, TypeOK
<1>1. CASE HookOpens \/ SaveCache(Hook) \/ \E f \in Files : Keep(f) \/ SaveData(Hook, f) \/ Unavailable(Hook, f)
  <2>1. UNCHANGED <<runs, index, manifest>>
    BY <1>1 DEF HookOpens, SaveCache, Keep, SaveData, Unavailable, orpheus, runFiles, batchFiles
  <2>2. procs'[Hook].pc \in {"files", "save"}
    <3>1. CASE HookOpens
      BY <1>0, <3>1 DEF HookOpens, Go
    <3>2. CASE SaveCache(Hook)
      BY <1>0, <3>2 DEF SaveCache, Process
    <3>3. ASSUME NEW f \in Files, Keep(f) \/ SaveData(Hook, f) \/ Unavailable(Hook, f)
          PROVE  procs'[Hook].pc \in {"files", "save"}
      BY <1>0, <3>3 DEF Keep, SaveData, Unavailable, At, Process
    <3> QED BY <1>1, <3>1, <3>2, <3>3
  <2> QED BY <1>0, <2>1, <2>2, ManifestedStill, RefusalKept DEF Explained, AtIndex
<1>2. CASE HookManifest
  <2>1. /\ UNCHANGED <<runs, index>> /\ Go(Hook, "index")
        /\ manifest' = [manifest EXCEPT ![procs[Hook].anchor] = ManifestOf(Hook)]
    BY <1>2 DEF HookManifest, orpheus, runFiles
  <2>2. procs'[Hook].anchor = procs[Hook].anchor
    BY <1>0, <2>1, GoTyped DEF Steps
  <2>3. manifest'[procs'[Hook].anchor] # None /\ \A a \in Anchors : manifest[a] # None => manifest'[a] # None
    BY <1>0, <2>1, <2>2, ManifestAdded
  <2>4. Manifested'
    BY <1>0, <2>1, <2>3, ManifestedKept DEF Explained
  <2> QED BY <1>0, <2>1, <2>4, RefusalKept DEF Explained
<1>3. CASE VerifyIndex \/ WriteIndex \/ WriteCurrent
  <2>1. /\ UNCHANGED <<runs, manifest>> /\ procs[Hook].pc \in AtIndex
        /\ \E pc \in {"page", "current", "exit"} : Go(Hook, pc)
        /\ \A r \in DOMAIN runs : r # Last => index'[r] = index[r]
    <3>1. \A r \in DOMAIN runs : r \in Runs
      BY RunsTyped DEF IInv
    <3> QED BY <1>3, <3>1 DEF VerifyIndex, WriteIndex, WriteCurrent, orpheus, runFiles, batchFiles, AtIndex, IInv, TypeOK
  <2>2. procs'[Hook].anchor = procs[Hook].anchor
    BY <1>0, <2>1, GoTyped DEF Steps
  <2>3. Manifested'
    BY <1>0, <2>1, <2>2, ManifestedKept DEF Explained
  <2> QED BY <1>0, <2>1, <2>3, RefusalKept DEF Explained
<1>4. CASE Conflict(Hook) \/ HookDone \/ Kill(Hook)
  <2>1. UNCHANGED <<index, manifest>> /\ Stop(Hook) /\ (HookDone \/ \E why \in {"conflict", "killed"} : HookFails(why))
    BY <1>4 DEF Conflict, HookDone, Kill, runFiles, batchFiles
  <2>2. procs'[Hook].pc \notin AtIndex
    BY <1>0, <2>1, StopTyped DEF Idle, AtIndex
  <2> QED BY <1>0, <2>1, <2>2, RunsTouched, ManifestedStill, RefusalKept DEF Explained
<1>5. CASE RefuseIndex
  <2>1. /\ UNCHANGED <<index, manifest>> /\ Stop(Hook) /\ HookFails("index") /\ procs[Hook].pc = "index" /\ ~Acceptable
    BY <1>5 DEF RefuseIndex, runFiles, batchFiles
  <2>2. damage > 0
    BY <1>0, <2>1, Accepts DEF Explained
  <2>3. DOMAIN runs' = DOMAIN runs /\ \A r \in DOMAIN runs : runs'[r].anchor = runs[r].anchor
    <3>1. \A r \in DOMAIN runs : runs[r] \in Run
      BY RunsTyped DEF IInv
    <3> QED BY <2>1, <3>1 DEF HookFails, Run
  <2>4. procs'[Hook].pc \notin AtIndex
    BY <1>0, <2>1, StopTyped DEF Idle, AtIndex
  <2> QED BY <1>0, <2>1, <2>2, <2>3, <2>4, ManifestedStill DEF Explained, RefusalExplained
<1> QED BY <1>1, <1>2, <1>3, <1>4, <1>5 DEF Preparing

LEMMA DamageExplained ==
    ASSUME IInv, RefusalExplained, (\E f \in Files : DamageFile(f)) \/ (\E a \in Anchors : DamageManifest(a))
    PROVE  Explained'
<1>1. UNCHANGED runs /\ damage' = damage + 1
  BY DEF DamageFile, DamageManifest, Damage, orpheus
<1>2. damage \in Nat
  BY DamageTyped DEF IInv
<1>3. damage' > 0
  BY <1>1, <1>2
<1>4. damage' # 0
  BY <1>1, <1>2
<1> QED BY <1>3, <1>4 DEF Explained, Manifested, RefusalExplained

LEMMA StartExplained ==
    ASSUME IInv, History, Explained, NEW a \in Anchors, NEW w \in SUBSET Files, StartRun(a, w)
    PROVE  Explained'
<1> DEFINE new == [anchor |-> a, want |-> w, prev |-> LastPrepared,
                   delivered |-> DeliveredTo(LastPrepared), status |-> "starting",
                   prepared |-> FALSE, why |-> "ok"]
           n == Last + 1
<1>1. /\ runs' = Append(runs, new) /\ procs' = [procs EXCEPT ![Hook] = Started(a, w)]
      /\ UNCHANGED <<index, manifest, damage>> /\ Last < MaxRuns
  BY DEF StartRun, runFiles, batchFiles, bounds
<1>2. DOMAIN runs = 1 .. Last /\ Last \in Nat /\ MaxRuns \in Nat
  BY RunsTyped, Basics DEF IInv
<1>3. new.why = "ok"
  OBVIOUS
<1> HIDE DEF new
<1>4. DOMAIN runs' = 1 .. n /\ runs'[n] = new /\ \A r \in DOMAIN runs : runs'[r] = runs[r]
  BY <1>1, <1>2 DEF IInv, TypeOK, Last
<1>5. \A r \in DOMAIN runs' : r = n \/ r \in DOMAIN runs
  BY <1>2, <1>4
<1>6. index[n] = None
  BY <1>1, <1>2 DEF History, Paged, Runs
<1>7. procs'[Hook].pc = "lock"
  BY <1>1, Basics DEF Started, Idle, IInv, TypeOK
<1>8. Manifested'
  BY <1>1, <1>4, <1>5, <1>6, <1>7 DEF Explained, Manifested, AtIndex
<1>9. RefusalExplained'
  BY <1>1, <1>3, <1>4, <1>5 DEF Explained, RefusalExplained
<1> QED BY <1>8, <1>9 DEF Explained

LEMMA ExplainedNext == IInv /\ History /\ Explained /\ [Next]_vars => Explained'
<1> SUFFICES ASSUME IInv, History, Explained, [Next]_vars PROVE Explained'
  OBVIOUS
<1>1. CASE Connector
  <2>1. \A a \in Anchors : \A w \in Drafts[a] \cup {messages[m].want : m \in DOMAIN messages} : w \in SUBSET Files
    BY RunsTyped, Basics DEF IInv, Message
  <2> QED BY <1>1, <2>1, StartExplained, OthersExplained DEF Connector
<1>2. CASE Environment
  BY <1>2, OthersExplained, DamageExplained DEF Environment, Explained
<1>3. CASE Preparing \/ \E p \in Importers : Importing(p) \/ Expire(p)
  BY <1>3, HookExplained, OthersExplained
<1>4. CASE \E p \in Processes : Kill(p)
  BY <1>4, Basics, HookExplained, OthersExplained
<1>5. CASE UNCHANGED vars
  BY <1>5, OthersExplained
<1> QED BY <1>1, <1>2, <1>3, <1>4, <1>5 DEF Next

LEMMA ExplainedInit == Init => Explained
  BY Basics DEF Init, Explained, Manifested, RefusalExplained, AtIndex, Idle

(* A preparation that failed or was killed anywhere fails no later one
   (engine.go:511-517): without damage an index is always accepted.         *)
THEOREM Refusals == Spec => []RefusalExplained
<1>1. IInv /\ History /\ Explained => RefusalExplained
  BY DEF Explained
<1> QED BY InitInv, Inductive, HistoryInit, HistoryNext, ExplainedInit, ExplainedNext, <1>1, PTL DEF Spec

-----------------------------------------------------------------------------
(* What is called ready has the bytes that were sent.  Files turn bad only   *)
(* while a run is running, and then no hook is; what an import that prepares *)
(* the hook's batch once more calls ready it has saved since.               *)

AtPage == procs[Hook].pc \in {"index", "page", "current"}
Good(p) ==
    /\ \A f \in procs[p].ready : data[f] = "good"
    /\ procs[p].pc = "save" => data[procs[p].file] = "good"
Intact ==
    /\ \A p \in Processes : procs[p].pc = "lock" => procs[p].ready = {}
    /\ procs[Hook].pc # "idle" => Good(Hook)
    /\ AtPage =>
          /\ manifest[procs[Hook].anchor] # None
          /\ \A f \in manifest[procs[Hook].anchor].ready : data[f] = "good"
          /\ \A q \in Importers : HoldsBatch(q, procs[Hook].anchor) => Good(q)

DataKept == \A f \in Files : data[f] = "good" => data'[f] = "good"

(* What a process may do: it ends or starts anew, or goes on with its batch,
   and what it now calls ready is good.                                     *)
Anew(p) == procs'[p].pc \in {"idle", "lock"} /\ procs'[p].ready = {}
GoesOn(p) ==
    /\ procs[p].pc # "idle" /\ procs'[p].pc \notin {"idle", "lock"} /\ procs'[p].anchor = procs[p].anchor
    /\ \A f \in procs'[p].ready : f \in procs[p].ready \/ data'[f] = "good" \/ (procs[p].pc = "save" /\ f = procs[p].file)
    /\ procs'[p].pc = "save" => data'[procs'[p].file] = "good"
    /\ procs'[p].pc \in {"files", "save", "request", "manifest"} => procs[p].pc \in {"lock", "files", "save", "request", "manifest"}
Unmoved(p) ==
    /\ procs'[p].pc = procs[p].pc /\ procs'[p].anchor = procs[p].anchor
    /\ procs'[p].ready = procs[p].ready /\ procs'[p].file = procs[p].file

LEMMA SaveTyped ==
    ASSUME IInv, NEW p \in Processes
    PROVE  procs[p].ready \subseteq Files /\ (procs[p].pc = "save" => procs[p].file \in Files)
<1>1. ProcessOK(p) /\ procs[p].want \subseteq Files
  BY Typed DEF IInv
<1> QED BY <1>1 DEF ProcessOK

LEMMA StaysGood ==
    ASSUME IInv, Intact, DataKept, NEW p \in Processes, Anew(p) \/ GoesOn(p) \/ Unmoved(p)
    PROVE  /\ procs'[p].pc = "lock" => procs'[p].ready = {}
           /\ Good(p) => Good(p)'
           /\ procs'[p].pc # "idle" => Good(p)' \/ procs[p].pc # "idle"
           /\ \A a : HoldsBatch(p, a)' => HoldsBatch(p, a) \/ Good(p)
<1>1. procs[p].ready \subseteq Files /\ (procs[p].pc = "save" => procs[p].file \in Files)
  BY SaveTyped
<1>2. procs[p].pc = "lock" => Good(p)
  BY DEF Intact, Good
<1>3. CASE Anew(p)
  BY <1>3 DEF Anew, Good, HoldsBatch
<1>4. CASE GoesOn(p)
  <2>1. Good(p) => Good(p)'
    BY <1>1, <1>4 DEF GoesOn, Good, DataKept
  <2>2. \A a : HoldsBatch(p, a)' => HoldsBatch(p, a) \/ Good(p)
    BY <1>2, <1>4 DEF GoesOn, HoldsBatch
  <2> QED BY <1>4, <2>1, <2>2 DEF GoesOn
<1>5. CASE Unmoved(p)
  <2>1. Good(p) => Good(p)'
    BY <1>1, <1>5 DEF Unmoved, Good, DataKept
  <2>2. \A a : HoldsBatch(p, a)' => HoldsBatch(p, a)
    BY <1>5 DEF Unmoved, HoldsBatch
  <2>3. procs'[p].pc = "lock" => procs'[p].ready = {}
    BY <1>5 DEF Unmoved, Intact
  <2> QED BY <1>5, <2>1, <2>2, <2>3 DEF Unmoved
<1> QED BY <1>3, <1>4, <1>5

LEMMA IntactKept ==
    ASSUME IInv, Intact, DataKept, manifest' = manifest,
           \A p \in Processes : Anew(p) \/ GoesOn(p) \/ Unmoved(p),
           AtPage' => AtPage
    PROVE  Intact'
<1>1. \A p \in Processes : /\ procs'[p].pc = "lock" => procs'[p].ready = {}
                           /\ Good(p) => Good(p)'
                           /\ procs'[p].pc # "idle" => Good(p)' \/ procs[p].pc # "idle"
                           /\ \A a : HoldsBatch(p, a)' => HoldsBatch(p, a) \/ Good(p)
  BY StaysGood
<1>2. procs'[Hook].pc # "idle" => Good(Hook)'
  BY <1>1, Basics DEF Intact
<1>3. ASSUME AtPage'
      PROVE  /\ manifest'[procs'[Hook].anchor] # None
             /\ \A f \in manifest'[procs'[Hook].anchor].ready : data'[f] = "good"
             /\ \A q \in Importers : HoldsBatch(q, procs[Hook].anchor)' => Good(q)'
  <2>1. AtPage /\ procs'[Hook].anchor = procs[Hook].anchor
    BY <1>3, Basics DEF AtPage, Anew, GoesOn, Unmoved
  <2>2. manifest[procs[Hook].anchor] \in Manifest
    BY <2>1, Typed, Basics DEF Intact, IInv, TypeOK
  <2>3. manifest[procs[Hook].anchor].ready \subseteq Files
    BY <2>2 DEF Manifest
  <2>4. \A q \in Importers : HoldsBatch(q, procs[Hook].anchor)' => HoldsBatch(q, procs[Hook].anchor) \/ Good(q)
    BY <1>1, <2>1, Basics DEF HoldsBatch
  <2> QED BY <1>1, <2>1, <2>3, <2>4, Basics DEF Intact, DataKept
<1> QED BY <1>1, <1>2, <1>3 DEF Intact

(* The steps of one process, but for the manifests and the pages.           *)
LEMMA FileSteps ==
    ASSUME IInv, NEW p \in Processes,
           (\E f \in Files : SaveData(p, f) \/ Unavailable(p, f)) \/ SaveCache(p)
           \/ (p = Hook /\ \E f \in Files : Keep(f))
    PROVE  /\ DataKept /\ manifest' = manifest /\ GoesOn(p) /\ procs'[p].pc \in {"files", "save"}
           /\ \A o \in Processes \ {p} : procs'[o] = procs[o]
<1>1. procs \in [Processes -> Process] /\ procs[p] \in Process /\ data \in [Files -> {"absent", "good", "bad"}]
  BY Typed DEF IInv, TypeOK
<1>2. ASSUME NEW f \in Files, SaveData(p, f)
      PROVE  DataKept /\ GoesOn(p) /\ procs'[p].pc = "save"
  <2>1. data' = [data EXCEPT ![f] = "good"] /\ procs' = [procs EXCEPT ![p].pc = "save", ![p].file = f]
        /\ procs[p].pc = "files"
    BY <1>2 DEF SaveData, At
  <2>2. procs'[p] = [procs[p] EXCEPT !.pc = "save", !.file = f]
    BY <1>1, <2>1
  <2>3. /\ procs'[p].pc = "save" /\ procs'[p].file = f /\ procs'[p].anchor = procs[p].anchor
        /\ procs'[p].ready = procs[p].ready
    BY <1>1, <2>2 DEF Process
  <2> QED BY <1>1, <2>1, <2>3 DEF DataKept, GoesOn
<1>3. ASSUME NEW f \in Files, Unavailable(p, f)
      PROVE  DataKept /\ GoesOn(p) /\ procs'[p].pc = "files"
  <2>1. UNCHANGED data /\ procs' = [procs EXCEPT ![p].left = @ \ {f}] /\ procs[p].pc = "files"
    BY <1>3 DEF Unavailable, At, inputFiles
  <2>2. procs'[p].pc = "files" /\ procs'[p].anchor = procs[p].anchor /\ procs'[p].ready = procs[p].ready
    BY <1>1, <2>1 DEF Process
  <2> QED BY <2>1, <2>2 DEF DataKept, GoesOn
<1>4. ASSUME SaveCache(p)
      PROVE  DataKept /\ GoesOn(p) /\ procs'[p].pc = "files"
  <2>1. /\ UNCHANGED data /\ procs[p].pc = "save"
        /\ procs' = [procs EXCEPT ![p].pc = "files", ![p].left = @ \ {procs[p].file},
                                  ![p].ready = @ \cup {procs[p].file}, ![p].file = 0]
    BY <1>4 DEF SaveCache
  <2>2. procs'[p] = [procs[p] EXCEPT !.pc = "files", !.left = @ \ {procs[p].file},
                                     !.ready = @ \cup {procs[p].file}, !.file = 0]
    BY <1>1, <2>1
  <2>3. /\ procs'[p].pc = "files" /\ procs'[p].anchor = procs[p].anchor
        /\ procs'[p].ready = procs[p].ready \cup {procs[p].file}
    BY <1>1, <2>2 DEF Process
  <2>4. \A f \in procs'[p].ready : f \in procs[p].ready \/ f = procs[p].file
    BY <2>3
  <2>5. GoesOn(p)
    BY <2>1, <2>3, <2>4 DEF GoesOn
  <2> QED BY <2>1, <2>3, <2>5 DEF DataKept
<1>5. ASSUME p = Hook, NEW f \in Files, Keep(f)
      PROVE  DataKept /\ GoesOn(p) /\ procs'[p].pc = "files"
  <2>1. /\ UNCHANGED data /\ procs[p].pc = "files" /\ data[f] = "good"
        /\ procs' = [procs EXCEPT ![p].left = @ \ {f}, ![p].ready = @ \cup {f}]
    BY <1>5 DEF Keep, At, Cached, inputFiles
  <2>2. procs'[p] = [procs[p] EXCEPT !.left = @ \ {f}, !.ready = @ \cup {f}]
    BY <1>1, <2>1
  <2>3. procs'[p].pc = "files" /\ procs'[p].anchor = procs[p].anchor /\ procs'[p].ready = procs[p].ready \cup {f}
    BY <1>1, <2>1, <2>2 DEF Process
  <2> QED BY <2>1, <2>3 DEF DataKept, GoesOn
<1>6. manifest' = manifest /\ \A o \in Processes \ {p} : procs'[o] = procs[o]
  BY <1>1 DEF SaveData, Unavailable, SaveCache, Keep, batchFiles
<1> QED BY <1>2, <1>3, <1>4, <1>5, <1>6

LEMMA GoSteps ==
    ASSUME IInv, NEW p \in Processes, NEW pc \in Steps \ {"idle", "lock", "save"}, Go(p, pc), procs[p].pc # "idle",
           pc \in {"files", "request", "manifest"} => procs[p].pc \in {"lock", "files", "save", "request", "manifest"}
    PROVE  GoesOn(p) /\ procs'[p].pc = pc /\ \A o \in Processes \ {p} : procs'[o] = procs[o]
  BY GoTyped DEF IInv, TypeOK, GoesOn

LEMMA EndSteps ==
    ASSUME IInv, NEW p \in Processes, Stop(p)
    PROVE  Anew(p) /\ procs'[p].pc = "idle" /\ \A o \in Processes \ {p} : procs'[o] = procs[o]
  BY StopTyped DEF IInv, TypeOK, Anew, Idle

LEMMA OneIntact ==
    ASSUME IInv, Intact, DataKept, manifest' = manifest, NEW p \in Processes, Anew(p) \/ GoesOn(p),
           \A o \in Processes \ {p} : procs'[o] = procs[o],
           p # Hook \/ AtPage \/ procs'[p].pc \notin {"index", "page", "current"}
    PROVE  Intact'
<1>1. \A o \in Processes \ {p} : Unmoved(o)
  BY DEF Unmoved
<1>2. AtPage' => AtPage
  BY Basics DEF AtPage
<1> QED BY <1>1, <1>2, IntactKept

(* The files that were ready when a manifest was written are good if they
   were when they were called so.                                           *)
LEMMA ImportManifestIntact ==
    ASSUME IInv, Intact, NEW p \in Importers, ImportManifest(p)
    PROVE  Intact'
<1> DEFINE a == procs[Hook].anchor
<1>1. p \in Processes /\ p # Hook /\ Hook \in Processes /\ procs[p].anchor \in Anchors /\ a \in Anchors
      /\ \A q \in Importers : q \in Processes
  BY Typed, Basics DEF IInv
<1>2. /\ procs[p].pc = "manifest" /\ Go(p, "exit") /\ UNCHANGED data
      /\ manifest' = [manifest EXCEPT ![procs[p].anchor] = ManifestOf(p)]
  BY DEF ImportManifest, inputFiles
<1>3. GoesOn(p) /\ procs'[p].pc = "exit" /\ \A o \in Processes \ {p} : procs'[o] = procs[o]
  BY <1>1, <1>2, GoSteps DEF Steps
<1>4. \A o \in Processes : Anew(o) \/ GoesOn(o) \/ Unmoved(o)
  BY <1>3 DEF Unmoved
<1>5. DataKept
  BY <1>2 DEF DataKept
<1>6. \A o \in Processes : /\ procs'[o].pc = "lock" => procs'[o].ready = {}
                           /\ Good(o) => Good(o)'
                           /\ \A b : HoldsBatch(o, b)' => HoldsBatch(o, b) \/ Good(o)
  BY <1>4, <1>5, StaysGood
<1>7. procs'[Hook] = procs[Hook]
  BY <1>1, <1>3
<1>8. ASSUME AtPage
      PROVE  /\ manifest'[a] # None /\ \A f \in manifest'[a].ready : data'[f] = "good"
             /\ \A q \in Importers : HoldsBatch(q, a)' => Good(q)'
  <2>1. CASE procs[p].anchor = a
    <3>1. Good(p)
      BY <1>2, <1>8, <2>1 DEF Intact, HoldsBatch
    <3>2. manifest'[a] = ManifestOf(p) /\ ManifestOf(p) # None /\ ManifestOf(p).ready = procs[p].ready
      BY <1>1, <1>2, <2>1, ManifestAdded DEF ManifestOf
    <3>3. \A q \in Importers : HoldsBatch(q, procs[Hook].anchor)' => Good(q)'
      BY <1>1, <1>6, <1>7, <1>8 DEF Intact, HoldsBatch
    <3> QED BY <1>2, <1>7, <3>1, <3>2, <3>3 DEF Good
  <2>2. CASE procs[p].anchor # a
    <3>1. manifest'[a] = manifest[a]
      BY <1>1, <1>2, <2>2 DEF IInv, TypeOK
    <3>2. \A q \in Importers : HoldsBatch(q, procs[Hook].anchor)' => Good(q)'
      BY <1>1, <1>6, <1>7, <1>8 DEF Intact, HoldsBatch
    <3> QED BY <1>2, <1>7, <1>8, <3>1, <3>2 DEF Intact
  <2> QED BY <2>1, <2>2
<1> QED BY <1>1, <1>6, <1>7, <1>8 DEF Intact, AtPage

LEMMA HookManifestIntact ==
    ASSUME IInv, Intact, HookManifest
    PROVE  Intact'
<1> DEFINE a == procs[Hook].anchor
<1>1. Hook \in Processes /\ a \in Anchors /\ \A q \in Importers : q \in Processes /\ q # Hook
  BY Typed, Basics DEF IInv
<1>2. /\ procs[Hook].pc = "files" /\ Go(Hook, "index") /\ UNCHANGED data
      /\ manifest' = [manifest EXCEPT ![procs[Hook].anchor] = ManifestOf(Hook)]
  BY DEF HookManifest, inputFiles
<1>3. GoesOn(Hook) /\ procs'[Hook].pc = "index" /\ \A o \in Processes \ {Hook} : procs'[o] = procs[o]
  BY <1>1, <1>2, GoSteps DEF Steps
<1>4. procs'[Hook].anchor = a /\ procs'[Hook].ready = procs[Hook].ready
  BY <1>1, <1>2, GoTyped DEF IInv, TypeOK, Steps
<1>5. Good(Hook)
  BY <1>2 DEF Intact
<1>6. manifest'[a] = ManifestOf(Hook) /\ ManifestOf(Hook) # None /\ ManifestOf(Hook).ready = procs[Hook].ready
  BY <1>1, <1>2, ManifestAdded DEF ManifestOf
<1>7. \A q \in Importers : ~HoldsBatch(q, a)
  BY <1>1, <1>2 DEF IInv, Exclusive, Works, HoldsBatch
<1>8. \A q \in Importers : ~HoldsBatch(q, a)'
  BY <1>1, <1>3, <1>4, <1>7 DEF HoldsBatch
<1>9. \A o \in Processes : procs'[o].pc = "lock" => procs'[o].ready = {}
  BY <1>3 DEF Intact
<1>10. Good(Hook)'
  BY <1>2, <1>3, <1>4, <1>5 DEF Good
<1>11. /\ manifest'[a] # None /\ \A f \in manifest'[a].ready : data'[f] = "good"
  BY <1>2, <1>5, <1>6 DEF Good
<1> QED BY <1>4, <1>8, <1>9, <1>10, <1>11 DEF Intact

(* The agent writes files only while no hook runs.                          *)
LEMMA DamageIntact ==
    ASSUME IInv, History, Intact, (\E f \in Files : DamageFile(f)) \/ (\E a \in Anchors : DamageManifest(a))
    PROVE  Intact'
<1>1. Running(Last) /\ UNCHANGED procs
  BY DEF DamageFile, DamageManifest, Damage
<1>2. procs[Hook].pc = "idle"
  BY <1>1, RunningLast
<1> QED BY <1>1, <1>2 DEF Intact, AtPage

LEMMA ImportIntact ==
    ASSUME IInv, Intact, NEW p \in Importers, Importing(p) \/ Expire(p) \/ Kill(p) \/ StartImport(p)
    PROVE  Intact'
<1>1. p \in Processes /\ p # Hook
  BY Basics
<1>2. CASE SaveCache(p) \/ \E f \in Files : SaveData(p, f) \/ Unavailable(p, f)
  BY <1>1, <1>2, FileSteps, OneIntact
<1>3. CASE ImportOpens(p) \/ ImportEnds(p) \/ ImportRequest(p)
  <2>1. UNCHANGED <<data, manifest>> /\ procs[p].pc \in {"lock", "files", "request"}
        /\ \E pc \in {"files", "request", "manifest"} : Go(p, pc)
    BY <1>3 DEF ImportOpens, ImportEnds, ImportRequest, inputFiles, batchFiles
  <2>2. GoesOn(p) /\ \A o \in Processes \ {p} : procs'[o] = procs[o]
    BY <1>1, <2>1, GoSteps DEF Steps
  <2> QED BY <1>1, <2>1, <2>2, OneIntact DEF DataKept
<1>4. CASE ImportManifest(p)
  BY <1>4, ImportManifestIntact
<1>5. CASE Conflict(p) \/ ImportDone(p) \/ Expire(p) \/ Kill(p)
  <2>1. UNCHANGED <<data, manifest>> /\ Stop(p)
    BY <1>5 DEF Conflict, ImportDone, Expire, Kill, inputFiles, batchFiles
  <2> QED BY <1>1, <2>1, EndSteps, OneIntact DEF DataKept
<1>6. CASE StartImport(p)
  <2>1. UNCHANGED <<data, manifest>> /\ procs' = [procs EXCEPT ![p] = Started(frozen.anchor, frozen.want)]
    BY <1>6 DEF StartImport, inputFiles, batchFiles
  <2>2. Anew(p) /\ \A o \in Processes \ {p} : procs'[o] = procs[o]
    BY <1>1, <2>1 DEF Anew, Started, Idle, IInv, TypeOK
  <2> QED BY <1>1, <2>1, <2>2, OneIntact DEF DataKept
<1> QED BY <1>2, <1>3, <1>4, <1>5, <1>6 DEF Importing

LEMMA HookIntact ==
    ASSUME IInv, Intact, Preparing \/ Kill(Hook)
    PROVE  Intact'
<1>1. Hook \in Processes
  BY Basics
<1>2. CASE SaveCache(Hook) \/ \E f \in Files : Keep(f) \/ SaveData(Hook, f) \/ Unavailable(Hook, f)
  BY <1>1, <1>2, FileSteps, OneIntact
<1>3. CASE HookOpens \/ VerifyIndex \/ WriteIndex \/ WriteCurrent
  <2>1. UNCHANGED <<data, manifest>> /\ \/ procs[Hook].pc = "lock" /\ Go(Hook, "files")
                                        \/ AtPage /\ \E pc \in {"page", "current", "exit"} : Go(Hook, pc)
    BY <1>3 DEF HookOpens, VerifyIndex, WriteIndex, WriteCurrent, inputFiles, batchFiles, AtPage
  <2>2. /\ GoesOn(Hook) /\ \A o \in Processes \ {Hook} : procs'[o] = procs[o]
        /\ AtPage \/ procs'[Hook].pc = "files"
    BY <1>1, <2>1, GoSteps DEF Steps, AtPage
  <2> QED BY <1>1, <2>1, <2>2, OneIntact DEF DataKept
<1>4. CASE HookManifest
  BY <1>4, HookManifestIntact
<1>5. CASE Conflict(Hook) \/ RefuseIndex \/ HookDone \/ Kill(Hook)
  <2>1. UNCHANGED <<data, manifest>> /\ Stop(Hook)
    BY <1>5 DEF Conflict, RefuseIndex, HookDone, Kill, inputFiles, batchFiles
  <2> QED BY <1>1, <2>1, EndSteps, OneIntact DEF DataKept
<1> QED BY <1>2, <1>3, <1>4, <1>5 DEF Preparing

LEMMA ConnectorIntact ==
    ASSUME IInv, Intact, Connector \/ (\E m \in DOMAIN messages : Deliver(m))
                         \/ (\E how \in {"completed", "failed"} : EndRun(how)) \/ UNCHANGED vars
    PROVE  Intact'
<1>1. ASSUME NEW a \in Anchors, NEW w, StartRun(a, w)
      PROVE  Intact'
  <2>1. UNCHANGED <<data, manifest>> /\ procs' = [procs EXCEPT ![Hook] = Started(a, w)]
    BY <1>1 DEF StartRun, inputFiles, batchFiles
  <2>2. Anew(Hook) /\ procs'[Hook].pc = "lock" /\ \A o \in Processes \ {Hook} : procs'[o] = procs[o]
    BY <2>1, Basics DEF Anew, Started, Idle, IInv, TypeOK
  <2> QED BY <2>1, <2>2, Basics, OneIntact DEF DataKept
<1>2. CASE GiveUp \/ Restart
  <2>1. UNCHANGED <<data, manifest>> /\ procs' = Detached
    BY <1>2 DEF GiveUp, Restart, inputFiles, batchFiles
  <2>2. ASSUME NEW p \in Processes
        PROVE  Unmoved(p)
    <3>1. procs[p] \in Process
      BY Typed DEF IInv
    <3> QED BY <2>1, <3>1 DEF Detached, Unmoved, Process
  <2>3. AtPage' => AtPage
    BY <2>2, Basics DEF AtPage, Unmoved
  <2> QED BY <2>1, <2>2, <2>3, IntactKept DEF DataKept
<1>3. ASSUME UNCHANGED <<data, manifest, procs>>
      PROVE  Intact'
  <2>1. \A p \in Processes : Unmoved(p)
    BY <1>3 DEF Unmoved
  <2> QED BY <1>3, <2>1, IntactKept DEF DataKept, AtPage
<1>4. (\E a \in Anchors : \E w \in Drafts[a] \cup {messages[m].want : m \in DOMAIN messages} : Freeze(a, w))
          \/ Submit \/ RunGone \/ (\E m \in DOMAIN messages : Deliver(m)) \/ (\E how \in {"completed", "failed"} : EndRun(how))
          \/ UNCHANGED vars
      => UNCHANGED <<data, manifest, procs>>
  BY DEF Freeze, Submit, RunGone, Deliver, EndRun, vars, inputFiles, batchFiles
<1> QED BY <1>1, <1>2, <1>3, <1>4, ImportIntact DEF Connector

LEMMA IntactNext == IInv /\ History /\ Intact /\ [Next]_vars => Intact'
<1> SUFFICES ASSUME IInv, History, Intact, [Next]_vars PROVE Intact'
  OBVIOUS
<1>1. CASE Environment
  BY <1>1, ConnectorIntact, DamageIntact DEF Environment
<1>2. CASE \E p \in Importers : Importing(p) \/ Expire(p)
  BY <1>2, ImportIntact
<1>3. CASE \E p \in Processes : Kill(p)
  BY <1>3, Basics, ImportIntact, HookIntact
<1> QED BY <1>1, <1>2, <1>3, ConnectorIntact, HookIntact DEF Next

LEMMA IntactInit == Init => Intact
  BY Basics DEF Init, Intact, AtPage, Idle

(* Only the hook announces a run, and it is the one whose batch it prepared. *)
LEMMA Announces ==
    ASSUME IInv, History, Intact, [Next]_vars, current' # current
    PROVE  \A f \in manifest[runs[Last].anchor].ready : data[f] = "good"
<1>1. WriteCurrent
  <2>1. Connector \/ Environment => UNCHANGED current
    BY DEF Connector, Environment, StartRun, Freeze, StartImport, Submit, RunGone, GiveUp, Restart,
           Deliver, EndRun, DamageFile, DamageManifest, runFiles
  <2>2. Preparing /\ ~WriteCurrent => UNCHANGED current
    BY DEF Preparing, HookOpens, Conflict, SaveCache, Keep, SaveData, Unavailable, HookManifest, VerifyIndex, RefuseIndex,
           WriteIndex, HookDone, runFiles
  <2>3. \A p \in Importers : Importing(p) \/ Expire(p) => UNCHANGED current
    BY DEF Importing, Expire, ImportOpens, Conflict, SaveCache, SaveData, Unavailable, ImportEnds, ImportRequest,
           ImportManifest, ImportDone, runFiles
  <2>4. \A p \in Processes : Kill(p) => UNCHANGED current
    BY DEF Kill, runFiles
  <2> QED BY <2>1, <2>2, <2>3, <2>4 DEF Next, vars, runFiles
<1>2. procs[Hook].pc = "current"
  BY <1>1 DEF WriteCurrent
<1> QED BY <1>2 DEF History, HookRun, Intact, AtPage

(* When a run is announced the files its batch calls ready have the bytes
   that were sent, whatever earlier runs damaged and other processes save at
   the time (files.py:250-263, 282).                                        *)
THEOREM ReadyWhole == Spec => ReadyIntact
<1>1. IInv /\ History /\ Intact /\ [Next]_vars
          => [current' # current => \A f \in manifest[runs[Last].anchor].ready : data[f] = "good"]_vars
  BY Announces
<1> QED BY InitInv, Inductive, HistoryInit, HistoryNext, IntactInit, IntactNext, <1>1, PTL DEF Spec, ReadyIntact
===============================================================================
