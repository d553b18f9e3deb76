-------------------------- MODULE OutputFilesProofs --------------------------
(***************************************************************************)
(* Theorems about OutputFiles, for any number of files, executions, writes *)
(* and faults: the outbox is sealed once and faithfully, whichever         *)
(* executions print a result print the same, complete one, an upload that  *)
(* was recorded is not repeated, and no sealed copy mixes two contents.    *)
(* All rest on the lock of the run.                                        *)
(***************************************************************************)
EXTENDS OutputFiles, DataFacts

-----------------------------------------------------------------------------
(* The inductive invariant.                                                 *)

SealSteps == {"visit", "rest", "restat", "again", "again rest"}

(* What a process that seals has read of the files left alone.              *)
ReadAs(pc, part, c) ==
    /\ Len(part) = IF pc = "rest" THEN 1 ELSE 2
    /\ \A k \in DOMAIN part : part[k] = c
ReadOK(i) ==
    LET q == procs[i] IN
    q.pc \in SealSteps =>
        /\ sealed = None /\ manifest = None
        /\ q.pc # "visit" => q.todo # {}
        /\ \A f \in Files \ touched :
              LET c == outbox[f].content IN
              /\ f \notin q.todo => q.snap[f] = c
              /\ q.pc # "visit" /\ f = Current(i) => c # None /\ ReadAs(q.pc, q.first, c)

(* IDs of uploads of the sealed files.                                      *)
Sound(ids) == \A f \in Files : ids[f] # 0 => ids[f] \in DOMAIN uploads /\ uploads[ids[f]] = sealed[f]

(* A process that uploads has the IDs recorded and one more at most; one that
   prints has all of them.                                                  *)
UploadOK(i) ==
    LET q == procs[i] IN
    /\ q.pc \in {"manifest", "upload", "record", "print"} => sealed # None
    /\ q.pc = "upload" => manifest # None /\ q.ids = manifest.ids
    /\ q.pc = "record" => manifest # None /\ ~All(manifest.ids) /\ Sound(q.ids)
    /\ q.pc = "print" => manifest # None /\ q.ids = manifest.ids /\ All(q.ids)
StartOK(i) ==
    /\ procs[i].pc # "none" => i \in DOMAIN hooks
    /\ procs[i].pc \in {"none", "lock"} => procs[i].snap = Nothing

OneHolder == \A i, j \in Attempts : Holding(i) /\ Holding(j) => i = j
ManifestOK ==
    manifest # None =>
        /\ sealed # None /\ Sound(manifest.ids)
        /\ manifest.stage = "ready" => All(manifest.ids)
PrintedOK == \A i \in Printing : manifest # None /\ hooks[i].output = manifest.ids /\ All(manifest.ids)

IInv ==
    /\ TypeOK /\ (\A i \in Attempts : ReadOK(i) /\ UploadOK(i) /\ StartOK(i))
    /\ OneHolder /\ ManifestOK /\ PrintedOK

-----------------------------------------------------------------------------
(* Types.                                                                   *)

Steps == {"none", "lock", "manifest", "upload", "record", "print"} \cup SealSteps

LEMMA Basics ==
    /\ Files \subseteq Nat \ {0} /\ IsFiniteSet(Files) /\ Refused \subseteq Contents
    /\ None \notin Contents /\ Torn \notin Contents /\ None # Torn
    /\ MaxAttempts \in Nat /\ MaxWrites \in Nat /\ MaxQuick \in Nat /\ MaxFaults \in Nat
    /\ Attempts = 1 .. MaxAttempts
  BY BoundAssumption, NamesAssumption DEF Attempts

LEMMA NothingTyped ==
    /\ Nothing \in Snapshot /\ NoIds \in Ids /\ NoProcess \in Process
    /\ NoProcess.pc = "none" /\ NoProcess.snap = Nothing
<1>1. Nothing \in Snapshot /\ NoIds \in Ids
  BY DEF Nothing, Snapshot, NoIds, Ids
<1>2. <<>> \in Seq(Contents)
  OBVIOUS
<1> QED BY <1>1, <1>2 DEF NoProcess, Process

LEMMA Typed ==
    ASSUME TypeOK, NEW i \in Attempts
    PROVE  /\ procs[i] \in Process /\ procs[i].pc \in Steps /\ procs[i].todo \subseteq Files
           /\ procs[i].snap \in Snapshot /\ procs[i].ids \in Ids
           /\ procs[i].first \in Seq(Contents) /\ procs[i].second \in Seq(Contents)
<1>1. procs[i] \in Process
  BY DEF TypeOK
<1> QED BY <1>1 DEF Process, Steps, SealSteps

LEMMA CurrentTyped ==
    ASSUME TypeOK, NEW i \in Attempts, procs[i].todo # {}
    PROVE  Current(i) \in procs[i].todo /\ Current(i) \in Files
  BY Typed, Basics, MinOfNat DEF Current

LEMMA Update ==
    ASSUME procs \in [Attempts -> Process], NEW i \in Attempts, NEW q \in Process,
           procs' = [procs EXCEPT ![i] = q]
    PROVE  /\ procs' \in [Attempts -> Process] /\ procs'[i] = q
           /\ \A j \in Attempts \ {i} : procs'[j] = procs[j]
OBVIOUS

LEMMA GoTyped ==
    ASSUME TypeOK, NEW i \in Attempts, NEW pc \in Steps, Go(i, pc)
    PROVE  \E q \in Process :
               /\ procs' = [procs EXCEPT ![i] = q] /\ q.pc = pc /\ q.todo = procs[i].todo
               /\ q.first = procs[i].first /\ q.second = procs[i].second
               /\ q.snap = procs[i].snap /\ q.ids = procs[i].ids
<1> DEFINE q == [procs[i] EXCEPT !.pc = pc]
<1>1. procs[i] \in Process
  BY Typed
<1>2. /\ q \in Process /\ q.pc = pc /\ q.todo = procs[i].todo
      /\ q.first = procs[i].first /\ q.second = procs[i].second
      /\ q.snap = procs[i].snap /\ q.ids = procs[i].ids
  BY <1>1 DEF Process, Steps, SealSteps
<1>3. procs' = [procs EXCEPT ![i] = q]
  BY DEF Go
<1> HIDE DEF q
<1> QED BY <1>2, <1>3

(* The state apart from processes.                                          *)
RestOK ==
    /\ outbox \in [Files -> [content : Contents \cup {None}, time : 0 .. MaxWrites]]
    /\ sealed \in {None} \cup Snapshot /\ copies \in Snapshot
    /\ manifest \in {None} \cup Manifest
    /\ uploads \in Seq(Contents \cup {Torn})
    /\ hooks \in Seq(Hook) /\ Len(hooks) <= MaxAttempts
    /\ touched \subseteq Files
    /\ writes \in 0 .. MaxWrites /\ quick \in 0 .. MaxQuick /\ faults \in 0 .. MaxFaults
LEMMA TypeParts == TypeOK <=> RestOK /\ procs \in [Attempts -> Process]
  BY DEF TypeOK, RestOK

LEMMA FaultTyped == TypeOK /\ Fault => faults' \in 0 .. MaxFaults /\ UNCHANGED <<writes, quick>>
  BY Basics DEF TypeOK, Fault

(* An upload leaves the earlier ones as they are.                           *)
LEMMA SoundKeeps ==
    ASSUME TypeOK, NEW ids \in Ids, Sound(ids), sealed' = sealed,
           uploads' = uploads \/ \E c \in Contents \cup {Torn} : uploads' = Append(uploads, c)
    PROVE  Sound(ids)'
<1>1. CASE uploads' = uploads
  BY <1>1 DEF Sound
<1>2. ASSUME NEW c \in Contents \cup {Torn}, uploads' = Append(uploads, c) PROVE Sound(ids)'
  <2>1. /\ DOMAIN uploads' = DOMAIN uploads \cup {Len(uploads) + 1}
        /\ \A k \in DOMAIN uploads : uploads'[k] = uploads[k]
    BY <1>2, AppendElements DEF TypeOK
  <2> QED BY <2>1 DEF Sound
<1> QED BY <1>1, <1>2

LEMMA AppendedTyped ==
    ASSUME TypeOK, uploads' = uploads \/ \E c \in Contents \cup {Torn} : uploads' = Append(uploads, c)
    PROVE  uploads' \in Seq(Contents \cup {Torn})
<1>1. uploads \in Seq(Contents \cup {Torn})
  BY DEF TypeOK
<1>2. \A c \in Contents \cup {Torn} : Append(uploads, c) \in Seq(Contents \cup {Torn})
  BY <1>1
<1> QED BY <1>1, <1>2

LEMMA ReadKeeps ==
    ASSUME NEW i \in Attempts, ReadOK(i), procs'[i] = procs[i], UNCHANGED <<sealed, manifest, outbox, touched>>
    PROVE  ReadOK(i)'
<1>1. Current(i)' = Current(i)
  BY DEF Current
<1> QED BY <1>1 DEF ReadOK

-----------------------------------------------------------------------------
(* A process that holds the lock, or finds it free, takes a step.           *)

Steady ==
    /\ sealed # None => sealed' = sealed
    /\ manifest # None /\ All(manifest.ids) => manifest' # None /\ manifest'.ids = manifest.ids

LEMMA MoveInv ==
    ASSUME IInv, NEW i \in Attempts, NEW q \in Process, procs' = [procs EXCEPT ![i] = q],
           Holding(i) \/ LockFree, procs[i].pc # "none", q.pc \notin {"none", "lock"},
           UNCHANGED hooks, RestOK', Steady, ManifestOK', ReadOK(i)', UploadOK(i)'
    PROVE  IInv'
<1>1. /\ procs' \in [Attempts -> Process] /\ procs'[i] = q
      /\ \A j \in Attempts \ {i} : procs'[j] = procs[j] /\ ~Holding(j)
  BY Update DEF IInv, TypeOK, OneHolder, LockFree
<1>2. ASSUME NEW j \in Attempts \ {i} PROVE ReadOK(j)' /\ UploadOK(j)'
  <2>1. procs'[j].pc \in {"none", "lock", "print"} /\ UploadOK(j)
    BY <1>1 DEF Holding, IInv
  <2>2. ReadOK(j)'
    BY <2>1 DEF ReadOK, SealSteps
  <2>3. UploadOK(j)'
    BY <1>1, <2>1 DEF UploadOK, Steady, All, Named
  <2> QED BY <2>2, <2>3
<1>3. \A j \in Attempts : StartOK(j)'
  BY <1>1 DEF IInv, StartOK
<1>4. OneHolder'
  BY <1>1 DEF OneHolder, Holding
<1>5. PrintedOK'
  <2> SUFFICES ASSUME NEW j \in Printing
               PROVE  manifest' # None /\ hooks[j].output = manifest'.ids /\ All(manifest.ids)'
    BY DEF PrintedOK, Printing
  <2>1. manifest # None /\ hooks[j].output = manifest.ids /\ All(manifest.ids) /\ sealed # None
    BY DEF IInv, PrintedOK, ManifestOK
  <2> QED BY <2>1 DEF Steady, All, Named
<1>6. TypeOK'
  BY <1>1, TypeParts DEF TypeOK, RestOK
<1> QED BY <1>1, <1>2, <1>3, <1>4, <1>5, <1>6 DEF IInv

(* A step that only seals: the process reads on, or finds it all sealed.    *)
LEMMA SealMove ==
    ASSUME IInv, NEW i \in Attempts, NEW q \in Process, procs' = [procs EXCEPT ![i] = q],
           Holding(i) \/ LockFree, procs[i].pc # "none", q.pc \in SealSteps \cup {"manifest"},
           q.pc = "manifest" => sealed # None, touched' \subseteq Files,
           UNCHANGED <<workspace, uploads, hooks, bounds>>, ReadOK(i)'
    PROVE  IInv'
<1>1. UNCHANGED <<outbox, sealed, copies, manifest, uploads, hooks, writes, quick, faults>>
  BY DEF workspace, bounds
<1>2. RestOK' /\ Steady
  BY <1>1, TypeParts DEF IInv, RestOK, Steady
<1>3. ManifestOK'
  BY <1>1 DEF IInv, ManifestOK, Sound, All, Named
<1>4. procs'[i] = q
  BY Update DEF IInv, TypeOK
<1>5. UploadOK(i)'
  BY <1>1, <1>4 DEF UploadOK, SealSteps
<1>6. q.pc \notin {"none", "lock"}
  BY DEF SealSteps
<1> QED BY <1>1, <1>2, <1>3, <1>5, <1>6, MoveInv

(* A process that has nothing to do any more: killed, refused or finished.  *)
LEMMA EndInv ==
    ASSUME IInv, NEW i \in Attempts, procs' = [procs EXCEPT ![i] = NoProcess],
           UNCHANGED <<outbox, sealed, copies, manifest, touched, writes, quick>>,
           uploads' = uploads \/ \E c \in Contents \cup {Torn} : uploads' = Append(uploads, c),
           faults' \in 0 .. MaxFaults,
           hooks' \in Seq(Hook), DOMAIN hooks' = DOMAIN hooks, Len(hooks') = Len(hooks), PrintedOK'
    PROVE  IInv'
<1>1. /\ procs' \in [Attempts -> Process] /\ procs'[i] = NoProcess
      /\ \A j \in Attempts \ {i} : procs'[j] = procs[j]
  BY Update, NothingTyped DEF IInv, TypeOK
<1>2. uploads' \in Seq(Contents \cup {Torn})
  BY AppendedTyped DEF IInv
<1>3. TypeOK'
  BY <1>1, <1>2 DEF IInv, TypeOK
<1>4. \A ids \in Ids : Sound(ids) => Sound(ids)'
  BY SoundKeeps DEF IInv
<1>5. ASSUME NEW j \in Attempts PROVE ReadOK(j)' /\ UploadOK(j)' /\ StartOK(j)'
  <2>1. CASE j = i
    BY <1>1, <2>1, NothingTyped DEF ReadOK, UploadOK, StartOK, SealSteps
  <2>2. CASE j # i
    <3>1. procs'[j] = procs[j] /\ procs[j].ids \in Ids
      BY <1>1, <2>2, Typed DEF IInv
    <3>2. ReadOK(j)'
      BY <3>1, ReadKeeps DEF IInv
    <3>3. UploadOK(j)'
      BY <3>1, <1>4 DEF IInv, UploadOK, All, Named
    <3>4. StartOK(j)'
      BY <3>1 DEF IInv, StartOK
    <3> QED BY <3>2, <3>3, <3>4
  <2> QED BY <2>1, <2>2
<1>6. OneHolder'
  BY <1>1, NothingTyped DEF IInv, OneHolder, Holding
<1>7. ManifestOK'
  <2>1. manifest # None => manifest.ids \in Ids
    BY DEF IInv, TypeOK, Manifest
  <2> QED BY <1>4, <2>1 DEF IInv, ManifestOK, All, Named
<1> QED BY <1>3, <1>5, <1>6, <1>7 DEF IInv

(* Orpheus may have given the execution up.                                 *)
LEMMA ReportTyped ==
    ASSUME hooks \in Seq(Hook), NEW i \in DOMAIN hooks, NEW s \in {"completed", "failed"}
    PROVE  /\ Report(i, s) \in Seq(Hook) /\ DOMAIN Report(i, s) = DOMAIN hooks
           /\ Len(Report(i, s)) = Len(hooks)
           /\ \A j \in DOMAIN hooks :
                 Report(i, s)[j].output = hooks[j].output /\ Report(i, s)[j].complete = hooks[j].complete
<1> DEFINE new == [hooks[i] EXCEPT !.status = IF @ = "running" THEN s ELSE @]
<1>1. hooks[i] \in Hook
  OBVIOUS
<1>2. new \in Hook /\ new.output = hooks[i].output /\ new.complete = hooks[i].complete
  BY <1>1 DEF Hook
<1>3. Report(i, s) = [hooks EXCEPT ![i] = new]
  BY DEF Report
<1> HIDE DEF new
<1> QED BY <1>2, <1>3, ExceptElements

LEMMA FailInv ==
    ASSUME IInv, NEW i \in Attempts, procs[i].pc # "none", Fail(i),
           UNCHANGED <<workspace, touched, writes, quick>>,
           uploads' = uploads \/ \E c \in Contents \cup {Torn} : uploads' = Append(uploads, c),
           faults' \in 0 .. MaxFaults
    PROVE  IInv'
<1>1. i \in DOMAIN hooks /\ hooks \in Seq(Hook)
  BY DEF IInv, StartOK, TypeOK
<1>2. procs' = [procs EXCEPT ![i] = NoProcess] /\ hooks' = Report(i, "failed")
  BY DEF Fail
<1>3. /\ hooks' \in Seq(Hook) /\ DOMAIN hooks' = DOMAIN hooks /\ Len(hooks') = Len(hooks)
      /\ \A j \in DOMAIN hooks : hooks'[j].output = hooks[j].output
  BY <1>1, <1>2, ReportTyped
<1>4. UNCHANGED <<sealed, manifest>>
  BY DEF workspace
<1>5. PrintedOK'
  BY <1>3, <1>4 DEF IInv, PrintedOK, Printing, All, Named
<1> QED BY <1>2, <1>3, <1>5, EndInv DEF workspace

-----------------------------------------------------------------------------
(* Sealing.                                                                 *)

LEMMA Reads ==
    ASSUME IInv, NEW i \in Attempts, procs[i].pc \in SealSteps
    PROVE  /\ Holding(i) /\ ReadOK(i) /\ sealed = None /\ manifest = None /\ touched \subseteq Files
           /\ procs[i] \in Process /\ faults \in 0 .. MaxFaults
           /\ procs[i].pc # "visit" \/ procs[i].todo # {} => Current(i) \in procs[i].todo /\ Current(i) \in Files
<1>1. Holding(i) /\ ReadOK(i) /\ sealed = None /\ manifest = None
  BY DEF SealSteps, Holding, IInv, ReadOK
<1>2. TypeOK /\ procs[i] \in Process /\ touched \subseteq Files /\ faults \in 0 .. MaxFaults
  BY Typed DEF IInv, TypeOK
<1> QED BY <1>1, <1>2, CurrentTyped DEF ReadOK

LEMMA SealFails ==
    ASSUME IInv, NEW i \in Attempts, procs[i].pc # "none", Fail(i), UNCHANGED <<workspace, uploads, touched, bounds>>
    PROVE  IInv'
<1>1. faults' \in 0 .. MaxFaults
  BY DEF IInv, TypeOK, bounds
<1> QED BY <1>1, FailInv DEF bounds

LEMMA UseSealedInv ==
    ASSUME IInv, NEW i \in Attempts, UseSealed(i)
    PROVE  IInv'
<1>1. /\ procs[i].pc = "lock" /\ LockFree /\ sealed # None /\ Go(i, "manifest")
      /\ UNCHANGED <<workspace, uploads, hooks, touched, bounds>>
  BY DEF UseSealed
<1>2. PICK q \in Process : procs' = [procs EXCEPT ![i] = q] /\ q.pc = "manifest"
  BY <1>1, GoTyped DEF IInv, Steps
<1>3. ReadOK(i)'
  BY <1>2, Update DEF IInv, TypeOK, ReadOK, SealSteps
<1> QED BY <1>1, <1>2, <1>3, SealMove DEF IInv, TypeOK

LEMMA ListInv ==
    ASSUME IInv, NEW i \in Attempts, List(i)
    PROVE  IInv'
<1> DEFINE todo == {f \in Files : Present(f)}
           q == [procs[i] EXCEPT !.pc = "visit", !.todo = todo]
<1>1. /\ procs[i].pc = "lock" /\ LockFree /\ sealed = None /\ touched' = {}
      /\ procs' = [procs EXCEPT ![i] = q]
      /\ UNCHANGED <<workspace, uploads, hooks, bounds>>
  BY DEF List
<1>2. procs[i] \in Process /\ procs[i].snap = Nothing /\ manifest = None
  BY <1>1, Typed DEF IInv, StartOK, ManifestOK
<1>3. q \in Process /\ q.pc = "visit" /\ q.todo = todo /\ q.snap = Nothing
  BY <1>2 DEF Process
<1> HIDE DEF q
<1>4. procs'[i] = q
  BY <1>1, <1>3, Update DEF IInv, TypeOK
<1>5. ReadOK(i)'
  BY <1>1, <1>2, <1>3, <1>4 DEF ReadOK, Nothing, Present, workspace
<1> HIDE DEF todo
<1>6. q.pc \in SealSteps \cup {"manifest"} /\ procs[i].pc # "none"
  BY <1>1, <1>3 DEF SealSteps
<1> QED BY <1>1, <1>3, <1>5, <1>6, SealMove

(* A step inside a file.                                                    *)
LEMMA ReadStep ==
    ASSUME IInv, NEW i \in Attempts, procs[i].pc \in SealSteps, NEW q \in Process,
           procs' = [procs EXCEPT ![i] = q], q.pc \in SealSteps \ {"visit"}, q.todo = procs[i].todo, q.todo # {},
           q.snap = procs[i].snap, UNCHANGED <<workspace, uploads, hooks, touched, bounds>>,
           Current(i) \notin touched =>
               LET c == outbox[Current(i)].content IN
               c # None /\ ReadAs(q.pc, q.first, c)
    PROVE  IInv'
<1>1. procs'[i] = q
  BY Update DEF IInv, TypeOK
<1>2. Current(i)' = Current(i)
  BY <1>1 DEF Current
<1>3. ReadOK(i)'
  <2>1. ReadOK(i) /\ sealed = None /\ manifest = None /\ q.pc # "visit"
    BY Reads
  <2>2. UNCHANGED <<outbox, sealed, manifest, touched>>
    BY DEF workspace
  <2>3. \A f \in Files \ touched : f \notin q.todo => q.snap[f] = outbox[f].content
    BY <2>1 DEF ReadOK
  <2> QED BY <1>1, <1>2, <2>1, <2>2, <2>3 DEF ReadOK
<1>4. procs[i].pc # "none" /\ q.pc \in SealSteps \cup {"manifest"} /\ q.pc # "manifest"
  BY DEF SealSteps
<1>5. Holding(i) /\ touched' \subseteq Files /\ UNCHANGED <<workspace, uploads, hooks, bounds>>
  BY Reads
<1> QED BY <1>3, <1>4, <1>5, SealMove

LEMMA VisitInv ==
    ASSUME IInv, NEW i \in Attempts, Visit(i)
    PROVE  IInv'
<1> DEFINE f == Current(i)
           q == [procs[i] EXCEPT !.pc = "rest", !.time = outbox[f].time, !.first = <<outbox[f].content>>]
<1>1. procs[i].pc = "visit" /\ procs[i].todo # {} /\ UNCHANGED <<workspace, uploads, touched, bounds>>
  BY DEF Visit
<1>2. procs[i].pc \in SealSteps
  BY <1>1 DEF SealSteps
<1>3. procs[i] \in Process /\ f \in Files
  BY <1>1, <1>2, Reads
<1>4. CASE ~Acceptable(i, f)
  BY <1>1, <1>4, SealFails DEF Visit
<1>5. CASE Acceptable(i, f)
  <2>1. procs' = [procs EXCEPT ![i] = q] /\ UNCHANGED hooks
    BY <1>5 DEF Visit
  <2>2. outbox[f].content \in Contents /\ outbox[f].content # None /\ outbox[f].time \in Nat
    <3>1. outbox[f] \in [content : Contents \cup {None}, time : 0 .. MaxWrites]
      BY <1>3 DEF IInv, TypeOK
    <3> QED BY <1>5, <3>1, Basics DEF Acceptable
  <2>3. /\ q \in Process /\ q.pc = "rest" /\ q.todo = procs[i].todo /\ q.snap = procs[i].snap
        /\ q.first = <<outbox[f].content>>
    <3>1. <<outbox[f].content>> \in Seq(Contents)
      BY <2>2
    <3> HIDE DEF f
    <3> QED BY <1>3, <2>2, <3>1 DEF Process
  <2> HIDE DEF q
  <2>4. q.pc \in SealSteps \ {"visit"}
    BY <2>3 DEF SealSteps
  <2>5. ReadAs(q.pc, q.first, outbox[f].content)
    BY <2>2, <2>3 DEF ReadAs
  <2> QED BY <1>1, <1>2, <2>1, <2>2, <2>3, <2>4, <2>5, ReadStep
<1> QED BY <1>4, <1>5

LEMMA ReadRestInv ==
    ASSUME IInv, NEW i \in Attempts, NEW c \in Contents, ReadRest(i, c)
    PROVE  IInv'
<1> DEFINE q == [procs[i] EXCEPT !.pc = "restat", !.first = Append(@, c)]
<1>1. /\ procs[i].pc = "rest" /\ c \in RestOf(procs[i].first, Current(i))
      /\ procs' = [procs EXCEPT ![i] = q] /\ UNCHANGED <<workspace, uploads, hooks, touched, bounds>>
  BY DEF ReadRest
<1>2. procs[i].pc \in SealSteps
  BY <1>1 DEF SealSteps
<1>3. procs[i] \in Process /\ Current(i) \in Files /\ procs[i].todo # {} /\ ReadOK(i)
  BY <1>1, <1>2, Reads
<1>4. procs[i].first \in Seq(Contents) /\ Append(procs[i].first, c) \in Seq(Contents)
  <2>1. procs[i].first \in Seq(Contents)
    BY <1>3 DEF Process
  <2> QED BY <2>1
<1>5. /\ q \in Process /\ q.pc = "restat" /\ q.todo = procs[i].todo /\ q.snap = procs[i].snap
      /\ q.first = Append(procs[i].first, c)
  BY <1>3, <1>4 DEF Process
<1> HIDE DEF q
<1>6. ASSUME Current(i) \notin touched
      PROVE  outbox[Current(i)].content # None /\ ReadAs(q.pc, q.first, outbox[Current(i)].content)
  <2>1. /\ Len(procs[i].first) = 1 /\ procs[i].first[1] = outbox[Current(i)].content
        /\ outbox[Current(i)].content # None
    BY <1>1, <1>2, <1>3, <1>4, <1>6 DEF ReadOK, ReadAs
  <2>2. c = outbox[Current(i)].content
    BY <1>1, <2>1 DEF RestOf
  <2>3. /\ Len(q.first) = 2 /\ DOMAIN q.first = DOMAIN procs[i].first \cup {2}
        /\ q.first[1] = procs[i].first[1] /\ q.first[2] = c
    BY <1>4, <1>5, <2>1, AppendElements
  <2>4. DOMAIN procs[i].first = {1}
    BY <1>4, <2>1
  <2> QED BY <1>5, <2>1, <2>2, <2>3, <2>4 DEF ReadAs
<1>7. q.pc \in SealSteps \ {"visit"} /\ q.pc # "rest"
  BY <1>5 DEF SealSteps
<1> QED BY <1>1, <1>2, <1>3, <1>5, <1>6, <1>7, ReadStep

LEMMA RestatInv ==
    ASSUME IInv, NEW i \in Attempts, Restat(i)
    PROVE  IInv'
<1>1. procs[i].pc = "restat" /\ UNCHANGED <<workspace, uploads, touched, bounds>>
  BY DEF Restat
<1>2. procs[i].pc \in SealSteps
  BY <1>1 DEF SealSteps
<1>3. procs[i].todo # {} /\ Current(i) \in Files /\ ReadOK(i)
  BY <1>1, <1>2, Reads
<1>4. CASE ~Unchanged(i)
  BY <1>1, <1>4, SealFails DEF Restat
<1>5. CASE Unchanged(i)
  <2>1. Go(i, "again") /\ UNCHANGED hooks
    BY <1>5 DEF Restat
  <2>2. PICK q \in Process :
            /\ procs' = [procs EXCEPT ![i] = q] /\ q.pc = "again" /\ q.todo = procs[i].todo
            /\ q.first = procs[i].first /\ q.snap = procs[i].snap
    <3>1. "again" \in Steps
      BY DEF Steps, SealSteps
    <3> QED BY <2>1, <3>1, GoTyped DEF IInv
  <2>3. Current(i) \notin touched =>
            LET c == outbox[Current(i)].content IN c # None /\ ReadAs(q.pc, q.first, c)
    BY <1>1, <1>2, <1>3, <2>2 DEF ReadOK, ReadAs
  <2>4. q.pc \in SealSteps \ {"visit"} /\ q.pc # "rest"
    BY <2>2 DEF SealSteps
  <2> QED BY <1>1, <1>2, <1>3, <2>1, <2>2, <2>3, <2>4, ReadStep
<1> QED BY <1>4, <1>5

LEMMA ReadAgainInv ==
    ASSUME IInv, NEW i \in Attempts, ReadAgain(i)
    PROVE  IInv'
<1> DEFINE f == Current(i)
           q == [procs[i] EXCEPT !.pc = "again rest", !.second = <<outbox[f].content>>]
<1>1. procs[i].pc = "again" /\ UNCHANGED <<workspace, uploads, touched, bounds>>
  BY DEF ReadAgain
<1>2. procs[i].pc \in SealSteps
  BY <1>1 DEF SealSteps
<1>3. procs[i] \in Process /\ procs[i].todo # {} /\ f \in Files /\ ReadOK(i)
  BY <1>1, <1>2, Reads
<1>4. CASE outbox[f].content \in Refused \cup {None}
  BY <1>1, <1>4, SealFails DEF ReadAgain
<1>5. CASE outbox[f].content \notin Refused \cup {None}
  <2>1. procs' = [procs EXCEPT ![i] = q] /\ UNCHANGED hooks
    BY <1>5 DEF ReadAgain
  <2>2. outbox[f].content \in Contents
    BY <1>3, <1>5 DEF IInv, TypeOK
  <2>3. /\ q \in Process /\ q.pc = "again rest" /\ q.todo = procs[i].todo /\ q.snap = procs[i].snap
        /\ q.first = procs[i].first
    <3>1. <<outbox[f].content>> \in Seq(Contents)
      BY <2>2
    <3> HIDE DEF f
    <3> QED BY <1>3, <3>1 DEF Process
  <2> HIDE DEF q
  <2>4. f \notin touched => LET c == outbox[f].content IN c # None /\ ReadAs(q.pc, q.first, c)
    BY <1>1, <1>2, <1>3, <2>3 DEF ReadOK, ReadAs
  <2>5. q.pc \in SealSteps \ {"visit"} /\ q.pc # "rest"
    BY <2>3 DEF SealSteps
  <2> QED BY <1>1, <1>2, <1>3, <2>1, <2>3, <2>4, <2>5, ReadStep
<1> QED BY <1>4, <1>5

LEMMA CopyInv ==
    ASSUME IInv, NEW i \in Attempts, NEW c \in Contents, Copy(i, c)
    PROVE  IInv'
<1> DEFINE f == Current(i)
           was == procs[i]
           copy == Reading(was.first)
           snap == [was.snap EXCEPT ![f] = copy]
           q == Copied(was, f)
<1>1. was.pc = "again rest" /\ UNCHANGED <<workspace, uploads, touched, bounds>>
  BY DEF Copy
<1>2. procs[i].pc \in SealSteps
  BY <1>1 DEF SealSteps
<1>3. was \in Process /\ f \in Files /\ ReadOK(i)
  BY <1>1, <1>2, Reads
<1>4. CASE ~Same(i, c)
  BY <1>1, <1>4, SealFails DEF Copy
<1>5. CASE Same(i, c)
  <2>1. procs' = [procs EXCEPT ![i] = q] /\ UNCHANGED hooks
    BY <1>5 DEF Copy
  <2>2. copy \in Contents \cup {None, Torn}
    <3>1. was.first \in Seq(Contents) /\ was.second \in Seq(Contents)
      BY <1>3 DEF Process
    <3>2. was.first = Append(was.second, c)
      BY <1>5 DEF Same
    <3>3. 1 \in DOMAIN was.first
      BY <3>1, <3>2
    <3>4. was.first[1] \in Contents
      BY <3>1, <3>3
    <3> QED BY <3>4 DEF Reading
  <2> HIDE DEF copy
  <2>3. was.snap \in Snapshot /\ snap \in Snapshot /\ snap[f] = copy /\ \A g \in Files \ {f} : snap[g] = was.snap[g]
    <3>1. was.snap \in Snapshot
      BY <1>3 DEF Process
    <3> QED BY <1>3, <2>2, <3>1 DEF Snapshot
  <2>4. /\ q \in Process /\ q.pc = "visit" /\ q.todo = was.todo \ {f} /\ q.snap = snap
    <3>1. <<>> \in Seq(Contents)
      OBVIOUS
    <3> QED BY <1>3, <2>3, <3>1 DEF Process, Copied, copy
  <2> HIDE DEF q, snap
  <2>5. procs'[i] = q
    BY <2>1, <2>4, Update DEF IInv, TypeOK
  <2>6. f \notin touched => copy = outbox[f].content
    <3> SUFFICES ASSUME f \notin touched PROVE copy = outbox[f].content
      OBVIOUS
    <3>1. was.first \in Seq(Contents)
      BY <1>3 DEF Process
    <3>2. ReadAs("again rest", was.first, outbox[f].content)
      BY <1>1, <1>2, <1>3 DEF ReadOK
    <3>3. was.first[1] = outbox[f].content /\ was.first[2] = outbox[f].content
      BY <3>1, <3>2 DEF ReadAs
    <3> QED BY <3>3 DEF copy, Reading
  <2>7. ReadOK(i)'
    BY <1>1, <1>2, <1>3, <2>3, <2>4, <2>5, <2>6 DEF ReadOK, workspace
  <2>8. q.pc \in SealSteps \cup {"manifest"} /\ q.pc # "manifest" /\ procs[i].pc # "none"
    BY <1>1, <2>4 DEF SealSteps
  <2> QED BY <1>1, <1>2, <2>1, <2>4, <2>7, <2>8, Reads, SealMove
<1> QED BY <1>4, <1>5

LEMMA SealInv ==
    ASSUME IInv, NEW i \in Attempts, Seal(i)
    PROVE  IInv'
<1> DEFINE q == [procs[i] EXCEPT !.pc = "manifest", !.snap = Nothing]
<1>1. /\ procs[i].pc = "visit" /\ sealed' = procs[i].snap /\ copies' = procs[i].snap
      /\ procs' = [procs EXCEPT ![i] = q]
      /\ UNCHANGED <<outbox, manifest, uploads, hooks, touched, bounds>>
  BY DEF Seal
<1>2. procs[i].pc \in SealSteps
  BY <1>1 DEF SealSteps
<1>3. procs[i] \in Process /\ sealed = None /\ manifest = None /\ Holding(i)
  BY <1>2, Reads
<1>4. q \in Process /\ q.pc = "manifest"
  BY <1>3, NothingTyped DEF Process
<1> HIDE DEF q
<1>5. procs[i].snap \in Snapshot
  BY <1>3 DEF Process
<1>6. RestOK'
  BY <1>1, <1>5, TypeParts DEF IInv, RestOK, bounds
<1>7. Steady /\ ManifestOK'
  BY <1>1, <1>3 DEF Steady, ManifestOK
<1>8. procs'[i] = q
  BY <1>1, <1>4, Update DEF IInv, TypeOK
<1>9. ReadOK(i)' /\ UploadOK(i)'
  BY <1>1, <1>4, <1>5, <1>8, NoneAssumption DEF ReadOK, UploadOK, SealSteps
<1> QED BY <1>1, <1>3, <1>4, <1>6, <1>7, <1>9, MoveInv

-----------------------------------------------------------------------------
(* Uploading.                                                               *)

LEMMA Uploads ==
    ASSUME IInv, NEW i \in Attempts, procs[i].pc \in {"manifest", "upload", "record", "print"}
    PROVE  /\ UploadOK(i) /\ sealed # None /\ sealed \in Snapshot /\ procs[i] \in Process /\ procs[i].ids \in Ids
           /\ procs[i].pc # "print" => Holding(i)
           /\ procs[i].pc # "manifest" => manifest \in Manifest /\ manifest.ids \in Ids /\ Sound(manifest.ids)
           /\ manifest # None => manifest \in Manifest /\ manifest.ids \in Ids /\ Sound(manifest.ids)
<1>1. UploadOK(i) /\ procs[i] \in Process /\ procs[i].ids \in Ids
  BY Typed DEF IInv
<1>2. sealed # None /\ (procs[i].pc # "manifest" => manifest # None)
  BY <1>1 DEF UploadOK
<1>3. manifest # None => manifest \in Manifest /\ manifest.ids \in Ids /\ Sound(manifest.ids)
  BY DEF IInv, TypeOK, ManifestOK, Manifest
<1>4. sealed \in Snapshot
  BY <1>2 DEF IInv, TypeOK
<1> QED BY <1>1, <1>2, <1>3, <1>4 DEF Holding

(* A step that writes the manifest.                                         *)
LEMMA WriteManifest ==
    ASSUME IInv, NEW i \in Attempts, NEW q \in Process, procs' = [procs EXCEPT ![i] = q],
           procs[i].pc \in {"manifest", "upload", "record"}, q.pc \in {"upload", "print"},
           manifest' \in Manifest, manifest'.ids = q.ids, q.ids \in Ids, Sound(q.ids),
           q.pc = "print" \/ manifest'.stage = "ready" => All(q.ids),
           manifest # None /\ All(manifest.ids) => q.ids = manifest.ids,
           UNCHANGED <<outbox, sealed, copies, uploads, hooks, touched, bounds>>
    PROVE  IInv'
<1>1. Holding(i) /\ sealed # None
  BY Uploads
<1>2. RestOK' /\ manifest' # None
  BY TypeParts, NoneAssumption DEF IInv, RestOK, bounds
<1>3. Steady
  BY <1>2 DEF Steady
<1>4. ManifestOK'
  BY <1>1 DEF ManifestOK, Sound, All, Named
<1>5. procs'[i] = q
  BY Update DEF IInv, TypeOK
<1>6. ReadOK(i)' /\ UploadOK(i)'
  BY <1>1, <1>2, <1>5 DEF ReadOK, UploadOK, SealSteps, All, Named
<1> QED BY <1>1, <1>2, <1>3, <1>4, <1>6, MoveInv

LEMMA ResumeInv ==
    ASSUME IInv, NEW i \in Attempts, Resume(i)
    PROVE  IInv'
<1> DEFINE q == [procs[i] EXCEPT !.pc = "upload", !.ids = Recorded]
<1>1. /\ procs[i].pc = "manifest" /\ manifest' = [stage |-> "uploading", ids |-> Recorded]
      /\ procs' = [procs EXCEPT ![i] = q]
      /\ UNCHANGED <<outbox, sealed, copies, uploads, hooks, touched, bounds>>
  BY DEF Resume
<1>2. Recorded \in Ids /\ Sound(Recorded)
  <2>1. CASE manifest = None
    BY <2>1, NothingTyped DEF Recorded, Sound, NoIds
  <2>2. CASE manifest # None
    BY <1>1, <2>2, Uploads DEF Recorded
  <2> QED BY <2>1, <2>2
<1>3. q \in Process /\ q.pc = "upload" /\ q.ids = Recorded
  BY <1>1, <1>2, Uploads DEF Process
<1>4. manifest' \in Manifest /\ manifest'.ids = Recorded /\ manifest'.stage # "ready"
  BY <1>1, <1>2 DEF Manifest
<1>5. manifest # None => Recorded = manifest.ids
  BY DEF Recorded
<1> HIDE DEF q
<1> QED BY <1>1, <1>2, <1>3, <1>4, <1>5, WriteManifest

LEMMA RecordInv ==
    ASSUME IInv, NEW i \in Attempts, Record(i)
    PROVE  IInv'
<1>1. /\ procs[i].pc = "record" /\ manifest' = [manifest EXCEPT !.ids = procs[i].ids] /\ Go(i, "upload")
      /\ UNCHANGED <<outbox, sealed, copies, uploads, hooks, touched, bounds>>
  BY DEF Record
<1>2. PICK q \in Process : procs' = [procs EXCEPT ![i] = q] /\ q.pc = "upload" /\ q.ids = procs[i].ids
  BY <1>1, GoTyped DEF IInv, Steps
<1>3. manifest \in Manifest /\ procs[i].ids \in Ids /\ Sound(procs[i].ids) /\ ~All(manifest.ids) /\ manifest # None
  BY <1>1, Uploads DEF UploadOK
<1>4. manifest' \in Manifest /\ manifest'.ids = procs[i].ids /\ manifest'.stage = manifest.stage
  BY <1>1, <1>3 DEF Manifest
<1>5. manifest.stage # "ready"
  BY <1>3 DEF IInv, ManifestOK
<1> QED BY <1>1, <1>2, <1>3, <1>4, <1>5, WriteManifest

LEMMA ReadyInv ==
    ASSUME IInv, NEW i \in Attempts, Ready(i)
    PROVE  IInv'
<1>1. /\ procs[i].pc = "upload" /\ Missing(i) = {} /\ manifest' = [stage |-> "ready", ids |-> procs[i].ids]
      /\ Go(i, "print")
      /\ UNCHANGED <<outbox, sealed, copies, uploads, hooks, touched, bounds>>
  BY DEF Ready
<1>2. PICK q \in Process : procs' = [procs EXCEPT ![i] = q] /\ q.pc = "print" /\ q.ids = procs[i].ids
  BY <1>1, GoTyped DEF IInv, Steps
<1>3. procs[i].ids \in Ids /\ procs[i].ids = manifest.ids /\ Sound(procs[i].ids)
  BY <1>1, Uploads DEF UploadOK
<1>4. manifest' \in Manifest /\ manifest'.ids = procs[i].ids
  BY <1>1, <1>3 DEF Manifest
<1>5. All(procs[i].ids)
  BY <1>1 DEF Missing, All
<1> QED BY <1>1, <1>2, <1>3, <1>4, <1>5, WriteManifest

LEMMA SentIs ==
    ASSUME IInv, NEW i \in Attempts, NEW f \in Files, Sent(i, f)
    PROVE  /\ procs[i].pc = "upload" /\ f \in Named(sealed) /\ procs[i].ids[f] = 0 /\ sealed[f] # None
           /\ ~Damaged(f) => copies[f] = sealed[f] /\ copies[f] \in Contents \cup {Torn}
<1>1. Missing(i) \subseteq Nat
  BY Basics DEF Missing, Named
<1>2. f \in Missing(i)
  BY <1>1, MinOfNat DEF Sent
<1>3. sealed[f] # None
  BY <1>2 DEF Missing, Named
<1>4. ~Damaged(f) => copies[f] = sealed[f] /\ copies[f] \in Contents \cup {Torn}
  BY <1>3 DEF Damaged, IInv, TypeOK, Snapshot
<1> QED BY <1>2, <1>3, <1>4 DEF Sent, Missing

LEMMA UploadInv ==
    ASSUME IInv, NEW i \in Attempts, NEW f \in Files, Upload(i, f)
    PROVE  IInv'
<1> DEFINE n == Len(uploads')
           q == [procs[i] EXCEPT !.pc = "record", !.ids[f] = n]
<1>1. /\ Sent(i, f) /\ ~Damaged(f) /\ uploads' = Append(uploads, copies[f])
      /\ procs' = [procs EXCEPT ![i] = q]
      /\ UNCHANGED <<workspace, hooks, touched, bounds>>
  BY DEF Upload
<1>2. /\ procs[i].pc = "upload" /\ f \in Named(sealed) /\ procs[i].ids[f] = 0
      /\ copies[f] = sealed[f] /\ copies[f] \in Contents \cup {Torn}
  BY <1>1, SentIs
<1>3. /\ Holding(i) /\ sealed # None /\ procs[i] \in Process /\ procs[i].ids \in Ids /\ Sound(procs[i].ids)
      /\ manifest # None /\ manifest.ids = procs[i].ids
  BY <1>2, Uploads DEF UploadOK
<1>4. UNCHANGED <<outbox, sealed, copies, manifest>>
  BY <1>1 DEF workspace
<1>5. /\ uploads' \in Seq(Contents \cup {Torn}) /\ n \in Nat /\ n \in DOMAIN uploads' /\ uploads'[n] = sealed[f]
  <2>1. uploads \in Seq(Contents \cup {Torn})
    BY DEF IInv, TypeOK
  <2> QED BY <1>1, <1>2, <2>1, AppendElements
<1> HIDE DEF n
<1>6. /\ q \in Process /\ q.pc = "record" /\ q.ids \in Ids /\ q.ids[f] = n
      /\ \A g \in Files \ {f} : q.ids[g] = procs[i].ids[g]
  <2>1. q.ids = [procs[i].ids EXCEPT ![f] = n] /\ q.pc = "record"
    BY <1>3 DEF Process
  <2>2. q.ids \in Ids /\ q.ids[f] = n /\ \A g \in Files \ {f} : q.ids[g] = procs[i].ids[g]
    BY <1>3, <1>5, <2>1 DEF Ids
  <2>3. q \in Process
    BY <1>3, <2>1, <2>2 DEF Process
  <2> QED BY <2>1, <2>2, <2>3
<1> HIDE DEF q
<1>7. Sound(manifest.ids)'
  <2>1. \A ids \in Ids : Sound(ids) => Sound(ids)'
    BY <1>1, <1>2, <1>4, SoundKeeps DEF IInv
  <2> QED BY <1>3, <1>4, <2>1
<1>8. \A g \in Files : q.ids[g] # 0 => q.ids[g] \in DOMAIN uploads' /\ uploads'[q.ids[g]] = sealed[g]
  BY <1>3, <1>4, <1>5, <1>6, <1>7 DEF Sound
<1>9. ~All(manifest.ids) /\ ~All(manifest.ids)'
  BY <1>2, <1>3, <1>4 DEF All, Named
<1>10. RestOK' /\ Steady
  BY <1>1, <1>4, <1>5, <1>9, TypeParts DEF IInv, RestOK, Steady, bounds
<1>11. ManifestOK'
  BY <1>3, <1>4, <1>7, <1>9 DEF IInv, ManifestOK
<1>12. procs'[i] = q
  BY <1>1, <1>6, Update DEF IInv, TypeOK
<1>13. ReadOK(i)' /\ UploadOK(i)'
  BY <1>3, <1>4, <1>6, <1>8, <1>9, <1>12 DEF ReadOK, UploadOK, SealSteps, Sound
<1> QED BY <1>1, <1>2, <1>3, <1>6, <1>10, <1>11, <1>13, MoveInv

LEMMA PrintedInv ==
    ASSUME IInv, NEW i \in Attempts, NEW complete \in BOOLEAN, Printed(i, complete),
           faults' \in 0 .. MaxFaults, UNCHANGED <<writes, quick>>
    PROVE  IInv'
<1> DEFINE told == Report(i, "completed")
           new == [told[i] EXCEPT !.output = procs[i].ids, !.complete = complete]
<1>1. /\ procs[i].pc = "print" /\ hooks' = [told EXCEPT ![i] = new]
      /\ procs' = [procs EXCEPT ![i] = NoProcess] /\ UNCHANGED <<workspace, uploads, touched>>
  BY DEF Printed
<1>2. i \in DOMAIN hooks /\ hooks \in Seq(Hook)
  BY <1>1 DEF IInv, StartOK, TypeOK
<1>3. procs[i].ids \in Ids /\ manifest # None /\ procs[i].ids = manifest.ids /\ All(manifest.ids)
  BY <1>1, Uploads DEF UploadOK
<1>4. /\ told \in Seq(Hook) /\ DOMAIN told = DOMAIN hooks /\ Len(told) = Len(hooks)
      /\ \A j \in DOMAIN hooks : told[j].output = hooks[j].output
  BY <1>2, ReportTyped
<1> HIDE DEF told
<1>5. new \in Hook /\ new.output = procs[i].ids
  <2>1. told[i] \in Hook
    BY <1>2, <1>4
  <2> QED BY <1>3, <2>1 DEF Hook
<1> HIDE DEF new
<1>6. /\ hooks' \in Seq(Hook) /\ DOMAIN hooks' = DOMAIN hooks /\ Len(hooks') = Len(hooks)
      /\ hooks'[i] = new /\ \A j \in DOMAIN hooks : j # i => hooks'[j].output = hooks[j].output
  BY <1>1, <1>2, <1>4, <1>5, ExceptElements
<1>7. UNCHANGED <<sealed, manifest>>
  BY <1>1 DEF workspace
<1>8. PrintedOK'
  BY <1>3, <1>5, <1>6, <1>7 DEF IInv, PrintedOK, Printing, All, Named
<1> QED BY <1>1, <1>6, <1>8, EndInv DEF workspace

-----------------------------------------------------------------------------
(* The environment.                                                         *)

(* A step that changes no process and nothing that was uploaded.            *)
LEMMA OutsideInv ==
    ASSUME IInv, TypeOK', UNCHANGED <<sealed, manifest, uploads, procs>>,
           \A i \in Attempts : ReadOK(i)',
           DOMAIN hooks' = DOMAIN hooks, \A i \in DOMAIN hooks : hooks'[i].output = hooks[i].output
    PROVE  IInv'
<1>1. ASSUME NEW i \in Attempts PROVE UploadOK(i)' /\ StartOK(i)'
  BY DEF IInv, UploadOK, StartOK, Sound, All, Named
<1>2. OneHolder' /\ ManifestOK'
  BY DEF IInv, OneHolder, Holding, ManifestOK, Sound, All, Named
<1>3. PrintedOK'
  BY DEF IInv, PrintedOK, Printing, All, Named
<1> QED BY <1>1, <1>2, <1>3 DEF IInv

LEMMA WriteInv ==
    ASSUME IInv, NEW f \in Files, NEW c \in Contents \cup {None}, NEW seen \in BOOLEAN, Write(f, c, seen)
    PROVE  IInv'
<1> DEFINE new == [content |-> c, time |-> IF seen THEN writes' ELSE outbox[f].time]
<1>1. /\ writes < MaxWrites /\ writes' = writes + 1 /\ (seen \/ quick < MaxQuick)
      /\ quick' = (IF seen THEN quick ELSE quick + 1)
      /\ outbox' = [outbox EXCEPT ![f] = new] /\ touched' = touched \cup {f}
      /\ UNCHANGED <<sealed, copies, manifest, uploads, hooks, procs, faults>>
  BY DEF Write
<1>2. writes' \in 0 .. MaxWrites /\ quick' \in 0 .. MaxQuick
  BY <1>1, Basics DEF IInv, TypeOK
<1>3. new \in [content : Contents \cup {None}, time : 0 .. MaxWrites]
  <2>1. outbox[f] \in [content : Contents \cup {None}, time : 0 .. MaxWrites]
    BY DEF IInv, TypeOK
  <2> QED BY <1>2, <2>1
<1> HIDE DEF new
<1>4. outbox' \in [Files -> [content : Contents \cup {None}, time : 0 .. MaxWrites]]
  BY <1>1, <1>3 DEF IInv, TypeOK
<1>5. TypeOK'
  BY <1>1, <1>2, <1>4 DEF IInv, TypeOK
<1>6. ASSUME NEW i \in Attempts PROVE ReadOK(i)'
  <2>1. ReadOK(i) /\ Current(i)' = Current(i)
    BY <1>1 DEF IInv, Current
  <2>2. \A g \in Files \ touched' : g \in Files \ touched /\ outbox'[g] = outbox[g]
    BY <1>1 DEF IInv, TypeOK
  <2> QED BY <1>1, <2>1, <2>2 DEF ReadOK
<1> QED BY <1>1, <1>5, <1>6, OutsideInv

LEMMA DamageInv ==
    ASSUME IInv, NEW f \in Files, Damage(f)
    PROVE  IInv'
<1>1. /\ Fault /\ copies' = [copies EXCEPT ![f] = None]
      /\ UNCHANGED <<outbox, sealed, manifest, uploads, hooks, procs, touched>>
  BY DEF Damage
<1>2. copies' \in Snapshot
  BY <1>1 DEF IInv, TypeOK, Snapshot
<1>3. TypeOK'
  BY <1>1, <1>2, FaultTyped DEF IInv, TypeOK
<1>4. \A i \in Attempts : ReadOK(i)'
  BY <1>1, ReadKeeps DEF IInv
<1> QED BY <1>1, <1>3, <1>4, OutsideInv

LEMMA GiveUpInv ==
    ASSUME IInv, NEW i \in DOMAIN hooks, GiveUp(i)
    PROVE  IInv'
<1> DEFINE new == [hooks[i] EXCEPT !.status = "failed"]
<1>1. Fault /\ hooks' = [hooks EXCEPT ![i] = new] /\ UNCHANGED <<workspace, uploads, procs, touched>>
  BY DEF GiveUp
<1>2. hooks \in Seq(Hook) /\ hooks[i] \in Hook
  BY DEF IInv, TypeOK
<1>3. new \in Hook /\ new.output = hooks[i].output
  BY <1>2 DEF Hook
<1> HIDE DEF new
<1>4. /\ hooks' \in Seq(Hook) /\ DOMAIN hooks' = DOMAIN hooks /\ Len(hooks') = Len(hooks)
      /\ \A j \in DOMAIN hooks : hooks'[j].output = hooks[j].output
  BY <1>1, <1>2, <1>3, ExceptElements
<1>5. TypeOK'
  BY <1>1, <1>4, FaultTyped DEF IInv, TypeOK, workspace
<1>6. \A j \in Attempts : ReadOK(j)'
  BY <1>1, ReadKeeps DEF IInv, workspace
<1> QED BY <1>1, <1>4, <1>5, <1>6, OutsideInv DEF workspace

LEMMA ExecuteInv ==
    ASSUME IInv, Execute
    PROVE  IInv'
<1> DEFINE n == Len(hooks) + 1
           new == [status |-> "running", complete |-> FALSE, output |-> None]
<1>1. /\ Len(hooks) < MaxAttempts /\ hooks' = Append(hooks, new) /\ Go(n, "lock")
      /\ UNCHANGED <<workspace, uploads, touched, bounds>>
  BY DEF Execute
<1>2. hooks \in Seq(Hook) /\ Len(hooks) \in Nat /\ DOMAIN hooks = 1 .. Len(hooks) /\ new \in Hook /\ new.output = None
  BY DEF IInv, TypeOK, Hook
<1>3. n \in Attempts /\ n \notin DOMAIN hooks
  BY <1>1, <1>2, Basics
<1>4. procs[n].snap = Nothing /\ procs[n].pc = "none"
  BY <1>3 DEF IInv, StartOK
<1> HIDE DEF new
<1>5. /\ hooks' \in Seq(Hook) /\ Len(hooks') = n /\ DOMAIN hooks' = DOMAIN hooks \cup {n}
      /\ hooks'[n] = new /\ \A j \in DOMAIN hooks : hooks'[j] = hooks[j]
  BY <1>1, <1>2, AppendElements
<1> HIDE DEF n
<1>6. PICK q \in Process : procs' = [procs EXCEPT ![n] = q] /\ q.pc = "lock" /\ q.snap = procs[n].snap
  BY <1>1, <1>3, GoTyped DEF IInv, Steps
<1>7. /\ procs' \in [Attempts -> Process] /\ procs'[n] = q
      /\ \A j \in Attempts \ {n} : procs'[j] = procs[j]
  BY <1>3, <1>6, Update DEF IInv, TypeOK
<1>8. UNCHANGED <<outbox, sealed, copies, manifest, uploads, touched, writes, quick, faults>>
  BY <1>1 DEF workspace, bounds
<1>9. TypeOK'
  <2>1. Len(hooks') <= MaxAttempts
    BY <1>3, <1>5, Basics
  <2> QED BY <1>5, <1>7, <1>8, <2>1 DEF IInv, TypeOK
<1>10. ASSUME NEW j \in Attempts PROVE ReadOK(j)' /\ UploadOK(j)' /\ StartOK(j)'
  <2>1. CASE j = n
    BY <1>4, <1>5, <1>6, <1>7, <2>1 DEF ReadOK, UploadOK, StartOK, SealSteps
  <2>2. CASE j # n
    <3>1. procs'[j] = procs[j] /\ ReadOK(j)'
      BY <1>7, <1>8, <2>2, ReadKeeps DEF IInv
    <3>2. UploadOK(j)' /\ StartOK(j)'
      BY <1>5, <1>8, <3>1 DEF IInv, UploadOK, StartOK, Sound, All, Named
    <3> QED BY <3>1, <3>2
  <2> QED BY <2>1, <2>2
<1>11. OneHolder'
  BY <1>6, <1>7 DEF IInv, OneHolder, Holding
<1>12. ManifestOK'
  BY <1>8 DEF IInv, ManifestOK, Sound, All, Named
<1>13. PrintedOK'
  BY <1>2, <1>5, <1>8 DEF IInv, PrintedOK, Printing, All, Named
<1> QED BY <1>9, <1>10, <1>11, <1>12, <1>13 DEF IInv

-----------------------------------------------------------------------------

LEMMA InitInv == Init => IInv
<1> SUFFICES ASSUME Init PROVE IInv
  OBVIOUS
<1>1. \A i \in Attempts : procs[i] = NoProcess
  BY DEF Init
<1>2. outbox \in [Files -> [content : Contents \cup {None}, time : 0 .. MaxWrites]]
  <2>1. PICK left \in Initial : outbox = [f \in Files |-> [content |-> left[f], time |-> 0]]
    BY DEF Init
  <2>2. left \in [Files -> Contents \cup {None}]
    BY <2>1, NamesAssumption
  <2> QED BY <2>1, <2>2, Basics
<1>3. TypeOK
  <2>1. uploads \in Seq(Contents \cup {Torn}) /\ hooks \in Seq(Hook) /\ Len(hooks) = 0
    BY DEF Init
  <2> QED BY <1>2, <2>1, NothingTyped, Basics DEF Init, TypeOK
<1>4. \A i \in Attempts : ReadOK(i) /\ UploadOK(i) /\ StartOK(i) /\ ~Holding(i)
  BY <1>1, NothingTyped DEF ReadOK, UploadOK, StartOK, Holding, SealSteps
<1>5. ManifestOK /\ PrintedOK
  BY DEF Init, ManifestOK, PrintedOK, Printing
<1> QED BY <1>3, <1>4, <1>5 DEF IInv, OneHolder

LEMMA SealingInv ==
    ASSUME IInv, NEW i \in Attempts, Sealing(i)
    PROVE  IInv'
  BY UseSealedInv, ListInv, VisitInv, RestatInv, ReadAgainInv, SealInv, ReadRestInv, CopyInv DEF Sealing

LEMMA UploadingInv ==
    ASSUME IInv, NEW i \in Attempts, Uploading(i)
    PROVE  IInv'
<1>1. CASE PrintResult(i)
  BY <1>1, PrintedInv DEF PrintResult, bounds, IInv, TypeOK
<1>2. ASSUME NEW f \in Files, RefuseDamaged(i, f) PROVE IInv'
  BY <1>2, SealFails DEF RefuseDamaged, Sent
<1> QED BY <1>1, <1>2, ResumeInv, RecordInv, ReadyInv, UploadInv DEF Uploading

LEMMA EnvironmentInv == IInv /\ Environment => IInv'
<1> SUFFICES ASSUME IInv, Environment PROVE IInv'
  OBVIOUS
<1>1. ASSUME NEW i \in DOMAIN hooks, Kill(i) \/ Truncate(i) \/
             \E f \in Files : \E stored \in BOOLEAN : UploadFails(i, f, stored)
      PROVE  IInv'
  <2>1. i \in Attempts
    BY Basics DEF IInv, TypeOK
  <2>2. CASE Kill(i)
    BY <2>1, <2>2, FailInv, FaultTyped DEF Kill, IInv
  <2>3. CASE Truncate(i)
    BY <2>1, <2>3, PrintedInv, FaultTyped DEF Truncate, IInv
  <2>4. ASSUME NEW f \in Files, NEW stored \in BOOLEAN, UploadFails(i, f, stored) PROVE IInv'
    <3>1. /\ Fault /\ Sent(i, f) /\ ~Damaged(f) /\ Fail(i) /\ UNCHANGED <<workspace, touched>>
          /\ uploads' = IF stored THEN Append(uploads, copies[f]) ELSE uploads
      BY <2>4 DEF UploadFails
    <3>2. procs[i].pc # "none" /\ copies[f] \in Contents \cup {Torn}
      BY <2>1, <3>1, SentIs
    <3>3. uploads' = uploads \/ \E c \in Contents \cup {Torn} : uploads' = Append(uploads, c)
      BY <3>1, <3>2
    <3> QED BY <2>1, <3>1, <3>2, <3>3, FailInv, FaultTyped DEF IInv
  <2> QED BY <1>1, <2>2, <2>3, <2>4
<1> QED BY <1>1, ExecuteInv, WriteInv, DamageInv, GiveUpInv DEF Environment

LEMMA Inductive == IInv /\ [Next]_vars => IInv'
<1> SUFFICES ASSUME IInv, [Next]_vars PROVE IInv'
  OBVIOUS
<1>1. CASE UNCHANGED vars
  <2>1. UNCHANGED <<outbox, sealed, copies, manifest, uploads, hooks, procs, touched, writes, quick, faults>>
    BY <1>1 DEF vars, workspace, bounds
  <2>2. TypeOK'
    BY <2>1 DEF IInv, TypeOK
  <2>3. \A i \in Attempts : ReadOK(i)'
    BY <2>1, ReadKeeps DEF IInv
  <2> QED BY <2>1, <2>2, <2>3, OutsideInv
<1> QED BY <1>1, SealingInv, UploadingInv, EnvironmentInv DEF Next

LEMMA Invariance == Spec => []IInv
  BY InitInv, Inductive, PTL DEF Spec

-----------------------------------------------------------------------------

(* Types of the state.                                                      *)
THEOREM TypeCorrect == Spec => []TypeOK
<1>1. IInv => TypeOK
  BY DEF IInv
<1> QED BY Invariance, <1>1, PTL

(* The manifest tells the truth about what was uploaded, and all executions
   that print a result print the same, complete one (files.py:445-459,
   engine.go:148-155).                                                      *)
THEOREM SameResult == Spec => []OneResult
<1>1. IInv => OneResult
  <2> SUFFICES ASSUME IInv PROVE OneResult
    OBVIOUS
  <2>1. \A ids : Sound(ids) => Faithful(ids)
    BY DEF Sound, Faithful
  <2>2. ManifestTrue
    BY <2>1 DEF IInv, ManifestOK, ManifestTrue
  <2> QED BY <2>1, <2>2 DEF IInv, ManifestOK, PrintedOK, OneResult
<1> QED BY Invariance, <1>1, PTL

(* Only a complete reading of the outbox is sealed.                         *)
LEMMA Seals ==
    ASSUME IInv, [Next]_vars, sealed' # sealed
    PROVE  \E i \in Attempts : Seal(i)
<1>1. ASSUME NEW i \in Attempts, Sealing(i), ~Seal(i) PROVE FALSE
  BY <1>1 DEF Sealing, UseSealed, List, Visit, Restat, ReadAgain, ReadRest, Copy, workspace
<1>2. ASSUME NEW i \in Attempts, Uploading(i) PROVE FALSE
  BY <1>2 DEF Uploading, Resume, Record, Ready, PrintResult, Printed, RefuseDamaged, Upload, workspace
<1>3. ~Environment
  BY DEF Environment, Execute, Write, Damage, GiveUp, Kill, Truncate, Printed, UploadFails, workspace
<1> QED BY <1>1, <1>2, <1>3 DEF Next, vars, workspace

(* A run is sealed once, with every file that was left alone since its outbox
   was listed (files.py:379-414).                                           *)
THEOREM SealsFaithfully == Spec => SealFaithful
<1>1. ASSUME IInv, [Next]_vars, sealed' # sealed
      PROVE  sealed = None /\ \A f \in Files \ touched : sealed'[f] = outbox[f].content
  <2>1. PICK i \in Attempts : Seal(i)
    BY <1>1, Seals
  <2>2. procs[i].pc = "visit" /\ procs[i].todo = {} /\ sealed' = procs[i].snap /\ ReadOK(i)
    BY <1>1, <2>1 DEF Seal, IInv
  <2>3. procs[i].pc \in SealSteps
    BY <2>2 DEF SealSteps
  <2> QED BY <2>2, <2>3 DEF ReadOK
<1>2. IInv /\ [Next]_vars =>
        [sealed' # sealed => sealed = None /\ \A f \in Files \ touched : sealed'[f] = outbox[f].content]_vars
  BY <1>1
<1> QED BY Invariance, <1>2, PTL DEF Spec, SealFaithful
-----------------------------------------------------------------------------
(* Accounting for what was uploaded.                                        *)

Kept == {f \in Files : Recorded[f] # 0}
Recording(i) == procs[i].pc = "record"
InFlight == IF \E i \in Attempts : Recording(i) THEN 1 ELSE 0

(* A process about to record an upload adds one file to those recorded.     *)
AddsOne(i) == \E f \in Named(sealed) \ Kept : {g \in Files : procs[i].ids[g] # 0} = Kept \cup {f}

(* An upload is recorded, about to be, or covered by a fault.               *)
Accounting ==
    /\ uploads # <<>> \/ manifest # None => sealed # None
    /\ sealed # None => Kept \subseteq Named(sealed)
    /\ \A i \in Attempts : Recording(i) => AddsOne(i)
    /\ Len(uploads) <= Cardinality(Kept) + faults + InFlight

LEMMA Counts ==
    ASSUME IInv
    PROVE  /\ IInv' => Len(uploads') \in Nat /\ faults' \in Nat /\ InFlight' \in {0, 1}
           /\ IsFiniteSet(Kept) /\ Cardinality(Kept) \in Nat /\ InFlight \in {0, 1}
           /\ Len(uploads) \in Nat /\ faults \in Nat
           /\ \A S \in SUBSET Files : IsFiniteSet(S) /\ Cardinality(S) \in Nat
<1>1. \A S \in SUBSET Files : IsFiniteSet(S) /\ Cardinality(S) \in Nat
  BY Basics, FS_Subset, FS_CardinalityType
<1>2. Kept \in SUBSET Files
  BY DEF Kept
<1>3. Len(uploads) \in Nat /\ faults \in Nat
  BY Basics DEF IInv, TypeOK
<1>4. IInv' => Len(uploads') \in Nat /\ faults' \in Nat
  BY Basics DEF IInv, TypeOK
<1> QED BY <1>1, <1>2, <1>3, <1>4 DEF InFlight

(* The lock is held by one: no other records.                               *)
LEMMA NoneRecords ==
    ASSUME IInv, NEW i \in Attempts, Holding(i), ~Recording(i)
    PROVE  InFlight = 0
  BY DEF IInv, OneHolder, Holding, Recording, InFlight

(* Steps after which the same uploads are recorded.                         *)
LEMMA SameRecords ==
    ASSUME IInv, IInv', Accounting, sealed' = sealed, Recorded' = Recorded,
           uploads' # <<>> \/ manifest' # None => sealed # None,
           \A j \in Attempts : Recording(j)' => Recording(j) /\ procs'[j] = procs[j],
           Len(uploads') + faults + InFlight <= Len(uploads) + faults' + InFlight'
    PROVE  Accounting'
<1>1. Kept' = Kept
  BY DEF Kept
<1>2. Len(uploads') <= Cardinality(Kept)' + faults' + InFlight'
  <2>1. /\ Len(uploads) \in Nat /\ Len(uploads') \in Nat /\ faults \in Nat /\ faults' \in Nat
        /\ InFlight \in {0, 1} /\ InFlight' \in {0, 1} /\ Cardinality(Kept) \in Nat
        /\ Cardinality(Kept)' = Cardinality(Kept)
    BY <1>1, Counts
  <2>2. Len(uploads) <= Cardinality(Kept) + faults + InFlight
    BY DEF Accounting
  <2>3. Len(uploads') + faults + InFlight <= Len(uploads) + faults' + InFlight'
    OBVIOUS
  <2> QED BY <2>1, <2>2, <2>3
<1>3. ASSUME NEW j \in Attempts, Recording(j)' PROVE AddsOne(j)'
  BY <1>1, <1>3 DEF Accounting, AddsOne, Named
<1>4. sealed # None => Kept' \subseteq Named(sealed)'
  BY <1>1 DEF Accounting, Named
<1> QED BY <1>2, <1>3, <1>4 DEF Accounting

(* Most steps touch none of this.                                           *)
LEMMA Apart ==
    ASSUME IInv, IInv', Accounting, UNCHANGED <<sealed, manifest, uploads, faults>>, NEW i \in Attempts,
           \A j \in Attempts \ {i} : procs'[j] = procs[j], ~Recording(i), ~Recording(i)'
    PROVE  Accounting'
<1>1. \A j \in Attempts : Recording(j)' => Recording(j) /\ procs'[j] = procs[j]
  BY DEF Recording
<1>2. InFlight' = InFlight
  BY <1>1 DEF InFlight, Recording
<1>3. Recorded' = Recorded
  BY DEF Recorded
<1>4. uploads' # <<>> \/ manifest' # None => sealed # None
  BY DEF Accounting
<1> QED BY <1>1, <1>2, <1>3, <1>4, Counts, SameRecords

(* The last step of a process, which a fault may have caused.               *)
LEMMA EndAccounts ==
    ASSUME IInv, IInv', Accounting, NEW i \in Attempts, procs' = [procs EXCEPT ![i] = NoProcess],
           UNCHANGED <<sealed, manifest>>,
           Len(uploads') + faults + (IF Recording(i) THEN 1 ELSE 0) <= Len(uploads) + faults',
           uploads' # <<>> => sealed # None
    PROVE  Accounting'
<1>1. procs'[i] = NoProcess /\ \A j \in Attempts \ {i} : procs'[j] = procs[j]
  BY Update, NothingTyped DEF IInv, TypeOK
<1>2. \A j \in Attempts : Recording(j)' => Recording(j) /\ procs'[j] = procs[j]
  BY <1>1, NothingTyped DEF Recording
<1>3. Recorded' = Recorded
  BY DEF Recorded
<1>4. InFlight <= InFlight' + (IF Recording(i) THEN 1 ELSE 0)
  BY <1>1 DEF InFlight, Recording
<1>5. Len(uploads') + faults + InFlight <= Len(uploads) + faults' + InFlight'
  BY <1>4, Counts
<1>6. manifest # None => sealed # None
  BY DEF Accounting
<1> QED BY <1>2, <1>3, <1>5, <1>6, SameRecords

LEMMA FailAccounts ==
    ASSUME IInv, IInv', Accounting, NEW i \in Attempts, ~Recording(i), Fail(i), UNCHANGED <<workspace, uploads, bounds>>
    PROVE  Accounting'
<1>1. uploads # <<>> => sealed # None
  BY DEF Accounting
<1>2. UNCHANGED <<sealed, manifest, uploads, faults>>
  BY DEF workspace, bounds
<1>3. Len(uploads') + faults + (IF Recording(i) THEN 1 ELSE 0) <= Len(uploads) + faults'
  BY <1>2, Counts
<1> QED BY <1>1, <1>2, <1>3, EndAccounts DEF Fail

LEMMA SealingAccounts ==
    ASSUME IInv, IInv', Accounting, NEW i \in Attempts, Sealing(i)
    PROVE  Accounting'
<1>1. procs \in [Attempts -> Process] /\ procs[i] \in Process
  BY Typed DEF IInv, TypeOK
<1>2. CASE Seal(i)
  <2>1. /\ procs[i].pc = "visit" /\ procs[i].pc \in SealSteps /\ procs'[i].pc = "manifest"
        /\ \A j \in Attempts \ {i} : procs'[j] = procs[j]
        /\ UNCHANGED <<manifest, uploads, faults>>
    BY <1>1, <1>2 DEF Seal, SealSteps, bounds
  <2>2. sealed = None /\ manifest = None /\ manifest' = None /\ Holding(i) /\ ~Recording(i) /\ ~Recording(i)'
    <3>1. sealed = None /\ manifest = None /\ Holding(i)
      BY <2>1, Reads
    <3> QED BY <2>1, <3>1 DEF Recording
  <2>3. InFlight = 0 /\ InFlight' = 0
    BY <2>1, <2>2, NoneRecords DEF InFlight, Recording
  <2>4. Kept = {} /\ Kept' = {}
    BY <2>2 DEF Kept, Recorded, NoIds
  <2>5. uploads' = <<>> /\ uploads' = uploads /\ faults' = faults
    BY <2>1, <2>2 DEF Accounting
  <2>6. \A j \in Attempts : ~Recording(j)'
    BY <2>3 DEF InFlight
  <2> QED BY <2>2, <2>3, <2>4, <2>5, <2>6 DEF Accounting
<1>3. CASE ~Seal(i)
  <2>1. /\ \A j \in Attempts \ {i} : procs'[j] = procs[j]
        /\ ~Recording(i) /\ ~Recording(i)'
    <3>1. CASE UseSealed(i) \/ List(i)
      BY <1>1, <3>1 DEF UseSealed, List, Go, Recording, Process
    <3>2. ASSUME Fail(i), procs[i].pc # "record"
          PROVE  /\ \A j \in Attempts \ {i} : procs'[j] = procs[j]
                 /\ ~Recording(i) /\ ~Recording(i)'
      BY <1>1, <3>2, NothingTyped DEF Fail, Recording
    <3>3. CASE Visit(i) /\ ~Fail(i)
      <4> DEFINE f == Current(i)
                 q == [procs[i] EXCEPT !.pc = "rest", !.time = outbox[f].time, !.first = <<outbox[f].content>>]
      <4>1. procs[i].pc = "visit" /\ procs' = [procs EXCEPT ![i] = q]
        BY <3>3 DEF Visit
      <4>2. q.pc = "rest"
        BY <1>1 DEF Process
      <4> HIDE DEF q
      <4> QED BY <1>1, <4>1, <4>2 DEF Recording
    <3>4. CASE (Restat(i) \/ ReadAgain(i)) /\ ~Fail(i)
      BY <1>1, <3>4 DEF Restat, ReadAgain, Go, Recording, Process
    <3>5. ASSUME NEW c \in Contents, ReadRest(i, c) PROVE ~Recording(i) /\ ~Recording(i)'
                 /\ \A j \in Attempts \ {i} : procs'[j] = procs[j]
      BY <1>1, <3>5 DEF ReadRest, Recording, Process
    <3>6. ASSUME NEW c \in Contents, Copy(i, c), ~Fail(i) PROVE ~Recording(i) /\ ~Recording(i)'
                 /\ \A j \in Attempts \ {i} : procs'[j] = procs[j]
      <4>1. Copied(procs[i], Current(i)).pc = "visit"
        BY <1>1 DEF Copied, Process
      <4>2. procs' = [procs EXCEPT ![i] = Copied(procs[i], Current(i))] /\ procs[i].pc = "again rest"
        BY <3>6 DEF Copy
      <4> QED BY <1>1, <4>1, <4>2 DEF Recording
    <3>7. Fail(i) /\ (Visit(i) \/ Restat(i) \/ ReadAgain(i) \/ \E c \in Contents : Copy(i, c)) =>
             procs[i].pc # "record"
      BY DEF Visit, Restat, ReadAgain, Copy
    <3> QED BY <1>3, <3>1, <3>2, <3>3, <3>4, <3>5, <3>6, <3>7 DEF Sealing
  <2>2. UNCHANGED <<workspace, uploads, bounds>>
    BY <1>3 DEF Sealing, UseSealed, List, Visit, Restat, ReadAgain, ReadRest, Copy
  <2> QED BY <2>1, <2>2, Apart DEF workspace, bounds
<1> QED BY <1>2, <1>3

-----------------------------------------------------------------------------
(* Uploading.                                                               *)

LEMMA ResumeAccounts ==
    ASSUME IInv, IInv', Accounting, NEW i \in Attempts, Resume(i)
    PROVE  Accounting'
<1>1. procs \in [Attempts -> Process] /\ procs[i] \in Process
  BY Typed DEF IInv, TypeOK
<1>2. /\ procs[i].pc = "manifest" /\ procs'[i].pc = "upload"
      /\ manifest' = [stage |-> "uploading", ids |-> Recorded]
      /\ \A j \in Attempts \ {i} : procs'[j] = procs[j]
      /\ UNCHANGED <<sealed, uploads, faults>>
  BY <1>1 DEF Resume, bounds
<1>3. sealed # None /\ Holding(i) /\ ~Recording(i) /\ ~Recording(i)'
  BY <1>2, Uploads DEF Recording
<1>4. Recorded \in Ids
  BY <1>2, Uploads, NothingTyped DEF Recorded
<1>5. manifest' # None
  BY <1>2, <1>4, NoneAssumption DEF Manifest
<1>6. Recorded' = Recorded
  BY <1>2, <1>5 DEF Recorded
<1>7. InFlight = 0
  BY <1>3, NoneRecords
<1>8. \A j \in Attempts : Recording(j)' => Recording(j) /\ procs'[j] = procs[j]
  BY <1>2, <1>3 DEF Recording
<1> QED BY <1>2, <1>3, <1>6, <1>7, <1>8, Counts, SameRecords

LEMMA ReadyAccounts ==
    ASSUME IInv, IInv', Accounting, NEW i \in Attempts, Ready(i)
    PROVE  Accounting'
<1>1. procs \in [Attempts -> Process] /\ procs[i] \in Process
  BY Typed DEF IInv, TypeOK
<1>2. /\ procs[i].pc = "upload" /\ procs'[i].pc = "print"
      /\ manifest' = [stage |-> "ready", ids |-> procs[i].ids]
      /\ \A j \in Attempts \ {i} : procs'[j] = procs[j]
      /\ UNCHANGED <<sealed, uploads, faults>>
  BY <1>1 DEF Ready, Go, bounds
<1>3. /\ sealed # None /\ Holding(i) /\ ~Recording(i) /\ ~Recording(i)'
      /\ manifest # None /\ procs[i].ids = manifest.ids /\ procs[i].ids \in Ids
  BY <1>2, Uploads DEF Recording, UploadOK
<1>4. manifest' # None
  BY <1>2, <1>3, NoneAssumption DEF Manifest
<1>5. Recorded' = Recorded
  BY <1>2, <1>3, <1>4 DEF Recorded
<1>6. InFlight = 0
  BY <1>3, NoneRecords
<1>7. \A j \in Attempts : Recording(j)' => Recording(j) /\ procs'[j] = procs[j]
  BY <1>2, <1>3 DEF Recording
<1> QED BY <1>2, <1>3, <1>5, <1>6, <1>7, Counts, SameRecords

LEMMA UploadAccounts ==
    ASSUME IInv, IInv', Accounting, NEW i \in Attempts, NEW f \in Files, Upload(i, f)
    PROVE  Accounting'
<1> DEFINE n == Len(uploads')
<1>1. procs \in [Attempts -> Process] /\ procs[i] \in Process
  BY Typed DEF IInv, TypeOK
<1>2. Sent(i, f) /\ ~Damaged(f) /\ uploads' = Append(uploads, copies[f])
  BY DEF Upload
<1>3. /\ procs[i].pc = "upload" /\ f \in Named(sealed) /\ procs[i].ids[f] = 0
      /\ copies[f] \in Contents \cup {Torn}
  BY <1>2, SentIs
<1>4. /\ sealed # None /\ Holding(i) /\ ~Recording(i) /\ procs[i].ids \in Ids
      /\ manifest # None /\ manifest.ids = procs[i].ids
  BY <1>3, Uploads DEF Recording, UploadOK
<1>5. n = Len(uploads) + 1 /\ n # 0 /\ Len(uploads) \in Nat
  BY <1>2, <1>3, AppendElements, SeqElements DEF IInv, TypeOK
<1>6. /\ procs'[i].pc = "record" /\ procs'[i].ids = [procs[i].ids EXCEPT ![f] = n]
      /\ \A j \in Attempts \ {i} : procs'[j] = procs[j]
  BY <1>1 DEF Upload, Process
<1> HIDE DEF n
<1>7. UNCHANGED <<sealed, manifest, faults>>
  BY DEF Upload, workspace, bounds
<1>8. Kept' = Kept /\ Recorded = procs[i].ids
  BY <1>4, <1>7 DEF Kept, Recorded
<1>9. InFlight = 0
  BY <1>4, NoneRecords
<1>10. \A j \in Attempts \ {i} : ~Recording(j) /\ ~Recording(j)'
  BY <1>6, <1>9 DEF InFlight, Recording
<1>11. InFlight' = 1 /\ Recording(i)'
  BY <1>6 DEF InFlight, Recording
<1>12. AddsOne(i)'
  <2>1. {g \in Files : procs'[i].ids[g] # 0} = Kept \cup {f}
    BY <1>4, <1>5, <1>6, <1>8 DEF Kept, Ids
  <2>2. f \in Named(sealed)' \ Kept'
    BY <1>3, <1>7, <1>8 DEF Kept, Named
  <2> QED BY <1>8, <2>1, <2>2 DEF AddsOne
<1>13. Len(uploads') <= Cardinality(Kept)' + faults' + InFlight'
  <2>1. Len(uploads) <= Cardinality(Kept) + faults + InFlight
    BY DEF Accounting
  <2> QED BY <1>5, <1>7, <1>8, <1>9, <1>11, <2>1, Counts DEF n
<1>14. Kept' \subseteq Named(sealed)'
  BY <1>4, <1>7, <1>8 DEF Accounting, Named
<1> QED BY <1>4, <1>7, <1>10, <1>12, <1>13, <1>14 DEF Accounting

LEMMA RecordAccounts ==
    ASSUME IInv, IInv', Accounting, NEW i \in Attempts, Record(i)
    PROVE  Accounting'
<1>1. procs \in [Attempts -> Process] /\ procs[i] \in Process
  BY Typed DEF IInv, TypeOK
<1>2. /\ procs[i].pc = "record" /\ procs'[i].pc = "upload"
      /\ manifest' = [manifest EXCEPT !.ids = procs[i].ids]
      /\ \A j \in Attempts \ {i} : procs'[j] = procs[j]
      /\ UNCHANGED <<sealed, uploads, faults>>
  BY <1>1 DEF Record, Go, bounds
<1>3. /\ sealed # None /\ Holding(i) /\ Recording(i) /\ ~Recording(i)'
      /\ manifest \in Manifest /\ procs[i].ids \in Ids
  BY <1>2, Uploads DEF Recording
<1>4. manifest'.ids = procs[i].ids /\ manifest' # None
  BY <1>2, <1>3, NoneAssumption DEF Manifest
<1>5. Recorded' = procs[i].ids
  BY <1>4 DEF Recorded
<1>6. PICK f \in Named(sealed) \ Kept : {g \in Files : procs[i].ids[g] # 0} = Kept \cup {f}
  BY <1>3 DEF Accounting, AddsOne
<1>7. Kept' = Kept \cup {f}
  BY <1>5, <1>6 DEF Kept
<1>8. Cardinality(Kept)' = Cardinality(Kept) + 1
  BY <1>6, <1>7, Counts, FS_AddElement
<1>9. \A j \in Attempts : ~Recording(j)'
  BY <1>2, <1>3 DEF IInv, OneHolder, Holding, Recording
<1>10. InFlight = 1 /\ InFlight' = 0
  BY <1>3, <1>9 DEF InFlight
<1>11. Len(uploads') <= Cardinality(Kept)' + faults' + InFlight'
  <2>1. Len(uploads) <= Cardinality(Kept) + faults + InFlight
    BY DEF Accounting
  <2> QED BY <1>2, <1>8, <1>10, <2>1, Counts
<1>12. Kept' \subseteq Named(sealed)'
  BY <1>2, <1>3, <1>6, <1>7 DEF Accounting, Named
<1> QED BY <1>2, <1>3, <1>9, <1>11, <1>12 DEF Accounting

LEMMA UploadingAccounts ==
    ASSUME IInv, IInv', Accounting, NEW i \in Attempts, Uploading(i)
    PROVE  Accounting'
<1>1. CASE PrintResult(i)
  <2>1. /\ ~Recording(i) /\ procs' = [procs EXCEPT ![i] = NoProcess]
        /\ UNCHANGED <<sealed, manifest, uploads, faults>>
    BY <1>1 DEF PrintResult, Printed, Recording, workspace, bounds
  <2>2. Len(uploads') + faults + (IF Recording(i) THEN 1 ELSE 0) <= Len(uploads) + faults'
    BY <2>1, Counts
  <2> QED BY <2>1, <2>2, EndAccounts DEF Accounting
<1>2. ASSUME NEW f \in Files, RefuseDamaged(i, f) PROVE Accounting'
  BY <1>2, FailAccounts DEF RefuseDamaged, Sent, Recording
<1> QED BY <1>1, <1>2, ResumeAccounts, RecordAccounts, ReadyAccounts, UploadAccounts DEF Uploading

LEMMA EnvironmentAccounts == IInv /\ IInv' /\ Accounting /\ Environment => Accounting'
<1> SUFFICES ASSUME IInv, IInv', Accounting, Environment PROVE Accounting'
  OBVIOUS
<1> DEFINE Others == /\ UNCHANGED <<sealed, manifest, uploads>> /\ faults' \in {faults, faults + 1}
                     /\ \A j \in Attempts : Recording(j)' <=> Recording(j)
                     /\ \A j \in Attempts : Recording(j) => procs'[j] = procs[j]
<1>1. ASSUME Others PROVE Accounting'
  <2>1. InFlight' = InFlight
    BY <1>1 DEF InFlight
  <2>2. Recorded' = Recorded
    BY <1>1 DEF Recorded
  <2>3. uploads # <<>> \/ manifest # None => sealed # None
    BY DEF Accounting
  <2> QED BY <1>1, <2>1, <2>2, <2>3, Counts, SameRecords
<1>2. CASE Execute
  <2>1. PICK n : Go(n, "lock") /\ n = Len(hooks) + 1 /\ Len(hooks) < MaxAttempts
    BY <1>2 DEF Execute
  <2>2. n \in Attempts /\ n \notin DOMAIN hooks
    BY <2>1, Basics, SeqElements DEF IInv, TypeOK
  <2>3. procs[n].pc = "none" /\ procs \in [Attempts -> Process] /\ procs[n] \in Process
    BY <2>2, Typed DEF IInv, StartOK, TypeOK
  <2>4. procs'[n].pc = "lock" /\ \A j \in Attempts \ {n} : procs'[j] = procs[j]
    BY <2>1, <2>2, <2>3 DEF Go
  <2>5. \A j \in Attempts : (Recording(j)' <=> Recording(j)) /\ (Recording(j) => procs'[j] = procs[j])
    BY <2>3, <2>4 DEF Recording
  <2> QED BY <1>1, <1>2, <2>5 DEF Execute, workspace, bounds
<1>3. ASSUME NEW f \in Files, NEW c \in Contents \cup {None}, NEW seen \in BOOLEAN, Write(f, c, seen)
      PROVE  Accounting'
  BY <1>1, <1>3 DEF Write, Recording
<1>4. ASSUME NEW f \in Files, Damage(f) PROVE Accounting'
  BY <1>1, <1>4 DEF Damage, Fault, Recording
<1>5. ASSUME NEW i \in DOMAIN hooks, GiveUp(i) PROVE Accounting'
  BY <1>1, <1>5 DEF GiveUp, Fault, Recording, workspace
<1>6. ASSUME NEW i \in DOMAIN hooks, Kill(i) \/ Truncate(i) \/
             \E f \in Files : \E stored \in BOOLEAN : UploadFails(i, f, stored)
      PROVE  Accounting'
  <2>1. i \in Attempts
    BY Basics, SeqElements DEF IInv, TypeOK
  <2>2. CASE Kill(i)
    <3>1. /\ procs' = [procs EXCEPT ![i] = NoProcess] /\ faults' = faults + 1
          /\ UNCHANGED <<sealed, manifest, uploads>>
      BY <2>2 DEF Kill, Fault, Fail, workspace
    <3>2. Len(uploads') + faults + (IF Recording(i) THEN 1 ELSE 0) <= Len(uploads) + faults'
      BY <3>1, Counts
    <3> QED BY <2>1, <3>1, <3>2, EndAccounts DEF Accounting
  <2>3. CASE Truncate(i)
    <3>1. /\ procs' = [procs EXCEPT ![i] = NoProcess] /\ faults' = faults + 1
          /\ UNCHANGED <<sealed, manifest, uploads>>
      BY <2>3 DEF Truncate, Printed, Fault, workspace
    <3>2. Len(uploads') + faults + (IF Recording(i) THEN 1 ELSE 0) <= Len(uploads) + faults'
      BY <3>1, Counts
    <3> QED BY <2>1, <3>1, <3>2, EndAccounts DEF Accounting
  <2>4. ASSUME NEW f \in Files, NEW stored \in BOOLEAN, UploadFails(i, f, stored) PROVE Accounting'
    <3>1. /\ faults' = faults + 1 /\ Sent(i, f) /\ ~Damaged(f) /\ procs' = [procs EXCEPT ![i] = NoProcess]
          /\ uploads' = (IF stored THEN Append(uploads, copies[f]) ELSE uploads)
          /\ UNCHANGED <<sealed, manifest>>
      BY <2>4 DEF UploadFails, Fault, Fail, workspace
    <3>2. procs[i].pc = "upload" /\ copies[f] \in Contents \cup {Torn}
      BY <2>1, <3>1, SentIs
    <3>3. sealed # None /\ ~Recording(i)
      BY <2>1, <3>2, Uploads DEF Recording
    <3>4. uploads \in Seq(Contents \cup {Torn})
      BY DEF IInv, TypeOK
    <3>5. Len(uploads') <= Len(uploads) + 1
      BY <3>1, <3>2, <3>4, AppendElements, SeqElements
    <3>6. Len(uploads') + faults + (IF Recording(i) THEN 1 ELSE 0) <= Len(uploads) + faults'
      BY <3>1, <3>3, <3>5, Counts
    <3> QED BY <2>1, <3>1, <3>3, <3>6, EndAccounts
  <2> QED BY <1>6, <2>2, <2>3, <2>4
<1> QED BY <1>2, <1>3, <1>4, <1>5, <1>6 DEF Environment

LEMMA InitAccounts == Init => Accounting
<1> SUFFICES ASSUME Init PROVE Accounting
  OBVIOUS
<1>1. \A i \in Attempts : ~Recording(i)
  BY NothingTyped DEF Init, Recording
<1>2. Kept = {} /\ InFlight = 0 /\ Len(uploads) = 0 /\ faults = 0
  BY <1>1 DEF Init, Kept, Recorded, NoIds, InFlight
<1> QED BY <1>1, <1>2, FS_EmptySet DEF Init, Accounting

(* An upload that was recorded is not repeated: the uploads left unused are
   those whose answer was lost or not recorded before a kill
   (files.py:445-459, docs/FILES.md:98-99).                                 *)
THEOREM UploadsOnce == Spec => []UploadsAccounted
<1>1. IInv /\ IInv' /\ Accounting /\ [Next]_vars => Accounting'
  <2> SUFFICES ASSUME IInv, IInv', Accounting, [Next]_vars PROVE Accounting'
    OBVIOUS
  <2>1. CASE UNCHANGED vars
    BY <2>1 DEF vars, workspace, bounds, Accounting, AddsOne, Recording, InFlight, Kept, Recorded, Named
  <2> QED BY <2>1, SealingAccounts, UploadingAccounts, EnvironmentAccounts DEF Next
<1>2. IInv /\ Accounting => UploadsAccounted
  <2> SUFFICES ASSUME IInv, Accounting, uploads # <<>>
               PROVE  Len(uploads) <= Cardinality(Named(sealed)) + faults
    BY DEF UploadsAccounted
  <2>1. Kept \subseteq Named(sealed) /\ Named(sealed) \in SUBSET Files
    BY DEF Accounting, Named
  <2>2. Cardinality(Kept) + InFlight <= Cardinality(Named(sealed))
    <3>1. CASE InFlight = 0
      BY <2>1, <3>1, Counts, FS_Subset
    <3>2. CASE InFlight # 0
      <4>1. PICK f : f \in Named(sealed) \ Kept
        BY <3>2 DEF InFlight, Accounting, AddsOne
      <4>2. Cardinality(Kept \cup {f}) = Cardinality(Kept) + 1
        BY <4>1, Counts, FS_AddElement
      <4>3. Kept \cup {f} \in SUBSET Named(sealed)
        BY <2>1, <4>1
      <4>4. Cardinality(Kept \cup {f}) <= Cardinality(Named(sealed))
        BY <2>1, <4>3, Counts, FS_Subset
      <4>5. InFlight = 1
        BY <3>2, Counts
      <4> QED BY <2>1, <4>2, <4>4, <4>5, Counts
    <3> QED BY <3>1, <3>2
  <2>3. Len(uploads) <= Cardinality(Kept) + faults + InFlight
    BY DEF Accounting
  <2> QED BY <2>1, <2>2, <2>3, Counts
<1> QED BY InitInv, Inductive, Invariance, InitAccounts, <1>1, <1>2, PTL DEF Spec
-----------------------------------------------------------------------------
(* What it takes for a mixture of two contents to be read the same twice:
   three writes, one before each of its later parts is read.                *)

Mixed(part) == part[1] # part[2]
MixedOK(i) ==
    LET q == procs[i]
        c == outbox[Current(i)].content IN
    /\ \A f \in Files : q.snap[f] = Torn => writes >= 3
    /\ q.pc = "rest" => Len(q.first) = 1 /\ (c # q.first[1] => writes >= 1)
    /\ q.pc \in {"restat", "again", "again rest"} => Len(q.first) = 2
    /\ q.pc \in {"restat", "again"} /\ Mixed(q.first) => writes >= 1 /\ (c # q.first[2] => writes >= 2)
    /\ q.pc = "again rest" =>
          /\ Len(q.second) = 1
          /\ Mixed(q.first) /\ q.second[1] = q.first[1] => writes >= 2 /\ (c # q.second[1] => writes >= 3)
SealedOK == sealed # None => \A f \in Files : sealed[f] = Torn => writes >= 3
Whole == SealedOK /\ \A i \in Attempts : MixedOK(i)

(* A process that is not disturbed.                                         *)
LEMMA MixedKeeps ==
    ASSUME NEW i \in Attempts, MixedOK(i), procs'[i] = procs[i], UNCHANGED <<outbox, writes>>
    PROVE  MixedOK(i)'
<1>1. Current(i)' = Current(i)
  BY DEF Current
<1> QED BY <1>1 DEF MixedOK

(* What is written meanwhile counts.                                         *)
LEMMA MixedLater ==
    ASSUME NEW i \in Attempts, MixedOK(i), procs'[i] = procs[i], writes \in Nat, writes' = writes + 1
    PROVE  MixedOK(i)'
<1>1. /\ \A f \in Files : procs[i].snap[f] = Torn => writes >= 3
      /\ procs[i].pc = "rest" => Len(procs[i].first) = 1
      /\ procs[i].pc \in {"restat", "again", "again rest"} => Len(procs[i].first) = 2
      /\ procs[i].pc \in {"restat", "again"} /\ Mixed(procs[i].first) => writes >= 1
      /\ procs[i].pc = "again rest" => Len(procs[i].second) = 1
      /\ procs[i].pc = "again rest" /\ Mixed(procs[i].first) /\ procs[i].second[1] = procs[i].first[1] => writes >= 2
  BY Zenon DEF MixedOK
<1>2. writes' >= 1
  OBVIOUS
<1>3. writes >= 1 => writes' >= 2
  OBVIOUS
<1>4. writes >= 2 => writes' >= 3 /\ writes' >= 2
  OBVIOUS
<1>5. writes >= 3 => writes' >= 3
  OBVIOUS
<1> QED BY <1>1, <1>2, <1>3, <1>4, <1>5, Zenon DEF MixedOK, Mixed

(* A step of one process that reads.                                        *)
LEMMA ReadsWhole ==
    ASSUME IInv, Whole, NEW i \in Attempts, NEW q \in Process, procs' = [procs EXCEPT ![i] = q],
           UNCHANGED <<outbox, writes>>, sealed' = sealed \/ sealed' = procs[i].snap, MixedOK(i)'
    PROVE  Whole'
<1>1. \A j \in Attempts \ {i} : procs'[j] = procs[j]
  BY Update DEF IInv, TypeOK
<1>2. \A j \in Attempts : MixedOK(j)'
  BY <1>1, MixedKeeps DEF Whole
<1>3. SealedOK'
  BY DEF Whole, SealedOK, MixedOK
<1> QED BY <1>2, <1>3 DEF Whole

(* One that reads nothing.                                                  *)
LEMMA IdleWhole ==
    ASSUME IInv, Whole, NEW i \in Attempts, NEW q \in Process, procs' = [procs EXCEPT ![i] = q],
           UNCHANGED <<outbox, writes>>, sealed' = sealed \/ sealed' = procs[i].snap,
           q.pc \notin {"rest", "restat", "again", "again rest"}, q.snap \in {procs[i].snap, Nothing}
    PROVE  Whole'
<1>1. procs'[i] = q
  BY Update DEF IInv, TypeOK
<1>2. \A f \in Files : q.snap[f] = Torn => writes' >= 3
  BY Basics DEF Whole, MixedOK, Nothing
<1>3. MixedOK(i)'
  BY <1>1, <1>2 DEF MixedOK
<1> QED BY <1>3, ReadsWhole

LEMMA FailWhole ==
    ASSUME IInv, Whole, NEW i \in Attempts, Fail(i), UNCHANGED <<outbox, sealed, writes>>
    PROVE  Whole'
  BY IdleWhole, NothingTyped DEF Fail

LEMMA GoWhole ==
    ASSUME IInv, Whole, NEW i \in Attempts, NEW pc \in Steps, Go(i, pc), UNCHANGED <<outbox, sealed, writes>>,
           pc \notin {"rest", "restat", "again", "again rest"}
    PROVE  Whole'
<1>1. PICK q \in Process :
          /\ procs' = [procs EXCEPT ![i] = q] /\ q.pc = pc /\ q.todo = procs[i].todo
          /\ q.first = procs[i].first /\ q.second = procs[i].second
          /\ q.snap = procs[i].snap /\ q.ids = procs[i].ids
  <2>1. TypeOK
    BY DEF IInv
  <2> QED BY <2>1, GoTyped, Zenon
<1> QED BY <1>1, IdleWhole

LEMMA SealingWhole ==
    ASSUME IInv, Whole, NEW i \in Attempts, Sealing(i)
    PROVE  Whole'
<1>1. procs[i] \in Process /\ MixedOK(i) /\ procs \in [Attempts -> Process] /\ writes \in Nat
  BY Typed, Basics DEF IInv, TypeOK, Whole
<1> DEFINE f == Current(i)
           c == outbox[f].content
<1>2. CASE UseSealed(i)
  BY <1>2, GoWhole DEF UseSealed, Steps, workspace, bounds
<1>3. CASE List(i)
  <2> DEFINE q == [procs[i] EXCEPT !.pc = "visit", !.todo = {g \in Files : Present(g)}]
  <2>1. procs' = [procs EXCEPT ![i] = q] /\ UNCHANGED <<outbox, sealed, writes>>
    BY <1>3 DEF List, workspace, bounds
  <2>2. q \in Process /\ q.pc = "visit" /\ q.snap = procs[i].snap
    BY <1>1 DEF Process
  <2> HIDE DEF q
  <2> QED BY <2>1, <2>2, IdleWhole
<1>4. CASE Seal(i)
  <2> DEFINE q == [procs[i] EXCEPT !.pc = "manifest", !.snap = Nothing]
  <2>1. procs' = [procs EXCEPT ![i] = q] /\ UNCHANGED <<outbox, writes>> /\ sealed' = procs[i].snap
    BY <1>4 DEF Seal, bounds
  <2>2. q \in Process /\ q.pc = "manifest" /\ q.snap = Nothing
    BY <1>1, NothingTyped DEF Process
  <2> HIDE DEF q
  <2> QED BY <2>1, <2>2, IdleWhole
<1>5. ASSUME Fail(i), UNCHANGED <<workspace, bounds>> PROVE Whole'
  BY <1>5, FailWhole DEF workspace, bounds
<1>6. ASSUME procs[i].pc \in SealSteps, procs[i].pc # "visit" \/ procs[i].todo # {}
      PROVE  /\ f \in procs[i].todo /\ f \in Files /\ outbox[f].time \in Nat
             /\ c # None => c \in Contents /\ <<c>> \in Seq(Contents) /\ <<c>>[1] = c /\ Len(<<c>>) = 1
  <2>1. f \in procs[i].todo /\ f \in Files
    BY <1>6, Reads
  <2>2. outbox[f] \in [content : Contents \cup {None}, time : 0 .. MaxWrites]
    BY <2>1 DEF IInv, TypeOK
  <2> QED BY <2>1, <2>2, Basics
<1>7. CASE Visit(i) /\ ~Fail(i)
  <2> DEFINE q == [procs[i] EXCEPT !.pc = "rest", !.time = outbox[f].time, !.first = <<c>>]
  <2>1. /\ procs' = [procs EXCEPT ![i] = q] /\ UNCHANGED <<outbox, sealed, writes>>
        /\ procs[i].pc = "visit" /\ procs[i].todo # {} /\ c # None
    BY <1>7 DEF Visit, Acceptable, workspace, bounds
  <2>2. /\ outbox[f].time \in Nat /\ c \in Contents
        /\ <<c>> \in Seq(Contents) /\ <<c>>[1] = c /\ Len(<<c>>) = 1
    BY <1>6, <2>1 DEF SealSteps
  <2>3. /\ q \in Process /\ q.pc = "rest" /\ q.snap = procs[i].snap /\ q.todo = procs[i].todo
        /\ q.first = <<c>>
    BY <1>1, <2>2 DEF Process
  <2> HIDE DEF q
  <2>4. procs'[i] = q /\ Current(i)' = f /\ outbox' = outbox
    BY <2>1, <2>3, Update DEF IInv, TypeOK, Current
  <2>5. MixedOK(i)'
    BY <1>1, <2>1, <2>2, <2>3, <2>4 DEF MixedOK
  <2> QED BY <2>1, <2>3, <2>5, ReadsWhole
<1>8. ASSUME NEW d \in Contents, ReadRest(i, d) PROVE Whole'
  <2> DEFINE q == [procs[i] EXCEPT !.pc = "restat", !.first = Append(procs[i].first, d)]
  <2>1. /\ procs' = [procs EXCEPT ![i] = q] /\ UNCHANGED <<outbox, sealed, writes>>
        /\ procs[i].pc = "rest" /\ d \in {procs[i].first[1], c}
    BY <1>8 DEF ReadRest, RestOf, workspace, bounds
  <2>2. /\ procs[i].first \in Seq(Contents) /\ Len(procs[i].first) = 1
        /\ c # procs[i].first[1] => writes >= 1
    BY <1>1, <2>1 DEF Process, MixedOK
  <2>3. /\ Append(procs[i].first, d) \in Seq(Contents) /\ Len(Append(procs[i].first, d)) = 2
        /\ Append(procs[i].first, d)[1] = procs[i].first[1] /\ Append(procs[i].first, d)[2] = d
    BY <2>2, AppendElements
  <2>4. /\ q \in Process /\ q.pc = "restat" /\ q.snap = procs[i].snap /\ q.todo = procs[i].todo
        /\ q.first = Append(procs[i].first, d)
    BY <1>1, <2>3 DEF Process
  <2> HIDE DEF q
  <2>5. procs'[i] = q /\ Current(i)' = f /\ outbox' = outbox
    BY <2>1, <2>4, Update DEF IInv, TypeOK, Current
  <2>6. MixedOK(i)'
    BY <1>1, <2>1, <2>2, <2>3, <2>4, <2>5 DEF MixedOK, Mixed
  <2> QED BY <2>1, <2>4, <2>6, ReadsWhole
<1>9. CASE Restat(i) /\ ~Fail(i)
  <2>1. /\ procs[i].pc = "restat" /\ Go(i, "again") /\ UNCHANGED <<outbox, sealed, writes>>
    BY <1>9 DEF Restat, workspace, bounds
  <2>2. PICK q \in Process : /\ procs' = [procs EXCEPT ![i] = q] /\ q.pc = "again" /\ q.todo = procs[i].todo
                             /\ q.first = procs[i].first /\ q.snap = procs[i].snap
    <3>1. "again" \in Steps
      BY DEF Steps, SealSteps
    <3> QED BY <2>1, <3>1, GoTyped DEF IInv
  <2>3. procs'[i] = q /\ Current(i)' = f /\ outbox' = outbox
    BY <2>1, <2>2, Update DEF IInv, TypeOK, Current
  <2>4. MixedOK(i)'
    BY <1>1, <2>1, <2>2, <2>3 DEF MixedOK
  <2> QED BY <2>1, <2>2, <2>4, ReadsWhole
<1>10. CASE ReadAgain(i) /\ ~Fail(i)
  <2> DEFINE q == [procs[i] EXCEPT !.pc = "again rest", !.second = <<c>>]
  <2>1. /\ procs' = [procs EXCEPT ![i] = q] /\ UNCHANGED <<outbox, sealed, writes>>
        /\ procs[i].pc = "again" /\ c # None
    BY <1>10 DEF ReadAgain, workspace, bounds
  <2>2. c \in Contents /\ <<c>> \in Seq(Contents) /\ <<c>>[1] = c /\ Len(<<c>>) = 1
    BY <1>6, <2>1 DEF SealSteps
  <2>3. /\ q \in Process /\ q.pc = "again rest" /\ q.snap = procs[i].snap /\ q.todo = procs[i].todo
        /\ q.first = procs[i].first /\ q.second = <<c>>
    BY <1>1, <2>2 DEF Process
  <2> HIDE DEF q
  <2>4. procs'[i] = q /\ Current(i)' = f /\ outbox' = outbox
    BY <2>1, <2>3, Update DEF IInv, TypeOK, Current
  <2>5. MixedOK(i)'
    <3>1. /\ Len(procs[i].first) = 2 /\ \A g \in Files : procs[i].snap[g] = Torn => writes >= 3
          /\ Mixed(procs[i].first) => writes >= 1 /\ (c # procs[i].first[2] => writes >= 2)
      BY <1>1, <2>1 DEF MixedOK
    <3> QED BY <1>1, <2>1, <2>2, <2>3, <2>4, <3>1 DEF MixedOK, Mixed
  <2> QED BY <2>1, <2>3, <2>5, ReadsWhole
<1>11. ASSUME NEW d \in Contents, Copy(i, d), ~Fail(i) PROVE Whole'
  <2> DEFINE q == Copied(procs[i], f)
             first == procs[i].first
             second == procs[i].second
  <2>1. /\ procs' = [procs EXCEPT ![i] = q] /\ UNCHANGED <<outbox, sealed, writes>>
        /\ procs[i].pc = "again rest" /\ first = Append(second, d) /\ d \in {second[1], c}
    BY <1>11 DEF Copy, Same, RestOf, workspace, bounds
  <2>2. /\ first \in Seq(Contents) /\ second \in Seq(Contents) /\ Len(second) = 1
        /\ procs[i].snap \in Snapshot /\ f \in Files
    BY <1>1, <1>6, <2>1 DEF Process, MixedOK, SealSteps
  <2>3. first[1] = second[1] /\ first[2] = d /\ first[1] \in Contents
    <3>1. second[1] \in Contents /\ Append(second, d)[1] = second[1] /\ Append(second, d)[2] = d
      BY <2>2
    <3> QED BY <2>1, <3>1
  <2>4. Reading(first) \in Contents \cup {Torn} /\ (Reading(first) = Torn => writes >= 3)
    BY <1>1, <2>1, <2>3, Basics DEF Reading, MixedOK, Mixed
  <2>5. /\ q \in Process /\ q.pc = "visit" /\ q.snap = [procs[i].snap EXCEPT ![f] = Reading(first)]
    <3> DEFINE snap == [procs[i].snap EXCEPT ![f] = Reading(first)]
    <3>1. snap \in Snapshot
      BY <2>2, <2>4 DEF Snapshot
    <3>2. q = [procs[i] EXCEPT !.pc = "visit", !.todo = procs[i].todo \ {f}, !.time = 0, !.first = <<>>,
                               !.second = <<>>, !.snap = snap]
      BY DEF Copied
    <3> HIDE DEF q, snap
    <3>3. <<>> \in Seq(Contents)
      OBVIOUS
    <3>4. q \in Process /\ q.pc = "visit" /\ q.snap = snap
      BY <1>1, <3>1, <3>2, <3>3 DEF Process
    <3> QED BY <3>4 DEF snap
  <2>6. \A g \in Files : q.snap[g] = Torn => writes >= 3
    BY <1>1, <2>2, <2>4, <2>5 DEF MixedOK, Snapshot
  <2> HIDE DEF q
  <2>7. procs'[i] = q /\ writes' = writes
    BY <2>1, <2>5, Update DEF IInv, TypeOK
  <2>8. MixedOK(i)'
    BY <2>5, <2>6, <2>7 DEF MixedOK
  <2> QED BY <2>1, <2>5, <2>8, ReadsWhole
<1>12. UNCHANGED bounds /\ (~Seal(i) => UNCHANGED workspace)
  BY DEF Sealing, UseSealed, List, Visit, Restat, ReadAgain, Seal, ReadRest, Copy
<1> QED BY <1>2, <1>3, <1>4, <1>5, <1>7, <1>8, <1>9, <1>10, <1>11, <1>12 DEF Sealing

LEMMA OtherWhole ==
    ASSUME IInv, Whole, NEW i \in Attempts,
           \/ Uploading(i) \/ Kill(i) \/ Truncate(i)
           \/ \E f \in Files : \E stored \in BOOLEAN : UploadFails(i, f, stored)
    PROVE  Whole'
<1>1. procs[i] \in Process /\ procs \in [Attempts -> Process] /\ procs[i].ids \in Ids
  BY Typed DEF IInv, TypeOK
<1>2. CASE Kill(i)
  BY <1>2, FailWhole DEF Kill, Fault, workspace
<1>3. CASE Truncate(i) \/ PrintResult(i)
  BY <1>3, IdleWhole, NothingTyped DEF Truncate, PrintResult, Printed, Fault, workspace, bounds
<1>4. ASSUME NEW f \in Files, RefuseDamaged(i, f) \/ \E stored \in BOOLEAN : UploadFails(i, f, stored) PROVE Whole'
  BY <1>4, FailWhole DEF RefuseDamaged, UploadFails, Fault, workspace, bounds
<1>5. CASE Record(i) \/ Ready(i)
  BY <1>5, GoWhole DEF Record, Ready, Steps, bounds
<1>6. CASE Resume(i)
  <2> DEFINE q == [procs[i] EXCEPT !.pc = "upload", !.ids = Recorded]
  <2>1. procs' = [procs EXCEPT ![i] = q] /\ UNCHANGED <<outbox, sealed, writes>> /\ procs[i].pc = "manifest"
    BY <1>6 DEF Resume, bounds
  <2>2. Recorded \in Ids
    BY <2>1, Uploads, NothingTyped DEF Recorded
  <2>3. q \in Process /\ q.pc = "upload" /\ q.snap = procs[i].snap
    BY <1>1, <2>2 DEF Process
  <2> HIDE DEF q
  <2> QED BY <2>1, <2>3, IdleWhole
<1>7. ASSUME NEW f \in Files, Upload(i, f) PROVE Whole'
  <2> DEFINE q == [procs[i] EXCEPT !.pc = "record", !.ids[f] = Len(uploads')]
  <2>1. procs' = [procs EXCEPT ![i] = q] /\ UNCHANGED <<outbox, sealed, writes>>
    BY <1>7 DEF Upload, workspace, bounds
  <2>2. Len(uploads') \in Nat
    <3>1. copies[f] \in Contents \cup {Torn} /\ uploads' = Append(uploads, copies[f])
      BY <1>7, SentIs DEF Upload
    <3> QED BY <3>1, AppendElements, SeqElements DEF IInv, TypeOK
  <2>3. q \in Process /\ q.pc = "record" /\ q.snap = procs[i].snap
    BY <1>1, <2>2 DEF Process, Ids
  <2> HIDE DEF q
  <2> QED BY <2>1, <2>3, IdleWhole
<1> QED BY <1>2, <1>3, <1>4, <1>5, <1>6, <1>7 DEF Uploading

LEMMA EnvironmentWhole == IInv /\ Whole /\ Environment => Whole'
<1> SUFFICES ASSUME IInv, Whole, Environment PROVE Whole'
  OBVIOUS
<1>1. ASSUME UNCHANGED <<outbox, sealed, procs, writes>> PROVE Whole'
  BY <1>1, MixedKeeps DEF Whole, SealedOK
<1>2. CASE Execute
  <2>1. PICK n : Go(n, "lock") /\ n = Len(hooks) + 1 /\ Len(hooks) < MaxAttempts
    BY <1>2 DEF Execute
  <2>2. n \in Attempts
    BY <2>1, Basics, SeqElements DEF IInv, TypeOK
  <2> QED BY <1>2, <2>1, <2>2, GoWhole DEF Execute, Steps, workspace, bounds
<1>3. ASSUME NEW f \in Files, NEW c \in Contents \cup {None}, NEW seen \in BOOLEAN, Write(f, c, seen)
      PROVE  Whole'
  <2>1. writes' = writes + 1 /\ writes \in Nat /\ UNCHANGED <<sealed, procs>>
        /\ \A g \in Files \ {f} : outbox'[g] = outbox[g]
    BY <1>3, Basics DEF Write, IInv, TypeOK
  <2>2. SealedOK'
    BY <2>1 DEF Whole, SealedOK
  <2>3. ASSUME NEW i \in Attempts PROVE MixedOK(i)'
    <3>1. MixedOK(i) /\ Current(i)' = Current(i)
      BY <2>1 DEF Whole, Current
    <3> QED BY <2>1, <3>1, MixedLater
  <2> QED BY <2>2, <2>3 DEF Whole
<1>4. ASSUME NEW f \in Files, Damage(f) PROVE Whole'
  BY <1>1, <1>4 DEF Damage, Fault
<1>5. ASSUME NEW i \in DOMAIN hooks PROVE i \in Attempts /\ (GiveUp(i) => Whole')
  <2>1. i \in Attempts
    BY Basics, SeqElements DEF IInv, TypeOK
  <2> QED BY <1>1, <2>1 DEF GiveUp, Fault, workspace
<1> QED BY <1>2, <1>3, <1>4, <1>5, OtherWhole DEF Environment

LEMMA InitWhole == Init => Whole
<1> SUFFICES ASSUME Init PROVE Whole
  OBVIOUS
<1>1. \A i \in Attempts : procs[i] = NoProcess
  BY DEF Init
<1>2. \A f \in Files : Nothing[f] # Torn
  BY Basics DEF Nothing
<1> QED BY <1>1, <1>2, NothingTyped DEF Init, Whole, SealedOK, MixedOK

(* No copy that is sealed mixes two contents of its file, unless it was
   written three times while it was read twice (files.py:395-401).          *)
THEOREM CopiesWhole == Spec => []SealedWhole
<1>1. IInv /\ Whole /\ [Next]_vars => Whole'
  <2> SUFFICES ASSUME IInv, Whole, [Next]_vars PROVE Whole'
    OBVIOUS
  <2>1. CASE UNCHANGED vars
    BY <2>1, MixedKeeps DEF vars, workspace, bounds, Whole, SealedOK
  <2> QED BY <2>1, SealingWhole, OtherWhole, EnvironmentWhole DEF Next
<1>2. IInv /\ Whole => SealedWhole
  BY Basics DEF IInv, TypeOK, Whole, SealedOK, SealedWhole
<1> QED BY Invariance, InitWhole, <1>1, <1>2, PTL DEF Spec
===============================================================================
