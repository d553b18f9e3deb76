----------------------------- MODULE OutputFiles -----------------------------
(***************************************************************************)
(* The outgoing files of one run: the after_run hook of                    *)
(* internal/sandbox/files.py (export_output), and what the connector makes *)
(* of the executions of it that Orpheus records (Engine.hookOutput).       *)
(*                                                                         *)
(* The agent has ended, but what it left running may still write its       *)
(* outbox.  Orpheus may execute the hook again, also while an execution it *)
(* has given up lingers in the sandbox; executions are serialised by a     *)
(* lock, and each can be killed between any two steps.                     *)
(***************************************************************************)
EXTENDS Naturals, Sequences, FiniteSets, FiniteSetsExt

CONSTANTS
    Files,            \* names in the outbox, numbered in their order
    Contents,         \* what a file may hold
    Refused,          \* contents above max_output_bytes, links and special files
    MaxOutputFiles,   \* max_output_files
    None, Torn,       \* no content; a copy of parts of two contents
    \* Bounds of the instances TLC checks.
    Initial,          \* what the agent leaves in the outbox
    MaxAttempts,      \* executions of the hook
    MaxWrites,        \* changes of the outbox during the hooks
    MaxQuick,         \* those of them that leave a file's size and time unchanged
    MaxFaults         \* kills, give-ups, failed uploads, damaged snapshots, truncated results

Attempts == 1 .. MaxAttempts

ASSUME BoundAssumption == {MaxOutputFiles, MaxAttempts, MaxWrites, MaxQuick, MaxFaults} \subseteq Nat
ASSUME NamesAssumption ==
    /\ Files \subseteq Nat \ {0} /\ IsFiniteSet(Files) /\ Refused \subseteq Contents
    /\ {None, Torn} \cap Contents = {} /\ None # Torn
    /\ Initial \subseteq [Files -> Contents \cup {None}]

VARIABLES
    \* the workspace
    outbox,       \* output/<run>/outbox: each file's content and time
    sealed,       \* output/<run>/sealed: the manifest's hashes, or None
    copies,       \* output/<run>/sealed/snapshot: the bytes
    manifest,     \* output/<run>/upload-manifest.json, or None
    \* Mattermost
    uploads,      \* what each file ID holds
    \* Orpheus
    hooks,        \* executions of after_run as it records them
    \* the sandbox
    procs,        \* their processes
    \* for the properties and the bounds
    touched,      \* files written since the process that seals listed them
    writes, quick, faults

workspace == <<outbox, sealed, copies, manifest>>
bounds == <<writes, quick, faults>>
vars == <<workspace, uploads, hooks, procs, touched, bounds>>

-----------------------------------------------------------------------------

(* A snapshot of the outbox: the content of each file, or None.  A file is
   read in two parts.                                                       *)
Snapshot == [Files -> Contents \cup {None, Torn}]
Nothing == [f \in Files |-> None]
Named(snapshot) == {f \in Files : snapshot[f] # None}

(* An upload manifest: its stage, and the ID of each file uploaded, or 0.
   The files it lists and their hashes are those of the sealed snapshot.    *)
Ids == [Files -> Nat]
Manifest == [stage : {"uploading", "ready"}, ids : Ids]
ASSUME NoneAssumption == None \notin Snapshot /\ None \notin Manifest /\ None \notin Ids
NoIds == [f \in Files |-> 0]

(* An execution: how Orpheus sees it, and what it has printed.              *)
Hook == [status : {"running", "completed", "failed"}, complete : BOOLEAN, output : Ids \cup {None}]

(* A process: its next step; while it seals, the files it has yet to visit,
   the time of the one it visits, both readings of it and the copies made;
   then the IDs it has.                                                     *)
Process == [pc : {"none", "lock", "visit", "rest", "restat", "again", "again rest", "manifest", "upload",
                 "record", "print"},
            todo : SUBSET Files, time : Nat, first : Seq(Contents), second : Seq(Contents),
            snap : Snapshot, ids : Ids]
NoProcess == [pc |-> "none", todo |-> {}, time |-> 0, first |-> <<>>, second |-> <<>>, snap |-> Nothing, ids |-> NoIds]

Init ==
    /\ \E left \in Initial : outbox = [f \in Files |-> [content |-> left[f], time |-> 0]]
    /\ sealed = None /\ copies = Nothing /\ manifest = None
    /\ uploads = <<>> /\ hooks = <<>> /\ procs = [i \in Attempts |-> NoProcess]
    /\ touched = {} /\ writes = 0 /\ quick = 0 /\ faults = 0

Present(f) == outbox[f].content # None
Go(i, pc) == procs' = [procs EXCEPT ![i].pc = pc]
Fault == faults < MaxFaults /\ faults' = faults + 1 /\ UNCHANGED <<writes, quick>>

(* Orpheus learns how an execution ends unless it has given it up.          *)
Report(i, status) == [hooks EXCEPT ![i].status = IF @ = "running" THEN status ELSE @]
Fail(i) ==
    /\ procs' = [procs EXCEPT ![i] = NoProcess]
    /\ hooks' = Report(i, "failed")

-----------------------------------------------------------------------------
(* What the agent has left running: it creates, changes or removes a file.
   A change of the same size within a tick of the clock shows in no stat.   *)

Write(f, c, seen) ==
    /\ writes < MaxWrites /\ writes' = writes + 1
    /\ outbox[f].content # c
    /\ seen \/ (quick < MaxQuick /\ {outbox[f].content, c} \cap (Refused \cup {None}) = {})
    /\ quick' = IF seen THEN quick ELSE quick + 1
    /\ outbox' = [outbox EXCEPT ![f] = [content |-> c, time |-> IF seen THEN writes' ELSE @.time]]
    /\ touched' = touched \cup {f}
    /\ UNCHANGED <<sealed, copies, manifest, uploads, hooks, procs, faults>>

(* Or it spoils a copy that was sealed.                                     *)
Damage(f) ==
    /\ Fault /\ copies[f] # None /\ copies' = [copies EXCEPT ![f] = None]
    /\ UNCHANGED <<outbox, sealed, manifest, uploads, hooks, procs, touched>>

-----------------------------------------------------------------------------
(* Orpheus executes the hook once the agent has ended, and perhaps again.   *)

Execute ==
    /\ Len(hooks) < MaxAttempts /\ \A i \in DOMAIN hooks : hooks[i].status # "running"
    /\ hooks' = Append(hooks, [status |-> "running", complete |-> FALSE, output |-> None])
    /\ Go(Len(hooks) + 1, "lock")
    /\ UNCHANGED <<workspace, uploads, touched, bounds>>

(* At a deadline it gives an execution up; its process may linger.          *)
GiveUp(i) ==
    /\ Fault /\ hooks[i].status = "running" /\ hooks' = [hooks EXCEPT ![i].status = "failed"]
    /\ UNCHANGED <<workspace, uploads, procs, touched>>
Kill(i) ==
    /\ Fault /\ procs[i].pc # "none" /\ Fail(i)
    /\ UNCHANGED <<workspace, uploads, touched>>

-----------------------------------------------------------------------------
(* files.py: export_output under the lock of the run; seal.                 *)

(* Variant: executions are not serialised.                                  *)
LockAlwaysFree == TRUE

Holding(i) == procs[i].pc \notin {"none", "lock", "print"}
LockFree == \A j \in Attempts : ~Holding(j)
UseSealed(i) ==
    /\ procs[i].pc = "lock" /\ LockFree /\ sealed # None
    /\ Go(i, "manifest")
    /\ UNCHANGED <<workspace, uploads, hooks, touched, bounds>>

(* walk: the names as they are now, then one after the other.               *)
List(i) ==
    /\ procs[i].pc = "lock" /\ LockFree /\ sealed = None
    /\ procs' = [procs EXCEPT ![i].pc = "visit", ![i].todo = {f \in Files : Present(f)}]
    /\ touched' = {}
    /\ UNCHANGED <<workspace, uploads, hooks, bounds>>

Current(i) == Min(procs[i].todo)
Acceptable(i, f) ==
    /\ outbox[f].content \notin Refused \cup {None}
    /\ Cardinality(Named(procs[i].snap)) < MaxOutputFiles
(* Variant: a file that is not acceptable is left out.                      *)
VisitSkipping(i) ==
    /\ procs[i].pc = "visit" /\ procs[i].todo # {}
    /\ LET f == Current(i) IN
       procs' = [procs EXCEPT ![i] =
           IF Acceptable(i, f)
           THEN [@ EXCEPT !.pc = "rest", !.time = outbox[f].time, !.first = <<outbox[f].content>>]
           ELSE [@ EXCEPT !.todo = @ \ {f}]]
    /\ UNCHANGED <<workspace, uploads, hooks, touched, bounds>>

Visit(i) ==
    /\ procs[i].pc = "visit" /\ procs[i].todo # {}
    /\ LET f == Current(i) IN
       IF Acceptable(i, f)
       THEN /\ procs' = [procs EXCEPT ![i].pc = "rest", ![i].time = outbox[f].time, ![i].first = <<outbox[f].content>>]
            /\ UNCHANGED hooks
       ELSE Fail(i)
    /\ UNCHANGED <<workspace, uploads, touched, bounds>>

(* The rest of a file is that of the file opened, or of what was written
   over it since; a file renamed over it changes nothing.                   *)
RestOf(part, f) == {part[1]} \cup ({outbox[f].content} \ {None})
ReadRest(i, c) ==
    /\ procs[i].pc = "rest" /\ c \in RestOf(procs[i].first, Current(i))
    /\ procs' = [procs EXCEPT ![i].pc = "restat", ![i].first = Append(@, c)]
    /\ UNCHANGED <<workspace, uploads, hooks, touched, bounds>>

Unchanged(i) == Present(Current(i)) /\ outbox[Current(i)].time = procs[i].time
Restat(i) ==
    /\ procs[i].pc = "restat"
    /\ IF Unchanged(i) THEN Go(i, "again") /\ UNCHANGED hooks ELSE Fail(i)
    /\ UNCHANGED <<workspace, uploads, touched, bounds>>

ReadAgain(i) ==
    /\ procs[i].pc = "again"
    /\ LET f == Current(i) IN
       IF outbox[f].content \in Refused \cup {None} THEN Fail(i)
       ELSE /\ procs' = [procs EXCEPT ![i].pc = "again rest", ![i].second = <<outbox[f].content>>]
            /\ UNCHANGED hooks
    /\ UNCHANGED <<workspace, uploads, touched, bounds>>

Reading(part) == IF part[1] = part[2] THEN part[1] ELSE Torn
(* Variant: the two readings are not compared.                              *)
SameAssumed(i, c) == TRUE
Same(i, c) == procs[i].first = Append(procs[i].second, c)
Copied(q, f) ==
    [q EXCEPT !.pc = "visit", !.todo = @ \ {f}, !.time = 0, !.first = <<>>, !.second = <<>>,
              !.snap[f] = Reading(q.first)]
Copy(i, c) ==
    /\ procs[i].pc = "again rest" /\ c \in RestOf(procs[i].second, Current(i))
    /\ IF Same(i, c)
       THEN /\ procs' = [procs EXCEPT ![i] = Copied(@, Current(i))]
            /\ UNCHANGED hooks
       ELSE Fail(i)
    /\ UNCHANGED <<workspace, uploads, touched, bounds>>

(* The copies are complete with their manifest, and renamed.                *)
Seal(i) ==
    /\ procs[i].pc = "visit" /\ procs[i].todo = {}
    /\ sealed' = procs[i].snap /\ copies' = procs[i].snap
    /\ procs' = [procs EXCEPT ![i].pc = "manifest", ![i].snap = Nothing]
    /\ UNCHANGED <<outbox, manifest, uploads, hooks, touched, bounds>>

-----------------------------------------------------------------------------
(* files.py: the upload of the sealed snapshot.                             *)

(* Variant: each execution uploads everything.                              *)
RecordedNone == NoIds

(* The IDs an earlier execution has recorded are kept.                      *)
Recorded == IF manifest = None THEN NoIds ELSE manifest.ids
Resume(i) ==
    /\ procs[i].pc = "manifest"
    /\ manifest' = [stage |-> "uploading", ids |-> Recorded]
    /\ procs' = [procs EXCEPT ![i].pc = "upload", ![i].ids = Recorded]
    /\ UNCHANGED <<outbox, sealed, copies, uploads, hooks, touched, bounds>>

Missing(i) == {f \in Named(sealed) : procs[i].ids[f] = 0}
Damaged(f) == copies[f] # sealed[f]
Sent(i, f) == procs[i].pc = "upload" /\ Missing(i) # {} /\ f = Min(Missing(i))

RefuseDamaged(i, f) ==
    /\ Sent(i, f) /\ Damaged(f) /\ Fail(i)
    /\ UNCHANGED <<workspace, uploads, touched, bounds>>
Upload(i, f) ==
    /\ Sent(i, f) /\ ~Damaged(f)
    /\ uploads' = Append(uploads, copies[f])
    /\ procs' = [procs EXCEPT ![i].pc = "record", ![i].ids[f] = Len(uploads')]
    /\ UNCHANGED <<workspace, hooks, touched, bounds>>

(* Mattermost fails, or its answer is lost.                                 *)
UploadFails(i, f, stored) ==
    /\ Fault /\ Sent(i, f) /\ ~Damaged(f) /\ Fail(i)
    /\ uploads' = IF stored THEN Append(uploads, copies[f]) ELSE uploads
    /\ UNCHANGED <<workspace, touched>>

Record(i) ==
    /\ procs[i].pc = "record"
    /\ manifest' = [manifest EXCEPT !.ids = procs[i].ids]
    /\ Go(i, "upload")
    /\ UNCHANGED <<outbox, sealed, copies, uploads, hooks, touched, bounds>>

(* The manifest says ready, and the lock is given back.                     *)
Ready(i) ==
    /\ procs[i].pc = "upload" /\ Missing(i) = {}
    /\ manifest' = [stage |-> "ready", ids |-> procs[i].ids]
    /\ Go(i, "print")
    /\ UNCHANGED <<outbox, sealed, copies, uploads, hooks, touched, bounds>>

(* Orpheus keeps what was printed, perhaps not all of it.                   *)
Printed(i, complete) ==
    /\ procs[i].pc = "print"
    /\ hooks' = [Report(i, "completed") EXCEPT ![i].output = procs[i].ids, ![i].complete = complete]
    /\ procs' = [procs EXCEPT ![i] = NoProcess]
    /\ UNCHANGED <<workspace, uploads, touched>>
PrintResult(i) == Printed(i, TRUE) /\ UNCHANGED bounds
Truncate(i) == Fault /\ Printed(i, FALSE)

-----------------------------------------------------------------------------
(* The connector, engine.go: hookOutput takes the first execution that has
   completed with all of its output.                                        *)
Usable == {i \in DOMAIN hooks : hooks[i].status = "completed" /\ hooks[i].complete}
(* Variant: only the first execution counts.                                *)
hookOutputFirst == IF 1 \in Usable THEN hooks[1].output ELSE None
hookOutput == IF Usable = {} THEN None ELSE hooks[Min(Usable)].output

-----------------------------------------------------------------------------

Sealing(i) ==
    \/ UseSealed(i) \/ List(i) \/ Visit(i) \/ Restat(i) \/ ReadAgain(i) \/ Seal(i)
    \/ \E c \in Contents : ReadRest(i, c) \/ Copy(i, c)
Uploading(i) ==
    \/ Resume(i) \/ Record(i) \/ Ready(i) \/ PrintResult(i)
    \/ \E f \in Files : RefuseDamaged(i, f) \/ Upload(i, f)
Environment ==
    \/ Execute
    \/ \E f \in Files : \E c \in Contents \cup {None} : \E seen \in BOOLEAN : Write(f, c, seen)
    \/ \E f \in Files : Damage(f)
    \/ \E i \in DOMAIN hooks :
           \/ GiveUp(i) \/ Kill(i) \/ Truncate(i)
           \/ \E f \in Files : \E stored \in BOOLEAN : UploadFails(i, f, stored)

Next == Environment \/ \E i \in Attempts : Sealing(i) \/ Uploading(i)

Spec == Init /\ [][Next]_vars

(* Processes run: each request has a timeout, and everything else is local. *)
FairSpec == Spec /\ \A i \in Attempts : WF_vars(Sealing(i) \/ Uploading(i))

-----------------------------------------------------------------------------

(* Types of the state.                                                      *)
TypeOK ==
    /\ outbox \in [Files -> [content : Contents \cup {None}, time : 0 .. MaxWrites]]
    /\ sealed \in {None} \cup Snapshot /\ copies \in Snapshot
    /\ manifest \in {None} \cup Manifest
    /\ uploads \in Seq(Contents \cup {Torn})
    /\ hooks \in Seq(Hook) /\ Len(hooks) <= MaxAttempts
    /\ procs \in [Attempts -> Process]
    /\ touched \subseteq Files
    /\ writes \in 0 .. MaxWrites /\ quick \in 0 .. MaxQuick /\ faults \in 0 .. MaxFaults

(* No copy that is sealed mixes two contents of its file (files.py:395-401),
   whatever was written while it was read; only a file that is written three
   times while it is read twice can look whole both times.                  *)
SealedWhole == sealed # None /\ writes < 3 => \A f \in Files : sealed[f] # Torn

(* A run is sealed once, and the snapshot has every file left alone since the
   outbox was listed, as it was (files.py:379-414): executions that were killed
   while they copied, refused a file or raced each other add nothing to it and
   take nothing from it.                                                    *)
SealFaithful ==
    [][sealed' # sealed =>
        /\ sealed = None
        /\ \A f \in Files \ touched : sealed'[f] = outbox[f].content]_vars

(* What is recorded as uploaded is what was sealed, and a manifest that says
   ready leaves nothing out (files.py:445-459).  All executions that print a
   result print that one: with whichever of them a pass of the connector
   begins, a later pass goes on with it (engine.go:146-157).                *)
Faithful(ids) == \A f \in Files : ids[f] # 0 => uploads[ids[f]] = sealed[f]
All(ids) == \A f \in Named(sealed) : ids[f] # 0
ManifestTrue ==
    manifest # None => Faithful(manifest.ids) /\ (manifest.stage = "ready" => All(manifest.ids))
Printing == {i \in DOMAIN hooks : hooks[i].output # None}
OneResult ==
    /\ ManifestTrue
    /\ \A i \in Printing : Faithful(hooks[i].output) /\ All(hooks[i].output)
    /\ \A i, j \in Printing : hooks[i].output = hooks[j].output

(* Uploads left unused are those whose answer was lost or not recorded before
   a kill: an upload that was recorded is not repeated (docs/FILES.md:98-99). *)
UploadsAccounted == uploads # <<>> => Len(uploads) <= Cardinality(Named(sealed)) + faults

(* An execution that nothing disturbs any more gives the connector a result,
   whatever state earlier ones left behind.                                 *)
Calm == writes = MaxWrites /\ faults = MaxFaults
Exportable ==
    IF sealed # None THEN \A f \in Files : ~Damaged(f)
    ELSE /\ \A f \in Files : outbox[f].content \notin Refused
         /\ Cardinality({f \in Files : Present(f)}) <= MaxOutputFiles
Exported ==
    \A i \in Attempts :
        (Calm /\ Exportable /\ procs[i].pc = "lock" /\ hooks[i].status = "running") ~> (hookOutput # None)
=============================================================================
