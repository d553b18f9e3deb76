----------------------------- MODULE InputFiles ------------------------------
(***************************************************************************)
(* The incoming files of one session: internal/sandbox/files.py run in its *)
(* sandbox, as the before_run hook of a run or as an import the connector  *)
(* feeds (internal/agentbox/access.go), and what the connector asks them   *)
(* for (internal/service/engine.go).                                       *)
(*                                                                         *)
(* Processes write the workspace file by file and can be killed between    *)
(* any two writes; an import outlives the connector that started it.       *)
(* Locks belong to processes, so they are read off where a process is.     *)
(***************************************************************************)
EXTENDS Naturals, Sequences, FiniteSets

CONSTANTS
    Files,        \* attachments, numbered
    LastAnchor,   \* batches are named by their anchor, in the order of the thread
    Drafts,       \* for each anchor, the sets of files a request for it may name
    Importers,    \* places for import processes, numbered
    None,
    \* Bounds of the instances TLC checks.
    MaxRuns, MaxFaults, MaxDamage

Anchors == 1 .. LastAnchor
Runs == 1 .. MaxRuns
Hook == 0
Processes == Importers \cup {Hook}

ASSUME BoundAssumption == LastAnchor \in Nat \ {0} /\ {MaxRuns, MaxFaults, MaxDamage} \subseteq Nat
ASSUME DraftsAssumption == Drafts \in [Anchors -> SUBSET SUBSET Files]
ASSUME NamesAssumption ==
    /\ Files \subseteq Nat \ {0} /\ Importers \subseteq Nat \ {Hook}
    /\ \A w \in SUBSET Files : w # None

VARIABLES
    \* Orpheus
    runs,         \* the session's runs, in order
    messages,     \* clarifications with files it has accepted
    \* the connector
    frozen,       \* the clarification it has decided on
    \* the workspace
    request,      \* input/batches/<anchor>/request.json
    manifest,     \* input/batches/<anchor>/manifest.json
    index,        \* runs/<run>/input-index.json
    current,      \* current-run.json, or 0
    data,         \* input/files/<file>/<name>
    cache,        \* files that have a cache.json
    \* the processes of the sandbox
    procs,
    \* counters of the bounds
    faults, damage

orpheus == <<runs, messages>>
batchFiles == <<request, manifest>>
runFiles == <<index, current>>
inputFiles == <<data, cache>>
bounds == <<faults, damage>>
vars == <<orpheus, frozen, batchFiles, runFiles, inputFiles, procs, bounds>>

-----------------------------------------------------------------------------

(* A run: the batch it starts with, the run whose index it continues, the
   clarifications that run was delivered, and how far it is.  prepared: its
   hook has completed.  why: what its hook found wrong.                     *)
Run == [anchor : Anchors, want : SUBSET Files, prev : 0 .. MaxRuns, delivered : SUBSET Anchors,
        status : {"starting", "running", "completed", "failed"}, prepared : BOOLEAN,
        why : {"ok", "conflict", "index", "killed"}]
Message == [anchor : Anchors, want : SUBSET Files, run : Runs,
            delivery : {"pending", "delivered", "rejected"}]
Manifest == [want : SUBSET Files, ready : SUBSET Files]
Page == [prev : 0 .. MaxRuns, batches : SUBSET Anchors]
ASSUME NoneAssumption == None \notin Manifest /\ None \notin Page

(* A process: its next step, its request, the files it has yet to look at,
   those that are ready, and the one it is saving.  fed: the connector that
   started the import still writes to it.                                   *)
Process == [pc : {"idle", "lock", "files", "save", "request", "manifest", "index", "page", "current", "exit"},
            anchor : Anchors, want : SUBSET Files, left : SUBSET Files, ready : SUBSET Files,
            file : Files \cup {0}, fed : BOOLEAN]
Idle == [pc |-> "idle", anchor |-> 1, want |-> {}, left |-> {}, ready |-> {}, file |-> 0, fed |-> FALSE]
Started(a, w) == [Idle EXCEPT !.pc = "lock", !.anchor = a, !.want = w, !.left = w, !.fed = TRUE]

Unfrozen == [anchor |-> 0, want |-> {}, run |-> 0, imported |-> FALSE]

Init ==
    /\ runs = <<>> /\ messages = <<>> /\ frozen = Unfrozen
    /\ request = [a \in Anchors |-> None] /\ manifest = [a \in Anchors |-> None]
    /\ index = [r \in Runs |-> None] /\ current = 0
    /\ data = [f \in Files |-> "absent"] /\ cache = {}
    /\ procs = [p \in Processes |-> Idle]
    /\ faults = 0 /\ damage = 0

Last == Len(runs)
Active == Last > 0 /\ runs[Last].status \in {"starting", "running"}
Running(r) == r \in DOMAIN runs /\ runs[r].status = "running"

(* Anchors of inputs Orpheus has, accepted or rejected.                     *)
Known == {runs[r].anchor : r \in DOMAIN runs} \cup {messages[m].anchor : m \in DOMAIN messages}

Fault == faults < MaxFaults /\ faults' = faults + 1 /\ UNCHANGED damage
Go(p, pc) == procs' = [procs EXCEPT ![p].pc = pc]
Stop(p) == procs' = [procs EXCEPT ![p] = Idle]

-----------------------------------------------------------------------------
(* The connector: engine.go and access.go.                                  *)

(* A fresh batch ends after every post Orpheus has had.  Its files are read
   anew from Mattermost whenever it is built.                               *)
Fresh(a, w) == (\A k \in Known : k < a) /\ w \in Drafts[a]

(* A clarification a completed run did not take is carried over unchanged,
   the earliest first.                                                      *)
Untaken == {m \in DOMAIN messages :
    /\ messages[m].delivery = "rejected" /\ runs[messages[m].run].status = "completed"
    /\ \A r \in DOMAIN runs : runs[r].anchor # messages[m].anchor}
Offered(a, w) ==
    IF Untaken = {} THEN Fresh(a, w)
    ELSE LET m == CHOOSE m \in Untaken : \A n \in Untaken : m <= n
         IN a = messages[m].anchor /\ w = messages[m].want

(* Variants: the last run, even when its hook failed; what a run was delivered
   is left out.                                                             *)
LastStarted == Last
DeliveredNone(r) == {}

(* The index a run continues is that of the last run whose hook completed,
   with the clarifications that run was delivered.                          *)
LastPrepared ==
    LET done == {r \in DOMAIN runs : runs[r].prepared}
    IN IF done = {} THEN 0 ELSE CHOOSE r \in done : \A s \in done : s <= r
DeliveredTo(r) == {messages[m].anchor : m \in {m \in DOMAIN messages :
                       messages[m].run = r /\ messages[m].delivery = "delivered"}}

(* The next run of the session, whose hook starts.                          *)
StartRun(a, w) ==
    /\ ~Active /\ frozen = Unfrozen /\ Last < MaxRuns /\ Offered(a, w)
    /\ runs' = Append(runs, [anchor |-> a, want |-> w, prev |-> LastPrepared,
                             delivered |-> DeliveredTo(LastPrepared), status |-> "starting",
                             prepared |-> FALSE, why |-> "ok"])
    /\ procs' = [procs EXCEPT ![Hook] = Started(a, w)]
    /\ UNCHANGED <<messages, frozen, batchFiles, runFiles, inputFiles, bounds>>

(* A clarification with files is frozen before it is imported.              *)
Freeze(a, w) ==
    /\ Running(Last) /\ frozen = Unfrozen /\ w # {} /\ Fresh(a, w)
    /\ frozen' = [anchor |-> a, want |-> w, run |-> Last, imported |-> FALSE]
    /\ UNCHANGED <<orpheus, batchFiles, runFiles, inputFiles, procs, bounds>>

(* Prepare asks whether the run still accepts input and starts the import.  *)
StartImport(p) ==
    /\ frozen # Unfrozen /\ ~frozen.imported /\ Running(frozen.run)
    /\ procs[p].pc = "idle" /\ \A q \in Importers : ~procs[q].fed /\ (q < p => procs[q].pc # "idle")
    /\ procs' = [procs EXCEPT ![p] = Started(frozen.anchor, frozen.want)]
    /\ UNCHANGED <<orpheus, frozen, batchFiles, runFiles, inputFiles, bounds>>

(* Prepare asks again when the import is done, and the message is sent.     *)
Submit ==
    /\ frozen.imported /\ Running(frozen.run)
    /\ messages' = Append(messages, [anchor |-> frozen.anchor, want |-> frozen.want, run |-> frozen.run,
                                     delivery |-> "pending"])
    /\ frozen' = Unfrozen
    /\ UNCHANGED <<runs, batchFiles, runFiles, inputFiles, procs, bounds>>

(* The run it was for is over: the input is forgotten and built again.      *)
RunGone ==
    /\ frozen # Unfrozen /\ ~Running(frozen.run) /\ \A q \in Importers : ~procs[q].fed
    /\ frozen' = Unfrozen
    /\ UNCHANGED <<orpheus, batchFiles, runFiles, inputFiles, procs, bounds>>

Detached == [p \in Processes |-> IF p \in Importers THEN [procs[p] EXCEPT !.fed = FALSE] ELSE procs[p]]

(* The deadline of Prepare passes or its connection fails: the import is left
   alone, to be started again by a later pass.                              *)
GiveUp ==
    /\ Fault /\ \E q \in Importers : procs[q].fed
    /\ procs' = Detached
    /\ UNCHANGED <<orpheus, frozen, batchFiles, runFiles, inputFiles>>

(* The connector is restarted; only Orpheus remembers anything.             *)
Restart ==
    /\ Fault /\ frozen # Unfrozen /\ frozen' = Unfrozen /\ procs' = Detached
    /\ UNCHANGED <<orpheus, batchFiles, runFiles, inputFiles>>

-----------------------------------------------------------------------------
(* Orpheus and the agent.                                                   *)

Deliver(m) ==
    /\ messages[m].delivery = "pending" /\ Running(messages[m].run)
    /\ messages' = [messages EXCEPT ![m].delivery = "delivered"]
    /\ UNCHANGED <<runs, frozen, batchFiles, runFiles, inputFiles, procs, bounds>>

(* What was not delivered when a run ends is rejected.                      *)
EndRun(how) ==
    /\ Running(Last)
    /\ runs' = [runs EXCEPT ![Last].status = how]
    /\ messages' = [m \in DOMAIN messages |->
                       IF messages[m].delivery = "pending" THEN [messages[m] EXCEPT !.delivery = "rejected"]
                       ELSE messages[m]]
    /\ UNCHANGED <<frozen, batchFiles, runFiles, inputFiles, procs, bounds>>

(* The agent may write any file of the workspace.                           *)
Damage ==
    /\ Running(Last) /\ faults < MaxFaults /\ faults' = faults + 1
    /\ damage < MaxDamage /\ damage' = damage + 1
DamageFile(f) ==
    /\ Damage /\ data[f] = "good" /\ data' = [data EXCEPT ![f] = "bad"]
    /\ UNCHANGED <<orpheus, frozen, batchFiles, runFiles, cache, procs>>
DamageManifest(a) ==
    /\ Damage /\ manifest[a] # None /\ manifest' = [manifest EXCEPT ![a] = None]
    /\ UNCHANGED <<orpheus, frozen, request, runFiles, inputFiles, procs>>

-----------------------------------------------------------------------------
(* files.py: a batch, by the hook (prepare) and by an import (import_input).*)

HoldsBatch(p, a) == procs[p].anchor = a /\ procs[p].pc \in {"files", "save", "request", "manifest"}
HoldsFile(p, f) == procs[p].pc = "save" /\ procs[p].file = f
BatchFree(a) == \A q \in Processes : ~HoldsBatch(q, a)
FileFree(f) == \A q \in Processes : ~HoldsFile(q, f)

HookFails(why) == runs' = [runs EXCEPT ![Last].status = "failed", ![Last].why = why]

(* batch: a request.json that is there must say the same.                   *)
Agrees(p) == request[procs[p].anchor] \in {None, procs[p].want}

(* Variant: the hook does not lock the batch.                               *)
HookOpensUnlocked ==
    LET a == procs[Hook].anchor IN
    /\ procs[Hook].pc = "lock" /\ Agrees(Hook)
    /\ request' = [request EXCEPT ![a] = procs[Hook].want]
    /\ Go(Hook, "files")
    /\ UNCHANGED <<orpheus, frozen, manifest, runFiles, inputFiles, bounds>>

(* The hook writes request.json first, an import last.                      *)
HookOpens ==
    LET a == procs[Hook].anchor IN
    /\ procs[Hook].pc = "lock" /\ BatchFree(a) /\ Agrees(Hook)
    /\ request' = [request EXCEPT ![a] = procs[Hook].want]
    /\ Go(Hook, "files")
    /\ UNCHANGED <<orpheus, frozen, manifest, runFiles, inputFiles, bounds>>
ImportOpens(p) ==
    /\ procs[p].pc = "lock" /\ BatchFree(procs[p].anchor) /\ Agrees(p)
    /\ Go(p, "files")
    /\ UNCHANGED <<orpheus, frozen, batchFiles, runFiles, inputFiles, bounds>>
Conflict(p) ==
    /\ procs[p].pc = "lock" /\ BatchFree(procs[p].anchor) /\ ~Agrees(p)
    /\ Stop(p) /\ IF p = Hook THEN HookFails("conflict") ELSE UNCHANGED runs
    /\ UNCHANGED <<messages, frozen, batchFiles, runFiles, inputFiles, bounds>>

(* The next file, in the order of the request.                              *)
At(p, f) ==
    /\ procs[p].pc = "files" /\ f \in procs[p].left /\ \A g \in procs[p].left : f <= g
    /\ FileFree(f)

(* Mattermost denies it, or its download fails: the manifest
   says so.                                                                 *)
Unavailable(p, f) ==
    /\ At(p, f)
    /\ Fault
    /\ procs' = [procs EXCEPT ![p].left = @ \ {f}]
    /\ UNCHANGED <<orpheus, frozen, batchFiles, runFiles, inputFiles>>

(* Variant: the hash is not computed again.                                 *)
CachedBlindly(f) == f \in cache

(* cached: the hook keeps a copy whose bytes still have the recorded hash.  *)
Cached(f) == f \in cache /\ data[f] = "good"
Keep(f) ==
    /\ At(Hook, f) /\ Cached(f)
    /\ procs' = [procs EXCEPT ![Hook].left = @ \ {f}, ![Hook].ready = @ \cup {f}]
    /\ UNCHANGED <<orpheus, frozen, batchFiles, runFiles, inputFiles, bounds>>

(* save_file writes the bytes, then cache.json, under the lock of the file. *)
SaveData(p, f) ==
    /\ At(p, f)
    /\ p = Hook => ~Cached(f)
    /\ data' = [data EXCEPT ![f] = "good"]
    /\ procs' = [procs EXCEPT ![p].pc = "save", ![p].file = f]
    /\ UNCHANGED <<orpheus, frozen, batchFiles, runFiles, cache, bounds>>
SaveCache(p) ==
    /\ procs[p].pc = "save" /\ cache' = cache \cup {procs[p].file}
    /\ procs' = [procs EXCEPT ![p].pc = "files", ![p].left = @ \ {procs[p].file},
                              ![p].ready = @ \cup {procs[p].file}, ![p].file = 0]
    /\ UNCHANGED <<orpheus, frozen, batchFiles, runFiles, data, bounds>>

(* Variant: an import leaves request.json to the hook.                      *)
ImportEndsEarly(p) ==
    /\ procs[p].pc = "files" /\ procs[p].left = {} /\ Go(p, "manifest")
    /\ UNCHANGED <<orpheus, frozen, batchFiles, runFiles, inputFiles, bounds>>

(* The stream of an import must end after its last file.                    *)
ImportEnds(p) ==
    /\ procs[p].pc = "files" /\ procs[p].left = {} /\ Go(p, "request")
    /\ UNCHANGED <<orpheus, frozen, batchFiles, runFiles, inputFiles, bounds>>
ImportRequest(p) ==
    /\ procs[p].pc = "request"
    /\ request' = [request EXCEPT ![procs[p].anchor] = procs[p].want]
    /\ Go(p, "manifest")
    /\ UNCHANGED <<orpheus, frozen, manifest, runFiles, inputFiles, bounds>>

ManifestOf(p) == [want |-> procs[p].want, ready |-> procs[p].ready]
HookManifest ==
    /\ procs[Hook].pc = "files" /\ procs[Hook].left = {}
    /\ manifest' = [manifest EXCEPT ![procs[Hook].anchor] = ManifestOf(Hook)]
    /\ Go(Hook, "index")
    /\ UNCHANGED <<orpheus, frozen, request, runFiles, inputFiles, bounds>>
ImportManifest(p) ==
    /\ procs[p].pc = "manifest"
    /\ manifest' = [manifest EXCEPT ![procs[p].anchor] = ManifestOf(p)]
    /\ Go(p, "exit")
    /\ UNCHANGED <<orpheus, frozen, request, runFiles, inputFiles, bounds>>

(* The connector learns of the success if it still waits for it.            *)
ImportDone(p) ==
    /\ procs[p].pc = "exit" /\ Stop(p)
    /\ frozen' = IF procs[p].fed THEN [frozen EXCEPT !.imported = TRUE] ELSE frozen
    /\ UNCHANGED <<orpheus, batchFiles, runFiles, inputFiles, bounds>>

-----------------------------------------------------------------------------
(* files.py: begin_run.                                                     *)

(* verify_manifest: the manifest is that of the request beside it.          *)
Verified(a) == manifest[a] # None /\ request[a] = manifest[a].want

(* The pages from run r on back to the first.                               *)
Pages[r \in 0 .. MaxRuns] ==
    IF r = 0 THEN {} ELSE {r} \cup IF index[r] = None THEN {} ELSE Pages[index[r].prev]
Complete(r) == \A s \in Pages[r] : index[s] # None /\ \A a \in index[s].batches : Verified(a)

NewPage == [prev |-> runs[Last].prev, batches |-> runs[Last].delivered \cup {runs[Last].anchor}]
Acceptable == Complete(NewPage.prev) /\ \A a \in NewPage.batches : Verified(a)

VerifyIndex ==
    /\ procs[Hook].pc = "index" /\ Acceptable /\ Go(Hook, "page")
    /\ UNCHANGED <<orpheus, frozen, batchFiles, runFiles, inputFiles, bounds>>
RefuseIndex ==
    /\ procs[Hook].pc = "index" /\ ~Acceptable /\ Stop(Hook) /\ HookFails("index")
    /\ UNCHANGED <<messages, frozen, batchFiles, runFiles, inputFiles, bounds>>
WriteIndex ==
    /\ procs[Hook].pc = "page"
    /\ index' = [index EXCEPT ![Last] = NewPage]
    /\ Go(Hook, "current")
    /\ UNCHANGED <<orpheus, frozen, batchFiles, current, inputFiles, bounds>>
WriteCurrent ==
    /\ procs[Hook].pc = "current" /\ current' = Last /\ Go(Hook, "exit")
    /\ UNCHANGED <<orpheus, frozen, batchFiles, index, inputFiles, bounds>>

(* The hook has completed and the agent starts.                             *)
HookDone ==
    /\ procs[Hook].pc = "exit" /\ Stop(Hook)
    /\ runs' = [runs EXCEPT ![Last].status = "running", ![Last].prepared = TRUE]
    /\ UNCHANGED <<messages, frozen, batchFiles, runFiles, inputFiles, bounds>>

(* A process is killed, by its deadline or with its sandbox.                *)
Kill(p) ==
    /\ procs[p].pc # "idle" /\ Fault /\ Stop(p)
    /\ IF p = Hook THEN HookFails("killed") ELSE UNCHANGED runs
    /\ UNCHANGED <<messages, frozen, batchFiles, runFiles, inputFiles>>

(* An import nobody feeds any more may have been sent everything already.  If
   not, it reads the end of its stream too early, or its alarm goes off
   (MM_IMPORT_TIMEOUT).                                                     *)
Awaits(p) == ~procs[p].fed /\ procs[p].pc \in {"lock", "files"}
(* Variant: there is no alarm.                                              *)
ExpireNever(p) == procs[p].pc = "none" /\ UNCHANGED vars

Expire(p) ==
    /\ Awaits(p) /\ Stop(p)
    /\ UNCHANGED <<orpheus, frozen, batchFiles, runFiles, inputFiles, bounds>>

-----------------------------------------------------------------------------

Connector ==
    \/ \E a \in Anchors : \E w \in Drafts[a] \cup {messages[m].want : m \in DOMAIN messages} :
           StartRun(a, w) \/ Freeze(a, w)
    \/ \E p \in Importers : StartImport(p)
    \/ Submit \/ RunGone \/ GiveUp \/ Restart
Environment ==
    \/ \E m \in DOMAIN messages : Deliver(m)
    \/ \E how \in {"completed", "failed"} : EndRun(how)
    \/ \E f \in Files : DamageFile(f)
    \/ \E a \in Anchors : DamageManifest(a)
Importing(p) ==
    \/ ImportOpens(p) \/ Conflict(p) \/ SaveCache(p)
    \/ \E f \in Files : SaveData(p, f) \/ Unavailable(p, f)
    \/ ImportEnds(p) \/ ImportRequest(p) \/ ImportManifest(p) \/ ImportDone(p)
Preparing ==
    \/ HookOpens \/ Conflict(Hook) \/ SaveCache(Hook)
    \/ \E f \in Files : Keep(f) \/ SaveData(Hook, f) \/ Unavailable(Hook, f)
    \/ HookManifest \/ VerifyIndex \/ RefuseIndex \/ WriteIndex \/ WriteCurrent \/ HookDone

Next ==
    \/ Connector \/ Environment \/ Preparing
    \/ \E p \in Importers : Importing(p) \/ Expire(p)
    \/ \E p \in Processes : Kill(p)

Spec == Init /\ [][Next]_vars

(* Processes run, except that an import may wait for input for ever; that is
   what its alarm is for.                                                   *)
FairSpec ==
    /\ Spec /\ WF_vars(Preparing)
    /\ \A p \in Importers : WF_vars(~Awaits(p) /\ Importing(p)) /\ WF_vars(Expire(p))

-----------------------------------------------------------------------------

(* Types of the state.                                                      *)
TypeOK ==
    /\ runs \in Seq(Run) /\ Len(runs) <= MaxRuns /\ messages \in Seq(Message)
    /\ frozen \in [anchor : 0 .. LastAnchor, want : SUBSET Files, run : 0 .. MaxRuns, imported : BOOLEAN]
    /\ request \in [Anchors -> {None} \cup SUBSET Files]
    /\ manifest \in [Anchors -> {None} \cup Manifest]
    /\ index \in [Runs -> {None} \cup Page] /\ current \in 0 .. MaxRuns
    /\ data \in [Files -> {"absent", "good", "bad"}] /\ cache \subseteq Files
    /\ procs \in [Processes -> Process]
    /\ faults \in 0 .. MaxFaults /\ damage \in 0 .. MaxDamage

(* A manifest is the commit of a batch: it belongs to the request beside it,
   and every file it calls ready has been written (files.py:305, 334), whatever
   processes were killed and whichever of them wrote last.                  *)
ManifestBacked ==
    \A a \in Anchors : manifest[a] # None =>
        /\ request[a] = manifest[a].want
        /\ \A f \in manifest[a].ready : f \in manifest[a].want /\ data[f] # "absent"

(* A clarification is sent only after its files were committed for this very
   request (access.go:214-228), by whichever import got there.              *)
CommittedBeforeSent ==
    \A m \in DOMAIN messages :
        /\ request[messages[m].anchor] = messages[m].want
        /\ damage = 0 => manifest[messages[m].anchor] # None

(* Both: what a manifest says is there, and is there before it is spoken of. *)
BatchCommitted == ManifestBacked /\ CommittedBeforeSent

(* A request never changes (files.py:238): not even when the hook of a run and
   an import left over from an earlier one prepare the same batch at once.  *)
RequestFrozen == [][\A a \in Anchors : request[a] # None => request'[a] = request[a]]_vars

(* When a run is announced to the agent the files its batch calls ready have
   the bytes that were sent, also those an earlier run has damaged and those
   another process is saving (files.py:250-263, 282).                   *)
ReadyIntact ==
    [][current' # current =>
        \A f \in manifest[runs[Last].anchor].ready : data[f] = "good"]_vars

(* The index of a run leads to every batch an agent of the session has got:
   what each run started with and the clarifications it was delivered, past
   runs whose preparation failed (engine.go:510-538).                       *)
Covered(r) == UNION {index[s].batches : s \in Pages[r]}
NothingForgotten ==
    LET r == LastPrepared IN
    \A s \in 1 .. r : runs[s].prepared =>
        /\ runs[s].anchor \in Covered(r)
        /\ s < r => \A m \in DOMAIN messages :
               messages[m].run = s /\ messages[m].delivery = "delivered" => messages[m].anchor \in Covered(r)

(* A preparation that failed, or was killed anywhere, does not fail a later
   one (engine.go:511-517): an index is refused only if the workspace was
   damaged.                                                                 *)
RefusalExplained == \A r \in DOMAIN runs : runs[r].why = "index" => damage > 0

(* A hook gets every lock it waits for (files.py:230, 267, 282): an import the
   connector has left behind gives its locks up.                            *)
HookEnds == procs[Hook].pc # "idle" ~> procs[Hook].pc = "idle"

(* docs/FILES.md:92-93: a prepared but undelivered clarification can become the
   next run's input without conflicting with immutable batch files.  It does
   not hold when the batch is built again with other content (README, 5).    *)
NoConflict == \A r \in DOMAIN runs : runs[r].why # "conflict"
=============================================================================
