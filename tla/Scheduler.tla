------------------------------ MODULE Scheduler ------------------------------
(***************************************************************************)
(* The scheduler of one source's threads: internal/service/runtime.go.     *)
(*                                                                         *)
(* A job is a thread with work.  The main loop dispatches ready jobs to a  *)
(* bounded pool of passes; events, hints, timers and a discovery scan make *)
(* jobs dirty or create them; a pass that leaves nothing to do deletes its *)
(* job.  New runs are admitted only within a workflow's run limit, as far  *)
(* as the scheduler knows the active runs of all threads.  It learns of    *)
(* them from the snapshots passes read, and of their existence from the    *)
(* scan.                                                                   *)
(*                                                                         *)
(* What a pass decides for its thread is modelled in Admission; here a     *)
(* thread has at most one trigger post, and a pass is its requests and     *)
(* what it tells the scheduler.  Mattermost and Orpheus are external.      *)
(***************************************************************************)
EXTENDS Integers, FiniteSets

CONSTANTS
    Threads,      \* conversation keys; each thread has a channel of its own
    Flows,        \* workflows
    FlowOf,       \* the workflow a thread's key names
    InitCfg,      \* the workflows configured when the process starts
    Configs,      \* sets of workflows a reload can install
    MaxRuns,      \* max_concurrent_runs of every workflow
    MaxQueued,    \* maxQueuedThreads: 4096 in the code
    Workers,      \* MAX_PARALLEL_THREADS
    LateCommits,  \* may a request be accepted after the connector gave it up?
    SlowLookups,  \* may a batch window end while the builder looks up users?
    Calm,         \* events come within the window, and scans are far apart
    \* Bounds of the instances TLC checks.
    Old,          \* threads that can have sessions when the process starts
    Due,          \* threads whose trigger is due when it starts
    New,          \* threads whose trigger is posted while it runs
    MaxFaults,    \* failed requests
    Movable,      \* threads whose channel the bot can leave and join
    MaxChanges    \* reloads, and times the bot leaves or joins a channel

ASSUME FlowAssumption == FlowOf \in [Threads -> Flows]
ASSUME ConfigAssumption == InitCfg \subseteq Flows /\ Configs \subseteq SUBSET Flows
ASSUME LimitAssumption == {MaxRuns, MaxQueued, Workers} \subseteq Nat \ {0}
ASSUME ChoiceAssumption == {LateCommits, SlowLookups, Calm} \subseteq BOOLEAN
ASSUME BoundAssumption == Old \cup Due \cup New \cup Movable \subseteq Threads /\ {MaxFaults, MaxChanges} \subseteq Nat
ASSUME OldAssumption == IsFiniteSet(Old)

VARIABLES
    \* Mattermost
    trig,         \* the thread's trigger: none, in its window, due, accepted
    member,       \* threads whose channel the bot is a member of
    \* Orpheus
    live,         \* threads with an active run
    sess,         \* threads with a session
    owed,         \* threads with an ended run whose answer is not posted
    late,         \* <<thread, input>>: requests given up by their caller
    \* configuration
    cfg, retired,
    \* Runtime.jobs
    jobs, dirty, waiting, permanent,
    backing,      \* jobs whose Retry.At has not come
    cancelled,    \* jobs whose pass was cancelled
    \* Runtime.active (a thread has at most one run) and unknown
    active, unknown,
    \* Engine.inputQueue, pending, and the timers of batch windows
    pend, frozen, timers,
    \* discovery
    known,        \* threads whose channel is in Runtime.channels
    digested,     \* threads whose recorded digest is that of their posts
    fresh,        \* threads whose posts are still as the scan has read them
    discovered,   \* workflows whose sessions were listed recently
    initialized, discovering,
    scanDue,      \* scanAt is zero: no dispatch before the next scan starts
    scan, stale,  \* the scan under way, and whether its epoch is over
    \* passes
    pass,
    \* counters of the bounds
    faults, changes

mattermost == <<trig, member>>
orpheus == <<live, sess, owed, late>>
config == <<cfg, retired>>
queue == <<jobs, dirty>>
marks == <<waiting, permanent, backing, cancelled>>
capacity == <<active, unknown>>
engine == <<pend, frozen, timers>>
discovery == <<known, discovered, initialized, discovering, scan, stale>>
fingerprints == <<digested, fresh>>
bounds == <<faults, changes>>
vars == <<mattermost, orpheus, config, queue, marks, capacity, engine,
          discovery, fingerprints, scanDue, pass, bounds>>

-----------------------------------------------------------------------------

Kinds == {"initial", "clarification"}
Inputs == Kinds \cup {"none"}
Triggers == {"none", "open", "due", "done"}
Requests == {"snapshot", "cancel", "thread", "await"}
Steps == Requests \cup {"idle", "hold", "finish"}

(* A pass: its next step; whether the thread was in scope and suspended when it
   was dispatched; from the snapshot whether the thread had an active run, an
   answer to post and the trigger accepted; Orpheus's answer; how it ends.
   What later steps do not use is forgotten.                                *)
Passes == [pc : Steps, scope : BOOLEAN, perm : BOOLEAN, live : BOOLEAN, owed : BOOLEAN,
           known : BOOLEAN, reply : {"none", "ok", "closed"},
           result : {"ok", "error", "permanent"}]
NoPass == [pc |-> "idle", scope |-> FALSE, perm |-> FALSE, live |-> FALSE, owed |-> FALSE,
           known |-> FALSE, reply |-> "none", result |-> "ok"]

(* A scan: its next step, the configuration it began with, the workflows whose
   sessions it has yet to list, the one it is registering, the threads it has
   yet to look at, and the one whose posts it has read.                     *)
NoScan == [pc |-> "idle", cfg |-> {}, flows |-> {}, flow |-> {}, todo |-> {}, read |-> {}]

Of(f) == {t \in Threads : FlowOf[t] = f}
At(t, step) == pass[t].pc = step
Working == {t \in Threads : pass[t].pc # "idle"}

Init ==
    /\ trig = [t \in Threads |-> IF t \in Due THEN "due" ELSE "none"] /\ member = Threads
    /\ sess \in SUBSET Old /\ live \in SUBSET sess /\ owed \in SUBSET (sess \ live)
    /\ \A f \in Flows : Cardinality(live \cap Of(f)) <= MaxRuns
    /\ late = {}
    /\ cfg = InitCfg /\ retired = {}
    /\ jobs = {} /\ dirty = {}
    /\ waiting = {} /\ permanent = {} /\ backing = {} /\ cancelled = {}
    /\ active = {} /\ unknown = {}
    /\ pend = {} /\ frozen = [t \in Threads |-> "none"] /\ timers = {}
    /\ known = {} /\ digested = {} /\ fresh = {} /\ discovered = {}
    /\ initialized = FALSE /\ discovering = FALSE /\ scanDue = TRUE
    /\ scan = NoScan /\ stale = FALSE
    /\ pass = [t \in Threads |-> NoPass]
    /\ faults = 0 /\ changes = 0

-----------------------------------------------------------------------------
(* The queue.  A change of the thread's posts makes the recorded digest, and
   the one the scan is about to record, obsolete.                           *)

Room(t) == t \in jobs \/ Cardinality(jobs) < MaxQueued

(* Runtime.enqueue, where the queue has room.                               *)
Enqueue(t) == jobs' = jobs \cup {t} /\ dirty' = dirty \cup {t}

(* Variant: where it has none, what discovery found is dropped.             *)
EnlistOrDrop(t) == IF Room(t) THEN Enqueue(t) ELSE UNCHANGED queue

(* Runtime.discoveredJob waits until it has.                                *)
Enlist(t) == Room(t) /\ Enqueue(t)

(* Where it has none, events, hints and timers ask for a rescan.            *)
EnqueueOrRescan(t) ==
    IF Room(t) THEN Enqueue(t) /\ UNCHANGED scanDue
               ELSE scanDue' = TRUE /\ UNCHANGED queue

(* Runtime.hint: a new job only for a configured workflow.                  *)
Hint(t) ==
    IF t \in jobs \/ FlowOf[t] \in cfg THEN EnqueueOrRescan(t)
                                       ELSE UNCHANGED <<queue, scanDue>>

PostsChange(t) == digested' = digested \ {t} /\ fresh' = fresh \ {t}

-----------------------------------------------------------------------------
(* Mattermost.                                                              *)

Post(t) ==
    /\ t \in New /\ trig[t] = "none" /\ trig' = [trig EXCEPT ![t] = "open"]
    /\ PostsChange(t)
    /\ UNCHANGED <<member, orpheus, config, queue, marks, capacity, engine,
                   discovery, scanDue, pass, bounds>>

WindowEnds(t) ==
    /\ trig[t] = "open" /\ (SlowLookups \/ ~At(t, "hold"))
    /\ trig' = [trig EXCEPT ![t] = "due"]
    /\ UNCHANGED <<member, orpheus, config, queue, marks, capacity, engine,
                   discovery, fingerprints, scanDue, pass, bounds>>

Move(t) ==
    /\ t \in Movable /\ changes < MaxChanges /\ changes' = changes + 1
    /\ member' = IF t \in member THEN member \ {t} ELSE member \cup {t}
    /\ UNCHANGED <<trig, orpheus, config, queue, marks, capacity, engine,
                   discovery, fingerprints, scanDue, pass, faults>>

(* Runtime.event, for the trigger post.  Events come late, twice or never.  *)
Event(t) ==
    /\ t \in member /\ trig[t] # "none" /\ (Calm => trig[t] = "open")
    /\ CASE t \notin known -> scanDue' = TRUE /\ UNCHANGED queue
         [] t \in known /\ FlowOf[t] \in cfg -> EnqueueOrRescan(t)
         [] OTHER -> UNCHANGED <<queue, scanDue>>
    /\ UNCHANGED <<mattermost, orpheus, config, marks, capacity, engine,
                   discovery, fingerprints, pass, bounds>>

(* Orpheus's event stream is watched for the sessions of active runs: it hints
   at any time, or not at all.                                              *)
Watched(t) ==
    /\ t \in active /\ Hint(t)
    /\ UNCHANGED <<mattermost, orpheus, config, marks, capacity, engine,
                   discovery, fingerprints, pass, bounds>>

-----------------------------------------------------------------------------
(* Orpheus.  A request whose trigger was accepted before is answered again.  *)

Accept(t, input) ==
    IF trig[t] # "done" /\ (input = "initial" \/ t \in live)
    THEN /\ trig' = [trig EXCEPT ![t] = "done"]
         /\ live' = live \cup {t} /\ sess' = sess \cup {t}
    ELSE UNCHANGED <<trig, live, sess>>

Serve(t) ==
    /\ At(t, "await") /\ pass[t].reply = "none"
    /\ Accept(t, frozen[t])
    /\ pass' = [pass EXCEPT ![t].reply = IF trig'[t] = "done" THEN "ok" ELSE "closed"]
    /\ UNCHANGED <<member, owed, late, config, queue, marks, capacity, engine,
                   discovery, fingerprints, scanDue, bounds>>

ServeLate(t, input) ==
    /\ <<t, input>> \in late /\ late' = late \ {<<t, input>>}
    /\ Accept(t, input)
    /\ UNCHANGED <<member, owed, config, queue, marks, capacity, engine,
                   discovery, fingerprints, scanDue, pass, bounds>>

EndRun(t) == live' = live \ {t} /\ owed' = IF t \in live THEN owed \cup {t} ELSE owed

RunEnds(t) ==
    /\ t \in live /\ EndRun(t)
    /\ UNCHANGED <<mattermost, sess, late, config, queue, marks, capacity, engine,
                   discovery, fingerprints, scanDue, pass, bounds>>

-----------------------------------------------------------------------------
(* The clock and the main loop.                                             *)

BackoffEnds(t) ==
    /\ t \in backing /\ backing' = backing \ {t}
    /\ UNCHANGED <<mattermost, orpheus, config, queue, waiting, permanent, cancelled, capacity,
                   engine, discovery, fingerprints, scanDue, pass, bounds>>

TimerFires(t) ==
    /\ t \in timers /\ trig[t] # "open" /\ timers' = timers \ {t}
    /\ Hint(t)
    /\ UNCHANGED <<mattermost, orpheus, config, marks, capacity, pend, frozen,
                   discovery, fingerprints, pass, bounds>>

(* A job is ready when it is dirty; or when it is polled, which a suspended one
   is while it holds capacity.  The time of the next poll is left open.      *)
CanRun(t) ==
    /\ t \in jobs \ (backing \cup Working)
    /\ t \in permanent \ dirty => t \in active

InScope(t) == t \in known /\ FlowOf[t] \in cfg

(* A scan asked for starts first.  The order of dispatch, by the end of the
   jobs' last passes, is left to the fairness below.                        *)
Dispatch(t) ==
    /\ ~(scanDue /\ scan.pc = "idle") /\ Cardinality(Working) < Workers
    /\ CanRun(t)
    /\ dirty' = dirty \ {t} /\ waiting' = waiting \ {t}
    /\ pass' = [pass EXCEPT ![t] = [NoPass EXCEPT !.pc = "snapshot", !.scope = InScope(t),
                                                  !.perm = t \in permanent]]
    /\ UNCHANGED <<mattermost, orpheus, config, jobs, permanent, backing, cancelled,
                   capacity, engine, discovery, fingerprints, scanDue, bounds>>

Retire(new) == (retired \cup cfg) \ new

(* A reloaded configuration cancels every pass and resets every retry.  The
   scan under way, if any, goes on for the old epoch.                       *)
Reload(new) ==
    /\ changes < MaxChanges /\ changes' = changes + 1
    /\ cfg' = new /\ retired' = Retire(new)
    /\ stale' = (scan.pc # "idle")
    /\ scanDue' = TRUE /\ discovered' = {} /\ digested' = {}
    /\ dirty' = jobs /\ permanent' = {} /\ backing' = {} /\ cancelled' = Working
    /\ UNCHANGED <<mattermost, orpheus, jobs, waiting, capacity, engine, known,
                   initialized, discovering, scan, fresh, pass, faults>>

-----------------------------------------------------------------------------
(* A pass: Runtime.work.                                                    *)

Continue(t, step) == pass' = [pass EXCEPT ![t] = [NoPass EXCEPT !.pc = step]]
EndWith(t, result) == pass' = [pass EXCEPT ![t] = [NoPass EXCEPT !.pc = "finish", !.result = result]]

Put(S, t, in) == IF in THEN S \cup {t} ELSE S \ {t}

(* Variant: jobs that wait for capacity are not woken.                      *)
FreesNever(t) == FALSE

(* The snapshot shows capacity to be free.                                  *)
Frees(t) == (t \in active /\ t \notin live) \/ unknown = {t}

(* The snapshot, Runtime.observe, and where reconcile goes on from there: to
   the thread, or for a thread out of scope to the end of its run.  Between
   reading and observing, only this pass touches the thread's entries.      *)
Observe(t) ==
    /\ At(t, "snapshot") /\ t \notin cancelled
    /\ unknown' = unknown \ {t} /\ active' = Put(active, t, t \in live)
    /\ dirty' = IF Frees(t) THEN dirty \cup waiting ELSE dirty
    /\ LET revoked == ~pass[t].perm /\ ~pass[t].scope
       IN /\ pend' = IF revoked THEN pend \ {t} ELSE pend
          /\ frozen' = IF revoked THEN [frozen EXCEPT ![t] = "none"] ELSE frozen
          /\ IF pass[t].perm \/ (revoked /\ t \notin live) THEN EndWith(t, "ok")
             ELSE IF revoked THEN Continue(t, "cancel")
             ELSE pass' = [pass EXCEPT ![t] = [NoPass EXCEPT !.pc = "thread", !.live = t \in live,
                                 !.owed = t \in owed, !.known = (trig[t] = "done")]]
    /\ UNCHANGED <<mattermost, orpheus, config, jobs, marks, timers,
                   discovery, fingerprints, scanDue, bounds>>

CancelRun(t) ==
    /\ At(t, "cancel") /\ t \notin cancelled
    /\ EndRun(t) /\ EndWith(t, "ok")
    /\ UNCHANGED <<mattermost, sess, late, config, queue, marks, capacity, engine,
                   discovery, fingerprints, scanDue, bounds>>

(* What a pass sends once it has read the thread: the frozen input, unless the
   snapshot holds it or its run is gone; else the trigger, if its window has
   ended.                                                                   *)
Keeps(t) ==
    /\ frozen[t] # "none" /\ ~pass[t].known
    /\ frozen[t] = "clarification" => pass[t].live

Input(t) ==
    IF Keeps(t) THEN frozen[t]
    ELSE IF pass[t].known \/ trig[t] \in {"none", "open"} THEN "none"
    ELSE IF pass[t].live THEN "clarification" ELSE "initial"

(* Reading the thread, and posting the answer of an ended run.              *)
ReadThread(t) ==
    /\ At(t, "thread") /\ t \notin cancelled
    /\ IF pass[t].owed THEN owed' = owed \ {t} /\ PostsChange(t)
                       ELSE UNCHANGED <<owed, fingerprints>>

(* Nothing to send: only a window still open sets a timer, after the builder
   has looked up the thread's users.                                        *)
Rest(t) ==
    /\ ReadThread(t) /\ Input(t) = "none"
    /\ frozen' = [frozen EXCEPT ![t] = "none"] /\ pend' = pend \ {t}
    /\ Continue(t, IF ~pass[t].known /\ trig[t] = "open" THEN "hold" ELSE "finish")
    /\ UNCHANGED <<mattermost, live, sess, late, config, queue, marks, capacity, timers,
                   discovery, scanDue, bounds>>

SetTimer(t) ==
    /\ At(t, "hold")
    /\ timers' = IF trig[t] = "open" THEN timers \cup {t} ELSE timers
    /\ EndWith(t, "ok")
    /\ UNCHANGED <<mattermost, orpheus, config, queue, marks, capacity, pend, frozen,
                   discovery, fingerprints, scanDue, bounds>>

(* Runtime.reserve.                                                         *)
Blocked(f) == ~initialized \/ discovering \/ unknown \cap Of(f) # {}
Full(f) == Cardinality(active \cap Of(f)) >= MaxRuns

(* Variant: sessions not yet read do not hold admission back.               *)
AdmitsUnknown(f) == initialized /\ ~discovering /\ ~Full(f)

Admits(f) == ~Blocked(f) /\ ~Full(f)

Wait(t) ==
    /\ ReadThread(t) /\ Input(t) = "initial" /\ ~Admits(FlowOf[t])
    /\ waiting' = waiting \cup {t}
    /\ IF Keeps(t) THEN UNCHANGED <<pend, frozen>>
                   ELSE pend' = pend \cup {t} /\ frozen' = [frozen EXCEPT ![t] = "none"]
    /\ EndWith(t, "ok")
    /\ UNCHANGED <<mattermost, live, sess, late, config, queue, permanent, backing, cancelled,
                   capacity, timers, discovery, scanDue, bounds>>

Submit(t) ==
    /\ ReadThread(t) /\ Input(t) # "none"
    /\ IF Input(t) = "initial" THEN Admits(FlowOf[t]) /\ active' = active \cup {t}
                               ELSE UNCHANGED active
    /\ pend' = IF Keeps(t) THEN pend ELSE pend \cup {t}
    /\ frozen' = [frozen EXCEPT ![t] = Input(t)]
    /\ Continue(t, "await")
    /\ UNCHANGED <<mattermost, live, sess, late, config, queue, marks, unknown, timers,
                   discovery, scanDue, bounds>>

(* An accepted input makes its own thread dirty; one whose run has closed stays
   frozen.                                                                  *)
Receive(t) ==
    /\ At(t, "await") /\ pass[t].reply # "none" /\ t \notin cancelled
    /\ IF pass[t].reply = "ok"
       THEN frozen' = [frozen EXCEPT ![t] = "none"] /\ pend' = pend \ {t} /\ Hint(t)
       ELSE UNCHANGED <<frozen, pend, queue, scanDue>>
    /\ EndWith(t, "ok")
    /\ UNCHANGED <<mattermost, orpheus, config, marks, capacity, timers,
                   discovery, fingerprints, bounds>>

(* A request fails, or its pass was cancelled.  A submission not yet served is
   lost, or accepted later where LateCommits allows it.                     *)
GiveUp(t) ==
    /\ pass[t].pc \in Requests
    /\ IF At(t, "await") /\ pass[t].reply = "none" /\ LateCommits
       THEN late' \in {late, late \cup {<<t, frozen[t]>>}}
       ELSE UNCHANGED late
    /\ EndWith(t, "error")
    /\ UNCHANGED <<mattermost, live, sess, owed, config, queue, marks, capacity, engine,
                   discovery, fingerprints, scanDue>>

Abort(t) == t \in cancelled /\ GiveUp(t) /\ UNCHANGED bounds

Fault == faults < MaxFaults /\ faults' = faults + 1 /\ UNCHANGED changes
Fail(t) == t \notin cancelled /\ GiveUp(t) /\ Fault

(* Being denied the thread cancels its active run; some denials suspend it.  *)
Denied(t, result) ==
    /\ At(t, "thread") /\ t \notin cancelled /\ Fault
    /\ IF pass[t].live THEN EndRun(t) ELSE UNCHANGED <<live, owed>>
    /\ EndWith(t, result)
    /\ UNCHANGED <<mattermost, sess, late, config, queue, marks, capacity, engine,
                   discovery, fingerprints, scanDue>>

(* The end of Runtime.work.  A cancelled pass that failed has been marked dirty
   by whoever cancelled it.                                                 *)
Failed(t) == pass[t].result # "ok" /\ t \notin cancelled

(* Variant: a job made dirty while its pass ran is deleted.                 *)
IdleThoughDirty(t) ==
    /\ pass[t].result = "ok"
    /\ t \notin permanent \cup pend \cup active /\ frozen[t] = "none"

Idle(t) ==
    /\ pass[t].result = "ok"
    /\ t \notin permanent \cup dirty \cup pend \cup active /\ frozen[t] = "none"

Finish(t) ==
    /\ At(t, "finish")
    /\ pass' = [pass EXCEPT ![t] = NoPass] /\ cancelled' = cancelled \ {t}
    /\ jobs' = Put(jobs, t, ~Idle(t))
    /\ dirty' = Put(dirty, t, Failed(t) \/ (t \in dirty /\ ~Idle(t)))
    /\ waiting' = Put(waiting, t, t \in waiting /\ ~Idle(t))
    /\ backing' = Put(backing, t, Failed(t) \/ (t \in backing /\ pass[t].result # "ok"))
    /\ permanent' = Put(permanent, t, t \in permanent \/ (Failed(t) /\ pass[t].result = "permanent"))
    /\ UNCHANGED <<mattermost, orpheus, config, capacity, engine,
                   discovery, fingerprints, scanDue, bounds>>

-----------------------------------------------------------------------------
(* Discovery: Runtime.scan.  It ends early when a request fails, or when it
   finds that a reload has ended its epoch.                                 *)

EndScan(success) ==
    /\ scan' = NoScan /\ stale' = FALSE /\ discovering' = FALSE /\ fresh' = {}
    /\ IF stale THEN UNCHANGED <<initialized, scanDue, dirty>>
                ELSE initialized' = success /\ scanDue' = FALSE /\ dirty' = dirty \cup waiting
    /\ UNCHANGED <<mattermost, orpheus, config, jobs, marks, capacity, engine, known,
                   discovered, digested, pass>>

(* A scan starts when it was asked for, or when its time has come: where scans
   are far apart, not before what the last one found has been worked on.    *)
ScanStarts ==
    /\ scan.pc = "idle" /\ (Calm => scanDue \/ dirty \cup Working = {})
    /\ scan' = [NoScan EXCEPT !.pc = "channels", !.cfg = cfg, !.flows = cfg \cup retired]
    /\ discovering' = TRUE
    /\ UNCHANGED <<mattermost, orpheus, config, queue, marks, capacity, engine, known,
                   discovered, initialized, stale, fingerprints, scanDue, pass, bounds>>

(* A channel the bot joined or left makes its jobs dirty and cancels their
   passes.                                                                  *)
ListChannels ==
    /\ scan.pc = "channels" /\ ~stale
    /\ LET moved == {t \in jobs : (t \in known) # (t \in member)}
       IN dirty' = dirty \cup moved /\ cancelled' = cancelled \cup (moved \cap Working)
    /\ known' = member
    /\ scan' = [scan EXCEPT !.pc = "sessions"]
    /\ UNCHANGED <<mattermost, orpheus, config, jobs, waiting, permanent, backing,
                   capacity, engine, discovered, initialized, discovering, stale,
                   fingerprints, scanDue, pass, bounds>>

(* A workflow has been listed when no thread is left; one listed recently may
   be skipped.                                                              *)
Listing(f, todo) ==
    /\ scan' = [scan EXCEPT !.flow = IF todo = {} THEN {} ELSE {f}, !.todo = todo,
                            !.flows = IF todo = {} THEN @ \ {f} ELSE @]
    /\ discovered' = IF todo = {} /\ ~stale THEN discovered \cup {f} ELSE discovered

SkipFlow(f) ==
    /\ scan.pc = "sessions" /\ scan.flow = {} /\ f \in scan.flows \cap discovered
    /\ scan' = [scan EXCEPT !.flows = @ \ {f}]
    /\ UNCHANGED <<mattermost, orpheus, config, queue, marks, capacity, engine, known, discovered,
                   initialized, discovering, stale, fingerprints, scanDue, pass, bounds>>

(* A workflow is listed again when its interval has passed.                 *)
ListSessions(f) ==
    /\ scan.pc = "sessions" /\ scan.flow = {} /\ f \in scan.flows
    /\ Calm => f \notin discovered
    /\ Listing(f, sess \cap Of(f))
    /\ UNCHANGED <<mattermost, orpheus, config, queue, marks, capacity, engine, known,
                   initialized, discovering, stale, fingerprints, scanDue, pass, bounds>>

(* The thread of a session is unknown until a pass has read it.             *)
Unread(t) == unknown \cup {t}

Register(t) ==
    /\ scan.pc = "sessions" /\ t \in scan.todo /\ ~stale
    /\ Enlist(t) /\ unknown' = Unread(t)
    /\ Listing(FlowOf[t], scan.todo \ {t})
    /\ UNCHANGED <<mattermost, orpheus, config, marks, active, engine, known,
                   initialized, discovering, stale, fingerprints, scanDue, pass, bounds>>

SessionsKnown ==
    /\ scan.pc = "sessions" /\ scan.flow = {} /\ scan.flows = {} /\ ~stale
    /\ discovering' = FALSE /\ initialized' = TRUE
    /\ dirty' = dirty \cup waiting
    /\ scan' = [scan EXCEPT !.pc = "replay", !.todo = {t \in known : FlowOf[t] \in scan.cfg}]
    /\ UNCHANGED <<mattermost, orpheus, config, jobs, marks, capacity, engine, known,
                   discovered, stale, fingerprints, scanDue, pass, bounds>>

(* A thread is replayed when its posts have changed and it has a trigger, an
   active run or a job.  Its digest is recorded when it has a job.          *)
ReadPosts(t) ==
    /\ scan.pc = "replay" /\ scan.read = {} /\ t \in scan.todo
    /\ IF t \notin digested /\ (trig[t] # "none" \/ t \in active \cup jobs)
       THEN scan' = [scan EXCEPT !.read = {t}] /\ fresh' = {t}
       ELSE scan' = [scan EXCEPT !.todo = @ \ {t}] /\ UNCHANGED fresh
    /\ UNCHANGED <<mattermost, orpheus, config, queue, marks, capacity, engine, known, discovered,
                   initialized, discovering, stale, digested, scanDue, pass, bounds>>

Replay(t) ==
    /\ scan.pc = "replay" /\ scan.read = {t} /\ ~stale
    /\ Enlist(t)
    /\ digested' = digested \cup fresh /\ fresh' = {}
    /\ scan' = [scan EXCEPT !.todo = @ \ {t}, !.read = {}]
    /\ UNCHANGED <<mattermost, orpheus, config, marks, capacity, engine, known, discovered,
                   initialized, discovering, stale, scanDue, pass, bounds>>

(* Where the scan looks at its epoch.                                       *)
FindsStale ==
    /\ stale
    /\ \/ scan.pc = "channels"
       \/ scan.pc = "sessions" /\ (scan.todo # {} \/ scan.flows = {})
       \/ scan.pc = "replay" /\ scan.read # {}

ScanEnds ==
    /\ \/ FindsStale /\ EndScan(FALSE)
       \/ scan.pc = "replay" /\ scan.todo = {} /\ EndScan(TRUE)
    /\ UNCHANGED bounds

ScanFails ==
    /\ \/ scan.pc = "channels"
       \/ scan.pc = "sessions" /\ scan.flow = {} /\ scan.flows # {}
       \/ scan.pc = "replay" /\ scan.read = {} /\ scan.todo # {}
    /\ Fault /\ EndScan(FALSE)

-----------------------------------------------------------------------------

Environment ==
    \/ \E t \in Threads : Post(t) \/ WindowEnds(t) \/ Move(t) \/ Event(t) \/ Watched(t)
    \/ \E t \in Threads : Serve(t) \/ RunEnds(t) \/ \E input \in Kinds : ServeLate(t, input)
    \/ \E t \in Threads : BackoffEnds(t) \/ TimerFires(t)
    \/ \E new \in Configs : Reload(new)

Reconcile(t) ==
    \/ Observe(t) \/ CancelRun(t) \/ Rest(t) \/ SetTimer(t) \/ Wait(t) \/ Submit(t)
    \/ Receive(t) \/ Abort(t) \/ Finish(t)

Discover ==
    \/ ScanStarts \/ ListChannels \/ SessionsKnown \/ ScanEnds
    \/ \E f \in Flows : SkipFlow(f) \/ ListSessions(f)
    \/ \E t \in Threads : Register(t) \/ ReadPosts(t) \/ Replay(t)

Faults ==
    \/ ScanFails
    \/ \E t \in Threads : Fail(t) \/ \E result \in {"error", "permanent"} : Denied(t, result)

Next == Environment \/ (\E t \in Threads : Dispatch(t) \/ Reconcile(t)) \/ Discover \/ Faults

Spec == Init /\ [][Next]_vars

(* Windows, runs and retry delays end; Orpheus answers; the loop is woken by
   every change and at least by its ticker; no goroutine is delayed for ever.
   Dispatch goes by the end of the last pass, oldest first, so a job that is
   ready again and again is not passed over for ever.  A thread that asks for
   capacity again and again is not refused for ever while others get it.     *)
Elapse(t) == WindowEnds(t) \/ RunEnds(t) \/ BackoffEnds(t) \/ TimerFires(t)

Fairness ==
    /\ WF_vars(Discover) /\ SF_vars(ScanStarts)
    /\ \A t \in Threads :
          /\ SF_vars(Elapse(t)) /\ SF_vars(Dispatch(t))
          /\ WF_vars(Serve(t) \/ Reconcile(t)) /\ SF_vars(Submit(t))

FairSpec == Spec /\ Fairness

-----------------------------------------------------------------------------
(* Types: only jobs carry marks, only jobs are worked on.                    *)
TypeOK ==
    /\ trig \in [Threads -> Triggers] /\ member \subseteq Threads
    /\ live \subseteq Threads /\ sess \subseteq Threads /\ owed \subseteq Threads
    /\ late \subseteq Threads \X Kinds
    /\ cfg \subseteq Flows /\ retired \subseteq Flows \ cfg
    /\ jobs \subseteq Threads /\ dirty \subseteq jobs /\ waiting \subseteq jobs
    /\ permanent \subseteq jobs /\ backing \subseteq jobs /\ cancelled \subseteq Working
    /\ active \subseteq Threads /\ unknown \subseteq Threads
    /\ pend \subseteq Threads /\ frozen \in [Threads -> Inputs] /\ timers \subseteq Threads
    /\ known \subseteq Threads /\ digested \subseteq Threads /\ fresh \subseteq Threads
    /\ discovered \subseteq Flows
    /\ {initialized, discovering, scanDue, stale} \subseteq BOOLEAN
    /\ scan \in [pc : {"idle", "channels", "sessions", "replay"}, cfg : SUBSET Flows,
                 flows : SUBSET Flows, flow : SUBSET Flows, todo : SUBSET Threads,
                 read : SUBSET Threads]
    /\ pass \in [Threads -> Passes] /\ Working \subseteq jobs
    /\ {faults, changes} \subseteq Nat

(* A workflow never has more active runs than its limit, whatever was running
   when the process started, however requests fail, runs end and passes
   interleave (runtime.go:322-346).  Without requests accepted late: a snapshot
   takes back the reservation of a request it does not show.                *)
RunLimit == \A f \in Flows : Cardinality(live \cap Of(f)) <= MaxRuns

(* Once the scan has recorded a thread's posts it skips the thread, so a trigger
   that is not accepted needs a job, or a timer that will make one
   (runtime.go:390-396, :617-637, engine.go:467-476).                       *)
PendingWorkKept ==
    \A t \in digested \cap member \cap known :
        (FlowOf[t] \in cfg /\ trig[t] \in {"open", "due"}) => t \in jobs \cup timers

(* No job sleeps while capacity is free: as long as one waits that is neither
   dirty nor worked on, discovery is not over, some session is unknown or the
   limit is reached (runtime.go:444-450, :498-503, :583-587).               *)
NoIdleWaiter ==
    \A t \in waiting \ (dirty \cup Working) :
        ~initialized \/ discovering \/ scanDue \/ unknown # {} \/ Full(FlowOf[t])

(* Suspended, out of scope, or without a place in a queue of suspended threads,
   which keep theirs until a reload.                                        *)
OutOfReach(t) ==
    t \in permanent \/ t \notin member \/ FlowOf[t] \notin cfg \/ (~Room(t) /\ jobs \subseteq permanent)

(* A thread with a trigger whose window has ended, or with an answer to post,
   comes to rest with the trigger accepted and nothing owed: capacity that is
   reserved is released, a failed pass is repeated, a waiting one woken, a
   session from before the process started is found, and no job is deleted too
   early (runtime.go:322-397, :542-588).                                    *)
EveryThreadSettles ==
    \A t \in Threads :
        (trig[t] = "due" \/ t \in owed) ~>
            (trig[t] \in {"none", "done"} /\ t \notin owed) \/ OutOfReach(t)
=============================================================================
