------------------------------ MODULE Admission ------------------------------
(***************************************************************************)
(* Admission of one Mattermost thread's requests into Orpheus.             *)
(*                                                                         *)
(* The connector keeps no database.  Each reconciliation pass of a thread  *)
(* (Engine.reconcile, internal/service/engine.go) reads a snapshot of the  *)
(* thread's Orpheus sessions over several HTTP requests, reads the thread  *)
(* from Mattermost, and then either retries the frozen input it may        *)
(* already have sent or freezes and sends the next batch.  Between any two *)
(* of these steps Orpheus moves its runs on, users post, edit and delete,  *)
(* the configuration is reloaded, requests are lost or answered late, and  *)
(* the process crashes.                                                    *)
(*                                                                         *)
(* The module models one thread.  Capacity shared with other threads is    *)
(* the nondeterministic answer of Reserve; delivering answers is the step  *)
(* Publish, which only takes time and may leave new posts in the thread.   *)
(* Orpheus and Mattermost are external: their actions are what the client  *)
(* code of the connector relies on.                                        *)
(***************************************************************************)
EXTENDS Integers, Sequences, FiniteSets, FiniteSetsExt

CONSTANTS
    Revs,         \* effective revisions a reload can install
    BadRevs,      \* the ones whose profile, template or service Orpheus refuses
    Standings,    \* what a reload or a membership change makes of the thread
    Outcomes,     \* how runs can end
    Losable,      \* may a session become unusable (sandbox gone, budget spent)?
    HasSandbox,   \* is AgentBox access configured?
    Window,       \* message_batch_window
    TooBig,       \* post versions that exceed the input limit on their own
    FilePosts,    \* posts with attachments
    MaxBatch,     \* triggers that fit one request
    MaxAttach,    \* maxAttachmentClarifications: 32 in the code
    Denials,      \* statuses by which Mattermost may deny reading the thread
    LateRequests, \* may a request arrive after the connector stopped waiting?
    Stragglers,   \* may a request outlive the frozen input it was sent for?
    \* Bounds of the instances TLC checks.
    MaxTime,      \* last instant at which a user posts
    MaxEdits,     \* edits per post
    Deletable,    \* posts a user may delete
    MaxFaults,    \* failed, late or lost requests
    MaxCrashes,   \* crashes of the process
    MaxChanges    \* reloads and membership changes

Posts == 1..MaxTime      \* a post is named by the instant it was created at
Horizon == MaxTime + Window
AllStandings == {"in", "draining", "out"}
Terminal == {"completed", "limit", "failed", "lost", "cancelled"}
Statuses == {"queued", "running", "finalizing"} \cup Terminal

ASSUME RevsAssumption == BadRevs \subseteq Revs /\ Revs # {}
ASSUME StandingsAssumption == Standings \subseteq AllStandings
ASSUME OutcomesAssumption == Outcomes \subseteq Terminal \ {"cancelled"}
ASSUME FlagsAssumption == {Losable, HasSandbox, LateRequests, Stragglers} \subseteq BOOLEAN
ASSUME DenialsAssumption == Denials \subseteq {403, 404}
ASSUME TimeAssumption == MaxTime \in Nat /\ Window \in Nat
ASSUME BoundsAssumption == {MaxBatch, MaxAttach, MaxEdits, MaxFaults, MaxCrashes, MaxChanges} \subseteq Nat

VARIABLES
    \* Mattermost
    now,          \* the clock
    thread,       \* <<post, version>> of every live trigger post of the thread
    receipts,     \* rejection notices: revision and refused post versions
    \* Orpheus
    sessions,     \* sessions of the thread in creation order: [rev, usable]
    runs,         \* runs in creation order: [sess, st]
    msgs,         \* accepted user messages in commit order: [env, sess, run]
    delivered,    \* indexes of messages the agent received
    rejected,     \* indexes of messages whose run ended first
    late,         \* requests the connector no longer waits for
    prepared,     \* <<run, anchor>> whose attachments are in the run's sandbox
    \* the connector
    rev,          \* EffectiveRevision of the thread's workflow
    standing,     \* routed here, draining, or out of scope
    frozen,       \* Engine.pending[key]: no input, or the one frozen input
    suspended,    \* retry.Permanent
    pc,           \* the pass's next step
    at,           \* index of the session Snapshot reads next
    snap,         \* the snapshot read so far
    seen,         \* Publisher.Posts: the thread as it was read
    readAt,       \* when that read began
    reply,        \* Orpheus's answer, not yet received
    \* counters of the bounds
    faults, crashes, changes

mattermost == <<now, thread, receipts>>
orpheus == <<sessions, runs, msgs, delivered, rejected, prepared>>
config == <<rev, standing>>
pass == <<at, snap, seen, readAt, reply>>
bounds == <<faults, crashes, changes>>
vars == <<mattermost, orpheus, late, config, frozen, suspended, pc, pass, bounds>>

-----------------------------------------------------------------------------
(* Frozen inputs: vers are the trigger posts at the versions they were read
   in; sess and run are the submission's target.  A transfer carries message
   link over to a new run (Envelope.Predecessor); pending.Predecessor is link
   then, and the thread's latest run, after, otherwise.                     *)

Envelopes ==
    [anchor : Posts, vers : SUBSET (Posts \X (0..MaxEdits)), rev : Revs,
     link : Nat, after : Nat, sess : Nat, run : Nat]

PostsOf(vers) == {v[1] : v \in vers}
Trig(e) == PostsOf(e.vers)
HasFiles(e) == Trig(e) \cap FilePosts # {}
IsClarification(e) == e.run # 0

(* The idempotency key names the anchor, the operation on its target and the
   predecessor, never the content or the revision.                          *)
Key(e) == <<e.anchor, e.run, IF e.run = 0 THEN e.sess ELSE 0, e.link, e.after>>
SameBody(e, f) == e.vers = f.vers /\ e.rev = f.rev

RunsOf(s) == {r \in DOMAIN runs : runs[r].sess = s}
MsgsOf(s) == {i \in DOMAIN msgs : msgs[i].sess = s}
Live(r) == runs[r].st \notin Terminal

SnapOf(n, usable) ==
    [n |-> n, usable |-> usable, st |-> [r \in {} |-> "queued"], hist |-> {}, rejected |-> {}]
NoSnap == SnapOf(0, {})
NoThread == [thread |-> {}, receipts |-> {}]

Init ==
    /\ now = 0 /\ thread = {} /\ receipts = {}
    /\ sessions = <<>> /\ runs = <<>> /\ msgs = <<>>
    /\ delivered = {} /\ rejected = {} /\ late = {} /\ prepared = {}
    /\ rev \in Revs /\ standing = "in"
    /\ frozen = {} /\ suspended = FALSE
    /\ pc = "idle" /\ at = 0 /\ snap = NoSnap /\ seen = NoThread /\ readAt = 0 /\ reply = "none"
    /\ faults = 0 /\ crashes = 0 /\ changes = 0

-----------------------------------------------------------------------------
(* Mattermost: time passes, users post, edit and delete.                    *)

Tick(posted) ==
    /\ now < Horizon
    /\ now' = now + 1
    /\ posted => now' \in Posts
    /\ thread' = IF posted THEN thread \cup {<<now', 0>>} ELSE thread
    /\ UNCHANGED <<receipts, orpheus, late, config, frozen, suspended, pc, pass, bounds>>

Edit(v) ==
    /\ v \in thread /\ v[2] < MaxEdits
    /\ thread' = (thread \ {v}) \cup {<<v[1], v[2] + 1>>}
    /\ UNCHANGED <<now, receipts, orpheus, late, config, frozen, suspended, pc, pass, bounds>>

Delete(v) ==
    /\ v \in thread /\ v[1] \in Deletable
    /\ thread' = thread \ {v}
    /\ UNCHANGED <<now, receipts, orpheus, late, config, frozen, suspended, pc, pass, bounds>>

-----------------------------------------------------------------------------
(* Orpheus: what becomes of a submission.                                   *)

Latest(S) == IF S = {} THEN 0 ELSE Max(S)

NewRun(e, s) ==
    /\ runs' = Append(runs, [sess |-> s, st |-> "queued"])
    /\ msgs' = Append(msgs, [env |-> e, sess |-> s, run |-> Len(runs) + 1])

Replay(e, answer) ==
    /\ \E i \in DOMAIN msgs :
          /\ Key(msgs[i].env) = Key(e)
          /\ answer = IF SameBody(msgs[i].env, e) THEN "ok" ELSE "conflict"
    /\ UNCHANGED <<sessions, runs, msgs>>

SendMessage(e, answer) ==
    /\ e.run # 0
    /\ IF runs[e.run].st = "running"
       THEN /\ answer = "ok"
            /\ msgs' = Append(msgs, [env |-> e, sess |-> e.sess, run |-> e.run])
            /\ UNCHANGED <<sessions, runs>>
       ELSE answer = "closed" /\ UNCHANGED <<sessions, runs, msgs>>

Continuable(s) ==
    /\ sessions[s].usable
    /\ \A r \in RunsOf(s) : ~Live(r)
    /\ runs[Latest(RunsOf(s))].st \notin {"lost", "limit"}

CreateRun(e, answer) ==
    /\ e.run = 0 /\ e.sess # 0
    /\ IF Continuable(e.sess)
       THEN answer = "ok" /\ NewRun(e, e.sess) /\ UNCHANGED sessions
       ELSE answer = "error" /\ UNCHANGED <<sessions, runs, msgs>>

(* The first message's revision is the session's (Session.Revision).        *)
CreateSession(e, answer) ==
    /\ e.run = 0 /\ e.sess = 0
    /\ IF e.rev \notin BadRevs
       THEN /\ answer = "ok"
            /\ sessions' = Append(sessions, [rev |-> e.rev, usable |-> TRUE])
            /\ NewRun(e, Len(sessions) + 1)
       ELSE answer = "refused" /\ UNCHANGED <<sessions, runs, msgs>>

Known(e) == \E i \in DOMAIN msgs : Key(msgs[i].env) = Key(e)

Process(e, answer) ==
    \/ Replay(e, answer)
    \/ ~Known(e) /\ (SendMessage(e, answer) \/ CreateRun(e, answer) \/ CreateSession(e, answer))

Serve ==
    /\ pc = "await"
    /\ \E e \in frozen : \E answer \in {"ok", "conflict", "closed", "error", "refused"} :
          Process(e, answer) /\ reply' = answer
    /\ pc' = "reply"
    /\ UNCHANGED <<mattermost, delivered, rejected, prepared, late, config, frozen, suspended,
                   at, snap, seen, readAt, bounds>>

ServeLate(e) ==
    /\ e \in late
    /\ \E answer \in {"ok", "conflict", "closed", "error", "refused"} : Process(e, answer)
    /\ late' = late \ {e}
    /\ UNCHANGED <<mattermost, delivered, rejected, prepared, config, frozen, suspended, pc, pass, bounds>>

(* Orpheus: the life of a run.  The first message is delivered when the run
   starts; a clarification when the agent takes it, or never.               *)

InitialOf(r) == {i \in DOMAIN msgs : msgs[i].run = r /\ ~IsClarification(msgs[i].env)}
Undelivered(r) == {i \in DOMAIN msgs : msgs[i].run = r} \ delivered

RunStart(r) ==
    /\ runs[r].st = "queued"
    /\ runs' = [runs EXCEPT ![r].st = "running"]
    /\ delivered' = delivered \cup InitialOf(r)
    /\ UNCHANGED <<mattermost, sessions, msgs, rejected, prepared, late, config, frozen, suspended, pc, pass, bounds>>

Deliver(i) ==
    /\ i \in DOMAIN msgs \ delivered
    /\ IsClarification(msgs[i].env) /\ runs[msgs[i].run].st = "running"
    /\ delivered' = delivered \cup {i}
    /\ UNCHANGED <<mattermost, sessions, runs, msgs, rejected, prepared, late, config, frozen, suspended, pc, pass, bounds>>

RunFinalize(r) ==
    /\ runs[r].st = "running"
    /\ runs' = [runs EXCEPT ![r].st = "finalizing"]
    /\ UNCHANGED <<mattermost, sessions, msgs, delivered, rejected, prepared, late, config, frozen, suspended, pc, pass, bounds>>

End(r, st) ==
    /\ runs' = [runs EXCEPT ![r].st = st]
    /\ rejected' = rejected \cup Undelivered(r)

RunEnd(r, st) ==
    /\ IF st = "completed" THEN runs[r].st = "finalizing" ELSE Live(r)
    /\ End(r, st)
    /\ UNCHANGED <<mattermost, sessions, msgs, delivered, prepared, late, config, frozen, suspended, pc, pass, bounds>>

SessionLost(s) ==
    /\ Losable /\ sessions[s].usable /\ \A r \in RunsOf(s) : ~Live(r)
    /\ sessions' = [sessions EXCEPT ![s].usable = FALSE]
    /\ UNCHANGED <<mattermost, runs, msgs, delivered, rejected, prepared, late, config, frozen, suspended, pc, pass, bounds>>

-----------------------------------------------------------------------------
(* The connector: reading the snapshot.  Sessions are listed first; then, for
   each of them, its runs and after them its history.                       *)

EndPass ==
    /\ pc' = "idle" /\ at' = 0
    /\ snap' = NoSnap /\ seen' = NoThread /\ readAt' = 0 /\ reply' = "none"

StartPass ==
    /\ pc = "idle" /\ ~suspended
    /\ snap' = SnapOf(Len(sessions), {s \in DOMAIN sessions : sessions[s].usable})
    /\ IF sessions = <<>> THEN at' = 0 /\ pc' = "settle" ELSE at' = 1 /\ pc' = "runs"
    /\ UNCHANGED <<mattermost, orpheus, late, config, frozen, suspended, seen, readAt, reply, bounds>>

ReadRuns ==
    /\ pc = "runs"
    /\ snap' = [snap EXCEPT !.st = [r \in DOMAIN snap.st \cup RunsOf(at) |->
                                        IF r \in RunsOf(at) THEN runs[r].st ELSE snap.st[r]]]
    /\ pc' = "history"
    /\ UNCHANGED <<mattermost, orpheus, late, config, frozen, suspended, at, seen, readAt, reply, bounds>>

ReadHistory ==
    /\ pc = "history"
    /\ snap' = [snap EXCEPT !.hist = @ \cup MsgsOf(at),
                            !.rejected = @ \cup (MsgsOf(at) \cap rejected)]
    /\ IF at = snap.n THEN at' = 0 /\ pc' = "settle" ELSE at' = at + 1 /\ pc' = "runs"
    /\ UNCHANGED <<mattermost, orpheus, late, config, frozen, suspended, seen, readAt, reply, bounds>>

-----------------------------------------------------------------------------
(* What the snapshot says.                                                  *)

(* Variant: a finalizing run does not count as active.                      *)
ActiveBeforeFinalizing == {r \in DOMAIN snap.st : snap.st[r] \in {"queued", "running"}}

Active == {r \in DOMAIN snap.st : snap.st[r] \notin Terminal}
Run == Latest(Active)
Current == runs[Run].sess
LatestRun(s) == Latest({r \in DOMAIN snap.st : runs[r].sess = s})

Reusable(s, revision) ==
    /\ s \in snap.usable /\ sessions[s].rev = revision
    /\ LatestRun(s) # 0 => snap.st[LatestRun(s)] \notin {"lost", "limit"}

(* An initial submission creates a session instead of continuing one.       *)
Initial == snap.n = 0 \/ ~Reusable(snap.n, rev)

(* Variant: a frozen clarification outlives its run.                        *)
RunGoneNever(e) == FALSE

Accepted(e) == \E i \in snap.hist : msgs[i].env.anchor = e.anchor /\ msgs[i].env.link = e.link
TargetLost(e) == e.run = 0 /\ e.sess \in 1..snap.n /\ ~Reusable(e.sess, e.rev)
RunGone(e) == e.run # 0 /\ e.run # Run
Kept == {e \in frozen : ~Accepted(e) /\ ~TargetLost(e) /\ ~RunGone(e)}

(* Variant: only the triggers that started a run count as accepted.         *)
KnownTriggersInitial == UNION {Trig(msgs[i].env) : i \in {j \in snap.hist : ~IsClarification(msgs[j].env)}}

KnownTriggers == UNION {Trig(msgs[i].env) : i \in snap.hist}
RejectedVersions == UNION {r.vers : r \in {q \in seen.receipts : q.rev = rev}}
Candidates == {v \in seen.thread : v[1] \notin KnownTriggers /\ v \notin RejectedVersions}

-----------------------------------------------------------------------------
(* The next batch.  The window opens at the first candidate; of the triggers
   in it, the longest prefix that fits a request is taken.                  *)

Fits(vers) == vers \cap TooBig = {} /\ Cardinality(vers) <= MaxBatch

Due ==
    /\ Candidates # {}
    /\ Window > 0 => now >= Min(PostsOf(Candidates)) + Window

InWindow == {v \in Candidates : v[1] <= Min(PostsOf(Candidates)) + Window}

(* Variant: the batch is cut at its front.                                  *)
PrefixesCutFront == {{v \in InWindow : v[1] >= p} : p \in PostsOf(InWindow)}

Prefixes == {{v \in InWindow : v[1] <= p} : p \in PostsOf(InWindow)}
FirstOnly == {v \in InWindow : v[1] = Min(PostsOf(InWindow))}
Fitting == {S \in Prefixes : Fits(S)}
Batch == IF Fitting = {} THEN FirstOnly ELSE UNION Fitting

Target(e) ==
    IF Run # 0 THEN [e EXCEPT !.sess = Current, !.run = Run]
    ELSE [e EXCEPT !.sess = IF Initial THEN 0 ELSE snap.n, !.run = 0]

Fresh ==
    Target([anchor |-> Min(PostsOf(Candidates)), vers |-> Batch, rev |-> rev, link |-> 0,
            after |-> IF snap.n = 0 THEN 0 ELSE LatestRun(snap.n), sess |-> 0, run |-> 0])

(* Variant: what was carried over once is carried over again.               *)
TransferableAgain ==
    {i \in snap.rejected :
        /\ IsClarification(msgs[i].env)
        /\ msgs[i].run \in DOMAIN snap.st /\ snap.st[msgs[i].run] = "completed"}

(* Clarifications a completed run did not take, and that no later message
   carries over.                                                            *)
Transferable ==
    {i \in snap.rejected :
        /\ IsClarification(msgs[i].env)
        /\ msgs[i].run \in DOMAIN snap.st /\ snap.st[msgs[i].run] = "completed"
        /\ \A j \in snap.hist : msgs[j].env.link # i}

FirstTransferable ==
    LET oldest == Min({msgs[i].sess : i \in Transferable}) IN
    Min({i \in Transferable : msgs[i].sess = oldest})

Transfer ==
    Target([msgs[FirstTransferable].env EXCEPT !.rev = rev, !.link = FirstTransferable, !.after = 0])

(* Variants: fresh triggers come first; a transfer waits for a fresh trigger. *)
OfferFreshFirst ==
    IF Due THEN {Fresh} ELSE IF Run = 0 /\ Transferable # {} THEN {Transfer} ELSE {}
OfferWhenDue ==
    IF ~Due THEN {} ELSE IF Run = 0 /\ Transferable # {} THEN {Transfer} ELSE {Fresh}

Offer ==
    IF Run = 0 /\ Transferable # {} THEN {Transfer} ELSE IF Due THEN {Fresh} ELSE {}

Oversized(e) == e.link = 0 /\ ~Fits(e.vers)

(* Variant: only delivered clarifications count.                            *)
FileClarificationsDelivered(r) ==
    {i \in snap.hist \cap delivered :
        msgs[i].run = r /\ IsClarification(msgs[i].env) /\ HasFiles(msgs[i].env)}

FileClarifications(r) ==
    {i \in snap.hist : msgs[i].run = r /\ IsClarification(msgs[i].env) /\ HasFiles(msgs[i].env)}

Deferred(e) ==
    /\ IsClarification(e) /\ HasFiles(e)
    /\ ~HasSandbox \/ Cardinality(FileClarifications(Run)) >= MaxAttach

(* Variant: a run of any revision takes input.                              *)
ClosedAnyRevision == Run # 0 /\ snap.st[Run] # "running"

(* A run of another revision, or one that is not running, takes no input.   *)
Closed == Run # 0 /\ (sessions[Current].rev # rev \/ snap.st[Run] # "running")

-----------------------------------------------------------------------------
(* The connector: the rest of a pass.                                       *)

(* A request the connector stops waiting for may be lost or still arrive.   *)
Abandoned ==
    \/ late' = late
    \/ LateRequests /\ pc = "await" /\ late' = late \cup frozen

Cancel(r) ==
    IF r # 0 /\ runs[r].st \in {"queued", "running"}
    THEN End(r, "cancelled")
    ELSE UNCHANGED <<runs, rejected>>

(* A thread that left the workflow's scope: forget its input, stop its run. *)
Revoke ==
    /\ pc = "settle" /\ standing = "out" /\ Cardinality(Active) <= 1
    /\ Stragglers \/ late = {}
    /\ frozen' = {}
    /\ Cancel(Run)
    /\ EndPass
    /\ UNCHANGED <<mattermost, sessions, msgs, delivered, prepared, late, config, suspended, bounds>>

(* "multiple active runs for thread"                                        *)
Blocked ==
    /\ pc = "settle" /\ Cardinality(Active) > 1
    /\ EndPass
    /\ UNCHANGED <<mattermost, orpheus, late, config, frozen, suspended, bounds>>

ReadThread ==
    /\ pc = "settle" /\ standing # "out" /\ Cardinality(Active) <= 1
    /\ seen' = [thread |-> thread, receipts |-> receipts]
    /\ readAt' = now
    /\ pc' = "publish"
    /\ UNCHANGED <<mattermost, orpheus, late, config, frozen, suspended, at, snap, reply, bounds>>

(* Mattermost denies access to the thread; a 404 suspends it.               *)
Denied(status) ==
    /\ pc = "settle" /\ standing # "out" /\ Cardinality(Active) <= 1
    /\ faults < MaxFaults /\ faults' = faults + 1
    /\ Cancel(Run)
    /\ suspended' = (status = 404)
    /\ EndPass
    /\ UNCHANGED <<mattermost, sessions, msgs, delivered, prepared, late, config, frozen, crashes, changes>>

(* Answers are published, and the thread is read again when they made new
   posts or when a window ended since the first read began.                 *)
WindowEnded == \E v \in seen.thread : readAt < v[1] + Window /\ v[1] + Window <= now

Publish(created) ==
    /\ pc = "publish"
    /\ created => DOMAIN snap.st # {}
    /\ pc' = IF created \/ WindowEnded THEN "refresh" ELSE "decide"
    /\ UNCHANGED <<mattermost, orpheus, late, config, frozen, suspended, pass, bounds>>

Refresh ==
    /\ pc = "refresh"
    /\ seen' = [thread |-> thread, receipts |-> receipts]
    /\ pc' = "decide"
    /\ UNCHANGED <<mattermost, orpheus, late, config, frozen, suspended, at, snap, readAt, reply, bounds>>

Drain ==
    /\ pc = "decide" /\ standing = "draining"
    /\ EndPass
    /\ UNCHANGED <<mattermost, orpheus, late, config, frozen, suspended, bounds>>

Deciding == pc = "decide" /\ standing = "in"

(* The frozen input may not have been accepted and its target still takes
   input: it waits for the run to take it or for capacity, or is sent again. *)
Hold ==
    /\ Deciding
    /\ \E e \in Kept : e.run # 0 => snap.st[e.run] # "running"
    /\ EndPass
    /\ UNCHANGED <<mattermost, orpheus, late, config, frozen, suspended, bounds>>

(* Variant: the message is sent without importing its attachments.          *)
SubmittingAtOnce(e) == "await"

Submitting(e) == IF IsClarification(e) /\ HasFiles(e) THEN "import" ELSE "await"

Resend ==
    /\ Deciding
    /\ \E e \in Kept :
          /\ e.run # 0 => snap.st[e.run] = "running"
          /\ pc' = Submitting(e)
    /\ UNCHANGED <<mattermost, orpheus, late, config, frozen, suspended, pass, bounds>>

(* Otherwise it is dropped and admission starts over.  No batch may be due,
   the run may not take it, or a new run may find no capacity.              *)
Wait ==
    /\ Deciding /\ Kept = {}
    /\ \/ Closed
       \/ Offer = {}
       \/ \E e \in Offer : ~Oversized(e) /\ (Deferred(e) \/ Run = 0)
    /\ frozen' = {}
    /\ EndPass
    /\ UNCHANGED <<mattermost, orpheus, late, config, suspended, bounds>>

RejectOversized ==
    /\ Deciding /\ Kept = {} /\ ~Closed
    /\ \E e \in Offer : Oversized(e) /\ receipts' = receipts \cup {[rev |-> e.rev, vers |-> e.vers]}
    /\ frozen' = {}
    /\ EndPass
    /\ UNCHANGED <<now, thread, orpheus, late, config, suspended, bounds>>

Freeze ==
    /\ Deciding /\ Kept = {} /\ ~Closed
    /\ \E e \in Offer :
          /\ ~Oversized(e) /\ ~Deferred(e)
          /\ frozen' = {e}
          /\ pc' = Submitting(e)
    /\ UNCHANGED <<mattermost, orpheus, late, config, suspended, pass, bounds>>

(* Access.Prepare: attachments go into the sandbox only while the run takes
   input, and the run is checked again before the message is sent.          *)
Import ==
    /\ pc = "import"
    /\ \E e \in frozen :
          IF runs[e.run].st = "running"
          THEN /\ prepared' = prepared \cup {<<e.run, e.anchor>>}
               /\ pc' = "confirm" /\ UNCHANGED pass
          ELSE EndPass /\ UNCHANGED prepared
    /\ UNCHANGED <<mattermost, sessions, runs, msgs, delivered, rejected, late, config, frozen, suspended, bounds>>

Confirm ==
    /\ pc = "confirm"
    /\ \E e \in frozen :
          IF runs[e.run].st = "running" THEN pc' = "await" /\ UNCHANGED pass ELSE EndPass
    /\ UNCHANGED <<mattermost, orpheus, late, config, frozen, suspended, bounds>>

(* The answer.  Only an acceptance drops the frozen input; a refusal is first
   written to the thread, a conflict suspends it.                           *)
Receive ==
    /\ pc = "reply" /\ reply # "refused"
    /\ frozen' = IF reply = "ok" THEN {} ELSE frozen
    /\ suspended' = (reply = "conflict")
    /\ EndPass
    /\ UNCHANGED <<mattermost, orpheus, late, config, bounds>>

RejectRefused ==
    /\ pc = "reply" /\ reply = "refused"
    /\ \E e \in frozen : receipts' = receipts \cup {[rev |-> e.rev, vers |-> e.vers]}
    /\ frozen' = {}
    /\ EndPass
    /\ UNCHANGED <<now, thread, orpheus, late, config, suspended, bounds>>

(* Variant: a failed request drops the frozen input.                        *)
FailForgets ==
    /\ pc \notin {"idle", "down"}
    /\ faults < MaxFaults /\ faults' = faults + 1
    /\ Abandoned
    /\ EndPass /\ frozen' = {}
    /\ UNCHANGED <<mattermost, orpheus, config, suspended, crashes, changes>>

(* Any request of a pass may fail; the pass ends and is tried again.        *)
Fail ==
    /\ pc \notin {"idle", "down"}
    /\ faults < MaxFaults /\ faults' = faults + 1
    /\ Abandoned
    /\ EndPass
    /\ UNCHANGED <<mattermost, orpheus, config, frozen, suspended, crashes, changes>>

-----------------------------------------------------------------------------
(* Reloads, membership changes and crashes end a pass wherever it is.       *)

Reload(r, s) ==
    /\ pc # "down" /\ changes < MaxChanges /\ changes' = changes + 1
    /\ rev' = r /\ standing' = s /\ suspended' = FALSE
    /\ Abandoned
    /\ EndPass
    /\ UNCHANGED <<mattermost, orpheus, frozen, faults, crashes>>

Crash ==
    /\ pc # "down" /\ crashes < MaxCrashes /\ crashes' = crashes + 1
    /\ Abandoned
    /\ frozen' = {} /\ suspended' = FALSE
    /\ pc' = "down" /\ at' = 0
    /\ snap' = NoSnap /\ seen' = NoThread /\ readAt' = 0 /\ reply' = "none"
    /\ UNCHANGED <<mattermost, orpheus, config, faults, changes>>

Restart ==
    /\ pc = "down" /\ (Stragglers \/ late = {})
    /\ pc' = "idle"
    /\ UNCHANGED <<mattermost, orpheus, late, config, frozen, suspended, pass, bounds>>

-----------------------------------------------------------------------------
Users == (\E posted \in BOOLEAN : Tick(posted)) \/ (\E v \in thread : Edit(v) \/ Delete(v))

Lifecycle ==
    \/ \E r \in DOMAIN runs : RunStart(r) \/ RunFinalize(r) \/ \E st \in Outcomes : RunEnd(r, st)
    \/ \E i \in DOMAIN msgs : Deliver(i)
    \/ \E s \in DOMAIN sessions : SessionLost(s)

Orpheus == Serve \/ (\E e \in late : ServeLate(e)) \/ Lifecycle

Connector ==
    \/ StartPass \/ ReadRuns \/ ReadHistory \/ Revoke \/ Blocked \/ ReadThread
    \/ (\E created \in BOOLEAN : Publish(created)) \/ Refresh
    \/ Drain \/ Hold \/ Resend \/ Wait \/ RejectOversized \/ Freeze
    \/ Import \/ Confirm \/ Receive \/ RejectRefused

Disturbance ==
    \/ Fail \/ (\E status \in Denials : Denied(status))
    \/ (\E r \in Revs, s \in Standings : Reload(r, s))
    \/ Crash \/ Restart

Next == Users \/ Orpheus \/ Connector \/ Disturbance

Spec == Init /\ [][Next]_vars

-----------------------------------------------------------------------------
(* Safety.                                                                  *)

Threads == SUBSET (Posts \X (0..MaxEdits))
Receipts == SUBSET [rev : Revs, vers : Threads]

MattermostOK == now \in 0..Horizon /\ thread \in Threads /\ receipts \in Receipts

OrpheusOK ==
    /\ sessions \in Seq([rev : Revs, usable : BOOLEAN])
    /\ runs \in Seq([sess : Nat, st : Statuses])
    /\ msgs \in Seq([env : Envelopes, sess : Nat, run : Nat])
    /\ delivered \subseteq DOMAIN msgs /\ rejected \subseteq DOMAIN msgs
    /\ prepared \subseteq (DOMAIN runs) \X Posts

SnapOK ==
    /\ snap \in [n : 0..Len(sessions), usable : SUBSET (DOMAIN sessions),
                 st : UNION {[R -> Statuses] : R \in SUBSET (DOMAIN runs)},
                 hist : SUBSET (DOMAIN msgs), rejected : SUBSET (DOMAIN msgs)]
    /\ at \in 0..snap.n /\ (pc \in {"runs", "history"} => at # 0)

ConnectorOK ==
    /\ rev \in Revs /\ standing \in AllStandings /\ suspended \in BOOLEAN
    /\ late \cup frozen \subseteq Envelopes /\ (\A e, f \in frozen : e = f)
    /\ pc \in {"idle", "runs", "history", "settle", "publish", "refresh", "decide",
               "import", "confirm", "await", "reply", "down"}
    /\ seen \in [thread : Threads, receipts : Receipts] /\ readAt \in 0..Horizon
    /\ reply \in {"none", "ok", "conflict", "closed", "error", "refused"}

BoundsOK == faults \in 0..MaxFaults /\ crashes \in 0..MaxCrashes /\ changes \in 0..MaxChanges

TypeOK == MattermostOK /\ OrpheusOK /\ SnapOK /\ ConnectorOK /\ BoundsOK

(* What refers to what: the strengthening that makes TypeOK and
   RevisionCoherent inductive.                                              *)
InputRefs(e) ==
    /\ e.sess # 0 => e.sess \in DOMAIN sessions /\ sessions[e.sess].rev = e.rev
    /\ e.run # 0 => e.run \in DOMAIN runs /\ runs[e.run].sess = e.sess

Refs ==
    /\ \A r \in DOMAIN runs : runs[r].sess \in DOMAIN sessions
    /\ \A i \in DOMAIN msgs :
          /\ msgs[i].run \in DOMAIN runs
          /\ msgs[i].sess = runs[msgs[i].run].sess
          /\ sessions[msgs[i].sess].rev = msgs[i].env.rev
    /\ \A e \in late \cup frozen : InputRefs(e)
    /\ pc \in {"import", "confirm"} => \A e \in frozen : e.run # 0

Direct(i) == msgs[i].env.link = 0

(* A trigger is accepted once: no two messages carry the same post as their
   own, however often requests are repeated, answered late or rebuilt after
   a crash.  A transfer repeats the post of the message it carries over.    *)
TriggerAcceptedOnce ==
    \A i, j \in DOMAIN msgs :
        i # j /\ Direct(i) /\ Direct(j) => Trig(msgs[i].env) \cap Trig(msgs[j].env) = {}

(* A request that was sent and may still take effect is the frozen input or
   was accepted: the connector never sends another in its place.            *)
Dead(e) ==
    \/ e.run # 0 /\ runs[e.run].st \notin {"queued", "running"}
    \/ e.run = 0 /\ e.sess = 0 /\ e.rev \in BadRevs
    \/ /\ e.run = 0 /\ e.sess # 0
       /\ ~sessions[e.sess].usable \/ runs[Latest(RunsOf(e.sess))].st \in {"lost", "limit"}
NoRival ==
    pc # "down" /\ ~Stragglers =>
        \A e \in late : Known(e) \/ Dead(e) \/ \E f \in frozen : Key(f) = Key(e)

(* Triggers are accepted in thread order.  A post whose earlier version was
   rejected may be edited and accepted after its successors.                *)
InOrder ==
    \A i, j \in DOMAIN msgs : i < j /\ Direct(i) /\ Direct(j) =>
        \A p \in Trig(msgs[i].env), q \in Trig(msgs[j].env) :
            p < q \/ \E r \in receipts : q \in PostsOf(r.vers)

(* The thread never has two runs at once: a request for a new revision
   "starts a new session after the current run finishes"
   (docs/CONFIGURATION.md:136).                                             *)
SingleActive == Cardinality({r \in DOMAIN runs : Live(r)}) <= 1

(* All messages of a session carry the session's revision: a frozen input
   that survives reloads never reaches a session of another configuration.  *)
RevisionCoherent == \A i \in DOMAIN msgs : sessions[msgs[i].sess].rev = msgs[i].env.rev

(* The attachments of an accepted clarification were imported into the
   sandbox of the very run that received it.                                *)
FilesPrepared ==
    \A i \in DOMAIN msgs :
        IsClarification(msgs[i].env) /\ HasFiles(msgs[i].env)
            => <<msgs[i].run, msgs[i].env.anchor>> \in prepared

(* A run accepts at most MaxAttach clarifications with attachments, counted
   across crashes (docs/FILES.md:72).                                       *)
AttachmentQuota ==
    \A r \in DOMAIN runs :
        Cardinality({i \in DOMAIN msgs : /\ msgs[i].run = r /\ IsClarification(msgs[i].env)
                                         /\ HasFiles(msgs[i].env)}) <= MaxAttach

(* While a clarification its completed run did not take is still owed to the
   agent, no later request starts a run.                                    *)
Owed(i) ==
    /\ i \in rejected /\ IsClarification(msgs[i].env) /\ runs[msgs[i].run].st = "completed"
    /\ \A j \in DOMAIN msgs : msgs[j].env.link # i
TransferFirst ==
    [][\A i \in DOMAIN msgs' \ DOMAIN msgs :
          msgs'[i].env.link = 0 /\ msgs'[i].env.run = 0 => \A k \in DOMAIN msgs : ~Owed(k)]_vars

(* Input refused under a revision is not sent again under that revision
   (docs/CONFIGURATION.md:185), also when it is carried over.               *)
Refused(e) == [rev |-> e.rev, vers |-> e.vers] \in receipts
RefusedTransferOnce == [][\A e \in frozen' \ frozen : e.link # 0 => ~Refused(e)]_vars

-----------------------------------------------------------------------------
(* Refinement: the messages of the thread, with what became of each, are the
   inputs of Intake.  So an agent of the thread gets a trigger once at most,
   even if the message that carried it first is repeated or carried over.   *)

Fate(i) == IF i \in delivered THEN "handed" ELSE IF i \in rejected THEN "returned" ELSE "queued"
Inputs == [i \in DOMAIN msgs |-> [posts |-> Trig(msgs[i].env), fate |-> Fate(i)]]
Promise == INSTANCE Intake WITH inputs <- Inputs
KeepsPromise == Promise!Spec

-----------------------------------------------------------------------------
(* Liveness.  A thread with work is reconciled again and again (poll_interval
   and the hints of work() and observe()), its requests are answered or time
   out, runs end at the latest by their timeout, and a thread that waits for
   capacity is woken whenever a run of the workflow ends.                    *)

Fairness ==
    /\ WF_vars(Connector) /\ SF_vars(Freeze) /\ SF_vars(Resend)
    /\ WF_vars(Serve) /\ WF_vars(\E e \in late : ServeLate(e)) /\ WF_vars(Restart) /\ WF_vars(Tick(FALSE))
    /\ WF_vars(\E r \in DOMAIN runs :
                  RunStart(r) \/ RunFinalize(r) \/ \E st \in Outcomes : RunEnd(r, st))

FairSpec == Spec /\ Fairness

Accounted(p) ==
    \/ p \notin PostsOf(thread)
    \/ \E i \in DOMAIN msgs : p \in Trig(msgs[i].env)
    \/ \E v \in thread, r \in receipts : v[1] = p /\ v \in r.vers /\ r.rev = rev

(* Every trigger of a thread that stays in scope is accepted or answered with
   a rejection notice, unless its author deletes it.                        *)
EveryTriggerAccounted == \A p \in Posts : p \in PostsOf(thread) ~> Accounted(p)

(* What a completed run did not take reaches a later run.                   *)
EveryDebtPaid == \A i \in 1..(2 * MaxTime) : (i \in DOMAIN msgs /\ Owed(i)) ~> ~Owed(i)

=============================================================================
