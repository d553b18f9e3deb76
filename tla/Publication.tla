----------------------------- MODULE Publication -----------------------------
(***************************************************************************)
(* The publication of one run's messages and files in its thread:          *)
(* Engine.publish (internal/service/engine.go) and internal/delivery.      *)
(*                                                                         *)
(* Nothing is remembered between passes.  Each post carries a receipt that *)
(* says what it is, and each pass compares what the run has to say with    *)
(* the receipts of the thread as it read it.  Files were uploaded by the   *)
(* run's hook; a post binds them.  Users delete and edit posts, uploads    *)
(* disappear, answers of requests are lost.                                *)
(***************************************************************************)
EXTENDS Naturals, Sequences, FiniteSets, SequencesExt

CONSTANTS
    Messages,     \* the run's messages by position: [mid, kind, parts]; no parts: no text
    Files,        \* artifacts the run can export
    Commentary,   \* send_commentary_messages
    \* Bounds of the instances TLC checks.
    Exports,      \* what the run may export
    Deletable,    \* what users delete: mids
    MaxFaults,    \* failed requests, and posts created without all their files
    MaxTampers    \* posts deleted or edited, uploads that disappear

\* Orpheus gives each message an ID of its own.
ASSUME MessagesAssumption ==
    /\ Len(Messages) \in Nat /\ DOMAIN Messages = 1 .. Len(Messages)
    /\ \A i \in DOMAIN Messages :
          /\ Messages[i].kind \in {"progress", "answer"} /\ Messages[i].parts \in Nat
          /\ Messages[i].mid \notin {"notice", "files", "status", "empty"}
    /\ \A i, j \in DOMAIN Messages : Messages[i].mid = Messages[j].mid => i = j
ASSUME ChoiceAssumption == Commentary \in BOOLEAN
ASSUME BoundAssumption ==
    /\ Exports \subseteq SUBSET Files
    /\ {MaxFaults, MaxTampers} \subseteq Nat
    /\ "none" \notin Files

VARIABLES
    \* Orpheus
    said,         \* how many messages the run has written
    ended,        \* whether and how it has ended
    export,       \* the files of a complete after_run hook, or none
    \* Mattermost
    posts,        \* the bot's posts in the thread, in the order of their creation
    files,        \* for each upload: is it there, and the post it is bound to, or 0
    late,         \* posts whose creation the connector has given up
    \* the connector
    pass, suspended,
    \* counters of the bounds
    faults, tampers

run == <<said, ended, export>>
mattermost == <<posts, files, late>>
bounds == <<faults, tampers>>
vars == <<run, mattermost, pass, suspended, bounds>>

-----------------------------------------------------------------------------

Mids == {Messages[i].mid : i \in DOMAIN Messages} \cup {"notice", "files", "status", "empty"}
Requests == {"run", "history", "thread", "verify", "check", "owner", "create", "await"}

(* What Publish is called with: a part of a message and the files it carries;
   fix names the file a repair post is for.                                 *)
Unit(mid, part, text, carried) ==
    [mid |-> mid, part |-> part, fix |-> "none", text |-> text, files |-> carried]
Repair(u, file) == [u EXCEPT !.part = 0, !.fix = file, !.text = TRUE, !.files = {file}]
Notice == Unit("notice", 0, TRUE, {})

(* A post: its receipt, with the files it claims, the files bound to it, and
   whether it still exists with the text the receipt has the hash of.  late:
   its request had been given up.                                           *)
PostOf(u, held, given) ==
    [mid |-> u.mid, part |-> u.part, fix |-> u.fix, claims |-> u.files, held |-> held,
     live |-> TRUE, intact |-> TRUE, late |-> given]

(* A pass: its next step, what it has read, SkipAttachments, and where it is:
   the unit of the agenda, why it publishes it, the files it has yet to look
   at, those of the unit while it repairs another, and the post created.
   known: the posts there were when it read the thread.                     *)
NoPass ==
    [pc |-> "idle", ended |-> "no", said |-> 0, seen |-> <<>>, known |-> 0, stopped |-> FALSE, skip |-> FALSE,
     at |-> 0, mode |-> "unit", fix |-> "none", todo |-> {}, rest |-> {}, reply |-> 0]

Live == {i \in DOMAIN posts : posts[i].live}

Init ==
    /\ said = 0 /\ ended = "no" /\ export = [ready |-> FALSE, files |-> {}]
    /\ posts = <<>> /\ files = [f \in Files |-> [up |-> TRUE, post |-> 0]] /\ late = {}
    /\ pass = NoPass /\ suspended = FALSE
    /\ faults = 0 /\ tampers = 0

-----------------------------------------------------------------------------
(* The run.                                                                 *)

Say ==
    /\ ended = "no" /\ said < Len(Messages) /\ said' = said + 1
    /\ UNCHANGED <<ended, export, mattermost, pass, suspended, bounds>>

(* Without a complete hook it is unknown what was exported.                 *)
End(how, ready, exported) ==
    /\ ended = "no" /\ ended' = how
    /\ export' = [ready |-> ready, files |-> IF ready THEN exported ELSE {}]
    /\ UNCHANGED <<said, mattermost, pass, suspended, bounds>>

-----------------------------------------------------------------------------
(* Mattermost.                                                              *)

SameKey(a, b) == a.mid = b.mid /\ a.part = b.part /\ a.fix = b.fix

(* A post binds the uploads that are there and free, or some of them.       *)
Attachable(claims) == {f \in claims : files[f].up /\ files[f].post = 0}

Commit(u, held, given) ==
    /\ posts' = Append(posts, PostOf(u, held, given))
    /\ files' = [f \in Files |-> IF f \in held THEN [files[f] EXCEPT !.post = Len(posts) + 1] ELSE files[f]]

(* The server knows the pending_post_id of a recent post and does not repeat it. *)
Recognised(u, since) == {i \in Live : i > since /\ SameKey(posts[i], u)}

Tamper == tampers < MaxTampers /\ tampers' = tampers + 1 /\ UNCHANGED faults

(* With a post its files are deleted, at once or later.                     *)
DeletePost(i, gone) ==
    /\ Tamper /\ posts[i].live /\ posts[i].mid \in Deletable
    /\ gone \subseteq posts[i].held
    /\ posts' = [posts EXCEPT ![i].live = FALSE]
    /\ files' = [f \in Files |-> IF f \in gone THEN [files[f] EXCEPT !.up = FALSE] ELSE files[f]]
    /\ UNCHANGED <<run, late, pass, suspended>>

EditPost(i) ==
    /\ Tamper /\ posts[i].live /\ posts' = [posts EXCEPT ![i].intact = FALSE]
    /\ UNCHANGED <<run, files, late, pass, suspended>>

LoseFile(f) ==
    /\ Tamper /\ files[f].up /\ files' = [files EXCEPT ![f].up = FALSE]
    /\ UNCHANGED <<run, posts, late, pass, suspended>>

-----------------------------------------------------------------------------
(* What a pass has to publish: Engine.publish.                              *)

(* Parts: the files go with the first one.                                  *)
PartsOf(m, carried) ==
    [k \in 1 .. (IF m.parts = 0 THEN 1 ELSE m.parts) |->
        Unit(m.mid, k - 1, m.parts > 0, IF k = 1 THEN carried ELSE {})]

Final(n) ==
    LET answers == {i \in 1 .. n : Messages[i].kind = "answer"}
    IN IF answers = {} THEN 0 ELSE CHOOSE i \in answers : \A j \in answers : j <= i

Ended(p) == p.ended # "no"
Unknown(p) == Ended(p) /\ ~p.stopped /\ ~export.ready
Output(p) == IF Ended(p) /\ ~p.stopped THEN export.files ELSE {}
Carried(p, i) == IF i = Final(p.said) THEN Output(p) ELSE {}

Shown(p, i) ==
    CASE Messages[i].kind = "progress" -> Commentary /\ Messages[i].parts > 0
      [] Messages[i].kind = "answer" -> Ended(p) /\ (Messages[i].parts > 0 \/ Carried(p, i) # {})

FilesOnly(p) == Final(p.said) = 0 /\ Output(p) # {}
Answered(p) == FilesOnly(p) \/ \E i \in 1 .. p.said : Messages[i].kind = "answer" /\ Shown(p, i)

Optional(condition, u) == IF condition THEN <<u>> ELSE <<>>

Spoken(p) ==
    FlattenSeq([i \in 1 .. p.said |-> IF Shown(p, i) THEN PartsOf(Messages[i], Carried(p, i)) ELSE <<>>])

(* Variant: messages in the order in which they were stored.                *)
AgendaUnsorted(p) ==
    Optional(Unknown(p), Notice) \o Optional(FilesOnly(p), Unit("files", 0, FALSE, Output(p)))
        \o Optional(p.ended = "failed", Unit("status", 0, TRUE, {})) \o Reverse(Spoken(p))

(* Variant: files without an answer to carry them are forgotten.             *)
AgendaAnswers(p) ==
    Optional(Unknown(p), Notice) \o Spoken(p) \o Optional(p.ended = "failed", Unit("status", 0, TRUE, {}))

Agenda(p) ==
    Optional(Unknown(p), Notice)
        \o Spoken(p)
        \o Optional(FilesOnly(p), Unit("files", 0, FALSE, Output(p)))
        \o Optional(p.ended = "failed", Unit("status", 0, TRUE, {}))
        \o Optional(p.ended = "completed" /\ ~Answered(p) /\ ~p.stopped /\ export.ready,
                    Unit("empty", 0, TRUE, {}))

Cur(p) ==
    CASE p.mode = "notice" -> Notice
      [] p.mode = "repair" -> Repair(Agenda(p)[p.at], p.fix)
      [] OTHER -> Agenda(p)[p.at]

-----------------------------------------------------------------------------
(* Where a pass goes next.                                                  *)

Advance(p, skip) ==
    IF p.at >= Len(Agenda(p)) THEN NoPass
    ELSE [p EXCEPT !.pc = "look", !.at = @ + 1, !.mode = "unit", !.todo = {}, !.reply = 0,
                   !.skip = skip]

(* Publish has succeeded.                                                   *)
Done(p) ==
    CASE p.mode = "repair" /\ p.rest # {} ->
            [p EXCEPT !.pc = "verify", !.mode = "unit", !.fix = "none", !.todo = p.rest,
                      !.rest = {}, !.reply = 0]
      [] p.mode = "repair" /\ p.rest = {} -> Advance([p EXCEPT !.fix = "none"], p.skip)
      [] p.mode = "notice" /\ Agenda(p)[p.at].text ->
            [p EXCEPT !.pc = "look", !.mode = "again", !.skip = TRUE, !.reply = 0]
      [] p.mode = "notice" /\ ~Agenda(p)[p.at].text -> Advance(p, TRUE)
      [] OTHER -> Advance(p, p.skip \/ Agenda(p)[p.at] = Notice)

(* ErrUpload: the notice, then the text without files.                      *)
Missing(p) ==
    [p EXCEPT !.pc = "look", !.mode = "notice", !.fix = "none", !.todo = {}, !.rest = {}, !.reply = 0]

(* Variant: a file that is not bound is reported, not repaired.             *)
MendNever(p, f) == Missing(p)

(* A file of a post that was found is not bound to it.  After creating the post
   Publish starts over, then it repairs.                                    *)
Mend(p, f) ==
    IF p.mode = "repair" THEN Missing(p)
    ELSE IF p.mode = "created" THEN [p EXCEPT !.pc = "look", !.mode = "unit", !.todo = {}]
    ELSE [p EXCEPT !.pc = "look", !.mode = "repair", !.fix = f, !.rest = p.todo \ {f},
                   !.todo = {}, !.reply = 0]

First(S) == CHOOSE f \in S : TRUE

Step(p) == pass' = p /\ UNCHANGED <<run, mattermost, suspended, bounds>>

(* ErrConflict suspends the thread.                                         *)
Conflict == pass' = NoPass /\ suspended' = TRUE /\ UNCHANGED <<run, mattermost, bounds>>

-----------------------------------------------------------------------------
(* A pass.                                                                  *)

At(step) == pass.pc = step

Start == At("idle") /\ ~suspended /\ Step([NoPass EXCEPT !.pc = "run"])
ReadRun == At("run") /\ Step([pass EXCEPT !.pc = "history", !.ended = ended])
ReadHistory == At("history") /\ Step([pass EXCEPT !.pc = "thread", !.said = said])

NoticeExists(seen) == \E i \in DOMAIN seen : seen[i].mid = "notice" /\ seen[i].intact

ReadThread ==
    /\ At("thread")
    /\ LET seen == [i \in Live |-> posts[i]]
           p == [pass EXCEPT !.seen = seen, !.known = Len(posts), !.stopped = NoticeExists(seen)]
       IN Step(Advance(p, p.stopped))

(* Variant: a post is found only with its files.                             *)
MatchesVerified(u) == {i \in DOMAIN pass.seen : SameKey(pass.seen[i], u) /\ u.files \subseteq pass.seen[i].held}

(* Publisher.find, on the thread as it was read.                            *)
Matches(u) == {i \in DOMAIN pass.seen : SameKey(pass.seen[i], u)}

(* Variant: the files of a post made without them conflict.                 *)
ConflictsSkipped(u) ==
    \/ \E i \in Matches(u) : ~pass.seen[i].intact \/ pass.seen[i].claims # u.files
    \/ Cardinality(Matches(u)) > 1

Conflicts(u) ==
    \/ \E i \in Matches(u) : ~pass.seen[i].intact \/ (~pass.skip /\ pass.seen[i].claims # u.files)
    \/ Cardinality(Matches(u)) > 1

Found(u) == pass.seen[First(Matches(u))]

Look ==
    /\ At("look")
    /\ LET u == Cur(pass)
       IN IF Conflicts(u) THEN Conflict
          ELSE Step(IF Matches(u) # {}
                    THEN IF pass.skip \/ Found(u).claims = {} THEN Done(pass)
                         ELSE [pass EXCEPT !.pc = "verify", !.todo = Found(u).claims]
                    ELSE IF pass.skip \/ u.files = {} THEN [pass EXCEPT !.pc = "create"]
                         ELSE [pass EXCEPT !.pc = "check", !.todo = u.files])

(* Publisher.verified: the post as it was read, the upload as it is.        *)
Verified(i, f) == f \in pass.seen[i].held /\ files[f].up /\ files[f].post = i

Verify ==
    /\ At("verify")
    /\ LET f == First(pass.todo)
       IN Step(IF ~Verified(First(Matches(Cur(pass))), f) THEN Mend(pass, f)
               ELSE IF pass.todo = {f} THEN Done(pass)
               ELSE [pass EXCEPT !.todo = @ \ {f}])

(* Before a post is created: its files must be there and free.  One bound to a
   post of the run, or to a deleted one, is lost.                           *)
Check ==
    /\ At("check")
    /\ LET f == First(pass.todo)
       IN Step(IF ~files[f].up \/ files[f].post \in DOMAIN pass.seen THEN Missing(pass)
               ELSE IF files[f].post # 0 THEN [pass EXCEPT !.pc = "owner"]
               ELSE [pass EXCEPT !.todo = @ \ {f}, !.pc = IF pass.todo = {f} THEN "create" ELSE "check"])

Owner ==
    /\ At("owner")
    /\ IF posts[files[First(pass.todo)].post].live THEN Conflict ELSE Step(Missing(pass))

Create == At("create") /\ Step([pass EXCEPT !.pc = "await"])

(* Without SkipAttachments the receipt claims all files of the unit.        *)
Asked == [Cur(pass) EXCEPT !.files = IF pass.skip THEN {} ELSE @]

Serve(held) ==
    /\ At("await") /\ pass.reply = 0
    /\ held \subseteq Attachable(Asked.files)
    /\ IF Recognised(Asked, pass.known) # {}
       THEN /\ held = {} /\ pass' = [pass EXCEPT !.reply = First(Recognised(Asked, pass.known))]
            /\ UNCHANGED <<posts, files, bounds>>
       ELSE /\ pass' = [pass EXCEPT !.reply = Len(posts) + 1]
            /\ Commit(Asked, held, FALSE)
            /\ IF held = Attachable(Asked.files) THEN UNCHANGED bounds
               ELSE faults < MaxFaults /\ faults' = faults + 1 /\ UNCHANGED tampers
    /\ UNCHANGED <<run, late, suspended>>

(* The created post joins the thread, where publishOne looks for it.        *)
Receive ==
    /\ At("await") /\ pass.reply # 0
    /\ Step([pass EXCEPT !.pc = "look", !.reply = 0,
                         !.mode = IF @ = "unit" THEN "created" ELSE @,
                         !.seen = [i \in DOMAIN pass.seen \cup {pass.reply} |->
                                      IF i = pass.reply THEN posts[i] ELSE pass.seen[i]]])

(* A request fails, the pass is cancelled or the process dies.              *)
Fail ==
    /\ pass.pc \in Requests /\ faults < MaxFaults /\ faults' = faults + 1
    /\ pass' = NoPass
    /\ late' \in IF At("await") /\ pass.reply = 0 THEN {late, late \cup {Asked}} ELSE {late}
    /\ UNCHANGED <<run, posts, files, suspended, tampers>>

ServeLate(u) ==
    /\ u \in late /\ late' = late \ {u}
    /\ IF Recognised(u, 0) # {} THEN UNCHANGED <<posts, files>> ELSE Commit(u, Attachable(u.files), TRUE)
    /\ UNCHANGED <<run, pass, suspended, bounds>>

(* A reload resets the thread's retries.                                    *)
Resume ==
    /\ suspended /\ suspended' = FALSE
    /\ UNCHANGED <<run, mattermost, pass, bounds>>

-----------------------------------------------------------------------------

Publish == Start \/ ReadRun \/ ReadHistory \/ ReadThread \/ Look \/ Verify \/ Check \/ Owner
               \/ Create \/ (\E held \in SUBSET Files : Serve(held)) \/ Receive

Users ==
    \/ \E i \in DOMAIN posts : EditPost(i) \/ \E gone \in SUBSET posts[i].held : DeletePost(i, gone)
    \/ \E f \in Files : LoseFile(f)

Orpheus ==
    \/ Say
    \/ \E how \in {"completed", "failed"}, ready \in BOOLEAN, exported \in Exports :
           End(how, ready, exported)

Next == Publish \/ Users \/ Orpheus \/ Fail \/ (\E u \in late : ServeLate(u)) \/ Resume

Spec == Init /\ [][Next]_vars

(* The thread is polled while its run is active and retried after errors;
   requests are answered or fail.                                           *)
FairSpec == Spec /\ WF_vars(Publish)

-----------------------------------------------------------------------------
(* Types.  A bound file and its post agree; a pass stays on its agenda.      *)
TypeOK ==
    /\ said \in 0 .. Len(Messages) /\ ended \in {"no", "completed", "failed"}
    /\ export \in [ready : BOOLEAN, files : SUBSET Files]
    /\ posts \in Seq([mid : Mids, part : Nat, fix : Files \cup {"none"}, claims : SUBSET Files,
                      held : SUBSET Files, live : BOOLEAN, intact : BOOLEAN, late : BOOLEAN])
    /\ \A f \in Files : files[f].up \in BOOLEAN /\ files[f].post \in 0 .. Len(posts)
    /\ \A i \in DOMAIN posts : posts[i].held = {f \in Files : files[f].post = i}
    /\ pass.pc \in Requests \cup {"idle", "look"} /\ pass.mode \in {"unit", "created", "repair", "notice", "again"}
    /\ pass.at \in 0 .. Len(Agenda(pass))
    /\ pass.todo \cup pass.rest \subseteq Files /\ pass.reply \in 0 .. Len(posts)
    /\ suspended \in BOOLEAN /\ {faults, tampers} \subseteq Nat

(* No part of an answer, no notice and no repair is in the thread twice, though
   nothing but the thread tells the next pass what the last one achieved:
   "Visible receipts suppress duplicates" (docs/TESTING.md:82).              *)
PartOnce == \A i, j \in Live : SameKey(posts[i], posts[j]) => i = j

Edited == \E i \in DOMAIN posts : ~posts[i].intact

(* A thread is suspended over a conflict only if somebody edited a post of the
   bot, deleted the notice that explains why files are missing, or a request
   the connector had given up made a post: lost answers, posts without their
   files and other deleted posts are no conflict (delivery.go:92-111, :219-247). *)
ConflictExplained ==
    suspended => Edited \/ \E i \in DOMAIN posts :
                     posts[i].late \/ (posts[i].mid = "notice" /\ ~posts[i].live)

(* "Could not deliver the result attachments" is said only if some file or the
   list of files is lost, or a user has deleted a post.                      *)
NoFalseAlarm ==
    \A i \in DOMAIN posts : posts[i].mid = "notice" =>
        \/ ~export.ready
        \/ \E f \in export.files : ~files[f].up
        \/ \E j \in DOMAIN posts : ~posts[j].live

(* Readers see a message's parts in order, and progress and answers in theirs:
   before a part is posted for the first time all earlier ones have been.    *)
Position(p) == IF p.mid = "status" THEN Len(Messages) + 1 ELSE CHOOSE i \in DOMAIN Messages : Messages[i].mid = p.mid
InOrder ==
    \A i \in DOMAIN posts : posts[i].mid \notin {"notice", "files", "empty"} =>
        /\ posts[i].part > 0 \/ posts[i].fix # "none" =>
              \E j \in 1 .. i - 1 : posts[j].mid = posts[i].mid /\ posts[j].fix = "none"
                  /\ posts[j].part = IF posts[i].fix = "none" THEN posts[i].part - 1 ELSE posts[j].part
        /\ \A m \in 1 .. Position(posts[i]) - 1 :
              m <= said /\ Messages[m].parts > 0 /\ (Messages[m].kind = "answer" \/ Commentary)
              /\ (posts[i].mid = "status" \/ Messages[Position(posts[i])].kind \in {"answer", Messages[m].kind}) =>
                  \E j \in 1 .. i - 1 : posts[j].mid = Messages[m].mid /\ posts[j].part = Messages[m].parts - 1

Posted(mid, part) == \E i \in Live : posts[i].mid = mid /\ posts[i].part = part /\ posts[i].fix = "none"

(* What a reader of the thread can ask for.                                  *)
Delivered ==
    /\ \A m \in 1 .. said, k \in 0 .. Len(Messages) * 9 :
          (k < Messages[m].parts /\ (Messages[m].kind = "answer" \/ Commentary)) => Posted(Messages[m].mid, k)
    /\ ended = "failed" => Posted("status", 0)
    /\ Posted("notice", 0) \/ (export.ready /\ \A f \in export.files : files[f].up /\ files[f].post \in Live)
    /\ \E i \in Live : TRUE

(* After a run has ended the thread comes to show all of it, its failure, and
   its files or a word that they are missing, whatever was lost, deleted or
   repeated on the way, unless an edit suspended it.                         *)
EverythingDelivered == (ended # "no") ~> (Delivered \/ suspended)
=============================================================================
