------------------------------- MODULE Context -------------------------------
(* What the agent is told: how a pass reads a thread page by page and builds
   the next request from it, over the life of one thread and its sessions.
   internal/conversation/context.go and Thread of internal/mattermost/client.go.

   Admission models which triggers are accepted, through lost and late
   requests.  Here a submission succeeds or comes too late, and the matter is
   the rest of a request: the posts around the triggers, the posts they link
   to, and what later requests leave out because it was said before.         *)
EXTENDS Integers, Sequences, FiniteSets, Selection

CONSTANTS
    Ids,          \* posts that may appear in the thread, in the order of their IDs
    Root,         \* the first post of the thread
    Far,          \* another thread, as a sequence of posts
    Kind,         \* per post of Ids: "trigger", "passive" or "bot"
    Link,         \* per post of Ids: the post it links to, or None
    Cost,         \* per post and version: its size
    Window,       \* message_batch_window
    Tokens,       \* initial_context_token_budget, as a size
    MaxBytes,     \* max_request_bytes
    Near,         \* how many neighbours of a trigger are preferred
    MaxLinks,     \* links.max_links
    MaxPosts,     \* links.max_posts
    PageSize,     \* replies in a page of a thread
    Editable,     \* posts their authors may edit
    Deletable,    \* posts their authors may delete
    MaxTime, MaxChanges, MaxSessions, MaxRuns, \* bounds
    None

ASSUME ContextAssumption ==
    /\ Ids \subseteq Nat /\ Root \in Ids /\ Root \notin Deletable /\ IsFiniteSet(Ids)
    /\ \A p \in Ids : Root <= p
    /\ Far \in Seq(Nat) /\ {Window, Tokens, MaxBytes, PageSize} \subseteq Nat /\ None \notin Nat
    /\ Kind \in [Ids -> {"trigger", "passive", "bot"}]
    /\ \A p \in Ids : Link[p] \in Ids \cup ToSet(Far) \cup {None}
    /\ Cost \in [Ids \cup ToSet(Far) -> [0..MaxChanges -> Nat]]
    /\ PageSize > 0 /\ MaxPosts > 0

VARIABLES
    now,          \* the clock
    thread,       \* posts of the thread: when they were created, version, live
    history,      \* accepted inputs in order, as Orpheus keeps them
    run,          \* runs so far, and whether the latest is active
    session,      \* sessions so far, and whether the latest can be continued
    refused,      \* versions of triggers with a receipt of their rejection
    pass          \* what the current pass has read

vars == <<now, thread, history, run, session, refused, pass>>

NothingRead == [p \in {} |-> 0]
NoPass == [pc |-> "idle", start |-> {}, got |-> NothingRead, cursor |-> Root,
           snap |-> <<>>, run |-> [n |-> 0, active |-> FALSE], initial |-> FALSE]

Init ==
    /\ now = 0
    /\ thread = [p \in {Root} |-> [at |-> 0, ver |-> 0, live |-> TRUE]]
    /\ history = <<>> /\ refused = {}
    /\ run = [n |-> 0, active |-> FALSE]
    /\ session = [n |-> 0, usable |-> FALSE]
    /\ pass = NoPass

-----------------------------------------------------------------------------
(* Users write, edit and delete; time passes between passes.                 *)

Live(p) == p \in DOMAIN thread /\ thread[p].live
LivePosts == {p \in DOMAIN thread : Live(p)}
Before(p, q) ==
    \/ thread[p].at < thread[q].at
    \/ thread[p].at = thread[q].at /\ p < q
Rank(posts, p) == Cardinality({q \in posts : Before(q, p)})
\* <<>> \o makes a sequence of the function, which TLC would keep unevaluated.
Chronological(posts) == <<>> \o [i \in 1..Cardinality(posts) |-> CHOOSE p \in posts : Rank(posts, p) = i - 1]
Changes == MapThenSumSet(LAMBDA p : thread[p].ver + (IF Live(p) THEN 0 ELSE 1), DOMAIN thread)

Write(p) ==
    /\ p \in Ids \ DOMAIN thread
    /\ Link[p] \in Ids => Link[p] \in DOMAIN thread
    /\ thread' = [q \in DOMAIN thread \cup {p} |->
                     IF q = p THEN [at |-> now, ver |-> 0, live |-> TRUE] ELSE thread[q]]
    /\ UNCHANGED <<now, history, run, session, refused, pass>>

Edit(p) ==
    /\ p \in Editable /\ Live(p) /\ Kind[p] # "bot" /\ Changes < MaxChanges
    /\ thread' = [thread EXCEPT ![p].ver = @ + 1]
    /\ UNCHANGED <<now, history, run, session, refused, pass>>

Delete(p) ==
    /\ p \in Deletable /\ Live(p) /\ Changes < MaxChanges
    /\ thread' = [thread EXCEPT ![p].live = FALSE]
    /\ UNCHANGED <<now, history, run, session, refused, pass>>

Tick ==
    /\ now < MaxTime /\ pass.pc = "idle"
    /\ now' = now + 1
    /\ UNCHANGED <<thread, history, run, session, refused, pass>>

-----------------------------------------------------------------------------
(* Orpheus: each item of an input is a message of its own, and they reach the
   agent one after the other.  "heard" counts those that have; "delivery" is
   that of the last one, which alone bears the envelope (Client.Submit).  A run
   ends, and what it has not delivered by then is rejected: a clarification of
   a completed run can be carried over ("undelivered"), anything else cannot. *)

Pending == {i \in DOMAIN history : history[i].run = run.n /\ history[i].delivery = "pending"}

Deliver ==
    /\ run.active /\ Pending # {}
    /\ LET i == Min(Pending)
           heard == history[i].heard + 1
       IN  history' = [history EXCEPT ![i].heard = heard,
                          ![i].delivery = IF heard = Len(history[i].items) THEN "delivered" ELSE @]
    /\ UNCHANGED <<now, thread, run, session, refused, pass>>

EndRun(completed) ==
    /\ run.active /\ run.n < MaxRuns
    /\ completed => \A i \in Pending : history[i].kind = "clarification"
    /\ history' = [i \in DOMAIN history |->
                      IF i \notin Pending THEN history[i]
                      ELSE [history[i] EXCEPT !.delivery = IF completed THEN "undelivered" ELSE "rejected"]]
    /\ run' = [run EXCEPT !.active = FALSE]
    /\ UNCHANGED <<now, thread, session, refused, pass>>

SessionLost ==
    /\ session.usable /\ ~run.active /\ session.n < MaxSessions
    /\ session' = [session EXCEPT !.usable = FALSE]
    /\ UNCHANGED <<now, thread, history, run, refused, pass>>

-----------------------------------------------------------------------------
(* A pass takes its snapshot and then reads the thread, a page at a time, each
   from the last post of the one before.                                     *)

StartPass ==
    /\ pass.pc = "idle"
    /\ pass' = [pc |-> "paging", start |-> LivePosts, got |-> NothingRead, cursor |-> Root,
                snap |-> history, run |-> run, initial |-> ~run.active /\ ~session.usable]
    /\ UNCHANGED <<now, thread, history, run, session, refused>>

(* Variant: the next page starts after the last page's time.                 *)
RestByTime == {p \in LivePosts \ {Root} : thread[p].at > thread[pass.cursor].at}

Rest == {p \in LivePosts \ {Root} : Before(pass.cursor, p)}

Got == DOMAIN pass.got
Page == {p \in Rest : Rank(Rest, p) < PageSize}

ReadPage ==
    /\ pass.pc = "paging"
    /\ pass' = [pass EXCEPT
          !.got = [p \in Got \cup Page \cup {Root} |-> IF p \in Got THEN @[p] ELSE thread[p].ver],
          !.cursor = IF Page = {} THEN @ ELSE CHOOSE p \in Page : \A q \in Page \ {p} : Before(q, p),
          !.pc = IF Page = Rest THEN "done" ELSE "paging"]
    /\ UNCHANGED <<now, thread, history, run, session, refused>>

CostRead == [p \in Got |-> Cost[p][pass.got[p]]]

-----------------------------------------------------------------------------
(* What the history says: a trigger of any accepted input is not a trigger
   again; only what was delivered counts as told.                            *)

Delivered == {i \in DOMAIN pass.snap : pass.snap[i].delivery = "delivered"}
KnownTriggers == UNION {pass.snap[i].triggers : i \in DOMAIN pass.snap}
(* Variant: what was accepted counts as told.                                *)
KnownContextAccepted ==
    UNION {pass.snap[i].contexts \cup pass.snap[i].triggers : i \in DOMAIN pass.snap}

KnownContext == UNION {pass.snap[i].contexts \cup pass.snap[i].triggers : i \in Delivered}

(* Variant: every accepted version counts as told.                           *)
VersionAccepted(p) ==
    LET naming == {i \in DOMAIN pass.snap : \E v \in pass.snap[i].versions : v[1] = p}
    IN  IF naming = {} THEN None
        ELSE (CHOOSE v \in pass.snap[Max(naming)].versions : v[1] = p)[2]

VersionTold(p) ==
    LET naming == {i \in Delivered : \E v \in pass.snap[i].versions : v[1] = p}
    IN  IF naming = {} THEN None
        ELSE (CHOOSE v \in pass.snap[Max(naming)].versions : v[1] = p)[2]

Posts == {p \in Got : <<p, pass.got[p]>> \notin refused}
Candidates == {p \in Posts : Kind[p] = "trigger" /\ p \notin KnownTriggers}

-----------------------------------------------------------------------------
(* A plan is what a request is built for: the triggers of the window, or a
   clarification that is carried over into a new session.                    *)

Ordinary ==
    LET first == Head(Chronological(Candidates))
    IN  [initial |-> pass.initial, carried |-> 0, anchor |-> first, saved |-> <<>>,
         frozen |-> {}, withheld |-> {},
         triggers |-> Chronological({p \in Candidates : thread[p].at <= thread[first].at + Window})]

(* Variant: the items that were delivered are sent again.                     *)
AllOf(m) == m.items

(* Of a clarification that was not delivered to its end the rest is saved.    *)
RestOf(m) == SubSeq(m.items, m.heard + 1, Len(m.items))

(* Versions told by an input that was delivered may be mere references in the
   saved text; the others are frozen with it, those of the items that were
   delivered before it among them.                                           *)
Carried(i) ==
    LET m == pass.snap[i]
    IN  [initial |-> TRUE, carried |-> i, anchor |-> m.anchor, saved |-> RestOf(m),
         frozen |-> {v \in m.versions : VersionTold(v[1]) # v[2]},
         withheld |-> Candidates, triggers |-> <<m.anchor>>]

Mandatory(plan, count) == {plan.triggers[i] : i \in 1..count}

FrozenPosts(plan) == {v[1] : v \in plan.frozen}

(* Variant: a shortened batch ends with the time of the next trigger.        *)
InTimeWithTies(plan, count, p) ==
    \/ plan.carried # 0
    \/ thread[p].at <= IF count < Len(plan.triggers) THEN thread[plan.triggers[count + 1]].at
                       ELSE thread[plan.anchor].at + Window

(* A shortened batch ends just before the first trigger it leaves for later. *)
InTime(plan, count, p) ==
    \/ plan.carried # 0
    \/ IF count < Len(plan.triggers) THEN Before(p, plan.triggers[count + 1])
       ELSE thread[p].at <= thread[plan.anchor].at + Window

Eligible(plan, count) ==
    LET known == KnownContext \ Mandatory(plan, count)
    IN  {p \in Posts \ (FrozenPosts(plan) \cup plan.withheld) :
            InTime(plan, count, p) /\ (plan.initial \/ (Kind[p] # "bot" /\ p \notin known))}

Chosen(eligible, mandatory, budget) ==
    InitialContext(Chronological(eligible), mandatory, Root, Near, CostRead, budget)

-----------------------------------------------------------------------------
(* Building a request: the chosen posts of the thread, then what they link
   to.  A draft grows by items; seen are the posts it has.                   *)

Item(p, v, text, linked) == [post |-> p, ver |-> v, text |-> text, linked |-> linked]
SizeOf(items) == FoldLeft(LAMBDA sum, i : sum + (IF i.text THEN Cost[i.post][i.ver] ELSE 0), 0, items)

Put(draft, item) ==
    IF item.post \in draft.seen THEN draft
    ELSE [draft EXCEPT !.items = Append(@, item), !.seen = @ \cup {item.post}]

Notice(draft, p) == [draft EXCEPT !.notices = @ \cup {p}]

(* A link into the same thread adds the post, or only a reference to it when
   this version was told before.                                             *)
PutLinked(draft, plan, p, room) ==
    LET reference == ~plan.initial /\ VersionTold(p) = thread[p].ver
    IN  IF ~Live(p) THEN Notice(draft, p)
        ELSE IF p \in draft.seen THEN draft
        ELSE IF ~reference /\ Cost[p][thread[p].ver] > room - SizeOf(draft.items) THEN Notice(draft, p)
        ELSE IF p \in plan.withheld THEN draft
        ELSE Put(draft, Item(p, thread[p].ver, ~reference, TRUE))

(* A link into another thread adds posts around the target while they fit.   *)
Take(draft, p, i) ==
    IF Far[i] # p /\ Cost[Far[i]][0] > draft.left THEN Notice(draft, Far[i])
    ELSE Put([draft EXCEPT !.left = IF Far[i] = p THEN @ ELSE @ - Cost[Far[i]][0]],
             Item(Far[i], 0, TRUE, TRUE))
PutFar(draft, p, room) ==
    LET at == CHOOSE i \in DOMAIN Far : Far[i] = p
        chosen == LinkedSelection(Len(Far), at, 1, MaxPosts)
        taken[i \in 0..Len(Far)] ==
            IF i = 0 THEN [draft EXCEPT !.left = room - SizeOf(draft.items) - Cost[p][0]]
            ELSE IF i \in chosen THEN Take(taken[i - 1], p, i) ELSE taken[i - 1]
    IN  IF Cost[p][0] > room - SizeOf(draft.items) THEN Notice(draft, p) ELSE taken[Len(Far)]

(* The posts of a request whose links are followed: the first to name each
   link, as many as are allowed.                                             *)
Linking(own) ==
    LET first == {i \in DOMAIN own :
                     Link[own[i]] # None /\ \A j \in DOMAIN own : j < i => Link[own[j]] # Link[own[i]]}
    IN  {i \in first : Cardinality({j \in first : j < i}) < MaxLinks}

Follow(start, plan, own, room) ==
    LET linking == Linking(own)
        draft[k \in 0..Len(own)] ==
            IF k = 0 THEN start
            ELSE IF k \notin linking THEN draft[k - 1]
            ELSE IF Link[own[k]] \in Ids THEN PutLinked(draft[k - 1], plan, Link[own[k]], room)
            ELSE PutFar(draft[k - 1], Link[own[k]], room)
    IN  draft[Len(own)]

(* The chosen posts of the thread, in order, and what they link to, which is
   sent before them.                                                         *)
LinkedFirst(draft, own) ==
    [draft EXCEPT !.items = SubSeq(@, own + 1, Len(@)) \o SubSeq(@, 1, own)]

Draft(plan, eligible, chosen, budget) ==
    LET own == Chronological({p \in eligible : p \in chosen})
        room == Min({budget, MaxBytes \div 2}) - SizeOf(plan.saved)
        start == [items |-> [i \in DOMAIN own |-> Item(own[i], pass.got[own[i]], TRUE, FALSE)],
                  seen |-> chosen \cup FrozenPosts(plan), notices |-> {}, left |-> 0]
    IN  LinkedFirst(Follow(start, plan, own, room), Len(own))

Envelope(plan, mandatory, draft, omitted) ==
    LET triggers == IF plan.carried # 0 THEN pass.snap[plan.carried].triggers ELSE mandatory
        context == ({i.post : i \in ToSet(draft.items)} \cap Ids) \ mandatory
    IN  [anchor |-> plan.anchor, triggers |-> triggers,
         contexts |-> context \cup (IF plan.carried = 0 THEN {}
                                    ELSE pass.snap[plan.carried].contexts \cap FrozenPosts(plan)),
         versions |-> plan.frozen \cup {<<i.post, i.ver>> : i \in ToSet(draft.items)},
         items |-> draft.items \o plan.saved,
         omitted |-> omitted,
         pred |-> plan.carried]

Request(plan, count, budget) ==
    LET eligible == Eligible(plan, count)
        mandatory == Mandatory(plan, count)
        chosen == Chosen(eligible, mandatory, budget)
    IN  Envelope(plan, mandatory, Draft(plan, eligible, chosen, budget), chosen # eligible)

Fits(request) == 4 * SizeOf(request.items) < 3 * MaxBytes

(* The budget is halved until the request fits; then the batch is shortened. *)
Budgets == LET first == Min({Tokens, MaxBytes \div 3})
           IN  {b \in 0..first : \E k \in 0..first : b = first \div 2^k}
Attempts(plan) == (1..Len(plan.triggers)) \X Budgets
Fitting(plan) == {a \in Attempts(plan) : Fits(Request(plan, a[1], a[2]))}
Largest(fitting) == CHOOSE a \in fitting : \A b \in fitting : b[1] < a[1] \/ (b[1] = a[1] /\ b[2] <= a[2])

-----------------------------------------------------------------------------
(* The end of a pass: a request is submitted, refused as too large, or there
   is nothing to submit.                                                     *)

Transferable ==
    {i \in DOMAIN pass.snap :
        /\ pass.snap[i].delivery = "undelivered"
        /\ \A j \in DOMAIN pass.snap : pass.snap[j].pred # i}
Due == Candidates # {} /\ (Window > 0 => now >= thread[Head(Chronological(Candidates))].at + Window)

(* A clarification goes to the active run, other input starts a run, in the
   latest session or in a new one.  A target that is gone accepts nothing.   *)
Submit(request, kind, created) ==
    LET new == [anchor |-> request.anchor, triggers |-> request.triggers, contexts |-> request.contexts,
                versions |-> request.versions, items |-> request.items, omitted |-> request.omitted,
                pred |-> request.pred, kind |-> kind, delivery |-> "pending", heard |-> 0,
                session |-> session.n + (IF created THEN 1 ELSE 0),
                run |-> IF kind = "initial" THEN run.n + 1 ELSE run.n]
        open == request.items # <<>> /\ IF kind = "clarification" THEN run.active ELSE created \/ session.usable
    IN  IF open
        THEN /\ history' = Append(history, new)
             /\ run' = [n |-> new.run, active |-> TRUE]
             /\ session' = [n |-> new.session, usable |-> TRUE]
        ELSE UNCHANGED <<history, run, session>>

Build(plan, kind) ==
    LET fitting == Fitting(plan)
        a == Largest(fitting)
    IN  IF fitting # {}
        THEN Submit(Request(plan, a[1], a[2]), kind, plan.initial) /\ UNCHANGED refused
        ELSE /\ LET m == Request(plan, 1, 0) IN refused' = refused \cup {v \in m.versions : v[1] \in m.triggers}
             /\ UNCHANGED <<history, run, session>>

(* Carried over within its session, the rest of an input is sent again as it
   was, under the envelope of the whole.                                     *)
Resend(i) ==
    /\ Submit([pass.snap[i] EXCEPT !.pred = i, !.items = RestOf(pass.snap[i])], "initial", FALSE)
    /\ UNCHANGED refused

Nothing == UNCHANGED <<history, run, session, refused>>

EndPass ==
    /\ pass.pc = "done" /\ pass' = NoPass
    /\ IF ~pass.run.active /\ Transferable # {}
       THEN IF pass.initial THEN Build(Carried(Min(Transferable)), "initial") ELSE Resend(Min(Transferable))
       ELSE IF Due THEN Build(Ordinary, IF pass.run.active THEN "clarification" ELSE "initial")
       ELSE Nothing
    /\ UNCHANGED <<now, thread>>

Next ==
    \/ \E p \in Ids : Write(p) \/ Edit(p) \/ Delete(p)
    \/ Tick \/ Deliver \/ SessionLost
    \/ \E completed \in BOOLEAN : EndRun(completed)
    \/ StartPass \/ ReadPage \/ EndPass

Spec == Init /\ [][Next]_vars
-----------------------------------------------------------------------------
PostsIn(m) == {i.post : i \in ToSet(m.items)}
Texts(m, p) == {i \in DOMAIN m.items : m.items[i].post = p /\ m.items[i].text}

(* A thread that was read page by page has every post that was there when the
   reading began and still is, whatever is written and deleted meanwhile, also
   at the time of the last post of a page (Thread).                          *)
ReadWhole == pass.pc = "done" => pass.start \cap LivePosts \subseteq Got

(* No request takes a trigger as mere context before it was accepted as a
   trigger, unless a post links to it: a trigger is answered in its turn, with
   what was written up to it, however a batch is cut (buildMessages).        *)
NotSwallowed ==
    \A i \in DOMAIN history : \A item \in ToSet(history[i].items) :
        item.text /\ ~item.linked /\ Kind[item.post] = "trigger" =>
            \E j \in 1..i : item.post \in history[j].triggers

(* A request says the text of each of its triggers once.  A clarification that
   is carried over keeps all its triggers, says those that were not delivered
   as they were accepted, and does not repeat the others, although all of them
   are read again, perhaps edited, and fresh context is built around them
   (transfer, RebuildTransfer).  Of a version that an earlier message told the
   agent the text may be there again, as context (README, 5).                *)
SaidOnce ==
    \A i \in DOMAIN history : \A p \in history[i].triggers :
        LET m == history[i]
            n == history[m.pred]
            heard == {k \in Texts(n, p) : k <= n.heard}
            said == {m.items[k] : k \in Texts(m, p)}
            left == {n.items[k] : k \in Texts(n, p) \ heard}
            told == \E j \in 1..(i - 1), k \in Texts(n, p) :
                        history[j].delivery = "delivered" /\ <<p, n.items[k].ver>> \in history[j].versions
        IN  IF m.pred = 0 THEN Cardinality(Texts(m, p)) = 1
            ELSE /\ m.triggers = n.triggers /\ left \subseteq said
                 /\ told \/ Cardinality(heard) + Cardinality(Texts(m, p)) = 1

(* A post is mentioned without its text only if the agent was given the text
   of that very version before, however often it was edited, mentioned or sent
   in vain in between, as a whole or in part (knownVersions in buildMessages). *)
Gives(m, item) ==
    \E k \in 1..m.heard : m.items[k].text /\ m.items[k].post = item.post /\ m.items[k].ver = item.ver
ReferencesKnown ==
    \A i \in DOMAIN history : \A item \in ToSet(history[i].items) :
        ~item.text => \E j \in 1..(i - 1) : Gives(history[j], item)

(* What was written before a batch is not passed over: the request has it, or
   an earlier one that reached the agent, or may still, had it, or one of them
   says that posts were omitted; but for posts that were once refused as too
   large.  A clarification that is carried over has what was delivered of it
   before.  The first request of a session starts anew, but for that part,
   which was given to the agent of another session (README, 5; eligible in
   buildMessages, Known, transfer).                                          *)
Reaching == {pass.snap[i] : i \in {j \in DOMAIN pass.snap : pass.snap[j].delivery \in {"pending", "delivered"}}}
EverRefused == {v[1] : v \in refused}
Earlier(m) == {p \in Got \ (Candidates \cup EverRefused) : Kind[p] # "bot" /\ thread[p].at < thread[m.anchor].at}
HeardBefore(m) == IF m.pred = 0 THEN {} ELSE {history[m.pred].items[k].post : k \in 1..history[m.pred].heard}
Covered(m, told) ==
    \/ Earlier(m) \subseteq UNION {PostsIn(n) \cup HeardBefore(n) : n \in told}
    \/ \E n \in told : n.omitted
NothingPassedOver ==
    [][Len(history') > Len(history) =>
          LET m == Last(history') IN Covered(m, {m} \cup IF pass.initial THEN {} ELSE Reaching)]_vars

(* NothingPassedOver and ReferencesKnown within one session: its own agent was
   given what a request leaves out or only mentions.  Neither holds (README, 5):
   what an earlier session was given is taken as known (Known, transfer).    *)
WithinSession(m) ==
    IF m.pred # 0 /\ history[m.pred].session # m.session THEN [m EXCEPT !.pred = 0] ELSE m
SessionTold ==
    [][Len(history') > Len(history) =>
          LET m == Last(history')
          IN  Covered(WithinSession(m), {WithinSession(n) : n \in {m} \cup {r \in Reaching : r.session = m.session}})]_vars

SessionReferencesKnown ==
    \A i \in DOMAIN history : \A item \in ToSet(history[i].items) :
        ~item.text => \E j \in 1..(i - 1) :
            history[j].session = history[i].session /\ Gives(history[j], item)
=============================================================================
