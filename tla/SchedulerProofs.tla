--------------------------- MODULE SchedulerProofs ---------------------------
(***************************************************************************)
(* Theorems about Scheduler, for any threads, workflows, limits and faults: *)
(* its types, that no waiting job is forgotten, that no workflow exceeds its *)
(* limit, and that no trigger is lost to the scan's digests.               *)
(***************************************************************************)
EXTENDS Scheduler, FiniteSetTheorems, TLAPS

-----------------------------------------------------------------------------
(* Types.                                                                   *)

(* The scan's type. *)
Scans == [pc : {"idle", "channels", "sessions", "replay"}, cfg : SUBSET Flows,
          flows : SUBSET Flows, flow : SUBSET Flows, todo : SUBSET Threads,
          read : SUBSET Threads]
WorldOK ==
    /\ trig \in [Threads -> Triggers] /\ member \subseteq Threads
    /\ live \subseteq Threads /\ sess \subseteq Threads /\ owed \subseteq Threads
    /\ late \subseteq Threads \X Kinds
    /\ cfg \subseteq Flows /\ retired \subseteq Flows \ cfg
    /\ active \subseteq Threads /\ unknown \subseteq Threads
    /\ pend \subseteq Threads /\ frozen \in [Threads -> Inputs] /\ timers \subseteq Threads
    /\ known \subseteq Threads /\ digested \subseteq Threads /\ fresh \subseteq Threads
    /\ discovered \subseteq Flows
    /\ initialized \in BOOLEAN /\ discovering \in BOOLEAN /\ scanDue \in BOOLEAN /\ stale \in BOOLEAN
    /\ faults \in Nat /\ changes \in Nat
JobsOK ==
    /\ jobs \subseteq Threads /\ dirty \subseteq jobs /\ waiting \subseteq jobs
    /\ permanent \subseteq jobs /\ backing \subseteq jobs /\ cancelled \subseteq Working
    /\ Working \subseteq jobs

(* What waits for an answer is frozen. *)
AwaitOK == \A t \in Threads : At(t, "await") => frozen[t] \in Kinds

LEMMA TypeParts == TypeOK <=> WorldOK /\ JobsOK /\ pass \in [Threads -> Passes] /\ scan \in Scans
BY DEF TypeOK, WorldOK, JobsOK, Scans

LEMMA NextTypeParts == WorldOK' /\ JobsOK' /\ pass' \in [Threads -> Passes] /\ scan' \in Scans => TypeOK'
BY DEF TypeOK, WorldOK, JobsOK, Scans

LEMMA NoPassTyped == NoPass \in Passes /\ NoPass.pc = "idle"
BY DEF NoPass, Passes, Steps, Requests

LEMMA Update ==
    ASSUME pass \in [Threads -> Passes], NEW t \in Threads, NEW p \in Passes,
           pass' = [pass EXCEPT ![t] = p]
    PROVE  /\ pass' \in [Threads -> Passes] /\ pass'[t] = p
           /\ \A u \in Threads \ {t} : pass'[u] = pass[u]
           /\ Working' = IF p.pc = "idle" THEN Working \ {t} ELSE Working \cup {t}
BY DEF Working


(* A pass that goes on, and one that ends: Working stays what it is.        *)
LEMMA Going ==
    ASSUME TypeOK, NEW t \in Working, NEW p \in Passes, p.pc # "idle",
           pass' = [pass EXCEPT ![t] = p]
    PROVE  pass' \in [Threads -> Passes] /\ Working' = Working
<1>1. t \in Threads
  BY DEF Working
<1> QED BY <1>1, Update DEF TypeOK, Working

LEMMA GoesOn ==
    ASSUME TypeOK, NEW t \in Working, NEW step \in Steps \ {"idle"}, Continue(t, step)
    PROVE  /\ pass' \in [Threads -> Passes] /\ Working' = Working
           /\ pass'[t] = [NoPass EXCEPT !.pc = step]
           /\ \A u \in Threads \ {t} : pass'[u] = pass[u]
<1> DEFINE p == [NoPass EXCEPT !.pc = step]
<1>1. p \in Passes /\ p.pc = step
  BY NoPassTyped DEF Passes, NoPass, Steps, Requests
<1>2. pass' = [pass EXCEPT ![t] = p]
  BY DEF Continue
<1>3. t \in Threads
  BY DEF Working
<1> HIDE DEF p
<1>4. pass' \in [Threads -> Passes] /\ Working' = Working
  BY <1>1, <1>2, Going
<1>5. pass'[t] = p /\ \A u \in Threads \ {t} : pass'[u] = pass[u]
  BY <1>1, <1>2, <1>3, Update DEF TypeOK
<1> QED BY <1>4, <1>5 DEF p

LEMMA Ends ==
    ASSUME TypeOK, NEW t \in Working, NEW result \in {"ok", "error", "permanent"}, EndWith(t, result)
    PROVE  /\ pass' \in [Threads -> Passes] /\ Working' = Working
           /\ pass'[t] = [NoPass EXCEPT !.pc = "finish", !.result = result]
           /\ \A u \in Threads \ {t} : pass'[u] = pass[u]
<1> DEFINE p == [NoPass EXCEPT !.pc = "finish", !.result = result]
<1>1. p \in Passes /\ p.pc = "finish"
  BY NoPassTyped DEF Passes, NoPass, Steps, Requests
<1>2. pass' = [pass EXCEPT ![t] = p]
  BY DEF EndWith
<1>3. t \in Threads
  BY DEF Working
<1> HIDE DEF p
<1>4. pass' \in [Threads -> Passes] /\ Working' = Working
  BY <1>1, <1>2, Going
<1>5. pass'[t] = p /\ \A u \in Threads \ {t} : pass'[u] = pass[u]
  BY <1>1, <1>2, <1>3, Update DEF TypeOK
<1> QED BY <1>4, <1>5 DEF p

(* Marking a thread dirty, or asking for a rescan.                          *)
LEMMA Marking ==
    ASSUME TypeOK, NEW t \in Threads, Hint(t) \/ EnqueueOrRescan(t) \/ Enlist(t) \/ UNCHANGED <<queue, scanDue>>
    PROVE  /\ jobs \subseteq jobs' /\ jobs' \subseteq Threads
           /\ dirty \subseteq dirty' /\ dirty' \subseteq jobs' /\ dirty' \subseteq dirty \cup {t}
<1>1. CASE UNCHANGED queue
  BY <1>1 DEF TypeOK, queue
<1>2. CASE Enqueue(t)
  BY <1>2 DEF TypeOK, Enqueue
<1> QED BY <1>1, <1>2 DEF Hint, EnqueueOrRescan, Enlist, queue

LEMMA ListingTypes ==
    ASSUME TypeOK, NEW f \in Flows, NEW todo \in SUBSET Threads, Listing(f, todo)
    PROVE  scan' \in Scans /\ discovered' \subseteq Flows
<1>1. scan \in Scans /\ discovered \subseteq Flows
  BY DEF TypeOK, Scans
<1>2. scan' \in Scans
  BY <1>1 DEF Listing, Scans
<1> QED BY <1>1, <1>2 DEF Listing

LEMMA StartTypes == Init => TypeOK
<1> SUFFICES ASSUME Init PROVE TypeOK
  OBVIOUS
<1>1. scan \in Scans
  BY DEF Init, NoScan, Scans
<1>2. pass \in [Threads -> Passes] /\ Working = {}
  BY NoPassTyped DEF Init, Working
<1>3. WorldOK
  BY ConfigAssumption, BoundAssumption DEF Init, WorldOK, Triggers, Inputs
<1>4. JobsOK
  BY <1>2 DEF Init, JobsOK
<1> QED BY <1>1, <1>2, <1>3, <1>4, TypeParts

LEMMA EnvironmentTypes == TypeOK /\ Environment => TypeOK'
<1> SUFFICES ASSUME TypeOK, Environment PROVE TypeOK'
  OBVIOUS
<1> USE DEF mattermost, orpheus, config, queue, marks, capacity, engine, discovery,
            fingerprints, bounds, Working
<1>1. ASSUME NEW t \in Threads, Post(t) PROVE TypeOK'
  BY <1>1 DEF TypeOK, Post, PostsChange, Triggers
<1>2. ASSUME NEW t \in Threads, WindowEnds(t) PROVE TypeOK'
  BY <1>2 DEF TypeOK, WindowEnds, Triggers
<1>3. ASSUME NEW t \in Threads, Move(t) PROVE TypeOK'
  BY <1>3 DEF TypeOK, Move
<1>4. ASSUME NEW t \in Threads, Event(t) PROVE TypeOK'
  BY <1>4 DEF TypeOK, Event, EnqueueOrRescan, Enqueue
<1>5. ASSUME NEW t \in Threads, Watched(t) PROVE TypeOK'
  BY <1>5 DEF TypeOK, Watched, Hint, EnqueueOrRescan, Enqueue
<1>6. ASSUME NEW t \in Threads, Serve(t) PROVE TypeOK'
  <2> DEFINE reply == IF trig'[t] = "done" THEN "ok" ELSE "closed"
             p == [pass[t] EXCEPT !.reply = reply]
  <2>1. pass[t] \in Passes /\ pass[t].pc = "await"
    BY <1>6 DEF TypeOK, Serve, At
  <2>2. p \in Passes /\ p.pc = "await" /\ t \in Working
    BY <2>1 DEF Passes
  <2>3. pass' = [pass EXCEPT ![t] = p]
    BY <1>6 DEF Serve
  <2> HIDE DEF p
  <2>4. pass' \in [Threads -> Passes] /\ Working' = Working
    BY <2>2, <2>3, Going
  <2>5. WorldOK'
    BY <1>6 DEF Serve, Accept, TypeOK, WorldOK, Triggers
  <2>6. JobsOK' /\ scan' \in Scans
    <3> HIDE DEF Working
    <3> QED BY <1>6, <2>4, TypeParts DEF Serve, JobsOK
  <2> QED BY <2>4, <2>5, <2>6, NextTypeParts
<1>7. ASSUME NEW t \in Threads, RunEnds(t) PROVE TypeOK'
  BY <1>7 DEF TypeOK, RunEnds, EndRun
<1>8. ASSUME NEW t \in Threads, NEW input \in Kinds, ServeLate(t, input) PROVE TypeOK'
  BY <1>8 DEF TypeOK, ServeLate, Accept, Triggers
<1>9. ASSUME NEW t \in Threads, BackoffEnds(t) PROVE TypeOK'
  BY <1>9 DEF TypeOK, BackoffEnds
<1>10. ASSUME NEW t \in Threads, TimerFires(t) PROVE TypeOK'
  BY <1>10 DEF TypeOK, TimerFires, Hint, EnqueueOrRescan, Enqueue
<1>11. ASSUME NEW new \in Configs, Reload(new) PROVE TypeOK'
  BY <1>11, ConfigAssumption DEF TypeOK, Reload, Retire
<1> QED BY <1>1, <1>2, <1>3, <1>4, <1>5, <1>6, <1>7, <1>8, <1>9, <1>10, <1>11 DEF Environment

LEMMA PassTypes ==
    ASSUME TypeOK, AwaitOK, NEW t \in Threads, Dispatch(t) \/ Reconcile(t)
    PROVE  TypeOK'
<1> USE DEF mattermost, orpheus, config, queue, marks, capacity, engine, discovery,
            fingerprints, bounds
<1>0. pass[t] \in Passes /\ (pass[t].pc # "idle" => t \in Working)
  BY DEF TypeOK, Working
<1>1. CASE Dispatch(t)
  <2> DEFINE p == [NoPass EXCEPT !.pc = "snapshot", !.scope = InScope(t), !.perm = t \in permanent]
  <2>1. p \in Passes /\ p.pc = "snapshot"
    <3>1. InScope(t) \in BOOLEAN /\ (t \in permanent) \in BOOLEAN
      BY DEF InScope
    <3> QED BY <3>1, NoPassTyped DEF Passes, NoPass, Steps, Requests
  <2>2. pass' = [pass EXCEPT ![t] = p]
    BY <1>1 DEF Dispatch
  <2> HIDE DEF p
  <2>3. pass' \in [Threads -> Passes] /\ Working' = Working \cup {t}
    BY <2>1, <2>2, Update DEF TypeOK
  <2> QED BY <1>1, <2>3 DEF TypeOK, Dispatch, CanRun
<1>2. CASE Observe(t)
  <2>1. t \in Working
    BY <1>0, <1>2 DEF Observe, At
  <2>2. pass' \in [Threads -> Passes] /\ Working' = Working
    <3> DEFINE p == [NoPass EXCEPT !.pc = "thread", !.live = t \in live,
                                   !.owed = t \in owed, !.known = (trig[t] = "done")]
    <3>1. CASE EndWith(t, "ok")
      BY <2>1, <3>1, Ends
    <3>2. CASE Continue(t, "cancel")
      BY <2>1, <3>2, GoesOn DEF Steps, Requests
    <3>3. p \in Passes /\ p.pc = "thread"
      <4>1. (t \in live) \in BOOLEAN /\ (t \in owed) \in BOOLEAN /\ (trig[t] = "done") \in BOOLEAN
        OBVIOUS
      <4> QED BY <4>1, NoPassTyped DEF Passes, NoPass, Steps, Requests
    <3>4. CASE pass' = [pass EXCEPT ![t] = p]
      <4> HIDE DEF p
      <4> QED BY <2>1, <3>3, <3>4, Going
    <3> QED BY <1>2, <3>1, <3>2, <3>4 DEF Observe
  <2> QED BY <1>2, <2>2 DEF TypeOK, Observe, Put, Inputs
<1>3. CASE CancelRun(t)
  <2>1. t \in Working
    BY <1>0, <1>3 DEF CancelRun, At
  <2>2. pass' \in [Threads -> Passes] /\ Working' = Working
    BY <1>3, <2>1, Ends DEF CancelRun
  <2> QED BY <1>3, <2>2 DEF TypeOK, CancelRun, EndRun
<1>4. CASE Rest(t)
  <2>1. t \in Working
    BY <1>0, <1>4 DEF Rest, ReadThread, At
  <2>2. pass' \in [Threads -> Passes] /\ Working' = Working
    BY <1>4, <2>1, GoesOn DEF Rest, Steps, Requests
  <2> QED BY <1>4, <2>2 DEF TypeOK, Rest, ReadThread, PostsChange, Inputs
<1>5. CASE SetTimer(t)
  <2>1. t \in Working
    BY <1>0, <1>5 DEF SetTimer, At
  <2>2. pass' \in [Threads -> Passes] /\ Working' = Working
    BY <1>5, <2>1, Ends DEF SetTimer
  <2> QED BY <1>5, <2>2 DEF TypeOK, SetTimer
<1>6. CASE Wait(t)
  <2>1. t \in Working
    BY <1>0, <1>6 DEF Wait, ReadThread, At
  <2>2. pass' \in [Threads -> Passes] /\ Working' = Working
    BY <1>6, <2>1, Ends DEF Wait
  <2> QED BY <1>6, <2>1, <2>2 DEF TypeOK, Wait, ReadThread, PostsChange, Inputs
<1>7. CASE Submit(t)
  <2>1. t \in Working
    BY <1>0, <1>7 DEF Submit, ReadThread, At
  <2>2. pass' \in [Threads -> Passes] /\ Working' = Working
    BY <1>7, <2>1, GoesOn DEF Submit, Steps, Requests
  <2>3. Input(t) \in Inputs
    BY DEF TypeOK, Input, Inputs, Kinds
  <2> QED BY <1>7, <2>2, <2>3 DEF TypeOK, Submit, ReadThread, PostsChange
<1>8. CASE Receive(t)
  <2>1. t \in Working
    BY <1>0, <1>8 DEF Receive, At
  <2>2. pass' \in [Threads -> Passes] /\ Working' = Working
    BY <1>8, <2>1, Ends DEF Receive
  <2>3. /\ jobs \subseteq jobs' /\ jobs' \subseteq Threads
        /\ dirty \subseteq dirty' /\ dirty' \subseteq jobs'
    BY <1>8, Marking DEF Receive
  <2>4. scanDue' \in BOOLEAN
    BY <1>8 DEF TypeOK, Receive, Hint, EnqueueOrRescan
  <2>5. JobsOK'
    BY <1>8, <2>2, <2>3, TypeParts DEF JobsOK, Receive
  <2>6. frozen' \in [Threads -> Inputs] /\ pend' \subseteq Threads
    BY <1>8 DEF TypeOK, Receive, Inputs
  <2>7. WorldOK'
    BY <1>8, <2>4, <2>6, TypeParts DEF WorldOK, Receive
  <2> QED BY <1>8, <2>2, <2>5, <2>7, TypeParts, NextTypeParts DEF Receive
<1>9. CASE Abort(t)
  <2>1. t \in Working
    BY <1>0, <1>9 DEF Abort, GiveUp, Requests
  <2>2. pass' \in [Threads -> Passes] /\ Working' = Working
    BY <1>9, <2>1, Ends DEF Abort, GiveUp
  <2>3. late' \subseteq Threads \X Kinds
    BY <1>9 DEF TypeOK, AwaitOK, Abort, GiveUp
  <2> QED BY <1>9, <2>2, <2>3 DEF TypeOK, Abort, GiveUp
<1>10. CASE Finish(t)
  <2>1. pass' \in [Threads -> Passes] /\ Working' = Working \ {t}
    BY <1>10, NoPassTyped, Update DEF TypeOK, Finish
  <2> QED BY <1>10, <2>1 DEF TypeOK, Finish, Put, Idle, Failed
<1> QED BY <1>1, <1>2, <1>3, <1>4, <1>5, <1>6, <1>7, <1>8, <1>9, <1>10 DEF Reconcile

LEMMA DiscoveryTypes == TypeOK /\ Discover => TypeOK'
<1> SUFFICES ASSUME TypeOK, Discover PROVE TypeOK'
  OBVIOUS
<1> USE DEF mattermost, orpheus, config, queue, marks, capacity, engine, discovery,
            fingerprints, bounds, Working
<1>1. CASE ScanStarts
  <2>1. scan' \in Scans
    BY <1>1 DEF TypeOK, ScanStarts, NoScan, Scans
  <2> QED BY <1>1, <2>1 DEF TypeOK, ScanStarts, Scans
<1>2. CASE ListChannels
  <2>1. scan' \in Scans
    BY <1>2 DEF TypeOK, ListChannels, Scans
  <2> QED BY <1>2, <2>1 DEF TypeOK, ListChannels, Scans
<1>3. CASE SessionsKnown
  <2>1. scan' \in Scans
    BY <1>3 DEF TypeOK, SessionsKnown, Scans
  <2> QED BY <1>3, <2>1 DEF TypeOK, SessionsKnown, Scans
<1>4. CASE ScanEnds
  <2>1. PICK success \in BOOLEAN : EndScan(success)
    BY <1>4 DEF ScanEnds
  <2>2. scan' \in Scans
    BY <2>1 DEF EndScan, NoScan, Scans
  <2> QED BY <1>4, <2>1, <2>2 DEF TypeOK, ScanEnds, EndScan, Scans
<1>5. ASSUME NEW f \in Flows, SkipFlow(f) PROVE TypeOK'
  <2>1. scan' \in Scans
    BY <1>5 DEF TypeOK, SkipFlow, Scans
  <2> QED BY <1>5, <2>1 DEF TypeOK, SkipFlow, Scans
<1>6. ASSUME NEW f \in Flows, ListSessions(f) PROVE TypeOK'
  <2>1. scan' \in Scans
    BY <1>6 DEF TypeOK, ListSessions, Listing, Of, Scans
  <2> QED BY <1>6, <2>1 DEF TypeOK, ListSessions, Listing, Scans
<1>7. ASSUME NEW t \in Threads, Register(t) PROVE TypeOK'
  <2>1. scan' \in Scans /\ discovered' \subseteq Flows
    BY <1>7, ListingTypes, FlowAssumption DEF TypeOK, Register
  <2>2. /\ jobs \subseteq jobs' /\ jobs' \subseteq Threads
        /\ dirty \subseteq dirty' /\ dirty' \subseteq jobs'
    BY <1>7, Marking DEF Register
  <2>3. unknown' \subseteq Threads
    BY <1>7 DEF TypeOK, Register, Unread
  <2> QED BY <1>7, <2>1, <2>2, <2>3 DEF TypeOK, Register, Scans
<1>8. ASSUME NEW t \in Threads, ReadPosts(t) PROVE TypeOK'
  <2>1. scan' \in Scans
    BY <1>8 DEF TypeOK, ReadPosts, Scans
  <2> QED BY <1>8, <2>1 DEF TypeOK, ReadPosts, Scans
<1>9. ASSUME NEW t \in Threads, Replay(t) PROVE TypeOK'
  <2>1. scan' \in Scans
    BY <1>9 DEF TypeOK, Replay, Scans
  <2> QED BY <1>9, <2>1 DEF TypeOK, Replay, Enlist, Enqueue, Scans
<1> QED BY <1>1, <1>2, <1>3, <1>4, <1>5, <1>6, <1>7, <1>8, <1>9 DEF Discover

LEMMA FaultTypes == TypeOK /\ AwaitOK /\ Faults => TypeOK'
<1> SUFFICES ASSUME TypeOK, AwaitOK, Faults PROVE TypeOK'
  OBVIOUS
<1> USE DEF mattermost, orpheus, config, queue, marks, capacity, engine, discovery,
            fingerprints, bounds, Fault
<1>1. CASE ScanFails
  <2>1. EndScan(FALSE)
    BY <1>1 DEF ScanFails
  <2>2. scan' \in Scans
    BY <2>1 DEF EndScan, NoScan, Scans
  <2>3. faults' \in Nat /\ changes' \in Nat
    BY <1>1 DEF TypeOK, ScanFails
  <2>4. JobsOK' /\ pass' \in [Threads -> Passes]
    BY <2>1 DEF TypeOK, JobsOK, EndScan, Working
  <2>5. WorldOK'
    BY <2>1, <2>3 DEF TypeOK, WorldOK, EndScan
  <2> QED BY <2>2, <2>4, <2>5, NextTypeParts
<1>2. ASSUME NEW t \in Threads, Fail(t) PROVE TypeOK'
  <2>1. t \in Working
    BY <1>2 DEF Fail, GiveUp, Requests, Working
  <2>2. pass' \in [Threads -> Passes] /\ Working' = Working
    BY <1>2, <2>1, Ends DEF Fail, GiveUp
  <2>3. late' \subseteq Threads \X Kinds
    BY <1>2 DEF TypeOK, AwaitOK, Fail, GiveUp
  <2> QED BY <1>2, <2>2, <2>3 DEF TypeOK, Fail, GiveUp
<1>3. ASSUME NEW t \in Threads, NEW result \in {"error", "permanent"}, Denied(t, result) PROVE TypeOK'
  <2>1. t \in Working
    BY <1>3 DEF Denied, At, Working
  <2>2. pass' \in [Threads -> Passes] /\ Working' = Working
    BY <1>3, <2>1, Ends DEF Denied
  <2> QED BY <1>3, <2>2 DEF TypeOK, Denied, EndRun
<1> QED BY <1>1, <1>2, <1>3 DEF Faults

(* Steps that are not those of a pass.                                      *)
Besides ==
    \/ \E t \in Threads : Post(t) \/ WindowEnds(t) \/ Move(t) \/ Event(t) \/ Watched(t)
    \/ \E t \in Threads : RunEnds(t) \/ \E input \in Kinds : ServeLate(t, input)
    \/ \E t \in Threads : BackoffEnds(t) \/ TimerFires(t)
    \/ (\E new \in Configs : Reload(new)) \/ Discover \/ ScanFails

(* Steps of the pass of t, and of Orpheus answering it.                     *)
Within(t) ==
    Serve(t) \/ Dispatch(t) \/ Reconcile(t) \/ Fail(t) \/ \E result \in {"error", "permanent"} : Denied(t, result)

LEMMA StepKinds == Next => Besides \/ \E t \in Threads : Within(t)
BY DEF Next, Environment, Faults, Besides, Within

LEMMA Beside == TypeOK /\ Besides => UNCHANGED <<pass, frozen, pend, active>>
<1> SUFFICES ASSUME TypeOK, Besides PROVE UNCHANGED <<pass, frozen, pend, active>>
  OBVIOUS
<1> USE DEF mattermost, orpheus, config, queue, marks, capacity, engine, discovery,
            fingerprints, bounds
<1>1. ASSUME NEW t \in Threads, Post(t) \/ WindowEnds(t) \/ Move(t) \/ Event(t) \/ Watched(t)
      PROVE  UNCHANGED <<pass, frozen, pend, active>>
  BY <1>1 DEF Post, WindowEnds, Move, Event, Watched
<1>2. ASSUME NEW t \in Threads, RunEnds(t) \/ BackoffEnds(t) \/ TimerFires(t)
      PROVE  UNCHANGED <<pass, frozen, pend, active>>
  BY <1>2 DEF RunEnds, BackoffEnds, TimerFires
<1>3. ASSUME NEW t \in Threads, NEW input \in Kinds, ServeLate(t, input)
      PROVE  UNCHANGED <<pass, frozen, pend, active>>
  BY <1>3 DEF ServeLate
<1>4. ASSUME NEW new \in Configs, Reload(new) PROVE UNCHANGED <<pass, frozen, pend, active>>
  BY <1>4 DEF Reload
<1>5. CASE Discover
  BY <1>5 DEF Discover, ScanStarts, ListChannels, SessionsKnown, ScanEnds, EndScan, SkipFlow,
              ListSessions, Register, ReadPosts, Replay
<1>6. CASE ScanFails
  BY <1>6 DEF ScanFails, EndScan
<1> QED BY <1>1, <1>2, <1>3, <1>4, <1>5, <1>6 DEF Besides

LEMMA Elsewhere ==
    ASSUME TypeOK, NEW t \in Threads, Within(t)
    PROVE  /\ \A u \in Threads \ {t} : pass'[u] = pass[u] /\ frozen'[u] = frozen[u]
           /\ pend' \ {t} = pend \ {t} /\ active' \ {t} = active \ {t}
<1> USE DEF mattermost, orpheus, config, queue, marks, capacity, engine, discovery,
            fingerprints, bounds
<1>1. \A u \in Threads \ {t} : pass'[u] = pass[u]
  BY DEF TypeOK, Within, Serve, Dispatch, Reconcile, Observe, CancelRun, Rest, SetTimer, Wait, Submit,
         Receive, Abort, Finish, Fail, Denied, GiveUp, Continue, EndWith
<1>2. \A u \in Threads \ {t} : frozen'[u] = frozen[u]
  BY DEF TypeOK, Within, Serve, Dispatch, Reconcile, Observe, CancelRun, Rest, SetTimer, Wait, Submit,
         Receive, Abort, Finish, Fail, Denied, GiveUp
<1>3. pend' \ {t} = pend \ {t} /\ active' \ {t} = active \ {t}
  BY DEF TypeOK, Within, Serve, Dispatch, Reconcile, Observe, CancelRun, Rest, SetTimer, Wait, Submit,
         Receive, Abort, Finish, Fail, Denied, GiveUp, Put
<1> QED BY <1>1, <1>2, <1>3

(* Only Submit begins to wait for an answer, and only Serve goes on waiting.  *)
LEMMA Awaiting ==
    ASSUME TypeOK, NEW t \in Threads, Within(t), pass'[t].pc = "await"
    PROVE  Submit(t) \/ Serve(t)
<1> USE DEF mattermost, orpheus, config, queue, marks, capacity, engine, discovery,
            fingerprints, bounds
<1>0. pass \in [Threads -> Passes]
  BY DEF TypeOK
<1>1. CASE Dispatch(t)
  BY <1>0, <1>1 DEF Dispatch, NoPass
<1>3. ASSUME NEW result \in {"ok", "error", "permanent"}, EndWith(t, result) PROVE FALSE
  BY <1>0, <1>3 DEF EndWith, NoPass
<1>2. CASE Observe(t)
  <2> DEFINE q == [NoPass EXCEPT !.pc = "thread", !.live = t \in live, !.owed = t \in owed,
                                 !.known = (trig[t] = "done")]
  <2>1. EndWith(t, "ok") \/ Continue(t, "cancel") \/ pass' = [pass EXCEPT ![t] = q]
    BY <1>2 DEF Observe
  <2>2. CASE Continue(t, "cancel")
    BY <1>0, <2>2 DEF Continue, NoPass
  <2>3. CASE pass' = [pass EXCEPT ![t] = q]
    <3>1. q.pc = "thread"
      BY DEF NoPass
    <3> HIDE DEF q
    <3> QED BY <1>0, <2>3, <3>1
  <2> QED BY <1>3, <2>1, <2>2, <2>3
<1>4. CASE Rest(t)
  BY <1>0, <1>4 DEF Rest, Continue, NoPass
<1>5. CASE Finish(t)
  BY <1>0, <1>5 DEF Finish, NoPass
<1> QED BY <1>1, <1>2, <1>3, <1>4, <1>5
        DEF Within, Reconcile, CancelRun, SetTimer, Wait, Receive, Abort, Fail, GiveUp, Denied

LEMMA AwaitKept == TypeOK /\ AwaitOK /\ [Next]_vars => AwaitOK'
<1> SUFFICES ASSUME TypeOK, AwaitOK, [Next]_vars PROVE AwaitOK'
  OBVIOUS
<1>1. CASE UNCHANGED <<pass, frozen>>
  BY <1>1 DEF AwaitOK, At
<1>2. ASSUME NEW t \in Threads, Within(t) PROVE AwaitOK'
  <2> SUFFICES ASSUME NEW u \in Threads, pass'[u].pc = "await" PROVE frozen'[u] \in Kinds
    BY DEF AwaitOK, At
  <2>1. CASE u # t
    BY <1>2, <2>1, Elsewhere DEF AwaitOK, At
  <2>2. CASE u = t /\ Submit(t)
    <3>1. Input(t) \in Kinds /\ frozen' = [frozen EXCEPT ![t] = Input(t)]
      BY <2>2 DEF TypeOK, Submit, Input, Inputs, Kinds
    <3> QED BY <2>2, <3>1 DEF TypeOK
  <2>3. CASE u = t /\ Serve(t)
    BY <2>3 DEF AwaitOK, Serve, engine
  <2> QED BY <1>2, <2>1, <2>2, <2>3, Awaiting
<1> QED BY <1>1, <1>2, StepKinds, Beside DEF vars, engine

TypeInv == TypeOK /\ AwaitOK

LEMMA TypesStart == Init => TypeInv
<1> SUFFICES ASSUME Init PROVE TypeInv
  OBVIOUS
<1>1. \A t \in Threads : pass[t].pc = "idle"
  BY DEF Init, NoPass
<1>2. AwaitOK
  BY <1>1 DEF AwaitOK, At
<1> QED BY <1>2, StartTypes DEF TypeInv

LEMMA TypesKept == TypeInv /\ [Next]_vars => TypeInv'
<1> SUFFICES ASSUME TypeOK, AwaitOK, [Next]_vars PROVE TypeOK'
  BY AwaitKept DEF TypeInv
<1>1. CASE UNCHANGED vars
  BY <1>1 DEF TypeOK, Working, vars, mattermost, orpheus, config, queue, marks, capacity, engine, discovery,
              fingerprints, bounds
<1> QED BY <1>1, EnvironmentTypes, PassTypes, DiscoveryTypes, FaultTypes DEF Next

(* The variables keep their types: only jobs carry marks (waiting, permanent,
   backing) and only jobs are worked on (runtime.go:74-100, :348-397).        *)
THEOREM TypeCorrect == Spec => []TypeOK
<1>1. TypeInv => TypeOK
  BY DEF TypeInv
<1> QED BY <1>1, TypesStart, TypesKept, PTL DEF Spec

-----------------------------------------------------------------------------
(* What the scheduler knows of the active runs.                             *)

LEMMA AddOne == ASSUME NEW S, NEW x, IsFiniteSet(S) PROVE IsFiniteSet(S \cup {x})
BY FS_AddElement

(* Active runs and reservations are finitely many.                          *)
FiniteOK == IsFiniteSet(active) /\ IsFiniteSet(live)

(* Only a submission makes a thread active that was not; only Orpheus's answer
   makes a run live.                                                        *)
LEMMA ActiveSteps ==
    ASSUME TypeOK, NEW t \in Threads, Within(t)
    PROVE  \/ active' \subseteq active
           \/ (Submit(t) \/ Observe(t)) /\ active' = active \cup {t}
<1> USE DEF mattermost, orpheus, config, queue, marks, capacity, engine, discovery,
            fingerprints, bounds
<1>1. CASE Submit(t)
  BY <1>1 DEF Submit
<1>2. CASE Observe(t)
  BY <1>2 DEF Observe, Put
<1>3. CASE ~Submit(t) /\ ~Observe(t)
  BY <1>3 DEF Within, Serve, Dispatch, Reconcile, CancelRun, Rest, SetTimer, Wait,
              Receive, Abort, Finish, Fail, Denied, GiveUp
<1> QED BY <1>1, <1>2, <1>3

LEMMA LiveSteps ==
    ASSUME TypeOK, NEW t \in Threads, Within(t)
    PROVE  \/ live' \subseteq live /\ sess' = sess
           \/ Serve(t) /\ live' = live \cup {t} /\ sess' = sess \cup {t}
<1> USE DEF mattermost, orpheus, config, queue, marks, capacity, engine, discovery,
            fingerprints, bounds
<1>1. CASE Serve(t)
  BY <1>1 DEF Serve, Accept
<1>2. CASE ~Serve(t)
  BY <1>2 DEF Within, Dispatch, Reconcile, Observe, CancelRun, Rest, SetTimer, Wait, Submit,
              Receive, Abort, Finish, Fail, Denied, GiveUp, EndRun, ReadThread
<1> QED BY <1>1, <1>2

(* What happens besides passes leaves the runs, but that they end or, late, begin. *)
LEMMA BesideRuns ==
    ASSUME TypeOK, Besides
    PROVE  \/ live' \subseteq live /\ sess' = sess
           \/ \E t \in Threads, input \in Kinds : ServeLate(t, input) /\ live' = live \cup {t} /\ sess' = sess \cup {t}
<1> SUFFICES ASSUME ~(live' \subseteq live /\ sess' = sess)
             PROVE  \E t \in Threads, input \in Kinds : ServeLate(t, input) /\ live' = live \cup {t} /\ sess' = sess \cup {t}
  OBVIOUS
<1> USE DEF mattermost, orpheus, config, queue, marks, capacity, engine, discovery,
            fingerprints, bounds
<1>1. ASSUME NEW t \in Threads, Post(t) \/ WindowEnds(t) \/ Move(t) \/ Event(t) \/ Watched(t)
      PROVE  FALSE
  BY <1>1 DEF Post, WindowEnds, Move, Event, Watched
<1>2. ASSUME NEW t \in Threads, RunEnds(t) \/ BackoffEnds(t) \/ TimerFires(t)
      PROVE  FALSE
  BY <1>2 DEF RunEnds, EndRun, BackoffEnds, TimerFires
<1>3. ASSUME NEW t \in Threads, NEW input \in Kinds, ServeLate(t, input)
      PROVE  live' = live \cup {t} /\ sess' = sess \cup {t}
  BY <1>3 DEF ServeLate, Accept
<1>4. ASSUME NEW new \in Configs, Reload(new) PROVE FALSE
  BY <1>4 DEF Reload
<1>5. CASE Discover
  BY <1>5 DEF Discover, ScanStarts, ListChannels, SessionsKnown, ScanEnds, EndScan, SkipFlow,
              ListSessions, Register, ReadPosts, Replay
<1>6. CASE ScanFails
  BY <1>6 DEF ScanFails, EndScan
<1> QED BY <1>1, <1>2, <1>3, <1>4, <1>5, <1>6 DEF Besides

LEMMA FiniteStart == Init => FiniteOK
BY FS_EmptySet, FS_Subset, OldAssumption DEF Init, FiniteOK

LEMMA FiniteKept == TypeOK /\ FiniteOK /\ [Next]_vars => FiniteOK'
<1> SUFFICES ASSUME TypeOK, FiniteOK, [Next]_vars PROVE FiniteOK'
  OBVIOUS
<1>1. CASE UNCHANGED <<active, live>>
  BY <1>1 DEF FiniteOK
<1>2. CASE Besides
  BY <1>2, Beside, BesideRuns, AddOne, FS_Subset DEF FiniteOK
<1>3. ASSUME NEW t \in Threads, Within(t) PROVE FiniteOK'
  <2>1. IsFiniteSet(active')
    BY <1>3, ActiveSteps, AddOne, FS_Subset DEF FiniteOK
  <2>2. IsFiniteSet(live')
    BY <1>3, LiveSteps, AddOne, FS_Subset DEF FiniteOK
  <2> QED BY <2>1, <2>2 DEF FiniteOK
<1> QED BY <1>1, <1>2, <1>3, StepKinds DEF vars, capacity, orpheus

-----------------------------------------------------------------------------
(* Waiting jobs.                                                            *)

MayWait(t) == ~initialized \/ discovering \/ scanDue \/ unknown # {} \/ Full(FlowOf[t])

(* A scan that has been overtaken is followed by another; a job that waits and
   is not dirty waits for something.                                        *)
Woken == (stale => scanDue) /\ \A t \in waiting \ dirty : MayWait(t)

LEMMA FullGrows ==
    ASSUME FiniteOK', TypeOK, active \subseteq active', NEW f, Full(f)
    PROVE  Full(f)'
<1>1. IsFiniteSet(active' \cap Of(f)) /\ active \cap Of(f) \subseteq active' \cap Of(f)
  BY FS_Subset DEF FiniteOK
<1>2. /\ Cardinality(active \cap Of(f)) <= Cardinality(active' \cap Of(f))
      /\ Cardinality(active' \cap Of(f)) \in Nat /\ Cardinality(active \cap Of(f)) \in Nat
  BY <1>1, FS_Subset, FS_CardinalityType
<1>3. MaxRuns \in Nat
  BY LimitAssumption
<1>4. Of(f)' = Of(f)
  BY DEF Of
<1> QED BY <1>2, <1>3, <1>4 DEF Full

(* What keeps every reason to wait, and leaves waiting and dirty but that jobs
   become dirty, keeps the invariant.                                       *)
LEMMA WokenKeeps ==
    ASSUME TypeOK, Woken, FiniteOK', waiting' \ dirty' \subseteq waiting \ dirty, stale' => scanDue',
           initialized' => initialized, discovering => discovering', scanDue => scanDue',
           unknown # {} => unknown' # {}, active \subseteq active'
    PROVE  Woken'
<1> SUFFICES ASSUME NEW t \in waiting' \ dirty' PROVE MayWait(t)'
  BY DEF Woken
<1>1. MayWait(t)
  BY DEF Woken
<1>2. FlowOf[t]' = FlowOf[t]
  OBVIOUS
<1> QED BY <1>1, <1>2, FullGrows DEF MayWait

LEMMA WokenStart == Init => Woken
BY DEF Init, Woken

LEMMA WokenKept == TypeOK /\ Woken /\ FiniteOK' /\ [Next]_vars => Woken'
<1> SUFFICES ASSUME TypeOK, Woken, FiniteOK', [Next]_vars PROVE Woken'
  OBVIOUS
<1> USE DEF mattermost, orpheus, config, queue, marks, capacity, engine, discovery,
            fingerprints, bounds
<1>1. CASE UNCHANGED vars
  BY <1>1, WokenKeeps DEF vars, Woken
<1>2. ASSUME NEW t \in Threads, Post(t) \/ WindowEnds(t) \/ Move(t) \/ RunEnds(t) \/ BackoffEnds(t)
      PROVE  Woken'
  BY <1>2, WokenKeeps DEF Woken, Post, WindowEnds, Move, RunEnds, BackoffEnds
<1>3. ASSUME NEW t \in Threads, Event(t) \/ Watched(t) \/ TimerFires(t) \/ Receive(t)
      PROVE  Woken'
  <2>1. Hint(t) \/ EnqueueOrRescan(t) \/ (UNCHANGED queue /\ (scanDue' \/ UNCHANGED scanDue))
    <3>1. CASE Event(t)
      BY <3>1 DEF Event
    <3>2. CASE Watched(t) \/ TimerFires(t)
      BY <3>2 DEF Watched, TimerFires
    <3>3. CASE Receive(t)
      BY <3>3 DEF Receive
    <3> QED BY <1>3, <3>1, <3>2, <3>3
  <2>2. dirty \subseteq dirty' /\ (scanDue => scanDue')
    BY <2>1 DEF Hint, EnqueueOrRescan, Enqueue, TypeOK
  <2>3. UNCHANGED <<waiting, active, unknown, initialized, discovering, stale>>
    BY <1>3 DEF Event, Watched, TimerFires, Receive
  <2> QED BY <2>2, <2>3, WokenKeeps DEF Woken
<1>4. ASSUME NEW t \in Threads, Serve(t) \/ CancelRun(t) \/ Rest(t) \/ SetTimer(t) \/ GiveUp(t) 
      PROVE  Woken'
  BY <1>4, WokenKeeps DEF Woken, Serve, CancelRun, Rest, SetTimer, GiveUp
<1>5. ASSUME NEW t \in Threads, NEW input \in Kinds, ServeLate(t, input) PROVE Woken'
  BY <1>5, WokenKeeps DEF Woken, ServeLate
<1>6. ASSUME NEW t \in Threads, NEW result, Denied(t, result) PROVE Woken'
  BY <1>6, WokenKeeps DEF Woken, Denied, Fault
<1>7. ASSUME NEW new \in Configs, Reload(new) PROVE Woken'
  BY <1>7 DEF TypeOK, Woken, Reload
<1>8. ASSUME NEW t \in Threads, Dispatch(t) PROVE Woken'
  BY <1>8, WokenKeeps DEF Woken, Dispatch
<1>9. ASSUME NEW t \in Threads, Observe(t) PROVE Woken'
  <2>1. CASE Frees(t)
    BY <1>9, <2>1 DEF Woken, Observe
  <2>2. CASE ~Frees(t)
    <3>1. active \subseteq active' /\ (unknown # {} => unknown' # {})
      BY <1>9, <2>2 DEF Observe, Frees, Put
    <3> QED BY <1>9, <2>2, <3>1, WokenKeeps DEF Woken, Observe
  <2> QED BY <2>1, <2>2
<1>10. ASSUME NEW t \in Threads, Wait(t) PROVE Woken'
  <2>1. /\ UNCHANGED <<dirty, initialized, discovering, scanDue, stale, unknown, active>>
        /\ waiting' = waiting \cup {t} /\ ~Admits(FlowOf[t])
    BY <1>10 DEF Wait
  <2>2. MayWait(t)
    BY <2>1 DEF Admits, Blocked, MayWait
  <2>3. \A u \in waiting' \ dirty' : MayWait(u)
    BY <2>1, <2>2 DEF Woken
  <2> QED BY <2>1, <2>3 DEF Woken, MayWait, Full, Of
<1>11. ASSUME NEW t \in Threads, Submit(t) PROVE Woken'
  BY <1>11, WokenKeeps DEF Woken, Submit
<1>12. ASSUME NEW t \in Threads, Finish(t) PROVE Woken'
  BY <1>12, WokenKeeps DEF Woken, Finish, Put, Idle
<1>13. CASE ScanStarts
  BY <1>13, WokenKeeps DEF TypeOK, Woken, ScanStarts
<1>14. CASE ListChannels
  BY <1>14, WokenKeeps DEF Woken, ListChannels
<1>15. CASE SessionsKnown
  BY <1>15 DEF Woken, SessionsKnown
<1>16. ASSUME NEW success, EndScan(success) PROVE Woken'
  <2>1. CASE stale
    BY <1>16, <2>1 DEF Woken, EndScan, MayWait
  <2>2. CASE ~stale
    BY <1>16, <2>2 DEF TypeOK, Woken, EndScan
  <2> QED BY <2>1, <2>2
<1>17. ASSUME NEW f \in Flows, SkipFlow(f) \/ ListSessions(f) PROVE Woken'
  BY <1>17, WokenKeeps DEF Woken, SkipFlow, ListSessions
<1>18. ASSUME NEW t \in Threads, Register(t) PROVE Woken'
  BY <1>18, WokenKeeps DEF TypeOK, Woken, Register, Enlist, Enqueue, Unread
<1>19. ASSUME NEW t \in Threads, ReadPosts(t) PROVE Woken'
  BY <1>19, WokenKeeps DEF Woken, ReadPosts
<1>20. ASSUME NEW t \in Threads, Replay(t) PROVE Woken'
  BY <1>20, WokenKeeps DEF Woken, Replay, Enlist, Enqueue
<1> QED BY <1>1, <1>2, <1>3, <1>4, <1>5, <1>6, <1>7, <1>8, <1>9, <1>10, <1>11, <1>12, <1>13, <1>14,
           <1>15, <1>16, <1>17, <1>18, <1>19, <1>20
        DEF Next, Environment, Reconcile, Discover, Faults, Abort, Fail, ScanEnds, ScanFails

(* No job sleeps while capacity is free: every step that could free some makes
   the waiting jobs dirty (runtime.go:444-450, :498-503, :583-587), whatever the
   configuration, the faults and the order of passes.                        *)
THEOREM NoneIdle == Spec => []NoIdleWaiter
<1> DEFINE IInv == TypeInv /\ FiniteOK /\ Woken
<1>1. Init => IInv
  BY TypesStart, FiniteStart, WokenStart
<1>2. IInv /\ [Next]_vars => IInv'
  BY TypesKept, FiniteKept, WokenKept DEF TypeInv
<1>3. IInv => NoIdleWaiter
  BY DEF Woken, MayWait, NoIdleWaiter
<1> HIDE DEF IInv
<1> QED BY <1>1, <1>2, <1>3, PTL DEF Spec

-----------------------------------------------------------------------------
(* The limit.                                                               *)

Reserved == {t \in Threads : At(t, "await") /\ pass[t].reply = "none" /\ frozen[t] = "initial"}
Claims == live \cup Reserved
Untracked == live \ (active \cup unknown)
Unseen(f) == Untracked \cap Of(f)

RunsOK == late = {} /\ live \subseteq sess /\ Reserved \subseteq active /\ Untracked \subseteq Old

ConfigOK ==
    /\ InitCfg \subseteq cfg \cup retired /\ cfg \cup retired \subseteq InitCfg \cup UNION Configs
    /\ \A t \in Threads :
          At(t, "thread") \/ (At(t, "snapshot") /\ pass[t].scope) => FlowOf[t] \in cfg \cup retired

ScanOK ==
    /\ \A f \in discovered : Unseen(f) = {}
    /\ initialized => \A f \in InitCfg : Unseen(f) = {}
    /\ scan.pc = "channels" => scan.flow = {} /\ scan.todo = {}
    /\ scan.pc = "replay" => initialized
    /\ scan.pc \in {"channels", "sessions"} => \A f \in InitCfg \ scan.flows : Unseen(f) = {}
    /\ scan.pc = "sessions" /\ scan.todo # {} =>
          \E f \in scan.flows : scan.flow = {f} /\ scan.todo \subseteq Of(f) /\ Unseen(f) \subseteq scan.todo
    /\ scan.pc = "sessions" /\ scan.todo = {} => scan.flow = {}

Counted == \A f \in Flows : Cardinality(Claims \cap Of(f)) <= MaxRuns

(* A workflow that a reload adds has no sessions yet.                       *)
NewFlowsFresh == \A new \in Configs : \A f \in new \ InitCfg : Of(f) \cap Old = {}

LEMMA Reserving ==
    ASSUME TypeOK, NEW t \in Threads, Within(t)
    PROVE  /\ Reserved' \ {t} = Reserved \ {t}
           /\ t \in Reserved' => Submit(t) /\ Input(t) = "initial"
<1>1. \A u \in Threads \ {t} : u \in Reserved' <=> u \in Reserved
  BY Elsewhere DEF Reserved, At
<1>2. ASSUME t \in Reserved' PROVE Submit(t) /\ Input(t) = "initial"
  <2>1. Submit(t) \/ Serve(t)
    BY <1>2, Awaiting DEF Reserved, At
  <2>2. CASE Serve(t)
    BY <1>2, <2>2 DEF TypeOK, Serve, Reserved
  <2>3. CASE Submit(t)
    BY <1>2, <2>3 DEF TypeOK, Submit, Reserved
  <2> QED BY <2>1, <2>2, <2>3
<1>3. Reserved \subseteq Threads /\ Reserved' \subseteq Threads
  BY DEF Reserved
<1> QED BY <1>1, <1>2, <1>3

LEMMA CapacitySteps ==
    ASSUME TypeOK, NEW t \in Threads, Within(t)
    PROVE  \/ Observe(t)
           \/ unknown' = unknown /\ active \subseteq active' 
<1> USE DEF mattermost, orpheus, config, queue, marks, capacity, engine, discovery,
            fingerprints, bounds
<1> QED BY DEF Within, Serve, Dispatch, Reconcile, CancelRun, Rest, SetTimer, Wait, Submit,
              Receive, Abort, Finish, Fail, Denied, GiveUp

LEMMA BesideCapacity == TypeOK /\ Besides => unknown \subseteq unknown' /\ late' \subseteq late
<1> SUFFICES ASSUME TypeOK, Besides PROVE unknown \subseteq unknown' /\ late' \subseteq late
  OBVIOUS
<1> USE DEF mattermost, orpheus, config, queue, marks, capacity, engine, discovery,
            fingerprints, bounds
<1>1. ASSUME NEW t \in Threads, Post(t) \/ WindowEnds(t) \/ Move(t) \/ Event(t) \/ Watched(t)
      PROVE  UNCHANGED <<unknown, late>>
  BY <1>1 DEF Post, WindowEnds, Move, Event, Watched
<1>2. ASSUME NEW t \in Threads, RunEnds(t) \/ BackoffEnds(t) \/ TimerFires(t)
      PROVE  UNCHANGED <<unknown, late>>
  BY <1>2 DEF RunEnds, BackoffEnds, TimerFires
<1>3. ASSUME NEW t \in Threads, NEW input \in Kinds, ServeLate(t, input)
      PROVE  UNCHANGED unknown /\ late' \subseteq late
  BY <1>3 DEF ServeLate
<1>4. ASSUME NEW new \in Configs, Reload(new) PROVE UNCHANGED <<unknown, late>>
  BY <1>4 DEF Reload
<1>5. CASE Discover
  BY <1>5 DEF Discover, ScanStarts, ListChannels, SessionsKnown, ScanEnds, EndScan, SkipFlow,
              ListSessions, Register, Unread, ReadPosts, Replay
<1>6. CASE ScanFails
  BY <1>6 DEF ScanFails, EndScan
<1> QED BY <1>1, <1>2, <1>3, <1>4, <1>5, <1>6 DEF Besides

(* Nothing becomes untracked; only a submission makes a claim.              *)
LEMMA RunsSteps ==
    ASSUME TypeOK, RunsOK, ~LateCommits, [Next]_vars
    PROVE  /\ RunsOK' /\ Untracked' \subseteq Untracked
           /\ \/ Claims' \subseteq Claims
              \/ \E t \in Threads : Submit(t) /\ Input(t) = "initial" /\ Claims' \subseteq Claims \cup {t}
<1> USE DEF orpheus, capacity, engine
<1>1. CASE UNCHANGED vars
  BY <1>1 DEF vars, RunsOK, Untracked, Claims, Reserved, At
<1>2. CASE Besides
  <2>1. live' \subseteq live /\ sess' = sess /\ late' = {}
    BY <1>2, BesideRuns, BesideCapacity DEF RunsOK, ServeLate
  <2>2. Reserved' = Reserved /\ active' = active
    BY <1>2, Beside DEF Reserved, At
  <2> QED BY <1>2, <2>1, <2>2, BesideCapacity DEF RunsOK, Untracked, Claims
<1>3. ASSUME NEW t \in Threads, Serve(t) PROVE RunsOK' /\ Untracked' \subseteq Untracked /\ Claims' \subseteq Claims
  <2>1. /\ live' \subseteq live \cup {t} /\ live' \subseteq sess' /\ UNCHANGED <<active, unknown, late>>
        /\ t \in live' => t \in live \/ t \in Reserved
    BY <1>3 DEF Serve, Accept, RunsOK, Reserved
  <2>2. Reserved' \subseteq Reserved
    BY <1>3, Reserving DEF Within, Serve, Submit, ReadThread, At
  <2> QED BY <2>1, <2>2 DEF RunsOK, Untracked, Claims
<1>4. ASSUME NEW t \in Threads, Within(t), ~Serve(t)
      PROVE  /\ RunsOK' /\ Untracked' \subseteq Untracked
             /\ Claims' \subseteq Claims \/ (Submit(t) /\ Input(t) = "initial" /\ Claims' \subseteq Claims \cup {t})
  <2>1. live' \subseteq live /\ sess' = sess
    BY <1>4, LiveSteps
  <2>2. late' = {}
    BY <1>4 DEF RunsOK, Within, Dispatch, Reconcile, Observe, CancelRun, Rest, SetTimer, Wait, Submit,
                Receive, Abort, Finish, Fail, Denied, GiveUp
  <2>3. Reserved' \ {t} = Reserved \ {t} /\ (t \in Reserved' => Submit(t) /\ Input(t) = "initial")
    BY <1>4, Reserving
  <2>4. active' \ {t} = active \ {t} /\ (Submit(t) /\ Input(t) = "initial" => t \in active')
    BY <1>4, Elsewhere DEF Submit
  <2>5. Untracked' \subseteq Untracked
    <3>1. CASE Observe(t)
      BY <2>1, <2>4, <3>1 DEF Observe, Put, Untracked
    <3> QED BY <1>4, <2>1, <3>1, CapacitySteps DEF Untracked
  <2> QED BY <2>1, <2>2, <2>3, <2>4, <2>5 DEF RunsOK, Claims
<1> QED BY <1>1, <1>2, <1>3, <1>4, StepKinds

LEMMA ConfigSteps == TypeOK /\ [Next]_vars =>
    \/ UNCHANGED <<cfg, retired>>
    \/ \E new \in Configs : cfg' \cup retired' = cfg \cup retired \cup new
<1> SUFFICES ASSUME TypeOK, [Next]_vars, ~UNCHANGED <<cfg, retired>>
             PROVE  \E new \in Configs : cfg' \cup retired' = cfg \cup retired \cup new
  OBVIOUS
<1> USE DEF config
<1>1. ASSUME NEW t \in Threads, Post(t) \/ WindowEnds(t) \/ Move(t) \/ Event(t) \/ Watched(t)
      PROVE  FALSE
  BY <1>1 DEF Post, WindowEnds, Move, Event, Watched
<1>2. ASSUME NEW t \in Threads, RunEnds(t) \/ BackoffEnds(t) \/ TimerFires(t) PROVE FALSE
  BY <1>2 DEF RunEnds, BackoffEnds, TimerFires
<1>3. ASSUME NEW t \in Threads, NEW input \in Kinds, ServeLate(t, input) PROVE FALSE
  BY <1>3 DEF ServeLate
<1>4. ASSUME NEW new \in Configs, Reload(new) PROVE cfg' \cup retired' = cfg \cup retired \cup new
  BY <1>4 DEF Reload, Retire
<1>5. ASSUME Discover PROVE FALSE
  BY <1>5 DEF Discover, ScanStarts, ListChannels, SessionsKnown, ScanEnds, EndScan, SkipFlow,
              ListSessions, Register, ReadPosts, Replay
<1>6. ASSUME ScanFails PROVE FALSE
  BY <1>6 DEF ScanFails, EndScan
<1>7. ASSUME NEW t \in Threads, Within(t) PROVE FALSE
  BY <1>7 DEF Within, Serve, Dispatch, Reconcile, Observe, CancelRun, Rest, SetTimer, Wait, Submit,
              Receive, Abort, Finish, Fail, Denied, GiveUp
<1> QED BY <1>1, <1>2, <1>3, <1>4, <1>5, <1>6, <1>7, StepKinds DEF Besides, vars

(* A pass reads its thread only when it was in scope when dispatched.       *)
LEMMA ScopeSteps ==
    ASSUME TypeOK, NEW t \in Threads, Within(t),
           pass'[t].pc = "thread" \/ (pass'[t].pc = "snapshot" /\ pass'[t].scope)
    PROVE  InScope(t) \/ (At(t, "snapshot") /\ pass[t].scope)
<1>0. pass \in [Threads -> Passes]
  BY DEF TypeOK
<1>1. CASE Dispatch(t)
  BY <1>0, <1>1 DEF Dispatch, NoPass
<1>2. CASE Observe(t)
  <2>1. ASSUME EndWith(t, "ok") PROVE FALSE
    BY <1>0, <2>1 DEF EndWith, NoPass
  <2>2. ASSUME Continue(t, "cancel") PROVE FALSE
    BY <1>0, <2>2 DEF Continue, NoPass
  <2> QED BY <1>2, <2>1, <2>2 DEF Observe
<1>3. ASSUME NEW result \in {"ok", "error", "permanent"}, EndWith(t, result) PROVE FALSE
  BY <1>0, <1>3 DEF EndWith, NoPass
<1>4. ASSUME NEW step \in {"hold", "finish", "await"}, Continue(t, step) PROVE FALSE
  BY <1>0, <1>4 DEF Continue, NoPass
<1>5. ASSUME Finish(t) PROVE FALSE
  BY <1>0, <1>5 DEF Finish, NoPass
<1>6. ASSUME Serve(t) PROVE FALSE
  BY <1>0, <1>6 DEF Serve, At
<1> QED BY <1>1, <1>2, <1>3, <1>4, <1>5, <1>6
        DEF Within, Reconcile, CancelRun, Rest, SetTimer, Wait, Submit, Receive, Abort, Fail, GiveUp, Denied

LEMMA ConfigKept == TypeOK /\ ConfigOK /\ [Next]_vars => ConfigOK'
<1> SUFFICES ASSUME TypeOK, ConfigOK, [Next]_vars PROVE ConfigOK'
  OBVIOUS
<1>1. cfg \cup retired \subseteq cfg' \cup retired' /\ cfg' \cup retired' \subseteq InitCfg \cup UNION Configs
  BY ConfigSteps DEF ConfigOK
<1>2. ASSUME NEW t \in Threads, At(t, "thread")' \/ (At(t, "snapshot") /\ pass[t].scope)'
      PROVE  FlowOf[t] \in cfg \cup retired
  <2>1. CASE pass'[t] = pass[t]
    BY <1>2, <2>1 DEF ConfigOK, At
  <2>2. CASE Within(t)
    <3>1. InScope(t) \/ (At(t, "snapshot") /\ pass[t].scope)
      BY <1>2, <2>2, ScopeSteps DEF At
    <3> QED BY <3>1 DEF ConfigOK, InScope
  <2> QED BY <2>1, <2>2, StepKinds, Beside, Elsewhere DEF vars
<1> QED BY <1>1, <1>2 DEF ConfigOK

(* Steps outside discovery.                                                 *)
LEMMA ScanUnmoved ==
    TypeOK /\ [Next]_vars => (UNCHANGED <<scan, initialized>> /\ discovered' \subseteq discovered) \/ Discover \/ ScanFails
<1> SUFFICES ASSUME TypeOK, [Next]_vars, ~Discover, ~ScanFails
             PROVE  UNCHANGED <<scan, initialized>> /\ discovered' \subseteq discovered
  OBVIOUS
<1> USE DEF discovery
<1>1. ASSUME NEW t \in Threads, Post(t) \/ WindowEnds(t) \/ Move(t) \/ Event(t) \/ Watched(t)
      PROVE  UNCHANGED discovery
  BY <1>1 DEF Post, WindowEnds, Move, Event, Watched
<1>2. ASSUME NEW t \in Threads, RunEnds(t) \/ BackoffEnds(t) \/ TimerFires(t) PROVE UNCHANGED discovery
  BY <1>2 DEF RunEnds, BackoffEnds, TimerFires
<1>3. ASSUME NEW t \in Threads, NEW input \in Kinds, ServeLate(t, input) PROVE UNCHANGED discovery
  BY <1>3 DEF ServeLate
<1>4. ASSUME NEW new \in Configs, Reload(new) PROVE UNCHANGED <<scan, initialized>> /\ discovered' = {}
  BY <1>4 DEF Reload
<1>5. ASSUME NEW t \in Threads, Within(t) PROVE UNCHANGED discovery
  BY <1>5 DEF Within, Serve, Dispatch, Reconcile, Observe, CancelRun, Rest, SetTimer, Wait, Submit,
              Receive, Abort, Finish, Fail, Denied, GiveUp
<1> QED BY <1>1, <1>2, <1>3, <1>4, <1>5, StepKinds DEF Besides, vars

LEMMA ScanKept ==
    ASSUME TypeOK, ScanOK, RunsOK, ConfigOK, [Next]_vars, Untracked' \subseteq Untracked
    PROVE  ScanOK'
<1>0. \A f : Unseen(f)' \subseteq Unseen(f)
  BY DEF Unseen, Of
<1> USE DEF discovery
<1>1. CASE UNCHANGED <<scan, initialized>> /\ discovered' \subseteq discovered
  BY <1>0, <1>1 DEF ScanOK, Of
<1>2. CASE ScanStarts
  <2>1. /\ scan'.pc = "channels" /\ scan'.flow = {} /\ scan'.todo = {} /\ scan'.flows = cfg \cup retired
        /\ UNCHANGED <<initialized, discovered>>
    BY <1>2 DEF ScanStarts, NoScan
  <2> QED BY <1>0, <2>1 DEF ScanOK, ConfigOK
<1>3. CASE ListChannels
  <2>1. scan.pc = "channels" /\ scan' = [scan EXCEPT !.pc = "sessions"] /\ UNCHANGED <<initialized, discovered>>
    BY <1>3 DEF ListChannels
  <2>2. scan'.pc = "sessions" /\ scan'.flow = scan.flow /\ scan'.todo = scan.todo /\ scan'.flows = scan.flows
    BY <2>1 DEF TypeOK
  <2> QED BY <1>0, <2>1, <2>2 DEF ScanOK
<1>4. CASE SessionsKnown
  <2>1. /\ scan.pc = "sessions" /\ scan.flows = {} /\ scan'.pc = "replay"
        /\ initialized' = TRUE /\ UNCHANGED discovered
    BY <1>4 DEF TypeOK, SessionsKnown
  <2> QED BY <1>0, <2>1 DEF ScanOK
<1>5. ASSUME NEW success \in BOOLEAN, EndScan(success), success => scan.pc = "replay" PROVE ScanOK'
  <2>1. scan'.pc = "idle" /\ (initialized' => initialized) /\ UNCHANGED discovered
    BY <1>5 DEF TypeOK, EndScan, NoScan, ScanOK
  <2> QED BY <1>0, <2>1 DEF ScanOK
<1>6. ASSUME NEW f \in Flows, SkipFlow(f) PROVE ScanOK'
  <2>1. /\ scan.pc = "sessions" /\ f \in discovered /\ scan.flow = {} /\ UNCHANGED <<initialized, discovered>>
        /\ scan'.pc = scan.pc /\ scan'.flow = scan.flow /\ scan'.todo = scan.todo /\ scan'.flows = scan.flows \ {f}
    BY <1>6 DEF TypeOK, SkipFlow
  <2> QED BY <1>0, <2>1 DEF ScanOK
<1>7. ASSUME NEW f \in Flows, ListSessions(f) PROVE ScanOK'
  <2> DEFINE todo == sess \cap Of(f)
  <2>1. /\ scan.pc = "sessions" /\ f \in scan.flows /\ Listing(f, todo) /\ UNCHANGED initialized
    BY <1>7 DEF ListSessions
  <2>2. Unseen(f)' \subseteq todo /\ todo \subseteq Of(f)
    BY <1>0 DEF Unseen, Untracked, RunsOK
  <2> HIDE DEF todo
  <2>3. /\ scan'.pc = scan.pc /\ scan'.todo = todo /\ scan'.flow = IF todo = {} THEN {} ELSE {f}
        /\ scan'.flows = IF todo = {} THEN scan.flows \ {f} ELSE scan.flows
        /\ discovered' \subseteq discovered \cup {f} /\ (todo # {} => discovered' = discovered)
    BY <2>1 DEF TypeOK, Listing
  <2> QED BY <1>0, <2>1, <2>2, <2>3 DEF ScanOK, Of
<1>8. ASSUME NEW t \in Threads, Register(t) PROVE ScanOK'
  <2> DEFINE todo == scan.todo \ {t}
             f == FlowOf[t]
  <2>1. /\ scan.pc = "sessions" /\ t \in scan.todo /\ Listing(f, todo) /\ UNCHANGED initialized
        /\ unknown' = unknown \cup {t}
    BY <1>8 DEF Register, Unread
  <2>2. f \in scan.flows /\ scan.flow = {f} /\ scan.todo \subseteq Of(f) /\ Unseen(f) \subseteq scan.todo
    BY <2>1 DEF ScanOK, Of
  <2>3. Unseen(f)' \subseteq todo /\ todo \subseteq Of(f)
    BY <1>0, <2>1, <2>2 DEF Unseen, Untracked
  <2> HIDE DEF todo, f
  <2>4. /\ scan'.pc = scan.pc /\ scan'.todo = todo /\ scan'.flow = IF todo = {} THEN {} ELSE {f}
        /\ scan'.flows = IF todo = {} THEN scan.flows \ {f} ELSE scan.flows
        /\ discovered' \subseteq discovered \cup {f} /\ (todo # {} => discovered' = discovered)
    BY <2>1 DEF TypeOK, Listing
  <2> QED BY <1>0, <2>1, <2>2, <2>3, <2>4 DEF ScanOK, Of
<1>9. ASSUME NEW t \in Threads, ReadPosts(t) \/ Replay(t) PROVE ScanOK'
  <2>1. scan.pc = "replay" /\ scan'.pc = "replay" /\ UNCHANGED <<initialized, discovered>>
    BY <1>9 DEF TypeOK, ReadPosts, Replay
  <2> QED BY <1>0, <2>1 DEF ScanOK
<1> QED BY <1>1, <1>2, <1>3, <1>4, <1>5, <1>6, <1>7, <1>8, <1>9, ScanUnmoved
        DEF Discover, ScanEnds, ScanFails

LEMMA SmallerCount ==
    ASSUME NEW S, NEW T, IsFiniteSet(T), S \subseteq T, Cardinality(T) <= MaxRuns
    PROVE  IsFiniteSet(S) /\ Cardinality(S) <= MaxRuns
<1>1. /\ IsFiniteSet(S) /\ Cardinality(S) <= Cardinality(T)
      /\ Cardinality(S) \in Nat /\ Cardinality(T) \in Nat
  BY FS_Subset, FS_CardinalityType
<1> QED BY <1>1, LimitAssumption

(* A workflow that admits a run has fewer claims than its limit.            *)
LEMMA RoomForOne ==
    ASSUME TypeOK, FiniteOK, RunsOK, ConfigOK, ScanOK, NewFlowsFresh,
           NEW t \in Threads, Submit(t), Input(t) = "initial"
    PROVE  /\ IsFiniteSet(Claims \cap Of(FlowOf[t]))
           /\ Cardinality((Claims \cap Of(FlowOf[t])) \cup {t}) <= MaxRuns
<1> DEFINE f == FlowOf[t]
           A == active \cap Of(f)
           C == Claims \cap Of(f)
<1>1. /\ initialized /\ ~discovering /\ unknown \cap Of(f) = {} /\ ~(Cardinality(A) >= MaxRuns)
      /\ At(t, "thread")
  BY DEF Submit, ReadThread, Admits, Blocked, Full
<1>2. Unseen(f) = {}
  <2>1. CASE f \in InitCfg
    BY <1>1, <2>1 DEF ScanOK
  <2>2. CASE f \notin InitCfg
    <3>1. f \in UNION Configs
      BY <1>1, <2>2 DEF ConfigOK
    <3>2. PICK new \in Configs : f \in new
      BY <3>1
    <3> QED BY <2>2, <3>2 DEF NewFlowsFresh, RunsOK, Unseen
  <2> QED BY <2>1, <2>2
<1>3. C \subseteq A
  BY <1>1, <1>2 DEF RunsOK, Claims, Unseen, Untracked
<1>4. IsFiniteSet(A)
  BY FS_Subset DEF FiniteOK
<1> HIDE DEF A, C
<1>5. IsFiniteSet(C) /\ Cardinality(C) <= Cardinality(A) /\ Cardinality(A) \in Nat /\ Cardinality(C) \in Nat
  BY <1>3, <1>4, FS_Subset, FS_CardinalityType
<1>6. Cardinality(C \cup {t}) \in {Cardinality(C), Cardinality(C) + 1}
  BY <1>5, FS_AddElement
<1>7. Cardinality(C \cup {t}) <= MaxRuns
  BY <1>1, <1>5, <1>6, LimitAssumption
<1> QED BY <1>5, <1>7 DEF C

LEMMA ClaimsFinite == FiniteOK /\ RunsOK => IsFiniteSet(Claims)
<1> SUFFICES ASSUME FiniteOK, RunsOK PROVE IsFiniteSet(Claims)
  OBVIOUS
<1>1. IsFiniteSet(Reserved)
  BY FS_Subset DEF FiniteOK, RunsOK
<1> QED BY <1>1, FS_Union DEF FiniteOK, Claims

LEMMA CountKept ==
    ASSUME TypeOK, FiniteOK, RunsOK, ConfigOK, ScanOK, Counted, ~LateCommits, NewFlowsFresh, [Next]_vars
    PROVE  Counted'
<1> SUFFICES ASSUME NEW f \in Flows PROVE Cardinality(Claims' \cap Of(f)) <= MaxRuns
  BY DEF Counted, Of
<1>1. IsFiniteSet(Claims \cap Of(f)) /\ Cardinality(Claims \cap Of(f)) <= MaxRuns
  BY ClaimsFinite, FS_Subset DEF Counted
<1>2. CASE Claims' \cap Of(f) \subseteq Claims \cap Of(f)
  BY <1>1, <1>2, SmallerCount
<1>3. ASSUME NEW t \in Threads, Submit(t), Input(t) = "initial", Claims' \subseteq Claims \cup {t}, t \in Of(f)
      PROVE  Cardinality(Claims' \cap Of(f)) <= MaxRuns
  <2>1. /\ IsFiniteSet((Claims \cap Of(f)) \cup {t}) /\ Cardinality((Claims \cap Of(f)) \cup {t}) <= MaxRuns
        /\ Claims' \cap Of(f) \subseteq (Claims \cap Of(f)) \cup {t}
    BY <1>3, RoomForOne, AddOne DEF Of
  <2> QED BY <2>1, SmallerCount
<1> QED BY <1>2, <1>3, RunsSteps

LimitInv == FiniteOK /\ RunsOK /\ ConfigOK /\ ScanOK /\ Counted

LEMMA LimitStart == Init => LimitInv
<1> SUFFICES ASSUME Init PROVE LimitInv
  OBVIOUS
<1> USE DEF Init
<1>1. Reserved = {} /\ Claims = live
  BY DEF Reserved, Claims, At, NoPass
<1>2. RunsOK
  BY <1>1 DEF RunsOK, Untracked
<1>3. ConfigOK
  BY DEF ConfigOK, At, NoPass
<1>4. ScanOK
  <2>1. scan.pc = "idle" /\ discovered = {} /\ initialized = FALSE
    BY DEF NoScan
  <2> QED BY <2>1 DEF ScanOK
<1>5. Counted
  BY <1>1 DEF Counted
<1> QED BY <1>2, <1>3, <1>4, <1>5, FiniteStart DEF LimitInv

(* No workflow has more active runs than its limit (Runtime.reserve,
   runtime.go:322-346): what is active and not known to the scheduler belongs to
   workflows that are not admitted, because discovery has not listed them or a
   pass has yet to read the thread.  Two conditions: Orpheus accepts no request
   after its caller gave it up, and a workflow that a reload adds has no sessions
   yet; without either the limit can be passed.                               *)
THEOREM LimitKept ==
    ASSUME ~LateCommits, NewFlowsFresh
    PROVE  Spec => []RunLimit
<1> DEFINE IInv == TypeInv /\ LimitInv
<1>1. Init => IInv
  BY TypesStart, LimitStart
<1>2. IInv /\ [Next]_vars => IInv'
  BY TypesKept, FiniteKept, RunsSteps, ConfigKept, ScanKept, CountKept DEF TypeInv, LimitInv
<1>3. IInv => RunLimit
  <2> SUFFICES ASSUME IInv, NEW f \in Flows PROVE Cardinality(live \cap Of(f)) <= MaxRuns
    BY DEF RunLimit
  <2>1. IsFiniteSet(Claims \cap Of(f)) /\ Cardinality(Claims \cap Of(f)) <= MaxRuns
    BY ClaimsFinite, FS_Subset DEF LimitInv, Counted
  <2>2. live \cap Of(f) \subseteq Claims \cap Of(f)
    BY DEF Claims
  <2> QED BY <2>1, <2>2, SmallerCount
<1> HIDE DEF IInv
<1> QED BY <1>1, <1>2, <1>3, PTL DEF Spec

-----------------------------------------------------------------------------
(* Triggers that the scan does not look at again.                           *)

Pending(t) == t \in digested \cap member \cap known /\ FlowOf[t] \in cfg /\ trig[t] \in {"open", "due"}

(* What keeps a job from being deleted, or makes it again.                  *)
Held(t) == t \in dirty \cup timers \cup pend \cup active \cup permanent \/ frozen[t] # "none"

Keep(t) ==
    /\ t \in member
    /\ scan.pc \in {"sessions", "replay"} \/ t \in digested => t \in known
    /\ At(t, "hold") => trig[t] \in {"open", "done"}
    /\ At(t, "thread") /\ pass[t].known => trig[t] = "done"
    /\ At(t, "snapshot") /\ pass[t].perm => t \in permanent \cup dirty
    /\ At(t, "snapshot") /\ ~pass[t].scope => t \in dirty \/ ~InScope(t)
    /\ Pending(t) /\ (At(t, "cancel") \/ (At(t, "finish") /\ pass[t].result = "ok")) => Held(t)
    /\ Pending(t) => t \in jobs \cup timers

(* Steps that change nothing of this for t, but may make its job dirty.      *)
Quiet(t) ==
    /\ pass'[t] = pass[t] /\ frozen'[t] = frozen[t] /\ trig'[t] = trig[t] /\ cfg' = cfg
    /\ t \in member' <=> t \in member
    /\ t \in known' <=> t \in known
    /\ t \in digested' => t \in digested
    /\ t \in dirty => t \in dirty'
    /\ t \in jobs => t \in jobs'
    /\ t \in timers => t \in timers'
    /\ t \in pend => t \in pend'
    /\ t \in active => t \in active'
    /\ t \in permanent => t \in permanent'
    /\ scan'.pc \in {"sessions", "replay"} => scan.pc \in {"sessions", "replay"}

LEMMA QuietKeeps == ASSUME NEW t \in Threads, Keep(t), Quiet(t) PROVE Keep(t)'
<1>1. Pending(t)' => Pending(t)
  BY DEF Quiet, Pending
<1>2. Held(t) => Held(t)'
  BY DEF Quiet, Held
<1> QED BY <1>1, <1>2 DEF Keep, Quiet, At, InScope

LEMMA KeepBeside ==
    ASSUME TypeOK, ~SlowLookups, fresh \subseteq scan.read, \A u \in Threads : Room(u),
           NEW t \in Threads \ Movable, Keep(t), Besides
    PROVE  Keep(t)'
<1> USE DEF mattermost, orpheus, config, queue, marks, capacity, engine, discovery,
            fingerprints, bounds
<1>1. ASSUME NEW u \in Threads, Post(u) PROVE Keep(t)'
  <2>1. CASE u # t
    BY <1>1, <2>1, QuietKeeps DEF TypeOK, Post, PostsChange, Quiet
  <2>2. CASE u = t
    <3>1. trig[t] = "none" /\ t \notin digested' /\ UNCHANGED <<pass, known, scan, permanent, jobs, dirty, member, cfg>>
      BY <1>1, <2>2 DEF Post, PostsChange
    <3> QED BY <3>1 DEF Keep, Pending, At, InScope
  <2> QED BY <2>1, <2>2
<1>2. ASSUME NEW u \in Threads, WindowEnds(u) PROVE Keep(t)'
  <2>1. CASE u # t
    BY <1>2, <2>1, QuietKeeps DEF TypeOK, WindowEnds, Quiet
  <2>2. CASE u = t
    <3>1. /\ trig[t] = "open" /\ ~At(t, "hold") /\ trig'[t] = "due"
          /\ UNCHANGED <<pass, known, scan, digested, permanent, jobs, dirty, timers, pend, active, frozen, member, cfg>>
      BY <1>2, <2>2 DEF TypeOK, WindowEnds
    <3> QED BY <3>1 DEF Keep, Pending, Held, At, InScope
  <2> QED BY <2>1, <2>2
<1>3. ASSUME NEW u \in Threads, Move(u) PROVE Keep(t)'
  BY <1>3, QuietKeeps DEF Move, Quiet
<1>4. ASSUME NEW u \in Threads, Event(u) PROVE Keep(t)'
  <2>1. EnqueueOrRescan(u) \/ UNCHANGED queue
    BY <1>4 DEF Event
  <2>2. jobs \subseteq jobs' /\ dirty \subseteq dirty'
    BY <2>1 DEF EnqueueOrRescan, Enqueue
  <2> QED BY <1>4, <2>2, QuietKeeps DEF Event, Quiet
<1>5. ASSUME NEW u \in Threads, Watched(u) PROVE Keep(t)'
  BY <1>5, Marking, QuietKeeps DEF Watched, Quiet
<1>6. ASSUME NEW u \in Threads, RunEnds(u) \/ BackoffEnds(u) PROVE Keep(t)'
  BY <1>6, QuietKeeps DEF RunEnds, BackoffEnds, Quiet
<1>7. ASSUME NEW u \in Threads, NEW input \in Kinds, ServeLate(u, input) PROVE Keep(t)'
  <2>1. /\ trig'[t] = trig[t] \/ trig'[t] = "done"
        /\ UNCHANGED <<pass, known, scan, digested, permanent, jobs, dirty, timers, pend, active, frozen, member, cfg>>
    BY <1>7 DEF TypeOK, ServeLate, Accept
  <2> QED BY <2>1 DEF Keep, Pending, Held, At, InScope
<1>8. ASSUME NEW u \in Threads, TimerFires(u) PROVE Keep(t)'
  <2>1. CASE u # t
    BY <1>8, <2>1, Marking, QuietKeeps DEF TimerFires, Quiet
  <2>2. CASE u = t
    <3>1. /\ Hint(t) /\ jobs \subseteq jobs' /\ dirty \subseteq dirty'
          /\ UNCHANGED <<trig, pass, known, scan, digested, permanent, pend, active, frozen, member, cfg>>
      BY <1>8, <2>2, Marking DEF TimerFires
    <3>2. Pending(t) => t \in jobs' /\ t \in dirty'
      BY <3>1 DEF Pending, Hint, EnqueueOrRescan, Enqueue
    <3> QED BY <3>1, <3>2 DEF Keep, Pending, Held, At, InScope
  <2> QED BY <2>1, <2>2
<1>9. ASSUME NEW new \in Configs, Reload(new) PROVE Keep(t)'
  <2>1. /\ digested' = {} /\ dirty' = jobs /\ UNCHANGED <<trig, pass, known, scan, jobs, member>>
    BY <1>9 DEF Reload
  <2>2. pass[t].pc # "idle" => t \in dirty'
    BY <2>1 DEF TypeOK, Working
  <2> QED BY <2>1, <2>2 DEF Keep, Pending, At
<1>10. CASE Discover
  <2>1. CASE ListChannels
    <3>1. /\ known' = member /\ jobs' = jobs /\ dirty \subseteq dirty'
          /\ t \in jobs /\ (t \in known) # (t \in member) => t \in dirty'
          /\ UNCHANGED <<trig, pass, digested, permanent, timers, pend, active, frozen, member, cfg>>
      BY <2>1 DEF ListChannels
    <3>2. t \in member /\ t \in known' /\ (pass[t].pc # "idle" => t \in jobs)
      BY <3>1 DEF TypeOK, Keep, Working
    <3>3. t \notin known => t \notin digested
      BY DEF Keep
    <3> QED BY <3>1, <3>2, <3>3 DEF Keep, Pending, Held, At, InScope
  <2>2. ASSUME NEW u \in Threads, Replay(u) PROVE Keep(t)'
    <3>1. /\ scan.pc = "replay" /\ scan'.pc = "replay" /\ digested' \subseteq digested \cup {u}
          /\ jobs \subseteq jobs' /\ dirty \subseteq dirty' /\ u \in jobs' /\ u \in dirty'
          /\ UNCHANGED <<trig, pass, known, permanent, timers, pend, active, frozen, member, cfg>>
      BY <2>2 DEF TypeOK, Replay, Enlist, Enqueue
    <3>2. CASE u # t
      BY <3>1, <3>2, QuietKeeps DEF Quiet
    <3>3. CASE u = t
      BY <3>1, <3>3 DEF Keep, Held, Pending, At, InScope
    <3> QED BY <3>2, <3>3
  <2>3. CASE ScanStarts \/ SessionsKnown
    BY <2>3, QuietKeeps DEF TypeOK, ScanStarts, SessionsKnown, NoScan, Quiet
  <2>4. ASSUME NEW success \in BOOLEAN, EndScan(success) PROVE Keep(t)'
    BY <2>4, QuietKeeps DEF EndScan, NoScan, Quiet
  <2>5. ASSUME NEW f \in Flows, SkipFlow(f) \/ ListSessions(f) PROVE Keep(t)'
    BY <2>5, QuietKeeps DEF TypeOK, SkipFlow, ListSessions, Listing, Quiet
  <2>6. ASSUME NEW u \in Threads, Register(u) PROVE Keep(t)'
    <3>1. scan'.pc = scan.pc
      BY <2>6 DEF TypeOK, Register, Listing
    <3> QED BY <2>6, <3>1, Marking, QuietKeeps DEF Register, Quiet
  <2>7. ASSUME NEW u \in Threads, ReadPosts(u) PROVE Keep(t)'
    BY <2>7, QuietKeeps DEF TypeOK, ReadPosts, Quiet
  <2> QED BY <1>10, <2>1, <2>2, <2>3, <2>4, <2>5, <2>6, <2>7 DEF Discover, ScanEnds
<1>11. CASE ScanFails
  BY <1>11, QuietKeeps DEF ScanFails, EndScan, NoScan, Quiet
<1> QED BY <1>1, <1>2, <1>3, <1>4, <1>5, <1>6, <1>7, <1>8, <1>9, <1>10, <1>11 DEF Besides

(* The step of another thread's pass.                                       *)
LEMMA KeepElsewhere ==
    ASSUME TypeOK, NEW t \in Threads, Keep(t), NEW u \in Threads \ {t}, Within(u)
    PROVE  Keep(t)'
<1> USE DEF mattermost, orpheus, config, queue, marks, capacity, engine, discovery,
            fingerprints, bounds
<1>1. /\ pass'[t] = pass[t] /\ frozen'[t] = frozen[t]
      /\ t \in pend' <=> t \in pend
      /\ t \in active' <=> t \in active
  BY Elsewhere
<1>2. UNCHANGED <<cfg, member, known, scan>> /\ (t \in digested' => t \in digested)
  BY DEF Within, Serve, Dispatch, Reconcile, Observe, CancelRun, Rest, SetTimer, Wait, Submit,
         Receive, Abort, Finish, Fail, Denied, GiveUp, ReadThread, PostsChange
<1>3. trig'[t] = trig[t]
  BY DEF TypeOK, Within, Serve, Accept, Dispatch, Reconcile, Observe, CancelRun, Rest, SetTimer, Wait, Submit,
         Receive, Abort, Finish, Fail, Denied, GiveUp
<1>4. (t \in timers => t \in timers') /\ (t \in permanent => t \in permanent')
  BY DEF Within, Serve, Dispatch, Reconcile, Observe, CancelRun, Rest, SetTimer, Wait, Submit,
         Receive, Abort, Finish, Fail, Denied, GiveUp, Put
<1>5. (t \in dirty => t \in dirty') /\ (t \in jobs => t \in jobs')
  <2>1. CASE Receive(u)
    BY <2>1, Marking DEF Receive
  <2>2. CASE ~Receive(u)
    BY <2>2 DEF Within, Serve, Dispatch, Reconcile, Observe, CancelRun, Rest, SetTimer, Wait, Submit,
                Abort, Finish, Fail, Denied, GiveUp, Put
  <2> QED BY <2>1, <2>2
<1> QED BY <1>1, <1>2, <1>3, <1>4, <1>5, QuietKeeps DEF Quiet

(* A pass that ends with an error, or goes on where nothing is at stake.    *)
LEMMA KeepIdle ==
    ASSUME NEW t \in Threads, Keep(t), pass'[t].pc \in {"await", "finish"},
           pass'[t].pc = "finish" /\ pass'[t].result = "ok" => (Pending(t)' => Held(t)'),
           t \in jobs', UNCHANGED <<member, known, scan>>, t \in digested' => t \in digested
    PROVE  Keep(t)'
BY DEF Keep, Pending, At

LEMMA KeepWithin ==
    ASSUME TypeOK, AwaitOK, ~SlowLookups, NEW t \in Threads, Keep(t), Within(t)
    PROVE  Keep(t)'
<1> USE DEF mattermost, orpheus, config, queue, marks, capacity, engine, discovery,
            fingerprints, bounds
<1>0. /\ pass[t].pc # "idle" => t \in Working /\ t \in jobs
      /\ pass \in [Threads -> Passes]
      /\ EndWith(t, "ok") => pass'[t].pc = "finish"
  <2>1. (pass[t].pc # "idle" => t \in Working) /\ Working \subseteq jobs /\ pass \in [Threads -> Passes]
    BY DEF TypeOK, Working
  <2>2. EndWith(t, "ok") => pass'[t].pc = "finish"
    BY <2>1 DEF EndWith, NoPass
  <2> QED BY <2>1, <2>2
<1>1. CASE Serve(t)
  <2>1. pass'[t].pc = "await" /\ t \in jobs' /\ UNCHANGED <<member, known, scan, digested>>
    BY <1>0, <1>1 DEF Serve, At
  <2> QED BY <2>1, KeepIdle
<1>2. CASE Dispatch(t)
  <2>1. /\ pass'[t].pc = "snapshot" /\ (pass'[t].perm => t \in permanent) /\ (~pass'[t].scope => ~InScope(t))
        /\ UNCHANGED <<trig, member, known, digested, cfg, jobs, permanent, scan>> /\ t \in jobs
    BY <1>0, <1>2 DEF Dispatch, CanRun, NoPass
  <2> QED BY <2>1 DEF Keep, Pending, At, InScope
<1>3. CASE Observe(t)
  <2> DEFINE revoked == ~pass[t].perm /\ ~pass[t].scope
  <2>1. /\ At(t, "snapshot") /\ t \in jobs /\ dirty \subseteq dirty'
        /\ UNCHANGED <<trig, member, known, digested, cfg, jobs, permanent, scan>>
    BY <1>0, <1>3 DEF Observe, At
  <2>2. CASE pass[t].perm
    <3>1. EndWith(t, "ok") /\ t \in permanent' \cup dirty'
      BY <1>3, <2>1, <2>2 DEF Observe, Keep
    <3>2. pass'[t].pc = "finish"
      BY <1>0, <3>1
    <3> QED BY <2>1, <3>1, <3>2, KeepIdle DEF Held
  <2>3. CASE ~pass[t].perm /\ ~pass[t].scope
    <3>1. t \in dirty' \/ ~InScope(t)
      BY <2>1, <2>3 DEF Keep
    <3>2. Pending(t)' => Held(t)'
      BY <2>1, <3>1 DEF Pending, Held, InScope
    <3>3. EndWith(t, "ok") \/ Continue(t, "cancel")
      BY <1>3, <2>3 DEF Observe
    <3>4. pass'[t].pc \in {"finish", "cancel"}
      BY <1>0, <2>1, <3>3 DEF At, EndWith, Continue, NoPass
    <3> QED BY <2>1, <3>2, <3>4 DEF Keep, Pending, At
  <2>4. CASE ~pass[t].perm /\ pass[t].scope
    <3> DEFINE p == [NoPass EXCEPT !.pc = "thread", !.live = t \in live,
                                   !.owed = t \in owed, !.known = (trig[t] = "done")]
    <3>0. pass' = [pass EXCEPT ![t] = p]
      BY <1>3, <2>4 DEF Observe
    <3>1. pass'[t].pc = "thread" /\ (pass'[t].known => trig[t] = "done")
      <4>1. p.pc = "thread" /\ p.known = (trig[t] = "done")
        BY DEF NoPass
      <4> HIDE DEF p
      <4> QED BY <1>0, <3>0, <4>1
    <3> QED BY <2>1, <3>1 DEF Keep, Pending, At
  <2> QED BY <2>2, <2>3, <2>4
<1>4. CASE CancelRun(t)
  <2>1. /\ EndWith(t, "ok") /\ At(t, "cancel") /\ t \in jobs
        /\ UNCHANGED <<trig, member, known, digested, cfg, jobs, dirty, permanent, active, pend, frozen, timers, scan>>
    BY <1>0, <1>4 DEF CancelRun, At
  <2>2. pass'[t].pc = "finish"
    BY <1>0, <2>1
  <2>3. Pending(t)' => Held(t)'
    BY <2>1 DEF Keep, Pending, Held, At
  <2> QED BY <2>1, <2>2, <2>3, KeepIdle<1>5. CASE Rest(t)
  <2>1. /\ At(t, "thread") /\ t \in jobs /\ UNCHANGED <<trig, member, known, cfg, jobs, scan>>
        /\ (t \in digested' => t \in digested)
        /\ Continue(t, IF ~pass[t].known /\ trig[t] = "open" THEN "hold" ELSE "finish")
    BY <1>0, <1>5 DEF Rest, ReadThread, PostsChange, At
  <2>2. CASE ~pass[t].known /\ trig[t] = "open"
    <3>1. pass'[t].pc = "hold"
      BY <1>0, <2>1, <2>2 DEF Continue, NoPass
    <3> QED BY <2>1, <2>2, <3>1 DEF Keep, Pending, At
  <2>3. CASE ~(~pass[t].known /\ trig[t] = "open")
    <3>1. pass'[t].pc = "finish"
      BY <1>0, <2>1, <2>3 DEF Continue, NoPass
    <3>2. pass[t].known \/ trig[t] = "none"
      BY <1>5, <2>3 DEF Rest, Input, Keeps
    <3>3. ~Pending(t)'
      BY <2>1, <3>2 DEF Keep, Pending
    <3> QED BY <2>1, <3>1, <3>3, KeepIdle
  <2> QED BY <2>2, <2>3
<1>6. CASE SetTimer(t)
  <2>1. /\ At(t, "hold") /\ t \in jobs /\ EndWith(t, "ok") /\ (trig[t] = "open" => t \in timers')
        /\ UNCHANGED <<trig, member, known, digested, cfg, jobs, scan>>
    BY <1>0, <1>6 DEF SetTimer, At
  <2>2. pass'[t].pc = "finish"
    BY <1>0, <2>1
  <2>3. Pending(t)' => Held(t)'
    BY <2>1 DEF Keep, Pending, Held
  <2> QED BY <2>1, <2>2, <2>3, KeepIdle
<1>7. CASE Wait(t)
  <2>1. /\ At(t, "thread") /\ t \in jobs /\ EndWith(t, "ok") /\ (t \in digested' => t \in digested)
        /\ t \in pend' \/ frozen'[t] # "none"
        /\ UNCHANGED <<trig, member, known, cfg, jobs, scan>>
    BY <1>0, <1>7 DEF Wait, ReadThread, PostsChange, Keeps, At
  <2>2. pass'[t].pc = "finish"
    BY <1>0, <2>1
  <2> QED BY <2>1, <2>2, KeepIdle DEF Held
<1>8. CASE Submit(t)
  <2>1. /\ At(t, "thread") /\ t \in jobs /\ Continue(t, "await") /\ (t \in digested' => t \in digested)
        /\ UNCHANGED <<member, known, jobs, scan>>
    BY <1>0, <1>8 DEF Submit, ReadThread, PostsChange, At
  <2>2. pass'[t].pc = "await"
    BY <1>0, <2>1 DEF Continue, NoPass, At
  <2> QED BY <2>1, <2>2, KeepIdle
<1>9. CASE Receive(t)
  <2>1. /\ At(t, "await") /\ t \in jobs /\ EndWith(t, "ok")
        /\ Hint(t) \/ UNCHANGED <<frozen, queue>>
        /\ UNCHANGED <<member, known, scan, digested>>
    BY <1>0, <1>9 DEF Receive, At
  <2>2. pass'[t].pc = "finish"
    BY <1>0, <2>1
  <2>3. t \in jobs' /\ (t \in dirty' \/ frozen' = frozen)
    BY <2>1 DEF Hint, EnqueueOrRescan, Enqueue, Room
  <2>4. Held(t)'
    BY <2>1, <2>3 DEF AwaitOK, Held, Kinds
  <2> QED BY <2>1, <2>2, <2>3, <2>4, KeepIdle
<1>10. ASSUME NEW result \in {"error", "permanent"}, EndWith(t, result), t \in Working,
              UNCHANGED <<member, known, scan, digested, jobs>>
       PROVE  Keep(t)'
  <2>1. pass'[t].pc = "finish" /\ pass'[t].result # "ok"
    BY <1>0, <1>10 DEF EndWith, NoPass, Working
  <2> QED BY <1>0, <1>10, <2>1, KeepIdle DEF TypeOK
<1>11. CASE Abort(t) \/ Fail(t)
  <2>1. GiveUp(t)
    BY <1>11 DEF Abort, Fail
  <2>2. EndWith(t, "error") /\ t \in Working /\ UNCHANGED <<member, known, scan, digested, jobs>>
    BY <1>0, <2>1 DEF GiveUp, Requests
  <2> QED BY <1>10, <2>2
<1>12. ASSUME NEW result \in {"error", "permanent"}, Denied(t, result) PROVE Keep(t)'
  <2>1. EndWith(t, result) /\ t \in Working /\ UNCHANGED <<member, known, scan, digested, jobs>>
    BY <1>0, <1>12 DEF Denied, At
  <2> QED BY <1>10, <2>1
<1>13. CASE Finish(t)
  <2>1. /\ At(t, "finish") /\ pass'[t].pc = "idle" /\ (t \in jobs' <=> ~Idle(t))
        /\ UNCHANGED <<trig, member, known, digested, cfg, timers, scan>>
    BY <1>0, <1>13 DEF Finish, Put, NoPass
  <2>2. Idle(t) /\ Pending(t) => t \in timers
    BY <2>1 DEF Keep, Held, Idle
  <2> QED BY <2>1, <2>2 DEF Keep, Pending, At
<1> QED BY <1>1, <1>2, <1>3, <1>4, <1>5, <1>6, <1>7, <1>8, <1>9, <1>11, <1>12, <1>13 DEF Within, Reconcile

(* The scan has read the posts of at most the thread it is at.              *)
ReadsOK == fresh \subseteq scan.read /\ (scan.pc # "replay" => scan.read = {})

LEMMA ReadsKept == TypeOK /\ ReadsOK /\ [Next]_vars => ReadsOK'
<1> SUFFICES ASSUME TypeOK, ReadsOK, [Next]_vars PROVE ReadsOK'
  OBVIOUS
<1> USE DEF discovery, fingerprints, ReadsOK
<1>1. CASE ~Discover /\ ~ScanFails
  <2>1. scan' = scan
    BY <1>1, ScanUnmoved
  <2>2. fresh' \subseteq fresh
    <3>1. ASSUME NEW t \in Threads, Within(t) PROVE fresh' \subseteq fresh
      BY <3>1 DEF Within, Serve, Dispatch, Reconcile, Observe, CancelRun, Rest, SetTimer, Wait, Submit,
                  Receive, Abort, Finish, Fail, Denied, GiveUp, ReadThread, PostsChange
    <3>2. CASE Besides
      BY <1>1, <3>2 DEF Besides, Post, WindowEnds, Move, Event, Watched, RunEnds, ServeLate, BackoffEnds,
                        TimerFires, Reload, PostsChange
    <3> QED BY <3>1, <3>2, StepKinds DEF vars
  <2> QED BY <2>1, <2>2
<1>2. CASE Discover
  <2>1. CASE ScanStarts \/ ListChannels \/ SessionsKnown
    BY <2>1 DEF TypeOK, ScanStarts, ListChannels, SessionsKnown, NoScan
  <2>2. ASSUME NEW success, EndScan(success) PROVE ReadsOK'
    BY <2>2 DEF EndScan, NoScan
  <2>3. ASSUME NEW f \in Flows, SkipFlow(f) \/ ListSessions(f) PROVE ReadsOK'
    BY <2>3 DEF TypeOK, SkipFlow, ListSessions, Listing
  <2>4. ASSUME NEW t \in Threads, Register(t) PROVE ReadsOK'
    <3>1. scan'.pc = scan.pc /\ scan'.read = scan.read /\ fresh' = fresh
      BY <2>4 DEF TypeOK, Register, Listing
    <3> QED BY <3>1
  <2>5. ASSUME NEW t \in Threads, ReadPosts(t) PROVE ReadsOK'
    BY <2>5 DEF TypeOK, ReadPosts
  <2>6. ASSUME NEW t \in Threads, Replay(t) PROVE ReadsOK'
    BY <2>6 DEF TypeOK, Replay
  <2> QED BY <1>2, <2>1, <2>2, <2>3, <2>4, <2>5, <2>6 DEF Discover, ScanEnds
<1>3. CASE ScanFails
  BY <1>3 DEF ScanFails, EndScan, NoScan
<1> QED BY <1>1, <1>2, <1>3

(* The queue has a place for every thread.                                  *)
QueueLarge == IsFiniteSet(Threads) /\ Cardinality(Threads) <= MaxQueued

LEMMA RoomForAll == ASSUME TypeOK, QueueLarge, NEW t \in Threads PROVE Room(t)
<1> SUFFICES ASSUME t \notin jobs PROVE Cardinality(jobs) < MaxQueued
  BY DEF Room
<1>1. jobs \subseteq Threads /\ jobs # Threads
  BY DEF TypeOK
<1>2. Cardinality(jobs) <= Cardinality(Threads) /\ Cardinality(jobs) # Cardinality(Threads) /\ IsFiniteSet(jobs)
  BY <1>1, FS_Subset DEF QueueLarge
<1>3. Cardinality(jobs) \in Nat /\ Cardinality(Threads) \in Nat
  BY <1>2, FS_CardinalityType DEF QueueLarge
<1> QED BY <1>2, <1>3, LimitAssumption DEF QueueLarge

(* A trigger of a thread whose channel the bot stays in, recorded by the scan
   and not accepted, has a job or a timer: runtime.go:390-396 deletes a job only
   when nothing is dirty, pending, frozen or active, and engine.go:467-476 sets
   the timer of an open window.  The queue must hold a job of every thread, or
   a timer finds no place (runtime.go:79-82); and no window may end between
   the builder's clock and the setting of its timer.                        *)
THEOREM TriggersKept ==
    ASSUME ~SlowLookups, QueueLarge
    PROVE  Spec => [](\A t \in Threads \ Movable : Pending(t) => t \in jobs \cup timers)
<1> DEFINE IInv == TypeInv /\ ReadsOK /\ \A t \in Threads \ Movable : Keep(t)
           Goal == \A t \in Threads \ Movable : Pending(t) => t \in jobs \cup timers
<1>1. Init => IInv
  <2> SUFFICES ASSUME Init PROVE IInv
    OBVIOUS
  <2>1. ReadsOK
    BY DEF Init, ReadsOK, NoScan
  <2>2. ASSUME NEW t \in Threads PROVE Keep(t)
    BY DEF Init, Keep, Pending, At, NoPass, NoScan
  <2> QED BY <2>1, <2>2, TypesStart
<1>2. IInv /\ [Next]_vars => IInv'
  <2> SUFFICES ASSUME TypeInv, ReadsOK, \A u \in Threads \ Movable : Keep(u), [Next]_vars,
                      NEW t \in Threads \ Movable
               PROVE  Keep(t)'
    BY TypesKept, ReadsKept DEF TypeInv
  <2>1. TypeOK /\ AwaitOK
    BY DEF TypeInv
  <2>2. CASE UNCHANGED vars
    BY <2>2, QuietKeeps DEF Quiet, vars, mattermost, orpheus, config, queue, marks, capacity, engine,
                            discovery, fingerprints, bounds
  <2>3. CASE Besides
    BY <2>1, <2>3, KeepBeside, RoomForAll DEF ReadsOK
  <2>4. ASSUME NEW u \in Threads, Within(u) PROVE Keep(t)'
    BY <2>1, <2>4, KeepElsewhere, KeepWithin
  <2> QED BY <2>2, <2>3, <2>4, StepKinds
<1>3. IInv => Goal
  BY DEF Keep
<1> HIDE DEF IInv, Goal
<1>4. Spec => []Goal
  BY <1>1, <1>2, <1>3, PTL DEF Spec
<1> QED BY <1>4 DEF Goal

(* For a bot that leaves no channel this is PendingWorkKept.                 *)
THEOREM PendingKept ==
    ASSUME ~SlowLookups, QueueLarge, Movable = {}
    PROVE  Spec => []PendingWorkKept
<1> DEFINE Kept == \A t \in Threads \ Movable : Pending(t) => t \in jobs \cup timers
<1>1. TypeOK /\ Kept => PendingWorkKept
  BY DEF PendingWorkKept, Pending, TypeOK
<1>2. Spec => []Kept
  BY TriggersKept
<1> HIDE DEF Kept
<1> QED BY <1>1, <1>2, TypeCorrect, PTL
==============================================================================
