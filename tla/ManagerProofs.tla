---------------------------- MODULE ManagerProofs -----------------------------
(***************************************************************************)
(* Theorems about Manager, for every value of its constants: a reload      *)
(* reaches all connections or none, is never waited for, and leaves every  *)
(* channel with at most one owner.                                         *)
(***************************************************************************)
EXTENDS Manager, TLAPS

Ready == /\ manager.pc # "send" => manager.todo = {}
         /\ manager.pc = "send" => Valid(manager.next)
         /\ reload # None => Valid(reload)
         /\ Valid(config)

Routed == \A e \in Connections :
    Routable(applied[e]) /\ (queue[e] # None => Routable(queue[e]))

IInv == TypeOK /\ Ready /\ NeverBlocked /\ AllOrNone /\ Routed

-----------------------------------------------------------------------------
(* Groups of a configuration.                                               *)

LEMMA GroupConfig ==
    ASSUME NEW c \in Config, NEW e
    PROVE  Group(c, e) \in Config /\ Group(c, e) # None
<1>1. Group(c, e) \in Config
  BY DEF Group, Config
<1> QED BY <1>1, NoneAssumption

LEMMA NobodyConfig == Nobody \in Config
  BY DEF Nobody, Config

(* Two owners of one channel would clash.                                   *)
LEMMA GroupRoutable ==
    ASSUME NEW c, Valid(c), NEW e
    PROVE  Routable(Group(c, e))
<1> DEFINE d == Group(c, e)
<1>1. \A f \in Used(d) : f \in Used(c) /\ d[f] = c[f] /\ c[f].mattermost = e
  BY DEF Used, Group
<1>2. \A f, g \in Used(d) : f # g => ~Clash(d[f], d[g])
  BY <1>1 DEF Valid
<1> HIDE DEF d
<1> SUFFICES ASSUME NEW ch \in Channels, NEW kind \in Kinds,
                    NEW f \in Owners(d, ch, kind), NEW g \in Owners(d, ch, kind), f # g
             PROVE  FALSE
  BY DEF Routable, d
<1>3. f \in Used(d) /\ g \in Used(d)
  BY DEF Owners
<1>4. d[f].mattermost = d[g].mattermost
  BY <1>1, <1>3
<1>5. CASE kind = "D"
  <2>1. d[f].direct /\ d[g].direct
    BY <1>5 DEF Owners, Allowed
  <2> QED BY <1>2, <1>3, <1>4, <2>1 DEF Clash, BothDirect
<1>6. CASE kind # "D"
  <2>1. Chosen(d, d[f], ch) /\ Chosen(d, d[g], ch)
    BY <1>6 DEF Owners
  <2>2. CASE ch \in d[f].include /\ ch \in d[g].include
    BY <1>2, <1>3, <1>4, <2>1, <2>2 DEF Clash, Overlap, Chosen
  <2>3. CASE ch \notin d[f].include
    <3>1. ~Specialized(d, ch) /\ Generic(d[f])
      BY <2>1, <2>3 DEF Chosen
    <3>2. Generic(d[g])
      BY <1>3, <2>1, <3>1 DEF Chosen, Specialized
    <3> QED BY <1>2, <1>3, <1>4, <3>1, <3>2 DEF Clash, BothGeneric
  <2>4. CASE ch \notin d[g].include
    <3>1. ~Specialized(d, ch) /\ Generic(d[g])
      BY <2>1, <2>4 DEF Chosen
    <3>2. Generic(d[f])
      BY <1>3, <2>1, <3>1 DEF Chosen, Specialized
    <3> QED BY <1>2, <1>3, <1>4, <3>1, <3>2 DEF Clash, BothGeneric
  <2> QED BY <2>2, <2>3, <2>4
<1> QED BY <1>5, <1>6

LEMMA ValidConfig == \A c : Valid(c) => c \in Config
  BY DEF Valid

-----------------------------------------------------------------------------
(* The invariant.                                                           *)

LEMMA InitInv == Init => IInv
<1> SUFFICES ASSUME Init PROVE IInv
  OBVIOUS
<1>1. /\ disk \in Directory /\ Valid(disk) /\ disk \in Config /\ config = disk
      /\ reload = None /\ main = Waiting /\ manager = Idle
      /\ Connections = Connected(disk) /\ alive = Connections
  BY StartAssumption, ValidConfig DEF Init, Connections
<1>2. \A e \in Connections : applied[e] = Group(config, e) /\ queue[e] = None
  BY <1>1 DEF Init, Connections
<1>3. TypeOK
  <2>1. Connections \subseteq Endpoints
    <3>1. \A f \in Used(disk) : disk[f] \in Workflows
      BY <1>1 DEF Config, Used
    <3>2. \A w \in Workflows : w.mattermost \in Endpoints
      BY WorkflowsAssumption
    <3> QED BY <1>1, <3>1, <3>2 DEF Connected
  <2>2. applied \in [Connections -> Config] /\ queue \in [Connections -> Config \cup {None}]
    <3>1. \A e \in Connections : Group(disk, e) \in Config
      BY <1>1, GroupConfig
    <3> QED BY <1>1, <3>1 DEF Init
  <2>3. Waiting \in [pc : {"wait", "load", "await", "ended"}, read : Config, left : SUBSET Files]
    BY NobodyConfig DEF Waiting
  <2>4. Idle \in [pc : {"wait", "send", "await", "ended"}, next : Config, todo : SUBSET Connections]
    BY NobodyConfig DEF Idle
  <2>5. edits \in 0 .. MaxEdits /\ signals \in 0 .. MaxSignals
    BY BoundAssumption DEF Init
  <2> QED BY <1>1, <2>1, <2>2, <2>3, <2>4, <2>5 DEF TypeOK, Init
<1>4. Ready /\ NeverBlocked
  BY <1>1 DEF Ready, NeverBlocked, Idle
<1>5. AllOrNone
  BY <1>1, <1>2 DEF AllOrNone, Due, Intended, Idle
<1>6. Routed
  BY <1>1, <1>2, GroupRoutable DEF Routed
<1> QED BY <1>3, <1>4, <1>5, <1>6 DEF IInv

(* Steps that leave configurations and the manager alone.                   *)
LEMMA Elsewhere ==
    ASSUME IInv, TypeOK', UNCHANGED <<manager, config, applied, queue>>,
           reload' # None => Valid(reload')
    PROVE  IInv'
<1>1. UNCHANGED Connections
  BY DEF Connections
<1> QED BY <1>1 DEF IInv, Ready, NeverBlocked, AllOrNone, Routed, Due, Intended

LEMMA OperatorInv == IInv /\ (Operator \/ ServerFails) => IInv'
<1> SUFFICES ASSUME IInv, Operator \/ ServerFails PROVE IInv'
  OBVIOUS
<1>1. UNCHANGED <<manager, config, applied, queue, reload, alive>>
  BY DEF Operator, Edit, Signal, Terminate, ServerFails, channels, loops
<1>2. TypeOK'
  <2>1. CASE \E f \in Files : \E w \in Workflows \cup {None, Bad} : Edit(f, w)
    <3>1. PICK f \in Files, w \in Workflows \cup {None, Bad} : Edit(f, w)
      BY <2>1
    <3>2. disk' \in Directory
      BY <3>1 DEF IInv, TypeOK, Edit, Directory
    <3>3. edits' \in 0 .. MaxEdits
      BY <3>1, BoundAssumption DEF IInv, TypeOK, Edit
    <3>4. UNCHANGED <<main, alive, hup, stopping, signals>> /\ settled' \in BOOLEAN
      BY <3>1 DEF Edit, loops, channels
    <3> QED BY <1>1, <3>2, <3>3, <3>4 DEF IInv, TypeOK, Connections
  <2>2. CASE Signal
    BY <1>1, <2>2, BoundAssumption DEF IInv, TypeOK, Signal, InTransit, Connections, loops
  <2>3. CASE Terminate
    BY <1>1, <2>3 DEF IInv, TypeOK, Terminate, Connections, loops, channels
  <2>4. CASE ServerFails
    BY <1>1, <2>4 DEF IInv, TypeOK, ServerFails, Connections, channels
  <2> QED BY <2>1, <2>2, <2>3, <2>4 DEF Operator
<1> QED BY <1>1, <1>2, Elsewhere DEF IInv, Ready

LEMMA MainInv == IInv /\ MainLoop => IInv'
<1> SUFFICES ASSUME IInv, MainLoop PROVE IInv'
  OBVIOUS
<1>1. UNCHANGED <<manager, config, applied, queue, alive, disk>>
  BY DEF MainLoop, TakeSignal, ReadFile, Offer, Exit, channels
<1>2. reload' # None => Valid(reload')
  <2>1. CASE Offer
    BY <2>1 DEF IInv, Ready, Offer
  <2>2. CASE ~Offer
    BY <2>2 DEF IInv, Ready, MainLoop, TakeSignal, ReadFile, Exit, channels
  <2> QED BY <2>1, <2>2
<1>3. TypeOK'
  <2>1. CASE TakeSignal
    BY <1>1, <2>1, NobodyConfig DEF IInv, TypeOK, TakeSignal, Connections
  <2>2. ASSUME NEW f \in Files, ReadFile(f) PROVE TypeOK'
    <3>1. main' \in [pc : {"wait", "load", "await", "ended"}, read : Config, left : SUBSET Files]
      <4>1. CASE Readable(f)
        BY <2>2, <4>1 DEF IInv, TypeOK, ReadFile, Readable, Config
      <4>2. CASE ~Readable(f)
        BY <2>2, <4>2, NobodyConfig DEF ReadFile, Waiting
      <4> QED BY <4>1, <4>2
    <3> QED BY <1>1, <2>2, <3>1 DEF IInv, TypeOK, ReadFile, Connections, channels
  <2>3. CASE Offer
    BY <1>1, <2>3, NobodyConfig DEF IInv, TypeOK, Offer, Waiting, Connections
  <2>4. CASE Exit
    BY <1>1, <2>4 DEF IInv, TypeOK, Exit, Connections, channels
  <2> QED BY <2>1, <2>2, <2>3, <2>4 DEF MainLoop
<1> QED BY <1>1, <1>2, <1>3, Elsewhere

LEMMA ManagerInv == IInv /\ ManagerLoop => IInv'
<1> SUFFICES ASSUME IInv, ManagerLoop PROVE IInv'
  OBVIOUS
<1>1. UNCHANGED <<applied, Connections, alive, disk, main, stopping, hup, settled, edits, signals>>
  BY DEF ManagerLoop, TakeReload, Send, Sent, StopManager, EndManager, Connections, channels
<1>2. CASE TakeReload /\ Acceptable(reload)
  <2>1. Valid(reload) /\ reload \in Config /\ manager.todo = {} /\ manager.pc = "wait"
    BY <1>2, ValidConfig DEF TakeReload, IInv, Ready
  <2>2. /\ manager' = [pc |-> "send", next |-> reload, todo |-> Connections]
        /\ reload' = None /\ UNCHANGED <<queue, config>>
        /\ \A e \in Connections : queue[e] = None
    BY <1>2 DEF TakeReload, Acceptable
  <2>3. TypeOK'
    BY <1>1, <2>1, <2>2 DEF IInv, TypeOK
  <2>4. Ready' /\ NeverBlocked' /\ Routed'
    BY <1>1, <2>1, <2>2 DEF IInv, Ready, NeverBlocked, Routed
  <2>5. AllOrNone'
    BY <1>1, <2>1, <2>2 DEF IInv, AllOrNone, Due, Intended
  <2> QED BY <2>3, <2>4, <2>5 DEF IInv
<1>3. ASSUME NEW e \in Connections, Send(e) PROVE IInv'
  <2>1. /\ manager.pc = "send" /\ e \in manager.todo /\ Valid(manager.next)
        /\ manager.next \in Config /\ UNCHANGED <<reload, config>>
    BY <1>3, ValidConfig DEF Send, IInv, Ready
  <2>2. /\ manager'.pc = "send" /\ manager'.next = manager.next
        /\ manager'.todo = manager.todo \ {e}
    BY <1>3, <2>1 DEF Send, IInv, TypeOK
  <2>3. /\ queue' = [queue EXCEPT ![e] = Group(manager.next, e)]
        /\ Group(manager.next, e) \in Config /\ Group(manager.next, e) # None
    BY <1>3, <2>1, GroupConfig DEF Send
  <2>4. /\ queue'[e] = Group(manager.next, e)
        /\ \A d \in Connections : d # e => queue'[d] = queue[d]
    BY <2>3 DEF IInv, TypeOK
  <2>5. TypeOK'
    <3>1. queue' \in [Connections -> Config \cup {None}]
      BY <2>3 DEF IInv, TypeOK
    <3>2. manager' \in [pc : {"wait", "send", "await", "ended"}, next : Config, todo : SUBSET Connections]
      BY <1>3 DEF IInv, TypeOK, Send
    <3> QED BY <1>1, <2>1, <3>1, <3>2 DEF IInv, TypeOK
  <2>6. Ready' /\ NeverBlocked'
    BY <1>1, <2>1, <2>2, <2>4, <2>5 DEF IInv, Ready, NeverBlocked, TypeOK
  <2>7. AllOrNone'
    <3> SUFFICES ASSUME NEW d \in Connections PROVE Due(d)' = Group(Intended(d)', d)
      BY <1>1 DEF AllOrNone
    <3>1. CASE d = e
      BY <2>2, <2>3, <2>4, <3>1 DEF Due, Intended
    <3>2. CASE d # e
      BY <1>1, <2>1, <2>2, <2>4, <3>2 DEF IInv, AllOrNone, Due, Intended
    <3> QED BY <3>1, <3>2
  <2>8. Routed'
    BY <1>1, <2>1, <2>4, GroupRoutable DEF IInv, Routed
  <2> QED BY <2>5, <2>6, <2>7, <2>8 DEF IInv
<1>4. CASE Sent
  <2>1. /\ manager.pc = "send" /\ manager.todo = {} /\ config' = manager.next
        /\ manager' = Idle /\ UNCHANGED <<reload, queue>>
        /\ Valid(manager.next) /\ manager.next \in Config
    BY <1>4, ValidConfig DEF Sent, IInv, Ready, channels
  <2>2. TypeOK'
    BY <1>1, <2>1, NobodyConfig DEF IInv, TypeOK, Idle
  <2>3. Ready' /\ NeverBlocked' /\ Routed'
    BY <1>1, <2>1 DEF IInv, Ready, NeverBlocked, Routed, Idle
  <2>4. AllOrNone'
    BY <1>1, <2>1 DEF IInv, AllOrNone, Due, Intended, Idle
  <2> QED BY <2>2, <2>3, <2>4 DEF IInv
<1>5. CASE StopManager \/ EndManager \/ (TakeReload /\ ~Acceptable(reload))
  <2>1. /\ manager'.pc \in {"wait", "await", "ended"} /\ manager'.todo = {}
        /\ manager.pc # "send" /\ UNCHANGED <<queue, config>>
        /\ reload' \in {None, reload}
    BY <1>5 DEF StopManager, EndManager, TakeReload, IInv, TypeOK, Ready, channels
  <2>2. TypeOK'
    BY <1>1, <1>5, <2>1 DEF StopManager, EndManager, TakeReload, IInv, TypeOK
  <2>3. Ready' /\ NeverBlocked' /\ Routed'
    BY <1>1, <2>1 DEF IInv, Ready, NeverBlocked, Routed
  <2>4. AllOrNone'
    BY <1>1, <2>1 DEF IInv, AllOrNone, Due, Intended
  <2> QED BY <2>2, <2>3, <2>4 DEF IInv
<1> QED BY <1>2, <1>3, <1>4, <1>5 DEF ManagerLoop

LEMMA RuntimeInv ==
    ASSUME IInv, NEW e \in Connections, Apply(e) \/ Return(e)
    PROVE  IInv'
<1>1. UNCHANGED <<manager, config, reload, main, disk, hup, stopping, settled, edits, signals>>
  BY DEF Apply, Return, loops, channels
<1>2. CASE Apply(e)
  <2>1. /\ applied' = [applied EXCEPT ![e] = queue[e]]
        /\ queue' = [queue EXCEPT ![e] = None] /\ queue[e] # None
        /\ UNCHANGED alive
    BY <1>2 DEF Apply, loops
  <2>2. /\ UNCHANGED Connections
        /\ applied'[e] = queue[e] /\ queue'[e] = None
        /\ \A d \in Connections : d # e => applied'[d] = applied[d] /\ queue'[d] = queue[d]
    BY <2>1 DEF IInv, TypeOK, Connections
  <2>3. TypeOK'
    <3>1. queue[e] \in Config
      BY <2>1 DEF IInv, TypeOK
    <3>2. applied' \in [Connections -> Config] /\ queue' \in [Connections -> Config \cup {None}]
      BY <2>1, <3>1 DEF IInv, TypeOK
    <3> QED BY <1>1, <2>1, <2>2, <3>2 DEF IInv, TypeOK
  <2>4. Ready' /\ NeverBlocked' /\ Routed'
    BY <1>1, <2>1, <2>2 DEF IInv, TypeOK, Ready, NeverBlocked, Routed
  <2>5. AllOrNone'
    BY <1>1, <2>1, <2>2 DEF IInv, AllOrNone, Due, Intended
  <2> QED BY <2>3, <2>4, <2>5 DEF IInv
<1>3. CASE Return(e)
  <2>1. UNCHANGED <<applied, queue, Connections>> /\ alive' \subseteq alive
    BY <1>3 DEF Return, Connections, channels
  <2>2. TypeOK'
    BY <1>1, <2>1 DEF IInv, TypeOK
  <2> QED BY <1>1, <2>1, <2>2, Elsewhere DEF IInv, Ready
<1> QED BY <1>2, <1>3

LEMMA Inductive == IInv /\ [Next]_vars => IInv'
<1>1. IInv /\ UNCHANGED vars => IInv'
  <2> SUFFICES ASSUME IInv, UNCHANGED vars PROVE IInv'
    OBVIOUS
  <2>1. UNCHANGED <<manager, config, applied, queue, reload, alive, main, disk, hup, stopping, settled, edits, signals>>
    BY DEF vars, loops, channels
  <2>2. TypeOK'
    BY <2>1 DEF IInv, TypeOK, Connections
  <2> QED BY <2>1, <2>2, Elsewhere DEF IInv, Ready
<1> QED BY <1>1, OperatorInv, MainInv, ManagerInv, RuntimeInv DEF Next

LEMMA Invariance == Spec => []IInv
  BY InitInv, Inductive, PTL DEF Spec

-----------------------------------------------------------------------------

(* Types of the state.                                                      *)
THEOREM TypeCorrect == Spec => []TypeOK
<1>1. IInv => TypeOK
  BY DEF IInv
<1> QED BY Invariance, <1>1, PTL

(* What each runtime has, or is about to have, is its part of one
   configuration, at every step of a reload (manager.go:98-121).            *)
THEOREM ReloadsWhole == Spec => []AllOrNone
<1>1. IInv => AllOrNone
  BY DEF IInv
<1> QED BY Invariance, <1>1, PTL

(* Handing a configuration on never waits (manager.go:118).                 *)
THEOREM HandsOn == Spec => []NeverBlocked
<1>1. IInv => NeverBlocked
  BY DEF IInv
<1> QED BY Invariance, <1>1, PTL

(* No channel has two owners (config.go:381), for any number of files and
   workflows, whatever the operator edits while they are read.              *)
THEOREM NoSecondOwner == Spec => []Unambiguous
<1>1. IInv => Unambiguous
  BY DEF IInv, Routed, Unambiguous
<1> QED BY Invariance, <1>1, PTL
===============================================================================
