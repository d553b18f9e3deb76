------------------------------- MODULE Manager --------------------------------
(***************************************************************************)
(* Reloads and the shutdown of one process that serves several Mattermost  *)
(* connections: serve (cmd/orpheus-mattermost/main.go), Manager            *)
(* (internal/service/manager.go) and the part of each Runtime that takes a *)
(* new configuration.                                                      *)
(*                                                                         *)
(* Three kinds of goroutines hand configurations on through channels of    *)
(* capacity one: the main loop, the manager and a runtime per connection.  *)
(* Meanwhile an operator edits the directory file by file and signals.     *)
(* The environment of a process never changes, so neither do the settings  *)
(* that reloadCompatible compares.                                         *)
(***************************************************************************)
EXTENDS Routing

CONSTANTS
    \* Bounds of the instances TLC checks.
    Start,        \* configurations the process starts with
    MaxEdits, MaxSignals

ASSUME StartAssumption == Start \subseteq {c \in Directory : Valid(c)}
ASSUME BoundAssumption == {MaxEdits, MaxSignals} \subseteq Nat

VARIABLES
    disk,         \* the workflow directory
    hup,          \* a SIGHUP is pending
    stopping,     \* the context is cancelled
    main,         \* the main loop: its step, what it has read, what it has to
    reload,       \* the channel from the main loop to the manager
    manager,      \* Manager.Run: its step, the configuration it sends, to whom
    config,       \* Manager.Config
    queue,        \* for each connection, the channel to its runtime
    applied,      \* for each connection, Runtime.cfg
    alive,        \* runtimes that have not returned
    settled,      \* the last signal came alone, and nothing was edited after it
    \* counters of the bounds
    edits, signals

loops == <<main, manager, alive>>
channels == <<hup, reload, queue>>
vars == <<disk, stopping, loops, channels, config, applied, settled, edits, signals>>

-----------------------------------------------------------------------------

(* Connections are made when the process starts.                            *)
Connections == DOMAIN applied
Waiting == [pc |-> "wait", read |-> Nobody, left |-> {}]
Idle == [pc |-> "wait", next |-> Nobody, todo |-> {}]

(* Manager.Init has found every bot.                                        *)
Init ==
    /\ disk \in Start /\ config = disk
    /\ applied = [e \in Connected(disk) |-> Group(disk, e)]
    /\ queue = [e \in Connected(disk) |-> None]
    /\ alive = Connected(disk)
    /\ hup = FALSE /\ reload = None /\ stopping = FALSE
    /\ main = Waiting /\ manager = Idle
    /\ settled = FALSE /\ edits = 0 /\ signals = 0

-----------------------------------------------------------------------------
(* The operator.                                                            *)

Edit(f, w) ==
    /\ edits < MaxEdits /\ edits' = edits + 1
    /\ w # disk[f] /\ disk' = [disk EXCEPT ![f] = w]
    /\ settled' = FALSE
    /\ UNCHANGED <<stopping, loops, channels, config, applied, signals>>

(* Signals that come together are one.                                      *)
InTransit == hup \/ main.pc # "wait" \/ reload # None \/ manager.pc # "wait" \/ \E e \in Connections : queue[e] # None
Signal ==
    /\ signals < MaxSignals /\ signals' = signals + 1
    /\ hup' = TRUE /\ settled' = ~InTransit
    /\ UNCHANGED <<disk, stopping, loops, reload, queue, config, applied, edits>>

Terminate ==
    /\ ~stopping /\ stopping' = TRUE
    /\ UNCHANGED <<disk, loops, channels, config, applied, settled, edits, signals>>

-----------------------------------------------------------------------------
(* The main loop.  Load lists the directory, then reads file after file.    *)

TakeSignal ==
    /\ main.pc = "wait" /\ hup /\ hup' = FALSE
    /\ main' = [pc |-> "load", read |-> Nobody, left |-> {f \in Files : disk[f] # None}]
    /\ UNCHANGED <<disk, stopping, manager, alive, reload, queue, config, applied, settled, edits, signals>>

Readable(f) == disk[f] \in Workflows
ReadFile(f) ==
    /\ main.pc = "load" /\ f \in main.left /\ \A g \in main.left : f <= g
    /\ main' = IF Readable(f) THEN [main EXCEPT !.read[f] = disk[f], !.left = @ \ {f}] ELSE Waiting
    /\ UNCHANGED <<disk, stopping, manager, alive, channels, config, applied, settled, edits, signals>>

(* What is not valid, or finds the channel full, is dropped.                *)
Offer ==
    /\ main.pc = "load" /\ main.left = {} /\ main' = Waiting
    /\ reload' = IF Valid(main.read) /\ reload = None THEN main.read ELSE reload
    /\ UNCHANGED <<disk, stopping, manager, alive, hup, queue, config, applied, settled, edits, signals>>

(* The listener fails, and the manager is awaited.                          *)
ServerFails ==
    /\ main.pc = "wait" /\ main' = [main EXCEPT !.pc = "await"] /\ stopping' = TRUE
    /\ UNCHANGED <<disk, manager, alive, channels, config, applied, settled, edits, signals>>
Exit ==
    /\ main.pc \in {"wait", "await"} /\ manager.pc = "ended"
    /\ main' = [main EXCEPT !.pc = "ended"]
    /\ UNCHANGED <<disk, stopping, manager, alive, channels, config, applied, settled, edits, signals>>

-----------------------------------------------------------------------------
(* The manager.                                                             *)

(* Variants: nobody looks whether a runtime has taken its last configuration;
   a configuration that leaves a connection without workflows is rejected.  *)
AcceptableUnseen(c) == Connected(c) \subseteq Connections
AcceptableWhole(c) == Connected(c) = Connections /\ \A e \in Connections : queue[e] = None

Acceptable(c) == Connected(c) \subseteq Connections /\ \A e \in Connections : queue[e] = None
(* Variant: a connection without workflows is left as it was.               *)
TakeReloadPart ==
    /\ manager.pc = "wait" /\ reload # None /\ reload' = None
    /\ manager' = IF Acceptable(reload) THEN [pc |-> "send", next |-> reload, todo |-> Connected(reload)] ELSE manager
    /\ UNCHANGED <<disk, stopping, main, alive, hup, queue, config, applied, settled, edits, signals>>

TakeReload ==
    /\ manager.pc = "wait" /\ reload # None /\ reload' = None
    /\ manager' = IF Acceptable(reload) THEN [pc |-> "send", next |-> reload, todo |-> Connections] ELSE manager
    /\ UNCHANGED <<disk, stopping, main, alive, hup, queue, config, applied, settled, edits, signals>>

(* A send waits for room.                                                   *)
Send(e) ==
    /\ manager.pc = "send" /\ e \in manager.todo /\ queue[e] = None
    /\ queue' = [queue EXCEPT ![e] = Group(manager.next, e)]
    /\ manager' = [manager EXCEPT !.todo = @ \ {e}]
    /\ UNCHANGED <<disk, stopping, main, alive, hup, reload, config, applied, settled, edits, signals>>
Sent ==
    /\ manager.pc = "send" /\ manager.todo = {}
    /\ config' = manager.next /\ manager' = Idle
    /\ UNCHANGED <<disk, stopping, main, alive, channels, applied, settled, edits, signals>>

StopManager ==
    /\ manager.pc = "wait" /\ stopping /\ manager' = [manager EXCEPT !.pc = "await"]
    /\ UNCHANGED <<disk, stopping, main, alive, channels, config, applied, settled, edits, signals>>
EndManager ==
    /\ manager.pc = "await" /\ alive = {} /\ manager' = [manager EXCEPT !.pc = "ended"]
    /\ UNCHANGED <<disk, stopping, main, alive, channels, config, applied, settled, edits, signals>>

-----------------------------------------------------------------------------
(* A runtime: between two steps of its loop it takes a configuration, or
   returns.                                                                 *)

Apply(e) ==
    /\ e \in alive /\ queue[e] # None
    /\ applied' = [applied EXCEPT ![e] = queue[e]] /\ queue' = [queue EXCEPT ![e] = None]
    /\ UNCHANGED <<disk, stopping, loops, hup, reload, config, settled, edits, signals>>
Return(e) ==
    /\ e \in alive /\ stopping /\ alive' = alive \ {e}
    /\ UNCHANGED <<disk, stopping, main, manager, channels, config, applied, settled, edits, signals>>

-----------------------------------------------------------------------------

MainLoop == TakeSignal \/ (\E f \in Files : ReadFile(f)) \/ Offer \/ Exit
ManagerLoop == TakeReload \/ (\E e \in Connections : Send(e)) \/ Sent \/ StopManager \/ EndManager
Operator == (\E f \in Files : \E w \in Workflows \cup {None, Bad} : Edit(f, w)) \/ Signal \/ Terminate

Next ==
    \/ Operator \/ ServerFails \/ MainLoop \/ ManagerLoop
    \/ \E e \in Connections : Apply(e) \/ Return(e)

Spec == Init /\ [][Next]_vars

(* Goroutines run.                                                          *)
FairSpec ==
    /\ Spec /\ WF_vars(MainLoop) /\ WF_vars(ManagerLoop)
    /\ \A e \in Endpoints : WF_vars(e \in Connections /\ Apply(e)) /\ WF_vars(e \in Connections /\ Return(e))

-----------------------------------------------------------------------------

(* Types of the state.                                                      *)
TypeOK ==
    /\ disk \in Directory /\ config \in Config /\ reload \in Config \cup {None}
    /\ hup \in BOOLEAN /\ stopping \in BOOLEAN /\ settled \in BOOLEAN
    /\ main \in [pc : {"wait", "load", "await", "ended"}, read : Config, left : SUBSET Files]
    /\ manager \in [pc : {"wait", "send", "await", "ended"}, next : Config, todo : SUBSET Connections]
    /\ Connections \subseteq Endpoints /\ alive \subseteq Connections
    /\ applied \in [Connections -> Config] /\ queue \in [Connections -> Config \cup {None}]
    /\ edits \in 0 .. MaxEdits /\ signals \in 0 .. MaxSignals

(* A reload reaches every connection or none (manager.go:113-131): what each
   runtime has, or is about to have, is its part of one configuration.      *)
Due(e) == IF queue[e] # None THEN queue[e] ELSE applied[e]
Intended(e) == IF manager.pc = "send" /\ e \notin manager.todo THEN manager.next ELSE config
AllOrNone == \A e \in Connections : Due(e) = Group(Intended(e), e)

(* No channel of any connection ever has two owners (config.go:386), although
   a directory is read while it is edited and connections change one by one. *)
Unambiguous == \A e \in Connections : Routable(applied[e])

(* The manager never waits to hand a configuration on (manager.go:119-131): if it
   did, a runtime that has returned would keep it from stopping.            *)
NeverBlocked == \A e \in manager.todo : queue[e] = None

(* A reload that was signalled when no other was under way, of a directory
   left alone since, is in effect in the end, if it can be.                 *)
InEffect == disk \in Config /\ \A e \in Connections : applied[e] = Group(disk, e)
Loadable == Valid(disk) /\ Connected(disk) \subseteq Connections
ReloadArrives == settled /\ Loadable ~> InEffect \/ ~settled \/ stopping

(* SIGTERM or a failed listener stops all runtimes, the manager and the
   process, whatever reload is under way.                                   *)
Stops == stopping ~> main.pc = "ended"
===============================================================================
