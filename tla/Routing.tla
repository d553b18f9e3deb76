------------------------------- MODULE Routing --------------------------------
(***************************************************************************)
(* Configurations and routing: internal/config/config.go.                  *)
(*                                                                         *)
(* A configuration holds what each file of the workflow directory says.    *)
(* Which workflow a channel belongs to depends on all workflows of its     *)
(* Mattermost connection, and on the kind of the channel.                  *)
(***************************************************************************)
EXTENDS Naturals, FiniteSets

CONSTANTS
    Files,        \* files of the workflow directory, numbered in their order
    Workflows,    \* the workflows a file may describe
    Channels,
    Endpoints,    \* Mattermost URL and name of the token
    Names,        \* workflow IDs
    None, Bad     \* no such file; one that does not parse or breaks a limit

Kinds == {"O", "P", "G", "D"}    \* public, private, group and direct channels

ASSUME FilesAssumption == Files \subseteq Nat \ {0} /\ IsFiniteSet(Files)
ASSUME WorkflowsAssumption ==
    /\ Workflows \subseteq [id : Names, mattermost : Endpoints, include : SUBSET Channels, exclude : SUBSET Channels,
                            direct : BOOLEAN, private : BOOLEAN, group : BOOLEAN]
    /\ {None, Bad} \cap Workflows = {} /\ None # Bad

Directory == [Files -> Workflows \cup {None, Bad}]
Config == [Files -> Workflows \cup {None}]
ASSUME NoneAssumption == None \notin Config
Used(c) == {f \in Files : c[f] # None}

-----------------------------------------------------------------------------
(* Config.validate.                                                         *)

Generic(w) == w.include = {}
BothDirect(v, w) == v.direct /\ w.direct
BothGeneric(v, w) == Generic(v) /\ Generic(w)
(* Variant: a list overlaps another only when it is the same.               *)
OverlapEqual(v, w) == v.include = w.include /\ v.include \ (v.exclude \cup w.exclude) # {}
Overlap(v, w) == \E ch \in v.include \cap w.include : ch \notin v.exclude \cup w.exclude
Clash(v, w) ==
    \/ v.id = w.id
    \/ v.mattermost = w.mattermost /\ (BothDirect(v, w) \/ BothGeneric(v, w) \/ Overlap(v, w))
Valid(c) ==
    /\ c \in Config /\ Used(c) # {}
    /\ \A f, g \in Used(c) : f # g => ~Clash(c[f], c[g])

(* Config.Groups: the workflows of one connection.                          *)
Group(c, e) == [f \in Files |-> IF c[f] # None /\ c[f].mattermost = e THEN c[f] ELSE None]
Nobody == [f \in Files |-> None]
Connected(c) == {c[f].mattermost : f \in Used(c)}

-----------------------------------------------------------------------------
(* Config.Route.                                                            *)

Allowed(w, kind) ==
    \/ kind = "O"
    \/ kind = "P" /\ w.private
    \/ kind = "G" /\ w.group
    \/ kind = "D" /\ w.direct
Specialized(c, ch) == \E f \in Used(c) : ch \in c[f].include
Chosen(c, w, ch) ==
    /\ ch \notin w.exclude
    /\ ch \in w.include \/ (Generic(w) /\ ~Specialized(c, ch))
Owners(c, ch, kind) ==
    {f \in Used(c) : Allowed(c[f], kind) /\ (kind = "D" \/ Chosen(c, c[f], ch))}

(* Route does not fail with "ambiguous channel owner".                      *)
Routable(c) == \A ch \in Channels : \A kind \in Kinds : \A f, g \in Owners(c, ch, kind) : f = g
===============================================================================
