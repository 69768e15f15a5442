--------------------------- MODULE TunnelPromise ---------------------------
(***************************************************************************)
(* What the tunnel registry promises the recovery coordinator, without     *)
(* channels, locks or close loops: a rotation marks the tunnels opened so  *)
(* far, and succeeds only while a tunnel opened after the mark is live.    *)
(***************************************************************************)
EXTENDS Naturals

CONSTANTS Recoverers, MaxTracks

VARIABLES
    opened,     \* tunnels opened so far; the latest one is number opened
    live,       \* the live ones
    mark,       \* by rotation: the last tunnel opened before it
    phase       \* by rotation: idle, waiting, connected or timedOut

vars == <<opened, live, mark, phase>>

Init ==
    /\ opened = 0
    /\ live = {}
    /\ mark = [r \in Recoverers |-> 0]
    /\ phase = [r \in Recoverers |-> "idle"]

Open ==
    /\ opened < MaxTracks
    /\ opened' = opened + 1
    /\ live' = live \cup {opened + 1}
    /\ UNCHANGED <<mark, phase>>

Drop ==
    /\ \E id \in live : live' = live \ {id}
    /\ UNCHANGED <<opened, mark, phase>>

Begin(r) ==
    /\ phase[r] # "waiting"
    /\ phase' = [phase EXCEPT ![r] = "waiting"]
    /\ mark' = [mark EXCEPT ![r] = opened]
    /\ UNCHANGED <<opened, live>>

Succeed(r) ==
    /\ phase[r] = "waiting"
    /\ \E id \in live : id > mark[r]
    /\ phase' = [phase EXCEPT ![r] = "connected"]
    /\ UNCHANGED <<opened, live, mark>>

GiveUp(r) ==
    /\ phase[r] = "waiting"
    /\ phase' = [phase EXCEPT ![r] = "timedOut"]
    /\ UNCHANGED <<opened, live, mark>>

Next ==
    \/ Open
    \/ Drop
    \/ \E r \in Recoverers : Begin(r) \/ Succeed(r) \/ GiveUp(r)

Spec == Init /\ [][Next]_vars
=============================================================================
