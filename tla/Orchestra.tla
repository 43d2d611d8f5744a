------------------------------ MODULE Orchestra ------------------------------
(***************************************************************************)
(* The controller and the nodes of one group, and the clocks that let a     *)
(* scheduled scene flip on all of them at once.                             *)
(*                                                                         *)
(* Every device counts time from its own boot.  SyncClock carries the       *)
(* controller's time; a node keeps the difference to its own.  Commands to  *)
(* a group are not acknowledged: each node may hear one, or not, and        *)
(* messages overtake each other.  A message that is heard is heard within   *)
(* MaxDelay (the assumption on the network), and clocks run at one rate.    *)
(*                                                                         *)
(* The node is LedScene without its threads: a handler and a pass of the    *)
(* render task are one step each, and a pass takes place in every unit of   *)
(* time.  What a scene shows is left out; it is known by its sender.        *)
(***************************************************************************)
EXTENDS Integers

CONSTANTS
    Nodes,          \* the nodes enrolled in the group
    MaxDelay,       \* longest time between sending and hearing a command
    Delays,         \* delays given to lo-scheduled-scene-group
    Times,          \* times given explicitly: a start (0 means none) or a clock
    FirstBoots,     \* when the nodes booted, the controller booting at 0
    MaxNow,         \* bound: length of a run
    MaxSent,        \* bound: number of commands
    MaxRestarts,    \* bound: number of restarts, of any device
    None            \* no scene

ASSUME NumbersAssumption ==
    /\ MaxDelay \in Nat /\ Delays \subseteq Nat /\ Times \subseteq Nat
    /\ FirstBoots \subseteq [Nodes -> Int]
    /\ MaxNow \in Nat /\ MaxSent \in Nat /\ MaxRestarts \in Nat

Nobody == 0     \* the era of a clock the controller's time did not set

\* A scene: the controller boot that sent it, its sequence number, its start,
\* and whether lo-scheduled-scene-group computed that start.
Scenes == [era : Nat, seq : Nat, start : Nat, scheduled : BOOLEAN]

Waiting == [scene : Scenes, sure : BOOLEAN]
Flipped == [scene : Scenes, at : Int]

ASSUME NoneAssumption == None \notin Scenes \cup Waiting \cup Flipped

Syncs    == [to : Nodes, sent : Int, era : Nat, time : Nat]
Messages == [to : Nodes, sent : Int, scene : Scenes]

VARIABLES
    now,            \* true time
    \* Controller
    cboot,          \* when it booted
    era,            \* history: its boots
    g_sequence,     \* the next default sequence number
    \* Nodes
    nboot,          \* when each booted
    offset,         \* g_clock_offset_ms of each
    heard,          \* history: the era of the clock each one follows
    shows,          \* the active scene of each, None for one loaded at boot
    pending,        \* None, or the scene waiting; history: whether it is "sure"
    flipped,        \* history: the last scheduled scene, and the controller's time
    \* Network
    syncs, scenes,  \* commands under way
    \* Bounds, and history of the newest scene command
    sent, restarts,
    latest,         \* the scene sent last
    alone,          \* no older one was under way when it was sent
    reached,        \* the nodes that heard it, and no scene after it
    overtaken       \* the nodes that heard it, and an older scene after it

controller == <<cboot, era, g_sequence>>
clocks     == <<nboot, offset, heard>>
show       == <<shows, pending, flipped>>
newest     == <<latest, alone, reached, overtaken>>
vars == <<now, controller, clocks, show, syncs, scenes, sent, restarts, newest>>

-----------------------------------------------------------------------------
ctime     == now - cboot
uptime(n) == now - nboot[n]
synced(n) == uptime(n) + offset[n]

\* Mutated form: starts are compared with the node's own uptime.
Due_Uptime(n) == pending[n] # None /\ uptime(n) >= pending[n].scene.start

\* The render task finds a pending scene due.
Due(n) == pending[n] # None /\ synced(n) >= pending[n].scene.start

Init ==
    /\ now = 0 /\ cboot = 0 /\ era = 1 /\ g_sequence = 1
    /\ nboot \in FirstBoots
    /\ offset = [n \in Nodes |-> 0] /\ heard = [n \in Nodes |-> Nobody]
    /\ shows = [n \in Nodes |-> None] /\ pending = [n \in Nodes |-> None]
    /\ flipped = [n \in Nodes |-> None]
    /\ syncs = {} /\ scenes = {} /\ sent = 0 /\ restarts = 0
    /\ latest = None /\ alone = TRUE /\ reached = {} /\ overtaken = {}

-----------------------------------------------------------------------------
(* Controller: the console commands, to one node or to the group *)

\* S are the nodes that will hear the command: one for a unicast, any of the
\* group for a groupcast.  A command that nobody hears only uses up a sequence
\* number and is left out.
SendSync(S, t, e) ==
    /\ sent < MaxSent /\ sent' = sent + 1
    /\ syncs' = syncs \cup [to : S, sent : {now}, era : {e}, time : {t}]
    /\ UNCHANGED <<now, controller, clocks, show, scenes, restarts, newest>>

\* lo-sync-clock, lo-sync-clock-group: the controller's uptime by default.
SyncClock(S) == SendSync(S, ctime, era)
SyncClockTo(S) == \E t \in Times : SendSync(S, t, Nobody)

SendScene(S, start, scheduled) ==
    LET s == [era |-> era, seq |-> g_sequence, start |-> start, scheduled |-> scheduled]
    IN  /\ sent < MaxSent /\ sent' = sent + 1
        /\ scenes' = scenes \cup [to : S, sent : {now}, scene : {s}]
        /\ g_sequence' = g_sequence + 1
        /\ latest' = s /\ alone' = (scenes = {})
        /\ reached' = {} /\ overtaken' = {}
        /\ UNCHANGED <<now, cboot, era, clocks, show, syncs, restarts>>

\* lo-set-scene, lo-set-scene-group: a start only if one is given.
SetScene(S) == \E start \in {0} \cup Times : SendScene(S, start, FALSE)

\* Mutated form: the delay is taken off the controller's time.
ScheduledScene_Ago(S) == \E delay \in Delays : SendScene(S, ctime - delay, TRUE)

\* lo-scheduled-scene-group.
ScheduledScene(S) == \E delay \in Delays : SendScene(S, ctime + delay, TRUE)

ControllerRestart ==
    /\ restarts < MaxRestarts /\ restarts' = restarts + 1
    /\ cboot' = now /\ era' = era + 1 /\ g_sequence' = 1
    /\ UNCHANGED <<now, clocks, show, syncs, scenes, sent, newest>>

-----------------------------------------------------------------------------
(* Nodes *)

\* A waiting scene whose node now follows the clock of era e.
Follow(p, e) == IF p = None THEN None ELSE [p EXCEPT !.sure = @ /\ e # Nobody]

\* History of the newest scene when node n hears scene s.
Reach(n, s) ==
    /\ reached' = IF s = latest THEN reached \cup {n} ELSE reached \ {n}
    /\ overtaken' = IF s # latest /\ n \in reached THEN overtaken \cup {n} ELSE overtaken
    /\ UNCHANGED <<latest, alone>>

\* Mutated form: the controller's time itself is kept as the offset.
HearSync_Time(m) ==
    /\ syncs' = syncs \ {m}
    /\ offset' = [offset EXCEPT ![m.to] = m.time]
    /\ heard' = [heard EXCEPT ![m.to] = m.era]
    /\ pending' = [pending EXCEPT ![m.to] = Follow(@, m.era)]
    /\ UNCHANGED <<now, controller, nboot, shows, flipped, scenes, sent, restarts, newest>>

HearSync(m) ==
    /\ syncs' = syncs \ {m}
    /\ offset' = [offset EXCEPT ![m.to] = m.time - uptime(m.to)]
    /\ heard' = [heard EXCEPT ![m.to] = m.era]
    /\ pending' = [pending EXCEPT ![m.to] = Follow(@, m.era)]
    /\ UNCHANGED <<now, controller, nboot, shows, flipped, scenes, sent, restarts, newest>>

\* Mutated form: an immediate scene leaves the one that waits.
HearScene_KeepsPending(m) ==
    LET n == m.to
    IN  /\ scenes' = scenes \ {m}
        /\ \/ /\ m.scene.start = 0
              /\ shows' = [shows EXCEPT ![n] = m.scene]
              /\ UNCHANGED pending
           \/ /\ m.scene.start # 0
              /\ pending' = [pending EXCEPT ![n] =
                    [scene |-> m.scene,
                     sure  |-> m.scene.scheduled /\ heard[n] # Nobody]]
              /\ UNCHANGED shows
        /\ Reach(n, m.scene)
        /\ UNCHANGED <<now, controller, clocks, flipped, syncs, sent, restarts>>

HearScene(m) ==
    LET n == m.to
    IN  /\ scenes' = scenes \ {m}
        /\ \/ /\ m.scene.start = 0
              /\ shows' = [shows EXCEPT ![n] = m.scene]
              /\ pending' = [pending EXCEPT ![n] = None]
           \/ /\ m.scene.start # 0
              /\ pending' = [pending EXCEPT ![n] =
                    [scene |-> m.scene,
                     sure  |-> m.scene.scheduled /\ heard[n] # Nobody]]
              /\ UNCHANGED shows
        /\ Reach(n, m.scene)
        /\ UNCHANGED <<now, controller, clocks, flipped, syncs, sent, restarts>>

\* A pass of the render task that promotes; the flip is remembered if the node
\* follows the clock of the scene's sender, and followed some controller's clock
\* ever since it heard of the scene.
Flip(n) ==
    /\ Due(n)
    /\ shows' = [shows EXCEPT ![n] = pending[n].scene]
    /\ pending' = [pending EXCEPT ![n] = None]
    /\ flipped' = [flipped EXCEPT ![n] =
          IF pending[n].sure /\ pending[n].scene.era = era /\ heard[n] = era
          THEN [scene |-> pending[n].scene, at |-> ctime] ELSE None]
    /\ UNCHANGED <<now, controller, clocks, syncs, scenes, sent, restarts, newest>>

NodeRestart(n) ==
    /\ restarts < MaxRestarts /\ restarts' = restarts + 1
    /\ nboot' = [nboot EXCEPT ![n] = now]
    /\ offset' = [offset EXCEPT ![n] = 0]
    /\ heard' = [heard EXCEPT ![n] = Nobody]
    /\ shows' = [shows EXCEPT ![n] = None]
    /\ pending' = [pending EXCEPT ![n] = None]
    /\ reached' = reached \ {n} /\ overtaken' = overtaken \ {n}
    /\ UNCHANGED <<now, controller, flipped, syncs, scenes, sent, latest, alone>>

-----------------------------------------------------------------------------
\* Time passes when every command heard was heard in time, and every render
\* task has had its pass.
Tick ==
    /\ now < MaxNow
    /\ \A m \in syncs \cup scenes : now - m.sent < MaxDelay
    /\ \A n \in Nodes : ~Due(n)
    /\ now' = now + 1
    /\ UNCHANGED <<controller, clocks, show, syncs, scenes, sent, restarts, newest>>

Next ==
    \/ \E S \in SUBSET Nodes \ {{}} :
          SyncClock(S) \/ SyncClockTo(S) \/ SetScene(S) \/ ScheduledScene(S)
    \/ \E m \in syncs : HearSync(m)
    \/ \E m \in scenes : HearScene(m)
    \/ \E n \in Nodes : Flip(n) \/ NodeRestart(n)
    \/ ControllerRestart
    \/ Tick

Spec == Init /\ [][Next]_vars

-----------------------------------------------------------------------------
(* Properties *)

\* Every variable of the controller, the nodes and the network keeps its type.
TypeOK ==
    /\ now \in Nat /\ cboot \in Int /\ era \in Nat /\ g_sequence \in Nat
    /\ nboot \in [Nodes -> Int] /\ offset \in [Nodes -> Int]
    /\ heard \in [Nodes -> Nat]
    /\ shows \in [Nodes -> Scenes \cup {None}]
    /\ pending \in [Nodes -> Waiting \cup {None}]
    /\ flipped \in [Nodes -> Flipped \cup {None}]
    /\ syncs \subseteq Syncs /\ scenes \subseteq Messages
    /\ sent \in Nat /\ restarts \in Nat
    /\ latest \in Scenes \cup {None} /\ alone \in BOOLEAN
    /\ reached \subseteq Nodes /\ overtaken \subseteq Nodes

\* A node that follows a controller's clock, be it of a boot that is over, is
\* behind the running controller by at most the delay of one SyncClock; and if
\* it follows the running one, it is never ahead: not when syncs overtake each
\* other, and not when devices booted at different times or restart.
SyncedTimeTracks ==
    \A n \in Nodes :
       /\ heard[n] # Nobody => ctime <= synced(n) + MaxDelay
       /\ heard[n] = era => synced(n) <= ctime

\* Node n makes its pending scene active.
Flips(n) ==
    /\ pending[n] # None /\ pending'[n] = None
    /\ shows'[n] = pending[n].scene /\ restarts' = restarts

\* A node that follows the clock of a scene's sender flips no earlier than the
\* start.  One that followed a controller's clock ever since it heard of the
\* scene flips no later than MaxDelay after the start the controller computed,
\* also if that clock is the one from before a controller restart: such a node
\* may be early but is not left behind.
FlipsOnTime ==
    [][\A n \in Nodes : Flips(n) /\ pending[n].scene.era = era =>
          /\ heard[n] = era => pending[n].scene.start <= ctime
          /\ pending[n].sure => ctime <= pending[n].scene.start + MaxDelay]_vars

\* All segments flip together: two nodes that flipped to one scene of
\* lo-scheduled-scene-group, both in step with the controller then and with a
\* clock at all since they heard of it, did so within the delay of one message.
FlipTogether ==
    \A m, n \in Nodes :
       flipped[m] # None /\ flipped[n] # None /\ flipped[m].scene = flipped[n].scene
          => flipped[m].at - flipped[n].at <= MaxDelay

\* What a node shows once nothing waits.
Outlook(n) == IF pending[n] # None THEN pending[n].scene ELSE shows[n]

\* The nodes agree on the newest scene: whichever of them heard it show it or
\* wait for it, immediate or scheduled, whatever they heard before.  Only a node
\* that heard an older scene after it differs, and none does if the operator left
\* no older scene under way when sending: the next scene heals a crossing.
NewestSceneWins ==
    /\ \A n \in reached : Outlook(n) = latest
    /\ alone => overtaken = {}

=============================================================================
