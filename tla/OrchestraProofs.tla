--------------------------- MODULE OrchestraProofs ---------------------------
(***************************************************************************)
(* Theorems about the controller and its group, for every number of nodes,  *)
(* every latency, every moment of boot and every number of restarts.        *)
(***************************************************************************)
EXTENDS Orchestra, TLAPS

-----------------------------------------------------------------------------
(* The inductive invariant, by theme *)

\* Nothing comes from a controller boot that has not happened, and the
\* controller's time is never negative.
Eras ==
    /\ era >= 1 /\ cboot <= now
    /\ \A n \in Nodes : heard[n] <= era
    /\ \A n \in Nodes : pending[n] # None => pending[n].scene.era <= era
    /\ \A m \in syncs : m.era <= era
    /\ \A m \in scenes : m.scene.era <= era

\* Messages under way are young.
Young ==
    /\ \A m \in syncs : m.sent <= now /\ now <= m.sent + MaxDelay
    /\ \A m \in scenes : m.sent <= now /\ now <= m.sent + MaxDelay

\* A sync under way carries the time of the controller that sent it, which is
\* not behind that of a controller booted later.
SyncsCarryTime ==
    \A m \in syncs :
        /\ m.era = era => m.time = m.sent - cboot
        /\ m.era # Nobody => m.sent - cboot <= m.time

\* A scheduled scene under way was sent before its start.
ScenesAhead ==
    \A m \in scenes : m.scene.scheduled /\ m.scene.era = era
        => m.sent - cboot <= m.scene.start

\* A scene that waits while its node follows a controller's clock is not overdue.
InTime ==
    \A n \in Nodes : pending[n] # None /\ pending[n].sure =>
        /\ heard[n] # Nobody
        /\ pending[n].scene.era = era => ctime <= pending[n].scene.start + MaxDelay

\* A flip that is remembered was on time.
FlippedOnTime ==
    \A n \in Nodes : flipped[n] # None =>
        /\ flipped[n].scene.start <= flipped[n].at
        /\ flipped[n].at <= flipped[n].scene.start + MaxDelay

\* Only scenes with a start wait.
OnlyScheduledWaits ==
    \A n \in Nodes : pending[n] # None => pending[n].scene.start # 0

\* If no older scene was under way when the newest was sent, none is now.
OnlyNewest == alone => \A m \in scenes : m.scene = latest

-----------------------------------------------------------------------------
(* Lemmas about the helpers *)

\* A waiting scene stays the same scene when its node hears a SyncClock, and it
\* stays sure only if that is a controller's time.
LEMMA FollowGives ==
    ASSUME NEW p \in Waiting \cup {None}, NEW e
    PROVE  /\ Follow(p, e) \in Waiting \cup {None}
           /\ Follow(p, e) = None <=> p = None
           /\ p # None => /\ Follow(p, e).scene = p.scene
                          /\ Follow(p, e).sure => p.sure /\ e # Nobody
<1>1. CASE p = None
  BY <1>1 DEF Follow
<1>2. CASE p # None
  <2>1. p \in Waiting /\ Follow(p, e) = [p EXCEPT !.sure = p.sure /\ e # Nobody]
    BY <1>2 DEF Follow
  <2>2. (p.sure /\ e # Nobody) \in BOOLEAN
    OBVIOUS
  <2>3. Follow(p, e) \in Waiting
    BY <2>1, <2>2 DEF Waiting
  <2>4. /\ Follow(p, e).scene = p.scene
        /\ Follow(p, e).sure = (p.sure /\ e # Nobody)
    BY <2>1 DEF Waiting
  <2> QED BY <1>2, <2>3, <2>4, NoneAssumption
<1> QED BY <1>1, <1>2

\* What a step is, whatever the operator typed: a SyncClock of the controller's
\* own carries its time, and a computed start is not in the past.
LEMMA Steps ==
    ASSUME TypeOK, Eras, Next
    PROVE  \/ \E S \in SUBSET Nodes, t \in Nat, e \in {era, Nobody} :
                 (e = era => t = ctime) /\ SendSync(S, t, e)
           \/ \E S \in SUBSET Nodes, start \in Nat, scheduled \in BOOLEAN :
                 (scheduled => ctime <= start) /\ SendScene(S, start, scheduled)
           \/ \E m \in syncs : HearSync(m)
           \/ \E m \in scenes : HearScene(m)
           \/ \E n \in Nodes : Flip(n)
           \/ \E n \in Nodes : NodeRestart(n)
           \/ ControllerRestart
           \/ Tick
<1>1. ctime \in Nat
  BY DEF ctime, TypeOK, Eras
<1>2. era # Nobody
  BY DEF TypeOK, Eras, Nobody
<1>3. ASSUME NEW S \in SUBSET Nodes, SyncClock(S)
      PROVE  \E t \in Nat, e \in {era, Nobody} :
                (e = era => t = ctime) /\ SendSync(S, t, e)
  BY <1>1, <1>3 DEF SyncClock
<1>4. ASSUME NEW S \in SUBSET Nodes, SyncClockTo(S)
      PROVE  \E t \in Nat, e \in {era, Nobody} :
                (e = era => t = ctime) /\ SendSync(S, t, e)
  BY <1>2, <1>4, NumbersAssumption DEF SyncClockTo
<1>5. ASSUME NEW S \in SUBSET Nodes, SetScene(S)
      PROVE  \E start \in Nat, scheduled \in BOOLEAN :
                (scheduled => ctime <= start) /\ SendScene(S, start, scheduled)
  BY <1>5, NumbersAssumption DEF SetScene
<1>6. ASSUME NEW S \in SUBSET Nodes, ScheduledScene(S)
      PROVE  \E start \in Nat, scheduled \in BOOLEAN :
                (scheduled => ctime <= start) /\ SendScene(S, start, scheduled)
  <2>1. PICK delay \in Delays : SendScene(S, ctime + delay, TRUE)
    BY <1>6 DEF ScheduledScene
  <2>2. ctime + delay \in Nat /\ ctime <= ctime + delay
    BY <1>1, NumbersAssumption
  <2> QED BY <2>1, <2>2
<1> QED BY <1>3, <1>4, <1>5, <1>6 DEF Next

-----------------------------------------------------------------------------
(* Types *)

LEMMA TypeInit == Init => TypeOK
<1> SUFFICES ASSUME Init PROVE TypeOK
    OBVIOUS
<1>1. nboot \in [Nodes -> Int]
  BY NumbersAssumption DEF Init
<1> QED BY <1>1 DEF Init, TypeOK, Nobody

LEMMA TypeStep == TypeOK /\ Eras /\ [Next]_vars => TypeOK'
<1> SUFFICES ASSUME TypeOK, Eras, [Next]_vars PROVE TypeOK'
    OBVIOUS
<1> USE DEF TypeOK
<1>1. ASSUME NEW S \in SUBSET Nodes, NEW t \in Nat, NEW e \in {era, Nobody},
             SendSync(S, t, e)
      PROVE  TypeOK'
  <2>1. [to : S, sent : {now}, era : {e}, time : {t}] \subseteq Syncs
    BY DEF Syncs, Nobody
  <2> QED BY <1>1, <2>1 DEF SendSync, controller, clocks, show, newest
<1>2. ASSUME NEW S \in SUBSET Nodes, NEW start \in Nat, NEW scheduled \in BOOLEAN,
             SendScene(S, start, scheduled)
      PROVE  TypeOK'
  <2> DEFINE s == [era |-> era, seq |-> g_sequence, start |-> start,
                   scheduled |-> scheduled]
  <2>1. s \in Scenes
    BY DEF Scenes
  <2>2. [to : S, sent : {now}, scene : {s}] \subseteq Messages
    BY <2>1 DEF Messages
  <2>3. /\ scenes' \subseteq Messages /\ latest' \in Scenes /\ alone' \in BOOLEAN
        /\ reached' = {} /\ overtaken' = {} /\ g_sequence' \in Nat /\ sent' \in Nat
    BY <1>2, <2>1, <2>2 DEF SendScene
  <2> QED BY <1>2, <2>3 DEF SendScene, clocks, show
<1>3. ASSUME NEW m \in syncs, HearSync(m)
      PROVE  TypeOK'
  <2>1. m.to \in Nodes /\ m.time \in Nat /\ m.era \in Nat
    BY DEF Syncs
  <2>2. m.time - uptime(m.to) \in Int
    BY <2>1 DEF uptime
  <2>3. Follow(pending[m.to], m.era) \in Waiting \cup {None}
    BY <2>1, FollowGives
  <2> QED BY <1>3, <2>1, <2>2, <2>3 DEF HearSync, controller, newest
<1>4. ASSUME NEW m \in scenes, HearScene(m)
      PROVE  TypeOK'
  <2>1. m.to \in Nodes /\ m.scene \in Scenes /\ m.scene.scheduled \in BOOLEAN
    BY DEF Messages, Scenes
  <2>2. [scene |-> m.scene, sure |-> m.scene.scheduled /\ heard[m.to] # Nobody]
            \in Waiting
    BY <2>1 DEF Waiting
  <2>3. shows' \in [Nodes -> Scenes \cup {None}] /\ pending' \in [Nodes -> Waiting \cup {None}]
    BY <1>4, <2>1, <2>2 DEF HearScene
  <2> QED BY <1>4, <2>1, <2>3 DEF HearScene, Reach, controller, clocks
<1>5. ASSUME NEW n \in Nodes, Flip(n)
      PROVE  TypeOK'
  <2>1. pending[n] \in Waiting
    BY <1>5 DEF Flip, Due
  <2>2. pending[n].scene \in Scenes
    BY <2>1 DEF Waiting
  <2>3. [scene |-> pending[n].scene, at |-> ctime] \in Flipped
    BY <2>2 DEF Flipped, ctime
  <2> QED BY <1>5, <2>2, <2>3 DEF Flip, controller, clocks, newest
<1>6. ASSUME NEW n \in Nodes, NodeRestart(n)
      PROVE  TypeOK'
  BY <1>6 DEF NodeRestart, controller, Nobody
<1>7. CASE ControllerRestart
  BY <1>7 DEF ControllerRestart, clocks, show, newest
<1>8. CASE Tick
  BY <1>8 DEF Tick, controller, clocks, show, newest
<1>9. CASE UNCHANGED vars
  BY <1>9 DEF vars, controller, clocks, show, newest
<1> HIDE DEF TypeOK
<1> QED BY <1>1, <1>2, <1>3, <1>4, <1>5, <1>6, <1>7, <1>8, <1>9, Steps

-----------------------------------------------------------------------------
(* Messages under way *)

\* What a SendSync, or a SendScene, puts under way.
LEMMA SyncsSent ==
    ASSUME NEW S, NEW t, NEW e, SendSync(S, t, e), NEW m \in syncs'
    PROVE  m \in syncs \/ (m.sent = now /\ m.era = e /\ m.time = t)
BY DEF SendSync

LEMMA ScenesSent ==
    ASSUME NEW S, NEW start, NEW scheduled, SendScene(S, start, scheduled),
           NEW m \in scenes'
    PROVE  \/ m \in scenes
           \/ /\ m.sent = now
              /\ m.scene = [era |-> era, seq |-> g_sequence, start |-> start,
                            scheduled |-> scheduled]
BY DEF SendScene

LEMMA ErasStep == TypeOK /\ Eras /\ [Next]_vars => Eras'
<1> SUFFICES ASSUME TypeOK, Eras, [Next]_vars PROVE Eras'
    OBVIOUS
<1>1. ASSUME NEW S \in SUBSET Nodes, NEW t \in Nat, NEW e \in {era, Nobody},
             SendSync(S, t, e)
      PROVE  Eras'
  <2>1. UNCHANGED <<now, controller, clocks, show, scenes>>
    BY <1>1 DEF SendSync
  <2>2. \A m \in syncs' : m.era <= era
    BY <1>1, SyncsSent DEF TypeOK, Eras, Nobody
  <2> QED BY <2>1, <2>2 DEF Eras, controller, clocks, show
<1>2. ASSUME NEW S \in SUBSET Nodes, NEW start \in Nat, NEW scheduled \in BOOLEAN,
             SendScene(S, start, scheduled)
      PROVE  Eras'
  <2>1. UNCHANGED <<now, cboot, era, clocks, show, syncs>>
    BY <1>2 DEF SendScene
  <2>2. ASSUME NEW m \in scenes'
        PROVE  m \in scenes \/ m.scene.era = era
    <3>1. \/ m \in scenes
          \/ m.scene = [era |-> era, seq |-> g_sequence, start |-> start,
                        scheduled |-> scheduled]
      BY <1>2, ScenesSent
    <3> QED BY <3>1
  <2>3. \A m \in scenes' : m.scene.era <= era
    BY <2>2 DEF TypeOK, Eras
  <2> QED BY <2>1, <2>3 DEF Eras, clocks, show
<1>3. ASSUME NEW m \in syncs, HearSync(m)
      PROVE  Eras'
  <2>1. m.to \in Nodes /\ m.era \in Nat /\ m.era <= era
    BY DEF TypeOK, Eras, Syncs
  <2>2. \A n \in Nodes : heard'[n] <= era
    BY <1>3, <2>1 DEF HearSync, TypeOK, Eras
  <2>3. \A n \in Nodes : pending'[n] # None => /\ pending[n] # None
                                             /\ pending'[n].scene = pending[n].scene
    BY <1>3, <2>1, FollowGives DEF HearSync, TypeOK
  <2> QED BY <1>3, <2>2, <2>3 DEF HearSync, Eras, controller
<1>4. ASSUME NEW m \in scenes, HearScene(m)
      PROVE  Eras'
  <2>1. m.to \in Nodes /\ m.scene.era <= era
    BY DEF TypeOK, Eras, Messages
  <2>2. \A n \in Nodes : pending'[n] # None =>
            pending'[n] = pending[n] \/ pending'[n].scene = m.scene
    BY <1>4, <2>1 DEF HearScene, TypeOK
  <2>3. \A n \in Nodes : pending'[n] # None => pending'[n].scene.era <= era
    BY <2>1, <2>2 DEF Eras
  <2> QED BY <1>4, <2>3 DEF HearScene, Eras, controller, clocks
<1>5. ASSUME NEW n \in Nodes, Flip(n)
      PROVE  Eras'
  BY <1>5 DEF Flip, TypeOK, Eras, controller, clocks
<1>6. ASSUME NEW n \in Nodes, NodeRestart(n)
      PROVE  Eras'
  BY <1>6 DEF NodeRestart, TypeOK, Eras, controller, Nobody
<1>7. CASE ControllerRestart
  <2>1. \A k \in Nat : k <= era => k <= era + 1
    BY DEF TypeOK
  <2>2. \A n \in Nodes : pending[n] # None => pending[n].scene.era \in Nat
    BY DEF TypeOK, Waiting, Scenes
  <2>3. \A m \in syncs : m.era \in Nat
    BY DEF TypeOK, Syncs
  <2>4. \A m \in scenes : m.scene.era \in Nat
    BY DEF TypeOK, Messages, Scenes
  <2> QED BY <1>7, <2>1, <2>2, <2>3, <2>4
          DEF ControllerRestart, TypeOK, Eras, clocks, show
<1>8. CASE Tick
  BY <1>8 DEF Tick, TypeOK, Eras, controller, clocks, show
<1>9. CASE UNCHANGED vars
  BY <1>9 DEF vars, Eras, controller, clocks, show
<1> QED BY <1>1, <1>2, <1>3, <1>4, <1>5, <1>6, <1>7, <1>8, <1>9, Steps

LEMMA YoungStep == TypeOK /\ Eras /\ Young /\ [Next]_vars => Young'
<1> SUFFICES ASSUME TypeOK, Eras, Young, [Next]_vars PROVE Young'
    OBVIOUS
<1>0. now \in Nat /\ MaxDelay \in Nat
  BY NumbersAssumption DEF TypeOK
<1>1. ASSUME NEW S \in SUBSET Nodes, NEW t \in Nat, NEW e \in {era, Nobody},
             SendSync(S, t, e)
      PROVE  Young'
  BY <1>0, <1>1, SyncsSent DEF SendSync, Young
<1>2. ASSUME NEW S \in SUBSET Nodes, NEW start \in Nat, NEW scheduled \in BOOLEAN,
             SendScene(S, start, scheduled)
      PROVE  Young'
  BY <1>0, <1>2, ScenesSent DEF SendScene, Young
<1>3. ASSUME NEW m \in syncs, HearSync(m)
      PROVE  Young'
  BY <1>3 DEF HearSync, Young
<1>4. ASSUME NEW m \in scenes, HearScene(m)
      PROVE  Young'
  BY <1>4 DEF HearScene, Young
<1>5. ASSUME NEW n \in Nodes, Flip(n) \/ NodeRestart(n)
      PROVE  Young'
  BY <1>5 DEF Flip, NodeRestart, Young
<1>6. CASE ControllerRestart
  BY <1>6 DEF ControllerRestart, Young
<1>7. CASE Tick
  <2>1. \A m \in syncs \cup scenes : m.sent \in Int
    BY DEF TypeOK, Syncs, Messages
  <2>2. \A m \in syncs \cup scenes : m.sent <= now /\ now - m.sent < MaxDelay
    BY <1>7 DEF Tick, Young
  <2>3. \A m \in syncs \cup scenes : m.sent <= now + 1 /\ now + 1 <= m.sent + MaxDelay
    BY <1>0, <2>1, <2>2
  <2> QED BY <1>7, <2>3 DEF Tick, Young
<1>8. CASE UNCHANGED vars
  BY <1>8 DEF vars, Young
<1> QED BY <1>1, <1>2, <1>3, <1>4, <1>5, <1>6, <1>7, <1>8, Steps

-----------------------------------------------------------------------------
(* Clocks *)

Clocks == Eras /\ Young /\ SyncsCarryTime /\ SyncedTimeTracks

LEMMA SyncsCarryTimeStep ==
    TypeOK /\ Eras /\ Young /\ SyncsCarryTime /\ [Next]_vars => SyncsCarryTime'
<1> SUFFICES ASSUME TypeOK, Eras, Young, SyncsCarryTime, [Next]_vars PROVE SyncsCarryTime'
    OBVIOUS
<1>1. ASSUME NEW S \in SUBSET Nodes, NEW t \in Nat, NEW e \in {era, Nobody},
             e = era => t = ctime, SendSync(S, t, e)
      PROVE  SyncsCarryTime'
  <2>1. era # Nobody /\ now \in Nat /\ cboot \in Int
    BY DEF TypeOK, Eras, Nobody
  <2> QED BY <1>1, <2>1, SyncsSent DEF SendSync, SyncsCarryTime, controller, ctime
<1>2. ASSUME NEW S \in SUBSET Nodes, NEW start \in Nat, NEW scheduled \in BOOLEAN,
             SendScene(S, start, scheduled)
      PROVE  SyncsCarryTime'
  BY <1>2 DEF SendScene, SyncsCarryTime
<1>3. ASSUME NEW m \in syncs, HearSync(m)
      PROVE  SyncsCarryTime'
  BY <1>3 DEF HearSync, SyncsCarryTime, controller
<1>4. ASSUME NEW m \in scenes, HearScene(m)
      PROVE  SyncsCarryTime'
  BY <1>4 DEF HearScene, SyncsCarryTime, controller
<1>5. ASSUME NEW n \in Nodes, Flip(n) \/ NodeRestart(n)
      PROVE  SyncsCarryTime'
  BY <1>5 DEF Flip, NodeRestart, SyncsCarryTime, controller
<1>6. CASE ControllerRestart
  <2>1. \A m \in syncs : m.era # era + 1
    BY DEF TypeOK, Eras, Syncs
  <2>2. \A m \in syncs : m.sent - now <= m.time
    BY DEF TypeOK, Young, Syncs
  <2> QED BY <1>6, <2>1, <2>2 DEF ControllerRestart, SyncsCarryTime
<1>7. CASE Tick \/ UNCHANGED vars
  BY <1>7 DEF Tick, vars, SyncsCarryTime, controller
<1> QED BY <1>1, <1>2, <1>3, <1>4, <1>5, <1>6, <1>7, Steps

LEMMA TracksStep ==
    TypeOK /\ Eras /\ Young /\ SyncsCarryTime /\ SyncedTimeTracks /\ [Next]_vars
        => SyncedTimeTracks'
<1> SUFFICES ASSUME TypeOK, Eras, Young, SyncsCarryTime, SyncedTimeTracks,
                    [Next]_vars
             PROVE  SyncedTimeTracks'
    OBVIOUS
<1> USE DEF ctime, synced, uptime
<1>1. ASSUME NEW S \in SUBSET Nodes, NEW t \in Nat, NEW e \in {era, Nobody},
             SendSync(S, t, e)
      PROVE  SyncedTimeTracks'
  BY <1>1 DEF SendSync, SyncedTimeTracks, controller, clocks
<1>2. ASSUME NEW S \in SUBSET Nodes, NEW start \in Nat, NEW scheduled \in BOOLEAN,
             SendScene(S, start, scheduled)
      PROVE  SyncedTimeTracks'
  BY <1>2 DEF SendScene, SyncedTimeTracks, clocks
<1>3. ASSUME NEW m \in syncs, HearSync(m)
      PROVE  SyncedTimeTracks'
  <2>1. /\ m.to \in Nodes /\ m.time \in Nat /\ m.sent \in Int
        /\ MaxDelay \in Nat /\ now \in Nat /\ cboot \in Int
        /\ nboot[m.to] \in Int
    BY NumbersAssumption DEF TypeOK, Syncs
  <2>2. UNCHANGED <<now, cboot, era, nboot>>
    BY <1>3 DEF HearSync, controller
  <2>3. ASSUME NEW n \in Nodes
        PROVE  /\ heard'[n] # Nobody => ctime' <= synced(n)' + MaxDelay
               /\ heard'[n] = era' => synced(n)' <= ctime'
    <3>1. CASE n = m.to
      <4>1. heard'[n] = m.era /\ offset'[n] = m.time - (now - nboot[n])
        BY <1>3, <2>1, <2>2, <3>1 DEF HearSync, TypeOK
      <4>2. /\ m.era = era => m.time = m.sent - cboot
            /\ m.era # Nobody => m.sent - cboot <= m.time
            /\ m.sent <= now /\ now <= m.sent + MaxDelay
        BY DEF SyncsCarryTime, Young
      <4>3. synced(n)' = m.time
        BY <2>1, <2>2, <3>1, <4>1
      <4> QED BY <2>1, <2>2, <4>1, <4>2, <4>3
    <3>2. CASE n # m.to
      <4>1. heard'[n] = heard[n] /\ offset'[n] = offset[n]
        BY <1>3, <2>1, <3>2 DEF HearSync, TypeOK
      <4> QED BY <2>2, <4>1 DEF SyncedTimeTracks
    <3> QED BY <3>1, <3>2
  <2> QED BY <2>3 DEF SyncedTimeTracks
<1>4. ASSUME NEW m \in scenes, HearScene(m)
      PROVE  SyncedTimeTracks'
  BY <1>4 DEF HearScene, SyncedTimeTracks, controller, clocks
<1>5. ASSUME NEW n \in Nodes, Flip(n)
      PROVE  SyncedTimeTracks'
  BY <1>5 DEF Flip, SyncedTimeTracks, controller, clocks
<1>6. ASSUME NEW n \in Nodes, NodeRestart(n)
      PROVE  SyncedTimeTracks'
  <2>1. heard'[n] # era' /\ heard'[n] = Nobody
    BY <1>6 DEF NodeRestart, TypeOK, Eras, Nobody, controller
  <2>2. ASSUME NEW k \in Nodes, k # n
        PROVE  /\ heard'[k] = heard[k] /\ offset'[k] = offset[k]
               /\ nboot'[k] = nboot[k]
    BY <1>6, <2>2 DEF NodeRestart, TypeOK
  <2> QED BY <1>6, <2>1, <2>2 DEF NodeRestart, SyncedTimeTracks, controller
<1>7. CASE ControllerRestart
  <2>1. \A n \in Nodes : heard[n] # era + 1
    BY DEF TypeOK, Eras
  <2>2. ctime' = 0 /\ 0 <= ctime /\ ctime \in Int /\ MaxDelay \in Nat
    BY <1>7, NumbersAssumption DEF ControllerRestart, TypeOK, Eras
  <2>3. \A n \in Nodes : synced(n)' = synced(n) /\ synced(n) \in Int
    BY <1>7 DEF ControllerRestart, TypeOK, clocks
  <2>4. UNCHANGED heard /\ era' = era + 1
    BY <1>7 DEF ControllerRestart, clocks
  <2> HIDE DEF ctime, synced
  <2> QED BY <2>1, <2>2, <2>3, <2>4 DEF SyncedTimeTracks
<1>8. CASE Tick
  <2>1. \A n \in Nodes : synced(n)' = synced(n) + 1
    BY <1>8 DEF Tick, TypeOK, clocks
  <2>2. ctime' = ctime + 1
    BY <1>8 DEF Tick, TypeOK, controller
  <2>3. \A n \in Nodes : synced(n) \in Int
    BY DEF TypeOK
  <2>4. MaxDelay \in Nat /\ ctime \in Int
    BY NumbersAssumption DEF TypeOK
  <2>5. heard' = heard /\ era' = era
    BY <1>8 DEF Tick, clocks, controller
  <2> HIDE DEF ctime, synced
  <2> QED BY <2>1, <2>2, <2>3, <2>4, <2>5 DEF SyncedTimeTracks
<1>9. CASE UNCHANGED vars
  BY <1>9 DEF vars, SyncedTimeTracks, controller, clocks
<1> HIDE DEF ctime, synced, uptime
<1> QED BY <1>1, <1>2, <1>3, <1>4, <1>5, <1>6, <1>7, <1>8, <1>9, Steps

LEMMA ClocksInit == Init => Clocks
<1> SUFFICES ASSUME Init PROVE Clocks
    OBVIOUS
<1>1. \A n \in Nodes : heard[n] = 0 /\ pending[n] = None
  BY DEF Init, Nobody
<1> QED BY <1>1 DEF Init, Nobody, Clocks, Eras, Young, SyncsCarryTime, SyncedTimeTracks

LEMMA ClocksStep == TypeOK /\ Clocks /\ [Next]_vars => TypeOK' /\ Clocks'
BY TypeStep, ErasStep, YoungStep, SyncsCarryTimeStep, TracksStep DEF Clocks

\* Every variable of the controller, the nodes and the network keeps its type.
THEOREM TypeCorrect == Spec => []TypeOK
<1>1. TypeOK /\ Clocks /\ [Next]_vars => (TypeOK /\ Clocks)'
  BY ClocksStep
<1> QED BY TypeInit, ClocksInit, <1>1, PTL DEF Spec

\* A node that follows the clock of the running controller is never ahead of
\* it, and behind it by no more than the longest latency (led_orchestra_sync_clock
\* and render_task), whenever devices boot and however syncs are reordered.
THEOREM NodesTrackTheController == Spec => []SyncedTimeTracks
<1>1. TypeOK /\ Clocks /\ [Next]_vars => (TypeOK /\ Clocks)'
  BY ClocksStep
<1>2. Clocks => SyncedTimeTracks
  BY DEF Clocks
<1> QED BY TypeInit, ClocksInit, <1>1, <1>2, PTL DEF Spec

-----------------------------------------------------------------------------
(* Scheduled scenes *)

Punctual == ScenesAhead /\ InTime /\ FlippedOnTime

LEMMA ScenesAheadStep ==
    TypeOK /\ Eras /\ ScenesAhead /\ [Next]_vars => ScenesAhead'
<1> SUFFICES ASSUME TypeOK, Eras, ScenesAhead, [Next]_vars PROVE ScenesAhead'
    OBVIOUS
<1>1. ASSUME NEW S \in SUBSET Nodes, NEW t \in Nat, NEW e \in {era, Nobody},
             SendSync(S, t, e)
      PROVE  ScenesAhead'
  BY <1>1 DEF SendSync, ScenesAhead, controller
<1>2. ASSUME NEW S \in SUBSET Nodes, NEW start \in Nat, NEW scheduled \in BOOLEAN,
             scheduled => ctime <= start, SendScene(S, start, scheduled)
      PROVE  ScenesAhead'
  <2>1. cboot' = cboot /\ era' = era
    BY <1>2 DEF SendScene
  <2>2. ASSUME NEW m \in scenes', m.scene.scheduled, m.scene.era = era
        PROVE  m.sent - cboot <= m.scene.start
    <3>1. CASE m \in scenes
      BY <2>2, <3>1 DEF ScenesAhead
    <3>2. CASE m \notin scenes
      <4>1. /\ m.sent = now
            /\ m.scene = [era |-> era, seq |-> g_sequence, start |-> start,
                          scheduled |-> scheduled]
        BY <1>2, <3>2, ScenesSent
      <4>2. scheduled /\ m.scene.start = start
        BY <2>2, <4>1
      <4> QED BY <1>2, <4>1, <4>2 DEF ctime
    <3> QED BY <3>1, <3>2
  <2> QED BY <2>1, <2>2 DEF ScenesAhead
<1>3. ASSUME NEW m \in syncs, HearSync(m)
      PROVE  ScenesAhead'
  BY <1>3 DEF HearSync, ScenesAhead, controller
<1>4. ASSUME NEW m \in scenes, HearScene(m)
      PROVE  ScenesAhead'
  BY <1>4 DEF HearScene, ScenesAhead, controller
<1>5. ASSUME NEW n \in Nodes, Flip(n) \/ NodeRestart(n)
      PROVE  ScenesAhead'
  BY <1>5 DEF Flip, NodeRestart, ScenesAhead, controller
<1>6. CASE ControllerRestart
  <2>1. \A m \in scenes : m.scene.era # era + 1
    BY DEF TypeOK, Eras, Messages, Scenes
  <2> QED BY <1>6, <2>1 DEF ControllerRestart, ScenesAhead
<1>7. CASE Tick \/ UNCHANGED vars
  BY <1>7 DEF Tick, vars, ScenesAhead, controller
<1> QED BY <1>1, <1>2, <1>3, <1>4, <1>5, <1>6, <1>7, Steps

LEMMA InTimeStep ==
    TypeOK /\ Clocks /\ ScenesAhead /\ InTime /\ [Next]_vars => InTime'
<1> SUFFICES ASSUME TypeOK, Eras, Young, SyncedTimeTracks, ScenesAhead, InTime,
                    [Next]_vars
             PROVE  InTime'
    BY DEF Clocks
<1>1. ASSUME NEW S \in SUBSET Nodes, NEW t \in Nat, NEW e \in {era, Nobody},
             SendSync(S, t, e)
      PROVE  InTime'
  BY <1>1 DEF SendSync, InTime, controller, clocks, show, ctime
<1>2. ASSUME NEW S \in SUBSET Nodes, NEW start \in Nat, NEW scheduled \in BOOLEAN,
             SendScene(S, start, scheduled)
      PROVE  InTime'
  BY <1>2 DEF SendScene, InTime, clocks, show, ctime
<1>3. ASSUME NEW m \in syncs, HearSync(m)
      PROVE  InTime'
  <2>1. m.to \in Nodes
    BY DEF TypeOK, Syncs
  <2>2. UNCHANGED <<now, cboot, era>>
    BY <1>3 DEF HearSync, controller
  <2>3. ASSUME NEW n \in Nodes, pending'[n] # None, pending'[n].sure
        PROVE  /\ pending[n] # None /\ pending[n].sure
               /\ pending'[n].scene = pending[n].scene
               /\ heard'[n] # Nobody
    <3>1. CASE n = m.to
      <4>1. pending'[n] = Follow(pending[n], m.era) /\ heard'[n] = m.era
        BY <1>3, <2>1, <3>1 DEF HearSync, TypeOK
      <4>2. pending[n] \in Waiting \cup {None}
        BY DEF TypeOK
      <4> QED BY <2>3, <4>1, <4>2, FollowGives
    <3>2. CASE n # m.to
      BY <1>3, <2>1, <2>3, <3>2 DEF HearSync, TypeOK, InTime
    <3> QED BY <3>1, <3>2
  <2> QED BY <2>2, <2>3 DEF InTime, ctime
<1>4. ASSUME NEW m \in scenes, HearScene(m)
      PROVE  InTime'
  <2>1. /\ m.to \in Nodes /\ m.scene \in Scenes /\ m.sent \in Int
        /\ m.scene.start \in Nat
    BY DEF TypeOK, Messages, Scenes
  <2>2. UNCHANGED <<now, cboot, era, heard>>
    BY <1>4 DEF HearScene, controller, clocks
  <2>3. ASSUME NEW n \in Nodes, pending'[n] # None, pending'[n].sure
        PROVE  /\ heard[n] # Nobody
               /\ pending'[n].scene.era = era
                    => ctime <= pending'[n].scene.start + MaxDelay
    <3>1. CASE pending'[n] = pending[n]
      BY <2>3, <3>1 DEF InTime
    <3>2. CASE pending'[n] # pending[n]
      <4>1. pending'[n] = [scene |-> m.scene,
                           sure |-> m.scene.scheduled /\ heard[n] # Nobody]
        BY <1>4, <2>1, <2>3, <3>2 DEF HearScene, TypeOK
      <4> DEFINE inStep == m.scene.scheduled /\ heard[n] # Nobody
      <4>2a. pending'[n].scene = m.scene /\ pending'[n].sure = inStep
        BY <4>1
      <4>2. /\ pending'[n].scene = m.scene
            /\ m.scene.scheduled /\ heard[n] # Nobody
        BY <2>3, <4>2a
      <4>3. ASSUME m.scene.era = era
            PROVE  ctime <= m.scene.start + MaxDelay
        <5>1. m.sent - cboot <= m.scene.start /\ now <= m.sent + MaxDelay
          BY <4>2, <4>3 DEF ScenesAhead, Young
        <5> QED BY <2>1, <5>1, NumbersAssumption DEF ctime, TypeOK
      <4> QED BY <4>2, <4>3
    <3> QED BY <3>1, <3>2
  <2> QED BY <2>2, <2>3 DEF InTime, ctime
<1>5. ASSUME NEW n \in Nodes, Flip(n) \/ NodeRestart(n)
      PROVE  InTime'
  <2>1. UNCHANGED <<now, cboot, era>> /\ pending'[n] = None
    BY <1>5 DEF Flip, NodeRestart, controller, TypeOK
  <2>2. ASSUME NEW k \in Nodes, k # n
        PROVE  pending'[k] = pending[k] /\ heard'[k] = heard[k]
    BY <1>5, <2>2 DEF Flip, NodeRestart, clocks, TypeOK
  <2> QED BY <2>1, <2>2 DEF InTime, ctime
<1>6. CASE ControllerRestart
  <2>1. \A n \in Nodes : pending[n] # None => pending[n].scene.era # era + 1
    BY DEF TypeOK, Eras, Waiting, Scenes
  <2> QED BY <1>6, <2>1 DEF ControllerRestart, InTime, clocks, show
<1>7. CASE Tick
  <2>1. UNCHANGED <<cboot, era, heard, pending>> /\ now' = now + 1
    BY <1>7 DEF Tick, controller, clocks, show
  <2>2. ASSUME NEW n \in Nodes, pending[n] # None, pending[n].sure,
               pending[n].scene.era = era
        PROVE  ctime' <= pending[n].scene.start + MaxDelay
    <3>1. heard[n] # Nobody
      BY <2>2 DEF InTime
    <3>2. ctime <= synced(n) + MaxDelay
      BY <3>1 DEF SyncedTimeTracks
    <3>3. ~(synced(n) >= pending[n].scene.start)
      BY <1>7, <2>2 DEF Tick, Due
    <3>4. pending[n].scene.start \in Nat
      BY <2>2 DEF TypeOK, Waiting, Scenes
    <3>5. synced(n) \in Int /\ ctime \in Int /\ MaxDelay \in Nat
      BY NumbersAssumption DEF TypeOK, synced, uptime, ctime
    <3>6. ctime' = ctime + 1
      BY <2>1 DEF ctime, TypeOK
    <3> QED BY <3>2, <3>3, <3>4, <3>5, <3>6
  <2> QED BY <2>1, <2>2 DEF InTime
<1>8. CASE UNCHANGED vars
  BY <1>8 DEF vars, InTime, controller, clocks, show, ctime
<1> QED BY <1>1, <1>2, <1>3, <1>4, <1>5, <1>6, <1>7, <1>8, Steps

\* A promotion by the sender's clock is not early, and one by any controller's
\* clock is at most MaxDelay late.
LEMMA FlipTimes ==
    ASSUME TypeOK, SyncedTimeTracks, InTime, NEW n \in Nodes, Due(n),
           pending[n].scene.era = era
    PROVE  /\ heard[n] = era => pending[n].scene.start <= ctime
           /\ pending[n].sure => ctime <= pending[n].scene.start + MaxDelay
<1>1. pending[n] # None /\ pending[n].scene.start <= synced(n)
  BY DEF Due
<1>2. pending[n].scene.start \in Nat /\ synced(n) \in Int /\ ctime \in Int
  BY <1>1 DEF TypeOK, Waiting, Scenes, synced, uptime, ctime
<1>3. heard[n] = era => synced(n) <= ctime
  BY DEF SyncedTimeTracks
<1> QED BY <1>1, <1>2, <1>3 DEF InTime

LEMMA FlippedStep ==
    TypeOK /\ Clocks /\ InTime /\ FlippedOnTime /\ [Next]_vars => FlippedOnTime'
<1> SUFFICES ASSUME TypeOK, Eras, SyncedTimeTracks, InTime, FlippedOnTime,
                    [Next]_vars
             PROVE  FlippedOnTime'
    BY DEF Clocks
<1>1. CASE UNCHANGED flipped
  BY <1>1 DEF FlippedOnTime
<1>2. ASSUME NEW n \in Nodes, Flip(n)
      PROVE  FlippedOnTime'
  <2>1. \/ flipped'[n] = None
        \/ /\ flipped'[n] = [scene |-> pending[n].scene, at |-> ctime]
           /\ pending[n].sure /\ pending[n].scene.era = era /\ heard[n] = era
    BY <1>2 DEF Flip, TypeOK
  <2>2. flipped'[n] # None => /\ flipped'[n].scene.start <= flipped'[n].at
                              /\ flipped'[n].at <= flipped'[n].scene.start + MaxDelay
    BY <1>2, <2>1, FlipTimes DEF Flip
  <2>3. \A k \in Nodes : k # n => flipped'[k] = flipped[k]
    BY <1>2 DEF Flip, TypeOK
  <2> QED BY <2>2, <2>3 DEF FlippedOnTime
<1>3. UNCHANGED flipped \/ \E n \in Nodes : Flip(n)
  BY Steps DEF SendSync, SendScene, HearSync, HearScene, NodeRestart,
               ControllerRestart, Tick, show, vars
<1> QED BY <1>1, <1>2, <1>3

LEMMA PunctualInit == Init => Punctual
<1> SUFFICES ASSUME Init PROVE Punctual
    OBVIOUS
<1>1. \A n \in Nodes : flipped[n] = None /\ pending[n] = None
  BY DEF Init
<1> QED BY <1>1 DEF Init, Punctual, ScenesAhead, InTime, FlippedOnTime

LEMMA PunctualStep ==
    TypeOK /\ Clocks /\ Punctual /\ [Next]_vars => (TypeOK /\ Clocks /\ Punctual)'
BY ClocksStep, ScenesAheadStep, InTimeStep, FlippedStep DEF Punctual, Clocks

\* Two flips within MaxDelay after one start are within MaxDelay of each other.
LEMMA OnTimeIsTogether == TypeOK /\ FlippedOnTime => FlipTogether
<1> SUFFICES ASSUME TypeOK, FlippedOnTime, NEW m \in Nodes, NEW n \in Nodes,
                    flipped[m] # None, flipped[n] # None,
                    flipped[m].scene = flipped[n].scene
             PROVE  flipped[m].at - flipped[n].at <= MaxDelay
    BY DEF FlipTogether
<1>1. /\ flipped[m].at \in Int /\ flipped[n].at \in Int
      /\ flipped[m].scene.start \in Nat
  BY DEF TypeOK, Flipped, Scenes
<1> QED BY <1>1, NumbersAssumption DEF FlippedOnTime

\* All nodes in step with the controller flip to one scheduled scene within the
\* longest latency of each other (scheduled_scene_group_handler, render_task).
THEOREM SegmentsFlipTogether == Spec => []FlipTogether
<1>1. TypeOK /\ Clocks /\ Punctual => FlipTogether
  BY OnTimeIsTogether DEF Punctual
<1> QED BY TypeInit, ClocksInit, PunctualInit, PunctualStep, <1>1, PTL DEF Spec

\* The steps that can touch a waiting scene.
LEMMA PendingSteps ==
    ASSUME TypeOK, Eras, [Next]_vars
    PROVE  \/ UNCHANGED pending
           \/ \E m \in syncs : HearSync(m)
           \/ \E m \in scenes : HearScene(m)
           \/ \E n \in Nodes : Flip(n)
           \/ \E n \in Nodes : NodeRestart(n)
<1>1. CASE UNCHANGED vars
  BY <1>1 DEF vars, show
<1>2. CASE Next
  <2>1. ASSUME NEW S, NEW t, NEW e, SendSync(S, t, e) PROVE UNCHANGED pending
    BY <2>1 DEF SendSync, show
  <2>2. ASSUME NEW S, NEW start, NEW scheduled, SendScene(S, start, scheduled)
        PROVE  UNCHANGED pending
    BY <2>2 DEF SendScene, show
  <2>3. ControllerRestart \/ Tick => UNCHANGED pending
    BY DEF ControllerRestart, Tick, show
  <2> QED BY <1>2, <2>1, <2>2, <2>3, Steps
<1> QED BY <1>1, <1>2

LEMMA OnlyScheduledWaitsStep ==
    TypeOK /\ Eras /\ OnlyScheduledWaits /\ [Next]_vars => OnlyScheduledWaits'
<1> SUFFICES ASSUME TypeOK, Eras, OnlyScheduledWaits, [Next]_vars
             PROVE  OnlyScheduledWaits'
    OBVIOUS
<1>1. CASE UNCHANGED pending
  BY <1>1 DEF OnlyScheduledWaits
<1>2. ASSUME NEW m \in syncs, HearSync(m)
      PROVE  OnlyScheduledWaits'
  <2>1. m.to \in Nodes
    BY DEF TypeOK, Syncs
  <2>2. \A n \in Nodes : pending'[n] # None => /\ pending[n] # None
                                             /\ pending'[n].scene = pending[n].scene
    BY <1>2, <2>1, FollowGives DEF HearSync, TypeOK
  <2> QED BY <2>2 DEF OnlyScheduledWaits
<1>3. ASSUME NEW m \in scenes, HearScene(m)
      PROVE  OnlyScheduledWaits'
  <2>1. m.to \in Nodes
    BY DEF TypeOK, Messages
  <2>2. \A n \in Nodes : pending'[n] # None =>
            \/ pending'[n] = pending[n]
            \/ pending'[n].scene = m.scene /\ m.scene.start # 0
    BY <1>3, <2>1 DEF HearScene, TypeOK
  <2> QED BY <2>2 DEF OnlyScheduledWaits
<1>4. ASSUME NEW n \in Nodes, Flip(n) \/ NodeRestart(n)
      PROVE  OnlyScheduledWaits'
  BY <1>4 DEF Flip, NodeRestart, OnlyScheduledWaits, TypeOK
<1> QED BY <1>1, <1>2, <1>3, <1>4, PendingSteps

\* A waiting scene becomes active only in a pass of the render task that found
\* it due: a command that replaces a waiting scene brings another one.
LEMMA FlipsIsDue ==
    ASSUME TypeOK, Eras, OnlyScheduledWaits, [Next]_vars, NEW n \in Nodes, Flips(n)
    PROVE  Due(n)
<1>1. pending[n] # None /\ pending'[n] = None /\ shows'[n] = pending[n].scene
      /\ restarts' = restarts
  BY DEF Flips
<1>2. ASSUME NEW m \in syncs, HearSync(m)
      PROVE  FALSE
  <2>1. m.to \in Nodes
    BY DEF TypeOK, Syncs
  <2>2. pending'[n] = pending[n] \/ pending'[n] = Follow(pending[n], m.era)
    BY <1>2, <2>1 DEF HearSync, TypeOK
  <2> QED BY <1>1, <2>2, FollowGives DEF TypeOK
<1>3. ASSUME NEW m \in scenes, HearScene(m)
      PROVE  FALSE
  <2>1. m.to \in Nodes /\ m.scene \in Scenes /\ m.scene.scheduled \in BOOLEAN
    BY DEF TypeOK, Messages, Scenes
  <2>2. [scene |-> m.scene, sure |-> m.scene.scheduled /\ heard[m.to] # Nobody]
            \in Waiting
    BY <2>1 DEF Waiting
  <2>3. n = m.to /\ m.scene.start = 0 /\ shows'[n] = m.scene
    BY <1>1, <1>3, <2>1, <2>2, NoneAssumption DEF HearScene, TypeOK
  <2>4. pending[n].scene.start # 0
    BY <1>1 DEF OnlyScheduledWaits
  <2> QED BY <1>1, <2>3, <2>4
<1>4. ASSUME NEW k \in Nodes, Flip(k)
      PROVE  Due(n)
  BY <1>1, <1>4 DEF Flip, TypeOK
<1>5. ASSUME NEW k \in Nodes, NodeRestart(k)
      PROVE  FALSE
  BY <1>1, <1>5 DEF NodeRestart, TypeOK
<1> QED BY <1>1, <1>2, <1>3, <1>4, <1>5, PendingSteps

\* A node in step with the sender of a scheduled scene flips no earlier than the
\* scene's start, and a node on any controller's clock no later than the longest
\* latency after it.
THEOREM ScenesFlipOnTime == Spec => FlipsOnTime
<1> DEFINE Inv == TypeOK /\ Clocks /\ Punctual /\ OnlyScheduledWaits
<1>1. Init => Inv
  <2>1. Init => OnlyScheduledWaits
    BY DEF Init, OnlyScheduledWaits
  <2> QED BY <2>1, TypeInit, ClocksInit, PunctualInit
<1>2. Inv /\ [Next]_vars => Inv'
  BY PunctualStep, OnlyScheduledWaitsStep DEF Clocks
<1>3. Inv /\ [Next]_vars =>
        [\A n \in Nodes : Flips(n) /\ pending[n].scene.era = era =>
            /\ heard[n] = era => pending[n].scene.start <= ctime
            /\ pending[n].sure => ctime <= pending[n].scene.start + MaxDelay]_vars
  BY FlipsIsDue, FlipTimes DEF Clocks, Punctual
<1> QED BY <1>1, <1>2, <1>3, PTL DEF Spec, FlipsOnTime

-----------------------------------------------------------------------------
(* The newest scene *)

Newest == OnlyNewest /\ NewestSceneWins

LEMMA NewestStep == TypeOK /\ Eras /\ Newest /\ [Next]_vars => Newest'
<1> SUFFICES ASSUME TypeOK, Eras, OnlyNewest, NewestSceneWins, [Next]_vars
             PROVE  OnlyNewest' /\ NewestSceneWins'
    BY DEF Newest
<1> USE DEF OnlyNewest
<1>1. ASSUME NEW S \in SUBSET Nodes, NEW t \in Nat, NEW e \in {era, Nobody},
             SendSync(S, t, e)
      PROVE  OnlyNewest' /\ NewestSceneWins'
  BY <1>1 DEF SendSync, NewestSceneWins, Outlook, newest, show
<1>2. ASSUME NEW S \in SUBSET Nodes, NEW start \in Nat, NEW scheduled \in BOOLEAN,
             SendScene(S, start, scheduled)
      PROVE  OnlyNewest' /\ NewestSceneWins'
  <2> DEFINE s == [era |-> era, seq |-> g_sequence, start |-> start,
                   scheduled |-> scheduled]
  <2>1. reached' = {} /\ overtaken' = {} /\ latest' = s /\ alone' = (scenes = {})
    BY <1>2 DEF SendScene
  <2>2. \A m \in scenes' : m \in scenes \/ m.scene = s
    BY <1>2 DEF SendScene
  <2> HIDE DEF s
  <2>3. OnlyNewest'
    BY <2>1, <2>2
  <2> QED BY <2>1, <2>3 DEF NewestSceneWins
<1>3. ASSUME NEW m \in syncs, HearSync(m)
      PROVE  OnlyNewest' /\ NewestSceneWins'
  <2>1. m.to \in Nodes
    BY DEF TypeOK, Syncs
  <2>2. shows' = shows
    BY <1>3 DEF HearSync
  <2>3. ASSUME NEW n \in Nodes
        PROVE  Outlook(n)' = Outlook(n)
    <3>1. pending'[n] = pending[n] \/ pending'[n] = Follow(pending[n], m.era)
      BY <1>3, <2>1 DEF HearSync, TypeOK
    <3>2. pending[n] \in Waiting \cup {None}
      BY DEF TypeOK
    <3>3. /\ pending'[n] = None <=> pending[n] = None
          /\ pending[n] # None => pending'[n].scene = pending[n].scene
      BY <3>1, <3>2, FollowGives
    <3> QED BY <2>2, <3>3 DEF Outlook
  <2>4. UNCHANGED <<scenes, latest, alone, reached, overtaken>>
    BY <1>3 DEF HearSync, newest
  <2> QED BY <2>3, <2>4 DEF NewestSceneWins, TypeOK
<1>4. ASSUME NEW m \in scenes, HearScene(m)
      PROVE  OnlyNewest' /\ NewestSceneWins'
  <2>1. m.to \in Nodes /\ m.scene \in Scenes /\ m.scene.scheduled \in BOOLEAN
    BY DEF TypeOK, Messages, Scenes
  <2>2. UNCHANGED <<latest, alone>> /\ scenes' = scenes \ {m}
    BY <1>4 DEF HearScene, Reach
  <2>3. [scene |-> m.scene, sure |-> m.scene.scheduled /\ heard[m.to] # Nobody]
            \in Waiting
    BY <2>1 DEF Waiting
  <2>4. Outlook(m.to)' = m.scene
    BY <1>4, <2>1, <2>3, NoneAssumption DEF HearScene, Outlook, TypeOK
  <2>5. \A n \in Nodes : n # m.to => Outlook(n)' = Outlook(n)
    BY <1>4, <2>1 DEF HearScene, Outlook, TypeOK
  <2>6. \A n \in reached' : IF n = m.to THEN m.scene = latest ELSE n \in reached
    BY <1>4 DEF HearScene, Reach
  <2>7. \A n \in reached' : Outlook(n)' = latest'
    BY <2>2, <2>4, <2>5, <2>6 DEF NewestSceneWins, TypeOK
  <2>8. alone => overtaken' = overtaken
    BY <1>4 DEF HearScene, Reach
  <2> QED BY <2>2, <2>7, <2>8 DEF NewestSceneWins
<1>5. ASSUME NEW n \in Nodes, Flip(n)
      PROVE  OnlyNewest' /\ NewestSceneWins'
  <2>1. pending[n] # None /\ pending'[n] = None /\ shows'[n] = pending[n].scene
    BY <1>5 DEF Flip, Due, TypeOK
  <2>2. \A k \in Nodes : k # n => pending'[k] = pending[k] /\ shows'[k] = shows[k]
    BY <1>5 DEF Flip, TypeOK
  <2>3. \A k \in Nodes : Outlook(k)' = Outlook(k)
    BY <2>1, <2>2 DEF Outlook
  <2>4. UNCHANGED <<scenes, latest, alone, reached, overtaken>>
    BY <1>5 DEF Flip, newest
  <2> QED BY <2>3, <2>4 DEF NewestSceneWins, TypeOK
<1>6. ASSUME NEW n \in Nodes, NodeRestart(n)
      PROVE  OnlyNewest' /\ NewestSceneWins'
  <2>1. \A k \in Nodes : k # n => Outlook(k)' = Outlook(k)
    BY <1>6 DEF NodeRestart, Outlook, TypeOK
  <2>2. /\ reached' = reached \ {n} /\ overtaken' = overtaken \ {n}
        /\ UNCHANGED <<scenes, latest, alone>>
    BY <1>6 DEF NodeRestart
  <2> QED BY <2>1, <2>2 DEF NewestSceneWins, TypeOK
<1>7. CASE ControllerRestart
  BY <1>7 DEF ControllerRestart, NewestSceneWins, Outlook, newest, show
<1>8. CASE Tick \/ UNCHANGED vars
  BY <1>8 DEF Tick, vars, NewestSceneWins, Outlook, newest, show
<1> HIDE DEF OnlyNewest
<1> QED BY <1>1, <1>2, <1>3, <1>4, <1>5, <1>6, <1>7, <1>8, Steps

\* Whichever nodes heard the newest scene agree on it, except those that heard an
\* older one after it, since a node takes scenes in the order they arrive
\* (handle_set_scene); and there are none of these if no older scene was under
\* way when it was sent.
THEOREM NodesAgreeOnTheNewest == Spec => []NewestSceneWins
<1> DEFINE Inv == TypeOK /\ Clocks /\ Newest
<1>1. Init => Inv
  <2>1. Init => Newest
    BY DEF Init, Newest, OnlyNewest, NewestSceneWins
  <2> QED BY <2>1, TypeInit, ClocksInit
<1>2. Inv /\ [Next]_vars => Inv'
  BY ClocksStep, NewestStep DEF Clocks
<1>3. Inv => NewestSceneWins
  BY DEF Newest
<1> QED BY <1>1, <1>2, <1>3, PTL DEF Spec

=============================================================================
