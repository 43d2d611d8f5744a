# Verification of LED Orchestra

TLA+ models of the LED Orchestra firmware (`matter-prototype/`): one controller on
an ESP32-S3 drives many LED nodes over Matter and Thread. The nodes share a virtual
strip; the controller sends scenes, clock synchronisation, layouts and calibrations,
and serves firmware images. The models cover the parts where threads, power failures,
lost messages and old flash contents meet; TLC checks them on small instances and
TLAPS proves the main results for every instance.

Paths below are relative to `matter-prototype/`.

## The system

| Part | State | Operations | What makes it correct |
| --- | --- | --- | --- |
| Renderer, scene pipeline (`led-node/main/led_orchestra_renderer.cpp`) | active scene, one pending scene, clock offset, the render task's last frame | SetScene, SyncClock, one pass of the render task | the newest accepted command decides the show; a scheduled scene is activated at its own time, never earlier, and never left behind; the strip follows the active scene |
| Renderer, settings (same file) | segment layout, calibration, output policy | SetNodeConfig, SetCalibration | frames use policy and calibration of one command; no knob is lost |
| Cluster (`led_orchestra_cluster.cpp`) | Matter attributes | decode, apply, report | a field left out keeps its value; what is read back settles on what is active |
| Config store (`led_orchestra_config_store.cpp`) | three NVS records | load, save | what was accepted can be loaded by the same build; a record of another build does no harm |
| Effect and palette registry (`led_orchestra_effects.cpp`) | constant tables, one Fibonacci table | look-up, seventeen per-pixel effects, the colour arithmetic of `led_color.h` | unknown ids are refused; the nodes together show one picture, never brighter than asked for |
| Node start-up (`led-node/main/app_main.cpp`) | boot state of the OTA slot | NVS init or erase, health gate | a new image is confirmed or rolled back, whatever Thread does |
| OTA provider (`controller-node/components/lo_ota_provider/src/esp_matter_ota_provider.cpp`) | requestor entries (grant, token, image), one held command, `mPeerNodeId` | QueryImage, ApplyUpdateRequest, NotifyUpdateApplied, enable, disable | every query is answered; a node is only offered an upgrade of its own product; an update under way is not disturbed |
| Candidate cache (`esp_matter_ota_candidates.cpp`) | one candidate per product, a queue, a task | register, search | one fetch at a time |
| BDX sender (`esp_matter_ota_bdx_sender.cpp`) | owner, session, image URL, bytes sent | initialise, accept, stream, abort, reset | a transfer is not taken over; it streams what was offered |
| HTTP downloader (`esp_matter_ota_http_downloader.cpp`) | one client | start, read, abort | blocks are the bytes of the image |
| Controller console (`controller-node/main/led_orchestra_console.cpp`) | `g_sequence`, the controller's uptime | unicast and group commands | all nodes flip together |
| OTA console (`led_orchestra_ota_provider.cpp`) | staged candidate, ACL entries | set-image, enable, disable, grant-access | a granted node does reach the provider |
| Wi-Fi ingress, start-up code, bench firmware, scripts | | | not modelled |

How the parts interact. On a node the Matter thread runs one command handler at a
time; it reads the renderer's globals, applies the new value under the spin lock
`g_lock`, saves it in NVS outside the lock and writes attributes last. The render task
copies the globals under the same lock and works on the copies, and takes the lock once
more to promote a scheduled scene. On the controller the Matter thread runs the OTA
handlers, the BDX events and the console commands under the stack lock (the shell hands
its lines to that thread); the candidate task looks images up under its own mutex,
writes the requestor entry without any lock, and takes the stack lock to answer.

What is hard: a SetScene between the render task's snapshot and its promotion; the
window between applying and saving; saves that fail; NVS erased, unreadable or written
by another build; an offset that makes time negative; static frames that are held;
queries that arrive while another one is looked up; responses and notifications that are
lost; transfers that fail half-way; a controller that restarts and forgets.
`PROJECT.json` lists each hazard with its line and the properties aimed at it.

## Modules

### LedScene, ScenePromise

`LedScene` is the scene pipeline of one node. Each critical section is one action, and so
is everything between two of them: `DecodeSetScene`, then `RejectUnknownEffect`,
`ApplyNow` or `StagePending`, then `SaveScene` (immediate scenes only) and
`UpdateAttributes` for `handle_set_scene`; `Snapshot`, `Decide`, `Promote`, `Draw` for a pass
of `render_task`. `SyncClock` is a single assignment under the lock. `Reboot` is a power loss
in any state followed by `app_main`, `led_orchestra_renderer_start` and
`led_orchestra_cluster_create`; NVS may be fine, unreadable or erased, and another build may boot.
Red, green, blue, speed and brightness are one field; a payload is the set of its tags and
their values; times are small numbers. Five history variables serve the properties:
`used` (sequence numbers of commands), `accepted` (the scene accepted last), `resume`
(whether a power-up would restore the active scene), `asked` (the tags of the command being handled and the scene that
waited when it was read) and `synced` (a SyncClock came after the pass of the render task copied the offset).

`ScenePromise` is what a node promises: one active scene, at most one waiting, and a stored one
that was active. `LedScene!KeepsPromise` maps `g_scene`, the pending scene and the NVS record to it.

Properties: `LastAcceptedWins`; `NoEarlyFlip` (a scene flips at its own start, never one it replaced, and a
clock set back counts from the next pass on, although a pass uses the offset it copied); `InheritsActiveScene` (a field a command leaves out has the
value of the active scene; `handle_set_scene` reads that scene first and applies it last, and only a flip of the scene waiting then can
make it a stale base); `ReadBackSettles` (the attributes are written when a command is accepted and never by a promotion, and
still name the active effect once nothing waits); `SyncedTimeNeverWraps`, `ResumesShownScene`, `KeepsPromise`, and, with a fair
render task, `DueSceneFlips` and `StripCatchesUp`. `OnlyKnownEffects` is what the header of the config store says, and
does not hold (`scene_rollback`).

### LedSettings

Layout and calibration of one node: partial commands over the current value, checks, apply,
save, report, the coherent snapshot, and boots into a build with another pin and palette set.
`wanted` holds, knob by knob, what was accepted last; `unsaved` names the settings whose save failed.
Properties: `FrameIsCoherent`, `NoKnobLost`, `SettingsSurvive`, `PinIsOurs`, and with
fairness `StripShowsSettings` (a new layout, offset, cap or palette reaches a static strip). `AttributesMirror` is proved only.

### LedColor, LedEffects, LedStrip

What the strip shows. `LedColor` is the 8-bit arithmetic of `led_color.h` (the default backend) and `LedEffects` every effect of
`led_orchestra_effects.cpp` as a function of the scene, the layout, the global LED index, the effect clock and the palette; both
hold operators only. Bytes wrap exactly where the code casts. `hash8` and the palettes are constants: the properties may not
depend on them.

`LedStrip` runs them. All nodes have flipped to one scene (that they do is `Orchestra`), and every node has its own render loop: a
`Pass` takes scene and calibration, compares them with those of its last frame, draws if it must and sleeps for a frame, or for a
poll if the scene is static. A pass may be late, a node's synced clock lags by a fixed amount, and
a command may change the scene or the calibration of one node at any time. `drawn` remembers what a frame was drawn from, so a
property can relate the LEDs of two nodes whose frames are of different moments.

Properties: `NeverBrighter` (no channel passes the scene's brightness or the node's cap, in any phase of any effect, which is how
an overflow in a blend or an overlay would show), `StripIsAWindow` (a node shows its part of the one picture a single node with
all the LEDs would draw; local indices, segment lengths and clamping leave no trace), `CometIsWhole` (a comet crosses the
seam of two nodes in one piece although they draw at different moments) and `FibonacciConsecutive` (also where the table
of one period, or the strip, starts over).

### OtaProvider, OtaAccess

The provider, the candidate task and the BDX sender with the nodes that update from them. The
three steps `FetchLookup`, `FetchStore` and an `Answer...` action are the candidate task; every other
action is a whole handler under the stack lock. The node side (asked, offered, loading, loaded,
applying, new) is the SDK's requestor, modelled from the commands it sends; it may give up at any
time. An image is a product and a version.

A node that has installed an image runs it unconfirmed (`boot` is "waiting") with the previous version as `fallback`. `GateAttach` and
`GateExpire` are the two ways `ota_rollback_health_task` ends its loop, each with the rest of the function: confirm, roll back, or
end with neither when flash cannot be written ("left"). The SDK may confirm as well, and a reset of an unconfirmed image
makes the bootloader go back. The node may finish its update (`NotifyUpdateApplied`) before the gate has decided, and the provider
then counts the update as applied although the image is rolled back later: a one-time grant is used up by it.

`OtaAccess` holds the access control entries: the test `lo-ota-grant-access` makes before it adds one
(`ota_acl_entry_allows_node`), and the check the SDK applies to a command (`Reaches`). A query is only heard from a node that reaches the provider. The list survives
a restart of the controller, the grants of `lo-ota-enable` do not.
Properties: `OneFetchAtATime` (why a queue written with an infinite timeout under the stack lock cannot
fill, and why the unlocked write hits the right entry), `OffersAreUpgrades`, `OffersStand`,
`StreamsTheOffer`, `NoTakeover`, `GrantMeansAccess` (an entry the command is content with, written by whomever, does let the node
in, and repeating the command never fills the list), and with fairness `QueriesAnswered` and `GateDecides`.

What the SDK does after `AbortTransfer` is taken from how the code uses it: it sends a status
report, and no later event resets the sender.

### BdxImage

The transfer itself, for the one node that owns the sender: the loop of `_http_client_read` turn by turn
(`HttpRead`, `HttpFail`), the header check, block lengths, the count of units sent and the end mark
(`Answer`), and `Reset` with the ways into it. The n-th unit of a file is the number n and 0 is a unit
nobody wrote, so a block that holds the wrong bytes is seen. A file is its length on the server and the
size its header announces, 0 if it has no valid header. `ShortReads` lets a read give less than was asked for and
is there; `CutReads` lets the connection fail.
Properties: `ReceivesImage` (a prefix of the image, in order and without gaps), `CountsAgree` (over transfers that are
given up and started again), `OnlyLastIsShort`, `EndsWithImage`. The last one excludes connections that failed: what
was read before the failure is sent as a short block, which marks the end of the image, so a node is
told that a truncated image is complete.

### Orchestra

The controller and the nodes of one group, with the clocks. Each device counts time from its own boot
(`cboot`, `nboot`; `now` is the true time, which no device reads). The console commands are `SyncClock` and
`SyncClockTo` (the controller's uptime, or a time typed by the operator), `SetScene` and `ScheduledScene`; each is sent to a
set of nodes, one for a unicast and any of the group for a groupcast, since group commands are not
acknowledged. `HearSync` and `HearScene` are the handlers of a node, `Flip` is the pass of its render task that
promotes; `ControllerRestart` and `NodeRestart` put a device back to its start-up values. The node is
`LedScene` without its threads, without what a scene shows and without NVS (a scene loaded at boot is
`None`).

Assumptions, all visible in `Tick`: a command that is heard is heard within `MaxDelay`; clocks run at one
rate; a unit of time is at least one pass of the render task (100 ms at most), so every node has its pass before time goes on.
Messages overtake each other freely within `MaxDelay`, and one sent before a restart may arrive after it.
A command no node hears only uses up a sequence number and is left out. Times and starts typed by the operator are
included; nothing is promised about when they flip, but they must not spoil the rest. The run types only the time 0,
which as a start means none; the proofs hold for every set of them.

History: `era` counts the boots of the controller and `heard` names the era a node's clock
comes from; a waiting scene is `sure` if its node has followed some controller's clock ever since it
heard the scene; `flipped` remembers a flip of such a scene with the controller's time if the node followed the clock of its sender; `latest` is the newest
scene command, `alone` says that no older one was under way when it was sent, `reached` are the nodes that heard it
last and `overtaken` those that heard an older one after it.

Properties: `SyncedTimeTracks`, `FlipsOnTime`, `FlipTogether` and `NewestSceneWins`. The first three say what the design
is for: segments flip within one message delay of each other, although no message is acknowledged. After a controller restart a node
may still follow the old clock, which is ahead of the new one: it may flip early, but it is not left behind. Scenes that cross may divide
the nodes, since a node takes whatever arrives last; `NewestSceneWins` says that this is the only way to divide
them, that it takes an older scene still under way, and that the next scene heals it.

## Runs

| Run | Configuration | Question |
| --- | --- | --- |
| `scene_console` | 2 sequence numbers, times 0..2, uptime 0..1, 3 effects of which one is unknown, payloads with every tag or without effect and start, 1 power loss | everything about scenes with fresh sequence numbers, whole ones from the console and changes of a knob from other senders; liveness too |
| `led_strip` | 2 nodes of 12 LEDs at the two ends of a 900-LED ring, one of them using 10; every effect and an unlisted one, full brightness and two dimmed; 3 calibrations (as built, 30 ms behind, 10 ms ahead with a cap and a palette); 3 starting moments, 1 command, 32 ms | what two nodes draw, frame by frame, is one picture |
| `settings` | 2 builds with different pins, a palette one of them knows, 2 segments (and an invalid one), 2 time offsets, 2 brightness caps; 3 commands, 1 power loss | settings survive commands, failed saves and other builds, and a change reaches a static strip |
| `ota_two_nodes` | 2 nodes of different products, one enabled once and one for good, one with an access entry for something else; 2 versions, 2 tokens, 1 controller restart | updates of two nodes side by side, to the confirmation or rollback of the image; every query is answered |
| `orchestra_pair` | a controller and 2 nodes, one booted earlier; 3 commands (scenes immediate or 1 ahead, clocks the controller's or set to 0), 2 units of time, latency 1, 1 restart of any device | clocks track, scenes flip on time and together, nodes agree on the newest scene |
| `bdx_image` | blocks of 3 units, a header of 2, files of 2 to 8 units, 2 transfers, connections that fail | the node gets the image in order and is told its end |

The bounds are the smallest at which the race of interest needs every step it has: two
scheduled scenes with different starts besides an immediate one (replacement between snapshot and
promotion), an offset of either sign, one power loss in every window, two nodes that compete
for one sender; a sync, a scene and a third command that crosses either of them, with time to flip at and after
the start; images of one to three blocks whose last one is full or short. Repeated sequence numbers are in no passing run; what does
not depend on fresh ones is proved for every sender (below), and what does is refuted by `scene_same_sequence`.

The bounds of `led_strip`: the ring is the production strip (`CONFIG_LED_ORCHESTRA_TOTAL_LEDS`), of which the model draws the ends,
where indices and the ring wrap. `ClockWidth` is 7203072 in place of 2^64, since the clock is multiplied by the speed and TLC's
integers have 32 bits; the largest clock of the run times the speed is below it, so that, as on the node, only a negative offset at
boot wraps. It is chosen so that a clock wrapped by an offset of -30 puts the comet at the seam. `PlaceWidth` is 1536 in place of 2^32
(a multiple of the table's 384 entries, as 2^32 is not; the proofs take any width). The moments are boot (4 ms, before an offset of -30 has passed), 15.68 s (at speed 255 the
scrolled position crosses the end of the Fibonacci table) and 28.12 s (the comet's head crosses the seam); 32 ms are two
frames and a late one. Two of the twelve palettes stand for all. Whatever depends on a phase of an effect is
seen by TLC at these phases only, in 22 LEDs and three frames each; the proofs below cover the rest.

 Sequence numbers, tokens, ticks and power losses are bounded by guards, named
`Max...`; every other number is drawn from a set given as a constant. Runs with a bound on commands or
restarts end by themselves, which is why some configurations switch the deadlock check off.

Fairness. The render task is an endless loop at its own priority and waits only for its own
delay, so `WF(RenderTask)` is justified; ticks of the clock, commands and power losses have no
fairness. The candidate task blocks only on its queue and on locks that are held for a finite
handler, so `WF(CandidateTask)` is. The gate polls with a bounded delay until a deadline of five minutes, so `WF(GateExpire)` is
justified (it is void once the gate has ended otherwise); that Thread attaches, or that anybody confirms, is not assumed.

Six runs show that a statement in the repository does not hold of the code:

- `scene_persist_claim`: `led_orchestra_config_store.h` says the stored scene "always reflects the last
  scene that was concretely activated"; a promoted scene is never saved.
- `scene_same_sequence`: the re-check before a promotion compares sequence numbers, so of two
  scheduled scenes with the same number the second is activated at the time of the first.
- `scene_rollback`: a stored scene is not checked against the effect registry, so a build that lacks
  the effect makes it active (and draws nothing known).
- `ota_busy_claim`: after an aborted transfer, or a `PrepareForTransfer` that failed, the sender
  keeps its owner and answers Busy to other nodes with no transfer in progress.
- `ota_once_claim`: the one-time grant is revoked by a notification that can be lost.
- `bdx_short_read`: the read loop puts every read at the start of the block, so a read that is shorter than
  asked is overwritten and the block ends with bytes nobody wrote. `bdx_image` is the same model with reads that
  give all that is asked for and there.

More differences were met and have no run:

- `docs/console.md:262` says a node must have sent a QueryImage before `lo-ota-enable` takes effect, while `EnableOtaForNode`
  creates the entry (as phase-7-offline-ota.md says). `docs/console.md:144` calls the scene attribute the current effect; while a
  scheduled scene waits it already names that scene's effect. `ReadBackSettles` states what does hold.
- `led_color.h:108` gives the range of `sin8` as 0..255; it stays within 64..192, since the quarter wave it
  eases never passes its middle (`SinBounds`). `render_champagne_toast` draws glints where the wave passes 220, which is never (`GlintNeverShows`), and the whitecaps of
  `render_tidal_surge` stay faint. `led_color.h:89` says `triangle8` reaches 255; it peaks at 254.
- The comment at `led_orchestra_effects.cpp:421` says the wash of pulse-reveal is never fully dark; at a brightness of 5 or less it is.
- `app_main.cpp:92` calls the lines behind the rollback unreachable; they are reached when the rollback itself fails, most likely for
  the reason that made mark-valid fail, and the image stays unconfirmed until a reset reverts it without a word.
- `lo-ota-set-image` marks its candidate as not set when the cache refuses it, while an earlier one stays registered and
  is offered; `lo-ota-status` then shows none. The provider keeps no memory of images that were rolled back, so a node enabled for good
  is offered the same one again. `lo-ota-enable` and `lo-ota-disable` address fabric 1, while
  `lo-ota-grant-access` asks for the fabric in use.

## Proofs

TLAPS proves the following for every value of the constants that meets the named assumptions of the modules.

### LedSceneProofs

`LedSceneProofs` proves, for every registry, tag set, bound and number of steps: type correctness
(`TypeCorrect`), `NewestCommandWins`, `PowerUpResumes`, `AttributesAgree` (`ReadBackSettles`), `BaseIsActive` (`InheritsActiveScene`), `ClockNeverWraps`, `NeverEarly` (which
assumes that every command carries a sequence number of its own) and `Implements` (the refinement of `ScenePromise`). They rest only on
the named assumptions on the constants in `LedScene`.

The argument. `LastAcceptedWins` is inductive with the types: accepting a command sets the scene it
speaks of, and a promotion under the lock moves exactly the pending scene. `ResumesShownScene` needs
`SaveWindow` (while the handler is about to save, the active scene is the one it saves, unless a promotion
took its place, which is impossible because applying cleared the pending flag) and
`OnlyScheduledWaits` (a pending scene has a start, so the save window has none). `SyncedTimeNeverWraps`
needs `SyncedTime`: the offset is at least minus the uptime when it was taken, and uptime only grows.
`NoEarlyFlip` needs `SequenceNames` (a sequence number belongs to one scene, among pending, snapshot and
decoded ones) and `DueAtPromote` (at `promote` the snapshot's start has been reached); together the scene
that passes the re-check is the one that was found due. That the node's clock has reached the start too needs `OffsetFollows`: what the
pass computed is at most the present time unless a SyncClock came in between. `ReadBackSettles` follows from `AttributesFollow`
(between commands the attributes are those of the scene accepted last) and `LastAcceptedWins`. `InheritsActiveScene` is inductive with
`WaitsAsRead`: while a command is decoded nothing new waits, so a promotion is that of the scene that waited when it was read.

### OrchestraProofs

`OrchestraProofs` proves, for every number of nodes, latency, set of delays and times, boot times and number of
commands and restarts: `TypeCorrect`, `NodesTrackTheController` (`SyncedTimeTracks`), `ScenesFlipOnTime` (`FlipsOnTime`),
`SegmentsFlipTogether` (`FlipTogether`) and `NodesAgreeOnTheNewest` (`NewestSceneWins`). They rest on the two named
assumptions on the constants, and on the three of the model that `Tick` states.

The argument has three layers.

- `Clocks`. Eras only grow and no message or node names one to come (`Eras`); a message on its way is not older
  than `MaxDelay` (`Young`); a sync of the running controller carries the time at which it was sent
  (`SyncsCarryTime`). So the offset a node takes from it is behind by the time the message travelled, and
  `SyncedTimeTracks` is inductive with these. A restart of the controller starts an era no node follows.
- `Punctual`. A start computed by the controller is not before the time it was sent (`ScenesAhead`), so a
  scene heard within `MaxDelay` is not late yet, and a `sure` scene that waits has not passed its start by more than
  `MaxDelay` (`InTime`: `Tick` does not pass a due scene, and a node in step is behind by at most
  `MaxDelay`). A flip therefore happens within `MaxDelay` after the start, never before it
  (`FlippedOnTime`); two flips to one scene lie in the same interval, which is `FlipTogether`.
- `Newest`. Only scenes with a start wait (`OnlyScheduledWaits`), and if `latest` was `alone` when it was sent, no other
  one is under way (`OnlyNewest`); so a node that heard it heard it last and none is overtaken.

### LedSettingsProofs

For every set of builds, pins, palettes, payloads and bounds: `Typed`, `KnobsAreKept` (`NoKnobLost`), `AttributesAreKept`
(`AttributesMirror`), `PinIsKept` (`PinIsOurs`), `SavedSettingsSurvive` (`SettingsSurvive`) and `FramesAreCoherent`
(`FrameIsCoherent`).

None of these is inductive: each is about what was accepted, while the handler works on a local copy (`hNew`) that is checked, applied,
saved and reported in four steps. `HandlerInv` says what the copy is worth at each step: until it is applied, `wanted` is the copy if the
check will pass and the value in force if it will not (`ConfigInHand`, `CalibInHand`); an attribute is behind only
between apply and report (`AttributesFollow`); a setting about to be saved counts as unsaved (`SavePending`). `InForceAccepted` (the pin is this
build's, the segment is not empty, the palette is known) and `OneRecord` carry `SettingsSurvive` through a boot, and `PolicyFollows` (the output policy
belongs to the calibration, since both are written under the lock) gives `FrameIsCoherent`.

### OtaProviderProofs

For every set of nodes, products and releases and every number of tokens and restarts: `Typed`, `OneFetch` (`OneFetchAtATime`),
`OffersUpgrade` (`OffersAreUpgrades`), `OfferIsStreamed` (`StreamsTheOffer`), `OffersStay` (`OffersStand`), `TransfersFinish` (`NoTakeover`) and
`GrantsGive` (`GrantMeansAccess`).

The hub of the argument is the held command. `HandleIsOpen`: its node still waits or has given up, so no update of it is under way.
`FetchIsCurrent`: the request in the queue and the image found are for that node at the version it still runs; hence the unlocked write of the
candidate task hits the right entry, and an answer offers an upgrade. An entry another node's update depends on is therefore not written,
which is `OffersStand`. `OfferIsPrepared` says that, until the controller restarts, an unopened offer means a session prepared for exactly that
node and image, or one that failed to accept it and will stream nothing. So there is one at most, whoever opens the session is the one it was prepared for, and
`StreamsTheOffer` follows. A prepared session does not know whose it is, so without this invariant the property would fail at the node's first message.

`GrantMeansAccess` needs that the access list never holds two of our entries for one node (`OneGrant`). A list commissioning has left could
already do so, which is why `OtaProvider` has an assumption about it, `GrantsAssumption`; only `lo-ota-grant-access` writes
such entries.

### BdxImageProofs

For every block length, header length and set of files, with short reads and failing connections: `Typed`, `CountIsExact`
(`CountsAgree`), `BlocksAreFull` (`OnlyLastIsShort`), `EndIsTheEnd` (`EndsWithImage`). With reads that give what was asked for,
`ImageIsReceived` (`ReceivesImage`); with short reads it is false (`bdx_short_read`).

`StartsClean` (a prepared transfer has sent and received nothing, which is what `Reset` is for) and `HeaderIsRead` (the size is set with the first
block and is that of the file) tie the count to what the node has. `PosFollows` relates the position in the file to both,
so a short block can only be one the file ended in. `AnswerGives` states once what a call of the block query sends, and each
invariant is read off from it.

### LedColorProofs, LedEffectsProofs

Facts about the operators, for every input. Of the arithmetic: `ScaleBounds` (scaling gives a byte, no larger than itself or the scale, and the
cast loses nothing), `BlendBounds` (the two weights add up to 257 of 256; the roundings make up for it), `SinBounds` (64..192, so the range in the comment of
`led_color.h:108` is wrong for every argument) and `PolicyBounds`.
Of the effects:

- `EffectBounds`: every effect, at every time and on every LED, gives a pixel whose channels stay up to the scene's brightness.
- `LayoutBlind`: every effect but identify sees of a layout the length of the whole strip only.
- `FibonacciGoesOn`: `fib(k + 2)` is `fib(k) + fib(k + 1)` modulo 256 for every k, also where the table starts over. That needs the 384 entries of
  one period. Since a recursive function cannot be unfolded by induction here, the proof doubles: from what one step does to
  a pair it derives what 2, 4, 8, ..., 128 steps do, and 384 steps turn out to change nothing. (The model cuts the loop into stretches of 16, since TLC
  has a stack frame for each step of a recursion; `TableDefined` shows that the cuts leave no trace.) `FibonacciRotates` carries it
  to the channels of a LED.
- `GlintNeverShows`: the branch of champagne_toast that draws glints is dead, whatever the time, the LED and the hash.

They rest on the C types of scene and layout (`SceneTyped`, `LayoutTyped`: bytes and 16-bit words) and on `EffectsAssumption`
(palettes are palettes, hashes are bytes).

### LedStripProofs

For any number of nodes, and any layouts, scenes, calibrations, lags and delays: `Typed`, `StaysDim` (`NeverBrighter`), `ShowsItsWindow`
(`StripIsAWindow`), `FibonacciOnTheStrip` (`FibonacciConsecutive`) and `CometCrossesSeams` (`CometIsWhole`). The run sees
a few phases of each effect; the proofs cover all of them.

The properties are about LEDs that were drawn some time ago. The inductive invariant therefore says what the strip is: `ShowsTheFrame`, the frame of what `drawn`
remembers, or dark. What holds of every frame by the lemmas above then holds of the strips.

`CometCrossesSeams` has three hypotheses, and the property does not hold without them:

- `GapBehind`: segments lie within the strip and are no longer than the LEDs of their nodes, and two neighbours leave a gap of at least 18 LEDs on the ring. A comet is 17
  long: with a smaller gap both ends of it are in sight, and what is seen is not one piece. Two nodes that cover the whole ring
  have no gap; three equal ones of the production strip leave one of 300.
- `TailsStay`: the last LED of the tail is at 6 of 255, and every node's correction and white point leave 6 of 255 lit. Strong ones do not: 176
  followed by 41 takes the tail's last LEDs away at one node and not at the other.
- `ClockRuns`: neither the uptime nor a negative offset, times the speed, exceeds 2^64. A clock wrapped by a negative offset is included, as long as
  both nodes' clocks are (`ShowOneComet`): when one has unwrapped and the other has not, the comet jumps.

The argument: a wrapped clock times the speed is, modulo its width, the product plus one full turn (`WrappedProduct`), so wrapped clocks differ like
unwrapped ones. A LED is lit exactly if it is at most eight from the head on the ring (`CometLit`: the dimmest of them, 31 before easing, is still
at 6 after it). Frames at most a beat apart have heads at most one place apart, also across the end of the ring (`NextHead`). Seen from two neighbours
with a gap behind them, that ring is a line, each node sees its part of an interval of 17, and the intervals are at most one LED apart
(`OneComet`).

Trying to prove it showed that the property had been too strong. It compared the speeds as sent, and at speed 0, which the renderer reads as 1, it allowed frames
any time apart. `ShowOneComet` now uses the speed the effect uses.

### What is only model-checked

Every safety invariant and action property of the passing runs is proved, with the hypotheses named above. TLC alone checks the liveness properties
(`DueSceneFlips`, `StripCatchesUp`, `StripShowsSettings`, `QueriesAnswered`, `GateDecides`), since liveness under fairness is
out of the prover's reach, and of course the six statements that do not hold.

## Not modelled

TLV decoding and command formatting; redirects and authorisation of
the HTTP client; reads that time out for ever; start offsets other than 0, which the sender accepts and ignores; tasks that cannot be created and other failed allocations; a fabric other than 1; functions of `led_color.h` without a
caller and its FastLED backend; the bits of `hash8`; what `lo-ota-status` prints; the console's parsing of its arguments, which only
forwards layouts and calibrations; the Matter and Thread stacks themselves; Wi-Fi ingress, bench firmware and scripts.

## Plan

Done: all modules of the plan, and proofs of every safety property that passes. What is left:

1. A node of `Orchestra` is `LedScene` without its threads: a refinement like that of `ScenePromise`, with the render task's pass as
   `Flip`.
2. Lemmas in place of prose in the README: how long a run may last before `ClockRuns` fails at the highest speed, and that the gap is there for
   any three or more equal segments of at least 18 LEDs.
