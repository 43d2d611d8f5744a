------------------------------ MODULE LedSettings ------------------------------
(***************************************************************************)
(* The durable settings of one LED node: its place in the virtual strip    *)
(* (SetNodeConfig) and its field calibration (SetCalibration).              *)
(*                                                                         *)
(* Both commands are read-modify-write on the Matter thread: the handler   *)
(* starts from the current value, lays the tags present over it, checks    *)
(* the result, applies it under g_lock, saves it in NVS and updates the    *)
(* attributes.  The render task snapshots configuration, calibration and   *)
(* output policy in one critical section.  The scene is a static one, the  *)
(* case where the task has to notice a change (an animated scene is drawn  *)
(* on every pass).  Another firmware may boot after a power loss.           *)
(*                                                                         *)
(* A segment stands for segment_start, segment_len, total_leds and node_id; *)
(* the LED correction and the white point follow the brightness cap.        *)
(***************************************************************************)
EXTENDS Integers

CONSTANTS
    Firmwares,      \* builds the node may boot
    Pins, Pin,      \* LED pins, and the pin each build is compiled for
    Segments,       \* segment layouts; 0 is a layout with no LEDs
    DefaultSegment, \* the compiled layout
    Caps, NoCap,    \* brightness caps, and the identity (255)
    Palettes,       \* palette references a command can carry
    KnownPalettes,  \* KnownPalettes[f]: those of firmware f
    NoOverride,     \* 0xFF: use the effect's palette
    Offsets,        \* per-node time offsets; 0 is the identity
    MaxCommands,    \* bound: commands
    MaxBoots        \* bound: power losses

ConfigFields == {"segment", "gpio"}
CalibFields  == {"offset", "cap", "palette"}

Configs      == [segment : Segments, gpio : Pins]
Calibrations == [offset : Offsets, cap : Caps, palette : Palettes \cup {NoOverride}]
Policies     == [master : Caps]

Identity == [offset |-> 0, cap |-> NoCap, palette |-> NoOverride]

ASSUME SettingsAssumption ==
    /\ Pin \in [Firmwares -> Pins]
    /\ 0 \in Segments /\ DefaultSegment \in Segments \ {0}
    /\ KnownPalettes \in [Firmwares -> SUBSET Palettes]
    /\ NoOverride \notin Palettes
    /\ NoCap \in Caps /\ 0 \in Offsets
    /\ MaxCommands \in Nat /\ MaxBoots \in Nat

VARIABLES
    g_node, g_calibration, g_output_policy,     \* under g_lock, lost at power-off
    fw,                                         \* the running firmware
    nvs_node, nvs_calib,                        \* sets of at most one record
    attr_node, attr_calib,                      \* read-back attributes
    hPc, hNew,      \* Matter thread, and the setting the handler works on
    rPc, rSnap,     \* render task, and what it copied under the lock
    last,           \* last_node, last_calib, last_policy: the frame on the strip
    have_rendered_frame,
    commands,       \* bound: commands so far
    boots,          \* bound: power losses so far
    wanted,         \* history: per setting, knob by knob, what was last accepted
    unsaved         \* history: settings NVS may not hold as they are active

globals == <<g_node, g_calibration, g_output_policy>>
nvs     == <<nvs_node, nvs_calib>>
attrs   == <<attr_node, attr_calib>>
handler == <<hPc, hNew>>
render  == <<rPc, rSnap, last, have_rendered_frame>>
env     == <<fw, commands, boots>>
history == <<wanted, unsaved>>
vars    == <<globals, nvs, attrs, handler, render, env, history>>

-----------------------------------------------------------------------------
(* Helpers *)

KnownPalette(p) == p \in KnownPalettes[fw] \cup {NoOverride}

Overlay(base, tags, v) == [f \in DOMAIN base |-> IF f \in tags THEN v[f] ELSE base[f]]

\* The output part of a calibration, as apply_calibration_locked derives it.
PolicyOf(c) == [master |-> c.cap]

Defaults == [segment |-> DefaultSegment, gpio |-> Pin[fw]]

\* Mutated form: the pin of the record is believed.
LoadConfig_AnyPin(record) ==
    IF \E r \in record : r.segment # 0 THEN CHOOSE r \in record : TRUE ELSE Defaults

\* config_load: an empty layout is refused, a foreign pin replaced by our own.
LoadConfig(record) ==
    IF \E r \in record : r.segment # 0
    THEN [(CHOOSE r \in record : TRUE) EXCEPT !.gpio = Pin[fw]]
    ELSE Defaults

\* calibration_load: a record naming a palette this build lacks is refused.
LoadCalib(record) ==
    IF \E r \in record : KnownPalette(r.palette)
    THEN CHOOSE r \in record : TRUE
    ELSE Identity

\* Mutated form: the layout is not compared.
configs_equal_PinOnly(a, b) == a.gpio = b.gpio

configs_equal(a, b)      == a.segment = b.segment /\ a.gpio = b.gpio

policies_equal(a, b)     == a.master = b.master

calibrations_equal(a, b) == a.offset = b.offset /\ a.palette = b.palette

\* A zero configuration, and render locals before their first use.
NoConfig == [segment |-> 0, gpio |-> CHOOSE p \in Pins : TRUE]
Blank == [node |-> NoConfig, calib |-> Identity, policy |-> PolicyOf(Identity)]

-----------------------------------------------------------------------------
(* Power: renderer_start loads both records, cluster_create the attributes *)

Init ==
    /\ fw \in Firmwares /\ commands = 0 /\ boots = 0
    /\ g_node = Defaults /\ g_calibration = Identity
    /\ g_output_policy = PolicyOf(Identity)
    /\ nvs_node = {} /\ nvs_calib = {}
    /\ attr_node = Defaults /\ attr_calib = Identity
    /\ hPc = "idle" /\ hNew = Identity
    /\ rPc = "snapshot" /\ rSnap = Blank /\ last = Blank
    /\ have_rendered_frame = FALSE
    /\ wanted = [config |-> Defaults, calib |-> Identity] /\ unsaved = {}

\* Power is lost in any state.  Each record may turn out unreadable, or NVS as
\* a whole unusable and erased.
Reboot ==
    /\ boots < MaxBoots /\ boots' = boots + 1
    /\ fw' \in Firmwares
    /\ \E erased \in BOOLEAN, unreadable \in SUBSET {"config", "calib"} :
          /\ nvs_node'  = IF erased THEN {} ELSE nvs_node
          /\ nvs_calib' = IF erased THEN {} ELSE nvs_calib
          /\ g_node' = IF "config" \in unreadable THEN Defaults'
                       ELSE LoadConfig(nvs_node)'
          /\ g_calibration' = IF "calib" \in unreadable THEN Identity
                              ELSE LoadCalib(nvs_calib)'
          /\ unsaved' = unreadable
    /\ g_output_policy' = PolicyOf(g_calibration')
    /\ attr_node' = g_node' /\ attr_calib' = g_calibration'
    /\ hPc' = "idle" /\ hNew' = Identity
    /\ rPc' = "snapshot" /\ rSnap' = Blank /\ last' = Blank
    /\ have_rendered_frame' = FALSE
    /\ wanted' = [config |-> g_node', calib |-> g_calibration']
    /\ UNCHANGED commands

-----------------------------------------------------------------------------
(* Matter thread: SetNodeConfig *)

DecodeSetNodeConfig ==
    /\ hPc = "idle"
    /\ commands < MaxCommands /\ commands' = commands + 1
    /\ \E tags \in SUBSET ConfigFields, v \in Configs :
          /\ hNew' = Overlay(g_node, tags, v)
          /\ wanted' = IF hNew'.segment # 0 /\ hNew'.gpio = Pin[fw]
                       THEN [wanted EXCEPT !.config = Overlay(@, tags, v)]
                       ELSE wanted
    /\ hPc' = "check config"
    /\ UNCHANGED <<globals, nvs, attrs, render, fw, boots, unsaved>>

RejectConfig ==
    /\ hPc = "check config"
    /\ hNew.segment = 0 \/ hNew.gpio # Pin[fw]
    /\ hPc' = "idle" /\ hNew' = Identity
    /\ UNCHANGED <<globals, nvs, attrs, render, env, history>>

ApplyConfig ==
    /\ hPc = "check config"
    /\ hNew.segment # 0 /\ hNew.gpio = Pin[fw]
    /\ g_node' = hNew
    /\ hPc' = "save config"
    /\ unsaved' = unsaved \cup {"config"}
    /\ UNCHANGED <<g_calibration, g_output_policy, nvs, attrs, hNew, render, env,
                   wanted>>

\* A failed save is only logged; after a failed commit the record may be new.
SaveConfig ==
    /\ hPc = "save config"
    /\ \/ nvs_node' = {hNew} /\ unsaved' = unsaved \ {"config"}
       \/ nvs_node' \in {nvs_node, {hNew}} /\ UNCHANGED unsaved
    /\ hPc' = "report config"
    /\ UNCHANGED <<globals, nvs_calib, attrs, hNew, render, env, wanted>>

ReportConfig ==
    /\ hPc = "report config"
    /\ attr_node' = hNew
    /\ hPc' = "idle" /\ hNew' = Identity
    /\ UNCHANGED <<globals, nvs, attr_calib, render, env, history>>

-----------------------------------------------------------------------------
(* Matter thread: SetCalibration *)

\* Mutated form: omitted tags fall back to the identity.
DecodeSetCalibration_FromIdentity ==
    /\ hPc = "idle"
    /\ commands < MaxCommands /\ commands' = commands + 1
    /\ \E tags \in SUBSET CalibFields, v \in Calibrations :
          /\ hNew' = Overlay(Identity, tags, v)
          /\ wanted' = IF KnownPalette(hNew'.palette)
                       THEN [wanted EXCEPT !.calib = Overlay(@, tags, v)]
                       ELSE wanted
    /\ hPc' = "check calib"
    /\ UNCHANGED <<globals, nvs, attrs, render, fw, boots, unsaved>>

DecodeSetCalibration ==
    /\ hPc = "idle"
    /\ commands < MaxCommands /\ commands' = commands + 1
    /\ \E tags \in SUBSET CalibFields, v \in Calibrations :
          /\ hNew' = Overlay(g_calibration, tags, v)
          /\ wanted' = IF KnownPalette(hNew'.palette)
                       THEN [wanted EXCEPT !.calib = Overlay(@, tags, v)]
                       ELSE wanted
    /\ hPc' = "check calib"
    /\ UNCHANGED <<globals, nvs, attrs, render, fw, boots, unsaved>>

RejectPalette ==
    /\ hPc = "check calib" /\ ~KnownPalette(hNew.palette)
    /\ hPc' = "idle" /\ hNew' = Identity
    /\ UNCHANGED <<globals, nvs, attrs, render, env, history>>

\* Mutated form: the palette is not checked.
ApplyCalibration_Unchecked ==
    /\ hPc = "check calib"
    /\ g_calibration' = hNew /\ g_output_policy' = PolicyOf(hNew)
    /\ hPc' = "save calib"
    /\ unsaved' = unsaved \cup {"calib"}
    /\ UNCHANGED <<g_node, nvs, attrs, hNew, render, env, wanted>>

\* Mutated form: the output policy is not derived again.
ApplyCalibration_NoPolicy ==
    /\ hPc = "check calib" /\ KnownPalette(hNew.palette)
    /\ g_calibration' = hNew
    /\ hPc' = "save calib"
    /\ unsaved' = unsaved \cup {"calib"}
    /\ UNCHANGED <<g_node, g_output_policy, nvs, attrs, hNew, render, env, wanted>>

ApplyCalibration ==
    /\ hPc = "check calib" /\ KnownPalette(hNew.palette)
    /\ g_calibration' = hNew /\ g_output_policy' = PolicyOf(hNew)
    /\ hPc' = "save calib"
    /\ unsaved' = unsaved \cup {"calib"}
    /\ UNCHANGED <<g_node, nvs, attrs, hNew, render, env, wanted>>

SaveCalibration ==
    /\ hPc = "save calib"
    /\ \/ nvs_calib' = {hNew} /\ unsaved' = unsaved \ {"calib"}
       \/ nvs_calib' \in {nvs_calib, {hNew}} /\ UNCHANGED unsaved
    /\ hPc' = "report calib"
    /\ UNCHANGED <<globals, nvs_node, attrs, hNew, render, env, wanted>>

\* Mutated form: the calibration is reported as the node configuration.
ReportCalibration_Crossed ==
    /\ hPc = "report calib"
    /\ attr_node' = hNew
    /\ hPc' = "idle" /\ hNew' = Identity
    /\ UNCHANGED <<globals, nvs, attr_calib, render, env, history>>

ReportCalibration ==
    /\ hPc = "report calib"
    /\ attr_calib' = hNew
    /\ hPc' = "idle" /\ hNew' = Identity
    /\ UNCHANGED <<globals, nvs, attr_node, render, env, history>>

-----------------------------------------------------------------------------
(* Render task *)

Snapshot ==
    /\ rPc = "snapshot"
    /\ rSnap' = [node |-> g_node, calib |-> g_calibration, policy |-> g_output_policy]
    /\ rPc' = "draw"
    /\ UNCHANGED <<globals, nvs, attrs, handler, last, have_rendered_frame, env,
                   history>>

RenderNeeded ==
    \/ ~have_rendered_frame
    \/ ~configs_equal(rSnap.node, last.node)
    \/ ~policies_equal(rSnap.policy, last.policy)
    \/ ~calibrations_equal(rSnap.calib, last.calib)

Draw ==
    /\ rPc = "draw"
    /\ \/ RenderNeeded /\ last' = rSnap /\ have_rendered_frame' = TRUE
       \/ ~RenderNeeded /\ UNCHANGED <<last, have_rendered_frame>>
    /\ rPc' = "snapshot" /\ rSnap' = Blank
    /\ UNCHANGED <<globals, nvs, attrs, handler, env, history>>

RenderTask == Snapshot \/ Draw

SetNodeConfig ==
    DecodeSetNodeConfig \/ RejectConfig \/ ApplyConfig \/ SaveConfig \/ ReportConfig

SetCalibration ==
    \/ DecodeSetCalibration \/ RejectPalette \/ ApplyCalibration
    \/ SaveCalibration \/ ReportCalibration

Next == SetNodeConfig \/ SetCalibration \/ RenderTask \/ Reboot

Spec == Init /\ [][Next]_vars

\* The render task loops for ever and only waits for its own delay.
FairSpec == Spec /\ WF_vars(RenderTask)

-----------------------------------------------------------------------------
(* Properties *)

\* Every variable keeps its type.
TypeOK ==
    /\ g_node \in Configs /\ g_calibration \in Calibrations
    /\ g_output_policy \in Policies /\ fw \in Firmwares
    /\ nvs_node \in SUBSET Configs /\ nvs_calib \in SUBSET Calibrations
    /\ attr_node \in Configs /\ attr_calib \in Calibrations
    /\ hPc \in {"idle", "check config", "save config", "report config",
                "check calib", "save calib", "report calib"}
    /\ hNew \in Configs \cup Calibrations
    /\ rPc \in {"snapshot", "draw"} /\ have_rendered_frame \in BOOLEAN
    /\ commands \in Nat /\ boots \in Nat
    /\ wanted.config \in Configs /\ wanted.calib \in Calibrations
    /\ unsaved \subseteq {"config", "calib"}

\* A frame is drawn with an output policy and a calibration that belong to the
\* same SetCalibration, whenever the command arrives between two passes.
FrameIsCoherent == \A s \in {rSnap, last} : s.policy = PolicyOf(s.calib)

\* No knob is lost: the settings in force hold, for every knob, the value the
\* last accepted command that named it carried (rejected commands and omitted
\* tags change nothing).
NoKnobLost ==
    hPc = "idle" => g_node = wanted.config /\ g_calibration = wanted.calib

\* What a command saved, the next boot of this build loads unchanged: nothing
\* is accepted that config_load or calibration_load would refuse.
SettingsSurvive ==
    /\ "config" \notin unsaved => LoadConfig(nvs_node) = g_node
    /\ "calib"  \notin unsaved => LoadCalib(nvs_calib) = g_calibration

\* Read-back: between commands the attributes are the settings in force.
AttributesMirror ==
    hPc = "idle" => attr_node = g_node /\ attr_calib = g_calibration

\* The pin reported and used is the pin this build drives, and the layout is
\* never empty, whatever an older or newer build stored.
PinIsOurs ==
    /\ g_node.gpio = Pin[fw] /\ attr_node.gpio = Pin[fw]
    /\ g_node.segment # 0

\* A static scene is drawn again after its settings changed: unless they keep
\* changing, the strip ends up showing the settings in force.
StripShowsSettings ==
    \/ []<><<g_node' # g_node \/ g_calibration' # g_calibration>>_vars
    \/ <>[](have_rendered_frame /\ last.node = g_node /\ last.calib = g_calibration)

=============================================================================
