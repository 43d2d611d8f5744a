-------------------------- MODULE LedSettingsProofs --------------------------
(***************************************************************************)
(* Theorems about the durable settings of a node, for every set of builds,  *)
(* pins, layouts, caps and palettes and every number of power losses.       *)
(***************************************************************************)
EXTENDS LedSettings, TLAPS

-----------------------------------------------------------------------------
(* The inductive invariant, by theme *)

\* The history keeps one value per setting.
HistoryTyped == wanted \in [config : Configs, calib : Calibrations]

\* NVS holds at most one record of each kind.
OneRecord ==
    /\ nvs_node  = {} \/ \E r \in Configs : nvs_node = {r}
    /\ nvs_calib = {} \/ \E r \in Calibrations : nvs_calib = {r}

\* What is in force was accepted by this build or loaded by it.
InForceAccepted ==
    /\ PinIsOurs
    /\ KnownPalette(g_calibration.palette)

\* The output policy is the one of the calibration in force.
PolicyFollows == g_output_policy = PolicyOf(g_calibration)

Acceptable(c) == c.segment # 0 /\ c.gpio = Pin[fw]

\* The setting SetNodeConfig works on, at each of its steps.
ConfigInHand ==
    /\ hPc \in {"check config", "save config", "report config"} => hNew \in Configs
    /\ hPc = "check config" =>
          wanted.config = IF Acceptable(hNew) THEN hNew ELSE g_node
    /\ hPc \in {"save config", "report config"} => hNew = g_node
    /\ hPc # "check config" => wanted.config = g_node

\* The setting SetCalibration works on, at each of its steps.
CalibInHand ==
    /\ hPc \in {"check calib", "save calib", "report calib"} => hNew \in Calibrations
    /\ hPc = "check calib" =>
          wanted.calib = IF KnownPalette(hNew.palette) THEN hNew ELSE g_calibration
    /\ hPc \in {"save calib", "report calib"} => hNew = g_calibration
    /\ hPc # "check calib" => wanted.calib = g_calibration

\* An attribute lags behind only until the command that changed it reports.
AttributesFollow ==
    /\ hPc \notin {"save config", "report config"} => attr_node = g_node
    /\ hPc \notin {"save calib", "report calib"} => attr_calib = g_calibration

\* A setting about to be saved is not counted as saved.
SavePending ==
    /\ hPc = "save config" => "config" \in unsaved
    /\ hPc = "save calib"  => "calib" \in unsaved

HandlerInv == ConfigInHand /\ CalibInHand /\ AttributesFollow /\ SavePending

IInv ==
    /\ TypeOK /\ HistoryTyped
    /\ OneRecord /\ InForceAccepted /\ PolicyFollows
    /\ HandlerInv

-----------------------------------------------------------------------------
(* Lemmas about the helpers *)

\* Laying tags over a configuration gives a configuration.
LEMMA OverlayConfig ==
    ASSUME NEW base \in Configs, NEW tags, NEW v \in Configs
    PROVE  Overlay(base, tags, v) \in Configs
BY DEF Overlay, Configs

\* Laying tags over a calibration gives a calibration.
LEMMA OverlayCalib ==
    ASSUME NEW base \in Calibrations, NEW tags, NEW v \in Calibrations
    PROVE  Overlay(base, tags, v) \in Calibrations
BY DEF Overlay, Calibrations

\* The compiled defaults are settings every build accepts.
LEMMA DefaultsAccepted ==
    ASSUME NEW b \in Firmwares
    PROVE  /\ [segment |-> DefaultSegment, gpio |-> Pin[b]] \in Configs
           /\ DefaultSegment # 0
           /\ Identity \in Calibrations
           /\ Identity.palette = NoOverride
BY SettingsAssumption DEF Configs, Calibrations, Identity

\* The only record of a set is the one chosen from it.
LEMMA ChooseOnly ==
    ASSUME NEW r
    PROVE  (CHOOSE x \in {r} : TRUE) = r
OBVIOUS

\* A configuration record the build accepts is loaded as it is.
LEMMA LoadsAcceptedConfig ==
    ASSUME NEW r \in Configs, r.segment # 0, r.gpio = Pin[fw]
    PROVE  LoadConfig({r}) = r
<1>1. LoadConfig({r}) = [r EXCEPT !.gpio = Pin[fw]]
  BY ChooseOnly DEF LoadConfig
<1> QED BY <1>1 DEF Configs

\* A calibration record whose palette the build knows is loaded as it is.
LEMMA LoadsAcceptedCalib ==
    ASSUME NEW r, KnownPalette(r.palette)
    PROVE  LoadCalib({r}) = r
BY ChooseOnly DEF LoadCalib

\* Whatever a set of at most one record holds, what is loaded from it is a
\* configuration with LEDs and this build's pin.
LEMMA LoadedConfig ==
    fw \in Firmwares /\ OneRecord =>
       /\ LoadConfig(nvs_node) \in Configs
       /\ LoadConfig(nvs_node).segment # 0
       /\ LoadConfig(nvs_node).gpio = Pin[fw]
<1> SUFFICES ASSUME fw \in Firmwares, NEW record,
                    record = {} \/ \E r \in Configs : record = {r}
             PROVE  /\ LoadConfig(record) \in Configs
                    /\ LoadConfig(record).segment # 0
                    /\ LoadConfig(record).gpio = Pin[fw]
  BY DEF OneRecord
<1>1. CASE \E r \in record : r.segment # 0
  <2>1. PICK r \in Configs : record = {r} /\ r.segment # 0
    BY <1>1
  <2>2. LoadConfig(record) = [r EXCEPT !.gpio = Pin[fw]]
    BY <2>1, ChooseOnly DEF LoadConfig
  <2> QED BY <2>1, <2>2, SettingsAssumption DEF Configs
<1>2. CASE ~\E r \in record : r.segment # 0
  <2>1. LoadConfig(record) = Defaults
    BY <1>2 DEF LoadConfig
  <2> QED BY <2>1, DefaultsAccepted DEF Defaults
<1> QED BY <1>1, <1>2

\* ... and a calibration whose palette this build knows.
LEMMA LoadedCalib ==
    OneRecord =>
       /\ LoadCalib(nvs_calib) \in Calibrations
       /\ KnownPalette(LoadCalib(nvs_calib).palette)
<1> SUFFICES ASSUME NEW record,
                    record = {} \/ \E r \in Calibrations : record = {r}
             PROVE  /\ LoadCalib(record) \in Calibrations
                    /\ KnownPalette(LoadCalib(record).palette)
  BY DEF OneRecord
<1>1. CASE \E r \in record : KnownPalette(r.palette)
  <2>1. PICK r \in Calibrations : record = {r} /\ KnownPalette(r.palette)
    BY <1>1
  <2> QED BY <2>1, ChooseOnly DEF LoadCalib
<1>2. CASE ~\E r \in record : KnownPalette(r.palette)
  <2>1. LoadCalib(record) = Identity
    BY <1>2 DEF LoadCalib
  <2>2. Identity \in Calibrations /\ Identity.palette = NoOverride
    BY SettingsAssumption DEF Calibrations, Identity
  <2> QED BY <2>1, <2>2 DEF KnownPalette
<1> QED BY <1>1, <1>2

-----------------------------------------------------------------------------
(* The initial states *)

LEMMA InvInit == Init => IInv
<1> SUFFICES ASSUME Init PROVE IInv
    OBVIOUS
<1> USE DEF Init
<1>1. Defaults \in Configs /\ Defaults.segment # 0 /\ Defaults.gpio = Pin[fw]
  BY DefaultsAccepted DEF Defaults
<1>2. Identity \in Calibrations /\ Identity.palette = NoOverride
  BY SettingsAssumption DEF Calibrations, Identity
<1>3. PolicyOf(Identity) \in Policies
  BY <1>2 DEF PolicyOf, Policies, Calibrations
<1>4. TypeOK /\ HistoryTyped
  BY <1>1, <1>2, <1>3 DEF TypeOK, HistoryTyped
<1>5. InForceAccepted
  BY <1>1, <1>2 DEF InForceAccepted, PinIsOurs, KnownPalette
<1>6. OneRecord /\ PolicyFollows
  BY DEF OneRecord, PolicyFollows
<1>7. HandlerInv
  BY DEF HandlerInv, ConfigInHand, CalibInHand, AttributesFollow, SavePending
<1> QED BY <1>4, <1>5, <1>6, <1>7 DEF IInv

-----------------------------------------------------------------------------
(* Power *)

\* After a power loss the invariant holds whatever NVS gave back, whichever
\* build boots, and whatever the handler and the task were doing.
LEMMA RebootStep == IInv /\ Reboot => IInv'
<1> SUFFICES ASSUME IInv, Reboot PROVE IInv'
    OBVIOUS
<1>1. (fw \in Firmwares)' /\ (boots \in Nat)' /\ (commands \in Nat)'
  <2>1. fw' \in Firmwares /\ boots' = boots + 1 /\ commands' = commands
    BY DEF Reboot
  <2>2. boots \in Nat /\ commands \in Nat
    BY DEF IInv, TypeOK
  <2> QED BY <2>1, <2>2
<1>2. OneRecord'
  BY DEF Reboot, IInv, OneRecord
<1>3. (/\ LoadConfig(nvs_node) \in Configs
       /\ LoadConfig(nvs_node).segment # 0
       /\ LoadConfig(nvs_node).gpio = Pin[fw])'
  BY <1>1, <1>2, LoadedConfig, PTL
<1>4. (/\ LoadCalib(nvs_calib) \in Calibrations
       /\ KnownPalette(LoadCalib(nvs_calib).palette))'
  BY <1>2, LoadedCalib, PTL
<1>5. (Defaults \in Configs /\ Defaults.segment # 0 /\ Defaults.gpio = Pin[fw])'
  BY <1>1, DefaultsAccepted DEF Defaults
<1>6. Identity \in Calibrations /\ KnownPalette(Identity.palette)'
  BY SettingsAssumption DEF Calibrations, Identity, KnownPalette
<1>7. (g_node \in Configs /\ g_node.segment # 0 /\ g_node.gpio = Pin[fw])'
  BY <1>3, <1>5 DEF Reboot
<1>8. (g_calibration \in Calibrations /\ KnownPalette(g_calibration.palette))'
  BY <1>4, <1>6 DEF Reboot
<1>9. TypeOK' /\ HistoryTyped'
  BY <1>1, <1>2, <1>6, <1>7, <1>8
     DEF Reboot, TypeOK, HistoryTyped, OneRecord, Policies, PolicyOf, Calibrations
<1>10. InForceAccepted' /\ PolicyFollows'
  BY <1>7, <1>8 DEF Reboot, InForceAccepted, PinIsOurs, PolicyFollows
<1>11. HandlerInv'
  BY DEF Reboot, HandlerInv, ConfigInHand, CalibInHand, AttributesFollow, SavePending
<1> QED BY <1>2, <1>9, <1>10, <1>11 DEF IInv

-----------------------------------------------------------------------------
(* The two commands *)

\* The tags of an accepted SetNodeConfig are laid over what was wanted, and
\* every step of it keeps the invariant.
LEMMA ConfigStep == IInv /\ SetNodeConfig => IInv'
<1> SUFFICES ASSUME IInv, SetNodeConfig PROVE IInv'
    OBVIOUS
<1>1. CASE DecodeSetNodeConfig
  <2>1. PICK tags \in SUBSET ConfigFields, v \in Configs :
          /\ hNew' = Overlay(g_node, tags, v)
          /\ wanted' = IF hNew'.segment # 0 /\ hNew'.gpio = Pin[fw]
                       THEN [wanted EXCEPT !.config = Overlay(@, tags, v)]
                       ELSE wanted
    BY <1>1 DEF DecodeSetNodeConfig
  <2>2. wanted.config = g_node
    BY <1>1 DEF DecodeSetNodeConfig, IInv, HandlerInv, ConfigInHand
  <2>3. hNew' \in Configs
    BY <2>1, OverlayConfig DEF IInv, TypeOK
  <2>4. /\ wanted' \in [config : Configs, calib : Calibrations]
        /\ wanted'.calib = wanted.calib
        /\ wanted'.config = IF Acceptable(hNew)' THEN hNew' ELSE g_node
    <3>1. fw' = fw
      BY <1>1 DEF DecodeSetNodeConfig, env
    <3>2. wanted \in [config : Configs, calib : Calibrations]
      BY DEF IInv, HistoryTyped
    <3> QED BY <2>1, <2>2, <2>3, <3>1, <3>2 DEF Acceptable
  <2>5. HandlerInv'
    BY <1>1, <2>2, <2>3, <2>4
       DEF DecodeSetNodeConfig, globals, attrs, env, IInv, HandlerInv, ConfigInHand,
           CalibInHand, AttributesFollow, SavePending
  <2>6. commands' \in Nat
    <3>1. commands' = commands + 1
      BY <1>1 DEF DecodeSetNodeConfig
    <3>2. commands \in Nat
      BY DEF IInv, TypeOK
    <3> QED BY <3>1, <3>2
  <2> QED
    BY <1>1, <2>3, <2>4, <2>5, <2>6
       DEF DecodeSetNodeConfig, globals, nvs, attrs, render, env, IInv, TypeOK,
           HistoryTyped, OneRecord, InForceAccepted, PinIsOurs, KnownPalette,
           PolicyFollows
<1>2. CASE RejectConfig
  <2>1. HandlerInv'
    BY <1>2 DEF RejectConfig, globals, attrs, history, env, IInv, HandlerInv,
                ConfigInHand, CalibInHand, AttributesFollow, SavePending, Acceptable
  <2>2. Identity \in Calibrations
    BY SettingsAssumption DEF Calibrations, Identity
  <2> QED
    BY <1>2, <2>1, <2>2
       DEF RejectConfig, globals, nvs, attrs, render, env, history, IInv, TypeOK,
           HistoryTyped, OneRecord, InForceAccepted, PinIsOurs, KnownPalette,
           PolicyFollows
<1>3. CASE ApplyConfig
  <2>1. HandlerInv'
    BY <1>3 DEF ApplyConfig, attrs, env, IInv, HandlerInv, ConfigInHand,
                CalibInHand, AttributesFollow, SavePending, Acceptable
  <2>2. hNew \in Configs
    BY <1>3 DEF ApplyConfig, IInv, HandlerInv, ConfigInHand
  <2> QED
    BY <1>3, <2>1, <2>2
       DEF ApplyConfig, nvs, attrs, render, env, IInv, TypeOK,
           HistoryTyped, OneRecord, InForceAccepted, PinIsOurs, KnownPalette,
           PolicyFollows
<1>4. CASE SaveConfig
  <2>1. HandlerInv'
    BY <1>4 DEF SaveConfig, globals, attrs, env, IInv, HandlerInv, ConfigInHand,
                CalibInHand, AttributesFollow, SavePending
  <2>2. hNew \in Configs
    BY <1>4 DEF SaveConfig, IInv, HandlerInv, ConfigInHand
  <2>3. OneRecord' /\ nvs_node' \in SUBSET Configs
    BY <1>4, <2>2 DEF SaveConfig, IInv, OneRecord, TypeOK
  <2>4. unsaved' \subseteq {"config", "calib"}
    BY <1>4 DEF SaveConfig, IInv, TypeOK
  <2> QED
    BY <1>4, <2>1, <2>3, <2>4
       DEF SaveConfig, globals, attrs, render, env, IInv, TypeOK,
           HistoryTyped, InForceAccepted, PinIsOurs, KnownPalette, PolicyFollows
<1>5. CASE ReportConfig
  <2>1. HandlerInv'
    BY <1>5 DEF ReportConfig, globals, attrs, history, env, IInv, HandlerInv,
                ConfigInHand, CalibInHand, AttributesFollow, SavePending
  <2>2. Identity \in Calibrations
    BY SettingsAssumption DEF Calibrations, Identity
  <2>3. hNew = g_node
    BY <1>5 DEF ReportConfig, IInv, HandlerInv, ConfigInHand
  <2> QED
    BY <1>5, <2>1, <2>2, <2>3
       DEF ReportConfig, globals, nvs, render, env, history, IInv, TypeOK,
           HistoryTyped, OneRecord, InForceAccepted, PinIsOurs, KnownPalette,
           PolicyFollows
<1> QED BY <1>1, <1>2, <1>3, <1>4, <1>5 DEF SetNodeConfig

\* The same for SetCalibration.
LEMMA CalibStep == IInv /\ SetCalibration => IInv'
<1> SUFFICES ASSUME IInv, SetCalibration PROVE IInv'
    OBVIOUS
<1>1. CASE DecodeSetCalibration
  <2>1. PICK tags \in SUBSET CalibFields, v \in Calibrations :
          /\ hNew' = Overlay(g_calibration, tags, v)
          /\ wanted' = IF KnownPalette(hNew'.palette)
                       THEN [wanted EXCEPT !.calib = Overlay(@, tags, v)]
                       ELSE wanted
    BY <1>1 DEF DecodeSetCalibration
  <2>2. wanted.calib = g_calibration
    BY <1>1 DEF DecodeSetCalibration, IInv, HandlerInv, CalibInHand
  <2>3. hNew' \in Calibrations
    BY <2>1, OverlayCalib DEF IInv, TypeOK
  <2>4. /\ wanted' \in [config : Configs, calib : Calibrations]
        /\ wanted'.config = wanted.config
        /\ wanted'.calib = IF KnownPalette(hNew.palette)' THEN hNew'
                           ELSE g_calibration
    <3>1. fw' = fw
      BY <1>1 DEF DecodeSetCalibration, env
    <3>2. wanted \in [config : Configs, calib : Calibrations]
      BY DEF IInv, HistoryTyped
    <3> QED BY <2>1, <2>2, <2>3, <3>1, <3>2 DEF KnownPalette
  <2>5. HandlerInv'
    BY <1>1, <2>2, <2>3, <2>4
       DEF DecodeSetCalibration, globals, attrs, env, IInv, HandlerInv, ConfigInHand,
           CalibInHand, AttributesFollow, SavePending
  <2>6. commands' \in Nat
    <3>1. commands' = commands + 1
      BY <1>1 DEF DecodeSetCalibration
    <3>2. commands \in Nat
      BY DEF IInv, TypeOK
    <3> QED BY <3>1, <3>2
  <2> QED
    BY <1>1, <2>3, <2>4, <2>5, <2>6
       DEF DecodeSetCalibration, globals, nvs, attrs, render, env, IInv, TypeOK,
           HistoryTyped, OneRecord, InForceAccepted, PinIsOurs, KnownPalette,
           PolicyFollows
<1>2. CASE RejectPalette
  <2>1. HandlerInv'
    BY <1>2 DEF RejectPalette, globals, attrs, history, env, IInv, HandlerInv,
                ConfigInHand, CalibInHand, AttributesFollow, SavePending,
                KnownPalette
  <2>2. Identity \in Calibrations
    BY SettingsAssumption DEF Calibrations, Identity
  <2> QED
    BY <1>2, <2>1, <2>2
       DEF RejectPalette, globals, nvs, attrs, render, env, history, IInv, TypeOK,
           HistoryTyped, OneRecord, InForceAccepted, PinIsOurs, KnownPalette,
           PolicyFollows
<1>3. CASE ApplyCalibration
  <2>1. HandlerInv'
    BY <1>3 DEF ApplyCalibration, attrs, env, IInv, HandlerInv, ConfigInHand,
                CalibInHand, AttributesFollow, SavePending, KnownPalette
  <2>2. hNew \in Calibrations
    BY <1>3 DEF ApplyCalibration, IInv, HandlerInv, CalibInHand
  <2>3. PolicyOf(hNew) \in Policies
    BY <2>2 DEF PolicyOf, Policies, Calibrations
  <2> QED
    BY <1>3, <2>1, <2>2, <2>3
       DEF ApplyCalibration, nvs, attrs, render, env, IInv, TypeOK,
           HistoryTyped, OneRecord, InForceAccepted, PinIsOurs, KnownPalette,
           PolicyFollows
<1>4. CASE SaveCalibration
  <2>1. HandlerInv'
    BY <1>4 DEF SaveCalibration, globals, attrs, env, IInv, HandlerInv,
                ConfigInHand, CalibInHand, AttributesFollow, SavePending
  <2>2. hNew \in Calibrations
    BY <1>4 DEF SaveCalibration, IInv, HandlerInv, CalibInHand
  <2>3. OneRecord' /\ nvs_calib' \in SUBSET Calibrations
    BY <1>4, <2>2 DEF SaveCalibration, IInv, OneRecord, TypeOK
  <2>4. unsaved' \subseteq {"config", "calib"}
    BY <1>4 DEF SaveCalibration, IInv, TypeOK
  <2> QED
    BY <1>4, <2>1, <2>3, <2>4
       DEF SaveCalibration, globals, attrs, render, env, IInv, TypeOK,
           HistoryTyped, InForceAccepted, PinIsOurs, KnownPalette, PolicyFollows
<1>5. CASE ReportCalibration
  <2>1. HandlerInv'
    BY <1>5 DEF ReportCalibration, globals, attrs, history, env, IInv, HandlerInv,
                ConfigInHand, CalibInHand, AttributesFollow, SavePending
  <2>2. Identity \in Calibrations
    BY SettingsAssumption DEF Calibrations, Identity
  <2>3. hNew = g_calibration
    BY <1>5 DEF ReportCalibration, IInv, HandlerInv, CalibInHand
  <2> QED
    BY <1>5, <2>1, <2>2, <2>3
       DEF ReportCalibration, globals, nvs, render, env, history, IInv, TypeOK,
           HistoryTyped, OneRecord, InForceAccepted, PinIsOurs, KnownPalette,
           PolicyFollows
<1> QED BY <1>1, <1>2, <1>3, <1>4, <1>5 DEF SetCalibration

-----------------------------------------------------------------------------
(* The render task, and the steps together *)

LEMMA RenderStep == IInv /\ RenderTask => IInv'
<1> SUFFICES ASSUME IInv, RenderTask PROVE IInv'
    OBVIOUS
<1>1. /\ UNCHANGED <<globals, nvs, attrs, handler, env, history>>
      /\ rPc' \in {"snapshot", "draw"}
      /\ have_rendered_frame' \in BOOLEAN
  BY DEF RenderTask, Snapshot, Draw, IInv, TypeOK
<1>2. HandlerInv'
  BY <1>1 DEF globals, attrs, handler, env, history, IInv, HandlerInv, ConfigInHand,
              CalibInHand, AttributesFollow, SavePending, Acceptable, KnownPalette
<1> QED
  BY <1>1, <1>2
     DEF globals, nvs, attrs, handler, env, history, IInv, TypeOK, HistoryTyped,
         OneRecord, InForceAccepted, PinIsOurs, KnownPalette, PolicyFollows

LEMMA InvStep == IInv /\ [Next]_vars => IInv'
<1> SUFFICES ASSUME IInv, [Next]_vars PROVE IInv'
    OBVIOUS
<1>1. CASE UNCHANGED vars
  <2>1. HandlerInv'
    BY <1>1 DEF vars, globals, attrs, handler, env, history, IInv, HandlerInv,
                ConfigInHand, CalibInHand, AttributesFollow, SavePending,
                Acceptable, KnownPalette
  <2> QED
    BY <1>1, <2>1
       DEF vars, globals, nvs, attrs, handler, render, env, history, IInv, TypeOK,
           HistoryTyped, OneRecord, InForceAccepted, PinIsOurs, KnownPalette,
           PolicyFollows
<1> QED BY <1>1, ConfigStep, CalibStep, RenderStep, RebootStep DEF Next

\* The invariant in every behaviour.
LEMMA InvAlways == Spec => []IInv
BY InvInit, InvStep, PTL DEF Spec

-----------------------------------------------------------------------------
(* What the next boot finds *)

\* A step that touches no record, no setting and no build changes nothing in
\* what the next boot would load.
LEMMA LoadsTheSame ==
    /\ nvs_node' = nvs_node /\ fw' = fw => LoadConfig(nvs_node)' = LoadConfig(nvs_node)
    /\ nvs_calib' = nvs_calib /\ fw' = fw => LoadCalib(nvs_calib)' = LoadCalib(nvs_calib)
<1>1. ASSUME nvs_node' = nvs_node, fw' = fw
      PROVE  LoadConfig(nvs_node)' = LoadConfig(nvs_node)
  BY <1>1 DEF LoadConfig, Defaults
<1>2. ASSUME nvs_calib' = nvs_calib, fw' = fw
      PROVE  LoadCalib(nvs_calib)' = LoadCalib(nvs_calib)
  BY <1>2 DEF LoadCalib, KnownPalette
<1> QED BY <1>1, <1>2

LEMMA SurviveStep == IInv /\ IInv' /\ SettingsSurvive /\ [Next]_vars => SettingsSurvive'
<1> SUFFICES ASSUME IInv, IInv', SettingsSurvive, [Next]_vars PROVE SettingsSurvive'
    OBVIOUS
<1>1. ASSUME UNCHANGED <<globals, nvs, fw, unsaved>> PROVE SettingsSurvive'
  BY <1>1, LoadsTheSame DEF globals, nvs, SettingsSurvive
<1>2. CASE ApplyConfig
  <2>1. "config" \in unsaved' /\ ("calib" \notin unsaved' => "calib" \notin unsaved)
    BY <1>2 DEF ApplyConfig
  <2>2. g_calibration' = g_calibration /\ nvs_calib' = nvs_calib /\ fw' = fw
    BY <1>2 DEF ApplyConfig, nvs, env
  <2> QED BY <2>1, <2>2, LoadsTheSame DEF SettingsSurvive
<1>3. CASE SaveConfig
  <2>1. "config" \notin unsaved' => nvs_node' = {hNew}
    BY <1>3 DEF SaveConfig, IInv, HandlerInv, SavePending
  <2>2. /\ g_node' = g_node /\ g_calibration' = g_calibration
        /\ nvs_calib' = nvs_calib /\ fw' = fw
        /\ "calib" \notin unsaved' => "calib" \notin unsaved
    BY <1>3 DEF SaveConfig, globals, env
  <2>3. /\ hNew = g_node /\ hNew \in Configs
        /\ g_node.segment # 0 /\ g_node.gpio = Pin[fw]
    BY <1>3 DEF SaveConfig, IInv, HandlerInv, ConfigInHand, InForceAccepted, PinIsOurs
  <2>4. LoadConfig({hNew}) = hNew
    BY <2>3, LoadsAcceptedConfig
  <2>5. "config" \notin unsaved' => LoadConfig(nvs_node)' = g_node'
    BY <2>1, <2>2, <2>3, <2>4 DEF LoadConfig, Defaults
  <2> QED BY <2>2, <2>5, LoadsTheSame DEF SettingsSurvive
<1>4. CASE ApplyCalibration
  <2>1. "calib" \in unsaved' /\ ("config" \notin unsaved' => "config" \notin unsaved)
    BY <1>4 DEF ApplyCalibration
  <2>2. g_node' = g_node /\ nvs_node' = nvs_node /\ fw' = fw
    BY <1>4 DEF ApplyCalibration, nvs, env
  <2> QED BY <2>1, <2>2, LoadsTheSame DEF SettingsSurvive
<1>5. CASE SaveCalibration
  <2>1. "calib" \notin unsaved' => nvs_calib' = {hNew}
    BY <1>5 DEF SaveCalibration, IInv, HandlerInv, SavePending
  <2>2. /\ g_node' = g_node /\ g_calibration' = g_calibration
        /\ nvs_node' = nvs_node /\ fw' = fw
        /\ "config" \notin unsaved' => "config" \notin unsaved
    BY <1>5 DEF SaveCalibration, globals, env
  <2>3. hNew = g_calibration /\ KnownPalette(g_calibration.palette)
    BY <1>5 DEF SaveCalibration, IInv, HandlerInv, CalibInHand, InForceAccepted
  <2>4. LoadCalib({hNew}) = hNew
    BY <2>3, LoadsAcceptedCalib
  <2>5. "calib" \notin unsaved' => LoadCalib(nvs_calib)' = g_calibration'
    BY <2>1, <2>2, <2>3, <2>4 DEF LoadCalib, KnownPalette
  <2> QED BY <2>2, <2>5, LoadsTheSame DEF SettingsSurvive
<1>6. CASE Reboot
  BY <1>6 DEF Reboot, SettingsSurvive
<1>7. CASE DecodeSetNodeConfig \/ RejectConfig \/ ReportConfig
  BY <1>1, <1>7 DEF DecodeSetNodeConfig, RejectConfig, ReportConfig, env, history
<1>8. CASE DecodeSetCalibration \/ RejectPalette \/ ReportCalibration
  BY <1>1, <1>8 DEF DecodeSetCalibration, RejectPalette, ReportCalibration, env, history
<1>9. CASE RenderTask
  BY <1>1, <1>9 DEF RenderTask, Snapshot, Draw, env, history
<1>10. CASE UNCHANGED vars
  BY <1>1, <1>10 DEF vars, env, history
<1> QED
  BY <1>2, <1>3, <1>4, <1>5, <1>6, <1>7, <1>8, <1>9, <1>10
     DEF Next, SetNodeConfig, SetCalibration

-----------------------------------------------------------------------------
(* What the render task holds *)

LEMMA CoherentStep ==
    PolicyFollows /\ FrameIsCoherent /\ [Next]_vars => FrameIsCoherent'
<1> SUFFICES ASSUME PolicyFollows, FrameIsCoherent, [Next]_vars PROVE FrameIsCoherent'
    OBVIOUS
<1>1. Blank.policy = PolicyOf(Blank.calib)
  BY DEF Blank
<1>2. CASE Snapshot
  <2>1. rSnap'.policy = PolicyOf(rSnap'.calib)
    BY <1>2 DEF Snapshot, PolicyFollows
  <2> QED BY <1>2, <2>1 DEF Snapshot, FrameIsCoherent
<1>3. CASE Draw
  BY <1>1, <1>3 DEF Draw, FrameIsCoherent
<1>4. CASE Reboot
  BY <1>1, <1>4 DEF Reboot, FrameIsCoherent
<1>5. CASE UNCHANGED render
  BY <1>5 DEF render, FrameIsCoherent
<1> QED
  BY <1>2, <1>3, <1>4, <1>5
     DEF Next, SetNodeConfig, DecodeSetNodeConfig, RejectConfig, ApplyConfig,
         SaveConfig, ReportConfig, SetCalibration, DecodeSetCalibration,
         RejectPalette, ApplyCalibration, SaveCalibration, ReportCalibration,
         RenderTask, vars

-----------------------------------------------------------------------------
(* Theorems *)

\* Types: every setting in force, saved, reported or worked on is a
\* configuration or a calibration, whatever the tags of a command.
THEOREM Typed == Spec => []TypeOK
BY InvAlways, PTL DEF IInv

\* Between commands, every knob holds the value the last accepted command that
\* named it carried, or what the boot loaded.
THEOREM KnobsAreKept == Spec => []NoKnobLost
<1>1. IInv => NoKnobLost
  BY DEF IInv, HandlerInv, ConfigInHand, CalibInHand, NoKnobLost
<1> QED BY <1>1, InvAlways, PTL

\* Between commands, the attributes are the settings in force.
THEOREM AttributesAreKept == Spec => []AttributesMirror
<1>1. IInv => AttributesMirror
  BY DEF IInv, HandlerInv, AttributesFollow, AttributesMirror
<1> QED BY <1>1, InvAlways, PTL

\* The node drives, and reports, the pin of the build it runs, and never an
\* empty layout, across power losses and changes of build.
THEOREM PinIsKept == Spec => []PinIsOurs
BY InvAlways, PTL DEF IInv, InForceAccepted

\* What was saved is what the next boot of the same build loads.
THEOREM SavedSettingsSurvive == Spec => []SettingsSurvive
<1>1. Init => SettingsSurvive
  BY DEF Init, SettingsSurvive, LoadConfig, LoadCalib
<1> QED BY <1>1, SurviveStep, InvAlways, PTL DEF Spec

\* A pass draws with a calibration and an output policy of the same command.
THEOREM FramesAreCoherent == Spec => []FrameIsCoherent
<1>1. Init => FrameIsCoherent
  BY DEF Init, FrameIsCoherent, Blank
<1>2. IInv => PolicyFollows
  BY DEF IInv
<1> QED BY <1>1, <1>2, CoherentStep, InvAlways, PTL DEF Spec

=============================================================================
