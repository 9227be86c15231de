---------------------------- MODULE Console_proofs ----------------------------
(***************************************************************************)
(* Proofs about what the requests of the Edge Console do to the            *)
(* configuration (PlatformConfig); beside the agent, to the detection      *)
(* policy (PolicyControl); and beside the timer's script, to the fallback  *)
(* networks (WifiFailover), for any settings, policies, networks, requests *)
(* and kills.                                                              *)
(***************************************************************************)
EXTENDS PlatformConfig, PolicyControl, WifiFailover, TLAPS

USE DEF configVars

LEMMA DefaultTypes ==
  /\ Defaults \in Configs /\ Torn \notin Configs
  /\ NewForm \in [stage : FormStages, work : Configs, tenant : Tenants \union {NoTenant}]
<1>1. Defaults \in Configs
  BY ConfigAssumption DEF Defaults, Configs
<1>2. Torn \notin Configs
  BY DEF Torn, Configs
<1>3. NewForm \in [stage : FormStages, work : Configs, tenant : Tenants \union {NoTenant}]
  BY <1>1 DEF NewForm, FormStages
<1>4. QED
  BY <1>1, <1>2, <1>3

\* What load returns.
LEMMA LoadType == ConfigTypeOK => LoadConfig \in Configs /\ (config # Torn => LoadConfig = config)
BY DefaultTypes DEF ConfigTypeOK, LoadConfig

\* What a registration records.
LEMMA RecordingType ==
  ASSUME ConfigTypeOK, NEW r \in Forms, NEW c \in Configs
  PROVE  Recording(r, c) \in Configs /\ Recording(r, c).setting = c.setting
<1>1. thread[r].tenant \in Tenants \union {NoTenant}
  BY DEF ConfigTypeOK
<1>2. QED
  BY <1>1 DEF Recording, Configs

LEMMA TypeInit == ConfigInit => ConfigTypeOK
<1> SUFFICES ASSUME ConfigInit PROVE ConfigTypeOK
  OBVIOUS
<1> USE DEF ConfigInit
<1>1. captureEnv \in Configs
  BY DefaultTypes
<1>2. consoleKills \in 0 .. MaxConsoleKills
  BY ConfigAssumption
<1>3. thread \in [Forms -> [stage : FormStages, work : Configs, tenant : Tenants \union {NoTenant}]]
  BY DefaultTypes
<1>4. QED
  BY <1>1, <1>2, <1>3, DefaultTypes DEF ConfigTypeOK

-----------------------------------------------------------------------------

LEMMA TypeNext == ConfigTypeOK /\ [ConfigNext]_configVars => ConfigTypeOK'
<1> SUFFICES ASSUME ConfigTypeOK, [ConfigNext]_configVars PROVE ConfigTypeOK'
  OBVIOUS
<1> DEFINE FormRecords == [stage : FormStages, work : Configs, tenant : Tenants \union {NoTenant}]
<1> USE DEF ConfigTypeOK
<1>0. LoadConfig \in Configs
  BY LoadType
<1>1. CASE UNCHANGED configVars
  BY <1>1
<1>2. ASSUME NEW r \in Edits, NEW f \in Fields, NEW v \in Values, EditSetting(r, f, v)
      PROVE  ConfigTypeOK'
  <2>1. [LoadConfig EXCEPT !.setting[f] = v] \in Configs
    BY <1>0 DEF Configs
  <2>2. [wanted EXCEPT !.setting[f] = v] \in Configs
    BY DEF Configs
  <2>3. thread' \in [Forms -> FormRecords]
    BY <1>2, <2>1 DEF EditSetting, Forms, FormStages
  <2>4. overlap' \in BOOLEAN /\ together' \in BOOLEAN
    BY <1>2 DEF EditSetting
  <2>5. QED
    BY <1>2, <2>2, <2>3, <2>4 DEF EditSetting
<1>3. ASSUME NEW r \in Registrations, AskPlatform(r)
      PROVE  ConfigTypeOK'
  <2>1. thread' \in [Forms -> FormRecords]
    BY <1>0, <1>3 DEF AskPlatform, Forms, FormStages
  <2>2. QED
    BY <1>3, <2>1 DEF AskPlatform
<1>4. ASSUME NEW r \in Registrations, NEW t \in Tenants \union {NoTenant}, PlatformAnswers(r, t)
      PROVE  ConfigTypeOK'
  <2>1. thread' \in [Forms -> FormRecords]
    BY <1>4 DEF PlatformAnswers, Forms, FormStages
  <2>2. QED
    BY <1>4, <2>1 DEF PlatformAnswers
<1>5. ASSUME NEW r \in Registrations, RecordRegistration(r)
      PROVE  ConfigTypeOK'
  <2>1. Recording(r, LoadConfig) \in Configs /\ Recording(r, wanted) \in Configs
    BY <1>0, RecordingType DEF Forms
  <2>2. thread' \in [Forms -> FormRecords]
    BY <1>5, <2>1 DEF RecordRegistration, Forms, FormStages
  <2>3. overlap' \in BOOLEAN
    BY <1>5 DEF RecordRegistration
  <2>4. QED
    BY <1>5, <2>1, <2>2, <2>3 DEF RecordRegistration
<1>6. ASSUME NEW r \in Forms, TruncateConfig(r)
      PROVE  ConfigTypeOK'
  <2>1. thread' \in [Forms -> FormRecords]
    BY <1>6 DEF TruncateConfig, FormStages
  <2>2. QED
    BY <1>6, <2>1 DEF TruncateConfig
<1>7. ASSUME NEW r \in Forms, WriteConfig(r)
      PROVE  ConfigTypeOK'
  <2>1. [thread[r] EXCEPT !.stage = "env"] \in FormRecords /\ [NewForm EXCEPT !.stage = "done"] \in FormRecords
    BY DefaultTypes DEF FormStages
  <2>2. thread' \in [Forms -> FormRecords]
    BY <1>7, <2>1 DEF WriteConfig
  <2>3. config' \in Configs \union {Torn}
    BY <1>7 DEF WriteConfig
  <2>4. QED
    BY <1>7, <2>2, <2>3 DEF WriteConfig
<1>8. ASSUME NEW r \in Edits, SyncEnv(r)
      PROVE  ConfigTypeOK'
  <2>1. [NewForm EXCEPT !.stage = "done"] \in FormRecords
    BY DefaultTypes DEF FormStages
  <2>2. thread' \in [Forms -> FormRecords]
    BY <1>8, <2>1 DEF SyncEnv
  <2>3. captureEnv' \in Configs
    BY <1>8 DEF SyncEnv, Forms
  <2>4. QED
    BY <1>8, <2>2, <2>3 DEF SyncEnv
<1>9. CASE KillConsole
  <2>1. [NewForm EXCEPT !.stage = "done"] \in FormRecords
    BY DefaultTypes DEF FormStages
  <2>2. thread' \in [Forms -> FormRecords]
    BY <1>9, <2>1 DEF KillConsole
  <2>3. consoleKills' \in 0 .. MaxConsoleKills /\ cut' \in BOOLEAN
    BY <1>9, ConfigAssumption DEF KillConsole
  <2>4. QED
    BY <1>0, <1>9, <2>2, <2>3 DEF KillConsole
<1>10. QED
  BY <1>1, <1>2, <1>3, <1>4, <1>5, <1>6, <1>7, <1>8, <1>9 DEF ConfigNext

\* The configuration, capture.env and the requests are well typed in every
\* reachable state, for any settings, requests and kills.
THEOREM ConfigTypeCorrect == ConfigSpec => []ConfigTypeOK
BY TypeInit, TypeNext, PTL DEF ConfigSpec

-----------------------------------------------------------------------------
\* While no request loads what another is saving, one at most saves, and it saves
\* the intended configuration; an edit and a registration differ in their stages.
SavingInv ==
  /\ \A r \in Edits : thread[r].stage \notin {"registering", "load"}
  /\ \A r \in Registrations : thread[r].stage # "env"
  /\ ~overlap =>
       /\ \A r, q \in Forms : Saving(r) /\ Saving(q) => r = q
       /\ \A r \in Forms : thread[r].stage = "write" => config = Torn
  /\ ~overlap /\ ~cut =>
       /\ \A r \in Forms : Saving(r) => thread[r].work = wanted
       /\ config = wanted \/ \E r \in Forms : Saving(r)

\* While edits do not meet either, there is one at most, and it works on the
\* intended settings; with none, they are those of capture.env.  A configuration
\* that is not being edited has the intended settings, and those of capture.env
\* until an edit is about to copy them.  So it is with the tenant, while none has
\* been recorded since the edit loaded it.
EnvInv ==
  /\ ~together => \A r, q \in Edits : Running(r) /\ Running(q) => r = q
  /\ ~overlap /\ ~cut /\ config # Torn =>
       ((\A r \in Edits : ~Saving(r)) => config.setting = wanted.setting)
  /\ ~overlap /\ ~cut /\ ~together =>
       /\ (\A r \in Edits : ~Running(r)) => captureEnv.setting = wanted.setting
       /\ \A r \in Edits : Running(r) => thread[r].work.setting = wanted.setting
       /\ config # Torn /\ (\A r \in Edits : thread[r].stage # "env") =>
            captureEnv.setting = config.setting

EnvTenantInv ==
  ~overlap /\ ~cut /\ ~registered =>
    /\ config # Torn => config.tenant = wanted.tenant
    /\ ~together =>
         /\ (\A r \in Edits : ~Running(r)) => captureEnv.tenant = wanted.tenant
         /\ \A r \in Edits : Running(r) => thread[r].work.tenant = wanted.tenant

LEMMA SavingInit == ConfigInit => SavingInv /\ EnvInv /\ EnvTenantInv
<1> SUFFICES ASSUME ConfigInit PROVE SavingInv /\ EnvInv /\ EnvTenantInv
  OBVIOUS
<1>1. \A r \in Forms : thread[r].stage = "new"
  BY DEF ConfigInit, NewForm
<1>2. Edits \subseteq Forms /\ Registrations \subseteq Forms
  BY DEF Forms
<1>3. SavingInv
  BY <1>1, <1>2 DEF ConfigInit, SavingInv, Saving
<1>4. EnvInv
  BY <1>1, <1>2 DEF ConfigInit, EnvInv, Saving, Running
<1>5. EnvTenantInv
  BY <1>1, <1>2 DEF ConfigInit, EnvTenantInv, Running
<1>6. QED
  BY <1>3, <1>4, <1>5

LEMMA SavingNext == ConfigTypeOK /\ SavingInv /\ [ConfigNext]_configVars => SavingInv'
<1> SUFFICES ASSUME ConfigTypeOK, SavingInv, [ConfigNext]_configVars PROVE SavingInv'
  OBVIOUS
<1> USE DEF SavingInv, Saving
<1>0. /\ Edits \subseteq Forms /\ Registrations \subseteq Forms
      /\ Edits \intersect Registrations = {}
      /\ wanted \in Configs /\ wanted # Torn
      /\ DOMAIN thread = Forms
      /\ \A r \in Forms : DOMAIN thread[r] = {"stage", "work", "tenant"}
  BY ConfigAssumption, DefaultTypes DEF Forms, ConfigTypeOK
<1>1. CASE UNCHANGED configVars
  BY <1>1
<1>2. ASSUME NEW r \in Edits, NEW f \in Fields, NEW v \in Values, EditSetting(r, f, v)
      PROVE  SavingInv'
  <2> DEFINE new == [LoadConfig EXCEPT !.setting[f] = v]
  <2>1. /\ thread[r].stage = "new"
        /\ thread'[r].stage = "truncate" /\ thread'[r].work = new
        /\ \A q \in Forms \ {r} : thread'[q] = thread[q]
        /\ wanted' = [wanted EXCEPT !.setting[f] = v]
        /\ overlap' = (overlap \/ Meets(r)) /\ UNCHANGED <<config, cut>>
    BY <1>0, <1>2 DEF EditSetting
  <2>2. ~overlap' => ~overlap /\ \A q \in Forms \ {r} : ~Saving(q)
    BY <2>1 DEF Meets
  <2>3. ~overlap' /\ ~cut' => config = wanted
    BY <2>1, <2>2
  <2>4. ~overlap' /\ ~cut' => new = wanted'
    BY <1>0, <2>1, <2>3, LoadType
  <2> HIDE DEF new
  <2>5. QED
    BY <1>0, <2>1, <2>2, <2>4
<1>3. ASSUME NEW r \in Registrations, AskPlatform(r)
      PROVE  SavingInv'
  <2>1. /\ thread[r].stage = "new" /\ thread'[r].stage = "registering"
        /\ \A q \in Forms \ {r} : thread'[q] = thread[q]
        /\ UNCHANGED <<config, wanted, overlap, cut>>
    BY <1>0, <1>3 DEF AskPlatform
  <2>2. QED
    BY <1>0, <2>1
<1>4. ASSUME NEW r \in Registrations, NEW t \in Tenants \union {NoTenant}, PlatformAnswers(r, t)
      PROVE  SavingInv'
  <2>1. /\ thread[r].stage = "registering" /\ thread'[r].stage = "load"
        /\ \A q \in Forms \ {r} : thread'[q] = thread[q]
        /\ UNCHANGED <<config, wanted, overlap, cut>>
    BY <1>0, <1>4 DEF PlatformAnswers
  <2>2. QED
    BY <1>0, <2>1
<1>5. ASSUME NEW r \in Registrations, RecordRegistration(r)
      PROVE  SavingInv'
  <2>1. /\ thread[r].stage = "load"
        /\ thread'[r].stage = "truncate" /\ thread'[r].work = Recording(r, LoadConfig)
        /\ \A q \in Forms \ {r} : thread'[q] = thread[q]
        /\ wanted' = Recording(r, wanted)
        /\ overlap' = (overlap \/ Meets(r)) /\ UNCHANGED <<config, cut>>
    BY <1>0, <1>5 DEF RecordRegistration
  <2>2. ~overlap' => ~overlap /\ \A q \in Forms \ {r} : ~Saving(q)
    BY <2>1 DEF Meets
  <2>3. ~overlap' /\ ~cut' => config = wanted
    BY <2>1, <2>2
  <2>4. ~overlap' /\ ~cut' => LoadConfig = wanted
    BY <1>0, <2>3, LoadType
  <2>5. QED
    BY <1>0, <2>1, <2>2, <2>4
<1>6. ASSUME NEW r \in Forms, TruncateConfig(r)
      PROVE  SavingInv'
  <2>1. /\ thread[r].stage = "truncate" /\ thread'[r].stage = "write"
        /\ thread'[r].work = thread[r].work
        /\ \A q \in Forms \ {r} : thread'[q] = thread[q]
        /\ config' = Torn /\ UNCHANGED <<wanted, overlap, cut>>
    BY <1>0, <1>6 DEF TruncateConfig
  <2>2. QED
    BY <1>0, <2>1
<1>7. ASSUME NEW r \in Forms, WriteConfig(r)
      PROVE  SavingInv'
  <2>1. /\ thread[r].stage = "write"
        /\ thread'[r].stage = IF r \in Edits THEN "env" ELSE "done"
        /\ \A q \in Forms \ {r} : thread'[q] = thread[q]
        /\ config' = thread[r].work \/ config # Torn
        /\ UNCHANGED <<wanted, overlap, cut>>
    BY <1>0, <1>7 DEF WriteConfig, NewForm
  <2>2. ~overlap => config' = thread[r].work /\ \A q \in Forms \ {r} : ~Saving(q)
    BY <2>1
  <2>3. QED
    BY <1>0, <2>1, <2>2
<1>8. ASSUME NEW r \in Edits, SyncEnv(r)
      PROVE  SavingInv'
  <2>1. /\ thread[r].stage = "env" /\ thread'[r].stage = "done"
        /\ \A q \in Forms \ {r} : thread'[q] = thread[q]
        /\ UNCHANGED <<config, wanted, overlap, cut>>
    BY <1>0, <1>8 DEF SyncEnv, NewForm
  <2>2. QED
    BY <1>0, <2>1
<1>9. CASE KillConsole
  <2>1. /\ \A q \in Forms : thread'[q].stage \in {"new", "done"}
        /\ wanted' = LoadConfig /\ (config = Torn => cut') /\ (cut => cut')
        /\ UNCHANGED <<config, overlap>>
    BY <1>9 DEF KillConsole, Running, NewForm
  <2>2. config # Torn => config = wanted'
    BY <2>1, LoadType
  <2>3. QED
    BY <1>0, <2>1, <2>2
<1>10. QED
  BY <1>1, <1>2, <1>3, <1>4, <1>5, <1>6, <1>7, <1>8, <1>9 DEF ConfigNext

\* NothingReverted: with no request saving, the file holds the last change of every
\* setting and the last tenant, unless a request loaded what another was saving or
\* a kill left the file empty.
THEOREM NothingRevertedCorrect == ConfigSpec => []NothingReverted
<1>1. SavingInv => NothingReverted
  BY DEF SavingInv, NothingReverted
<1>2. ConfigInit => SavingInv
  BY SavingInit
<1>3. QED
  BY <1>1, <1>2, SavingNext, ConfigTypeCorrect, PTL DEF ConfigSpec

-----------------------------------------------------------------------------
LEMMA EnvNext ==
  ConfigTypeOK /\ SavingInv /\ EnvInv /\ [ConfigNext]_configVars => EnvInv'
<1> SUFFICES ASSUME ConfigTypeOK, SavingInv, EnvInv, [ConfigNext]_configVars PROVE EnvInv'
  OBVIOUS
<1> USE DEF EnvInv, SavingInv, Saving, Running
<1>0. /\ Edits \subseteq Forms /\ Registrations \subseteq Forms
      /\ Edits \intersect Registrations = {}
      /\ wanted \in Configs /\ wanted # Torn
      /\ DOMAIN thread = Forms
      /\ \A r \in Forms : DOMAIN thread[r] = {"stage", "work", "tenant"}
      /\ \A r \in Forms : thread[r].stage \in FormStages
  BY ConfigAssumption, DefaultTypes DEF Forms, ConfigTypeOK
<1>1. CASE UNCHANGED configVars
  BY <1>1
<1>2. ASSUME NEW r \in Edits, NEW f \in Fields, NEW v \in Values, EditSetting(r, f, v)
      PROVE  EnvInv'
  <2> DEFINE new == [LoadConfig EXCEPT !.setting[f] = v]
  <2>1. /\ thread[r].stage = "new"
        /\ thread'[r].stage = "truncate" /\ thread'[r].work = new
        /\ \A q \in Forms \ {r} : thread'[q] = thread[q]
        /\ wanted' = [wanted EXCEPT !.setting[f] = v]
        /\ overlap' = (overlap \/ Meets(r))
        /\ together' = (together \/ \E q \in Edits \ {r} : Running(q))
        /\ UNCHANGED <<config, cut, captureEnv>>
    BY <1>0, <1>2 DEF EditSetting
  <2>2. ~overlap' => ~overlap /\ \A q \in Forms \ {r} : ~Saving(q)
    BY <2>1 DEF Meets
  <2>3. ~together' => ~together /\ \A q \in Edits \ {r} : ~Running(q)
    BY <2>1
  <2>4. ~overlap' /\ ~cut' => config = wanted
    BY <2>1, <2>2
  <2>5. ~overlap' /\ ~cut' => new = wanted'
    BY <1>0, <2>1, <2>4, LoadType
  <2> HIDE DEF new
  <2>6. QED
    BY <1>0, <2>1, <2>2, <2>3, <2>5, ZenonT(60)
<1>3. ASSUME NEW r \in Registrations,
             \/ AskPlatform(r)
             \/ \E t \in Tenants \union {NoTenant} : PlatformAnswers(r, t)
      PROVE  EnvInv'
  <2>1. /\ \A q \in Edits : thread'[q] = thread[q]
        /\ UNCHANGED <<config, wanted, overlap, cut, together, captureEnv>>
    BY <1>0, <1>3 DEF AskPlatform, PlatformAnswers
  <2>2. QED
    BY <1>0, <2>1
<1>4. ASSUME NEW r \in Registrations, RecordRegistration(r)
      PROVE  EnvInv'
  <2>1. /\ \A q \in Edits : thread'[q] = thread[q]
        /\ wanted' = Recording(r, wanted)
        /\ overlap => overlap'
        /\ UNCHANGED <<config, cut, together, captureEnv>>
    BY <1>0, <1>4 DEF RecordRegistration
  <2>2. wanted'.setting = wanted.setting
    BY <1>0, <2>1, RecordingType
  <2>3. QED
    BY <1>0, <2>1, <2>2
<1>5. ASSUME NEW r \in Forms, TruncateConfig(r)
      PROVE  EnvInv'
  <2>1. /\ thread[r].stage = "truncate" /\ thread'[r].stage = "write"
        /\ thread'[r].work = thread[r].work
        /\ \A q \in Forms \ {r} : thread'[q] = thread[q]
        /\ config' = Torn /\ UNCHANGED <<wanted, overlap, cut, together, captureEnv>>
    BY <1>0, <1>5 DEF TruncateConfig
  <2>2. QED
    BY <1>0, <2>1
<1>6. ASSUME NEW r \in Forms, WriteConfig(r)
      PROVE  EnvInv'
  <2>1. /\ thread[r].stage = "write"
        /\ \A q \in Forms \ {r} : thread'[q] = thread[q]
        /\ config' = thread[r].work \/ config # Torn
        /\ UNCHANGED <<wanted, overlap, cut, together, captureEnv>>
    BY <1>0, <1>6 DEF WriteConfig
  <2>2. ~overlap => config' = thread[r].work /\ \A q \in Forms \ {r} : ~Saving(q)
    BY <2>1
  <2>3. ~overlap /\ ~cut => config' = wanted
    BY <2>1, <2>2
  <2>4. CASE r \in Edits
    <3>1. thread'[r].stage = "env" /\ thread'[r].work = thread[r].work
      BY <1>0, <1>6, <2>4 DEF WriteConfig
    <3>2. QED
      BY <1>0, <2>1, <2>2, <2>3, <2>4, <3>1
  <2>5. CASE r \notin Edits
    <3>1. \A q \in Edits : thread'[q] = thread[q]
      BY <1>0, <2>1, <2>5
    <3>2. ~overlap => \A q \in Edits : Running(q) => thread[q].stage = "env"
      BY <1>0, <2>2, <2>5 DEF FormStages
    <3>3. QED
      BY <1>0, <2>1, <2>3, <3>1, <3>2
  <2>6. QED
    BY <2>4, <2>5
<1>7. ASSUME NEW r \in Edits, SyncEnv(r)
      PROVE  EnvInv'
  <2>1. /\ thread[r].stage = "env" /\ thread'[r].stage = "done"
        /\ \A q \in Forms \ {r} : thread'[q] = thread[q]
        /\ captureEnv' = thread[r].work
        /\ UNCHANGED <<config, wanted, overlap, cut, together>>
    BY <1>0, <1>7 DEF SyncEnv, NewForm
  <2>2. ~together => \A q \in Edits \ {r} : ~Running(q)
    BY <2>1
  <2>3. ~overlap /\ ~cut /\ ~together => captureEnv'.setting = wanted.setting
    BY <2>1
  <2>4. ~overlap /\ ~cut /\ ~together /\ config # Torn => config.setting = wanted.setting
    BY <2>1, <2>2
  <2>5. QED
    BY <1>0, <2>1, <2>2, <2>3, <2>4
<1>8. CASE KillConsole
  <2>1. /\ \A q \in Forms : thread'[q].stage \in {"new", "done"}
        /\ wanted' = LoadConfig /\ (cut => cut')
        /\ UNCHANGED <<config, overlap, together, captureEnv>>
    BY <1>8 DEF KillConsole, NewForm
  <2>2. ~cut' => config # Torn /\ \A q \in Edits : thread[q].stage # "env"
    BY <1>8 DEF KillConsole
  <2>3. config # Torn => config = wanted'
    BY <2>1, LoadType
  <2>4. QED
    BY <1>0, <2>1, <2>2, <2>3
<1>9. QED
  BY <1>1, <1>2, <1>3, <1>4, <1>5, <1>6, <1>7, <1>8 DEF ConfigNext

\* An edit that loads is of the tenant recorded; one recorded later is excepted.
LEMMA EnvTenantNext ==
  ConfigTypeOK /\ SavingInv /\ EnvInv /\ EnvTenantInv /\ [ConfigNext]_configVars => EnvTenantInv'
<1> SUFFICES ASSUME ConfigTypeOK, SavingInv, EnvInv, EnvTenantInv, [ConfigNext]_configVars,
                    ~overlap', ~cut', ~registered'
             PROVE  /\ config' # Torn => config'.tenant = wanted'.tenant
                    /\ ~together' =>
                         /\ (\A r \in Edits : ~Running(r)') => captureEnv'.tenant = wanted'.tenant
                         /\ \A r \in Edits : Running(r)' => thread'[r].work.tenant = wanted'.tenant
  BY DEF EnvTenantInv
<1> DEFINE Goal == /\ config' # Torn => config'.tenant = wanted'.tenant
                   /\ ~together' =>
                        /\ (\A r \in Edits : ~Running(r)') => captureEnv'.tenant = wanted'.tenant
                        /\ \A r \in Edits : Running(r)' => thread'[r].work.tenant = wanted'.tenant
<1> USE DEF EnvTenantInv, SavingInv, Saving, Running
<1>0. /\ Edits \subseteq Forms /\ Registrations \subseteq Forms
      /\ Edits \intersect Registrations = {}
      /\ wanted \in Configs /\ wanted # Torn
      /\ DOMAIN thread = Forms
      /\ \A r \in Forms : DOMAIN thread[r] = {"stage", "work", "tenant"}
  BY ConfigAssumption, DefaultTypes DEF Forms, ConfigTypeOK
<1>1. CASE UNCHANGED configVars
  BY <1>1
<1>2. ASSUME NEW r \in Edits, NEW f \in Fields, NEW v \in Values, EditSetting(r, f, v)
      PROVE  Goal
  <2> DEFINE new == [LoadConfig EXCEPT !.setting[f] = v]
  <2>1. /\ thread'[r].stage = "truncate" /\ thread'[r].work = new
        /\ \A q \in Forms \ {r} : thread'[q] = thread[q]
        /\ wanted' = [wanted EXCEPT !.setting[f] = v]
        /\ overlap' = (overlap \/ Meets(r))
        /\ together' = (together \/ \E q \in Edits \ {r} : Running(q))
        /\ UNCHANGED <<config, cut>>
    BY <1>0, <1>2 DEF EditSetting
  <2>2. thread[r].stage = "new" /\ \A q \in Forms : ~Saving(q)
    BY <1>2, <2>1 DEF Meets, EditSetting
  <2>3. config = wanted
    BY <2>1, <2>2
  <2>4. new.tenant = wanted'.tenant /\ config'.tenant = wanted'.tenant
    BY <1>0, <2>1, <2>3, LoadType DEF Configs
  <2> HIDE DEF new
  <2>5. ~together' => \A q \in Edits \ {r} : ~Running(q)'
    BY <1>0, <2>1
  <2>6. QED
    BY <1>0, <2>1, <2>4, <2>5
<1>3. ASSUME NEW r \in Registrations,
             \/ AskPlatform(r)
             \/ \E t \in Tenants \union {NoTenant} : PlatformAnswers(r, t)
      PROVE  Goal
  <2>1. /\ \A q \in Edits : thread'[q] = thread[q]
        /\ UNCHANGED <<config, wanted, overlap, cut, together, registered, captureEnv>>
    BY <1>0, <1>3 DEF AskPlatform, PlatformAnswers
  <2>2. QED
    BY <1>0, <2>1
<1>4. ASSUME NEW r \in Registrations, RecordRegistration(r)
      PROVE  Goal
  <2>1. /\ \A q \in Edits : thread'[q] = thread[q]
        /\ wanted' = Recording(r, wanted)
        /\ (overlap => overlap') /\ ~registered /\ thread[r].tenant = NoTenant
        /\ UNCHANGED <<config, cut, together, captureEnv>>
    BY <1>0, <1>4 DEF RecordRegistration
  <2>2. wanted' = wanted
    BY <2>1 DEF Recording
  <2>3. QED
    BY <1>0, <2>1, <2>2
<1>5. ASSUME NEW r \in Forms, TruncateConfig(r)
      PROVE  Goal
  <2>1. /\ thread[r].stage = "truncate" /\ thread'[r].stage = "write"
        /\ thread'[r].work = thread[r].work
        /\ \A q \in Forms \ {r} : thread'[q] = thread[q]
        /\ config' = Torn /\ UNCHANGED <<wanted, overlap, cut, together, registered, captureEnv>>
    BY <1>0, <1>5 DEF TruncateConfig
  <2>2. QED
    BY <1>0, <2>1
<1>6. ASSUME NEW r \in Forms, WriteConfig(r)
      PROVE  Goal
  <2>1. /\ thread[r].stage = "write"
        /\ \A q \in Forms \ {r} : thread'[q] = thread[q]
        /\ config' = thread[r].work \/ config # Torn
        /\ UNCHANGED <<wanted, overlap, cut, together, registered, captureEnv>>
    BY <1>0, <1>6 DEF WriteConfig
  <2>2. config' = wanted'
    BY <2>1
  <2>3. CASE r \in Edits
    <3>1. thread'[r].stage = "env" /\ thread'[r].work = thread[r].work
      BY <1>0, <1>6, <2>3 DEF WriteConfig
    <3>2. QED
      BY <1>0, <2>1, <2>2, <2>3, <3>1
  <2>4. CASE r \notin Edits
    <3>1. \A q \in Edits : thread'[q] = thread[q]
      BY <1>0, <2>1, <2>4
    <3>2. QED
      BY <1>0, <2>1, <2>2, <3>1
  <2>5. QED
    BY <2>3, <2>4
<1>7. ASSUME NEW r \in Edits, SyncEnv(r)
      PROVE  Goal
  <2>1. /\ thread[r].stage = "env" /\ thread'[r].stage = "done"
        /\ \A q \in Forms \ {r} : thread'[q] = thread[q]
        /\ captureEnv' = thread[r].work
        /\ UNCHANGED <<config, wanted, overlap, cut, together, registered>>
    BY <1>0, <1>7 DEF SyncEnv, NewForm
  <2>2. ~together => thread[r].work.tenant = wanted.tenant
    BY <2>1
  <2>3. QED
    BY <1>0, <2>1, <2>2
<1>8. CASE KillConsole
  <2>1. /\ \A q \in Forms : thread'[q].stage \in {"new", "done"}
        /\ wanted' = LoadConfig /\ ~cut /\ ~registered /\ config # Torn
        /\ \A q \in Edits : ~Running(q)
        /\ UNCHANGED <<config, overlap, together, captureEnv>>
    BY <1>8 DEF KillConsole, NewForm
  <2>2. wanted' = config /\ config.tenant = wanted.tenant
    BY <2>1, LoadType
  <2>3. QED
    BY <1>0, <2>1, <2>2
<1>9. QED
  BY <1>1, <1>2, <1>3, <1>4, <1>5, <1>6, <1>7, <1>8 DEF ConfigNext

\* EnvFollowsConfig: with no request under way, capture.env holds the settings of
\* the file, unless edits met, a request loaded what another was saving, or a kill
\* came between the two writes; and its tenant, unless one was recorded since.
THEOREM EnvFollowsCorrect == ConfigSpec => []EnvFollowsConfig
<1>1. ConfigTypeOK /\ SavingInv /\ EnvInv /\ EnvTenantInv => EnvFollowsConfig
  <2> SUFFICES ASSUME ConfigTypeOK, SavingInv, EnvInv, EnvTenantInv,
                      \A r \in Forms : ~Running(r), ~together, ~overlap, ~cut
               PROVE  /\ captureEnv.setting = LoadConfig.setting
                      /\ captureEnv.tenant = LoadConfig.tenant \/ registered
    BY DEF EnvFollowsConfig
  <2>1. config = wanted
    BY DEF SavingInv, Saving, Running
  <2>2. LoadConfig = wanted
    BY <2>1, LoadType, DefaultTypes DEF ConfigTypeOK
  <2>3. QED
    BY <2>2 DEF EnvInv, EnvTenantInv, Forms
<1>2. QED
  BY <1>1, SavingInit, SavingNext, EnvNext, EnvTenantNext, ConfigTypeCorrect, PTL DEF ConfigSpec

\* ConfigKept: the two of them.
THEOREM ConfigKeptCorrect == ConfigSpec => []ConfigKept
<1>1. NothingReverted /\ EnvFollowsConfig => ConfigKept
  BY DEF ConfigKept
<1>2. QED
  BY <1>1, NothingRevertedCorrect, EnvFollowsCorrect, PTL

-----------------------------------------------------------------------------
\* PolicyControl: the types.

Entries == [version : Versions, base : Baselines \union {NotGiven}]

RequestRecords ==
  [at : {"new", "read", "replace", "stamp", "history", "record", "done"},
   base : Baselines \union {NotGiven}, policy : PolicyTexts, version : Versions,
   doc : Seq(Entries)]

\* PolicyTypeOK, with the requests' records and the versions kept in full.
PolicyTypeInv ==
  /\ PolicyTypeOK
  /\ req \in [Requests -> RequestRecords]
  /\ history \in Seq(Entries)
  /\ agentAt \in {"truncate", "write"} => accepted \in Artifacts

\* A request's step changes its own record.
LEMMA RequestSteps ==
  ASSUME PolicyTypeInv, NEW r \in Requests
  PROVE  /\ \A base : Begin(r, base) => req' = [req EXCEPT ![r] = [req[r] EXCEPT !.at = "read", !.base = base]]
         /\ ReadPolicy(r) => req' = [req EXCEPT ![r] = [req[r] EXCEPT !.at = "replace", !.policy = file]]
         /\ ReplacePolicy(r) =>
              req' = [req EXCEPT ![r] = [req[r] EXCEPT !.at = "stamp", !.version = <<"c", now>>,
                                                       !.policy = NoPolicy]]
         /\ StampPolicy(r) => req' = [req EXCEPT ![r] = [req[r] EXCEPT !.at = "history"]]
         /\ ReadHistory(r) => req' = [req EXCEPT ![r] = [req[r] EXCEPT !.at = "record", !.doc = history]]
         /\ WriteHistory(r) => req' = [req EXCEPT ![r] = [NewRequest EXCEPT !.at = "done",
                                                                            !.version = req[r].version]]
BY DEF PolicyTypeInv, RequestRecords, Begin, ReadPolicy, ReplacePolicy, StampPolicy, ReadHistory,
       WriteHistory

LEMMA VersionTypes ==
  /\ <<>> \in Versions /\ NoPolicy \in PolicyTexts /\ NewRequest \in RequestRecords
  /\ \A n \in 1 .. MaxPublished : <<"p", n>> \in Versions
  /\ \A n \in 0 .. MaxSeconds : <<"c", n>> \in Versions
<1>1. /\ <<>> \in Versions
      /\ \A n \in 1 .. MaxPublished : <<"p", n>> \in Versions
      /\ \A n \in 0 .. MaxSeconds : <<"c", n>> \in Versions
  BY DEF Versions
<1>2. NoPolicy \in PolicyTexts
  BY <1>1 DEF NoPolicy, PolicyTexts
<1>3. NewRequest \in RequestRecords
  BY <1>1, <1>2 DEF NewRequest, RequestRecords
<1> QED
  BY <1>1, <1>2, <1>3

\* And stays a request's record.
LEMMA RecordSteps ==
  ASSUME PolicyTypeInv, NEW r \in Requests
  PROVE  /\ \A base \in Baselines \union {NotGiven} : Begin(r, base) => req' \in [Requests -> RequestRecords]
         /\ ReadPolicy(r) \/ ReplacePolicy(r) \/ StampPolicy(r) \/ ReadHistory(r) \/ WriteHistory(r) =>
              req' \in [Requests -> RequestRecords]
<1> USE DEF PolicyTypeInv
<1>1. req[r] \in RequestRecords /\ req[r].version \in Versions
  BY DEF RequestRecords
<1>2. ASSUME NEW q \in RequestRecords, req' = [req EXCEPT ![r] = q]
      PROVE  req' \in [Requests -> RequestRecords]
  BY <1>2
<1>3. ASSUME NEW base \in Baselines \union {NotGiven}, Begin(r, base)
      PROVE  req' \in [Requests -> RequestRecords]
  <2>1. [req[r] EXCEPT !.at = "read", !.base = base] \in RequestRecords
    BY <1>1 DEF RequestRecords
  <2> QED
    BY <1>2, <1>3, <2>1, RequestSteps
<1>4. CASE ReadPolicy(r)
  <2>1. [req[r] EXCEPT !.at = "replace", !.policy = file] \in RequestRecords
    BY <1>1 DEF RequestRecords, PolicyTypeOK
  <2> QED
    BY <1>2, <1>4, <2>1, RequestSteps
<1>5. CASE ReplacePolicy(r)
  <2>1. <<"c", now>> \in Versions
    BY VersionTypes DEF PolicyTypeOK
  <2>2. [req[r] EXCEPT !.at = "stamp", !.version = <<"c", now>>, !.policy = NoPolicy] \in RequestRecords
    BY <1>1, <2>1, VersionTypes DEF RequestRecords
  <2> QED
    BY <1>2, <1>5, <2>2, RequestSteps
<1>6. CASE StampPolicy(r)
  <2>1. [req[r] EXCEPT !.at = "history"] \in RequestRecords
    BY <1>1 DEF RequestRecords
  <2> QED
    BY <1>2, <1>6, <2>1, RequestSteps
<1>7. CASE ReadHistory(r)
  <2>1. [req[r] EXCEPT !.at = "record", !.doc = history] \in RequestRecords
    BY <1>1 DEF RequestRecords
  <2> QED
    BY <1>2, <1>7, <2>1, RequestSteps
<1>8. CASE WriteHistory(r)
  <2>1. [NewRequest EXCEPT !.at = "done", !.version = req[r].version] \in RequestRecords
    BY <1>1, VersionTypes DEF RequestRecords
  <2> QED
    BY <1>2, <1>8, <2>1, RequestSteps
<1> QED
  BY <1>3, <1>4, <1>5, <1>6, <1>7, <1>8

\* What is written is made of the artifact's parts and those of the file.
LEMMA MergeTypes ==
  ASSUME PolicyTypeInv, portal \in Artifacts
  PROVE  /\ Merge(portal.content).rules = Given(portal.content.rules, file.rules)
         /\ Merge(portal.content).base =
              IF portal.content.v2 THEN NotGiven ELSE Given(portal.content.base, file.base)
         /\ [version |-> <<"p", portal.version>>, rules |-> Merge(portal.content).rules,
             base |-> Merge(portal.content).base] \in PolicyTexts
<1>1. portal.version \in 1 .. MaxPublished /\ portal.content \in PolicyContents
  BY DEF Artifacts
<1>2. /\ portal.content.rules \in Rulesets \union {NotGiven}
      /\ portal.content.base \in Baselines \union {NotGiven}
  BY <1>1, PolicyAssumption
<1>3. file.rules \in Rulesets \union {NotGiven} /\ file.base \in Baselines \union {NotGiven}
  BY DEF PolicyTypeInv, PolicyTypeOK, PolicyTexts
<1>4. <<"p", portal.version>> \in Versions
  BY <1>1, VersionTypes
<1> QED
  BY <1>2, <1>3, <1>4 DEF Merge, Given, PolicyTexts

LEMMA RecordedTypes ==
  ASSUME PolicyTypeInv, NEW r \in Requests
  PROVE  Recorded(r) \in Seq(Entries) /\ Len(Recorded(r)) <= HistoryLength
<1> DEFINE entry == [version |-> req[r].version, base |-> req[r].base]
           versions == <<entry>> \o req[r].doc
           kept == IF Len(versions) < HistoryLength THEN Len(versions) ELSE HistoryLength
<1>1. entry \in Entries /\ req[r].doc \in Seq(Entries)
  BY DEF PolicyTypeInv, RequestRecords, Entries
<1> HIDE DEF entry
<1>2. versions \in Seq(Entries) /\ Len(versions) \in Nat
  BY <1>1
<1> HIDE DEF versions
<1>3. kept \in 0 .. Len(versions) /\ kept <= HistoryLength
  BY <1>2, PolicyAssumption
<1> HIDE DEF kept
<1>4. SubSeq(versions, 1, kept) \in Seq(Entries) /\ Len(SubSeq(versions, 1, kept)) = kept
  BY <1>2, <1>3
<1>5. Recorded(r) = SubSeq(versions, 1, kept)
  BY DEF Recorded, versions, kept, entry
<1> QED
  BY <1>3, <1>4, <1>5, PolicyAssumption

LEMMA PolicyTypeNext ==
  ASSUME PolicyTypeInv, [PolicyNext]_policyVars
  PROVE  PolicyTypeInv'
<1> USE DEF PolicyTypeInv, agentState, consoleVars, sensorVars, intents
<1>1. file \in PolicyTexts /\ payload \in PolicyTexts /\ usedPolicy \in PolicyTexts
  BY DEF PolicyTypeOK
\* The requests, as PolicyTypeOK describes them.
<1>2. ASSUME req' \in [Requests -> RequestRecords]
      PROVE  /\ DOMAIN req' = Requests
             /\ \A r \in Requests :
                  /\ req'[r].at \in {"new", "read", "replace", "stamp", "history", "record", "done"}
                  /\ req'[r].policy \in PolicyTexts /\ req'[r].version \in Versions
                  /\ req'[r].base \in Baselines \union {NotGiven}
  BY <1>2 DEF RequestRecords
<1>3. CASE SecondPasses
  BY <1>3, PolicyAssumption DEF SecondPasses, PolicyTypeOK
<1>4. ASSUME NEW c \in PolicyContents, PortalPublishes(c)
      PROVE  PolicyTypeInv'
  <2>1. portal.version + 1 \in 1 .. MaxPublished
    BY <1>4, PolicyAssumption DEF PortalPublishes, PolicyTypeOK, Artifacts, Unpublished
  <2>2. portal' \in Artifacts
    BY <1>4, <2>1 DEF PortalPublishes, Artifacts
  <2> QED
    BY <1>4, <2>2 DEF PortalPublishes, PolicyTypeOK
<1>5. CASE Deliver
  <2>1. portal \in Artifacts /\ deliveries' \in 0 .. PolicyDeliveries
    BY <1>5, PolicyAssumption DEF Deliver, PolicyTypeOK
  <2>2. UNCHANGED <<portal, unlinked, stamps, file, stamp, now, consoleVars, sensorVars, lastRules, lastBase>>
    BY <1>5 DEF Deliver
  <2>3. CASE UNCHANGED <<agentAt, accepted, payload, clash>>
    BY <2>1, <2>2, <2>3 DEF PolicyTypeOK
  <2>4. CASE /\ accepted' = portal /\ agentAt' = "truncate"
             /\ payload' = [version |-> <<"p", portal.version>>, rules |-> Merge(portal.content).rules,
                            base |-> Merge(portal.content).base]
             /\ clash' = (clash \/ \E r \in Requests : req[r].at = "replace")
    <3>1. payload' \in PolicyTexts
      BY <2>1, <2>4, MergeTypes
    <3>2. clash' \in BOOLEAN
      BY <2>4
    <3> QED
      BY <2>1, <2>2, <2>4, <3>1, <3>2 DEF PolicyTypeOK
  <2> QED
    BY <1>5, <2>3, <2>4 DEF Deliver
<1>6. CASE TruncateFile
  BY <1>6, VersionTypes DEF TruncateFile, PolicyTypeOK
<1>7. CASE WriteFile
  <2>1. file' \in PolicyTexts /\ payload' \in PolicyTexts
    BY <1>1, <1>7, VersionTypes DEF WriteFile
  <2>2. /\ agentAt' = "stamp" /\ accepted' = Unpublished /\ unlinked' = FALSE
        /\ UNCHANGED <<portal, deliveries, stamps, stamp, now, consoleVars, sensorVars, clash>>
    BY <1>7 DEF WriteFile
  <2> QED
    BY <2>1, <2>2 DEF PolicyTypeOK
<1>8. CASE StampFile
  BY <1>8 DEF StampFile, PolicyTypeOK
<1>9. ASSUME NEW r \in Requests, NEW base \in Baselines \union {NotGiven}, Begin(r, base)
      PROVE  PolicyTypeInv'
  <2>1. req' \in [Requests -> RequestRecords]
    BY <1>9, RecordSteps
  <2> QED
    BY <1>2, <1>9, <2>1 DEF Begin, PolicyTypeOK
<1>10. ASSUME NEW r \in Requests, ReadPolicy(r)
       PROVE  PolicyTypeInv'
  <2>1. req' \in [Requests -> RequestRecords]
    BY <1>10, RecordSteps
  <2>2. clash' \in BOOLEAN /\ UNCHANGED <<history, file, stamp, now, agentState, sensorVars, lastRules, lastBase>>
    BY <1>10 DEF ReadPolicy, PolicyTypeOK
  <2> QED
    BY <1>2, <2>1, <2>2 DEF PolicyTypeOK
<1>11. ASSUME NEW r \in Requests, ReplacePolicy(r)
       PROVE  PolicyTypeInv'
  <2>1. <<"c", now>> \in Versions
    BY VersionTypes DEF PolicyTypeOK
  <2>2. req' \in [Requests -> RequestRecords]
    BY <1>11, RecordSteps
  <2>3. file' \in PolicyTexts
    <3>1. req[r].policy \in PolicyTexts /\ req[r].base \in Baselines \union {NotGiven}
      BY DEF RequestRecords
    <3> QED
      BY <1>11, <2>1, <3>1 DEF ReplacePolicy, PolicyTexts
  <2>4. /\ unlinked' \in BOOLEAN
        /\ UNCHANGED <<history, stamp, now, portal, deliveries, agentAt, accepted, payload, stamps,
                       sensorVars, lastRules, clash>>
    BY <1>11 DEF ReplacePolicy, PolicyTypeOK
  <2> QED
    BY <1>2, <2>2, <2>3, <2>4 DEF PolicyTypeOK
<1>12. ASSUME NEW r \in Requests, StampPolicy(r) \/ ReadHistory(r)
       PROVE  PolicyTypeInv'
  <2>1. req' \in [Requests -> RequestRecords]
    BY <1>12, RecordSteps
  <2> QED
    BY <1>2, <1>12, <2>1 DEF StampPolicy, ReadHistory, PolicyTypeOK
<1>13. ASSUME NEW r \in Requests, WriteHistory(r)
       PROVE  PolicyTypeInv'
  <2>1. req' \in [Requests -> RequestRecords]
    BY <1>13, RecordSteps
  <2>2. history' \in Seq(Entries) /\ Len(history') <= HistoryLength
    BY <1>13, RecordedTypes DEF WriteHistory
  <2> QED
    BY <1>2, <1>13, <2>1, <2>2 DEF WriteHistory, PolicyTypeOK
<1>14. CASE ReadPolicyStamp
  BY <1>14 DEF ReadPolicyStamp, PolicyTypeOK
<1>15. CASE ReloadPolicy
  <2>1. usedRules' \in Rulesets \union {NotGiven}
    BY <1>1, <1>15 DEF ReloadPolicy, Given, PolicyTexts, PolicyTypeOK
  <2> QED
    BY <1>1, <1>15, <2>1 DEF ReloadPolicy, PolicyTypeOK
<1>16. CASE UNCHANGED policyVars
  BY <1>16 DEF policyVars, PolicyTypeOK
<1>17. \A r \in Requests : Observed[r] \in Baselines \union {NotGiven}
  BY PolicyAssumption
<1>18. \A i \in 1 .. Len(history) : history[i].base \in Baselines \union {NotGiven}
  <2>1. \A i \in 1 .. Len(history) : history[i] \in Entries
    OBVIOUS
  <2> QED
    BY <2>1 DEF Entries
<1> QED
  BY <1>3, <1>4, <1>5, <1>6, <1>7, <1>8, <1>9, <1>10, <1>11, <1>12, <1>13, <1>14, <1>15, <1>16,
     <1>17, <1>18 DEF PolicyNext, AgentStep, RequestStep, SensorStep, Approve, Rollback

LEMMA PolicyTypeInitial ==
  ASSUME PolicyInit
  PROVE  PolicyTypeInv
<1>1. req \in [Requests -> RequestRecords] /\ history \in Seq(Entries) /\ Len(history) = 0
  BY VersionTypes DEF PolicyInit
<1>2. /\ {file, payload, usedPolicy} \subseteq PolicyTexts
      /\ \A r \in Requests : req[r] \in RequestRecords
  BY <1>1, VersionTypes DEF PolicyInit
<1>3. /\ deliveries \in 0 .. PolicyDeliveries /\ stamps \in Nat /\ now \in 0 .. MaxSeconds
      /\ Len(history) <= HistoryLength
  BY <1>1, PolicyAssumption DEF PolicyInit
<1> QED
  BY <1>1, <1>2, <1>3 DEF PolicyInit, PolicyTypeInv, PolicyTypeOK, RequestRecords

\* Type correctness of the policy, its writers, the console's history and the sensor's copy.
THEOREM PolicyTypeCorrect == PolicySpec => []PolicyTypeOK
<1>1. PolicyInit => PolicyTypeInv
  BY PolicyTypeInitial
<1>2. PolicyTypeInv /\ [PolicyNext]_policyVars => PolicyTypeInv'
  BY PolicyTypeNext
<1>3. PolicyTypeInv => PolicyTypeOK
  BY DEF PolicyTypeInv
<1> QED
  BY <1>1, <1>2, <1>3, PTL DEF PolicySpec

-----------------------------------------------------------------------------
\* PolicyControl: nothing is overwritten.

Replacing(r) == req[r].at = "replace"

(***************************************************************************)
(* Where the two writers are, while no one has read the policy as another  *)
(* was about to write it: the file holds what was written last until the   *)
(* agent empties it; the agent is about to write what its artifact gives   *)
(* and, for the rest, what was written last; a request about to replace    *)
(* the file, the only one then, keeps the rules written last.              *)
(***************************************************************************)
WriterInv ==
  ~clash =>
    /\ agentAt # "write" => file.rules = lastRules /\ file.base = lastBase
    /\ agentAt \in {"truncate", "write"} =>
         /\ payload.rules = Given(accepted.content.rules, lastRules)
         /\ payload.base = IF accepted.content.v2 THEN NotGiven
                           ELSE Given(accepted.content.base, lastBase)
         /\ \A r \in Requests : ~Replacing(r)
    /\ agentAt = "write" => ~unlinked
    /\ \A r \in Requests : Replacing(r) =>
         /\ req[r].policy.rules = lastRules
         /\ \A q \in Requests : Replacing(q) => q = r

LEMMA WriterInductive ==
  ASSUME PolicyTypeInv, WriterInv, [PolicyNext]_policyVars
  PROVE  WriterInv'
<1> USE DEF agentState, consoleVars, intents, Replacing
<1>0. /\ clash \in BOOLEAN /\ req \in [Requests -> RequestRecords]
      /\ agentAt \in {"idle", "truncate", "write", "stamp"} /\ file \in PolicyTexts
  BY DEF PolicyTypeInv, PolicyTypeOK
\* What matters of a request's step: where the requests are, and which policy they have read.
<1>1. ASSUME NEW r \in Requests, NEW at,
             \A q \in Requests \ {r} : req'[q] = req[q],
             req'[r].at = at, at # "replace",
             UNCHANGED <<clash, agentAt, accepted, payload, unlinked, file, lastRules, lastBase>>
      PROVE  WriterInv'
  BY <1>1 DEF WriterInv
<1>2. CASE SecondPasses \/ ReadPolicyStamp \/ ReloadPolicy \/ UNCHANGED policyVars
  BY <1>2 DEF SecondPasses, ReadPolicyStamp, ReloadPolicy, policyVars, WriterInv
<1>3. ASSUME NEW c \in PolicyContents, PortalPublishes(c)
      PROVE  WriterInv'
  BY <1>3 DEF PortalPublishes, WriterInv
<1>4. CASE Deliver
  <2>1. UNCHANGED <<unlinked, file, req, lastRules, lastBase>> /\ agentAt = "idle" /\ portal \in Artifacts
    BY <1>4 DEF Deliver, PolicyTypeInv, PolicyTypeOK
  <2>2. CASE UNCHANGED <<agentAt, accepted, payload, clash>>
    BY <2>1, <2>2 DEF WriterInv
  <2>3. CASE /\ accepted' = portal /\ agentAt' = "truncate"
             /\ payload' = [version |-> <<"p", portal.version>>, rules |-> Merge(portal.content).rules,
                            base |-> Merge(portal.content).base]
             /\ clash' = (clash \/ \E r \in Requests : req[r].at = "replace")
    <3>1. /\ payload'.rules = Given(portal.content.rules, file.rules)
          /\ payload'.base = IF portal.content.v2 THEN NotGiven ELSE Given(portal.content.base, file.base)
      BY <2>1, <2>3, MergeTypes
    <3>2. ~clash' => ~clash /\ \A r \in Requests : req[r].at # "replace"
      BY <2>3
    <3>3. ~clash => file.rules = lastRules /\ file.base = lastBase
      BY <2>1 DEF WriterInv
    <3> QED
      BY <2>1, <2>3, <3>1, <3>2, <3>3 DEF WriterInv
  <2> QED
    BY <1>4, <2>2, <2>3 DEF Deliver
<1>5. CASE TruncateFile
  BY <1>5 DEF TruncateFile, WriterInv
<1>6. CASE WriteFile
  BY <1>6 DEF WriteFile, WriterInv
<1>7. CASE StampFile
  BY <1>7 DEF StampFile, WriterInv
<1>8. ASSUME NEW r \in Requests, NEW base, Begin(r, base)
      PROVE  WriterInv'
  <2>1. req'[r].at = "read" /\ \A q \in Requests \ {r} : req'[q] = req[q]
    <3>1. req' = [req EXCEPT ![r] = [req[r] EXCEPT !.at = "read", !.base = base]]
      BY <1>8, RequestSteps
    <3> QED
      BY <1>0, <3>1 DEF RequestRecords
  <2> QED
    BY <1>1, <1>8, <2>1 DEF Begin
<1>9. ASSUME NEW r \in Requests, ReadPolicy(r)
      PROVE  WriterInv'
  <2>1. req'[r].at = "replace" /\ req'[r].policy = file /\ \A q \in Requests \ {r} : req'[q] = req[q]
    <3>1. req' = [req EXCEPT ![r] = [req[r] EXCEPT !.at = "replace", !.policy = file]]
      BY <1>9, RequestSteps
    <3> QED
      BY <1>0, <3>1 DEF RequestRecords
  <2>2. UNCHANGED <<agentAt, accepted, payload, unlinked, file, lastRules, lastBase>>
    BY <1>9 DEF ReadPolicy
  <2>3. ~clash' => /\ ~clash /\ agentAt \notin {"truncate", "write"}
                   /\ \A q \in Requests \ {r} : req[q].at # "replace"
    BY <1>9 DEF ReadPolicy
  <2> QED
    BY <2>1, <2>2, <2>3 DEF WriterInv
<1>10. ASSUME NEW r \in Requests, ReplacePolicy(r)
       PROVE  WriterInv'
  <2>1. /\ req[r].at = "replace" /\ req'[r].at = "stamp"
        /\ \A q \in Requests \ {r} : req'[q] = req[q]
    BY <1>0, <1>10, RequestSteps DEF RequestRecords, ReplacePolicy
  <2>2. file'.rules = req[r].policy.rules /\ file'.base = req[r].base
    BY <1>0, <1>10 DEF ReplacePolicy, RequestRecords, PolicyTexts
  <2>3. /\ lastBase' = req[r].base /\ unlinked' = (unlinked \/ agentAt = "write")
        /\ UNCHANGED <<agentAt, accepted, payload, lastRules, clash>>
    BY <1>10 DEF ReplacePolicy
  <2> QED
    BY <2>1, <2>2, <2>3 DEF WriterInv
<1>11. ASSUME NEW r \in Requests, StampPolicy(r) \/ ReadHistory(r) \/ WriteHistory(r)
       PROVE  WriterInv'
  <2>1. /\ req'[r].at \in {"history", "record", "done"}
        /\ \A q \in Requests \ {r} : req'[q] = req[q]
    <3>1. CASE StampPolicy(r)
      <4>1. req' = [req EXCEPT ![r] = [req[r] EXCEPT !.at = "history"]]
        BY <3>1, RequestSteps
      <4> QED
        BY <1>0, <4>1 DEF RequestRecords
    <3>2. CASE ReadHistory(r)
      <4>1. req' = [req EXCEPT ![r] = [req[r] EXCEPT !.at = "record", !.doc = history]]
        BY <3>2, RequestSteps
      <4> QED
        BY <1>0, <4>1 DEF RequestRecords
    <3>3. CASE WriteHistory(r)
      <4>1. req' = [req EXCEPT ![r] = [NewRequest EXCEPT !.at = "done", !.version = req[r].version]]
        BY <3>3, RequestSteps
      <4> QED
        BY <1>0, <4>1 DEF NewRequest
    <3> QED
      BY <1>11, <3>1, <3>2, <3>3
  <2>2. UNCHANGED <<clash, agentAt, accepted, payload, unlinked, file, lastRules, lastBase>>
    BY <1>11 DEF StampPolicy, ReadHistory, WriteHistory
  <2> QED
    BY <1>1, <2>1, <2>2
<1> QED
  BY <1>2, <1>3, <1>4, <1>5, <1>6, <1>7, <1>8, <1>9, <1>10, <1>11
     DEF PolicyNext, AgentStep, RequestStep, SensorStep, Approve, Rollback

\* At rest detection-policy.json holds the rules and the baseline written last, for any policies,
\* requests and deliveries, unless a writer read it while another was about to write; a baseline
\* approved is kept until another is, or an artifact brings one or, with version 2 of the schema,
\* takes it away: apply_artifact and the console's _apply_iec61850.
THEOREM NothingOverwrittenCorrect == PolicySpec => []NothingOverwritten
<1>1. PolicyInit => PolicyTypeInv /\ WriterInv
  <2> SUFFICES ASSUME PolicyInit
               PROVE  WriterInv
    BY PolicyTypeInitial
  <2>1. \A r \in Requests : ~Replacing(r)
    BY DEF PolicyInit, Replacing, NewRequest
  <2> QED
    BY <2>1 DEF PolicyInit, WriterInv, NoPolicy
<1>2. PolicyTypeInv /\ WriterInv /\ [PolicyNext]_policyVars => PolicyTypeInv' /\ WriterInv'
  BY PolicyTypeNext, WriterInductive
<1>3. WriterInv => NothingOverwritten
  BY DEF WriterInv, NothingOverwritten, AtRest
<1> QED
  BY <1>1, <1>2, <1>3, PTL DEF PolicySpec

-----------------------------------------------------------------------------
(***************************************************************************)
(* WifiFailover.  While nothing has failed and no connect has met a pin    *)
(* request, either the priorities are those of the pinned order, and what  *)
(* a connect request has still to do spares the pinned networks; or a pin  *)
(* request is at work, and every network that has not the priority it is   *)
(* to have is among the calls still to be made.                            *)
(***************************************************************************)
USE DEF wifiVars, consoleSide, scriptSide, netSide

InBands(order) ==
  /\ \A i \in DOMAIN order : Saved(order[i]) /\ priority[order[i]] = 200 - (i - 1)
  /\ \A ap \in APs : Saved(ap) /\ ap \notin ToSet(order) => priority[ap] <= 100

\* No call of these is about a pinned network, or lifts another into their band.
Spares(cmds, pins) ==
  \A i \in DOMAIN cmds :
    cmds[i].do \in {"modify", "delete"} =>
      /\ cmds[i].ap \notin ToSet(pins)
      /\ cmds[i].do = "modify" => cmds[i].to <= 100

\* The order is written when the calls have been made.
WritesLast(q, order) ==
  /\ q # <<>> /\ q[Len(q)] = [do |-> "write", order |-> order]
  /\ \A i \in 1 .. Len(q) - 1 : q[i].do = IF i = Len(q) - 1 THEN "truncate" ELSE "modify"

SetsBands(q, order) ==
  \A i \in DOMAIN q : q[i].do = "modify" =>
    /\ \A j \in DOMAIN order : order[j] = q[i].ap => q[i].to = 200 - (j - 1)
    /\ q[i].ap \notin ToSet(order) => q[i].to <= 100

ToBeSet(q, ap) == \E i \in DOMAIN q : q[i].do = "modify" /\ q[i].ap = ap

SetOrToBeSet(q, order) ==
  /\ \A j \in DOMAIN order : Saved(order[j])
  /\ \A j \in DOMAIN order : priority[order[j]] = 200 - (j - 1) \/ ToBeSet(q, order[j])
  /\ \A ap \in APs : Saved(ap) /\ ap \notin ToSet(order) => priority[ap] <= 100 \/ ToBeSet(q, ap)

PinsUnderWay(q, order) == WritesLast(q, order) /\ SetsBands(q, order) /\ SetOrToBeSet(q, order)

Calm ==
  /\ Idle("connect") \/ Idle("pin")
  /\ Idle("pin") => InBands(pinFile) /\ Spares(commands["connect"], pinFile)
  /\ ~Idle("pin") => \E order \in Orders : PinsUnderWay(commands["pin"], order)

WifiInv == WifiTypeOK /\ (~disturbed => Calm)

\* What the operators on lists of networks return.
LEMMA OrderType ==
  /\ <<>> \in Orders
  /\ \A s \in Orders : s \in Seq(APs) /\ Len(s) <= MaxPinned /\ Len(s) \in Nat /\ IsInjective(s)
<1>1. <<>> \in [1 .. 0 -> APs]
  OBVIOUS
<1>2. 0 \in 0 .. MaxPinned
  BY WifiAssumption
<1>3. \A s : s \in [1 .. 0 -> APs] => s \in BoundedSeq(APs, MaxPinned)
  BY <1>2 DEF BoundedSeq, SeqOf
<1>4. IsInjective(<<>>)
  BY DEF IsInjective
<1>5. \A s \in Orders : s \in Seq(APs) /\ Len(s) <= MaxPinned /\ Len(s) \in Nat /\ IsInjective(s)
  BY WifiAssumption DEF Orders, BoundedSeq, SeqOf
<1>6. QED
  BY <1>1, <1>3, <1>4, <1>5 DEF Orders

LEMMA ChosenType ==
  ASSUME NEW list \in Seq(APs), NEW S \in SUBSET APs, NEW t \in Chosen(list, S)
  PROVE  /\ t \in Seq(APs) /\ IsInjective(t) /\ ToSet(t) = ToSet(list) \intersect S
         /\ Len(t) \in Nat /\ Len(t) <= Len(list) /\ DOMAIN t = 1 .. Len(t)
<1>1. PICK m \in 0 .. Len(list) : t \in [1 .. m -> S]
  BY DEF Chosen, BoundedSeq, SeqOf
<1>2. t \in [1 .. m -> APs] /\ m \in Nat
  BY <1>1
<1>3. t \in Seq(APs) /\ Len(t) = m /\ DOMAIN t = 1 .. Len(t)
  BY <1>1, <1>2
<1>4. QED
  BY <1>1, <1>3 DEF Chosen

LEMMA ChosenOrder ==
  ASSUME NEW order \in Orders, NEW S \in SUBSET APs, NEW t \in Chosen(order, S)
  PROVE  t \in Orders
<1>1. order \in Seq(APs) /\ Len(order) <= MaxPinned
  BY OrderType
<1>2. t \in Seq(APs) /\ IsInjective(t) /\ Len(t) \in Nat /\ Len(t) <= Len(order)
  BY <1>1, ChosenType
<1>3. Len(t) \in 0 .. MaxPinned /\ t \in [1 .. Len(t) -> APs]
  BY <1>1, <1>2, WifiAssumption
<1>4. t \in BoundedSeq(APs, MaxPinned)
  BY <1>3 DEF BoundedSeq, SeqOf
<1>5. QED
  BY <1>2, <1>4 DEF Orders

LEMMA ForemostType ==
  ASSUME NEW list \in Seq(APs), NEW ap \in APs, NEW t \in Foremost(ap, list)
  PROVE  t \in Seq(APs) /\ IsInjective(t) /\ ToSet(t) = ToSet(list) \union {ap}
<1>1. PICK rest \in Chosen(list, APs \ {ap}) : t = <<ap>> \o rest
  BY DEF Foremost
<1>2. /\ rest \in Seq(APs) /\ IsInjective(rest) /\ ToSet(rest) = ToSet(list) \intersect (APs \ {ap})
      /\ DOMAIN rest = 1 .. Len(rest) /\ Len(rest) \in Nat
  BY ChosenType
<1>3. /\ t \in Seq(APs) /\ Len(t) = Len(rest) + 1
      /\ t[1] = ap /\ \A i \in 1 .. Len(rest) : t[i + 1] = rest[i]
  BY <1>1, <1>2
<1>4. \A i \in DOMAIN t : i = 1 \/ (i - 1 \in DOMAIN rest /\ t[i] = rest[i - 1])
  BY <1>2, <1>3
<1>5. ap \notin ToSet(rest)
  BY <1>2
<1>6. \A i \in DOMAIN rest : rest[i] # ap
  BY <1>5 DEF ToSet
<1>7. IsInjective(t)
  <2> SUFFICES ASSUME NEW i \in DOMAIN t, NEW j \in DOMAIN t, t[i] = t[j] PROVE i = j
    BY DEF IsInjective
  <2>1. CASE i = 1
    BY <2>1, <1>3, <1>4, <1>6
  <2>2. CASE j = 1
    BY <2>2, <1>3, <1>4, <1>6
  <2>3. CASE i # 1 /\ j # 1
    <3>1. i - 1 \in DOMAIN rest /\ j - 1 \in DOMAIN rest /\ rest[i - 1] = rest[j - 1]
      BY <2>3, <1>4
    <3>2. i - 1 = j - 1
      BY <3>1, <1>2 DEF IsInjective
    <3>3. i \in Nat /\ j \in Nat
      BY <1>3
    <3>4. QED
      BY <3>2, <3>3
  <2>4. QED
    BY <2>1, <2>2, <2>3
<1>8. ToSet(t) = ToSet(rest) \union {ap}
  <2>1. \A x \in ToSet(t) : x \in ToSet(rest) \union {ap}
    BY <1>4, <1>3 DEF ToSet
  <2>2. ap \in ToSet(t)
    BY <1>3, <1>2 DEF ToSet
  <2>3. \A i \in DOMAIN rest : i + 1 \in DOMAIN t /\ t[i + 1] = rest[i]
    BY <1>3, <1>2
  <2>4. \A x \in ToSet(rest) : x \in ToSet(t)
    BY <2>3 DEF ToSet
  <2>5. QED
    BY <2>1, <2>2, <2>4
<1>9. ToSet(list) \subseteq APs
  BY DEF ToSet
<1>10. QED
  BY <1>2, <1>3, <1>7, <1>8, <1>9

LEMMA NothingLeft == \A q \in Seq(Command) : q # <<>> => Len(q) >= 1
OBVIOUS

\* The entries of two sequences put together.
LEMMA Together ==
  ASSUME NEW a \in Seq(Command), NEW b \in Seq(Command)
  PROVE  /\ a \o b \in Seq(Command) /\ Len(a \o b) = Len(a) + Len(b)
         /\ \A i \in 1 .. Len(a) : (a \o b)[i] = a[i]
         /\ \A i \in 1 .. Len(b) : (a \o b)[Len(a) + i] = b[i]
OBVIOUS

LEMMA CommandType ==
  /\ \A c \in Command : c.do \in {"modify", "delete"} => c.ap \in APs
  /\ \A c \in Command : c.do = "modify" => c.to \in Int
  /\ \A c \in Command : c.do = "list" => c.ap \in APs
  /\ \A c \in Command : c.do = "pins" => c.seen \in Seq(APs)
  /\ \A c \in Command : c.do = "write" => c.order \in Orders
BY DEF Command, Calls

LEMMA ModifyType ==
  ASSUME NEW order \in Seq(APs), NEW base \in Int
  PROVE  /\ Modify(order, base) \in Seq(Command)
         /\ Len(Modify(order, base)) = Len(order) /\ DOMAIN Modify(order, base) = 1 .. Len(order)
         /\ \A i \in 1 .. Len(order) :
              Modify(order, base)[i] = [do |-> "modify", ap |-> order[i], to |-> base - (i - 1)]
<1>1. \A i \in 1 .. Len(order) : [do |-> "modify", ap |-> order[i], to |-> base - (i - 1)] \in Command
  <2> SUFFICES ASSUME NEW i \in 1 .. Len(order)
               PROVE  [do |-> "modify", ap |-> order[i], to |-> base - (i - 1)] \in Command
    OBVIOUS
  <2>1. order[i] \in APs /\ base - (i - 1) \in Int
    OBVIOUS
  <2>2. QED
    BY <2>1 DEF Command, Calls
<1>2. Len(order) \in Nat
  OBVIOUS
<1>3. Modify(order, base) \in [1 .. Len(order) -> Command]
  BY <1>1 DEF Modify
<1>4. Modify(order, base) \in Seq(Command) /\ Len(Modify(order, base)) = Len(order)
  BY <1>2, <1>3
<1>5. QED
  BY <1>3, <1>4 DEF Modify

LEMMA DeleteType ==
  ASSUME NEW order \in Seq(APs)
  PROVE  /\ Delete(order) \in Seq(Command) /\ Len(Delete(order)) = Len(order)
         /\ \A i \in 1 .. Len(order) : Delete(order)[i] = [do |-> "delete", ap |-> order[i]]
<1>1. \A i \in 1 .. Len(order) : [do |-> "delete", ap |-> order[i]] \in Command
  BY DEF Command, Calls
<1>2. Len(order) \in Nat
  OBVIOUS
<1>3. Delete(order) \in [1 .. Len(order) -> Command]
  BY <1>1 DEF Delete
<1>4. QED
  BY <1>2, <1>3 DEF Delete

LEMMA PruningType ==
  ASSUME NEW others \in Seq(APs)
  PROVE  /\ Pruning(others) \in Seq(Command)
         /\ \A i \in DOMAIN Pruning(others) :
              /\ Pruning(others)[i].do \in {"modify", "delete"}
              /\ Pruning(others)[i].ap \in ToSet(others)
              /\ Pruning(others)[i].do = "modify" => Pruning(others)[i].to <= 100
<1> DEFINE n    == IF Len(others) < Keep THEN Len(others) ELSE Keep
           kept == SubSeq(others, 1, n)
           rest == SubSeq(others, n + 1, Len(others))
<1>1. n \in 0 .. Len(others) /\ Len(others) \in Nat
  BY WifiAssumption
<1>2. /\ kept \in Seq(APs) /\ Len(kept) = n /\ \A i \in 1 .. n : kept[i] = others[i]
      /\ rest \in Seq(APs) /\ Len(rest) = Len(others) - n
      /\ \A i \in 1 .. Len(rest) : rest[i] = others[n + i]
  <2> HIDE DEF n
  <2>1. kept \in Seq(APs) /\ Len(kept) = n /\ \A i \in 1 .. n : kept[i] = others[i]
    BY <1>1
  <2>2. rest \in Seq(APs) /\ Len(rest) = Len(others) - n
    BY <1>1
  <2>3. \A i \in 1 .. Len(rest) : rest[i] = others[n + i]
    BY <1>1, <2>2
  <2>4. QED
    BY <2>1, <2>2, <2>3
<1> HIDE DEF kept, rest
<1>3. Pruning(others) = Modify(kept, 100) \o Delete(rest)
  BY DEF Pruning, kept, rest
<1> HIDE DEF n
<1>4. /\ Modify(kept, 100) \in Seq(Command) /\ Len(Modify(kept, 100)) = n
      /\ \A i \in 1 .. n : Modify(kept, 100)[i] = [do |-> "modify", ap |-> others[i], to |-> 100 - (i - 1)]
  BY <1>2, ModifyType
<1>5. /\ Delete(rest) \in Seq(Command) /\ Len(Delete(rest)) = Len(others) - n
      /\ \A i \in 1 .. Len(others) - n : Delete(rest)[i] = [do |-> "delete", ap |-> others[n + i]]
  BY <1>2, DeleteType
<1>6. Pruning(others) \in Seq(Command) /\ Len(Pruning(others)) = Len(others)
  BY <1>1, <1>3, <1>4, <1>5
<1>7. ASSUME NEW i \in DOMAIN Pruning(others)
      PROVE  /\ Pruning(others)[i].do \in {"modify", "delete"}
             /\ Pruning(others)[i].ap = others[i]
             /\ Pruning(others)[i].do = "modify" => Pruning(others)[i].to <= 100
  <2>1. i \in 1 .. Len(others)
    BY <1>6
  <2>2. CASE i <= n
    <3>1. Pruning(others)[i] = [do |-> "modify", ap |-> others[i], to |-> 100 - (i - 1)]
      BY <1>1, <1>3, <1>4, <1>5, <2>1, <2>2
    <3>2. QED
      BY <2>1, <3>1
  <2>3. CASE i > n
    <3>1. i - n \in 1 .. Len(others) - n
      BY <1>1, <2>1, <2>3
    <3>2. Pruning(others)[i] = Delete(rest)[i - n]
      BY <1>1, <1>3, <1>4, <1>5, <2>1, <2>3
    <3>3. Pruning(others)[i] = [do |-> "delete", ap |-> others[i]]
      BY <1>1, <1>5, <2>1, <3>1, <3>2
    <3>4. QED
      BY <3>3
  <2>4. QED
    BY <1>1, <2>1, <2>2, <2>3
<1>8. \A i \in DOMAIN Pruning(others) : others[i] \in ToSet(others)
  BY <1>6 DEF ToSet
<1>9. QED
  BY <1>6, <1>7, <1>8

LEMMA RepinType ==
  ASSUME NEW order \in Orders, NEW old \in Seq(APs)
  PROVE  LET q == Repin(order, old)  k == Len(order)  n == Len(order) + Len(old) IN
         /\ q \in Seq(Command) /\ Len(q) = n + 2 /\ k \in Nat /\ n \in Nat /\ k <= n
         /\ \A i \in 1 .. k : q[i] = [do |-> "modify", ap |-> order[i], to |-> 200 - (i - 1)]
         /\ \A i \in k + 1 .. n : q[i] = [do |-> "modify", ap |-> old[i - k], to |-> 0]
         /\ q[n + 1] = [do |-> "truncate"] /\ q[n + 2] = [do |-> "write", order |-> order]
<1> DEFINE first  == Modify(order, 200)
           second == [i \in 1 .. Len(old) |-> [do |-> "modify", ap |-> old[i], to |-> 0]]
           last   == <<[do |-> "truncate"], [do |-> "write", order |-> order]>>
<1>1. order \in Seq(APs) /\ Len(order) \in Nat /\ Len(old) \in Nat
  BY OrderType
<1>2. /\ first \in Seq(Command) /\ Len(first) = Len(order)
      /\ \A i \in 1 .. Len(order) : first[i] = [do |-> "modify", ap |-> order[i], to |-> 200 - (i - 1)]
  BY <1>1, ModifyType
<1>3. \A i \in 1 .. Len(old) : [do |-> "modify", ap |-> old[i], to |-> 0] \in Command
  BY DEF Command, Calls
<1>4. second \in [1 .. Len(old) -> Command]
  BY <1>3
<1>5. second \in Seq(Command) /\ Len(second) = Len(old)
  BY <1>1, <1>4
<1>6. [do |-> "truncate"] \in Command /\ [do |-> "write", order |-> order] \in Command
  BY DEF Command
<1>7. last \in Seq(Command) /\ Len(last) = 2
  BY <1>6
<1>8. /\ last[1] = [do |-> "truncate"] /\ last[2] = [do |-> "write", order |-> order]
      /\ \A i \in 1 .. Len(old) : second[i] = [do |-> "modify", ap |-> old[i], to |-> 0]
  OBVIOUS
<1>9. Repin(order, old) = (first \o second) \o last
  BY DEF Repin
<1> HIDE DEF first, second, last
<1>10. /\ first \o second \in Seq(Command) /\ Len(first \o second) = Len(order) + Len(old)
       /\ \A i \in 1 .. Len(order) : (first \o second)[i] = first[i]
       /\ \A i \in 1 .. Len(old) : (first \o second)[Len(order) + i] = second[i]
  <2>1. first \in Seq(Command) /\ second \in Seq(Command)
    BY <1>2, <1>5
  <2>2. Len(first) = Len(order) /\ Len(second) = Len(old)
    BY <1>2, <1>5
  <2>3. /\ first \o second \in Seq(Command) /\ Len(first \o second) = Len(first) + Len(second)
        /\ \A i \in 1 .. Len(first) : (first \o second)[i] = first[i]
        /\ \A i \in 1 .. Len(second) : (first \o second)[Len(first) + i] = second[i]
    BY ONLY <2>1, Together
  <2>4. QED
    BY ONLY <2>2, <2>3, Zenon
<1> DEFINE both == first \o second
<1> HIDE DEF both
<1>11. /\ Repin(order, old) \in Seq(Command) /\ Len(Repin(order, old)) = Len(order) + Len(old) + 2
       /\ \A i \in 1 .. Len(order) + Len(old) : Repin(order, old)[i] = both[i]
       /\ Repin(order, old)[Len(order) + Len(old) + 1] = last[1]
       /\ Repin(order, old)[Len(order) + Len(old) + 2] = last[2]
  <2>1. both \in Seq(Command) /\ Repin(order, old) = both \o last /\ Len(both) = Len(order) + Len(old)
    BY <1>9, <1>10 DEF both
  <2>2. /\ both \o last \in Seq(Command) /\ Len(both \o last) = Len(both) + Len(last)
        /\ \A i \in 1 .. Len(both) : (both \o last)[i] = both[i]
        /\ \A i \in 1 .. Len(last) : (both \o last)[Len(both) + i] = last[i]
    <3>1. both \in Seq(Command) /\ last \in Seq(Command)
      BY <2>1, <1>7
    <3>2. QED
      BY ONLY <3>1, Together
  <2>3. Len(both) \in Nat /\ Len(last) = 2
    BY <2>1, <1>1, <1>7
  <2>4. /\ (both \o last)[Len(both) + 1] = last[1]
        /\ (both \o last)[Len(both) + 2] = last[2]
    BY <2>2, <2>3
  <2>5. /\ both \o last \in Seq(Command) /\ Len(both \o last) = Len(order) + Len(old) + 2
        /\ \A i \in 1 .. Len(order) + Len(old) : (both \o last)[i] = both[i]
        /\ (both \o last)[Len(order) + Len(old) + 1] = last[1]
        /\ (both \o last)[Len(order) + Len(old) + 2] = last[2]
    BY ONLY <2>1, <2>2, <2>3, <2>4, Zenon
  <2>6. QED
    BY ONLY <2>1, <2>5, SMT
<1>12. \A i \in 1 .. Len(order) :
         Repin(order, old)[i] = [do |-> "modify", ap |-> order[i], to |-> 200 - (i - 1)]
  <2> SUFFICES ASSUME NEW i \in 1 .. Len(order)
               PROVE  Repin(order, old)[i] = [do |-> "modify", ap |-> order[i], to |-> 200 - (i - 1)]
    OBVIOUS
  <2>1. i \in 1 .. Len(order) + Len(old)
    BY <1>1
  <2>2. both[i] = first[i]
    BY <1>10 DEF both
  <2>3. first[i] = [do |-> "modify", ap |-> order[i], to |-> 200 - (i - 1)]
    BY <1>2
  <2>4. QED
    BY <2>1, <2>2, <2>3, <1>11
<1>13. \A i \in Len(order) + 1 .. Len(order) + Len(old) :
         Repin(order, old)[i] = [do |-> "modify", ap |-> old[i - Len(order)], to |-> 0]
  <2> SUFFICES ASSUME NEW i \in Len(order) + 1 .. Len(order) + Len(old)
               PROVE  Repin(order, old)[i] = [do |-> "modify", ap |-> old[i - Len(order)], to |-> 0]
    OBVIOUS
  <2>1. i \in 1 .. Len(order) + Len(old) /\ ~(i <= Len(order)) /\ i - Len(order) \in 1 .. Len(old)
    BY <1>1
  <2>2. both[Len(order) + (i - Len(order))] = second[i - Len(order)]
    BY <2>1, <1>10 DEF both
  <2>3. Len(order) + (i - Len(order)) = i
    BY <2>1, <1>1
  <2>4. QED
    BY <2>1, <2>2, <2>3, <1>8, <1>11
<1>14. QED
  BY <1>1, <1>8, <1>11, <1>12, <1>13

LEMMA WifiTypeInit == WifiInit => WifiTypeOK
<1> SUFFICES ASSUME WifiInit PROVE WifiTypeOK
  OBVIOUS
<1> USE DEF WifiInit
<1>1. profiles \in Seq(APs) /\ IsInjective(profiles)
  BY DEF IsInjective
<1>2. priority \in [APs -> Int] /\ pinFile \in Orders
  BY OrderType
<1>3. commands \in [{"connect", "pin"} -> Seq(Command)]
  OBVIOUS
<1>4. /\ wifiRequests \in [{"connect", "pin"} -> Nat]
      /\ wifiRequests["connect"] <= MaxConnects /\ wifiRequests["pin"] <= MaxPins
  BY WifiAssumption
<1>5. /\ air \in [APs -> {"gone", "there", "good"}] /\ netChanges \in 0 .. MaxNetChanges
      /\ link \in APs \union {NoLink} /\ failcount \in Nat /\ candidates \in Seq(APs)
  BY WifiAssumption
<1>6. QED
  BY <1>1, <1>2, <1>3, <1>4, <1>5 DEF WifiTypeOK

\* The call a request is about to make.
LEMMA HeadType ==
  ASSUME WifiTypeOK, NEW t \in {"connect", "pin"}, ~Idle(t)
  PROVE  /\ commands[t] \in Seq(Command) /\ Len(commands[t]) \in Nat /\ Len(commands[t]) >= 1
         /\ Head(commands[t]) = commands[t][1] /\ Head(commands[t]) \in Command
         /\ Tail(commands[t]) \in Seq(Command) /\ Len(Tail(commands[t])) = Len(commands[t]) - 1
         /\ \A i \in 1 .. Len(Tail(commands[t])) : Tail(commands[t])[i] = commands[t][i + 1]
<1>1. commands[t] \in Seq(Command) /\ commands[t] # <<>>
  BY DEF WifiTypeOK, Idle
<1>2. QED
  BY <1>1

LEMMA SavedType == WifiTypeOK => ToSet(profiles) \subseteq APs /\ ToSet(pinFile) \subseteq APs
<1> SUFFICES ASSUME WifiTypeOK PROVE ToSet(profiles) \subseteq APs /\ ToSet(pinFile) \subseteq APs
  OBVIOUS
<1>1. profiles \in Seq(APs) /\ pinFile \in Seq(APs)
  BY OrderType DEF WifiTypeOK
<1>2. QED
  BY <1>1 DEF ToSet

LEMMA WifiTypeNext == WifiTypeOK /\ [WifiNext]_wifiVars => WifiTypeOK'
<1> SUFFICES ASSUME WifiTypeOK, [WifiNext]_wifiVars PROVE WifiTypeOK'
  OBVIOUS
<1>0. /\ profiles \in Seq(APs) /\ IsInjective(profiles)
      /\ ToSet(profiles) \subseteq APs /\ ToSet(pinFile) \subseteq APs
      /\ pinFile \in Orders /\ pinFile \in Seq(APs)
  BY SavedType, OrderType DEF WifiTypeOK
<1>1. ASSUME NEW ap \in APs, NEW state \in {"gone", "there", "good"}, NetworkChanges(ap, state)
      PROVE  WifiTypeOK'
  <2>1. air' \in [APs -> {"gone", "there", "good"}] /\ link' \in APs \union {NoLink}
    BY <1>1 DEF NetworkChanges, WifiTypeOK
  <2>2. netChanges' \in 0 .. MaxNetChanges
    BY <1>1, WifiAssumption DEF NetworkChanges, WifiTypeOK
  <2>3. QED
    BY <2>1, <2>2, <1>1 DEF NetworkChanges, WifiTypeOK
<1>2. ASSUME NEW ap \in APs, ConnectTo(ap) PROVE WifiTypeOK'
  <2>1. profiles' \in Seq(APs) /\ IsInjective(profiles')
    BY <1>0, <1>2, ForemostType DEF ConnectTo
  <2>2. priority' \in [APs -> Int] /\ link' \in APs \union {NoLink}
    BY <1>2 DEF ConnectTo, WifiTypeOK
  <2>3. [do |-> "list", ap |-> ap] \in Command
    BY DEF Command
  <2>4. commands' \in [{"connect", "pin"} -> Seq(Command)]
    BY <1>2, <2>3 DEF ConnectTo, WifiTypeOK
  <2>5. /\ wifiRequests' \in [{"connect", "pin"} -> Nat]
        /\ wifiRequests'["connect"] <= MaxConnects /\ wifiRequests'["pin"] <= MaxPins
    BY <1>2, WifiAssumption DEF ConnectTo, WifiTypeOK
  <2>6. disturbed' \in BOOLEAN
    BY <1>2 DEF ConnectTo, WifiTypeOK
  <2>7. QED
    BY <2>1, <2>2, <2>4, <2>5, <2>6, <1>2 DEF ConnectTo, WifiTypeOK
<1>3. ASSUME NEW order \in Orders, SetPriority(order) PROVE WifiTypeOK'
  <2>1. commands' \in [{"connect", "pin"} -> Seq(Command)]
    <3>1. ASSUME NEW new \in Chosen(order, ToSet(profiles)),
                 NEW old \in Chosen(pinFile, ToSet(profiles) \ ToSet(new))
          PROVE  Repin(new, old) \in Seq(Command)
      <4>1. new \in Orders /\ old \in Seq(APs)
        BY <1>0, ChosenOrder, ChosenType
      <4>2. QED
        BY <4>1, RepinType
    <3>2. Repin(<<>>, <<>>) \in Seq(Command)
      BY OrderType, RepinType
    <3>3. \E q \in Seq(Command) : commands' = [commands EXCEPT !["pin"] = q]
      BY <1>3, <3>1, <3>2 DEF SetPriority
    <3>4. QED
      BY <3>3 DEF WifiTypeOK
  <2>2. /\ wifiRequests' \in [{"connect", "pin"} -> Nat]
        /\ wifiRequests'["connect"] <= MaxConnects /\ wifiRequests'["pin"] <= MaxPins
    BY <1>3, WifiAssumption DEF SetPriority, WifiTypeOK
  <2>3. disturbed' \in BOOLEAN
    BY <1>3 DEF SetPriority, WifiTypeOK
  <2>4. QED
    BY <2>1, <2>2, <2>3, <1>3 DEF SetPriority, WifiTypeOK
<1>4. CASE ListProfiles
  <2>1. Head(commands["connect"]).ap \in APs
    BY <1>4, HeadType, CommandType DEF ListProfiles
  <2>2. \A list \in Foremost(Head(commands["connect"]).ap, profiles) :
          [do |-> "pins", seen |-> list] \in Command
    <3> SUFFICES ASSUME NEW list \in Foremost(Head(commands["connect"]).ap, profiles)
                 PROVE  [do |-> "pins", seen |-> list] \in Command
      OBVIOUS
    <3>1. list \in Seq(APs)
      BY <1>0, <2>1, ForemostType
    <3>2. QED
      BY <3>1 DEF Command
  <2>3. \E q \in Seq(Command) : commands' = [commands EXCEPT !["connect"] = q]
    <3>1. CASE commands' = [commands EXCEPT !["connect"] = <<>>]
      <4>1. <<>> \in Seq(Command)
        OBVIOUS
      <4>2. QED
        BY <3>1, <4>1
    <3>2. ASSUME NEW list \in Foremost(Head(commands["connect"]).ap, profiles),
                 commands' = [commands EXCEPT !["connect"] = <<[do |-> "pins", seen |-> list]>>]
          PROVE  \E q \in Seq(Command) : commands' = [commands EXCEPT !["connect"] = q]
      <4>1. <<[do |-> "pins", seen |-> list]>> \in Seq(Command)
        BY <2>2
      <4>2. QED
        BY <3>2, <4>1
    <3>3. QED
      BY <3>1, <3>2, <1>4 DEF ListProfiles
  <2>4. commands' \in [{"connect", "pin"} -> Seq(Command)]
    BY <2>3 DEF WifiTypeOK
  <2>5. QED
    BY <2>4, <1>4 DEF ListProfiles, WifiTypeOK
<1>5. CASE ReadPins
  <2>1. Head(commands["connect"]).seen \in Seq(APs) /\ Managed \in SUBSET APs
    BY <1>5, HeadType, CommandType DEF ReadPins, Managed
  <2>2. \A others \in Chosen(Head(commands["connect"]).seen, Managed) : Pruning(others) \in Seq(Command)
    BY <2>1, ChosenType, PruningType
  <2>3. \E q \in Seq(Command) : commands' = [commands EXCEPT !["connect"] = q]
    BY <1>5, <2>2 DEF ReadPins
  <2>4. commands' \in [{"connect", "pin"} -> Seq(Command)]
    BY <2>3 DEF WifiTypeOK
  <2>5. QED
    BY <2>4, <1>5 DEF ReadPins, WifiTypeOK
<1>6. ASSUME NEW t \in {"connect", "pin"}, ~Idle(t), Done(t)
      PROVE  commands' \in [{"connect", "pin"} -> Seq(Command)]
  BY <1>6, HeadType DEF Done, WifiTypeOK
<1>7. CASE WritePins
  <2>1. pinFile' \in Orders
    BY <1>7, HeadType, CommandType, OrderType DEF WritePins
  <2>2. QED
    BY <1>6, <1>7, <2>1 DEF WritePins, WifiTypeOK
<1>8. ASSUME NEW t \in {"connect", "pin"}, ModifyProfile(t) PROVE WifiTypeOK'
  <2>1. Head(commands[t]).ap \in APs /\ Head(commands[t]).to \in Int
    BY <1>8, HeadType, CommandType DEF ModifyProfile
  <2>2. priority' \in [APs -> Int]
    BY <1>8, <2>1 DEF ModifyProfile, WifiTypeOK
  <2>3. QED
    BY <1>6, <1>8, <2>2 DEF ModifyProfile, WifiTypeOK
<1>9. ASSUME NEW t \in {"connect", "pin"}, DeleteProfile(t) PROVE WifiTypeOK'
  <2>1. profiles' \in Seq(APs) /\ IsInjective(profiles')
    BY <1>0, <1>9, ChosenType DEF DeleteProfile
  <2>2. link' \in APs \union {NoLink}
    BY <1>9 DEF DeleteProfile, WifiTypeOK
  <2>3. QED
    BY <1>6, <1>9, <2>1, <2>2 DEF DeleteProfile, WifiTypeOK
<1>10. ASSUME NEW t \in {"connect", "pin"}, CallFails(t) PROVE WifiTypeOK'
  BY <1>6, <1>10 DEF CallFails, WifiTypeOK
<1>11. CASE FindOnline
  BY <1>11 DEF FindOnline, WifiTypeOK
<1>12. CASE FindOffline
  <2>1. failcount' \in Nat /\ candidates' \in Seq(APs)
    BY <1>0, <1>12 DEF FindOffline, WifiTypeOK
  <2>2. QED
    BY <2>1, <1>12 DEF FindOffline, WifiTypeOK
<1>13. CASE TryNext
  <2> DEFINE ap == Head(candidates)
  <2>1. ap \in APs /\ candidates \in Seq(APs) /\ Tail(candidates) \in Seq(APs)
    BY <1>13 DEF TryNext, WifiTypeOK
  <2>2. profiles' \in Seq(APs) /\ IsInjective(profiles')
    BY <1>0, <1>13, <2>1, ForemostType DEF TryNext
  <2>3. link' \in APs \union {NoLink} /\ failcount' \in Nat /\ candidates' \in Seq(APs)
    BY <1>13, <2>1 DEF TryNext, WifiTypeOK
  <2>4. QED
    BY <2>2, <2>3, <1>13 DEF TryNext, WifiTypeOK
<1>14. CASE UNCHANGED wifiVars
  BY <1>14 DEF WifiTypeOK
<1>15. QED
  BY <1>1, <1>2, <1>3, <1>4, <1>5, <1>7, <1>8, <1>9, <1>10, <1>11, <1>12, <1>13, <1>14
  DEF WifiNext, ConsoleStep, ScriptStep

\* Every reachable state of the networks, their priorities, the requests and the
\* script is well typed.
THEOREM WifiTypeCorrect == WifiSpec => []WifiTypeOK
<1>1. WifiInit => WifiTypeOK
  BY WifiTypeInit
<1>2. WifiTypeOK /\ [WifiNext]_wifiVars => WifiTypeOK'
  BY WifiTypeNext
<1>3. QED
  BY <1>1, <1>2, PTL DEF WifiSpec

\* Only what is read of priorities, pins and calls, and which profiles there are,
\* matters.
LEMMA CalmSame ==
  ASSUME Calm, ToSet(profiles') = ToSet(profiles), UNCHANGED <<priority, pinFile, commands>>
  PROVE  Calm'
<1>1. \A order : InBands(order) => InBands(order)'
  BY DEF InBands, Saved
<1>2. \A q, order : SetOrToBeSet(q, order) => SetOrToBeSet(q, order)'
  BY DEF SetOrToBeSet, Saved
<1>3. \A q, order : PinsUnderWay(q, order) => PinsUnderWay(q, order)'
  BY <1>2 DEF PinsUnderWay
<1>4. \A order : order \in Orders => order \in Orders'
  OBVIOUS
<1>5. Calm'
  BY <1>1, <1>3 DEF Calm, Idle
<1>6. QED
  BY <1>5

\* The networks of a sequence, by their places.
LEMMA InSet == \A s, x : x \in ToSet(s) <=> \E i \in DOMAIN s : s[i] = x
BY DEF ToSet

\* After a call that is not the last, the rest is as it was.
LEMMA RestUnderWay ==
  ASSUME WifiTypeOK, ~Idle("pin"), NEW order \in Orders,
         WritesLast(commands["pin"], order), SetsBands(commands["pin"], order),
         Head(commands["pin"]).do # "write"
  PROVE  /\ WritesLast(Tail(commands["pin"]), order) /\ SetsBands(Tail(commands["pin"]), order)
         /\ \A ap : ToBeSet(commands["pin"], ap) =>
              \/ ToBeSet(Tail(commands["pin"]), ap)
              \/ Head(commands["pin"]).do = "modify" /\ Head(commands["pin"]).ap = ap
<1> DEFINE q    == commands["pin"]
           rest == Tail(commands["pin"])
<1>1. /\ q \in Seq(Command) /\ Len(q) \in Nat /\ Len(q) >= 1 /\ Head(q) = q[1]
      /\ rest \in Seq(Command) /\ Len(rest) = Len(q) - 1
      /\ \A i \in 1 .. Len(rest) : rest[i] = q[i + 1]
  BY HeadType
<1>2. /\ q[Len(q)] = [do |-> "write", order |-> order]
      /\ \A i \in 1 .. Len(q) - 1 : q[i].do = IF i = Len(q) - 1 THEN "truncate" ELSE "modify"
  BY DEF WritesLast
<1>3. SetsBands(q, order) /\ Head(q).do # "write"
  OBVIOUS
<1> HIDE DEF q, rest
<1>4. Len(q) # 1
  BY <1>1, <1>2, <1>3
<1>5. WritesLast(rest, order)
  <2>1. rest # <<>> /\ rest[Len(rest)] = q[Len(q)]
    BY <1>1, <1>4
  <2>2. ASSUME NEW i \in 1 .. Len(rest) - 1
        PROVE  rest[i].do = IF i = Len(rest) - 1 THEN "truncate" ELSE "modify"
    <3>1. i + 1 \in 1 .. Len(q) - 1 /\ rest[i] = q[i + 1] /\ (i + 1 = Len(q) - 1 <=> i = Len(rest) - 1)
      BY <1>1
    <3>2. QED
      BY <1>2, <3>1
  <2>3. QED
    BY <1>2, <2>1, <2>2 DEF WritesLast
<1>6. \A i \in DOMAIN rest : i + 1 \in DOMAIN q /\ rest[i] = q[i + 1]
  BY <1>1
<1>7. SetsBands(rest, order)
  BY <1>3, <1>6 DEF SetsBands
<1>8. ASSUME NEW ap, ToBeSet(q, ap)
      PROVE  ToBeSet(rest, ap) \/ (Head(q).do = "modify" /\ Head(q).ap = ap)
  <2>1. PICK i \in DOMAIN q : q[i].do = "modify" /\ q[i].ap = ap
    BY <1>8 DEF ToBeSet
  <2>2. CASE i = 1
    BY <2>1, <2>2, <1>1
  <2>3. CASE i # 1
    <3>1. i - 1 \in 1 .. Len(rest) /\ (i - 1) + 1 = i
      BY <2>3, <1>1
    <3>2. i - 1 \in DOMAIN rest /\ rest[i - 1] = q[i]
      BY <3>1, <1>1
    <3>3. QED
      BY <3>2, <2>1 DEF ToBeSet
  <2>4. QED
    BY <2>2, <2>3
<1>9. QED
  BY <1>5, <1>7, <1>8 DEF q, rest

\* A pin request that sets out from priorities in order has all the calls it needs.
LEMMA RepinUnderWay ==
  ASSUME WifiTypeOK, InBands(pinFile), NEW order \in Orders,
         ToSet(order) \subseteq ToSet(profiles),
         NEW old \in Chosen(pinFile, ToSet(profiles) \ ToSet(order))
  PROVE  PinsUnderWay(Repin(order, old), order)
<1> DEFINE q == Repin(order, old)
           k == Len(order)
           n == Len(order) + Len(old)
<1>0. /\ ToSet(profiles) \subseteq APs /\ pinFile \in Seq(APs) /\ order \in Seq(APs) /\ IsInjective(order)
  BY SavedType, OrderType DEF WifiTypeOK
<1>1. /\ old \in Seq(APs) /\ DOMAIN old = 1 .. Len(old) /\ Len(old) \in Nat
      /\ ToSet(old) = ToSet(pinFile) \intersect (ToSet(profiles) \ ToSet(order))
  BY <1>0, ChosenType
<1>2. /\ q \in Seq(Command) /\ Len(q) = n + 2 /\ k \in Nat /\ n \in Nat /\ k <= n
      /\ \A i \in 1 .. k : q[i] = [do |-> "modify", ap |-> order[i], to |-> 200 - (i - 1)]
      /\ \A i \in k + 1 .. n : q[i] = [do |-> "modify", ap |-> old[i - k], to |-> 0]
      /\ q[n + 1] = [do |-> "truncate"] /\ q[n + 2] = [do |-> "write", order |-> order]
  BY <1>1, RepinType
<1>3. DOMAIN order = 1 .. k /\ DOMAIN q = 1 .. n + 2 /\ n = k + Len(old)
  BY <1>0, <1>2
<1> HIDE DEF q, k, n
<1>a. \A i \in 1 .. k : q[i].do = "modify" /\ q[i].ap = order[i] /\ q[i].to = 200 - (i - 1)
  <2> SUFFICES ASSUME NEW i \in 1 .. k
               PROVE  q[i].do = "modify" /\ q[i].ap = order[i] /\ q[i].to = 200 - (i - 1)
    OBVIOUS
  <2>1. q[i] = [do |-> "modify", ap |-> order[i], to |-> 200 - (i - 1)]
    BY <1>2
  <2>2. QED
    BY ONLY <2>1
<1>b. \A i \in k + 1 .. n : q[i].do = "modify" /\ q[i].ap = old[i - k] /\ q[i].to = 0
  <2> SUFFICES ASSUME NEW i \in k + 1 .. n
               PROVE  q[i].do = "modify" /\ q[i].ap = old[i - k] /\ q[i].to = 0
    OBVIOUS
  <2>1. q[i] = [do |-> "modify", ap |-> old[i - k], to |-> 0]
    BY <1>2
  <2>2. QED
    BY ONLY <2>1
<1>c. q[n + 1].do = "truncate" /\ q[n + 2].do = "write"
  <2>1. q[n + 1] = [do |-> "truncate"] /\ q[n + 2] = [do |-> "write", order |-> order]
    BY <1>2
  <2>2. QED
    BY ONLY <2>1
<1>d. k \in Nat /\ n \in Nat /\ k <= n /\ Len(q) = n + 2
  BY <1>2
<1>4. WritesLast(q, order)
  <2>1. q # <<>> /\ q[Len(q)] = [do |-> "write", order |-> order]
    BY <1>2
  <2>2. ASSUME NEW i \in 1 .. Len(q) - 1
        PROVE  q[i].do = IF i = Len(q) - 1 THEN "truncate" ELSE "modify"
    <3>1. CASE i = n + 1
      BY <3>1, <1>c, <1>d
    <3>2. CASE i \in 1 .. k
      BY <3>2, <1>a, <1>d
    <3>3. CASE i \in k + 1 .. n
      BY <3>3, <1>b, <1>d
    <3>4. i \in 1 .. k \/ i \in k + 1 .. n \/ i = n + 1
      BY <1>d
    <3>5. QED
      BY <3>1, <3>2, <3>3, <3>4
  <2>3. QED
    BY <2>1, <2>2 DEF WritesLast
<1>5. \A i \in k + 1 .. n : i - k \in DOMAIN old /\ old[i - k] \notin ToSet(order)
  <2> SUFFICES ASSUME NEW i \in k + 1 .. n PROVE i - k \in DOMAIN old /\ old[i - k] \notin ToSet(order)
    OBVIOUS
  <2>1. i - k \in DOMAIN old
    BY <1>1, <1>d, <1>3
  <2>2. old[i - k] \in ToSet(old)
    BY <2>1, InSet
  <2>3. QED
    BY <2>1, <2>2, <1>1
<1>6. SetsBands(q, order)
  <2> SUFFICES ASSUME NEW i \in DOMAIN q, q[i].do = "modify"
               PROVE  /\ \A j \in DOMAIN order : order[j] = q[i].ap => q[i].to = 200 - (j - 1)
                      /\ q[i].ap \notin ToSet(order) => q[i].to <= 100
    BY DEF SetsBands
  <2>1. i \in 1 .. k \/ i \in k + 1 .. n
    <3>1. i \in 1 .. n + 2 /\ i # n + 1 /\ i # n + 2
      BY <1>c, <1>3
    <3>2. QED
      BY <3>1, <1>d
  <2>2. CASE i \in 1 .. k
    <3>1. q[i].ap = order[i] /\ q[i].to = 200 - (i - 1) /\ i \in DOMAIN order
      BY <2>2, <1>a, <1>3
    <3>2. \A j \in DOMAIN order : order[j] = order[i] => j = i
      BY <3>1, <1>0 DEF IsInjective
    <3>3. q[i].ap \in ToSet(order)
      BY <3>1, InSet
    <3>4. QED
      BY <3>1, <3>2, <3>3
  <2>3. CASE i \in k + 1 .. n
    <3>1. q[i].ap = old[i - k] /\ q[i].to = 0
      BY <2>3, <1>b
    <3>2. q[i].ap \notin ToSet(order)
      BY <2>3, <3>1, <1>5
    <3>3. \A j \in DOMAIN order : order[j] # q[i].ap
      BY <3>2, InSet
    <3>4. QED
      BY <3>1, <3>3
  <2>4. QED
    BY <2>1, <2>2, <2>3
<1>7. \A j \in DOMAIN order : Saved(order[j])
  BY InSet DEF Saved
<1>8. \A j \in DOMAIN order : ToBeSet(q, order[j])
  <2> SUFFICES ASSUME NEW j \in DOMAIN order PROVE ToBeSet(q, order[j])
    OBVIOUS
  <2>1. j \in DOMAIN q /\ q[j].do = "modify" /\ q[j].ap = order[j]
    BY <1>a, <1>d, <1>3
  <2>2. QED
    BY <2>1 DEF ToBeSet
<1>9. ASSUME NEW ap \in APs, Saved(ap), ap \notin ToSet(order) PROVE priority[ap] <= 100 \/ ToBeSet(q, ap)
  <2>1. CASE ap \notin ToSet(pinFile)
    BY <1>9, <2>1 DEF InBands
  <2>2. CASE ap \in ToSet(pinFile)
    <3>1. ap \in ToSet(old)
      BY <1>1, <1>9, <2>2 DEF Saved
    <3>2. PICK j \in 1 .. Len(old) : old[j] = ap
      BY <3>1, <1>1, InSet
    <3>3. k + j \in k + 1 .. n /\ (k + j) - k = j /\ k + j \in DOMAIN q
      BY <1>1, <1>d, <1>3
    <3>4. q[k + j].do = "modify" /\ q[k + j].ap = ap
      BY <3>2, <3>3, <1>b
    <3>5. QED
      BY <3>3, <3>4 DEF ToBeSet
  <2>3. QED
    BY <2>1, <2>2
<1>10. SetOrToBeSet(q, order)
  BY <1>7, <1>8, <1>9 DEF SetOrToBeSet
<1>11. QED
  BY <1>4, <1>6, <1>10 DEF PinsUnderWay, q

LEMMA CalmInit == WifiInit => Calm
<1> SUFFICES ASSUME WifiInit PROVE Calm
  OBVIOUS
<1>1. commands["connect"] = <<>> /\ commands["pin"] = <<>> /\ pinFile = <<>>
  BY DEF WifiInit
<1>2. InBands(pinFile)
  BY <1>1 DEF WifiInit, InBands
<1>3. Spares(commands["connect"], pinFile)
  BY <1>1 DEF Spares
<1>4. QED
  BY <1>1, <1>2, <1>3 DEF Calm, Idle

\* What has been disturbed stays so.
LEMMA StaysDisturbed == WifiTypeOK /\ [WifiNext]_wifiVars /\ disturbed => disturbed'
BY DEF WifiTypeOK, WifiNext, ConsoleStep, ScriptStep, NetworkChanges, ConnectTo, SetPriority, ListProfiles,
       ReadPins, WritePins, ModifyProfile, DeleteProfile, CallFails, FindOnline, FindOffline, TryNext

\* A request to the pins, or a connect, makes a call.
LEMMA CalmConsole ==
  ASSUME WifiTypeOK, ConsoleStep, Calm, ~disturbed'
  PROVE  Calm'
<1> USE DEF Idle
<1>0. /\ ToSet(profiles) \subseteq APs /\ ToSet(pinFile) \subseteq APs /\ pinFile \in Orders
      /\ profiles \in Seq(APs) /\ DOMAIN commands = {"connect", "pin"}
      /\ priority \in [APs -> Int]
  BY SavedType DEF WifiTypeOK
<1>1. ASSUME ~Idle("connect")
      PROVE  /\ Idle("pin") /\ InBands(pinFile) /\ Spares(commands["connect"], pinFile)
  BY <1>1 DEF Calm
<1>2. ASSUME UNCHANGED <<profiles, priority, pinFile>>, InBands(pinFile), Idle("pin"),
             NEW q, commands' = [commands EXCEPT !["connect"] = q], Spares(q, pinFile)
      PROVE  Calm'
  <2>1. commands'["connect"] = q /\ commands'["pin"] = <<>>
    BY <1>0, <1>2
  <2>2. InBands(pinFile)'
    BY <1>2 DEF InBands, Saved
  <2>3. Spares(commands["connect"], pinFile)'
    BY <1>2, <2>1 DEF Spares
  <2>4. QED
    BY <2>1, <2>2, <2>3 DEF Calm
<1>3. ASSUME ~Idle("connect"), Done("connect")
      PROVE  /\ Idle("pin")' /\ Spares(commands["connect"], pinFile) /\ Spares(commands'["connect"], pinFile)
             /\ commands["connect"][1] = Head(commands["connect"]) /\ 1 \in DOMAIN commands["connect"]
  <2>1. commands'["connect"] = Tail(commands["connect"]) /\ commands'["pin"] = commands["pin"]
    BY <1>0, <1>3 DEF Done
  <2>2. /\ Len(commands["connect"]) \in Nat /\ Len(commands["connect"]) >= 1
        /\ commands["connect"] \in Seq(Command) /\ Tail(commands["connect"]) \in Seq(Command)
        /\ Head(commands["connect"]) = commands["connect"][1]
        /\ Len(Tail(commands["connect"])) = Len(commands["connect"]) - 1
        /\ \A i \in 1 .. Len(Tail(commands["connect"])) :
             Tail(commands["connect"])[i] = commands["connect"][i + 1]
    BY <1>3, HeadType
  <2>3. \A i \in DOMAIN Tail(commands["connect"]) :
          i + 1 \in DOMAIN commands["connect"]
          /\ Tail(commands["connect"])[i] = commands["connect"][i + 1]
    BY <2>2
  <2>4. Spares(Tail(commands["connect"]), pinFile)
    BY <1>1, <1>3, <2>3 DEF Spares
  <2>5. QED
    BY <1>1, <1>3, <2>1, <2>2, <2>4
<1>4. ASSUME ~Idle("pin")
      PROVE  Idle("connect") /\ \E order \in Orders : PinsUnderWay(commands["pin"], order)
  BY <1>4 DEF Calm
<1>5. CASE ListProfiles
  <2>1. ~Idle("connect") /\ UNCHANGED <<profiles, priority, pinFile>>
    BY <1>5 DEF ListProfiles
  <2>2. \E q : commands' = [commands EXCEPT !["connect"] = q] /\ Spares(q, pinFile)
    <3>1. Spares(<<>>, pinFile)
      BY DEF Spares
    <3>2. \A list : Spares(<<[do |-> "pins", seen |-> list]>>, pinFile)
      BY DEF Spares
    <3>3. QED
      BY <1>5, <3>1, <3>2 DEF ListProfiles
  <2>3. QED
    BY <1>1, <1>2, <2>1, <2>2
<1>6. CASE ReadPins
  <2>1. ~Idle("connect") /\ UNCHANGED <<profiles, priority, pinFile>>
    BY <1>6 DEF ReadPins
  <2>2. Head(commands["connect"]).seen \in Seq(APs) /\ Managed \in SUBSET APs
    BY <1>6, HeadType, CommandType DEF ReadPins, Managed
  <2>3. ASSUME NEW others \in Chosen(Head(commands["connect"]).seen, Managed)
        PROVE  Spares(Pruning(others), pinFile)
    <3>1. others \in Seq(APs) /\ ToSet(others) \subseteq Managed
      BY <2>2, ChosenType
    <3>2. \A x \in ToSet(others) : x \notin ToSet(pinFile)
      BY <3>1 DEF Managed
    <3>3. QED
      BY <3>1, <3>2, PruningType DEF Spares
  <2>4. \E q : commands' = [commands EXCEPT !["connect"] = q] /\ Spares(q, pinFile)
    BY <1>6, <2>3 DEF ReadPins
  <2>5. QED
    BY <1>1, <1>2, <2>1, <2>4
<1>7. CASE ModifyProfile("connect")
  <2> DEFINE c == Head(commands["connect"])
  <2>1. /\ ~Idle("connect") /\ c.do = "modify" /\ Done("connect")
        /\ UNCHANGED <<profiles, pinFile>>
        /\ priority' = IF Saved(c.ap) THEN [priority EXCEPT ![c.ap] = c.to] ELSE priority
    BY <1>7 DEF ModifyProfile
  <2>2. c.ap \notin ToSet(pinFile) /\ c.to <= 100
    BY <1>3, <2>1 DEF Spares
  <2>3. c.ap \in APs /\ c.to \in Int
    BY <2>1, HeadType, CommandType
  <2> HIDE DEF c
  <2>4. \A x \in APs : priority'[x] = priority[x] \/ (x = c.ap /\ priority'[x] = c.to)
    BY <1>0, <2>1, <2>3
  <2>5. \A i \in DOMAIN pinFile : pinFile[i] \in ToSet(pinFile)
    BY InSet
  <2>6. InBands(pinFile)'
    <3>1. \A i \in DOMAIN pinFile : Saved(pinFile[i])' /\ priority'[pinFile[i]] = 200 - (i - 1)
      BY <1>0, <1>1, <2>1, <2>2, <2>4, <2>5 DEF InBands, Saved
    <3>2. \A x \in APs : Saved(x)' /\ x \notin ToSet(pinFile) => priority'[x] <= 100
      BY <1>1, <2>1, <2>2, <2>4 DEF InBands, Saved
    <3>3. QED
      BY <2>1, <3>1, <3>2 DEF InBands
  <2>7. Spares(commands["connect"], pinFile)'
    BY <1>3, <2>1 DEF Spares
  <2>8. QED
    BY <1>3, <2>1, <2>6, <2>7 DEF Calm
<1>8. CASE DeleteProfile("connect")
  <2> DEFINE c == Head(commands["connect"])
  <2>1. /\ ~Idle("connect") /\ c.do = "delete" /\ Done("connect")
        /\ UNCHANGED <<priority, pinFile>>
        /\ profiles' \in Chosen(profiles, APs \ {c.ap})
    BY <1>8 DEF DeleteProfile
  <2>2. c.ap \notin ToSet(pinFile)
    BY <1>3, <2>1 DEF Spares
  <2> HIDE DEF c
  <2>3. ToSet(profiles') = ToSet(profiles) \intersect (APs \ {c.ap})
    BY <1>0, <2>1, ChosenType
  <2>4. \A i \in DOMAIN pinFile : pinFile[i] \in ToSet(pinFile)
    BY InSet
  <2>5. InBands(pinFile)'
    <3>1. \A i \in DOMAIN pinFile : Saved(pinFile[i])' /\ priority'[pinFile[i]] = 200 - (i - 1)
      BY <1>0, <1>1, <2>1, <2>2, <2>3, <2>4 DEF InBands, Saved
    <3>2. \A x \in APs : Saved(x)' /\ x \notin ToSet(pinFile) => priority'[x] <= 100
      BY <1>1, <2>1, <2>3 DEF InBands, Saved
    <3>3. QED
      BY <2>1, <3>1, <3>2 DEF InBands
  <2>6. Spares(commands["connect"], pinFile)'
    BY <1>3, <2>1 DEF Spares
  <2>7. QED
    BY <1>3, <2>1, <2>5, <2>6 DEF Calm
<1>9. ASSUME ~Idle("pin"), Done("pin"), Head(commands["pin"]).do # "write", UNCHANGED profiles,
             NEW order \in Orders, PinsUnderWay(commands["pin"], order),
             \A x \in APs :
               \/ priority'[x] = priority[x]
               \/ /\ Head(commands["pin"]).do = "modify" /\ Head(commands["pin"]).ap = x
                  /\ priority'[x] = Head(commands["pin"]).to,
             ~(Head(commands["pin"]).do = "modify" /\ Saved(Head(commands["pin"]).ap) /\
               priority'[Head(commands["pin"]).ap] # Head(commands["pin"]).to)
      PROVE  Calm'
  <2> DEFINE c    == Head(commands["pin"])
             q    == commands["pin"]
             rest == Tail(commands["pin"])
  <2>1. commands'["pin"] = rest /\ commands'["connect"] = <<>>
    BY <1>0, <1>4, <1>9 DEF Done
  <2>2. /\ WritesLast(rest, order) /\ SetsBands(rest, order)
        /\ \A x : ToBeSet(q, x) => ToBeSet(rest, x) \/ (c.do = "modify" /\ c.ap = x)
    BY <1>9, RestUnderWay DEF PinsUnderWay
  <2>3. c = q[1] /\ 1 \in DOMAIN q /\ c \in Command
    <3>1. q \in Seq(Command) /\ Len(q) \in Nat /\ Len(q) >= 1 /\ c = q[1] /\ c \in Command
      BY <1>9, HeadType
    <3>2. QED
      BY <3>1
  <2>4. /\ SetOrToBeSet(q, order)
        /\ c.do = "modify" =>
             /\ \A j \in DOMAIN order : order[j] = c.ap => c.to = 200 - (j - 1)
             /\ c.ap \notin ToSet(order) => c.to <= 100
    BY <1>9, <2>3 DEF PinsUnderWay, SetsBands
  <2> HIDE DEF c, q, rest
  <2>5. \A x \in APs : priority'[x] = priority[x] \/ (c.do = "modify" /\ c.ap = x /\ priority'[x] = c.to)
    BY <1>9 DEF c
  <2>6. \A x \in APs : c.do = "modify" /\ c.ap = x /\ Saved(x) => priority'[x] = c.to
    BY <1>9 DEF c
  <2>7. \A j \in DOMAIN order : order[j] \in APs /\ order[j] \in ToSet(order)
    BY OrderType, InSet DEF ToSet
  <2>8. /\ \A j \in DOMAIN order : Saved(order[j])'
        /\ \A j \in DOMAIN order : priority'[order[j]] = 200 - (j - 1) \/ ToBeSet(rest, order[j])
        /\ \A x \in APs : Saved(x)' /\ x \notin ToSet(order) => priority'[x] <= 100 \/ ToBeSet(rest, x)
    <3>1. \A j \in DOMAIN order : Saved(order[j])'
      BY <1>9, <2>4 DEF SetOrToBeSet, Saved
    <3>2. \A j \in DOMAIN order : priority'[order[j]] = 200 - (j - 1) \/ ToBeSet(rest, order[j])
      <4> SUFFICES ASSUME NEW j \in DOMAIN order, ~ToBeSet(rest, order[j])
                   PROVE  priority'[order[j]] = 200 - (j - 1)
        OBVIOUS
      <4>1. order[j] \in APs /\ Saved(order[j])
        BY <2>4, <2>7 DEF SetOrToBeSet
      <4>2. CASE c.do = "modify" /\ c.ap = order[j]
        BY <4>1, <4>2, <2>4, <2>6
      <4>3. CASE ~(c.do = "modify" /\ c.ap = order[j])
        <5>1. priority[order[j]] = 200 - (j - 1)
          BY <4>3, <2>2, <2>4 DEF SetOrToBeSet
        <5>2. QED
          BY <4>1, <4>3, <5>1, <2>5
      <4>4. QED
        BY <4>2, <4>3
    <3>3. ASSUME NEW x \in APs, Saved(x)', x \notin ToSet(order), ~ToBeSet(rest, x)
          PROVE  priority'[x] <= 100
      <4>1. Saved(x)
        BY <1>9, <3>3 DEF Saved
      <4>2. CASE c.do = "modify" /\ c.ap = x
        BY <3>3, <4>1, <4>2, <2>4, <2>6
      <4>3. CASE ~(c.do = "modify" /\ c.ap = x)
        <5>1. priority[x] <= 100
          BY <3>3, <4>1, <4>3, <2>2, <2>4 DEF SetOrToBeSet
        <5>2. QED
          BY <4>3, <5>1, <2>5
      <4>4. QED
        BY <4>2, <4>3
    <3>4. QED
      BY <3>1, <3>2, <3>3
  <2>9. rest # <<>>
    BY <2>2 DEF WritesLast
  <2>10. PinsUnderWay(commands["pin"], order)'
    <3>1. WritesLast(commands'["pin"], order) /\ SetsBands(commands'["pin"], order)
      BY <2>1, <2>2
    <3>2. SetOrToBeSet(commands["pin"], order)'
      <4>1. \A x : ToBeSet(rest, x) => ToBeSet(commands'["pin"], x)
        BY <2>1
      <4>2. QED
        BY <2>8, <4>1 DEF SetOrToBeSet, ToBeSet
    <3>3. QED
      BY <3>1, <3>2 DEF PinsUnderWay, WritesLast, SetsBands
  <2>11. QED
    BY <2>1, <2>9, <2>10 DEF Calm
<1>10. CASE ModifyProfile("pin")
  <2> DEFINE c == Head(commands["pin"])
  <2>1. /\ ~Idle("pin") /\ c.do = "modify" /\ Done("pin") /\ UNCHANGED profiles
        /\ priority' = IF Saved(c.ap) THEN [priority EXCEPT ![c.ap] = c.to] ELSE priority
    BY <1>10 DEF ModifyProfile
  <2>2. c.ap \in APs
    BY <2>1, HeadType, CommandType
  <2>3. PICK order \in Orders : PinsUnderWay(commands["pin"], order)
    BY <1>4, <2>1
  <2>4. /\ \A x \in APs : priority'[x] = priority[x] \/ (c.do = "modify" /\ c.ap = x /\ priority'[x] = c.to)
        /\ Saved(c.ap) => priority'[c.ap] = c.to
    BY <1>0, <2>1, <2>2
  <2>5. QED
    BY <1>9, <2>1, <2>3, <2>4
<1>11. CASE WritePins
  <2>1. ~Idle("pin") /\ Done("pin") /\ UNCHANGED <<profiles, priority>>
    BY <1>11 DEF WritePins
  <2>2. PICK order \in Orders : PinsUnderWay(commands["pin"], order)
    BY <1>4, <2>1
  <2>3. CASE Head(commands["pin"]).do = "truncate"
    BY <1>9, <2>1, <2>2, <2>3
  <2>4. CASE Head(commands["pin"]).do = "write"
    <3> DEFINE q == commands["pin"]
    <3>1. /\ q \in Seq(Command) /\ Len(q) \in Nat /\ Len(q) >= 1 /\ Head(q) = q[1]
          /\ Len(Tail(q)) = Len(q) - 1 /\ Tail(q) \in Seq(Command)
      BY <2>1, HeadType
    <3>2. /\ q[Len(q)] = [do |-> "write", order |-> order]
          /\ \A i \in 1 .. Len(q) - 1 : q[i].do = IF i = Len(q) - 1 THEN "truncate" ELSE "modify"
      BY <2>2 DEF PinsUnderWay, WritesLast
    <3>3. SetOrToBeSet(q, order) /\ q[1].do = "write"
      BY <2>2, <2>4, <3>1 DEF PinsUnderWay
    <3>4. pinFile' = Head(q).order
      BY <1>11, <2>4 DEF WritePins
    <3>5. commands'["pin"] = Tail(q) /\ commands'["connect"] = <<>>
      BY <1>0, <1>4, <2>1 DEF Done
    <3> HIDE DEF q
    <3>6. Len(q) = 1
      <4>1. ~(1 \in 1 .. Len(q) - 1)
        BY <3>2, <3>3
      <4>2. QED
        BY <3>1, <4>1
    <3>7. pinFile' = order /\ Tail(q) = <<>>
      <4>1. q[1] = [do |-> "write", order |-> order] /\ Head(q) = q[1]
        BY <3>1, <3>2, <3>6
      <4>2. pinFile' = order
        BY <4>1, <3>4
      <4>3. Tail(q) = <<>>
        <5>1. Tail(q) \in Seq(Command) /\ Len(Tail(q)) = 0
          BY <3>1, <3>6
        <5> DEFINE r == Tail(q)
        <5>2. r \in Seq(Command) /\ Len(r) = 0
          BY <5>1
        <5> HIDE DEF r
        <5>3. r = <<>>
          BY <5>2, NothingLeft
        <5>4. QED
          BY <5>3 DEF r
      <4>4. QED
        BY <4>2, <4>3
    <3>8. \A x : ~ToBeSet(q, x)
      <4>1. \A i \in DOMAIN q : i = 1
        BY <3>1, <3>6
      <4>2. QED
        BY <4>1, <3>3 DEF ToBeSet
    <3>9. InBands(order)'
      BY <2>1, <3>3, <3>8 DEF InBands, SetOrToBeSet, Saved
    <3>10. InBands(pinFile)'
      BY <3>7, <3>9 DEF InBands
    <3>11. Spares(commands["connect"], pinFile)'
      BY <3>5 DEF Spares
    <3>12. QED
      BY <3>5, <3>7, <3>10, <3>11 DEF Calm
  <2>5. QED
    BY <1>11, <2>3, <2>4 DEF WritePins
<1>12. CASE DeleteProfile("pin")
  <2>1. ~Idle("pin") /\ Head(commands["pin"]).do = "delete"
    BY <1>12 DEF DeleteProfile
  <2>2. PICK order \in Orders : WritesLast(commands["pin"], order)
    BY <1>4, <2>1 DEF PinsUnderWay
  <2> DEFINE q == commands["pin"]
  <2>3. Len(q) \in Nat /\ Len(q) >= 1 /\ Head(q) = q[1] /\ q[1].do = "delete"
    BY <2>1, HeadType
  <2>4. /\ q[Len(q)].do = "write"
        /\ \A i \in 1 .. Len(q) - 1 : q[i].do = IF i = Len(q) - 1 THEN "truncate" ELSE "modify"
    BY <2>2 DEF WritesLast
  <2> HIDE DEF q
  <2>5. 1 \in 1 .. Len(q) - 1
    BY <2>3, <2>4
  <2>6. q[1].do \in {"truncate", "modify"}
    BY <2>4, <2>5
  <2>7. QED
    BY <2>3, <2>6
<1>13. ASSUME NEW t \in {"connect", "pin"}, CallFails(t) PROVE FALSE
  BY <1>13 DEF CallFails
<1>14. QED
  BY <1>5, <1>6, <1>7, <1>8, <1>10, <1>11, <1>12, <1>13 DEF ConsoleStep

LEMMA CalmNext ==
  ASSUME WifiTypeOK, [WifiNext]_wifiVars, Calm, ~disturbed'
  PROVE  Calm'
<1>0. /\ ToSet(profiles) \subseteq APs /\ ToSet(pinFile) \subseteq APs /\ pinFile \in Orders
      /\ profiles \in Seq(APs) /\ DOMAIN commands = {"connect", "pin"}
      /\ priority \in [APs -> Int]
  BY SavedType DEF WifiTypeOK
<1>1. ASSUME NEW ap \in APs, NEW state \in {"gone", "there", "good"}, NetworkChanges(ap, state)
      PROVE  Calm'
  BY <1>1, CalmSame DEF NetworkChanges
<1>2. ASSUME NEW ap \in APs, ConnectTo(ap) PROVE Calm'
  <2>1. /\ Idle("connect") /\ Idle("pin") /\ UNCHANGED pinFile
        /\ profiles' \in Foremost(ap, profiles)
        /\ priority' = IF Saved(ap) THEN priority ELSE [priority EXCEPT ![ap] = 0]
        /\ commands' = [commands EXCEPT !["connect"] = <<[do |-> "list", ap |-> ap]>>]
    BY <1>2 DEF ConnectTo
  <2>2. ToSet(profiles') = ToSet(profiles) \union {ap}
    BY <1>0, <2>1, ForemostType
  <2>3. InBands(pinFile)
    BY <2>1 DEF Calm
  <2>4. \A i \in DOMAIN pinFile : pinFile[i] \in APs
    BY <1>0, InSet
  <2>5. InBands(pinFile)'
    <3>1. \A i \in DOMAIN pinFile : Saved(pinFile[i])' /\ priority'[pinFile[i]] = 200 - (i - 1)
      BY <1>0, <2>1, <2>2, <2>3, <2>4 DEF InBands, Saved
    <3>2. \A x \in APs : Saved(x)' /\ x \notin ToSet(pinFile) => priority'[x] <= 100
      BY <1>0, <2>1, <2>2, <2>3 DEF InBands, Saved
    <3>3. QED
      BY <2>1, <3>1, <3>2 DEF InBands
  <2>6. commands'["pin"] = <<>> /\ commands'["connect"] = <<[do |-> "list", ap |-> ap]>>
    BY <1>0, <2>1 DEF Idle
  <2>7. Spares(commands["connect"], pinFile)'
    BY <2>6 DEF Spares
  <2>8. QED
    BY <2>5, <2>6, <2>7 DEF Calm, Idle
<1>3. ASSUME NEW order \in Orders, SetPriority(order) PROVE Calm'
  <2>1. /\ Idle("pin") /\ Idle("connect") /\ UNCHANGED <<profiles, priority, pinFile>>
        /\ \E new \in Chosen(order, ToSet(profiles)) :
             \E old \in Chosen(pinFile, ToSet(profiles) \ ToSet(new)) :
               commands' = [commands EXCEPT !["pin"] = Repin(new, old)]
    BY <1>3 DEF SetPriority
  <2>a. PICK new \in Chosen(order, ToSet(profiles)) :
          \E old \in Chosen(pinFile, ToSet(profiles) \ ToSet(new)) :
            commands' = [commands EXCEPT !["pin"] = Repin(new, old)]
    BY <2>1
  <2>2. PICK old \in Chosen(pinFile, ToSet(profiles) \ ToSet(new)) :
          commands' = [commands EXCEPT !["pin"] = Repin(new, old)]
    BY <2>a
  <2>3. new \in Orders /\ ToSet(new) \subseteq ToSet(profiles)
    <3>1. order \in Seq(APs)
      BY OrderType
    <3>2. new \in Orders
      BY <1>0, ChosenOrder
    <3>3. ToSet(new) = ToSet(order) \intersect ToSet(profiles)
      BY <1>0, <3>1, ChosenType
    <3>4. QED
      BY <3>2, <3>3
  <2>4. PinsUnderWay(Repin(new, old), new)
    BY <2>1, <2>3, RepinUnderWay DEF Calm
  <2>5. commands'["pin"] = Repin(new, old) /\ commands'["connect"] = <<>>
    BY <1>0, <2>1, <2>2 DEF Idle
  <2>6. PinsUnderWay(commands["pin"], new)'
    BY <2>1, <2>4, <2>5 DEF PinsUnderWay, WritesLast, SetsBands, SetOrToBeSet, ToBeSet, Saved
  <2>7. Repin(new, old) # <<>>
    BY <2>4 DEF PinsUnderWay, WritesLast
  <2>8. QED
    BY <2>3, <2>5, <2>6, <2>7 DEF Calm, Idle
<1>4. CASE ConsoleStep
  BY <1>4, CalmConsole
<1>5. CASE FindOnline
  BY <1>5, CalmSame DEF FindOnline
<1>6. CASE FindOffline
  BY <1>6, CalmSame DEF FindOffline
<1>7. CASE TryNext
  <2> DEFINE ap == Head(candidates)
  <2>1. ap \in APs
    BY <1>7 DEF TryNext, WifiTypeOK
  <2>2. /\ profiles' \in IF ComesUp(ap) THEN Foremost(ap, profiles) ELSE {profiles}
        /\ UNCHANGED <<priority, pinFile, commands>>
    BY <1>7 DEF TryNext
  <2> HIDE DEF ap
  <2>3. CASE ComesUp(ap)
    <3>1. ap \in ToSet(profiles) /\ ToSet(profiles') = ToSet(profiles) \union {ap}
      BY <1>0, <2>1, <2>2, <2>3, ForemostType DEF ComesUp, Saved
    <3>2. ToSet(profiles') = ToSet(profiles)
      BY <3>1
    <3>3. QED
      BY <2>2, <3>2, CalmSame
  <2>4. CASE ~ComesUp(ap)
    BY <2>2, <2>4, CalmSame
  <2>5. QED
    BY <2>3, <2>4
<1>8. CASE UNCHANGED wifiVars
  BY <1>8, CalmSame
<1>9. QED
  BY <1>1, <1>2, <1>3, <1>4, <1>5, <1>6, <1>7, <1>8 DEF WifiNext, ScriptStep

\* With no request under way, the bands are those of the pinned order.
LEMMA CalmFallbacks == WifiTypeOK /\ (~disturbed => Calm) => FallbacksInOrder
<1> SUFFICES ASSUME WifiTypeOK, Calm, Idle("connect"), Idle("pin")
             PROVE  /\ \A i \in DOMAIN pinFile : Saved(pinFile[i])
                    /\ \A i, j \in DOMAIN pinFile : i < j => priority[pinFile[i]] > priority[pinFile[j]]
                    /\ \A i \in DOMAIN pinFile, ap \in APs :
                         Saved(ap) /\ ap \notin ToSet(pinFile) => priority[pinFile[i]] > priority[ap]
  BY DEF FallbacksInOrder
<1>1. InBands(pinFile)
  BY DEF Calm
<1>2. Len(pinFile) \in Nat /\ Len(pinFile) <= MaxPinned /\ DOMAIN pinFile = 1 .. Len(pinFile)
  BY OrderType DEF WifiTypeOK
<1>3. MaxPinned \in Nat /\ MaxPinned <= 100 /\ priority \in [APs -> Int]
  BY WifiAssumption DEF WifiTypeOK
<1>4. \A i \in DOMAIN pinFile : i \in Nat /\ 200 - (i - 1) > 100
  BY <1>2, <1>3
<1>5. QED
  BY <1>1, <1>3, <1>4 DEF InBands

\* Pinned networks are never pruned and come first, in their order, unless a call
\* failed or a connect met a pin request (promote_and_prune_wifi,
\* set_wifi_priority), for any networks and requests and whatever the script does.
THEOREM FallbacksInOrderCorrect == WifiSpec => []FallbacksInOrder
<1>1. WifiInit => WifiInv
  BY WifiTypeInit, CalmInit DEF WifiInv
<1>2. WifiInv /\ [WifiNext]_wifiVars => WifiInv'
  <2> SUFFICES ASSUME WifiInv, [WifiNext]_wifiVars PROVE WifiInv'
    OBVIOUS
  <2>1. WifiTypeOK /\ WifiTypeOK'
    BY WifiTypeNext DEF WifiInv
  <2>2. ~disturbed' => Calm'
    BY <2>1, StaysDisturbed, CalmNext DEF WifiInv
  <2>3. QED
    BY <2>1, <2>2 DEF WifiInv
<1>3. WifiInv => FallbacksInOrder
  BY CalmFallbacks DEF WifiInv
<1>4. QED
  BY <1>1, <1>2, <1>3, PTL DEF WifiSpec
=============================================================================
