---------------------------- MODULE PlatformConfig ----------------------------
(***************************************************************************)
(* platform.json of the Edge Console (config_store.py): requests           *)
(* that change settings, and registrations with the SenseL platform, each  *)
(* in a thread of its own (main.py).  The file is truncated and written in *)
(* place, a text that cannot be read counts as the default settings, and   *)
(* the settings the packet sensor needs are copied to capture.env.  An     *)
(* edit copies the tenant with them (MQTT_TENANT_ID); the registration,    *)
(* which alone changes it, does not.                                       *)
(***************************************************************************)
EXTENDS Integers

CONSTANTS
  Fields,        \* settings of the configuration
  Values,        \* their values
  DefaultValue,  \* the value of every setting in a new configuration
  Tenants,       \* tenants a registration may return
  NoTenant,      \* not registered
  Edits,         \* requests to change a setting, each made once
  Registrations, \* requests to register, each made once
  MaxConsoleKills \* bound: how often the console is killed

ASSUME ConfigAssumption ==
  /\ DefaultValue \in Values /\ NoTenant \notin Tenants
  /\ Edits \intersect Registrations = {}
  /\ MaxConsoleKills \in Nat

VARIABLES
  config,        \* the text of the file; Torn if it cannot be read
  captureEnv,    \* the settings in capture.env, and its tenant
  thread,        \* each request: where it is, and the configuration it works on
  consoleKills,  \* how many kills there were
  wanted,        \* history: the last change of each setting, and the last tenant
  overlap,       \* history: a request loaded while another had loaded and not saved
  together,      \* history: an edit began while another was under way
  registered,    \* history: a tenant was recorded since an edit last loaded, or that
                 \* edit was killed
  cut            \* history: a kill left the file empty, or capture.env behind

configVars ==
  <<config, captureEnv, thread, consoleKills, wanted, overlap, together, registered, cut>>

Configs == [setting : [Fields -> Values], tenant : Tenants \union {NoTenant}]
Defaults == [setting |-> [f \in Fields |-> DefaultValue], tenant |-> NoTenant]
Torn == [torn |-> TRUE]

\* load: a file that cannot be read gives the defaults.
LoadConfig == IF config = Torn THEN Defaults ELSE config

Forms == Edits \union Registrations
FormStages == {"new", "registering", "load", "truncate", "write", "env", "done"}
NewForm == [stage |-> "new", work |-> Defaults, tenant |-> NoTenant]

ConfigTypeOK ==
  /\ config \in Configs \union {Torn} /\ captureEnv \in Configs
  /\ thread \in [Forms -> [stage : FormStages, work : Configs, tenant : Tenants \union {NoTenant}]]
  /\ consoleKills \in 0 .. MaxConsoleKills /\ wanted \in Configs
  /\ {overlap, together, registered, cut} \subseteq BOOLEAN

ConfigInit ==
  /\ config = Defaults /\ captureEnv = Defaults
  /\ thread = [r \in Forms |-> NewForm]
  /\ consoleKills = 0 /\ wanted = Defaults
  /\ overlap = FALSE /\ together = FALSE /\ registered = FALSE /\ cut = FALSE

Saving(r) == thread[r].stage \in {"truncate", "write"}
Running(r) == thread[r].stage \notin {"new", "done"}
Meets(r) == \E q \in Forms \ {r} : Saving(q)

-----------------------------------------------------------------------------
\* merge_update: load, change, save, copy to capture.env.

EditSetting(r, f, v) ==
  /\ thread[r].stage = "new"
  /\ thread' = [thread EXCEPT ![r].stage = "truncate",
                              ![r].work = [LoadConfig EXCEPT !.setting[f] = v]]
  /\ wanted' = [wanted EXCEPT !.setting[f] = v]
  /\ overlap' = (overlap \/ Meets(r))
  /\ together' = (together \/ \E q \in Edits \ {r} : Running(q))
  /\ registered' = FALSE
  /\ UNCHANGED <<config, captureEnv, consoleKills, cut>>

\* register_test: the platform is asked, and the answer recorded in the
\* configuration loaded afterwards; a refusal changes no setting.
AskPlatform(r) ==
  /\ thread[r].stage = "new"
  /\ thread' = [thread EXCEPT ![r].stage = "registering", ![r].work = LoadConfig]
  /\ UNCHANGED <<config, captureEnv, consoleKills, wanted, overlap, together, registered, cut>>

PlatformAnswers(r, tenant) ==
  /\ thread[r].stage = "registering"
  /\ thread' = [thread EXCEPT ![r].stage = "load", ![r].tenant = tenant]
  /\ UNCHANGED <<config, captureEnv, consoleKills, wanted, overlap, together, registered, cut>>

Recording(r, c) == IF thread[r].tenant = NoTenant THEN c ELSE [c EXCEPT !.tenant = thread[r].tenant]

\* Mutant: the result goes into the configuration the registration was made with.
RecordRegistration_AsAsked(r) ==
  /\ thread[r].stage = "load"
  /\ thread' = [thread EXCEPT ![r].stage = "truncate", ![r].work = Recording(r, @)]
  /\ wanted' = Recording(r, wanted)
  /\ overlap' = (overlap \/ Meets(r))
  /\ registered' = (registered \/ thread[r].tenant # NoTenant)
  /\ UNCHANGED <<config, captureEnv, consoleKills, together, cut>>

RecordRegistration(r) ==
  /\ thread[r].stage = "load"
  /\ thread' = [thread EXCEPT ![r].stage = "truncate", ![r].work = Recording(r, LoadConfig)]
  /\ wanted' = Recording(r, wanted)
  /\ overlap' = (overlap \/ Meets(r))
  /\ registered' = (registered \/ thread[r].tenant # NoTenant)
  /\ UNCHANGED <<config, captureEnv, consoleKills, together, cut>>

-----------------------------------------------------------------------------
\* save: the file is opened for writing, and written.

TruncateConfig(r) ==
  /\ thread[r].stage = "truncate"
  /\ config' = Torn
  /\ thread' = [thread EXCEPT ![r].stage = "write"]
  /\ UNCHANGED <<captureEnv, consoleKills, wanted, overlap, together, registered, cut>>

\* What another request has written since the file was opened may stick out behind
\* the new text, which is then no JSON.  Only an edit goes on to capture.env.
WriteConfig(r) ==
  /\ thread[r].stage = "write"
  /\ \/ config' = thread[r].work
     \/ config # Torn /\ config' = Torn
  /\ thread' = [thread EXCEPT ![r] =
                  IF r \in Edits THEN [@ EXCEPT !.stage = "env"] ELSE [NewForm EXCEPT !.stage = "done"]]
  /\ UNCHANGED <<captureEnv, consoleKills, wanted, overlap, together, registered, cut>>

\* Mutant: a setting put back to its default is not copied.
SyncEnv_OnlyChanged(r) ==
  /\ thread[r].stage = "env"
  /\ captureEnv' = [thread[r].work EXCEPT !.setting =
                      [f \in Fields |-> IF @[f] = DefaultValue THEN captureEnv.setting[f] ELSE @[f]]]
  /\ thread' = [thread EXCEPT ![r] = [NewForm EXCEPT !.stage = "done"]]
  /\ UNCHANGED <<config, consoleKills, wanted, overlap, together, registered, cut>>

SyncEnv(r) ==
  /\ thread[r].stage = "env"
  /\ captureEnv' = thread[r].work
  /\ thread' = [thread EXCEPT ![r] = [NewForm EXCEPT !.stage = "done"]]
  /\ UNCHANGED <<config, consoleKills, wanted, overlap, together, registered, cut>>

\* The container is restarted: the requests are gone, the files stay as they are.
KillConsole ==
  /\ consoleKills < MaxConsoleKills
  /\ \E r \in Forms : Running(r)
  /\ consoleKills' = consoleKills + 1
  /\ thread' = [r \in Forms |-> IF Running(r) THEN [NewForm EXCEPT !.stage = "done"] ELSE thread[r]]
  /\ cut' = (cut \/ config = Torn \/ \E r \in Edits : thread[r].stage = "env")
  /\ registered' = (registered \/ \E r \in Edits : Running(r))
  /\ wanted' = LoadConfig
  /\ UNCHANGED <<config, captureEnv, overlap, together>>

-----------------------------------------------------------------------------
ConfigNext ==
  \/ \E r \in Edits : (\E f \in Fields, v \in Values : EditSetting(r, f, v)) \/ SyncEnv(r)
  \/ \E r \in Registrations :
       \/ AskPlatform(r) \/ RecordRegistration(r)
       \/ \E tenant \in Tenants \union {NoTenant} : PlatformAnswers(r, tenant)
  \/ \E r \in Forms : TruncateConfig(r) \/ WriteConfig(r)
  \/ KillConsole

ConfigSpec == ConfigInit /\ [][ConfigNext]_configVars

-----------------------------------------------------------------------------
\* A registration, however long the platform takes to answer, and the edits made
\* meanwhile keep each other's results: with no request at work, the file holds the
\* last change of every setting and the last tenant, unless one request loaded it
\* while another was saving, or a kill left it empty (merge_update,
\* record_register_result).
NothingReverted ==
  (\A r \in Forms : ~Saving(r)) /\ ~overlap /\ ~cut => config = wanted

\* The packet sensor starts with what the console shows: with no edit under way,
\* capture.env holds the settings of the file, unless edits met, or a request
\* loaded what another was saving, or a kill came between the two; and its tenant,
\* unless one was recorded since the last edit (sync_env_file, record_register_result).
EnvFollowsConfig ==
  (\A r \in Forms : ~Running(r)) /\ ~together /\ ~overlap /\ ~cut =>
    /\ captureEnv.setting = LoadConfig.setting
    /\ captureEnv.tenant = LoadConfig.tenant \/ registered

\* Both at once: what the console shows is what was last asked for, and what the
\* sensor starts with (config_store.py).
ConfigKept == NothingReverted /\ EnvFollowsConfig
=============================================================================
