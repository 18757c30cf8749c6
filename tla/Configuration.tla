---------------------------- MODULE Configuration ----------------------------
(***************************************************************************)
(* The device configuration: core/ConfigStore.h, its load, repair and save *)
(* in Application::begin, the handlers of services/WebService.h that save  *)
(* it, the restore of a backup (core/BackupService.h) and the clear of a   *)
(* factory reset.                                                          *)
(*                                                                         *)
(* A save is one write per key, in a fixed order.  Nobody looks at the     *)
(* result of a write, and the power may fail between any two.  A single    *)
(* write is atomic.  The 25 keys are grouped by what load does with them.  *)
(***************************************************************************)
EXTENDS Naturals, Sequences, FiniteSets

CONSTANTS
  Modes,         \* component modes validateConfig accepts
  Disabled,      \* the mode with every component off
  Networks,      \* Wi-Fi settings
  AppKeys,       \* well-formed LoRaWAN application keys
  Hosts,         \* names of MQTT brokers
  Certificates,  \* CA certificates
  None,          \* an empty string, and a key that is not there
  MaxFailures    \* bound: writes that fail unnoticed

\* The empty string is no mode and no flag.
ASSUME ConfigAssumption ==
  /\ Disabled \in Modes
  /\ None \notin Modes \cup BOOLEAN

VARIABLES
  flash,     \* the keys of the name space "multibus"
  config,    \* config_
  phase,     \* "starting" (in begin), "running", "stopped" (begin has failed)
  writing,   \* the save that is under way: its target and the next key
  saved,     \* history variable: the configuration the flash held before it
  failed     \* history variable: keys whose last write has failed

configVars == <<flash, config, phase, writing, saved, failed>>

Current == 3  \* DEVICE_CONFIG_SCHEMA_VERSION

\* The order of the writes in save.
Order_EnabledLast ==
  <<"schema", "components", "network", "appKey", "host", "tls", "ca", "enabled">>
Order ==
  <<"schema", "components", "network", "appKey", "enabled", "host", "tls", "ca">>

Default ==
  [components |-> Disabled, network |-> None, appKey |-> None,
   enabled |-> FALSE, host |-> None, tls |-> FALSE, ca |-> None]
Settings == DOMAIN Default

\* The schema that brought a setting.
Since ==
  [components |-> 1, network |-> 1, appKey |-> 2,
   enabled |-> 3, host |-> 3, tls |-> 3, ca |-> 3]

ValidConfig(c) == c.enabled => c.host # None /\ (c.tls => c.ca # None)

Configs ==
  {c \in [components : Modes, network : Networks \cup {None}, appKey : AppKeys,
          enabled : BOOLEAN, host : Hosts \cup {None},
          tls : BOOLEAN, ca : Certificates \cup {None}] : ValidConfig(c)}

Idle == [kind |-> "none", target |-> Default, next |-> 1]

-----------------------------------------------------------------------------
(* Starting.                                                               *)

\* What load reads.
Reading ==
  [s \in Settings |->
     IF flash.schema >= Since[s] /\ flash[s] # None THEN flash[s] ELSE Default[s]]

Loadable == flash.schema \in 1 .. Current /\ ValidConfig(Reading)

Begin(kind, c) == writing' = [kind |-> kind, target |-> c, next |-> 1]

\* A restart at any time: load, the defaults when it fails, the repair of the
\* identity, and the save when something has changed.
StartUp ==
  LET loaded == IF Loadable THEN Reading ELSE Default
  IN  /\ \E key \in (IF loaded.appKey = None THEN AppKeys ELSE {loaded.appKey}) :
           config' = [loaded EXCEPT !.appKey = key]
      /\ IF Loadable /\ config' = loaded /\ flash.schema = Current
         THEN phase' = "running" /\ writing' = Idle
         ELSE phase' = "starting" /\ Begin("begin", config')
      /\ saved' = Reading
      /\ failed' = {}
      /\ UNCHANGED flash

-----------------------------------------------------------------------------
(* Saving.                                                                 *)

Key == Order[writing.next]
Saving == writing # Idle /\ writing.next <= Len(Order)

Put ==
  /\ Saving
  /\ flash' = [flash EXCEPT ![Key] = IF Key = "schema" THEN Current ELSE writing.target[Key]]
  /\ writing' = [writing EXCEPT !.next = @ + 1]
  /\ failed' = failed \ {Key}
  /\ UNCHANGED <<config, phase, saved>>

PutFails ==
  /\ Saving
  /\ writing' = [writing EXCEPT !.next = @ + 1]
  /\ failed' = failed \cup {Key}
  /\ UNCHANGED <<flash, config, phase, saved>>

\* save returns what it reads back of the schema; a restore sets the running
\* configuration only then.
EndSave ==
  LET ok == flash.schema = Current
  IN  /\ writing # Idle /\ ~Saving
      /\ phase' = IF ok THEN "running" ELSE IF phase = "starting" THEN "stopped" ELSE phase
      /\ saved' = IF ok THEN writing.target ELSE saved
      /\ config' = IF ok /\ writing.kind = "restore" THEN writing.target ELSE config
      /\ writing' = Idle
      /\ UNCHANGED <<flash, failed>>

-----------------------------------------------------------------------------
(* The handlers.  Each runs to its end before the next; a new one may run  *)
(* in the time before a reboot that was scheduled.                         *)

Ready == phase = "running" /\ writing = Idle

Change(c) ==
  /\ ValidConfig(c)
  /\ config' = c
  /\ Begin("web", c)
  /\ UNCHANGED <<flash, phase, saved, failed>>

HandleComponentConfig ==
  /\ Ready
  /\ \E mode \in Modes : Change([config EXCEPT !.components = mode])

HandleNetworkConfig ==
  /\ Ready
  /\ \E network \in Networks : Change([config EXCEPT !.network = network])

HandleMqttConfig ==
  /\ Ready
  /\ \E enabled, tls \in BOOLEAN, host \in Hosts \cup {None}, ca \in Certificates \cup {None} :
       Change([config EXCEPT !.enabled = enabled, !.host = host, !.tls = tls, !.ca = ca])

\* importConfig lets a valid configuration with a well-formed identity pass.
HandleBackupRestore ==
  /\ Ready
  /\ \E c \in Configs : Begin("restore", c)
  /\ UNCHANGED <<flash, config, phase, saved, failed>>

\* The clear of performFactoryReset; its restart is the next step.
ClearConfig ==
  /\ Ready
  /\ flash' = [key \in DOMAIN flash |-> IF key = "schema" THEN 0 ELSE None]
  /\ phase' = "stopped"
  /\ saved' = Default
  /\ failed' = {}
  /\ UNCHANGED <<config, writing>>

-----------------------------------------------------------------------------
\* A gateway of any earlier version before its first start with this one.
ConfigInit ==
  /\ \E schema \in 0 .. Current, c \in Configs :
       LET known == {s \in Settings : schema > 0 /\ schema >= Since[s]}
       IN  /\ saved = [s \in Settings |-> IF s \in known THEN c[s] ELSE Default[s]]
           /\ flash = [key \in {"schema"} \cup Settings |->
                         IF key = "schema" THEN schema
                         ELSE IF key \in known THEN c[key] ELSE None]
  /\ config = Default
  /\ phase = "stopped"
  /\ writing = Idle
  /\ failed = {}

Failure == PutFails /\ Cardinality(failed) < MaxFailures

ConfigNext ==
  \/ StartUp
  \/ Put \/ Failure \/ EndSave
  \/ HandleComponentConfig \/ HandleNetworkConfig \/ HandleMqttConfig
  \/ HandleBackupRestore \/ ClearConfig

ConfigSpec == ConfigInit /\ [][ConfigNext]_configVars

-----------------------------------------------------------------------------
(* Properties.                                                             *)

\* What a setting may be after the power failed: what the flash held, or what
\* was being saved.
Expected(s) == {saved[s]} \cup (IF writing = Idle THEN {} ELSE {writing.target[s]})

\* Only these may make load refuse what an interrupted save has left.
MayBeLost ==
  \/ ~ValidConfig(saved)
  \/ /\ writing # Idle /\ writing.target.enabled
     /\ \/ saved.host = None
        \/ (saved.tls \/ writing.target.tls) /\ saved.ca = None

\* A restart, also one that interrupts a save or a migration, brings each
\* setting back old or new, and the key of the LoRaWAN identity with them; all
\* settings go back to the defaults only where the interrupted save was turning
\* MQTT on, or TLS, from a configuration without host or certificate.
SettingsSurvive ==
  [][StartUp /\ failed = {} =>
       \/ \A s \in Settings :
            \/ config'[s] \in Expected(s)
            \/ s = "appKey" /\ None \in Expected(s)
       \/ MayBeLost /\ \A s \in Settings \ {"appKey"} : config'[s] = Default[s]]_configVars

\* "persist atomically": a restored backup is there as a whole or not at all.
RestoreIsAtomic ==
  [][StartUp /\ failed = {} /\ writing.kind = "restore" =>
       config' \in {saved, writing.target}]_configVars
=============================================================================
