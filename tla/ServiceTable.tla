---------------------------- MODULE ServiceTable ----------------------------
(***************************************************************************)
(* The services of this build: the THREAD_DEFINEs of main.cpp that         *)
(* task_enable.hpp leaves enabled, in the order of their constructors.     *)
(***************************************************************************)
EXTENDS ThreadDependencyMgr

CONSTANTS null, main

SensorDeps == <<"dbus_broker", "objmgr", "entity_manager">>

EnabledServices ==
  <<THREAD_DEFINE("dbus_broker", <<>>),
    THREAD_DEFINE("objmgr", <<"dbus_broker">>),
    THREAD_DEFINE("logging", <<"dbus_broker">>),
    THREAD_DEFINE("net_stack_cfg", <<>>),
    THREAD_DEFINE("ipmid", <<"dbus_broker", "net_stack_cfg">>),
    THREAD_DEFINE("net_ipmid", <<"dbus_broker", "net_stack_cfg">>),
    THREAD_DEFINE("bmcweb", <<"dbus_broker">>),
    THREAD_DEFINE("software_updater", <<"dbus_broker", "objmgr">>),
    THREAD_DEFINE("image_manager", <<"dbus_broker", "objmgr">>),
    THREAD_DEFINE("sel_logger", <<"dbus_broker", "logging">>),
    THREAD_DEFINE("fru_device", <<"dbus_broker">>),
    THREAD_DEFINE("entity_manager", <<"dbus_broker", "objmgr", "fru_device">>),
    THREAD_DEFINE("adc_sensor", SensorDeps),
    THREAD_DEFINE("external_sensor", SensorDeps),
    THREAD_DEFINE("fan_sensor", <<"dbus_broker", "objmgr">>),
    THREAD_DEFINE("hwmon_temp_sensor", SensorDeps),
    THREAD_DEFINE("intel_cpu_sensor", SensorDeps),
    THREAD_DEFINE("intrusion_sensor", SensorDeps),
    THREAD_DEFINE("psu_sensor", SensorDeps),
    THREAD_DEFINE("kcs_bridge", <<"dbus_broker", "ipmid">>)>>

(***************************************************************************)
(* One build, started by main.                                             *)
(***************************************************************************)

ServiceNames == {EnabledServices[i].name : i \in DOMAIN EnabledServices}

ThisBuild == {EnabledServices}

MainOnly == [x \in {main} |-> ALL]

\* objmgr, net_stack_cfg and logging may fail, end or answer late.
Suspects == {"objmgr", "net_stack_cfg", "logging"}

\* The services that need an unreliable one, directly or not: the table lists
\* every service after what it needs.
AffectedUpTo[i \in 0..Len(EnabledServices)] ==
  IF i = 0 THEN {}
  ELSE LET s == EnabledServices[i]
           needs == {s.deps[j] : j \in DOMAIN s.deps}
       IN AffectedUpTo[i - 1] \cup
            IF s.name \in Unreliable \/ needs \cap AffectedUpTo[i - 1] # {}
            THEN {s.name} ELSE {}

Affected == AffectedUpTo[Len(EnabledServices)]
=============================================================================
