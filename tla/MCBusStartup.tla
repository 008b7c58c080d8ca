---------------------------- MODULE MCBusStartup ----------------------------
EXTENDS BusStartup

\* Four of the services, with their dependencies.
FourServices ==
  {<<THREAD_DEFINE("dbus_broker", <<>>),
     THREAD_DEFINE("objmgr", <<"dbus_broker">>),
     THREAD_DEFINE("net_stack_cfg", <<>>),
     THREAD_DEFINE("net_ipmid", <<"dbus_broker", "net_stack_cfg">>)>>}
=============================================================================
