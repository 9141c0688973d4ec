---------------------------- MODULE MCMessageBus ----------------------------
(***************************************************************************)
(* MessageBus for TLC: the messages of the threads.                        *)
(***************************************************************************)
EXTENDS MessageBus, ConfigurationFiles

MCPublishes ==
    [t \in ToSet(Generated) |->
        CASE t = "BLUETOOTHMANAGER" -> "BLUETOOTHDEVICE_IN_RANGE"
          [] t = "TELLDUSMANAGER" -> "MANDOLYN_SENSOR"
          [] t = "TCPMANAGER" -> "TELLDUSDEVICE_SET_STATE"]

\* More messages for TCPMANAGER than its m_RxQueue holds.
MCMaxPublished ==
    [t \in ToSet(Generated) |-> IF t = "TELLDUSMANAGER" THEN 3 ELSE 1]

MCMaxPublishedTwo ==
    [t \in ToSet(Generated) |-> IF t = "TELLDUSMANAGER" THEN 2 ELSE 1]

=============================================================================
