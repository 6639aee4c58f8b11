------------------------------ MODULE FurNetwork ------------------------------
(***************************************************************************)
(* Packages and the wireless link of the terminal shell (kernel/shell.c).  *)
(* apt, networkmanager and nmcli change five static variables that outlive *)
(* a session; ifconfig and nmcli report on them, each from a condition of  *)
(* its own.  A step is a command: a reset comes between two of them.       *)
(***************************************************************************)

CONSTANTS
    Packages,      \* package_repo
    Essential,     \* those apt refuses to remove
    Preinstalled,  \* those installed when the kernel starts
    Manager,       \* "network-manager"
    Aps,           \* wifi_aps
    Words,         \* what can be given as a password
    Password,      \* the password of each access point
    OpenAp,        \* the password of an access point that has none
    NoSsid         \* the empty wifi_ssid

ASSUME NetworkAssumption ==
    /\ Essential \subseteq Preinstalled
    /\ Preinstalled \subseteq Packages
    /\ Manager \in Preinstalled \ Essential
    /\ Password \in [Aps -> Words \cup {OpenAp}]
    /\ NoSsid \notin Aps

VARIABLES
    installed,     \* the packages whose installed flag is set
    running,       \* network_manager_running
    enabled,       \* wifi_enabled
    connected,     \* wifi_connected
    ssid           \* wifi_ssid

networkVars == <<installed, running, enabled, connected, ssid>>
wifi == <<running, enabled, connected, ssid>>

NetworkInit ==
    /\ installed = Preinstalled
    /\ running = TRUE
    /\ enabled = TRUE
    /\ connected = FALSE
    /\ ssid = NoSsid

NetworkReady == Manager \in installed /\ running /\ enabled /\ connected

-------------------------------------------------------------------------------
(* networkmanager start|stop; restart does what start does.                 *)

StartManager ==
    /\ Manager \in installed
    /\ running' = TRUE
    /\ UNCHANGED <<installed, enabled, connected, ssid>>

\* Mutant of StopManager: the link stays up.
StopKeepsLink ==
    /\ Manager \in installed
    /\ running' = FALSE
    /\ UNCHANGED <<installed, enabled, connected, ssid>>

StopManager ==
    /\ Manager \in installed
    /\ running' = FALSE
    /\ connected' = FALSE
    /\ UNCHANGED <<installed, enabled, ssid>>

-------------------------------------------------------------------------------
(* nmcli                                                                    *)

NmcliAnswers == Manager \in installed /\ running

Connect ==
    /\ NmcliAnswers
    /\ enabled
    /\ \E ap \in Aps, word \in Words :
          /\ Password[ap] # OpenAp => word = Password[ap]
          /\ ssid' = ap
    /\ connected' = TRUE
    /\ UNCHANGED <<installed, running, enabled>>

RadioOn ==
    /\ NmcliAnswers
    /\ enabled' = TRUE
    /\ UNCHANGED <<installed, running, connected, ssid>>

RadioOff ==
    /\ NmcliAnswers
    /\ enabled' = FALSE
    /\ connected' = FALSE
    /\ UNCHANGED <<installed, running, ssid>>

\* "networking on" leaves everything as it is: nmcli has just found the
\* manager running.
NetworkingOn ==
    /\ NmcliAnswers
    /\ running' = TRUE
    /\ UNCHANGED <<installed, enabled, connected, ssid>>

NetworkingOff ==
    /\ NmcliAnswers
    /\ running' = FALSE
    /\ connected' = FALSE
    /\ UNCHANGED <<installed, enabled, ssid>>

-------------------------------------------------------------------------------
(* apt                                                                      *)

\* Mutant of SyncStateWithPackages: forgets the radio and the link.
SyncStopsManager ==
    IF Manager \in installed'
    THEN UNCHANGED wifi
    ELSE /\ running' = FALSE
         /\ UNCHANGED <<enabled, connected, ssid>>

SyncStateWithPackages ==
    IF Manager \in installed'
    THEN UNCHANGED wifi
    ELSE /\ running' = FALSE
         /\ enabled' = FALSE
         /\ connected' = FALSE
         /\ ssid' = NoSsid

AptInstall ==
    \E package \in Packages \ installed :
        /\ installed' = installed \cup {package}
        /\ SyncStateWithPackages

AptRemove ==
    \E package \in installed \ Essential :
        /\ installed' = installed \ {package}
        /\ SyncStateWithPackages

\* The kernel is loaded anew, its initialised data with it; wifi_connected and
\* wifi_ssid have no initial value to be loaded, and nothing clears them.
WarmReset ==
    /\ installed' = Preinstalled
    /\ running' = TRUE
    /\ enabled' = TRUE
    /\ UNCHANGED <<connected, ssid>>

\* The memory was off, or the loader cleared it.
ColdStart ==
    /\ installed' = Preinstalled
    /\ running' = TRUE
    /\ enabled' = TRUE
    /\ connected' = FALSE
    /\ ssid' = NoSsid

NetworkNext ==
    \/ StartManager \/ StopManager
    \/ Connect \/ RadioOn \/ RadioOff \/ NetworkingOn \/ NetworkingOff
    \/ AptInstall \/ AptRemove
    \/ WarmReset \/ ColdStart

NetworkSpec == NetworkInit /\ [][NetworkNext]_networkVars

-------------------------------------------------------------------------------
(* Properties                                                               *)

\* Types of the five static variables of shell.c.
NetworkTypeOK ==
    /\ installed \in SUBSET Packages
    /\ running \in BOOLEAN
    /\ enabled \in BOOLEAN
    /\ connected \in BOOLEAN
    /\ ssid \in Aps \cup {NoSsid}

\* The two reports of the link agree: nmcli prints wifi_connected and the name
\* of an access point, ifconfig asks network_ready, and whatever stops the
\* manager, the radio or the package must have taken the link down too.  A link that
\* a reset finds up in memory is up for both: the kernel brings manager and radio.
ReportsAgree == connected => NetworkReady /\ ssid \in Aps

\* Without network-manager nothing of it is left: no radio, no link and no
\* name that a later apt install would find again.
RemovedIsDown ==
    Manager \notin installed =>
        ~running /\ ~enabled /\ ~connected /\ ssid = NoSsid

===============================================================================
