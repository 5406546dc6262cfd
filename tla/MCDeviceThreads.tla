-------------------------- MODULE MCDeviceThreads --------------------------
EXTENDS DeviceThreads

Reboot == [kind |-> "reboot", volume |-> "HD1.1", version |-> InitialVersion]

Installs == {[kind |-> "install", volume |-> "HD1.2", version |-> v] : v \in Versions}

Patches == {[kind |-> "patch", volume |-> v, version |-> InitialVersion] : v \in Volumes}

(***************************************************************************)
(* No property relates the images to the flags, so installs and boot       *)
(* switches are raced against reboots and polls one kind at a time.        *)
(***************************************************************************)
MCWorkloads == {Installs \cup {Reboot}, Patches \cup {Reboot}}
============================================================================
