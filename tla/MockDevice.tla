----------------------------- MODULE MockDevice -----------------------------
(***************************************************************************)
(* The request handlers of one mock device, mock-f5/app/routers/icontrol.py *)
(* and chaos.py, each one atomic: the state is the DeviceState object, a   *)
(* step is one handler or one second of clock time.                        *)
(***************************************************************************)
EXTENDS DeviceState

CONSTANTS
    RoleClients,    \* TRUE: requests come as the Ansible roles send them, one
                    \* play at a time; FALSE: any request at any moment
    Injected,       \* the chaos flags that are raised
    MaxOps,         \* bound: installs since the last reset-device
    MaxBackups      \* bound: UCS archives since the last reset-device

ASSUME ClientsAssumption == RoleClients \in BOOLEAN /\ Injected \subseteq Flags

ASSUME BoundsAssumption == MaxOps \in Nat /\ MaxBackups \in Nat

VARIABLE dev

Init == dev = Fresh

----------------------------------------------------------------------------
(***************************************************************************)
(* Which requests are made.  f5_image_install installs into the inactive   *)
(* volume and waits for the end; only then does f5_boot_switch activate    *)
(* it.  Health faults are injected and cleared between reboots.            *)
(***************************************************************************)
MayInstall(d, v) == RoleClients => v \notin d.active

\* Mutant of MayActivate: a role that does not wait for the install.
MayActivateAnyTime(d) == TRUE

MayActivate(d) ==
    RoleClients => \A i \in DOMAIN d.ops : d.ops[i].status # "in progress"

MayInject(d, flag) == RoleClients /\ flag = "post_boot_unhealthy" => d.reboot = NoReboot

----------------------------------------------------------------------------
(***************************************************************************)
(* _reboot_guard: advance the device, refuse with 503 while it reboots.    *)
(* A refused request, one with a missing name or an unknown volume (400,   *)
(* 404) and every GET leave what advance() did and nothing else.           *)
(***************************************************************************)
Query == dev' = Advance(dev)

Admitted(d) == ~IsRebooting(d)

SysUcs ==
    LET d == Advance(dev)
    IN /\ Admitted(d)
       /\ d.backups < MaxBackups
       /\ dev' = [d EXCEPT !.backups = @ + 1]

VolumeInstall(v, version) ==
    LET d == Advance(dev)
    IN /\ Admitted(d)
       /\ Len(d.ops) < MaxOps
       /\ MayInstall(d, v)
       /\ dev' = StartInstall(d, v, version)

\* Mutant of VolumePatch: the handler does not advance the device.
VolumePatchStale(v) ==
    /\ Admitted(dev)
    /\ MayActivate(dev)
    /\ dev' = ActivateVolume(dev, v)

VolumePatch(v) ==
    LET d == Advance(dev)
    IN /\ Admitted(d)
       /\ MayActivate(d)
       /\ dev' = ActivateVolume(d, v)

UtilBashReboot ==
    LET d == Advance(dev)
    IN Admitted(d) /\ dev' = StartReboot(d)

SysFailover ==
    LET d == Advance(dev)
    IN /\ Admitted(d)
       /\ dev' = [d EXCEPT !.ha = IF @ = "ACTIVE" THEN "STANDBY" ELSE "ACTIVE"]

(***************************************************************************)
(* The fault-injection endpoints do not call advance().                    *)
(***************************************************************************)
ChaosSet(flag) == MayInject(dev, flag) /\ dev' = [dev EXCEPT !.chaos = @ \cup {flag}]

ChaosReset ==
    /\ \A flag \in dev.chaos : MayInject(dev, flag)
    /\ dev' = [dev EXCEPT !.chaos = {}]

ChaosResetDevice == dev' = FreshWith("16.1.3")

Tick == TimersRunning(dev) /\ dev' = Elapse(dev)

Handler ==
    \/ Query
    \/ SysUcs
    \/ \E v \in Volumes, version \in Versions : VolumeInstall(v, version)
    \/ \E v \in Volumes : VolumePatch(v)
    \/ UtilBashReboot
    \/ SysFailover

Chaos ==
    \/ \E flag \in Injected : ChaosSet(flag)
    \/ ChaosReset
    \/ ChaosResetDevice

Next == Handler \/ Chaos \/ Tick

Spec == Init /\ [][Next]_dev

(***************************************************************************)
(* Time passes, and some client keeps asking (every role polls).           *)
(***************************************************************************)
FairSpec == Spec /\ WF_dev(Tick) /\ WF_dev(Query)

----------------------------------------------------------------------------
(***************************************************************************)
(* Properties.                                                             *)
(***************************************************************************)

\* Every field of the DeviceState object has a value of its declared type.
TypeOK == dev \in Device

\* "exactly one active volume at any time" (icontrol.py:293): no sequence of
\* installs, activations, reboots and resets leaves none or two.
OneActiveVolume == \E v \in Volumes : dev.active = {v}

\* advance() settles installs oldest first: no install is still in progress
\* once a younger one is over, and none is due later than a younger one.
InstallsSettleInOrder ==
    \A i, j \in DOMAIN dev.ops : i < j /\ dev.ops[i].status = "in progress" =>
        /\ dev.ops[j].status = "in progress"
        /\ dev.ops[i].left <= dev.ops[j].left

\* A poller that GETs a volume and reads "complete" can rely on it: the volume
\* holds the version of the newest install asked for, however many overlap
\* and whichever of the earlier ones failed.
CompleteMeansInstalled ==
    LET d == Advance(dev)
    IN \A v \in Volumes :
         OpsOn(d, v) # {} /\ VolumeStatus(d, v) = "complete" =>
             d.image[v] = d.ops[Newest(OpsOn(d, v))].version

\* The volume the device boots from is never overwritten while it is the
\* active one: a failed or repeated upgrade leaves the way back intact.
ActiveImageUntouched ==
    [][\A v \in dev.active \cap dev'.active :
          dev'.image[v] # dev.image[v] => dev' = FreshWith("16.1.3")]_dev

\* No install stays in progress for ever, also when reboots keep interrupting.
InstallsSettle ==
    \A n \in 1..MaxOps :
        (n \in DOMAIN dev.ops /\ dev.ops[n].status = "in progress")
            ~> (n \in DOMAIN dev.ops => dev.ops[n].status # "in progress")

(***************************************************************************)
(* The lazily settled device, seen through advance(), is an eager one.     *)
(***************************************************************************)
Eager == INSTANCE EagerDevice WITH dev <- Advance(dev)

\* Every behaviour, seen through the answers, is one of the eager device.
ImplementsEager == Eager!Spec
============================================================================
