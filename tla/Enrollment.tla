----------------------------- MODULE Enrollment -----------------------------
(***************************************************************************)
(* The unit mcp-drone-enroll: enroll() provisions the accounts a manifest  *)
(* declares, installs the coordinator's keys and, when the configuration   *)
(* names a coordinator, asks it for a host certificate and registers.      *)
(*                                                                         *)
(* The unit is started once per boot and is not restarted, in a sandbox    *)
(* where /etc is read-only but for a few directories; root may also run    *)
(* the command mcp-drone-enroll itself.  Any step may raise and the        *)
(* machine may lose power at any time; the next boot repeats everything    *)
(* over what an earlier one has left on the disk of an installed drone (a  *)
(* live image starts from an empty one).                                   *)
(***************************************************************************)
EXTENDS Integers, Sequences, FiniteSets

CONSTANTS
    Names, BadName,      \* identifiers that match NAME; any other one
    Keys, BadKey,        \* keys the check of their place accepts; any other
    NoLimit,             \* a quota that is not given
    Configs,             \* the configurations, each with its manifest file
    EnrollToken,         \* MCP_DRONE_ENROLL_TOKEN of the dashboard
    CaKey,               \* MCP_DRONE_SSH_CA_KEY: "unset", "missing", "file"
    MaxFaults            \* bound: power cuts, errors and lost answers

(* What the files may say: anything that is not of the expected type counts
   as the bad value of its place. *)
Entries == [id: Names \cup {BadName}, keys: SUBSET (Keys \cup {BadKey}),
            cpu: Int \cup {NoLimit}, memory: Int \cup {NoLimit}]

Manifests == [version: Int, hostname: Names \cup {BadName},
              agents: Seq(Entries), persistence: STRING]

Bundles == [manifest: Manifests, controllers: SUBSET (Keys \cup {BadKey}),
            url: {"none", "http", "https"}, insecure: BOOLEAN,
            token: STRING, droneId: Names \cup {BadName}, slots: Int]

ASSUME ConfigsAssumption == Configs \subseteq Bundles
ASSUME BadAssumption == BadName \notin Names /\ BadKey \notin Keys
ASSUME FiniteAssumption == IsFiniteSet(Names)
ASSUME FaultsAssumption == MaxFaults \in Nat

VARIABLES
    config,        \* enrollment.json and the manifest it points to
    step, at,      \* of enroll(): what is next, for which agent
    sandboxed,     \* whether it runs in the unit's sandbox
    accounts,      \* agents with a user account
    authorized,    \* authorized[a]: the keys in a's authorized_keys
    owned,         \* agents whose home has been handed over to them
    control,       \* the keys in mcp-control's authorized_keys
    hostkey,       \* the files of the host key: "none", "private", "pair"
    certified,     \* the host certificate has been written
    registered,    \* at the coordinator: a row for this drone
    faults

agentVars == <<accounts, authorized, owned>>
hostVars == <<hostkey, certified>>
diskVars == <<agentVars, control, hostVars>>
vars == <<config, step, at, sandboxed, diskVars, registered, faults>>

-----------------------------------------------------------------------------
(* load_manifest *)

(* Faulty variant: the keys of an entry are not looked at. *)
EntryUnchecked(e) == e.id \in Names

EntryOK(e) ==
    /\ e.id \in Names
    /\ e.keys # {} /\ BadKey \notin e.keys
    /\ e.cpu = NoLimit \/ e.cpu >= 1
    /\ e.memory = NoLimit \/ e.memory >= 128

Valid(m) ==
    /\ m.version = 1
    /\ m.hostname # BadName
    /\ m.agents # << >>
    /\ \A i \in DOMAIN m.agents : EntryOK(m.agents[i])
    /\ \A i, j \in DOMAIN m.agents :
          m.agents[i].id = m.agents[j].id => i = j
    /\ m.persistence \in {"disposable", "persistent-capable"}

Trusted(c) == c.url = "http" => c.insecure

Declared == config.manifest.agents

Entry == Declared[at]

DeclaredIds == {Declared[i].id : i \in DOMAIN Declared}

-----------------------------------------------------------------------------
(* The dashboard's side of the two requests *)

EnrollPath == "/api/drones/enroll"

RegisterPath == "/api/drones/register"

(* The fixed paths do_POST lets through. *)
Routed == {"/api/events", RegisterPath, "/api/dispatch", "/api/reconcile"}

(* register_drone of the coordinator's State refuses a drone without slots. *)
RegisterAnswer == IF config.slots < 1 THEN 400 ELSE 201

(* issue_host_certificate; an error other than ValueError, as for a CA key
   that is not there, ends the connection without an answer. *)
CertifyAnswer ==
    IF CaKey = "unset" THEN 503
    ELSE IF config.droneId = BadName THEN 400
    ELSE IF CaKey = "missing" THEN 0
    ELSE 201

Answer(path) ==
    IF path \notin Routed THEN 404
    ELSE IF EnrollToken = "" \/ config.token # EnrollToken THEN 403
    ELSE IF path = RegisterPath THEN RegisterAnswer
    ELSE CertifyAnswer

-----------------------------------------------------------------------------
(* enroll *)

Running == {"load", "user", "open", "fill", "own", "control",
            "fill control", "keygen", "keygen public", "certify", "register"}

Steps == Running \cup {"off", "failed", "done"}

Boot ==
    /\ step = "off"
    /\ step' = "load"
    /\ sandboxed' = TRUE
    /\ UNCHANGED <<config, at, diskVars, registered, faults>>

(* The command, run as root outside of the unit once that has ended. *)
RunByHand ==
    /\ step \in {"failed", "done"}
    /\ step' = "load"
    /\ sandboxed' = FALSE
    /\ UNCHANGED <<config, at, diskVars, registered, faults>>

(* Faulty variant: the manifest is used without validation. *)
LoadUnchecked ==
    /\ step = "load"
    /\ step' = IF Trusted(config) THEN "user" ELSE "failed"
    /\ at' = 1
    /\ UNCHANGED <<config, sandboxed, diskVars, registered, faults>>

(* The scheme is checked, then the whole manifest, before anything is
   touched. *)
Load ==
    /\ step = "load"
    /\ step' = IF Trusted(config) /\ Valid(config.manifest)
               THEN "user" ELSE "failed"
    /\ at' = 1
    /\ UNCHANGED <<config, sandboxed, diskVars, registered, faults>>

(* useradd may create the account: not in the sandbox of the unit, whose
   /etc/passwd is read-only, and it may fail for a reason of its own. *)
MayAddUser(id) ==
    \/ /\ accounts' = IF sandboxed THEN accounts ELSE accounts \cup {id}
       /\ UNCHANGED faults
    \/ /\ faults < MaxFaults
       /\ faults' = faults + 1
       /\ UNCHANGED accounts

(* Faulty variant: a useradd that fails raises, also for an account that is
   there already. *)
AddUserChecked ==
    /\ step = "user"
    /\ at <= Len(Declared)
    /\ MayAddUser(Entry.id)
    /\ step' = IF accounts' = accounts THEN "failed" ELSE "open"
    /\ UNCHANGED <<config, at, sandboxed, authorized, owned, control, hostVars,
                   registered>>

(* The outcome of useradd is ignored: the account may be there, or new, or
   missing still. *)
AddUser ==
    /\ step = "user"
    /\ at <= Len(Declared)
    /\ step' = "open"
    /\ MayAddUser(Entry.id)
    /\ UNCHANGED <<config, at, sandboxed, authorized, owned, control, hostVars,
                   registered>>

(* Faulty variant: a file of keys that is there is left as it is. *)
OpenOnce ==
    /\ step = "open"
    /\ step' = IF authorized[Entry.id] # {} THEN "own" ELSE "fill"
    /\ UNCHANGED <<config, at, sandboxed, diskVars, registered, faults>>

(* Faulty variant: all files of keys are emptied first. *)
OpenAll ==
    /\ step = "open"
    /\ step' = "fill"
    /\ authorized' = [a \in Names |-> {}]
    /\ UNCHANGED <<config, at, sandboxed, accounts, owned, control, hostVars,
                   registered, faults>>

(* write_text truncates authorized_keys ... *)
OpenKeys ==
    /\ step = "open"
    /\ step' = "fill"
    /\ authorized' = [authorized EXCEPT ![Entry.id] = {}]
    /\ UNCHANGED <<config, at, sandboxed, accounts, owned, control, hostVars,
                   registered, faults>>

(* ... and then writes the declared keys. *)
FillKeys ==
    /\ step = "fill"
    /\ step' = "own"
    /\ authorized' = [authorized EXCEPT ![Entry.id] = Entry.keys]
    /\ UNCHANGED <<config, at, sandboxed, accounts, owned, control, hostVars,
                   registered, faults>>

(* getpwnam raises if useradd had failed; else chown and chmod. *)
HandOver ==
    /\ step = "own"
    /\ IF Entry.id \in accounts
       THEN /\ owned' = owned \cup {Entry.id}
            /\ step' = "user"
            /\ at' = at + 1
       ELSE step' = "failed" /\ UNCHANGED <<owned, at>>
    /\ UNCHANGED <<config, sandboxed, accounts, authorized, control, hostVars,
                   registered, faults>>

EndAccounts ==
    /\ step = "user"
    /\ at > Len(Declared)
    /\ step' = "control"
    /\ UNCHANGED <<config, at, sandboxed, diskVars, registered, faults>>

Onward == IF config.url = "none" THEN "done" ELSE "keygen"

(* provision_controller_access: no keys, bad keys, or the file is opened. *)
OpenControl ==
    /\ step = "control"
    /\ IF config.controllers = {} THEN step' = Onward /\ UNCHANGED control
       ELSE IF BadKey \in config.controllers
            THEN step' = "failed" /\ UNCHANGED control
            ELSE step' = "fill control" /\ control' = {}
    /\ UNCHANGED <<config, at, sandboxed, agentVars, hostVars, registered,
                   faults>>

FillControl ==
    /\ step = "fill control"
    /\ step' = Onward
    /\ control' = config.controllers
    /\ UNCHANGED <<config, at, sandboxed, agentVars, hostVars, registered,
                   faults>>

(* ssh-keygen runs if the private key is not there; without the public key
   beside it read_text raises. *)
HostKey ==
    /\ step = "keygen"
    /\ step' = CASE hostkey = "none"    -> "keygen public"
                 [] hostkey = "private" -> "failed"
                 [] hostkey = "pair"    -> "certify"
    /\ hostkey' = IF hostkey = "none" THEN "private" ELSE hostkey
    /\ UNCHANGED <<config, at, sandboxed, agentVars, control, certified,
                   registered, faults>>

PublicKey ==
    /\ step = "keygen public"
    /\ step' = "certify"
    /\ hostkey' = "pair"
    /\ UNCHANGED <<config, at, sandboxed, agentVars, control, certified,
                   registered, faults>>

Path == IF step = "certify" THEN EnrollPath ELSE RegisterPath

(* urlopen raises on every status but success.  The answer may be lost, with
   what the coordinator did for it done. *)
Post ==
    /\ step \in {"certify", "register"}
    /\ registered' = (registered \/ (step = "register" /\ Answer(Path) = 201))
    /\ \/ /\ IF Answer(Path) = 201
             THEN /\ step' = IF step = "certify" THEN "register" ELSE "done"
                  /\ certified' = TRUE
             ELSE step' = "failed" /\ UNCHANGED certified
          /\ UNCHANGED faults
       \/ /\ faults < MaxFaults
          /\ faults' = faults + 1
          /\ step' = "failed"
          /\ UNCHANGED certified
    /\ UNCHANGED <<config, at, sandboxed, agentVars, control, hostkey>>

-----------------------------------------------------------------------------
(* Around it *)

(* A write or a command fails: enroll raises. *)
Fail ==
    /\ step \in Running
    /\ faults < MaxFaults
    /\ faults' = faults + 1
    /\ step' = "failed"
    /\ UNCHANGED <<config, at, sandboxed, diskVars, registered>>

PowerCut ==
    /\ step \in Running
    /\ faults < MaxFaults
    /\ faults' = faults + 1
    /\ step' = "off"
    /\ UNCHANGED <<config, at, sandboxed, diskVars, registered>>

Reboot ==
    /\ step \in {"failed", "done"}
    /\ step' = "off"
    /\ UNCHANGED <<config, at, sandboxed, diskVars, registered, faults>>

(* Somebody changes the configuration or the manifest of a drone. *)
Edit ==
    /\ step = "off"
    /\ config' \in Configs
    /\ UNCHANGED <<step, at, sandboxed, diskVars, registered, faults>>

-----------------------------------------------------------------------------
(* A drone that was never enrolled; the image brings a host key with it. *)
EnrollInit ==
    /\ config \in Configs
    /\ step = "off" /\ at = 1 /\ sandboxed = TRUE
    /\ accounts = {} /\ owned = {}
    /\ authorized = [a \in Names |-> {}]
    /\ control = {}
    /\ hostkey \in {"none", "pair"} /\ certified = FALSE
    /\ registered = FALSE
    /\ faults = 0

Enroll == \/ Boot \/ Load
          \/ AddUser \/ OpenKeys \/ FillKeys \/ HandOver \/ EndAccounts
          \/ OpenControl \/ FillControl
          \/ HostKey \/ PublicKey \/ Post

EnrollNext == Enroll \/ RunByHand \/ Fail \/ PowerCut \/ Reboot \/ Edit

(* The unit is started at every boot and runs; a drone whose enrollment
   failed is switched off and on again. *)
EnrollFairness == WF_vars(Enroll) /\ WF_vars(step = "failed" /\ Reboot)

EnrollSpec == EnrollInit /\ [][EnrollNext]_vars /\ EnrollFairness

-----------------------------------------------------------------------------
(* Only keys that passed validation reach the disk of an agent or of
   mcp-control, and the loop stays within the manifest. *)
EnrollTypeOK ==
    /\ config \in Configs
    /\ step \in Steps
    /\ at \in Nat \ {0}
    /\ sandboxed \in BOOLEAN
    /\ accounts \subseteq Names
    /\ authorized \in [Names -> SUBSET Keys]
    /\ owned \subseteq accounts
    /\ control \subseteq Keys
    /\ hostkey \in {"none", "private", "pair"}
    /\ certified \in BOOLEAN /\ registered \in BOOLEAN
    /\ faults \in 0..MaxFaults

Ready(e) == /\ e.id \in owned
            /\ authorized[e.id] = e.keys

(* When enroll() returns, every declared agent owns its home with exactly
   the keys its manifest gives it, and mcp-control has exactly the
   coordinator's, whatever earlier boots, with other manifests or broken off
   half-way, left behind. *)
DoneMatchesConfig ==
    step = "done" =>
        /\ \A i \in DOMAIN Declared : Ready(Declared[i])
        /\ config.controllers # {} => control = config.controllers

coordinatorVars == <<control, hostVars, registered>>

(* A manifest or a coordinator URL that is refused changes nothing on the
   drone.  Controller keys that are refused come too late for that: the
   agents' accounts have been provisioned, but nothing is done after them. *)
InvalidChangesNothing ==
    [][/\ diskVars' # diskVars => Valid(config.manifest) /\ Trusted(config)
       /\ coordinatorVars' # coordinatorVars
            => BadKey \notin config.controllers]_vars

(* Keys are written over at every boot; each interruption leaves at most one
   agent without the keys it had. *)
LockedOutBounded ==
    Cardinality({a \in owned : authorized[a] = {}})
        <= faults + (IF step = "fill" THEN 1 ELSE 0)

GoodOffline(c) == /\ Valid(c.manifest)
                  /\ BadKey \notin c.controllers
                  /\ c.url = "none"

(* Once an offline drone has its configuration right and the accounts it
   declares, enrollment completes, whatever earlier boots were broken off or
   left behind.  Without an account it never does: useradd fails in the
   sandbox of the unit at every boot, and getpwnam raises. *)
RepairedByReboot ==
    <>[](GoodOffline(config) /\ DeclaredIds \subseteq accounts)
        => []<>(step = "done")

GoodOnline(c) == /\ Valid(c.manifest)
                 /\ BadKey \notin c.controllers
                 /\ c.url = "https"
                 /\ c.token = EnrollToken
                 /\ c.droneId # BadName
                 /\ c.slots >= 1

(* "The drone generates its own host key on first boot and receives an
   OpenSSH host certificate" (README.md:159). *)
ReceivesCertificate ==
    <>[](/\ GoodOnline(config) /\ EnrollToken # "" /\ CaKey = "file"
         /\ DeclaredIds \subseteq accounts)
        => <>certified
=============================================================================
