-------------------------- MODULE EnrollmentProofs --------------------------
(***************************************************************************)
(* Theorems about Enrollment, for every set of configurations and any      *)
(* bound on faults.                                                        *)
(***************************************************************************)
EXTENDS Enrollment, FiniteSetTheorems, TLAPS

Looping == {"user", "open", "fill", "own"}

Hosting == {"keygen", "keygen public", "certify", "register"}

Later == {"control", "fill control", "done"} \cup Hosting

(* Past the loading step, the configuration has been accepted. *)
Checked == step \in Looping \cup Later
             => Valid(config.manifest) /\ Trusted(config)

(* Inside the loop, the agents before the current one are ready. *)
PrefixReady ==
    step \in Looping =>
        /\ at \in 1..(Len(Declared) + 1)
        /\ step # "user" => at \in DOMAIN Declared
        /\ \A i \in DOMAIN Declared : i < at => Ready(Declared[i])

KeysWritten == step = "own" => authorized[Entry.id] = Entry.keys

AllReady == step \in Later =>
    \A i \in DOMAIN Declared : Ready(Declared[i])

(* Past them, the controller keys have been accepted and installed. *)
Controlled ==
    /\ step \in {"fill control", "done"} \cup Hosting
          => BadKey \notin config.controllers
    /\ step \in Hosting \cup {"done"} =>
          (config.controllers # {} => control = config.controllers)

EnrollInv == /\ EnrollTypeOK
             /\ Checked /\ PrefixReady /\ KeysWritten
             /\ AllReady /\ Controlled

-----------------------------------------------------------------------------
(* What a valid manifest says of each of its agents. *)
LEMMA ValidEntry ==
    ASSUME NEW c \in Configs, Valid(c.manifest),
           NEW i \in DOMAIN c.manifest.agents
    PROVE  /\ c.manifest.agents[i].id \in Names
           /\ c.manifest.agents[i].keys \subseteq Keys
           /\ c.manifest.agents[i].keys # {}
           /\ \A j \in DOMAIN c.manifest.agents :
                 j # i => c.manifest.agents[j].id # c.manifest.agents[i].id
<1>1. c.manifest \in Manifests
  BY ConfigsAssumption DEF Bundles
<1>2. c.manifest.agents \in Seq(Entries)
  BY <1>1 DEF Manifests
<1>3. c.manifest.agents[i] \in Entries
  BY <1>2
<1>4. EntryOK(c.manifest.agents[i])
  BY DEF Valid
<1>5. c.manifest.agents[i].keys \subseteq Keys
  BY <1>3, <1>4 DEF Entries, EntryOK
<1> QED
  BY <1>4, <1>5 DEF EntryOK, Valid

(* Indices of the declared agents. *)
LEMMA DeclaredIndices ==
    ASSUME config \in Configs
    PROVE  /\ Len(Declared) \in Nat
           /\ DOMAIN Declared = 1..Len(Declared)
<1>1. config.manifest \in Manifests
  BY ConfigsAssumption DEF Bundles
<1>2. Declared \in Seq(Entries)
  BY <1>1 DEF Manifests, Declared
<1> QED
  BY <1>2

-----------------------------------------------------------------------------
LEMMA InitInv == EnrollInit => EnrollInv
<1> USE DEF EnrollInit, EnrollInv
<1>1. ASSUME EnrollInit PROVE EnrollTypeOK
  <2>1. faults \in 0..MaxFaults /\ at \in Nat \ {0}
    BY <1>1, FaultsAssumption
  <2>2. authorized \in [Names -> SUBSET Keys]
    BY <1>1
  <2> QED
    BY <1>1, <2>1, <2>2 DEF EnrollTypeOK, Steps
<1>2. ASSUME EnrollInit PROVE step = "off"
  BY <1>2
<1> QED
  BY <1>1, <1>2 DEF Checked, PrefixReady, KeysWritten, AllReady, Controlled,
     Looping, Later, Hosting

(* Steps that leave enroll(), or have not begun it, claim nothing. *)
LEMMA OutsideStep ==
    ASSUME EnrollTypeOK', step' \in {"off", "load", "failed"}
    PROVE  EnrollInv'
BY DEF EnrollInv, Checked, PrefixReady, KeysWritten, AllReady, Controlled,
     Looping, Later, Hosting

LEMMA AroundStep ==
    ASSUME EnrollInv, Boot \/ RunByHand \/ Fail \/ PowerCut \/ Reboot \/ Edit
    PROVE  EnrollInv'
<1>1. EnrollTypeOK
  BY DEF EnrollInv
<1>2. /\ at' = at /\ accounts' = accounts /\ authorized' = authorized
      /\ owned' = owned /\ control' = control /\ hostkey' = hostkey
      /\ certified' = certified /\ registered' = registered
      /\ config' \in Configs /\ sandboxed' \in BOOLEAN
  BY <1>1 DEF EnrollTypeOK, Boot, RunByHand, Fail, PowerCut, Reboot, Edit,
     diskVars, agentVars, hostVars
<1>3. step' \in {"off", "load", "failed"}
  BY DEF Boot, RunByHand, Fail, PowerCut, Reboot, Edit
<1>4. faults' = faults \/ (faults' = faults + 1 /\ faults < MaxFaults)
  BY DEF Boot, RunByHand, Fail, PowerCut, Reboot, Edit
<1>5. faults' \in 0..MaxFaults
  BY <1>1, <1>4, FaultsAssumption DEF EnrollTypeOK
<1>6. step' \in Steps
  BY <1>3 DEF Steps, Running
<1>7. EnrollTypeOK'
  BY <1>1, <1>2, <1>5, <1>6 DEF EnrollTypeOK
<1> QED
  BY <1>3, <1>7, OutsideStep

LEMMA LoadStep ==
    ASSUME EnrollInv, Load
    PROVE  EnrollInv'
<1>1. EnrollTypeOK /\ config \in Configs
  BY DEF EnrollInv, EnrollTypeOK
<1>2. EnrollTypeOK'
  BY <1>1 DEF EnrollTypeOK, Steps, Running, Load, diskVars, agentVars, hostVars
<1>3. CASE step' = "failed"
  BY <1>2, <1>3, OutsideStep
<1>4. CASE step' = "user"
  <2>1. /\ config' = config /\ at' = 1
        /\ Valid(config.manifest) /\ Trusted(config)
    BY <1>4 DEF Load
  <2>2. Checked'
    BY <2>1 DEF Checked
  <2>3. PrefixReady'
    BY <2>1, <1>1, <1>4, DeclaredIndices DEF PrefixReady, Declared
  <2> QED
    BY <1>2, <1>4, <2>2, <2>3 DEF EnrollInv, KeysWritten, AllReady,
       Controlled, Later, Hosting
<1> QED
  BY <1>3, <1>4 DEF Load

-----------------------------------------------------------------------------
(* The loop over the agents *)

(* What is known inside the loop, with an agent in hand. *)
LEMMA InLoop ==
    ASSUME EnrollInv, step \in Looping, at \in DOMAIN Declared
    PROVE  /\ Valid(config.manifest) /\ Trusted(config)
           /\ at \in Nat \ {0}
           /\ Entry.id \in Names
           /\ Entry.keys \subseteq Keys /\ Entry.keys # {}
           /\ \A j \in DOMAIN Declared : j # at => Declared[j].id # Entry.id
<1>1. config \in Configs /\ Valid(config.manifest) /\ Trusted(config)
      /\ at \in Nat \ {0}
  BY DEF EnrollInv, EnrollTypeOK, Checked
<1> QED
  BY <1>1, ValidEntry DEF Entry, Declared

(* In a step of the loop, only its own conclusions are left to show. *)
LEMMA LoopShape ==
    ASSUME EnrollTypeOK', Checked, step \in Looping, step' \in Looping,
           config' = config, PrefixReady', KeysWritten'
    PROVE  EnrollInv'
<1>1. Checked'
  BY DEF Checked
<1> QED
  BY <1>1 DEF EnrollInv, AllReady, Controlled, Later, Hosting, Looping

LEMMA AddUserStep ==
    ASSUME EnrollInv, AddUser
    PROVE  EnrollInv'
<1>1. EnrollTypeOK /\ Checked /\ PrefixReady /\ config \in Configs
      /\ step \in Looping /\ at \in Nat \ {0}
  BY DEF EnrollInv, EnrollTypeOK, AddUser, Looping
<1>2. at \in DOMAIN Declared
  BY <1>1, DeclaredIndices DEF AddUser
<1>3. Entry.id \in Names
  BY <1>1, <1>2, InLoop
<1>4. EnrollTypeOK'
  BY <1>1, <1>3, FaultsAssumption
     DEF EnrollTypeOK, Steps, Running, AddUser, MayAddUser, hostVars
<1>5. PrefixReady'
  BY <1>1, <1>2 DEF PrefixReady, AddUser, MayAddUser, Ready, Declared
<1>6. step' = "open" /\ config' = config
  BY DEF AddUser
<1>7. KeysWritten'
  BY <1>6 DEF KeysWritten
<1>8. step' \in Looping
  BY <1>6 DEF Looping
<1> QED
  BY <1>1, <1>4, <1>5, <1>6, <1>7, <1>8, LoopShape

(* Writing one agent's keys leaves the files of the others alone. *)
LEMMA OtherKeys ==
    ASSUME EnrollInv, step \in {"open", "fill"}, NEW keys \in SUBSET Keys,
           authorized' = [authorized EXCEPT ![Entry.id] = keys],
           step' \in {"fill", "own"}, config' = config, at' = at, owned' = owned
    PROVE  /\ PrefixReady'
           /\ authorized' \in [Names -> SUBSET Keys]
           /\ authorized'[Entry.id] = keys
<1>1. EnrollTypeOK /\ PrefixReady /\ config \in Configs
      /\ step \in Looping /\ step # "user"
  BY DEF EnrollInv, EnrollTypeOK, Looping
<1>2. at \in DOMAIN Declared /\ at \in 1..(Len(Declared) + 1)
  BY <1>1 DEF PrefixReady
<1>3. /\ Entry.id \in Names
      /\ \A j \in DOMAIN Declared : j # at => Declared[j].id # Entry.id
  BY <1>1, <1>2, InLoop
<1>4. authorized \in [Names -> SUBSET Keys]
  BY <1>1 DEF EnrollTypeOK
<1>5. authorized' \in [Names -> SUBSET Keys] /\ authorized'[Entry.id] = keys
  BY <1>3, <1>4
<1>6. ASSUME NEW i \in DOMAIN Declared, i < at
      PROVE  Ready(Declared[i])'
  <2>1. i # at /\ Ready(Declared[i])
    BY <1>6, <1>1, <1>2, DeclaredIndices DEF PrefixReady
  <2>2. Declared[i].id # Entry.id
    BY <1>3, <2>1
  <2>3. Declared[i].id \in Names
    <3>1. Valid(config.manifest)
      BY <1>1 DEF EnrollInv, Checked
    <3> QED
      BY <1>1, <3>1, ValidEntry DEF Declared
  <2>4. authorized'[Declared[i].id] = authorized[Declared[i].id]
    BY <1>4, <2>2, <2>3
  <2>5. Declared' = Declared
    BY DEF Declared
  <2> QED
    BY <2>1, <2>4, <2>5 DEF Ready
<1>7. Declared' = Declared
  BY DEF Declared
<1>8. PrefixReady'
  BY <1>2, <1>6, <1>7 DEF PrefixReady
<1> QED
  BY <1>5, <1>8

LEMMA OpenKeysStep ==
    ASSUME EnrollInv, OpenKeys
    PROVE  EnrollInv'
<1>1. EnrollTypeOK /\ Checked /\ step \in Looping
  BY DEF EnrollInv, OpenKeys, Looping
<1>2. /\ step = "open" /\ step' = "fill"
      /\ authorized' = [authorized EXCEPT ![Entry.id] = {}]
      /\ config' = config /\ at' = at /\ owned' = owned
  BY DEF OpenKeys
<1>3. PrefixReady' /\ authorized' \in [Names -> SUBSET Keys]
  <2>1. {} \in SUBSET Keys /\ step \in {"open", "fill"}
        /\ step' \in {"fill", "own"}
    BY <1>2
  <2> QED
    BY <1>2, <2>1, OtherKeys
<1>4. EnrollTypeOK'
  BY <1>1, <1>3 DEF EnrollTypeOK, Steps, Running, OpenKeys, hostVars
<1>5. KeysWritten' /\ step' \in Looping
  BY <1>2 DEF KeysWritten, Looping
<1> QED
  BY <1>1, <1>2, <1>3, <1>4, <1>5, LoopShape

LEMMA FillKeysStep ==
    ASSUME EnrollInv, FillKeys
    PROVE  EnrollInv'
<1>1. EnrollTypeOK /\ Checked /\ PrefixReady /\ step \in Looping
  BY DEF EnrollInv, FillKeys, Looping
<1>2. /\ step = "fill" /\ step' = "own"
      /\ authorized' = [authorized EXCEPT ![Entry.id] = Entry.keys]
      /\ config' = config /\ at' = at /\ owned' = owned
  BY DEF FillKeys
<1>3. at \in DOMAIN Declared
  BY <1>1, <1>2 DEF PrefixReady
<1>4. Entry.keys \in SUBSET Keys
  BY <1>1, <1>3, InLoop
<1>5. /\ PrefixReady' /\ authorized' \in [Names -> SUBSET Keys]
      /\ authorized'[Entry.id] = Entry.keys
  BY <1>2, <1>4, OtherKeys
<1>6. EnrollTypeOK'
  BY <1>1, <1>5, <1>2 DEF EnrollTypeOK, Steps, Running, FillKeys, hostVars
<1>7. Entry' = Entry
  BY <1>2 DEF Entry, Declared
<1>8. KeysWritten' /\ step' \in Looping
  BY <1>2, <1>5, <1>7 DEF KeysWritten, Looping
<1> QED
  BY <1>1, <1>2, <1>5, <1>6, <1>8, LoopShape

LEMMA HandOverStep ==
    ASSUME EnrollInv, HandOver
    PROVE  EnrollInv'
<1>1. EnrollTypeOK /\ Checked /\ PrefixReady /\ KeysWritten
      /\ config \in Configs /\ step \in Looping /\ step = "own"
  BY DEF EnrollInv, EnrollTypeOK, HandOver, Looping
<1>2. at \in DOMAIN Declared /\ at \in 1..(Len(Declared) + 1)
  BY <1>1 DEF PrefixReady
<1>3. config' = config /\ authorized' = authorized /\ accounts' = accounts
  BY DEF HandOver
<1>4. CASE Entry.id \notin accounts
  <2>1. step' = "failed" /\ owned' = owned /\ at' = at
    BY <1>4 DEF HandOver
  <2>2. EnrollTypeOK'
    BY <1>1, <2>1 DEF EnrollTypeOK, Steps, HandOver, hostVars
  <2> QED
    BY <2>1, <2>2, OutsideStep
<1>5. CASE Entry.id \in accounts
  <2>1. step' = "user" /\ owned' = owned \cup {Entry.id} /\ at' = at + 1
    BY <1>5 DEF HandOver
  <2>2. EnrollTypeOK'
    BY <1>1, <1>5, <2>1 DEF EnrollTypeOK, Steps, Running, HandOver, hostVars
  <2>3. Declared' = Declared
    BY <1>3 DEF Declared
  <2>4. Len(Declared) \in Nat /\ DOMAIN Declared = 1..Len(Declared)
    BY <1>1, DeclaredIndices
  <2>5. at' \in 1..(Len(Declared) + 1)
    BY <1>2, <2>1, <2>4
  <2>6. ASSUME NEW i \in DOMAIN Declared, i < at'
        PROVE  Ready(Declared[i])'
    <3>1. CASE i = at
      BY <3>1, <1>1, <1>3, <2>1, <2>3 DEF Ready, KeysWritten, Entry
    <3>2. CASE i # at
      <4>1. i < at
        BY <3>2, <2>6, <2>1, <1>2, <2>4
      <4> QED
        BY <4>1, <1>1, <1>3, <2>1, <2>3 DEF PrefixReady, Ready
    <3> QED
      BY <3>1, <3>2
  <2>7. PrefixReady'
    BY <2>1, <2>3, <2>5, <2>6 DEF PrefixReady
  <2>8. KeysWritten' /\ step' \in Looping
    BY <2>1 DEF KeysWritten, Looping
  <2> QED
    BY <1>1, <1>3, <2>2, <2>7, <2>8, LoopShape
<1> QED
  BY <1>4, <1>5

-----------------------------------------------------------------------------
(* After the loop *)

(* With the agents and the configuration as they are, what was ready stays
   ready. *)
LEMMA LaterShape ==
    ASSUME Checked, AllReady, step \in Later, step' \in Later,
           EnrollTypeOK', Controlled',
           config' = config, authorized' = authorized, owned' = owned
    PROVE  EnrollInv'
<1>1. Checked' /\ AllReady'
  BY DEF Checked, AllReady, Ready, Declared
<1> QED
  BY <1>1 DEF EnrollInv, PrefixReady, KeysWritten, Looping, Later, Hosting

LEMMA EndAccountsStep ==
    ASSUME EnrollInv, EndAccounts
    PROVE  EnrollInv'
<1>1. EnrollTypeOK /\ Checked /\ PrefixReady /\ config \in Configs
      /\ step = "user" /\ step \in Looping
  BY DEF EnrollInv, EnrollTypeOK, EndAccounts, Looping
<1>2. /\ step' = "control" /\ config' = config /\ at > Len(Declared)
      /\ authorized' = authorized /\ owned' = owned
  BY DEF EndAccounts, diskVars, agentVars
<1>3. EnrollTypeOK'
  BY <1>1 DEF EnrollTypeOK, Steps, Running, EndAccounts, diskVars, agentVars,
     hostVars
<1>4. ASSUME NEW i \in DOMAIN Declared
      PROVE  Ready(Declared[i])
  BY <1>1, <1>2, DeclaredIndices DEF PrefixReady
<1>5. Declared' = Declared
  BY <1>2 DEF Declared
<1>6. AllReady'
  BY <1>2, <1>4, <1>5 DEF AllReady, Ready
<1>7. Checked'
  BY <1>1, <1>2 DEF Checked
<1> QED
  BY <1>2, <1>3, <1>6, <1>7 DEF EnrollInv, PrefixReady, KeysWritten, Controlled,
     Looping, Hosting

LEMMA ControlStep ==
    ASSUME EnrollInv, OpenControl \/ FillControl
    PROVE  EnrollInv'
<1>1. EnrollTypeOK /\ Checked /\ AllReady /\ Controlled
      /\ config \in Configs /\ step \in Later
  BY DEF EnrollInv, EnrollTypeOK, OpenControl, FillControl, Later
<1>2. /\ config' = config /\ at' = at /\ accounts' = accounts
      /\ authorized' = authorized /\ owned' = owned
      /\ hostkey' = hostkey /\ certified' = certified
      /\ registered' = registered /\ faults' = faults
      /\ sandboxed' = sandboxed
  BY DEF OpenControl, FillControl, agentVars, hostVars
<1>3. config.controllers \subseteq Keys \cup {BadKey}
      /\ config.url \in {"none", "http", "https"}
  BY <1>1, ConfigsAssumption DEF Bundles
<1>4. \/ step' = "failed" /\ control' = control
      \/ step' = "fill control" /\ control' = {} /\ BadKey \notin config.controllers
      \/ step' = Onward /\ config.controllers = {} /\ control' = control
      \/ step' = Onward /\ BadKey \notin config.controllers
           /\ control' = config.controllers
  BY <1>1 DEF OpenControl, FillControl, Controlled
<1>5. Onward \in {"done", "keygen"} /\ (Onward = "keygen" <=> config.url # "none")
  BY DEF Onward
<1>6. control' \subseteq Keys
  <2>1. control \subseteq Keys
    BY <1>1 DEF EnrollTypeOK
  <2>2. BadKey \notin config.controllers => config.controllers \subseteq Keys
    BY <1>3
  <2>3. \/ control' = control \/ control' = {}
        \/ BadKey \notin config.controllers /\ control' = config.controllers
    BY <1>4
  <2> QED
    BY <2>1, <2>2, <2>3
<1>7. step' \in Steps
  BY <1>4, <1>5 DEF Steps, Running
<1>8. EnrollTypeOK'
  BY <1>1, <1>2, <1>6, <1>7 DEF EnrollTypeOK
<1>9. CASE step' = "failed"
  BY <1>8, <1>9, OutsideStep
<1>10. CASE step' # "failed"
  <2>1. step' \in {"fill control", "done", "keygen"}
    BY <1>4, <1>5, <1>10
  <2>2. Controlled'
    BY <1>2, <1>4, <1>5, <2>1 DEF Controlled, Hosting
  <2>3. step' \in Later
    BY <2>1 DEF Later, Hosting
  <2> QED
    BY <1>1, <1>2, <1>8, <2>2, <2>3, LaterShape
<1> QED
  BY <1>9, <1>10

LEMMA HostStep ==
    ASSUME EnrollInv, HostKey \/ PublicKey \/ Post
    PROVE  EnrollInv'
<1>1. EnrollTypeOK /\ Checked /\ AllReady /\ Controlled
      /\ step \in Hosting
  BY DEF EnrollInv, HostKey, PublicKey, Post, Hosting
<1>2. /\ config' = config /\ at' = at /\ accounts' = accounts
      /\ authorized' = authorized /\ owned' = owned /\ control' = control
      /\ sandboxed' = sandboxed
  BY DEF HostKey, PublicKey, Post, agentVars
<1>3. step' \in Hosting \cup {"failed", "done"}
  BY <1>1 DEF HostKey, PublicKey, Post, Hosting, EnrollTypeOK
<1>3a. faults' = faults \/ (faults' = faults + 1 /\ faults < MaxFaults)
  BY DEF HostKey, PublicKey, Post
<1>4. EnrollTypeOK'
  <2>1. step' \in Steps
    BY <1>3 DEF Steps, Running, Hosting
  <2>2. /\ hostkey' \in {"none", "private", "pair"}
        /\ certified' \in BOOLEAN /\ registered' \in BOOLEAN
    BY <1>1 DEF EnrollTypeOK, HostKey, PublicKey, Post
  <2>3. faults' \in 0..MaxFaults
    BY <1>1, <1>3a, FaultsAssumption DEF EnrollTypeOK
  <2> QED
    BY <1>1, <1>2, <2>1, <2>2, <2>3 DEF EnrollTypeOK
<1>5. CASE step' = "failed"
  BY <1>4, <1>5, OutsideStep
<1>6. CASE step' # "failed"
  <2>1. step' \in Hosting \cup {"done"}
    BY <1>3, <1>6
  <2>2. Controlled'
    BY <1>1, <1>2, <2>1 DEF Controlled, Hosting
  <2>3. step' \in Later /\ step \in Later
    BY <1>1, <2>1 DEF Later
  <2> QED
    BY <1>1, <1>2, <1>4, <2>2, <2>3, LaterShape
<1> QED
  BY <1>5, <1>6

-----------------------------------------------------------------------------
LEMMA StepInv == EnrollInv /\ [EnrollNext]_vars => EnrollInv'
<1> SUFFICES ASSUME EnrollInv, [EnrollNext]_vars PROVE EnrollInv'
  OBVIOUS
<1>1. CASE Boot \/ RunByHand \/ Fail \/ PowerCut \/ Reboot \/ Edit
  BY <1>1, AroundStep
<1>2. CASE Load
  BY <1>2, LoadStep
<1>3. CASE AddUser
  BY <1>3, AddUserStep
<1>4. CASE OpenKeys
  BY <1>4, OpenKeysStep
<1>5. CASE FillKeys
  BY <1>5, FillKeysStep
<1>6. CASE HandOver
  BY <1>6, HandOverStep
<1>7. CASE EndAccounts
  BY <1>7, EndAccountsStep
<1>8. CASE OpenControl \/ FillControl
  BY <1>8, ControlStep
<1>9. CASE HostKey \/ PublicKey \/ Post
  BY <1>9, HostStep
<1>10. CASE UNCHANGED vars
  BY <1>10 DEF vars, diskVars, agentVars, hostVars, EnrollInv, EnrollTypeOK,
     Checked, PrefixReady, KeysWritten, AllReady, Controlled, Ready,
     Declared, Entry
<1> QED
  BY <1>1, <1>2, <1>3, <1>4, <1>5, <1>6, <1>7, <1>8, <1>9, <1>10
     DEF EnrollNext, Enroll

LEMMA InvHolds == EnrollSpec => []EnrollInv
BY InitInv, StepInv, PTL DEF EnrollSpec

(* Only validated keys are ever written, accounts precede homes, and the
   loop of provision_accounts stays within its manifest. *)
THEOREM EnrollTypeCorrect == EnrollSpec => []EnrollTypeOK
<1>1. EnrollInv => EnrollTypeOK
  BY DEF EnrollInv
<1> QED
  BY <1>1, InvHolds, PTL

(* A completed enrollment has put into effect exactly what the configuration
   says, whatever earlier boots left on the disk (enroll.py:95-118). *)
THEOREM CompletedEnrollment == EnrollSpec => []DoneMatchesConfig
<1>1. EnrollInv => DoneMatchesConfig
  BY DEF EnrollInv, AllReady, Controlled, DoneMatchesConfig, Later
<1> QED
  BY <1>1, InvHolds, PTL

(* Nothing on the disk changes under a manifest load_manifest rejects or a
   coordinator URL that is not https (enroll.py:98-102), and under controller
   keys that are rejected nothing of what follows the accounts (:79-80). *)
THEOREM RefusedChangesNothing == EnrollSpec => InvalidChangesNothing
<1>1. EnrollInv /\ [EnrollNext]_vars =>
        /\ diskVars' # diskVars => Valid(config.manifest) /\ Trusted(config)
        /\ coordinatorVars' # coordinatorVars
             => BadKey \notin config.controllers
  <2> SUFFICES ASSUME EnrollInv, [EnrollNext]_vars
               PROVE  /\ diskVars' # diskVars =>
                           Valid(config.manifest) /\ Trusted(config)
                      /\ coordinatorVars' # coordinatorVars =>
                           BadKey \notin config.controllers
    OBVIOUS
  <2>1. ASSUME diskVars' # diskVars
        PROVE  Valid(config.manifest) /\ Trusted(config)
    <3>1. step \in Looping \cup Later
      BY <2>1 DEF EnrollNext, Enroll, Boot, Load, AddUser, OpenKeys, FillKeys,
         HandOver, EndAccounts, OpenControl, FillControl, HostKey, PublicKey,
         Post, Fail, PowerCut, Reboot, RunByHand, Edit, vars, Looping, Later,
         Hosting
    <3> QED
      BY <3>1 DEF EnrollInv, Checked
  <2>2. ASSUME coordinatorVars' # coordinatorVars
        PROVE  BadKey \notin config.controllers
    <3>1. \/ step \in {"fill control"} \cup Hosting
          \/ OpenControl
      BY <2>2 DEF EnrollNext, Enroll, Boot, Load, AddUser, OpenKeys, FillKeys,
         HandOver, EndAccounts, FillControl, HostKey, PublicKey,
         Post, Fail, PowerCut, Reboot, RunByHand, Edit, vars, Hosting,
         coordinatorVars, diskVars, agentVars, hostVars
    <3>2. CASE OpenControl
      BY <2>2, <3>2 DEF OpenControl, coordinatorVars, hostVars
    <3>3. CASE step \in {"fill control"} \cup Hosting
      BY <3>3 DEF EnrollInv, Controlled
    <3> QED
      BY <3>1, <3>2, <3>3
  <2> QED
    BY <2>1, <2>2
<1>2. EnrollInv /\ [EnrollNext]_vars =>
        [/\ diskVars' # diskVars => Valid(config.manifest) /\ Trusted(config)
         /\ coordinatorVars' # coordinatorVars
              => BadKey \notin config.controllers]_vars
  BY <1>1
<1> QED
  BY <1>2, InvHolds, PTL DEF EnrollSpec, InvalidChangesNothing

-----------------------------------------------------------------------------
(* Agents with a home and without keys, but for the one whose file is being
   written. *)
Emptied == {a \in owned : authorized[a] = {}}

Filling == IF step = "fill" THEN {Entry.id} ELSE {}

LockedInv == Cardinality(Emptied \ Filling) <= faults

LEMMA EmptiedFinite ==
    ASSUME EnrollTypeOK, NEW S \in SUBSET Emptied
    PROVE  IsFiniteSet(S) /\ Cardinality(S) \in Nat
<1>1. S \subseteq Names
  BY DEF EnrollTypeOK, Emptied
<1>2. IsFiniteSet(S)
  BY <1>1, FiniteAssumption, FS_Subset
<1> QED
  BY <1>2, FS_CardinalityType

(* A step that empties no file, but for the one it is about to write. *)
LEMMA NoNewEmpty ==
    ASSUME EnrollInv, EnrollInv', LockedInv,
           (Emptied \ Filling)' \subseteq Emptied \ Filling,
           faults' = faults \/ faults' = faults + 1
    PROVE  LockedInv'
<1> DEFINE S == Emptied \ Filling
<1>1. EnrollTypeOK /\ faults \in Nat
  BY FaultsAssumption DEF EnrollInv, EnrollTypeOK
<1>2. IsFiniteSet(S) /\ Cardinality(S) \in Nat
  BY <1>1, EmptiedFinite
<1>3. Cardinality(S') \in Nat /\ Cardinality(S') <= Cardinality(S)
  BY <1>2, FS_Subset, FS_CardinalityType
<1>4. Cardinality(S) <= faults
  BY DEF LockedInv
<1>5. Cardinality(S') <= faults'
  <2> HIDE DEF S
  <2> QED
    BY <1>1, <1>2, <1>3, <1>4
<1> QED
  BY <1>5 DEF LockedInv

(* A fault leaves at most the file being written empty. *)
LEMMA FaultEmptiesOne ==
    ASSUME EnrollInv, EnrollInv', LockedInv, Fail \/ PowerCut
    PROVE  LockedInv'
<1> DEFINE S == Emptied \ Filling
<1>1. EnrollTypeOK /\ faults \in Nat
  BY FaultsAssumption DEF EnrollInv, EnrollTypeOK
<1>2. IsFiniteSet(S) /\ Cardinality(S) \in Nat
  BY <1>1, EmptiedFinite
<1>3. /\ Emptied' = Emptied /\ Filling' = {} /\ faults' = faults + 1
  BY DEF Fail, PowerCut, Emptied, Filling, diskVars, agentVars
<1>4. PICK x : Emptied \subseteq S \cup {x}
  BY DEF Filling
<1>5. /\ IsFiniteSet(S \cup {x})
      /\ Cardinality(S \cup {x}) \in Nat
      /\ Cardinality(S \cup {x}) <= Cardinality(S) + 1
  <2> HIDE DEF S
  <2>1. IsFiniteSet(S \cup {x})
    BY <1>2, FS_AddElement
  <2>2. Cardinality(S \cup {x}) = Cardinality(S)
        \/ Cardinality(S \cup {x}) = Cardinality(S) + 1
    BY <1>2, FS_AddElement
  <2> QED
    BY <1>2, <2>1, <2>2
<1>6. Cardinality(Emptied) \in Nat /\ Cardinality(Emptied) <= Cardinality(S \cup {x})
  <2> HIDE DEF S
  <2> QED
    BY <1>4, <1>5, FS_Subset, FS_CardinalityType
<1>7. Cardinality(S) <= faults
  BY DEF LockedInv
<1>8. Cardinality(Emptied) <= faults + 1
  <2> HIDE DEF S
  <2> QED
    BY <1>1, <1>2, <1>5, <1>6, <1>7
<1>9. (Emptied \ Filling)' = Emptied
  BY <1>3
<1> QED
  BY <1>3, <1>8, <1>9 DEF LockedInv

LEMMA LockedStep ==
    ASSUME EnrollInv, EnrollInv', LockedInv, [EnrollNext]_vars
    PROVE  LockedInv'
<1>1. CASE Fail \/ PowerCut
  BY <1>1, FaultEmptiesOne
<1>2. CASE OpenKeys
  <2>1. EnrollTypeOK /\ PrefixReady /\ step \in Looping /\ step # "user"
    BY <1>2 DEF EnrollInv, OpenKeys, Looping
  <2>2. at \in DOMAIN Declared
    BY <2>1 DEF PrefixReady
  <2>3. Entry.id \in Names /\ authorized \in [Names -> SUBSET Keys]
    BY <2>1, <2>2, InLoop DEF EnrollTypeOK
  <2>4. /\ step = "open" /\ step' = "fill" /\ owned' = owned /\ faults' = faults
        /\ authorized' = [authorized EXCEPT ![Entry.id] = {}]
        /\ Entry' = Entry
    BY <1>2 DEF OpenKeys, Entry, Declared
  <2>5. owned \subseteq Names
    BY <2>1 DEF EnrollTypeOK
  <2>6. (Emptied \ Filling)' \subseteq Emptied \ Filling
    BY <2>3, <2>4, <2>5 DEF Emptied, Filling
  <2> QED
    BY <2>4, <2>6, NoNewEmpty
<1>3. CASE FillKeys
  <2>1. EnrollTypeOK /\ PrefixReady /\ step \in Looping /\ step # "user"
    BY <1>3 DEF EnrollInv, FillKeys, Looping
  <2>2. at \in DOMAIN Declared
    BY <2>1 DEF PrefixReady
  <2>3. /\ Entry.id \in Names /\ authorized \in [Names -> SUBSET Keys]
        /\ Entry.keys # {}
    BY <2>1, <2>2, InLoop DEF EnrollTypeOK
  <2>4. /\ step = "fill" /\ step' = "own" /\ owned' = owned /\ faults' = faults
        /\ authorized' = [authorized EXCEPT ![Entry.id] = Entry.keys]
    BY <1>3 DEF FillKeys
  <2>5. owned \subseteq Names
    BY <2>1 DEF EnrollTypeOK
  <2>6. (Emptied \ Filling)' \subseteq Emptied \ Filling
    BY <2>3, <2>4, <2>5 DEF Emptied, Filling
  <2> QED
    BY <2>4, <2>6, NoNewEmpty
<1>4. CASE HandOver
  <2>1. EnrollTypeOK /\ PrefixReady /\ KeysWritten /\ step \in Looping
        /\ step = "own"
    BY <1>4 DEF EnrollInv, HandOver, Looping
  <2>2. at \in DOMAIN Declared
    BY <2>1 DEF PrefixReady
  <2>3. Entry.keys # {}
    BY <2>1, <2>2, InLoop
  <2>4. /\ authorized' = authorized /\ faults' = faults /\ step' # "fill"
        /\ owned' \subseteq owned \cup {Entry.id}
    BY <1>4 DEF HandOver
  <2>5. authorized[Entry.id] # {}
    BY <2>1, <2>3 DEF KeysWritten
  <2>6. (Emptied \ Filling)' \subseteq Emptied \ Filling
    BY <2>1, <2>4, <2>5 DEF Emptied, Filling
  <2> QED
    BY <2>4, <2>6, NoNewEmpty
<1>5. CASE \/ Boot \/ Load \/ AddUser \/ EndAccounts \/ OpenControl
           \/ FillControl \/ HostKey \/ PublicKey \/ Post \/ Reboot
           \/ RunByHand \/ Edit
  <2>1. authorized' = authorized /\ owned' = owned
    BY <1>5
       DEF Boot, Load, AddUser, MayAddUser, EndAccounts, OpenControl, FillControl,
       HostKey,
       PublicKey, Post, Reboot, RunByHand, Edit, diskVars, agentVars, hostVars
  <2>2. faults' = faults \/ faults' = faults + 1
    BY <1>5
       DEF Boot, Load, AddUser, MayAddUser, EndAccounts, OpenControl, FillControl,
       HostKey,
       PublicKey, Post, Reboot, RunByHand, Edit
  <2>3. hostkey \in {"none", "private", "pair"}
    BY DEF EnrollInv, EnrollTypeOK
  <2>4. step # "fill" /\ step' # "fill"
    BY <1>5, <2>3
       DEF Boot, Load, AddUser, MayAddUser, EndAccounts, OpenControl, FillControl,
       Onward, HostKey, PublicKey, Post, Reboot, RunByHand, Edit
  <2>5. (Emptied \ Filling)' \subseteq Emptied \ Filling
    BY <2>1, <2>4 DEF Emptied, Filling
  <2> QED
    BY <2>2, <2>5, NoNewEmpty
<1>6. CASE UNCHANGED vars
  BY <1>6 DEF vars, diskVars, agentVars, LockedInv, Emptied, Filling, Entry, Declared
<1> QED
  BY <1>1, <1>2, <1>3, <1>4, <1>5, <1>6 DEF EnrollNext, Enroll

(* Every interruption costs at most one agent its keys, until the next boot
   completes (enroll.py:63). *)
THEOREM InterruptionLocksOutOne == EnrollSpec => []LockedOutBounded
<1>1. EnrollInit => LockedInv
  <2> SUFFICES ASSUME EnrollInit PROVE LockedInv
    OBVIOUS
  <2>1. Emptied \ Filling = {} /\ faults = 0
    BY DEF EnrollInit, Emptied, Filling
  <2> QED
    BY <2>1, FS_EmptySet DEF LockedInv
<1>2. EnrollInv /\ EnrollInv' /\ LockedInv /\ [EnrollNext]_vars => LockedInv'
  BY LockedStep
<1>3. EnrollInv /\ LockedInv => LockedOutBounded
  <2> SUFFICES ASSUME EnrollInv, LockedInv PROVE LockedOutBounded
    OBVIOUS
  <2>1. EnrollTypeOK /\ faults \in Nat
    BY FaultsAssumption DEF EnrollInv, EnrollTypeOK
  <2>2. IsFiniteSet(Emptied) /\ Cardinality(Emptied) \in Nat
    BY <2>1, EmptiedFinite
  <2>3. CASE step # "fill"
    <3>1. Emptied \ Filling = Emptied
      BY <2>3 DEF Filling
    <3>2. Cardinality(Emptied) <= faults
      BY <3>1 DEF LockedInv
    <3> QED
      BY <2>1, <2>3, <3>2 DEF LockedOutBounded, Emptied
  <2>4. CASE step = "fill"
    <3>1. Emptied \ Filling = Emptied \ {Entry.id}
      BY <2>4 DEF Filling
    <3>2. PICK n \in Nat : n = Cardinality(Emptied)
      BY <2>2
    <3>3. Cardinality(Emptied \ {Entry.id}) \in {n, n - 1}
      BY <2>2, <3>2, FS_RemoveElement
    <3>4. Cardinality(Emptied \ {Entry.id}) <= faults
      BY <3>1 DEF LockedInv
    <3>5. n <= faults + 1
      BY <2>1, <3>3, <3>4
    <3> QED
      BY <2>4, <3>2, <3>5 DEF LockedOutBounded, Emptied
  <2> QED
    BY <2>3, <2>4
<1> QED
  BY <1>1, <1>2, <1>3, InvHolds, PTL DEF EnrollSpec
=============================================================================
