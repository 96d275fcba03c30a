---------------------------- MODULE MCEnrollment ----------------------------
(* Instances of Enrollment: two agents, two keys, and configurations that
   differ in what the code tells apart. *)
EXTENDS Enrollment

CONSTANTS alpha, beta, k1, k2

MCNames == {alpha, beta}

MCKeys == {k1, k2}

Agent(id, keys) == [id |-> id, keys |-> keys, cpu |-> NoLimit, memory |-> 128]

Manifest(agents) == [version |-> 1, hostname |-> alpha, agents |-> agents,
                     persistence |-> "disposable"]

Bundle(manifest, controllers, url) ==
    [manifest |-> manifest, controllers |-> controllers, url |-> url,
     insecure |-> FALSE, token |-> "secret", droneId |-> alpha, slots |-> 1]

Both == Manifest(<<Agent(alpha, {k1}), Agent(beta, {k2})>>)

Swapped == Manifest(<<Agent(beta, {k1, k2})>>)

Twice == Manifest(<<Agent(alpha, {k1}), Agent(alpha, {k2})>>)

OfflineConfigs == {Bundle(Both, {k1}, "none"), Bundle(Swapped, {}, "none")}

RefusedConfigs == {
    Bundle(Twice, {}, "none"),
    Bundle(Manifest(<<Agent(alpha, {k2, BadKey})>>), {}, "none"),
    Bundle(Manifest(<< >>), {}, "none"),
    Bundle(Manifest(<<[Agent(beta, {k2}) EXCEPT !.memory = 64]>>), {}, "none"),
    Bundle(Both, {k1, BadKey}, "none"),
    Bundle(Both, {k1}, "http")}

OnlineConfigs == {Bundle(Both, {k2}, "https")}

MCConfigs == OfflineConfigs \cup RefusedConfigs \cup OnlineConfigs
=============================================================================
