--------------------------- MODULE ArtifactsProofs ---------------------------
(***************************************************************************)
(* Theorems about Artifacts, for any number of gateways, files,            *)
(* destinations, versions and faults.                                      *)
(***************************************************************************)
EXTENDS Artifacts, FiniteSetTheorems, Functions, TLAPS

FetchOps == {"copy", "copying", "check", "mark", "unlink"}

ListOps == {"read", "record"}

Calls == {Idle} \cup Listings \cup Fetches

(* What a call has found out stays true: a file is never removed, a digest
   never forgotten. *)
CallOK(k) ==
    /\ k.op \in ListOps => /\ \A f \in k.todo : file[f] # Nothing
                           /\ \A c \in k.found : file[c.path] # Nothing
    /\ k.op \in FetchOps => file[k.path] # Nothing /\ k.digest \in listed

FileOK(f) ==
    /\ file[f] # Nothing => file[f].path = f
    /\ row[f].digest # Nothing => file[f] # Nothing /\ row[f].digest \in listed

Grounded == /\ \A p \in Processes : CallOK(call[p])
            /\ \A f \in Paths : FileOK(f)

Base == ArtTypeOK /\ Grounded

-----------------------------------------------------------------------------
LEMMA ContentShape ==
    /\ \A c \in Contents : /\ c.path \in Paths
                           /\ c.version \in 1..Versions[c.path]
                           /\ c = [path |-> c.path, version |-> c.version]
    /\ \A f \in Paths : \A v \in 1..Versions[f] :
          [path |-> f, version |-> v] \in Contents
BY DEF Contents

LEMMA CallKinds ==
    ASSUME NEW k \in Calls
    PROVE  /\ k.op \in {"none"} \cup ListOps \cup FetchOps
           /\ k.op = "none" => k = Idle
           /\ k.op \in ListOps => k \in Listings
           /\ k.op \in FetchOps => k \in Fetches
BY DEF Calls, Idle, Listings, Fetches, ListOps, FetchOps

(* One process moves, the others keep their calls. *)
LEMMA CallMoves ==
    ASSUME ArtTypeOK, NEW p \in Processes, NEW next \in Calls,
           call' = [call EXCEPT ![p] = next]
    PROVE  /\ call' \in [Processes -> Calls]
           /\ call'[p] = next
           /\ \A q \in Processes \ {p} : call'[q] = call[q]
BY DEF ArtTypeOK, Calls

(* Facts about files and digests only ever become more. *)
LEMMA CallStaysOK ==
    ASSUME ArtTypeOK, NEW k \in Calls, CallOK(k),
           \A f \in Paths : file[f] # Nothing => file'[f] # Nothing,
           listed \subseteq listed'
    PROVE  CallOK(k)'
<1>1. CASE k.op = "none"
  BY <1>1 DEF CallOK, ListOps, FetchOps
<1>2. CASE k.op \in ListOps
  <2>1. k \in Listings /\ k.op \notin FetchOps
    BY <1>2, CallKinds DEF ListOps, FetchOps
  <2>2. k.todo \subseteq Paths /\ k.found \subseteq Contents
    BY <2>1 DEF Listings
  <2>3. \A c \in k.found : c.path \in Paths
    BY <2>2, ContentShape
  <2> QED
    BY <1>2, <2>1, <2>2, <2>3 DEF CallOK
<1>3. CASE k.op \in FetchOps
  <2>1. k \in Fetches /\ k.op \notin ListOps
    BY <1>3, CallKinds DEF ListOps, FetchOps
  <2>2. k.path \in Paths
    BY <2>1 DEF Fetches
  <2> QED
    BY <1>3, <2>1, <2>2 DEF CallOK
<1> QED
  BY <1>1, <1>2, <1>3, CallKinds

-----------------------------------------------------------------------------
(* The invariant Base *)

LEMMA InitBase == ArtInit => Base
<1> SUFFICES ASSUME ArtInit PROVE Base
  OBVIOUS
<1>1. faults \in 0..MaxFaults
  BY ArtifactsAssumption DEF ArtInit
<1>2. /\ file \in [Paths -> Contents \cup {Nothing}]
      /\ row \in [Paths -> [digest: Contents \cup {Nothing},
                            fetched: Destinations \cup {Nothing}]]
      /\ local \in [Destinations -> Contents \cup {Nothing, Torn}]
      /\ call \in [Processes -> {Idle} \cup Listings \cup Fetches]
  BY DEF ArtInit
<1>3. ArtTypeOK
  BY <1>1, <1>2 DEF ArtInit, ArtTypeOK
<1>4. \A p \in Processes : CallOK(call[p])
  BY DEF ArtInit, CallOK, Idle, ListOps, FetchOps
<1>5. \A f \in Paths : FileOK(f)
  BY DEF ArtInit, FileOK
<1> QED
  BY <1>3, <1>4, <1>5 DEF Base, Grounded

LEMMA WriteBase ==
    ASSUME Base, NEW f \in Paths, WriteFile(f)
    PROVE  Base'
<1>1. ArtTypeOK /\ Grounded
  BY DEF Base
<1>2. /\ file \in [Paths -> Contents \cup {Nothing}] /\ FileOK(f)
      /\ Versions[f] \in Nat \ {0}
  BY <1>1, ArtifactsAssumption DEF ArtTypeOK, Grounded
<1>3. PICK c \in Contents : c.path = f /\ file' = [file EXCEPT ![f] = c]
  <2>1. CASE file[f] = Nothing
    <3>1. [path |-> f, version |-> 1] \in Contents
      BY <1>2, ContentShape
    <3> QED
      BY <2>1, <3>1 DEF WriteFile
  <2>2. CASE file[f] # Nothing
    <3>1. PICK c \in Contents : c = file[f]
      BY <1>2, <2>2
    <3>2. c.path = f
      BY <1>2, <2>2, <3>1 DEF FileOK
    <3>3. /\ c = [path |-> f, version |-> c.version]
          /\ c.version \in 1..Versions[f]
      BY <3>2, ContentShape
    <3>4. c.version < Versions[f]
          /\ file' = [file EXCEPT ![f].version = @ + 1]
      BY <2>2, <3>1 DEF WriteFile
    <3>5. PICK v : v = c.version + 1
      OBVIOUS
    <3>6. v \in 1..Versions[f]
      BY <1>2, <3>3, <3>4, <3>5
    <3>7. [path |-> f, version |-> v] \in Contents
      BY <3>6, ContentShape
    <3>8. [c EXCEPT !.version = @ + 1] = [path |-> f, version |-> v]
      BY <3>3, <3>5
    <3>9. file' = [file EXCEPT ![f] = [path |-> f, version |-> v]]
      BY <3>1, <3>4, <3>8
    <3> QED
      BY <3>7, <3>9
  <2> QED
    BY <2>1, <2>2
<1>4. /\ workspace' = workspace /\ row' = row /\ local' = local
      /\ call' = call /\ listed' = listed /\ faults' = faults
  BY DEF WriteFile
<1>5. /\ file' \in [Paths -> Contents \cup {Nothing}]
      /\ file'[f] = c
      /\ \A g \in Paths \ {f} : file'[g] = file[g]
  BY <1>2, <1>3
<1>6. c # Nothing
  BY ArtifactsAssumption
<1>7. ArtTypeOK'
  BY <1>1, <1>4, <1>5 DEF ArtTypeOK
<1>8. ASSUME NEW p \in Processes PROVE CallOK(call[p])'
  <2>1. PICK k \in Calls : k = call[p]
    BY <1>1 DEF ArtTypeOK, Calls
  <2>2. CallOK(k)
    BY <1>1, <2>1 DEF Grounded
  <2>3. \A g \in Paths : file[g] # Nothing => file'[g] # Nothing
    BY <1>5, <1>6
  <2>4. listed \subseteq listed'
    BY <1>4
  <2>5. CallOK(k)'
    BY <1>1, <2>2, <2>3, <2>4, CallStaysOK
  <2>6. call'[p] = k
    BY <1>4, <2>1
  <2> QED
    BY <2>5, <2>6 DEF CallOK
<1>9. ASSUME NEW g \in Paths PROVE FileOK(g)'
  BY <1>1, <1>3, <1>4, <1>5, <1>6 DEF Grounded, FileOK
<1> QED
  BY <1>7, <1>8, <1>9 DEF Base, Grounded

(* A step of one gateway's call that keeps what was known: only its own new
   call has to be looked at. *)
LEMMA ProcessBase ==
    ASSUME Base, NEW p \in Processes, NEW next \in Calls,
           call' = [call EXCEPT ![p] = next], CallOK(next)',
           workspace' = workspace, file' = file, faults' \in 0..MaxFaults,
           row' \in [Paths -> [digest: Contents \cup {Nothing},
                               fetched: Destinations \cup {Nothing}]],
           local' \in [Destinations -> Contents \cup {Nothing, Torn}],
           listed \subseteq listed', listed' \subseteq Contents,
           \A f \in Paths : row'[f].digest = row[f].digest
              \/ (file[f] # Nothing /\ row'[f].digest \in listed')
    PROVE  Base'
<1>1. ArtTypeOK /\ Grounded
  BY DEF Base
<1>2. /\ call' \in [Processes -> Calls] /\ call'[p] = next
      /\ \A q \in Processes \ {p} : call'[q] = call[q]
  BY <1>1, CallMoves
<1>3. ArtTypeOK'
  BY <1>1, <1>2 DEF ArtTypeOK, Calls
<1>4. ASSUME NEW q \in Processes PROVE CallOK(call[q])'
  <2>1. CASE q = p
    BY <1>2, <2>1 DEF CallOK
  <2>2. CASE q # p
    <3>1. PICK k \in Calls : k = call[q]
      BY <1>1 DEF ArtTypeOK, Calls
    <3>2. CallOK(k)
      BY <1>1, <3>1 DEF Grounded
    <3>3. \A f \in Paths : file[f] # Nothing => file'[f] # Nothing
      OBVIOUS
    <3>4. CallOK(k)'
      BY <1>1, <3>2, <3>3, CallStaysOK
    <3>5. call'[q] = k
      BY <1>2, <2>2, <3>1
    <3> QED
      BY <3>4, <3>5 DEF CallOK
  <2> QED
    BY <2>1, <2>2
<1>5. ASSUME NEW f \in Paths PROVE FileOK(f)'
  BY <1>1 DEF Grounded, FileOK
<1> QED
  BY <1>3, <1>4, <1>5 DEF Base, Grounded

(* What is known of a gateway inside a listing or a fetch. *)
LEMMA CallInHand ==
    ASSUME Base, NEW p \in Processes
    PROVE  /\ call[p] \in Calls
           /\ CallOK(call[p])
           /\ call[p].op \in ListOps => call[p] \in Listings
           /\ call[p].op \in FetchOps =>
                 /\ call[p] \in Fetches
                 /\ call[p].path \in Paths /\ call[p].to \in Destinations
                 /\ call[p].digest \in listed /\ call[p].digest \in Contents
                 /\ file[call[p].path] \in Contents
<1>1. call[p] \in Calls /\ CallOK(call[p])
  BY DEF Base, ArtTypeOK, Calls, Grounded
<1>2. ASSUME call[p].op \in FetchOps
      PROVE  /\ call[p] \in Fetches
             /\ call[p].path \in Paths /\ call[p].to \in Destinations
             /\ call[p].digest \in listed /\ call[p].digest \in Contents
             /\ file[call[p].path] \in Contents
  <2>1. call[p] \in Fetches
    BY <1>1, <1>2, CallKinds
  <2>2. call[p].path \in Paths /\ call[p].to \in Destinations
        /\ call[p].digest \in Contents
    BY <2>1 DEF Fetches
  <2> QED
    BY <1>1, <1>2, <2>1, <2>2 DEF CallOK, Base, ArtTypeOK
<1> QED
  BY <1>1, <1>2, CallKinds

(* The parts of Base a step that changes only the call has to keep. *)
LEMMA CallBase ==
    ASSUME Base, NEW p \in Processes, NEW next \in Calls,
           call' = [call EXCEPT ![p] = next], CallOK(next),
           workspace' = workspace, file' = file, row' = row, local' = local,
           listed' = listed, faults' \in 0..MaxFaults
    PROVE  Base'
<1>1. ArtTypeOK
  BY DEF Base
<1>2. CallOK(next)'
  BY DEF CallOK
<1> QED
  BY <1>1, <1>2, ProcessBase DEF ArtTypeOK
-----------------------------------------------------------------------------
LEMMA FetchOpKept ==
    ASSUME NEW k \in Calls, k.op \in FetchOps, NEW op \in FetchOps
    PROVE  /\ [k EXCEPT !.op = op] \in Calls
           /\ [k EXCEPT !.op = op].op = op
           /\ [k EXCEPT !.op = op].path = k.path
           /\ [k EXCEPT !.op = op].to = k.to
           /\ [k EXCEPT !.op = op].digest = k.digest
<1>1. k \in Fetches
  BY CallKinds
<1> QED
  BY <1>1 DEF Calls, Fetches, FetchOps

LEMMA ReturnBase ==
    ASSUME Base, NEW p \in Processes, Return(p),
           workspace' = workspace, file' = file, faults' \in 0..MaxFaults,
           row' \in [Paths -> [digest: Contents \cup {Nothing},
                               fetched: Destinations \cup {Nothing}]],
           local' \in [Destinations -> Contents \cup {Nothing, Torn}],
           listed \subseteq listed', listed' \subseteq Contents,
           \A f \in Paths : row'[f].digest = row[f].digest
              \/ (file[f] # Nothing /\ row'[f].digest \in listed')
    PROVE  Base'
<1>1. PICK next \in Calls : next = Idle
  BY DEF Calls
<1>2. call' = [call EXCEPT ![p] = next]
  BY <1>1 DEF Return, Goto
<1>3. CallOK(next)'
  BY <1>1 DEF CallOK, Idle, ListOps, FetchOps
<1> QED
  BY <1>2, <1>3, ProcessBase

LEMMA ListBase ==
    ASSUME Base, NEW p \in Processes, BeginList(p) \/ ReadFile(p)
    PROVE  Base'
<1>1. ArtTypeOK /\ FetchOps \cap ListOps = {}
  BY DEF Base, FetchOps, ListOps
<1>2. /\ workspace' = workspace /\ file' = file /\ row' = row
      /\ local' = local /\ listed' = listed /\ faults' \in 0..MaxFaults
  BY <1>1 DEF BeginList, ReadFile, ArtTypeOK
<1>3. CASE call' = call
  BY <1>2, <1>3 DEF Base, Grounded, ArtTypeOK, FileOK, CallOK
<1>4. CASE BeginList(p) /\ call' # call
  <2>1. PICK next : next = [op |-> "read", todo |-> Found, found |-> {}]
    OBVIOUS
  <2>2. call' = [call EXCEPT ![p] = next]
    BY <1>4, <2>1 DEF BeginList, Goto
  <2>3. next \in Calls
    BY <2>1 DEF Calls, Listings, Found
  <2>4. \A f \in Found : file[f] # Nothing
    BY DEF Found
  <2>5. CallOK(next)
    BY <2>1, <2>4 DEF CallOK, FetchOps
  <2> QED
    BY <1>2, <2>2, <2>3, <2>5, CallBase
<1>5. CASE ReadFile(p)
  <2>1. PICK k \in Calls : k = call[p]
    BY CallInHand
  <2>2. k \in Listings /\ CallOK(k) /\ k.op \in ListOps
    BY <1>5, <2>1, CallInHand DEF ReadFile, At, ListOps
  <2>3. PICK f \in k.todo :
          call' = [call EXCEPT ![p] =
             [op |-> IF k.todo \ {f} = {} THEN "record" ELSE "read",
              todo |-> k.todo \ {f}, found |-> k.found \cup {file[f]}]]
    BY <1>5, <2>1 DEF ReadFile, Goto
  <2>4. PICK c : c = file[f]
    OBVIOUS
  <2>5. f \in Paths /\ c # Nothing /\ c \in Contents /\ c.path = f
    <3>1. f \in Paths /\ file[f] # Nothing
      BY <2>2, <2>3 DEF CallOK, Listings
    <3> QED
      BY <3>1, <2>4, <1>1 DEF Base, Grounded, FileOK, ArtTypeOK
  <2>6. PICK next : next =
             [op |-> IF k.todo \ {f} = {} THEN "record" ELSE "read",
              todo |-> k.todo \ {f}, found |-> k.found \cup {c}]
    OBVIOUS
  <2>7. next \in Listings /\ next.op \in ListOps
    BY <2>2, <2>5, <2>6 DEF Listings, ListOps
  <2>8. CallOK(next)
    BY <2>2, <2>4, <2>5, <2>6, <2>7, <1>1 DEF CallOK
  <2>9. call' = [call EXCEPT ![p] = next] /\ next \in Calls
    BY <2>3, <2>4, <2>6, <2>7 DEF Calls
  <2> QED
    BY <1>2, <2>8, <2>9, CallBase
<1> QED
  BY <1>3, <1>4, <1>5

LEMMA RecordBase ==
    ASSUME Base, NEW p \in Processes, Record(p)
    PROVE  Base'
<1>1. ArtTypeOK /\ FetchOps \cap ListOps = {}
  BY DEF Base, FetchOps, ListOps
<1>2. PICK k \in Calls : k = call[p]
  BY CallInHand
<1>3. k \in Listings /\ CallOK(k) /\ k.op \in ListOps
  BY <1>2, CallInHand DEF Record, At, ListOps
<1>4. PICK c \in k.found :
        /\ row' = [row EXCEPT ![c.path].digest = c]
        /\ listed' = listed \cup {c}
        /\ IF k.found = {c} THEN Return(p)
           ELSE Goto(p, [k EXCEPT !.found = @ \ {c}])
  BY <1>2 DEF Record
<1>5. c \in Contents /\ c.path \in Paths /\ file[c.path] # Nothing
  BY <1>3, <1>4, ContentShape DEF CallOK, Listings
<1>6. /\ workspace' = workspace /\ file' = file /\ local' = local
      /\ faults' \in 0..MaxFaults
  BY <1>1 DEF Record, ArtTypeOK
<1>7. /\ row' \in [Paths -> [digest: Contents \cup {Nothing},
                             fetched: Destinations \cup {Nothing}]]
      /\ \A f \in Paths : row'[f].digest = row[f].digest
            \/ (file[f] # Nothing /\ row'[f].digest \in listed')
  <2>1. PICK f \in Paths : f = c.path
    BY <1>5
  <2>2. row \in [Paths -> [digest: Contents \cup {Nothing},
                           fetched: Destinations \cup {Nothing}]]
    BY <1>1 DEF ArtTypeOK
  <2>3. /\ row' = [row EXCEPT ![f] = [row[f] EXCEPT !.digest = c]]
        /\ [row[f] EXCEPT !.digest = c] \in
              [digest: Contents \cup {Nothing},
               fetched: Destinations \cup {Nothing}]
        /\ [row[f] EXCEPT !.digest = c].digest = c
    BY <1>4, <1>5, <2>1, <2>2
  <2>4. c \in listed'
    BY <1>4
  <2> QED
    BY <1>5, <2>1, <2>2, <2>3, <2>4
<1>8. listed \subseteq listed' /\ listed' \subseteq Contents
      /\ local' \in [Destinations -> Contents \cup {Nothing, Torn}]
  BY <1>1, <1>4, <1>5, <1>6 DEF ArtTypeOK
<1>9. CASE k.found = {c}
  BY <1>4, <1>6, <1>7, <1>8, <1>9, ReturnBase
<1>10. CASE k.found # {c}
  <2>1. PICK next : next = [k EXCEPT !.found = @ \ {c}]
    OBVIOUS
  <2>2. /\ next \in Listings /\ next.op = k.op /\ next.todo = k.todo
        /\ next.found \subseteq k.found
    BY <1>3, <2>1 DEF Listings
  <2>3. call' = [call EXCEPT ![p] = next] /\ next \in Calls
    BY <1>4, <1>10, <2>1, <2>2 DEF Goto, Calls
  <2>4. CallOK(next)'
    BY <1>1, <1>3, <1>6, <2>2 DEF CallOK
  <2> QED
    BY <1>6, <1>7, <1>8, <2>3, <2>4, ProcessBase
<1> QED
  BY <1>9, <1>10

LEMMA BeginFetchBase ==
    ASSUME Base, NEW p \in Processes, NEW f \in Paths, NEW d \in Destinations,
           BeginFetch(p, f, d)
    PROVE  Base'
<1>1. ArtTypeOK /\ FetchOps \cap ListOps = {}
  BY DEF Base, FetchOps, ListOps
<1>2. PICK c : c = row[f].digest
  OBVIOUS
<1>3. c \in Contents /\ c \in listed /\ file[f] # Nothing
  BY <1>1, <1>2 DEF BeginFetch, Base, Grounded, FileOK, ArtTypeOK
<1>4. PICK next : next = [op |-> "copy", path |-> f, to |-> d, digest |-> c,
                          source |-> c]
  OBVIOUS
<1>5. next \in Fetches /\ next.op = "copy" /\ next.path = f /\ next.digest = c
  BY <1>3, <1>4 DEF Fetches
<1>6. CallOK(next)
  BY <1>3, <1>5 DEF CallOK, ListOps
<1>7. call' = [call EXCEPT ![p] = next] /\ next \in Calls
  BY <1>2, <1>4, <1>5 DEF BeginFetch, Goto, Calls
<1>8. /\ workspace' = workspace /\ file' = file /\ row' = row
      /\ local' = local /\ listed' = listed /\ faults' \in 0..MaxFaults
  BY <1>1 DEF BeginFetch, ArtTypeOK
<1> QED
  BY <1>6, <1>7, <1>8, CallBase

(* A fetch goes on to its next operation. *)
LEMMA FetchOnBase ==
    ASSUME Base, NEW p \in Processes, call[p].op \in FetchOps,
           NEW op \in FetchOps, NEW source \in Contents,
           call' = [call EXCEPT ![p] =
              [call[p] EXCEPT !.op = op, !.source = source]],
           workspace' = workspace, file' = file, row' = row,
           listed' = listed, faults' \in 0..MaxFaults,
           local' \in [Destinations -> Contents \cup {Nothing, Torn}]
    PROVE  Base'
<1>1. ArtTypeOK /\ FetchOps \cap ListOps = {}
  BY DEF Base, FetchOps, ListOps
<1>2. PICK k \in Calls : k = call[p]
  BY CallInHand
<1>3. k \in Fetches /\ CallOK(k) /\ k.op \in FetchOps
  BY <1>2, CallInHand
<1>4. PICK next : next = [k EXCEPT !.op = op, !.source = source]
  OBVIOUS
<1>5. /\ next \in Fetches /\ next.op = op /\ next.path = k.path
      /\ next.digest = k.digest
  BY <1>3, <1>4 DEF Fetches, FetchOps
<1>6. CallOK(next)'
  BY <1>1, <1>3, <1>5 DEF CallOK
<1>7. call' = [call EXCEPT ![p] = next] /\ next \in Calls
  BY <1>2, <1>4, <1>5 DEF Calls
<1>8. row \in [Paths -> [digest: Contents \cup {Nothing},
                         fetched: Destinations \cup {Nothing}]]
      /\ listed \subseteq Contents
  BY <1>1 DEF ArtTypeOK
<1> QED
  BY <1>6, <1>7, <1>8, ProcessBase

LEMMA FetchStepBase ==
    ASSUME Base, NEW p \in Processes,
           StartCopy(p) \/ EndCopy(p) \/ Check(p) \/ Mark(p) \/ Unlink(p)
    PROVE  Base'
<1>1. ArtTypeOK
  BY DEF Base
<1>2. call[p].op \in FetchOps
  BY DEF StartCopy, EndCopy, Check, Mark, Unlink, At, FetchOps
<1>3. /\ call[p] \in Fetches /\ call[p].path \in Paths
      /\ call[p].to \in Destinations /\ file[call[p].path] \in Contents
      /\ call[p].source \in Contents
  BY <1>2, CallInHand DEF Fetches
<1>4. /\ local \in [Destinations -> Contents \cup {Nothing, Torn}]
      /\ row \in [Paths -> [digest: Contents \cup {Nothing},
                            fetched: Destinations \cup {Nothing}]]
      /\ listed \subseteq Contents /\ faults \in 0..MaxFaults
  BY <1>1 DEF ArtTypeOK
<1>5. /\ workspace' = workspace /\ file' = file
      /\ listed' = listed /\ faults' = faults
  BY DEF StartCopy, EndCopy, Check, Mark, Unlink
<1>6. ASSUME NEW op \in FetchOps, GotoOp(p, op)
      PROVE  call' = [call EXCEPT ![p] =
               [call[p] EXCEPT !.op = op, !.source = call[p].source]]
  <2>1. call' = [call EXCEPT ![p] = [call[p] EXCEPT !.op = op]]
    BY <1>6, <1>1 DEF GotoOp, ArtTypeOK
  <2>2. [call[p] EXCEPT !.op = op] =
          [call[p] EXCEPT !.op = op, !.source = call[p].source]
    BY <1>3 DEF Fetches
  <2> QED
    BY <2>1, <2>2
<1>7. CASE StartCopy(p)
  <2>1. /\ row' = row
        /\ local' = [local EXCEPT ![call[p].to] = Torn]
        /\ call' = [call EXCEPT ![p] =
             [call[p] EXCEPT !.op = "copying", !.source = file[call[p].path]]]
    BY <1>7 DEF StartCopy, Goto
  <2>2. local' \in [Destinations -> Contents \cup {Nothing, Torn}]
    BY <1>3, <1>4, <2>1
  <2>3. "copying" \in FetchOps
    BY DEF FetchOps
  <2> QED
    BY <1>2, <1>3, <1>4, <1>5, <2>1, <2>2, <2>3, FetchOnBase
<1>8. CASE EndCopy(p)
  <2>1. CopiedAs(p) \subseteq Contents \cup {Nothing, Torn}
    BY <1>3 DEF CopiedAs
  <2>2. PICK content \in CopiedAs(p) :
           local' = [local EXCEPT ![call[p].to] = content]
    BY <1>8 DEF EndCopy
  <2>3. local' \in [Destinations -> Contents \cup {Nothing, Torn}]
    BY <1>3, <1>4, <2>1, <2>2
  <2>4. "check" \in FetchOps
    BY DEF FetchOps
  <2>5. GotoOp(p, "check") /\ row' = row
    BY <1>8 DEF EndCopy
  <2> QED
    BY <1>2, <1>3, <1>4, <1>5, <1>6, <2>3, <2>4, <2>5, FetchOnBase
<1>9. CASE Check(p)
  <2>1. local' = local /\ row' = row
    BY <1>9 DEF Check
  <2>2. CASE Return(p)
    BY <1>4, <1>5, <2>1, <2>2, ReturnBase
  <2>3. ASSUME NEW op \in {"mark", "unlink"}, GotoOp(p, op) PROVE Base'
    <3>1. op \in FetchOps
      BY DEF FetchOps
    <3> QED
      BY <1>2, <1>3, <1>4, <1>5, <1>6, <2>1, <2>3, <3>1, FetchOnBase
  <2> QED
    BY <1>9, <2>2, <2>3 DEF Check
<1>10. CASE Mark(p)
  <2>1. /\ Return(p) /\ local' = local
        /\ row' = [row EXCEPT ![call[p].path] =
                      [row[call[p].path] EXCEPT !.fetched = call[p].to]]
    BY <1>10, <1>4 DEF Mark
  <2>2. PICK f \in Paths, d \in Destinations : f = call[p].path /\ d = call[p].to
    BY <1>3
  <2>3. /\ [row[f] EXCEPT !.fetched = d] \in
              [digest: Contents \cup {Nothing},
               fetched: Destinations \cup {Nothing}]
        /\ [row[f] EXCEPT !.fetched = d].digest = row[f].digest
    BY <1>4
  <2>4. /\ row' \in [Paths -> [digest: Contents \cup {Nothing},
                               fetched: Destinations \cup {Nothing}]]
        /\ \A g \in Paths : row'[g].digest = row[g].digest
    BY <1>4, <2>1, <2>2, <2>3
  <2> QED
    BY <1>4, <1>5, <2>1, <2>4, ReturnBase
<1>11. CASE Unlink(p)
  <2>1. /\ Return(p) /\ row' = row
        /\ local' = [local EXCEPT ![call[p].to] = Nothing]
    BY <1>11 DEF Unlink
  <2>2. local' \in [Destinations -> Contents \cup {Nothing, Torn}]
    BY <1>3, <1>4, <2>1
  <2> QED
    BY <1>4, <1>5, <2>1, <2>2, ReturnBase
<1> QED
  BY <1>7, <1>8, <1>9, <1>10, <1>11

LEMMA FailBase ==
    ASSUME Base, NEW p \in Processes, Fail(p)
    PROVE  Base'
<1>1. ArtTypeOK
  BY DEF Base
<1>2. faults \in 0..MaxFaults /\ faults < MaxFaults /\ faults' = faults + 1
  BY <1>1 DEF ArtTypeOK, Fail
<1>3. faults' \in 0..MaxFaults
  BY <1>2, ArtifactsAssumption
<1>4. /\ Return(p) /\ workspace' = workspace /\ file' = file
      /\ row' = row /\ local' = local /\ listed' = listed
  BY DEF Fail
<1> QED
  BY <1>1, <1>3, <1>4, ReturnBase DEF ArtTypeOK

LEMMA StepBase == Base /\ [ArtNext]_vars => Base'
<1> SUFFICES ASSUME Base, [ArtNext]_vars PROVE Base'
  OBVIOUS
<1>1. CASE \E f \in Paths : WriteFile(f)
  BY <1>1, WriteBase
<1>2. ASSUME NEW p \in Processes, BeginList(p) \/ Proceed(p) \/ Fail(p)
      PROVE  Base'
  BY <1>2, ListBase, RecordBase, FetchStepBase, FailBase DEF Proceed
<1>3. ASSUME NEW p \in Processes,
             \E f \in Paths, d \in Destinations : BeginFetch(p, f, d)
      PROVE  Base'
  BY <1>3, BeginFetchBase
<1>4. CASE UNCHANGED vars
  BY <1>4 DEF vars, Base, ArtTypeOK, Grounded, CallOK, FileOK
<1> QED
  BY <1>1, <1>2, <1>3, <1>4 DEF ArtNext

LEMMA BaseHolds == ArtSpec => []Base
BY InitBase, StepBase, PTL DEF ArtSpec

(* Rows, copies and calls keep their types: what is recorded as a path is
   one a client has chosen, what is recorded as a digest is one. *)
THEOREM ArtTypeCorrect == ArtSpec => []ArtTypeOK
<1>1. Base => ArtTypeOK
  BY DEF Base
<1> QED
  BY <1>1, BaseHolds, PTL

-----------------------------------------------------------------------------
(* Unverified copies nobody is fetching *)

Targets == {call[p].to : p \in Fetching}

Left == Unverified \ Targets

LeftInv == Cardinality(Left) <= faults

LEMMA FiniteCopies ==
    ASSUME NEW S \in SUBSET Destinations
    PROVE  IsFiniteSet(S) /\ Cardinality(S) \in Nat
BY ArtifactsAssumption, FS_Subset, FS_CardinalityType

(* A step that leaves behind no copy but those left before. *)
LEMMA NoneLeft ==
    ASSUME Base, Base', LeftInv, Left' \subseteq Left, faults' = faults
    PROVE  LeftInv'
<1>1. Left \subseteq Destinations
  BY DEF Left, Unverified
<1>2. IsFiniteSet(Left) /\ Cardinality(Left) \in Nat
  BY <1>1, FiniteCopies
<1>3. Cardinality(Left') <= Cardinality(Left) /\ Cardinality(Left') \in Nat
  BY <1>2, FS_Subset, FS_CardinalityType
<1>4. faults \in Nat
  BY ArtifactsAssumption DEF Base, ArtTypeOK
<1> QED
  BY <1>2, <1>3, <1>4 DEF LeftInv

(* What other gateways fetch is not affected by a step of p. *)
LEMMA OtherTargets ==
    ASSUME Base, NEW p \in Processes, NEW next \in Calls,
           call' = [call EXCEPT ![p] = next]
    PROVE  /\ Targets \subseteq Targets' \cup {call[p].to}
           /\ next.op \in {"copying", "check", "unlink"} => next.to \in Targets'
           /\ ~(p \in Fetching) => Targets \subseteq Targets'
<1>1. ArtTypeOK
  BY DEF Base
<1>2. /\ call'[p] = next
      /\ \A q \in Processes \ {p} : call'[q] = call[q]
  BY <1>1, CallMoves
<1>3. ASSUME NEW q \in Fetching, q # p PROVE call[q].to \in Targets'
  <2>1. q \in Fetching' /\ call'[q].to = call[q].to
    BY <1>2, <1>3 DEF Fetching
  <2> QED
    BY <2>1 DEF Targets
<1>4. Targets \subseteq Targets' \cup {call[p].to}
  BY <1>3 DEF Targets
<1>5. next.op \in {"copying", "check", "unlink"} => next.to \in Targets'
  BY <1>2 DEF Targets, Fetching
<1>6. ~(p \in Fetching) => Targets \subseteq Targets'
  BY <1>3 DEF Targets
<1> QED
  BY <1>4, <1>5, <1>6

(* A process returns, its copy being verified or gone. *)
LEMMA ReturnLeavesNothing ==
    ASSUME Base, Base', LeftInv, NEW p \in Processes, Return(p),
           Unverified' \subseteq Unverified, faults' = faults,
           ~(call[p].to \in Unverified')
    PROVE  LeftInv'
<1>1. PICK next \in Calls : next = Idle
  BY DEF Calls
<1>2. call' = [call EXCEPT ![p] = next]
  BY <1>1 DEF Return, Goto
<1>3. Targets \subseteq Targets' \cup {call[p].to}
  BY <1>2, OtherTargets
<1>4. Left' \subseteq Left
  BY <1>3 DEF Left
<1> QED
  BY <1>4, NoneLeft

(* A step inside a fetch, or into its copying, touches only its target. *)
LEMMA FetchGoesOn ==
    ASSUME Base, Base', LeftInv, NEW p \in Processes, NEW next \in Calls,
           call' = [call EXCEPT ![p] = next], faults' = faults,
           next.op \in {"copying", "check", "unlink"}, next.to = call[p].to,
           Unverified' \subseteq Unverified \cup {call[p].to}
    PROVE  LeftInv'
<1>1. Targets \subseteq Targets' \cup {call[p].to} /\ next.to \in Targets'
  BY OtherTargets
<1>2. Left' \subseteq Left
  BY <1>1 DEF Left
<1> QED
  BY <1>2, NoneLeft

(* Outside of a fetch's copy, no copy changes. *)
LEMMA ElsewhereStep ==
    ASSUME Base, Base', LeftInv, NEW p \in Processes, NEW next \in Calls,
           call' = [call EXCEPT ![p] = next], faults' = faults,
           ~(p \in Fetching), local' = local, listed \subseteq listed'
    PROVE  LeftInv'
<1>1. Targets \subseteq Targets'
  BY OtherTargets
<1>2. Unverified' \subseteq Unverified
  BY DEF Unverified
<1>3. Left' \subseteq Left
  BY <1>1, <1>2 DEF Left
<1> QED
  BY <1>3, NoneLeft

(* Only the content of destination d changes. *)
LEMMA OneCopy ==
    ASSUME Base, NEW d \in Destinations, NEW content,
           local' = [local EXCEPT ![d] = content], listed' = listed
    PROVE  /\ Unverified' \subseteq Unverified \cup {d}
           /\ content = Nothing => ~(d \in Unverified')
           /\ content = Nothing => Unverified' \subseteq Unverified
<1>1. local \in [Destinations -> Contents \cup {Nothing, Torn}]
  BY DEF Base, ArtTypeOK
<1>2. local'[d] = content /\ \A e \in Destinations \ {d} : local'[e] = local[e]
  BY <1>1
<1> QED
  BY <1>2 DEF Unverified

LEMMA FailLeavesOne ==
    ASSUME Base, Base', LeftInv, NEW p \in Processes, Fail(p)
    PROVE  LeftInv'
<1>1. PICK next \in Calls : next = Idle
  BY DEF Calls
<1>2. call' = [call EXCEPT ![p] = next] /\ local' = local /\ listed' = listed
      /\ faults' = faults + 1
  BY <1>1 DEF Fail, Return, Goto
<1>3. PICK d : d = call[p].to
  OBVIOUS
<1>4. Targets \subseteq Targets' \cup {d}
  BY <1>2, <1>3, OtherTargets
<1>5. Left' \subseteq Left \cup {d}
  BY <1>2, <1>4 DEF Left, Unverified
<1>6. Left \subseteq Destinations /\ Left' \subseteq Destinations
  BY DEF Left, Unverified
<1>7. PICK n \in Nat : n = Cardinality(Left)
  BY <1>6, FiniteCopies
<1>8. IsFiniteSet(Left \cup {d}) /\ Cardinality(Left \cup {d}) \in {n, n + 1}
  BY <1>6, <1>7, FiniteCopies, FS_AddElement
<1>9. PICK m \in Nat : m = Cardinality(Left')
  BY <1>8, <1>5, FS_Subset, FS_CardinalityType
<1>10. m <= Cardinality(Left \cup {d})
  BY <1>5, <1>8, <1>9, FS_Subset
<1>11. n <= faults /\ faults \in Nat
  BY <1>7, ArtifactsAssumption DEF LeftInv, Base, ArtTypeOK
<1>12. m <= faults + 1
  BY <1>8, <1>10, <1>11
<1> QED
  BY <1>2, <1>9, <1>12 DEF LeftInv

LEMMA FetchStepLeft ==
    ASSUME Base, Base', LeftInv, NEW p \in Processes,
           StartCopy(p) \/ EndCopy(p) \/ Check(p) \/ Mark(p) \/ Unlink(p)
    PROVE  LeftInv'
<1>1. ArtTypeOK
  BY DEF Base
<1>2. call[p].op \in FetchOps
  BY DEF StartCopy, EndCopy, Check, Mark, Unlink, At, FetchOps
<1>3. PICK k \in Calls : k = call[p]
  BY CallInHand
<1>4. k \in Fetches /\ k.to \in Destinations /\ k.digest \in listed
  BY <1>2, <1>3, CallInHand
<1>5. listed' = listed /\ faults' = faults
  BY DEF StartCopy, EndCopy, Check, Mark, Unlink
<1>6. ASSUME NEW op \in FetchOps, GotoOp(p, op)
      PROVE  \E next \in Calls :
                /\ call' = [call EXCEPT ![p] = next]
                /\ next.op = op /\ next.to = k.to
  <2>1. PICK next : next = [k EXCEPT !.op = op]
    OBVIOUS
  <2>2. call' = [call EXCEPT ![p] = next]
    BY <1>1, <1>3, <1>6, <2>1 DEF GotoOp, ArtTypeOK
  <2>3. next \in Fetches /\ next.op = op /\ next.to = k.to
    BY <1>4, <2>1 DEF Fetches, FetchOps
  <2> QED
    BY <2>2, <2>3 DEF Calls
<1>7. CASE StartCopy(p)
  <2>1. PICK c \in Contents : c = file[k.path]
    BY <1>2, <1>3, CallInHand
  <2>2. PICK next : next = [k EXCEPT !.op = "copying", !.source = c]
    OBVIOUS
  <2>3. next \in Calls /\ next.op = "copying" /\ next.to = k.to
    BY <1>4, <2>2 DEF Fetches, Calls
  <2>4. call' = [call EXCEPT ![p] = next]
        /\ local' = [local EXCEPT ![k.to] = Torn]
    BY <1>3, <1>7, <2>1, <2>2 DEF StartCopy, Goto
  <2>5. Unverified' \subseteq Unverified \cup {k.to}
    BY <1>4, <1>5, <2>4, OneCopy
  <2> QED
    BY <1>3, <1>5, <2>3, <2>4, <2>5, FetchGoesOn
<1>8. CASE EndCopy(p)
  <2>1. PICK content : local' = [local EXCEPT ![k.to] = content]
    BY <1>3, <1>8 DEF EndCopy
  <2>2. Unverified' \subseteq Unverified \cup {k.to}
    BY <1>4, <1>5, <2>1, OneCopy
  <2>3. PICK next \in Calls : /\ call' = [call EXCEPT ![p] = next]
                              /\ next.op = "check" /\ next.to = k.to
    BY <1>6, <1>8 DEF EndCopy, FetchOps
  <2> QED
    BY <1>3, <1>5, <2>2, <2>3, FetchGoesOn
<1>9. CASE Check(p)
  <2>1. local' = local
    BY <1>9 DEF Check
  <2>2. Unverified' = Unverified
    BY <1>5, <2>1 DEF Unverified
  <2>3. CASE local[k.to] = Nothing /\ Return(p)
    <3>1. ~(k.to \in Unverified)
      BY <2>3 DEF Unverified
    <3> QED
      BY <1>3, <1>5, <2>2, <2>3, <3>1, ReturnLeavesNothing
  <2>4. CASE local[k.to] = k.digest /\ GotoOp(p, "mark")
    <3>1. PICK next \in Calls : /\ call' = [call EXCEPT ![p] = next]
                                /\ next.op = "mark" /\ next.to = k.to
      BY <1>6, <2>4 DEF FetchOps
    <3>2. ~(k.to \in Unverified)
      BY <1>4, <2>4 DEF Unverified
    <3>3. Targets \subseteq Targets' \cup {k.to}
      BY <1>3, <3>1, OtherTargets
    <3>4. Left' \subseteq Left
      BY <2>2, <3>2, <3>3 DEF Left
    <3> QED
      BY <1>5, <3>4, NoneLeft
  <2>5. CASE GotoOp(p, "unlink")
    <3>1. PICK next \in Calls : /\ call' = [call EXCEPT ![p] = next]
                                /\ next.op = "unlink" /\ next.to = k.to
      BY <1>6, <2>5 DEF FetchOps
    <3> QED
      BY <1>3, <1>5, <2>2, <3>1, FetchGoesOn
  <2> QED
    BY <1>3, <1>9, <2>3, <2>4, <2>5 DEF Check
<1>10. CASE Mark(p)
  <2>1. PICK next \in Calls : next = Idle
    BY DEF Calls
  <2>2. call' = [call EXCEPT ![p] = next] /\ local' = local
    BY <1>10, <2>1 DEF Mark, Return, Goto
  <2>3. ~(p \in Fetching)
    BY <1>10 DEF Mark, At, Fetching
  <2> QED
    BY <1>5, <2>2, <2>3, ElsewhereStep
<1>11. CASE Unlink(p)
  <2>1. Return(p) /\ local' = [local EXCEPT ![k.to] = Nothing]
    BY <1>3, <1>11 DEF Unlink
  <2>2. Unverified' \subseteq Unverified /\ ~(k.to \in Unverified')
    BY <1>4, <1>5, <2>1, OneCopy
  <2> QED
    BY <1>3, <1>5, <2>1, <2>2, ReturnLeavesNothing
<1> QED
  BY <1>7, <1>8, <1>9, <1>10, <1>11

LEMMA ListStepLeft ==
    ASSUME Base, Base', LeftInv, NEW p \in Processes,
           \/ BeginList(p) \/ ReadFile(p) \/ Record(p)
           \/ \E f \in Paths, d \in Destinations : BeginFetch(p, f, d)
    PROVE  LeftInv'
<1>1. local' = local /\ listed \subseteq listed' /\ faults' = faults
  BY DEF BeginList, ReadFile, Record, BeginFetch
<1>2. ~(p \in Fetching)
  BY DEF BeginList, ReadFile, Record, BeginFetch, At, Fetching
<1>3. call' = call \/ \E next : call' = [call EXCEPT ![p] = next]
  BY DEF BeginList, ReadFile, Record, BeginFetch, Return, Goto
<1>4. CASE call' = call
  <2>1. Left' \subseteq Left
    BY <1>1, <1>4 DEF Left, Unverified, Targets, Fetching
  <2> QED
    BY <1>1, <2>1, NoneLeft
<1>5. ASSUME NEW next, call' = [call EXCEPT ![p] = next] PROVE LeftInv'
  <2>1. call'[p] = next /\ call'[p] \in Calls
    BY <1>5 DEF Base, ArtTypeOK, Calls
  <2> QED
    BY <1>1, <1>2, <1>5, <2>1, ElsewhereStep
<1> QED
  BY <1>3, <1>4, <1>5

LEMMA StepLeft == Base /\ Base' /\ LeftInv /\ [ArtNext]_vars => LeftInv'
<1> SUFFICES ASSUME Base, Base', LeftInv, [ArtNext]_vars PROVE LeftInv'
  OBVIOUS
<1>1. CASE UNCHANGED vars \/ \E f \in Paths : WriteFile(f)
  <2>1. local' = local /\ listed' = listed /\ call' = call /\ faults' = faults
    BY <1>1 DEF vars, WriteFile
  <2>2. Left' \subseteq Left
    BY <2>1 DEF Left, Unverified, Targets, Fetching
  <2> QED
    BY <2>1, <2>2, NoneLeft
<1>2. ASSUME NEW p \in Processes,
             \/ BeginList(p) \/ Proceed(p)
             \/ \E f \in Paths, d \in Destinations : BeginFetch(p, f, d)
      PROVE  LeftInv'
  BY <1>2, ListStepLeft, FetchStepLeft DEF Proceed
<1>3. ASSUME NEW p \in Processes, Fail(p) PROVE LeftInv'
  BY <1>3, FailLeavesOne
<1> QED
  BY <1>1, <1>2, <1>3 DEF ArtNext

(* Of the files at the destinations, those never verified are being fetched,
   or are left from a fetch that was broken off (coordinator.py:167-171). *)
THEOREM UnverifiedAccounted == ArtSpec => []UnverifiedBounded
<1>1. ArtInit => LeftInv
  <2> SUFFICES ASSUME ArtInit PROVE LeftInv
    OBVIOUS
  <2>1. Left = {} /\ faults = 0
    BY DEF ArtInit, Left, Unverified
  <2> QED
    BY <2>1, FS_EmptySet DEF LeftInv
<1>2. Base /\ Base' /\ LeftInv /\ [ArtNext]_vars => LeftInv'
  BY StepLeft
<1>3. Base /\ LeftInv => UnverifiedBounded
  <2> SUFFICES ASSUME Base, LeftInv PROVE UnverifiedBounded
    OBVIOUS
  <2>1. IsFiniteSet(Fetching)
    BY ArtifactsAssumption, FS_Subset DEF Fetching
  <2>2. PICK to : to = [p \in Fetching |-> call[p].to]
    OBVIOUS
  <2>3. to \in Surjection(Fetching, Targets)
    BY <2>2 DEF Surjection, Targets
  <2>4. IsFiniteSet(Targets) /\ Cardinality(Targets) <= Cardinality(Fetching)
    BY <2>1, <2>3, FS_Surjection
  <2>5. Left \subseteq Destinations /\ Unverified \subseteq Destinations
    BY DEF Left, Unverified
  <2>6. IsFiniteSet(Left) /\ IsFiniteSet(Unverified)
    BY <2>5, FiniteCopies
  <2>7. IsFiniteSet(Left \cup Targets) /\ IsFiniteSet(Left \cap Targets)
    BY <2>4, <2>6, FS_Union, FS_Subset
  <2>8. PICK l \in Nat : l = Cardinality(Left)
    BY <2>6, FS_CardinalityType
  <2>9. PICK n \in Nat : n = Cardinality(Targets)
    BY <2>4, FS_CardinalityType
  <2>10. PICK i \in Nat : i = Cardinality(Left \cap Targets)
    BY <2>7, FS_CardinalityType
  <2>11. Cardinality(Left \cup Targets) = l + n - i
    BY <2>4, <2>6, <2>8, <2>9, <2>10, FS_Union
  <2>12. PICK u \in Nat : u = Cardinality(Unverified)
    BY <2>6, FS_CardinalityType
  <2>13. Unverified \subseteq Left \cup Targets
    BY DEF Left
  <2>14. u <= l + n - i
    BY <2>7, <2>11, <2>12, <2>13, FS_Subset
  <2>15. PICK f \in Nat : f = Cardinality(Fetching)
    BY <2>1, FS_CardinalityType
  <2>16. n <= f /\ l <= faults /\ faults \in Nat
    BY <2>4, <2>8, <2>9, <2>15, ArtifactsAssumption DEF LeftInv, Base, ArtTypeOK
  <2>17. u <= faults + f
    BY <2>14, <2>16
  <2> QED
    BY <2>12, <2>15, <2>17 DEF UnverifiedBounded
<1> QED
  BY <1>1, <1>2, <1>3, BaseHolds, PTL DEF ArtSpec
=============================================================================
