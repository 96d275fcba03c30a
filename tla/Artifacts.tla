------------------------------ MODULE Artifacts ------------------------------
(***************************************************************************)
(* The results of one task: the files its command writes on the drone,     *)
(* the rows of the artifacts table that list them, and the copies clients  *)
(* fetch.  task_artifacts asks the agent for a listing and records it;     *)
(* fetch_artifact copies one file with scp, compares its digest with the   *)
(* one recorded when the fetch began, and marks the row or removes the     *)
(* copy.                                                                   *)
(*                                                                         *)
(* Several gateways may do so at once, on one database and one local file  *)
(* system, while the command goes on writing.  The digest of a content is  *)
(* the content itself.                                                     *)
(***************************************************************************)
EXTENDS Naturals, FiniteSets

CONSTANTS
    Processes,       \* gateways
    Collectors,      \* those whose client lists and fetches persistently
    Paths,           \* files the command writes
    Destinations,    \* local paths clients choose
    Workspaces,      \* of the task: "default", or "given" in its spec
    Versions,        \* bound: how often each file is written
    Nothing, Torn,   \* no file; a file with the content of none
    MaxFaults        \* bound: calls that are broken off

(* The content of a file once it has been written v times. *)
Contents == UNION {[path: {f}, version: 1..Versions[f]] : f \in Paths}

ASSUME ArtifactsAssumption ==
    /\ IsFiniteSet(Processes) /\ IsFiniteSet(Destinations)
    /\ Workspaces \subseteq {"default", "given"}
    /\ Versions \in [Paths -> Nat \ {0}] /\ MaxFaults \in Nat
    /\ Collectors \subseteq Processes
    /\ Nothing \notin Contents /\ Torn \notin Contents /\ Torn # Nothing
    /\ Nothing \notin Destinations

VARIABLES
    workspace,    \* where the command runs
    file,         \* file[f]: on the drone
    row,          \* row[f]: the digest and fetched_path recorded for f
    local,        \* local[d]: the copy at a destination
    call,         \* call[p]: the method p is in
    listed,       \* every digest ever recorded
    faults

vars == <<workspace, file, row, local, call, listed, faults>>

Idle == [op |-> "none"]

(* Reading the files of a listing; recording what was read. *)
Listings == [op: {"read", "record"}, todo: SUBSET Paths,
             found: SUBSET Contents]

Fetches == [op: {"copy", "copying", "check", "mark", "unlink"}, path: Paths,
            to: Destinations, digest: Contents, source: Contents]

At(p, op) == call[p].op = op

Goto(p, next) == call' = [call EXCEPT ![p] = next]

GotoOp(p, op) == call' = [call EXCEPT ![p].op = op]

Return(p) == Goto(p, Idle)

-----------------------------------------------------------------------------
(* The command of the task writes its files, in any order. *)
WriteFile(f) ==
    /\ \/ /\ file[f] = Nothing
          /\ file' = [file EXCEPT ![f] = [path |-> f, version |-> 1]]
       \/ /\ file[f] # Nothing /\ file[f].version < Versions[f]
          /\ file' = [file EXCEPT ![f].version = @ + 1]
    /\ UNCHANGED <<workspace, row, local, call, listed, faults>>

-----------------------------------------------------------------------------
(* task_artifacts *)

(* The files the agent finds: it is not told the workspace of the task and
   looks in the default one. *)
Found == {f \in Paths : workspace = "default" /\ file[f] # Nothing}

(* A listing of nothing records nothing. *)
BeginList(p) ==
    /\ At(p, "none")
    /\ IF Found = {} THEN UNCHANGED call
       ELSE Goto(p, [op |-> "read", todo |-> Found, found |-> {}])
    /\ UNCHANGED <<workspace, file, row, local, listed, faults>>

(* The agent digests one file after the other. *)
ReadFile(p) ==
    /\ At(p, "read")
    /\ \E f \in call[p].todo :
          LET rest == call[p].todo \ {f}
          IN  Goto(p, [op |-> IF rest = {} THEN "record" ELSE "read",
                       todo |-> rest, found |-> call[p].found \cup {file[f]}])
    /\ UNCHANGED <<workspace, file, row, local, listed, faults>>

(* Faulty variant: a row that is there is left alone. *)
RecordOnce(p) ==
    /\ At(p, "record")
    /\ \E c \in call[p].found :
          /\ row' = [row EXCEPT ![c.path].digest =
                        IF @ = Nothing THEN c ELSE @]
          /\ listed' = listed \cup {row'[c.path].digest}
          /\ IF call[p].found = {c} THEN Return(p)
             ELSE Goto(p, [call[p] EXCEPT !.found = @ \ {c}])
    /\ UNCHANGED <<workspace, file, local, faults>>

(* record_artifacts inserts or updates one row at a time; fetched_path of a
   row that is there stays. *)
Record(p) ==
    /\ At(p, "record")
    /\ \E c \in call[p].found :
          /\ row' = [row EXCEPT ![c.path].digest = c]
          /\ listed' = listed \cup {c}
          /\ IF call[p].found = {c} THEN Return(p)
             ELSE Goto(p, [call[p] EXCEPT !.found = @ \ {c}])
    /\ UNCHANGED <<workspace, file, local, faults>>

-----------------------------------------------------------------------------
(* fetch_artifact *)

BeginFetch(p, f, d) ==
    /\ At(p, "none")
    /\ row[f].digest # Nothing
    /\ Goto(p, [op |-> "copy", path |-> f, to |-> d,
                digest |-> row[f].digest, source |-> row[f].digest])
    /\ UNCHANGED <<workspace, file, row, local, listed, faults>>

(* scp truncates the destination before the first byte arrives. *)
StartCopy(p) ==
    /\ At(p, "copy")
    /\ local' = [local EXCEPT ![call[p].to] = Torn]
    /\ Goto(p, [call[p] EXCEPT !.op = "copying", !.source = file[call[p].path]])
    /\ UNCHANGED <<workspace, file, row, listed, faults>>

(* The file was written, or the destination used by another scp, during the
   copy. *)
Disturbed(p) ==
    \/ file[call[p].path] # call[p].source
    \/ local[call[p].to] # Torn
    \/ \E q \in Processes \ {p} : At(q, "copying") /\ call[q].to = call[p].to

(* What the copy holds at its end; a file that another fetch has unlinked
   stays unlinked. *)
CopiedAs(p) ==
    IF local[call[p].to] = Nothing THEN {Nothing}
    ELSE IF Disturbed(p) THEN {Torn, file[call[p].path], call[p].source}
    ELSE {call[p].source}

EndCopy(p) ==
    /\ At(p, "copying")
    /\ \E content \in CopiedAs(p) :
          local' = [local EXCEPT ![call[p].to] = content]
    /\ GotoOp(p, "check")
    /\ UNCHANGED <<workspace, file, row, listed, faults>>

(* Faulty variant: a copy that does not match is kept. *)
CheckKeeps(p) ==
    /\ At(p, "check")
    /\ IF local[call[p].to] = call[p].digest THEN GotoOp(p, "mark")
       ELSE Return(p)
    /\ UNCHANGED <<workspace, file, row, local, listed, faults>>

(* Reading a copy that is gone raises. *)
Check(p) ==
    /\ At(p, "check")
    /\ \/ local[call[p].to] = Nothing /\ Return(p)
       \/ local[call[p].to] = call[p].digest /\ GotoOp(p, "mark")
       \/ /\ local[call[p].to] \notin {Nothing, call[p].digest}
          /\ GotoOp(p, "unlink")
    /\ UNCHANGED <<workspace, file, row, local, listed, faults>>

(* Faulty variant: the digest is recorded in place of the path. *)
MarkSwapped(p) ==
    /\ At(p, "mark")
    /\ row' = [row EXCEPT ![call[p].path].fetched = call[p].digest]
    /\ Return(p)
    /\ UNCHANGED <<workspace, file, local, listed, faults>>

Mark(p) ==
    /\ At(p, "mark")
    /\ row' = [row EXCEPT ![call[p].path].fetched = call[p].to]
    /\ Return(p)
    /\ UNCHANGED <<workspace, file, local, listed, faults>>

Unlink(p) ==
    /\ At(p, "unlink")
    /\ local' = [local EXCEPT ![call[p].to] = Nothing]
    /\ Return(p)
    /\ UNCHANGED <<workspace, file, row, listed, faults>>

(* The stream breaks, scp fails, the disk is full, the gateway is killed:
   the call ends where it is. *)
Fail(p) ==
    /\ ~At(p, "none")
    /\ faults < MaxFaults
    /\ faults' = faults + 1
    /\ Return(p)
    /\ UNCHANGED <<workspace, file, row, local, listed>>

-----------------------------------------------------------------------------
ArtInit ==
    /\ workspace \in Workspaces
    /\ file = [f \in Paths |-> Nothing]
    /\ row = [f \in Paths |-> [digest |-> Nothing, fetched |-> Nothing]]
    /\ local = [d \in Destinations |-> Nothing]
    /\ call = [p \in Processes |-> Idle]
    /\ listed = {}
    /\ faults = 0

Proceed(p) == \/ ReadFile(p) \/ Record(p)
              \/ StartCopy(p) \/ EndCopy(p) \/ Check(p) \/ Mark(p) \/ Unlink(p)

ArtNext ==
    \/ \E f \in Paths : WriteFile(f)
    \/ \E p \in Processes :
          \/ BeginList(p) \/ Proceed(p) \/ Fail(p)
          \/ \E f \in Paths, d \in Destinations : BeginFetch(p, f, d)

(* A call goes on; some clients list, and fetch each file, again and again. *)
ArtFairness ==
    /\ \A p \in Processes : WF_vars(Proceed(p))
    /\ \A p \in Collectors :
          /\ SF_vars(BeginList(p))
          /\ \A f \in Paths : SF_vars(\E d \in Destinations : BeginFetch(p, f, d))

ArtSpec == ArtInit /\ [][ArtNext]_vars /\ ArtFairness

-----------------------------------------------------------------------------
ArtTypeOK ==
    /\ workspace \in Workspaces
    /\ file \in [Paths -> Contents \cup {Nothing}]
    /\ row \in [Paths -> [digest: Contents \cup {Nothing},
                          fetched: Destinations \cup {Nothing}]]
    /\ local \in [Destinations -> Contents \cup {Nothing, Torn}]
    /\ call \in [Processes -> {Idle} \cup Listings \cup Fetches]
    /\ listed \subseteq Contents
    /\ faults \in 0..MaxFaults

(* Copies that no listing has ever vouched for: torn, or of a version that
   was not listed. *)
Unverified == {d \in Destinations : local[d] \notin listed \cup {Nothing}}

Fetching == {p \in Processes : call[p].op \in {"copying", "check", "unlink"}}

(* No fetch that ends, well or with an error, leaves behind a file that was
   not verified, whatever other fetches and the command do meanwhile: each
   such file is one that is being fetched or whose fetch was broken off. *)
UnverifiedBounded ==
    Cardinality(Unverified) <= faults + Cardinality(Fetching)

(* The row, the copy it points to and the file agree. *)
Collected(f) == /\ row[f].digest = file[f]
                /\ row[f].fetched \in Destinations
                /\ local[row[f].fetched] = file[f]

(* Once the command has written its files, clients that go on listing and
   fetching get every one of them, as long as they ran in the default
   workspace and at last only one client fetches. *)
ResultsAreCollected ==
    \A p \in Collectors, f \in Paths :
        (/\ <>[](workspace = "default" /\ file[f] # Nothing)
         /\ <>[](\A q \in Processes \ {p} : call[q].op # "copying"))
            => []<>Collected(f)
=============================================================================
