------------------------------ MODULE JsonStore ------------------------------
(***************************************************************************)
(* The state file of the control plane (transferia-control-plane           *)
(* store.rs).  A mutation takes the state lock, checks the record version, *)
(* builds a candidate of the whole state, writes it in a blocking task     *)
(* (temporary file, rename, directory sync) and then follows the result in *)
(* memory.  A request is a future: when its HTTP client disconnects it is  *)
(* dropped at an await, which releases the lock but not the blocking task. *)
(*                                                                         *)
(* A record is its version, whether it exists (a deleted one keeps its     *)
(* last version; ids are not reused) and whether its runtime state is      *)
(* transient.                                                              *)
(***************************************************************************)
EXTENDS Naturals, FiniteSets

CONSTANTS
    Deliveries,  \* delivery ids
    Clients,     \* concurrent requests
    MaxVersion,  \* bound on record versions
    MaxFaults,   \* bound on failed persists, crashes and dropped requests
    Disconnects  \* requests may be dropped

VARIABLES
    mem,     \* JsonDeliveryStore.state
    disk,    \* the state file
    synced,  \* the state file as of the last directory sync
    pc,      \* [Clients -> {"idle", "persist"}]; "persist" holds the lock
    tasks,   \* blocking tasks: [owner, candidate, stage]
    faults

vars == <<mem, disk, synced, pc, tasks, faults>>

Absent == [version |-> 0, live |-> FALSE, transient |-> FALSE]
States == [Deliveries -> [version : 0..(MaxVersion + MaxFaults), live : BOOLEAN, transient : BOOLEAN]]
Nobody == "nobody"
Stages == {"write", "renamed", "ok", "uncommitted", "unsynced"}

Fault == faults < MaxFaults /\ faults' = faults + 1
NoFault == faults' = faults

\* The state mutex.
Locked == \E c \in Clients : pc[c] = "persist"

\* insert, replace, delete: the candidate of a mutation that passes its
\* checks; `expected` is the version the caller read.
Candidates(d, expected) ==
    {[mem EXCEPT ![d] = [version |-> expected + 1, live |-> l, transient |-> t]] :
        l \in IF expected = 0 THEN {TRUE} ELSE BOOLEAN, t \in BOOLEAN}

\* Slip: the caller's version is not compared.
CheckedNot(d, expected) == expected = 0 \/ mem[d].live

\* insert needs an absent record, replace and delete the current version.
Checked(d, expected) ==
    /\ mem[d].version = expected
    /\ expected = 0 \/ mem[d].live

\* Slip: a mutation starts while another one is persisting.
BeginUnlocked(c, d, expected) ==
    /\ pc[c] = "idle" /\ Checked(d, expected)
    /\ \E s \in Candidates(d, expected) :
          tasks' = tasks \cup {[owner |-> c, candidate |-> s, stage |-> "write"]}
    /\ pc' = [pc EXCEPT ![c] = "persist"]
    /\ UNCHANGED <<mem, disk, synced, faults>>

\* A mutation takes the lock, passes its checks and starts to persist.  One
\* that fails a check changes nothing.
Begin(c, d, expected) ==
    /\ pc[c] = "idle" /\ ~Locked /\ Checked(d, expected)
    /\ \E s \in Candidates(d, expected) :
          tasks' = tasks \cup {[owner |-> c, candidate |-> s, stage |-> "write"]}
    /\ pc' = [pc EXCEPT ![c] = "persist"]
    /\ UNCHANGED <<mem, disk, synced, faults>>

Moves(t, stage) == tasks' = (tasks \ {t}) \cup {[t EXCEPT !.stage = stage]}

\* persist_state_blocking: the temporary file is written and synced, then
\* renamed over the state file; anything before the rename may fail.
Rename(t) ==
    /\ t.stage = "write"
    /\ \/ Moves(t, "renamed") /\ disk' = t.candidate /\ NoFault
       \/ Moves(t, "uncommitted") /\ disk' = disk /\ Fault
    /\ UNCHANGED <<mem, synced, pc>>

\* The directory sync after the rename.
SyncDirectory(t) ==
    /\ t.stage = "renamed"
    /\ \/ Moves(t, "ok") /\ synced' = disk /\ NoFault
       \/ Moves(t, "unsynced") /\ synced' = synced /\ Fault
    /\ UNCHANGED <<mem, disk, pc>>

\* Slip: a failed directory sync is treated like a failed rename.
ApplyIfSynced(c, t) ==
    /\ t.owner = c /\ pc[c] = "persist" /\ t.stage \in {"ok", "unsynced", "uncommitted"}
    /\ mem' = IF t.stage = "ok" THEN t.candidate ELSE mem
    /\ tasks' = tasks \ {t} /\ pc' = [pc EXCEPT ![c] = "idle"]
    /\ UNCHANGED <<disk, synced, faults>>

\* apply_persist_result: memory follows a committed candidate.
Apply(c, t) ==
    /\ t.owner = c /\ pc[c] = "persist" /\ t.stage \in {"ok", "unsynced", "uncommitted"}
    /\ mem' = IF t.stage = "uncommitted" THEN mem ELSE t.candidate
    /\ tasks' = tasks \ {t} /\ pc' = [pc EXCEPT ![c] = "idle"]
    /\ UNCHANGED <<disk, synced, faults>>

\* The request is dropped while it awaits the blocking task.
Disconnect(c) ==
    /\ Disconnects /\ pc[c] = "persist" /\ Fault
    /\ pc' = [pc EXCEPT ![c] = "idle"]
    /\ tasks' = {IF t.owner = c THEN [t EXCEPT !.owner = Nobody] ELSE t : t \in tasks}
    /\ UNCHANGED <<mem, disk, synced>>

\* A detached blocking task ends.
Detached(t) ==
    /\ t.owner = Nobody /\ t.stage \in {"ok", "unsynced", "uncommitted"}
    /\ tasks' = tasks \ {t}
    /\ UNCHANGED <<mem, disk, synced, pc, faults>>

\* Slip: a record found transient is stopped under its old version.
NormalizedSilently(s) == [d \in Deliveries |-> [s[d] EXCEPT !.transient = FALSE]]

\* normalize_after_server_restart of every record.
Normalized(s) ==
    [d \in Deliveries |->
        IF s[d].live /\ s[d].transient
        THEN [s[d] EXCEPT !.transient = FALSE, !.version = @ + 1]
        ELSE s[d]]

\* The process dies (or the machine: the state file may then be the one of
\* the last sync) and `open` loads, normalizes the state, and persists
\* it if that changed something.
Restart ==
    /\ Fault
    /\ \E s \in {disk, synced} :
          /\ mem' = Normalized(s) /\ disk' = Normalized(s)
          /\ synced' = IF Normalized(s) = s THEN synced ELSE Normalized(s)
    /\ pc' = [c \in Clients |-> "idle"] /\ tasks' = {}

Init ==
    /\ mem = [d \in Deliveries |-> Absent] /\ disk = mem /\ synced = mem
    /\ pc = [c \in Clients |-> "idle"] /\ tasks = {} /\ faults = 0

Next ==
    \/ \E c \in Clients :
          \/ \E d \in Deliveries, expected \in 0..(MaxVersion - 1) : Begin(c, d, expected)
          \/ \E t \in tasks : Apply(c, t)
          \/ Disconnect(c)
    \/ \E t \in tasks : Rename(t) \/ SyncDirectory(t) \/ Detached(t)
    \/ Restart

Spec == Init /\ [][Next]_vars

-----------------------------------------------------------------------------
\* Types of the state; the lock is held exactly by the owner of a task.
TypeOK ==
    /\ mem \in States /\ disk \in States /\ synced \in States
    /\ pc \in [Clients -> {"idle", "persist"}]
    /\ \A t \in tasks : /\ t.owner \in Clients \cup {Nobody}
                        /\ t.candidate \in States /\ t.stage \in Stages
    /\ \A c \in Clients : pc[c] = "persist" <=> \E t \in tasks : t.owner = c
    /\ faults \in 0..MaxFaults

\* "The state lock is the transaction lock and must serialize persistence"
\* (store.rs): at most one task writes the state file.
PersistenceSerialized == Cardinality(tasks) <= 1

\* docs/server.md: "Failures before rename leave memory and disk unchanged"
\* and after the rename "memory follows the committed disk state": when no task
\* is writing, memory and the state file agree, so a restart finds what the
\* clients were told.
MemoryIsDisk == tasks = {} => mem = disk

\* A mutation that was acknowledged with its directory synced survives any
\* restart, and record versions only grow: the record_version that a client
\* read is never given to other contents.
VersionsGrow ==
    \A d \in Deliveries :
        \/ mem'[d] = mem[d]
        \/ mem'[d].version > mem[d].version
        \/ synced # disk /\ mem' = Normalized(synced)

\* The compare-and-swap of `replace`: while the process lives, the version of a
\* record advances by one with every acknowledged mutation, also when other
\* requests are dropped half-way; of two requests with the same expected
\* version one is refused.
OneAtATime ==
    [][\A d \in Deliveries :
          \/ mem'[d] = mem[d]
          \/ mem'[d].version = mem[d].version + 1
          \/ Restart]_vars
=============================================================================
