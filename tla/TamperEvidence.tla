--------------------------- MODULE TamperEvidence ---------------------------
(***************************************************************************)
(* The chain of hashes of logcenter/tamper.go: Apply by the goroutines     *)
(* that call SendEvent, the state file with its failing operations, and a  *)
(* process that crashes and starts again.  Apply holds evidence.mu to its  *)
(* end, the file operations of saveState included.                         *)
(*                                                                         *)
(* Events are the events that match; each is passed to Apply once.  The    *)
(* hash of an evidence covers its event, so the event stands for it.       *)
(***************************************************************************)
EXTENDS Naturals, FiniteSets

CONSTANTS Events,
          None,         \* no hash, no file, no holder of the mutex
          UseState,     \* StatePath is set
          MaxFaults,    \* bound: failing file operations
          MaxCrashes    \* bound: process crashes, each followed by a restart

ASSUME TamperAssumption ==
    /\ None \notin Events
    /\ UseState \in BOOLEAN
    /\ MaxFaults \in Nat
    /\ MaxCrashes \in Nat

VARIABLES enabled,  \* client.tamper is not nil
          mem,      \* evidence.sequence and evidence.previousHash
          disk,     \* the state file: the same, or None
          temp,     \* per event: the state its saveState wrote aside
          call,     \* per event: where its prepareEvent is
          stamp,    \* per event: the evidence in its metadata
          epoch,    \* the number of starts so far
          gap,      \* a restart missed the state file of an event that left
          faults

vars == <<enabled, mem, disk, temp, call, stamp, epoch, gap, faults>>

Start == [sequence |-> 0, previous |-> None]
NoStamp == [epoch |-> 0, sequence |-> 0, previous |-> None]

Init ==
    /\ enabled = TRUE
    /\ mem = Start
    /\ disk = None
    /\ temp = [e \in Events |-> None]
    /\ call = [e \in Events |-> "idle"]
    /\ stamp = [e \in Events |-> NoStamp]
    /\ epoch = 1
    /\ gap = FALSE
    /\ faults = 0

Fault == faults < MaxFaults /\ faults' = faults + 1

MutexIgnored == TRUE
MutexFree == \A e \in Events : call[e] \notin {"saving", "replacing"}

-----------------------------------------------------------------------------
(* Apply, saveState and replaceFile: tamper.go:66-101, 158-193 *)

\* Mutated forms of an operator stand before it; PROJECT.json pairs them.
NextLinkWithoutSequence(e) == [sequence |-> mem.sequence, previous |-> e]
NextLink(e) == [sequence |-> mem.sequence + 1, previous |-> e]

\* The evidence goes into the metadata and the chain moves on, before
\* anything is saved; without a StatePath Apply is done.
Apply(e) ==
    /\ call[e] = "idle" /\ enabled /\ MutexFree
    /\ mem' = NextLink(e)
    /\ stamp' = [stamp EXCEPT ![e] = [epoch    |-> epoch,
                                      sequence |-> NextLink(e).sequence,
                                      previous |-> mem.previous]]
    /\ temp' = [temp EXCEPT ![e] = IF UseState THEN NextLink(e) ELSE None]
    /\ call' = [call EXCEPT ![e] = IF UseState THEN "saving" ELSE "stamped"]
    /\ UNCHANGED <<enabled, disk, epoch, gap, faults>>

\* Without tamper evidence (client.go:224-227) the event goes on unchanged.
Skip(e) ==
    /\ call[e] = "idle" /\ ~enabled
    /\ call' = [call EXCEPT ![e] = "stamped"]
    /\ UNCHANGED <<enabled, mem, disk, temp, stamp, epoch, gap, faults>>

\* saveState fails before the old file is gone: prepareEvent returns the
\* error and the event is dropped, but the chain has moved on.
SaveFails(e) ==
    /\ call[e] = "saving" /\ Fault
    /\ call' = [call EXCEPT ![e] = "dropped"]
    /\ UNCHANGED <<enabled, mem, disk, temp, stamp, epoch, gap>>

RemoveState(e) ==
    /\ call[e] = "saving"
    /\ disk' = None
    /\ call' = [call EXCEPT ![e] = "replacing"]
    /\ UNCHANGED <<enabled, mem, temp, stamp, epoch, gap, faults>>

RenameState(e) ==
    /\ call[e] = "replacing"
    /\ disk' = temp[e]
    /\ call' = [call EXCEPT ![e] = "stamped"]
    /\ UNCHANGED <<enabled, mem, temp, stamp, epoch, gap, faults>>

RenameFails(e) ==
    /\ call[e] = "replacing" /\ Fault
    /\ call' = [call EXCEPT ![e] = "dropped"]
    /\ UNCHANGED <<enabled, mem, disk, temp, stamp, epoch, gap>>

\* ValidateEvent and the push, outside the mutex: they take the event, or
\* drop it with its place in the chain used up (client.go:214-221, 188-195).
Emit(e) ==
    /\ call[e] = "stamped"
    /\ call' \in {[call EXCEPT ![e] = "emitted"], [call EXCEPT ![e] = "dropped"]}
    /\ UNCHANGED <<enabled, mem, disk, temp, stamp, epoch, gap, faults>>

-----------------------------------------------------------------------------
(* newTamperEvidence and loadState: tamper.go:43-64, 135-156 *)

\* The events that left with an evidence.
Emitted == {e \in Events : call[e] = "emitted" /\ stamp[e] # NoStamp}

\* What loadState finds: a missing file is a new chain, no error.
LoadedUnchecked == disk
LoadedWithoutHash == IF UseState /\ disk # None
                     THEN [disk EXCEPT !.previous = None] ELSE Start
Loaded == IF UseState /\ disk # None THEN disk ELSE Start

\* The process ends and NewClient runs again.  When the file is there but
\* cannot be read NewClient records the error and goes on with no evidence at
\* all (client.go:44, 56-60).
Restart ==
    /\ epoch <= MaxCrashes
    /\ epoch' = epoch + 1
    /\ call' = [e \in Events |-> IF call[e] \in {"saving", "replacing", "stamped"}
                                 THEN "crashed" ELSE call[e]]
    /\ mem' = Loaded
    /\ gap' = (gap \/ (disk = None /\ Emitted # {}))
    /\ \/ enabled' = TRUE /\ UNCHANGED faults
       \/ UseState /\ disk # None /\ Fault /\ enabled' = FALSE
    /\ UNCHANGED <<disk, temp, stamp>>

Next ==
    \/ \E e \in Events :
          \/ Apply(e) \/ Skip(e) \/ SaveFails(e) \/ RemoveState(e)
          \/ RenameState(e) \/ RenameFails(e) \/ Emit(e)
    \/ Restart

Spec == Init /\ [][Next]_vars

-----------------------------------------------------------------------------
(* Properties *)

Links == [sequence : Nat, previous : Events \cup {None}]

\* Every variable holds what its declaration says.
TypeOK ==
    /\ enabled \in BOOLEAN
    /\ mem \in Links
    /\ disk \in Links \cup {None}
    /\ temp \in [Events -> Links \cup {None}]
    /\ call \in [Events -> {"idle", "saving", "replacing", "stamped", "emitted",
                            "dropped", "crashed"}]
    /\ stamp \in [Events -> [epoch : Nat, sequence : Nat,
                             previous : Events \cup {None}]]
    /\ epoch \in 1..(MaxCrashes + 1)
    /\ gap \in BOOLEAN
    /\ faults \in 0..MaxFaults

\* Within a process two events never carry the same place in the chain, and
\* neighbours link, whatever saveState failed in between: what a verifier
\* recomputes from the events (tamper.go:78-96).
ChainHoldsInProcess ==
    \A d, e \in Emitted : stamp[d].epoch = stamp[e].epoch =>
        /\ stamp[d].sequence = stamp[e].sequence => d = e
        /\ stamp[e].sequence = stamp[d].sequence + 1 => stamp[e].previous = d

\* README.md:1089-1091, StatePath keeps sequence and previous_hash across
\* restarts: the same over all the processes, as long as none of them started
\* with the state file missing (tamper.go:158-193 saves before the event
\* leaves).
ChainHoldsAcrossRestarts ==
    (UseState /\ ~gap) =>
        \A d, e \in Emitted :
            /\ stamp[d].sequence = stamp[e].sequence => d = e
            /\ stamp[e].sequence = stamp[d].sequence + 1 => stamp[e].previous = d

\* The state file, whenever it is there, is not behind an event that left.
StateCoversEmitted ==
    (UseState /\ ~gap /\ disk # None) =>
        \A e \in Emitted : stamp[e].sequence <= disk.sequence
=============================================================================
