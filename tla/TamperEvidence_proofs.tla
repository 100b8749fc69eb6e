------------------------ MODULE TamperEvidence_proofs ------------------------
(***************************************************************************)
(* The chain of hashes holds for any number of events, faults and restarts.*)
(*                                                                         *)
(* The events that have left are not inductive by themselves: what the     *)
(* next link is made of is in memory, and after a restart in the file.  So *)
(* the invariant says that memory is not behind any event on its way, that *)
(* the file is not behind any event it was saved for, and that whoever is  *)
(* last in either is the one the next link names.                          *)
(***************************************************************************)
EXTENDS TamperEvidence, TLAPS

\* The link ends at the event: nothing of the chain comes after it.
Covers(link, e) ==
    /\ stamp[e].sequence <= link.sequence
    /\ stamp[e].sequence = link.sequence => link.previous = e

\* Two events that carry evidence are in their order.
InOrder(d, e) ==
    /\ stamp[d].sequence = stamp[e].sequence => d = e
    /\ stamp[e].sequence = stamp[d].sequence + 1 => stamp[e].previous = d

Stamped == {e \in Events : stamp[e] # NoStamp}
Saved == {e \in Stamped : call[e] \in {"stamped", "emitted"}}
OnItsWay == {e \in Stamped : call[e] \in {"saving", "replacing", "stamped", "emitted"}}

\* One event at a time is being saved, and it is the last one in memory.
SavesTheLast ==
    \A e \in Events : call[e] \in {"saving", "replacing"} =>
        /\ UseState /\ temp[e] = mem /\ mem.previous = e
        /\ stamp[e].sequence = mem.sequence
        /\ \A d \in Events : call[d] \in {"saving", "replacing"} => d = e

OneProcess ==
    /\ \A e \in Stamped : stamp[e].epoch \in 1..epoch
    /\ \A e \in Stamped : stamp[e].epoch = epoch => Covers(mem, e)
    /\ \A d, e \in Stamped : stamp[d].epoch = stamp[e].epoch => InOrder(d, e)

AllProcesses ==
    (UseState /\ ~gap) =>
        /\ \A e \in OnItsWay : Covers(mem, e)
        /\ disk # None => \A e \in Saved : Covers(disk, e)
        /\ \A d, e \in OnItsWay : InOrder(d, e)

NotYetStamped == \A e \in Events : call[e] = "idle" => stamp[e] = NoStamp

IInv == TypeOK /\ NotYetStamped /\ SavesTheLast /\ OneProcess /\ AllProcesses

\* The model values of the state file: a link is not None.
LEMMA LinkFacts ==
    ASSUME TypeOK
    PROVE  /\ mem \in Links /\ mem.sequence \in Nat
           /\ mem.previous \in Events \cup {None}
           /\ disk # None => disk \in Links /\ disk.sequence \in Nat
           /\ \A e \in Events : /\ stamp[e].sequence \in Nat
                                /\ stamp[e].epoch \in Nat
           /\ epoch \in Nat /\ epoch > 0 /\ NoStamp.epoch = 0
BY TamperAssumption DEF TypeOK, Links, NoStamp

LEMMA InitIInv == Init => IInv
<1> SUFFICES ASSUME Init PROVE IInv
  OBVIOUS
<1>1. TypeOK
  <2>1. /\ mem \in Links /\ disk \in Links \cup {None} /\ enabled \in BOOLEAN
        /\ gap \in BOOLEAN /\ temp \in [Events -> Links \cup {None}]
    BY DEF Init, Links, Start
  <2>2. /\ call \in [Events -> {"idle", "saving", "replacing", "stamped",
                                "emitted", "dropped", "crashed"}]
        /\ epoch \in 1..(MaxCrashes + 1) /\ faults \in 0..MaxFaults
    BY TamperAssumption DEF Init
  <2>3. stamp \in [Events -> [epoch : Nat, sequence : Nat,
                              previous : Events \cup {None}]]
    BY DEF Init, NoStamp
  <2> QED  BY <2>1, <2>2, <2>3 DEF TypeOK
<1>2. Stamped = {}
  BY DEF Init, Stamped
<1> QED  BY <1>1, <1>2 DEF Init, IInv, NotYetStamped, SavesTheLast, OneProcess, AllProcesses,
                           Saved, OnItsWay

LEMMA ApplyIInv ==
    ASSUME IInv, NEW e \in Events, Apply(e)
    PROVE  IInv'
<1> USE DEF Apply
<1>1. TypeOK
  BY DEF IInv
<1>2. /\ mem' = [sequence |-> mem.sequence + 1, previous |-> e]
      /\ mem.sequence \in Nat /\ mem'.sequence = mem.sequence + 1
      /\ mem'.previous = e /\ epoch \in Nat /\ epoch > 0
      /\ mem' \in Links
  BY <1>1, LinkFacts DEF NextLink, Links
<1>3. /\ stamp'[e] = [epoch |-> epoch, sequence |-> mem.sequence + 1,
                      previous |-> mem.previous]
      /\ stamp'[e].epoch = epoch /\ stamp'[e].sequence = mem.sequence + 1
      /\ stamp'[e].previous = mem.previous
      /\ stamp'[e] # NoStamp
      /\ \A d \in Events \ {e} : stamp'[d] = stamp[d]
  BY <1>1, <1>2 DEF TypeOK, NextLink, NoStamp
<1>4. /\ temp'[e] = IF UseState THEN mem' ELSE None
      /\ call'[e] = IF UseState THEN "saving" ELSE "stamped"
      /\ \A d \in Events \ {e} : temp'[d] = temp[d] /\ call'[d] = call[d]
  BY <1>1 DEF TypeOK
<1>5. TypeOK'
  <2>1. stamp' \in [Events -> [epoch : Nat, sequence : Nat,
                               previous : Events \cup {None}]]
    BY <1>1, <1>2, LinkFacts DEF TypeOK, NextLink
  <2>2. temp' \in [Events -> Links \cup {None}]
    BY <1>1, <1>2 DEF TypeOK
  <2>3. call' \in [Events -> {"idle", "saving", "replacing", "stamped",
                              "emitted", "dropped", "crashed"}]
    BY <1>1 DEF TypeOK
  <2> QED  BY <1>1, <1>2, <2>1, <2>2, <2>3 DEF TypeOK
<1>6. SavesTheLast'
  <2>1. \A d \in Events \ {e} : call'[d] \notin {"saving", "replacing"}
    BY <1>4 DEF MutexFree
  <2> QED  BY <1>2, <1>3, <1>4, <2>1 DEF SavesTheLast
<1>11. NotYetStamped'
  BY <1>3, <1>4 DEF IInv, NotYetStamped
<1>7. Stamped' = Stamped \cup {e}
  BY <1>3 DEF Stamped
<1>8. \A d \in Stamped : d # e => stamp'[d].sequence \in Nat
                                  /\ stamp[d].sequence \in Nat
  BY <1>1, <1>3, LinkFacts DEF Stamped
<1>9. OneProcess'
  <2>1. \A d \in Stamped' : stamp'[d].epoch \in 1..epoch'
    BY <1>2, <1>3, <1>7 DEF IInv, OneProcess, Stamped
  <2>2. \A d \in Stamped' : stamp'[d].epoch = epoch' => Covers(mem, d)'
    BY <1>2, <1>3, <1>7, <1>8 DEF IInv, OneProcess, Covers, Stamped
  <2>3. ASSUME NEW c \in Stamped', NEW d \in Stamped',
               stamp'[c].epoch = stamp'[d].epoch
        PROVE  InOrder(c, d)'
    <3>1. CASE c # e /\ d # e
      BY <1>3, <1>7, <2>3, <3>1 DEF IInv, OneProcess, InOrder, Stamped
    <3>2. CASE c = e /\ d # e
      <4>1. stamp[d].sequence <= mem.sequence /\ stamp'[d] = stamp[d]
        BY <1>3, <1>7, <2>3, <3>2 DEF IInv, OneProcess, Covers, Stamped
      <4> QED  BY <1>2, <1>3, <1>7, <1>8, <3>2, <4>1 DEF InOrder
    <3>3. CASE c # e /\ d = e
      <4>1. Covers(mem, c) /\ stamp'[c] = stamp[c]
        BY <1>3, <1>7, <2>3, <3>3 DEF IInv, OneProcess, Stamped
      <4> QED  BY <1>2, <1>3, <1>7, <1>8, <3>3, <4>1 DEF InOrder, Covers
    <3>4. CASE c = e /\ d = e
      BY <1>2, <1>3, <3>4 DEF InOrder
    <3> QED  BY <3>1, <3>2, <3>3, <3>4
  <2> QED  BY <2>1, <2>2, <2>3 DEF OneProcess
<1>10. AllProcesses'
  <2> SUFFICES ASSUME UseState, ~gap  PROVE
           /\ \A d \in OnItsWay' : Covers(mem, d)'
           /\ disk' # None => \A d \in Saved' : Covers(disk, d)'
           /\ \A c, d \in OnItsWay' : InOrder(c, d)'
    BY DEF AllProcesses
  <2>1. /\ \A d \in OnItsWay : Covers(mem, d)
        /\ disk # None => \A d \in Saved : Covers(disk, d)
        /\ \A c, d \in OnItsWay : InOrder(c, d)
    BY DEF IInv, AllProcesses
  <2>2. \A d \in OnItsWay' : d = e \/ (d \in OnItsWay /\ d # e)
    BY <1>4, <1>7 DEF OnItsWay
  <2>3. \A d \in Saved' : d \in Saved /\ d # e
    BY <1>4, <1>7 DEF Saved
  <2>4. \A d \in OnItsWay \cup Saved : d \in Stamped /\ d \in Events
    BY DEF OnItsWay, Saved, Stamped
  <2>5. \A d \in OnItsWay' : Covers(mem, d)'
    BY <1>2, <1>3, <1>8, <2>1, <2>2, <2>4 DEF Covers
  <2>6. disk' # None => \A d \in Saved' : Covers(disk, d)'
    BY <1>3, <2>1, <2>3, <2>4 DEF Covers
  <2>7. ASSUME NEW c \in OnItsWay', NEW d \in OnItsWay'
        PROVE  InOrder(c, d)'
    <3>1. CASE c # e /\ d # e
      BY <1>3, <2>1, <2>2, <2>4, <3>1 DEF InOrder
    <3>2. CASE c = e /\ d # e
      BY <1>2, <1>3, <1>8, <2>1, <2>2, <2>4, <3>2 DEF InOrder, Covers
    <3>3. CASE c # e /\ d = e
      BY <1>2, <1>3, <1>8, <2>1, <2>2, <2>4, <3>3 DEF InOrder, Covers
    <3>4. CASE c = e /\ d = e
      BY <1>2, <1>3, <3>4 DEF InOrder
    <3> QED  BY <3>1, <3>2, <3>3, <3>4
  <2> QED  BY <2>5, <2>6, <2>7
<1> QED  BY <1>5, <1>6, <1>9, <1>10, <1>11 DEF IInv

\* The steps of saveState and of prepareEvent move an event on and leave
\* memory and evidence as they are.
LEMMA MovesIInv ==
    ASSUME IInv, NEW e \in Events,
           \/ Skip(e) \/ SaveFails(e) \/ RemoveState(e) \/ RenameState(e)
           \/ RenameFails(e) \/ Emit(e)
    PROVE  IInv'
<1>1. TypeOK /\ NotYetStamped /\ SavesTheLast /\ OneProcess /\ AllProcesses
  BY DEF IInv
<1>2. UNCHANGED <<mem, stamp, temp, epoch, gap, enabled>>
  BY DEF Skip, SaveFails, RemoveState, RenameState, RenameFails, Emit
<1>3. PICK now \in {"replacing", "stamped", "emitted", "dropped"} :
         call' = [call EXCEPT ![e] = now]
  BY DEF Skip, SaveFails, RemoveState, RenameState, RenameFails, Emit
<1>4. /\ call'[e] = now /\ \A d \in Events \ {e} : call'[d] = call[d]
      /\ now = "replacing" => RemoveState(e) /\ call[e] = "saving"
  BY <1>1, <1>3
     DEF TypeOK, Skip, SaveFails, RemoveState, RenameState, RenameFails, Emit
<1>5. TypeOK'
  <2>1. faults' \in 0..MaxFaults
    BY <1>1, TamperAssumption DEF TypeOK, Skip, SaveFails, RemoveState,
                                  RenameState, RenameFails, Emit, Fault
  <2>2. disk' \in Links \cup {None}
    BY <1>1 DEF TypeOK, Skip, SaveFails, RemoveState, RenameState, RenameFails,
                Emit
  <2>3. call' \in [Events -> {"idle", "saving", "replacing", "stamped",
                              "emitted", "dropped", "crashed"}]
    BY <1>1, <1>3 DEF TypeOK
  <2> QED  BY <1>1, <1>2, <2>1, <2>2, <2>3 DEF TypeOK
<1>6. SavesTheLast'
  BY <1>1, <1>2, <1>4 DEF SavesTheLast
<1>7. Stamped' = Stamped
  BY <1>2 DEF Stamped
<1>8. OneProcess'
  BY <1>1, <1>2, <1>7 DEF OneProcess, Covers, InOrder
<1>9. AllProcesses'
  <2> SUFFICES ASSUME UseState, ~gap  PROVE
           /\ \A d \in OnItsWay' : Covers(mem, d)'
           /\ disk' # None => \A d \in Saved' : Covers(disk, d)'
           /\ \A c, d \in OnItsWay' : InOrder(c, d)'
    BY <1>2 DEF AllProcesses
  <2>1. /\ \A d \in OnItsWay : Covers(mem, d)
        /\ disk # None => \A d \in Saved : Covers(disk, d)
        /\ \A c, d \in OnItsWay : InOrder(c, d)
    BY <1>1 DEF AllProcesses
  <2>2. e \in Stamped => call[e] \in {"saving", "replacing", "stamped"} \/ Skip(e)
    BY DEF Skip, SaveFails, RemoveState, RenameState, RenameFails, Emit
  <2>3. CASE Skip(e) /\ e \in Stamped
    <3>1. call[e] = "idle"
      BY <2>3 DEF Skip
    <3> QED  BY <1>1, <2>3, <3>1 DEF NotYetStamped, Stamped
  <2>4. CASE ~(Skip(e) /\ e \in Stamped)
    <3>1. OnItsWay' \subseteq OnItsWay
      BY <1>4, <1>7, <2>2, <2>4 DEF OnItsWay, Stamped
    <3>2. \A d \in OnItsWay' : Covers(mem, d)'
      BY <1>2, <2>1, <3>1 DEF Covers
    <3>3. \A c, d \in OnItsWay' : InOrder(c, d)'
      BY <1>2, <2>1, <3>1 DEF InOrder
    <3>4. ASSUME disk' # None, NEW d \in Saved'
          PROVE  Covers(disk, d)'
      <4>1. CASE RenameState(e)
        <5>1. disk' = mem
          BY <1>1, <4>1 DEF RenameState, SavesTheLast
        <5>2. d \in OnItsWay
          BY <3>1 DEF Saved, OnItsWay
        <5> QED  BY <1>2, <2>1, <5>1, <5>2 DEF Covers
      <4>2. CASE ~RenameState(e)
        <5>1. disk' = disk
          BY <3>4, <4>2 DEF Skip, SaveFails, RemoveState, RenameFails, Emit
        <5>2. d \in Stamped /\ d \in Events /\ call'[d] \in {"stamped", "emitted"}
          BY <1>7, <3>4 DEF Saved, Stamped
        <5>3. ASSUME d # e  PROVE d \in Saved
          BY <1>4, <5>2, <5>3 DEF Saved
        <5>4. ASSUME d = e  PROVE d \in Saved
          <6>1. ~Skip(e)
            BY <2>4, <5>2, <5>4
          <6>2. ~SaveFails(e) /\ ~RemoveState(e) /\ ~RenameFails(e)
            BY <1>1, <5>2, <5>4
               DEF TypeOK, SaveFails, RemoveState, RenameFails
          <6>3. call[e] = "stamped"
            BY <4>2, <6>1, <6>2 DEF Emit
          <6> QED  BY <5>2, <5>4, <6>3 DEF Saved
        <5>5. d \in Saved
          BY <5>3, <5>4
        <5> QED  BY <1>2, <2>1, <3>4, <5>1, <5>5 DEF Covers
      <4> QED  BY <4>1, <4>2
    <3> QED  BY <3>2, <3>3, <3>4
  <2> QED  BY <2>3, <2>4
<1>10. NotYetStamped'
  BY <1>1, <1>2, <1>4 DEF NotYetStamped
<1> QED  BY <1>5, <1>6, <1>8, <1>9, <1>10 DEF IInv

\* A new process has the file, or nothing, for its memory.
LEMMA RestartIInv ==
    ASSUME IInv, Restart
    PROVE  IInv'
<1> USE DEF Restart
<1>1. TypeOK /\ NotYetStamped /\ SavesTheLast /\ OneProcess /\ AllProcesses
  BY DEF IInv
<1>2. epoch' = epoch + 1 /\ epoch \in Nat /\ epoch > 0
      /\ stamp' = stamp /\ disk' = disk /\ temp' = temp
  BY <1>1, LinkFacts
<1>3. \A e \in Events :
         call'[e] = IF call[e] \in {"saving", "replacing", "stamped"}
                    THEN "crashed" ELSE call[e]
  OBVIOUS
<1>4. TypeOK'
  <2>1. epoch' \in 1..(MaxCrashes + 1)
    <3>1. epoch \in 1..(MaxCrashes + 1) /\ MaxCrashes \in Nat
      BY <1>1, TamperAssumption DEF TypeOK
    <3>2. epoch <= MaxCrashes /\ epoch' = epoch + 1
      OBVIOUS
    <3> HIDE DEF Restart
    <3> QED  BY <3>1, <3>2
  <2>2. faults' \in 0..MaxFaults /\ enabled' \in BOOLEAN /\ gap' \in BOOLEAN
    <3>1. faults \in 0..MaxFaults /\ gap \in BOOLEAN /\ MaxFaults \in Nat
      BY <1>1, TamperAssumption DEF TypeOK
    <3>2. faults' = faults \/ (faults < MaxFaults /\ faults' = faults + 1)
      BY DEF Fault
    <3>3. enabled' \in BOOLEAN
      OBVIOUS
    <3>4. gap' = (gap \/ (disk = None /\ Emitted # {}))
      OBVIOUS
    <3> HIDE DEF Restart
    <3>5. faults' \in 0..MaxFaults
      BY <3>1, <3>2
    <3>6. gap' \in BOOLEAN
      BY Zenon, <3>4
    <3> QED  BY <3>3, <3>5, <3>6
  <2>3. mem' \in Links
    BY <1>1 DEF TypeOK, Loaded, Start, Links
  <2>4. call' \in [Events -> {"idle", "saving", "replacing", "stamped",
                              "emitted", "dropped", "crashed"}]
    BY <1>1 DEF TypeOK
  <2> QED  BY <1>1, <1>2, <2>1, <2>2, <2>3, <2>4 DEF TypeOK
<1>5. SavesTheLast' /\ NotYetStamped'
  BY <1>1, <1>2, <1>3 DEF SavesTheLast, NotYetStamped
<1>6. Stamped' = Stamped
  BY <1>2 DEF Stamped
<1>7. OneProcess'
  BY <1>1, <1>2, <1>6 DEF OneProcess, InOrder
<1>8. AllProcesses'
  <2> SUFFICES ASSUME UseState, ~gap'  PROVE
           /\ \A d \in OnItsWay' : Covers(mem, d)'
           /\ disk' # None => \A d \in Saved' : Covers(disk, d)'
           /\ \A c, d \in OnItsWay' : InOrder(c, d)'
    BY DEF AllProcesses
  <2>1. /\ \A d \in OnItsWay : Covers(mem, d)
        /\ disk # None => \A d \in Saved : Covers(disk, d)
        /\ \A c, d \in OnItsWay : InOrder(c, d)
    BY <1>1 DEF AllProcesses
  <2>2. /\ Saved' \subseteq Saved /\ OnItsWay' \subseteq Saved
        /\ OnItsWay' \subseteq Emitted /\ Saved \subseteq OnItsWay
    BY <1>3, <1>6 DEF Saved, OnItsWay, Emitted, Stamped
  <2>3. CASE disk = None
    <3>1. OnItsWay' = {}
      BY <2>2, <2>3
    <3> QED  BY <1>2, <2>3, <3>1
  <2>4. CASE disk # None
    <3>1. mem' = disk
      BY <2>4 DEF Loaded
    <3>2. \A d \in OnItsWay' : Covers(mem, d)'
      BY <1>2, <2>1, <2>2, <2>4, <3>1 DEF Covers
    <3>3. \A d \in Saved' : Covers(disk, d)'
      BY <1>2, <2>1, <2>2, <2>4 DEF Covers
    <3>4. \A c, d \in OnItsWay' : InOrder(c, d)'
      BY <1>2, <2>1, <2>2 DEF InOrder
    <3> QED  BY <3>2, <3>3, <3>4
  <2> QED  BY <2>3, <2>4
<1> QED  BY <1>4, <1>5, <1>7, <1>8 DEF IInv

LEMMA NextIInv == IInv /\ [Next]_vars => IInv'
<1> SUFFICES ASSUME IInv, [Next]_vars  PROVE IInv'
  OBVIOUS
<1>1. CASE UNCHANGED vars
  BY <1>1 DEF vars, IInv, TypeOK, NotYetStamped, SavesTheLast, OneProcess,
              AllProcesses, Covers, InOrder, Stamped, Saved, OnItsWay
<1> QED  BY <1>1, ApplyIInv, MovesIInv, RestartIInv DEF Next

LEMMA Invariant == Spec => []IInv
BY InitIInv, NextIInv, PTL DEF Spec

-----------------------------------------------------------------------------
(* The theorems                                                              *)

\* Memory and file hold links, and the faults and restarts stay within their
\* bounds.
THEOREM TypeCorrect == Spec => []TypeOK
<1>1. IInv => TypeOK
  BY DEF IInv
<1> QED  BY <1>1, Invariant, PTL

\* tamper.go:66-101: within a process no two events have the same place and
\* neighbours link, whatever fails to be saved.
THEOREM ChainInProcess == Spec => []ChainHoldsInProcess
<1>1. IInv => ChainHoldsInProcess
  BY DEF IInv, OneProcess, InOrder, ChainHoldsInProcess, Emitted, Stamped
<1> QED  BY <1>1, Invariant, PTL

\* tamper.go:43-64, 66-101, 158-193: the same over all processes, since the
\* state is saved before its event leaves and loaded before another comes.
THEOREM ChainAcrossRestarts == Spec => []ChainHoldsAcrossRestarts
<1>1. IInv => ChainHoldsAcrossRestarts
  BY DEF IInv, AllProcesses, InOrder, ChainHoldsAcrossRestarts, Emitted,
         Stamped, OnItsWay
<1> QED  BY <1>1, Invariant, PTL

\* tamper.go:84-101: no event leaves before the file has its place.
THEOREM StateIsNotBehind == Spec => []StateCoversEmitted
<1>1. IInv => StateCoversEmitted
  BY DEF IInv, AllProcesses, Covers, StateCoversEmitted, Emitted, Stamped,
         Saved
<1> QED  BY <1>1, Invariant, PTL
=============================================================================
