------------------------ MODULE LibraryIndex_proofs ------------------------
(***************************************************************************)
(* Proofs about LibraryIndex, for any roots, files and numbers of calls.   *)
(*                                                                         *)
(* The invariant follows a fingerprint from the listing to the row.  Files *)
(* only get newer, so what was read later belongs to a later version: a    *)
(* listed stamp is at most the file's version, and contents lie between.   *)
(* And it follows each file of the root being walked: it is still listed,  *)
(* is being inspected, was seen, or was absent at some moment.             *)
(***************************************************************************)
EXTENDS LibraryIndex, FiniteSetTheorems, SequenceTheorems, TLAPS

Cmd == ScanCommand \union ShortCommand
Outside == {"open", "test", "tested", "asleep", "run", "closed"}
Probing == {"inspect", "commit"}

(* Rows have four fields; nothing is said of the number of the scan. *)
Row(r) == r = [status |-> r.status, stamp |-> r.stamp, content |-> r.content, seen |-> r.seen]
Rows == /\ rec = [p \in Path |-> rec[p]]
        /\ \A p \in Path : /\ Row(rec[p]) /\ rec[p].stamp \in Nat /\ rec[p].content \in Nat
                           /\ RowMatches(p)
Disk == disk \in [Path -> [there : BOOLEAN, version : Nat]]
Commands == queue \in Seq(Cmd) /\ command \in Cmd \union {NoCommand}
Commanded ==
  /\ pc \in {"roots", "visit", "pulse"} => command.kind = "none"
  /\ pc \in Probing => command.kind \in {"none", "external"}
Listed == /\ todo \subseteq Visit
          /\ stage = "walk" => \A f \in todo : f.stamp <= disk[f.path].version
Probed ==
  /\ probe \in [path : Path \union {None}, stamp : Nat, content : Nat]
  /\ pc \in Probing => /\ probe.path \in Path
                       /\ probe.stamp <= disk[probe.path].version
                       /\ command.kind = "external" => probe.path \in Opened
  /\ pc = "commit" => /\ probe.stamp <= probe.content
                      /\ probe.content <= disk[probe.path].version
Staged ==
  /\ pc \in Outside => stage = "none"
  /\ stage = "none" => root = None /\ todo = {}
  /\ pc = "roots" => stage = "walk" /\ root = None
Gone == stage # "none" => \A p \in Path : ~disk[p].there => p \in gone
Followed(p) == \/ \E f \in todo : f.path = p
               \/ rec[p].seen = generation
               \/ probe.path = p /\ pc \in Probing
Walked ==
  stage = "walk" => \A p \in File : RootOf[p] = root /\ p \notin gone => Followed(p)

IndexInv == /\ Rows /\ Disk /\ Commands /\ Commanded /\ Listed /\ Probed
            /\ Staged /\ Gone /\ Walked

-----------------------------------------------------------------------------
(* Commands.                                                               *)

LEMMA CancelledKeeps ==
  ASSUME NEW c \in Cmd \union {NoCommand}
  PROVE  /\ Cancelled(c).kind = c.kind
         /\ c \in Cmd => Cancelled(c) \in Cmd
         /\ Cancelled(c) \in Cmd \union {NoCommand}
<1>1. CASE c \in ScanCommand
  <2>1. IsScan(c)
    BY <1>1 DEF ScanCommand, IsScan, ScanKind
  <2>2. Cancelled(c) = [c EXCEPT !.cancelled = TRUE]
    BY <2>1 DEF Cancelled
  <2>3. [c EXCEPT !.cancelled = TRUE] \in ScanCommand /\ [c EXCEPT !.cancelled = TRUE].kind = c.kind
    BY <1>1 DEF ScanCommand
  <2> QED BY <2>2, <2>3 DEF Cmd
<1>2. CASE c \in ShortCommand \union {NoCommand}
  <2>1. ~IsScan(c)
    BY <1>2 DEF ShortCommand, NoCommand, IsScan, ScanKind
  <2> QED BY <1>2, <2>1 DEF Cancelled, Cmd
<1> QED BY <1>1, <1>2 DEF Cmd

LEMMA QueueCancelled ==
  ASSUME queue \in Seq(Cmd)
  PROVE  Cancelling(queue) \in Seq(Cmd)
<1>1. \A i \in DOMAIN queue : Cancelled(queue[i]) \in Cmd
  <2> SUFFICES ASSUME NEW i \in DOMAIN queue  PROVE Cancelled(queue[i]) \in Cmd
    OBVIOUS
  <2>1. queue[i] \in Cmd
    OBVIOUS
  <2> QED BY <2>1, CancelledKeeps
<1>2. DOMAIN queue = 1 .. Len(queue) /\ Len(queue) \in Nat
  OBVIOUS
<1> QED BY <1>1, <1>2 DEF Cancelling

-----------------------------------------------------------------------------
(* Two kinds of steps: those that leave the scan alone, and those that     *)
(* end it.                                                                 *)

LEMMA Quiet ==
  ASSUME IndexInv, Commands', Commanded', command'.kind = command.kind \/ pc' \notin Probing,
         UNCHANGED <<disk, rec, todo, probe, stage, root, gone, generation>>,
         pc' # pc => pc \notin Probing /\ pc' \notin Probing \union {"roots"},
         pc' \in Outside => stage = "none"
  PROVE  IndexInv'
<1>1. Rows' /\ Disk' /\ Listed' /\ Gone'
  BY DEF IndexInv, Rows, Row, RowMatches, Disk, Listed, Gone
<1>2. Probed' /\ Staged'
  BY DEF IndexInv, Probed, Staged, Probing
<1>3. Walked'
  BY DEF IndexInv, Walked, Followed, Probing
<1> QED BY <1>1, <1>2, <1>3 DEF IndexInv

LEMMA Over ==
  ASSUME Disk', Rows', Commands', Ended
  PROVE  IndexInv'
<1>1. /\ pc' = "test" /\ probe' = [path |-> None, stamp |-> 0, content |-> 0]
      /\ todo' = {} /\ stage' = "none" /\ root' = None
  BY DEF Ended, NoProbe
<1> QED BY <1>1 DEF IndexInv, Commanded, Listed, Probed, Staged, Gone, Walked, Probing, Outside

LEMMA RowsStay ==
  ASSUME Rows, UNCHANGED rec
  PROVE  Rows'
BY DEF Rows, Row, RowMatches

-----------------------------------------------------------------------------
(* The environment.                                                        *)

LEMMA FileSteps ==
  ASSUME IndexInv, NEW p \in Path, WriteFile(p) \/ RemoveFile(p)
  PROVE  IndexInv'
<1>1. /\ UNCHANGED <<rec, queue, command, todo, probe, stage, root, generation, pc>>
      /\ gone \subseteq gone'
  BY DEF WriteFile, RemoveFile, db, scan
<1>2. /\ Disk'
      /\ \A q \in Path : disk[q].version <= disk'[q].version
      /\ Gone'
  <2>1. CASE WriteFile(p)
    BY <2>1 DEF WriteFile, scan, IndexInv, Disk, Gone
  <2>2. CASE RemoveFile(p)
    <3>1. /\ disk' = [disk EXCEPT ![p].there = FALSE]
          /\ gone' = IF stage = "none" THEN gone ELSE gone \union {p}
      BY <2>2 DEF RemoveFile
    <3>2. Disk /\ Gone
      BY DEF IndexInv
    <3>3. Disk' /\ \A q \in Path : /\ disk'[q].version = disk[q].version
                                 /\ q # p => disk'[q] = disk[q]
      BY <3>1, <3>2 DEF Disk
    <3>4. \A q \in Path : disk[q].version \in Nat
      BY <3>2 DEF Disk
    <3> QED BY <1>1, <3>1, <3>2, <3>3, <3>4 DEF Gone
  <2> QED BY <2>1, <2>2
<1>3. Rows' /\ Commands'
  BY <1>1, RowsStay DEF IndexInv, Commands
<1>4. Listed'
  <2>1. \A f \in todo : f.path \in Path /\ f.stamp \in Nat
    BY DEF IndexInv, Listed, Visit
  <2>2. \A q \in Path : disk[q].version \in Nat /\ disk'[q].version \in Nat
    BY <1>2 DEF IndexInv, Disk
  <2> QED BY <1>1, <1>2, <2>1, <2>2 DEF IndexInv, Listed
<1>5. Probed'
  <2>1. \A q \in Path : disk[q].version \in Nat /\ disk'[q].version \in Nat
    BY <1>2 DEF IndexInv, Disk
  <2>2. Probed
    BY DEF IndexInv
  <2>3. pc \in Probing => probe.path \in Path /\ probe.stamp <= disk'[probe.path].version
    BY <1>2, <2>1, <2>2 DEF Probed
  <2>4. pc = "commit" => probe.content <= disk'[probe.path].version
    BY <1>2, <2>1, <2>2 DEF Probed, Probing
  <2> QED BY <1>1, <2>2, <2>3, <2>4 DEF Probed
<1>6. Staged' /\ Walked' /\ Commanded'
  BY <1>1 DEF IndexInv, Staged, Walked, Followed, Commanded
<1> QED BY <1>2, <1>3, <1>4, <1>5, <1>6 DEF IndexInv

LEMMA CallSteps ==
  ASSUME IndexInv,
         \/ \E c \in ScanCall : CallScan(c)
         \/ CancelScan
         \/ \E c \in ShortCommand : CallShort(c)
         \/ Destroy \/ DestroyCancel \/ DestroyNotify
  PROVE  IndexInv'
<1>0. queue \in Seq(Cmd) /\ command \in Cmd \union {NoCommand}
  BY DEF IndexInv, Commands
<1>1. /\ Cancelling(queue) \in Seq(Cmd)
      /\ Cancelled(command) \in Cmd \union {NoCommand} /\ Cancelled(command).kind = command.kind
  BY <1>0, QueueCancelled, CancelledKeeps
<1>2. ASSUME NEW c \in Cmd, CallScan(c) \/ CallShort(c)
      PROVE  /\ Commands' /\ command'.kind = command.kind
             /\ UNCHANGED <<disk, rec, todo, probe, stage, root, gone, generation>>
             /\ pc' = pc \/ (pc = "asleep" /\ pc' = "test")
  <2>1. \/ queue' = Append(queue, c) /\ command' = command
        \/ queue' = Append(Cancelling(queue), c) /\ command' = Cancelled(command)
    BY <1>2 DEF CallScan, CallShort, Enqueued, Cancel
  <2>2. Append(queue, c) \in Seq(Cmd) /\ Append(Cancelling(queue), c) \in Seq(Cmd)
    BY <1>0, <1>1, <1>2
  <2>3. /\ UNCHANGED <<disk, rec, todo, probe, stage, root, gone, generation>>
        /\ pc' = pc \/ (pc = "asleep" /\ pc' = "test")
    BY <1>2 DEF CallScan, CallShort, Enqueued, files, db, scan
  <2>4. Commands' /\ command'.kind = command.kind
    BY <1>0, <1>1, <2>1, <2>2 DEF Commands
  <2> QED BY <2>3, <2>4
<1>3. ASSUME CancelScan \/ Destroy \/ DestroyCancel \/ DestroyNotify
      PROVE  /\ Commands' /\ command'.kind = command.kind
             /\ UNCHANGED <<disk, rec, todo, probe, stage, root, gone, generation>>
             /\ pc' = pc \/ (pc = "asleep" /\ pc' = "test")
  <2>1. \/ queue' = queue /\ command' = command
        \/ queue' = Cancelling(queue) /\ command' = Cancelled(command)
    BY <1>3 DEF CancelScan, Destroy, DestroyCancel, DestroyNotify, Cancel
  <2>2. Commands' /\ command'.kind = command.kind
    BY <1>0, <1>1, <2>1 DEF Commands
  <2>3. /\ UNCHANGED <<disk, rec, todo, probe, stage, root, gone, generation>>
        /\ pc' = pc \/ (pc = "asleep" /\ pc' = "test")
    BY <1>3 DEF CancelScan, Destroy, DestroyCancel, DestroyNotify, files, db, scan
  <2> QED BY <2>2, <2>3
<1>4. ASSUME NEW c \in ScanCall \union ShortCommand
      PROVE  c \in Cmd
  <2>1. CASE \E E \in Configured, s \in BOOLEAN :
               c = [kind |-> "configure", roots |-> E, scan |-> s, cancelled |-> FALSE]
    BY <2>1, LibraryAssumption DEF Cmd, ScanCommand
  <2>2. CASE \E f \in BOOLEAN : c = [kind |-> "scan", force |-> f, cancelled |-> FALSE]
    BY <2>2 DEF Cmd, ScanCommand
  <2>3. CASE c = [kind |-> "rebuild", cancelled |-> FALSE]
    BY <2>3 DEF Cmd, ScanCommand
  <2> QED BY <1>4, <2>1, <2>2, <2>3 DEF ScanCall, Cmd
<1>5. /\ Commands' /\ command'.kind = command.kind
      /\ UNCHANGED <<disk, rec, todo, probe, stage, root, gone, generation>>
      /\ pc' = pc \/ (pc = "asleep" /\ pc' = "test")
  BY <1>2, <1>3, <1>4
<1>6. pc' \in Outside => stage = "none"
  BY <1>5 DEF IndexInv, Staged, Outside
<1>7. pc' # pc => pc \notin Probing /\ pc' \notin Probing \union {"roots"}
  BY <1>5 DEF Probing
<1>8. Commanded'
  BY <1>5 DEF IndexInv, Commanded, Probing
<1> QED BY <1>5, <1>6, <1>7, <1>8, Quiet

-----------------------------------------------------------------------------
(* The worker's steps around the scan.                                     *)

LEMMA QuietSteps ==
  ASSUME IndexInv,
         \/ Open \/ Test \/ Sleep \/ Skip \/ EnterPulse \/ Pulse \/ RunQuery \/ RunSession
         \/ \E r \in Root : ListFails(r)
  PROVE  IndexInv'
<1>0. queue \in Seq(Cmd) /\ command \in Cmd \union {NoCommand}
  BY DEF IndexInv, Commands
<1>1. UNCHANGED <<disk, rec, todo, probe, stage, root, gone, generation>>
  BY DEF Open, Test, Sleep, Skip, EnterPulse, Pulse, RunQuery, RunSession, ListFails,
     files, db, scan
<1>2. Commands'
  <2>1. CASE Test \/ Pulse
    <3>1. \/ queue' = queue /\ command' = command
          \/ queue # <<>> /\ queue' = Tail(queue) /\ command' = Head(queue)
      BY <2>1 DEF Test, Pulse
    <3>2. queue # <<>> => Tail(queue) \in Seq(Cmd) /\ Head(queue) \in Cmd
      BY <1>0
    <3> QED BY <1>0, <3>1, <3>2 DEF Commands
  <2>2. CASE ~(Test \/ Pulse)
    <3>1. queue' = queue /\ (command' = command \/ command' = NoCommand)
      BY <2>2 DEF Open, Sleep, Skip, EnterPulse, RunQuery, RunSession, ListFails, ShortDone
    <3> QED BY <1>0, <3>1 DEF Commands
  <2> QED BY <2>1, <2>2
<1>3. CASE Open \/ Test \/ Sleep \/ Skip
  <2>1. pc \in Outside /\ pc' \in Outside
    BY <1>3 DEF Open, Test, Sleep, Skip, Outside
  <2>2. stage = "none"
    BY <2>1 DEF IndexInv, Staged
  <2>3. pc \notin Probing /\ pc' \notin Probing /\ pc' # "roots" /\ Commanded'
    BY <2>1 DEF Outside, Probing, Commanded
  <2> QED BY <1>1, <1>2, <2>2, <2>3, Quiet
<1>4. CASE EnterPulse \/ Pulse \/ \E r \in Root : ListFails(r)
  <2>1. /\ pc \notin Probing /\ pc' \notin Probing /\ pc' \notin Outside
        /\ pc' # pc => pc' # "roots"
    BY <1>4 DEF EnterPulse, Pulse, ListFails, Probing, Outside
  <2>2. Commanded'
    BY <1>4, <2>1 DEF EnterPulse, Pulse, ListFails, IndexInv, Commanded
  <2> QED BY <1>1, <1>2, <2>1, <2>2, Quiet
<1>5. CASE RunQuery \/ RunSession
  <2>1. /\ pc \in {"run", "short"}
        /\ pc' = IF stage = "none" THEN "test" ELSE "pulse"
    BY <1>5 DEF RunQuery, RunSession, Running, ShortDone
  <2>2. pc \notin Probing /\ pc' \notin Probing \union {"roots"}
    BY <2>1 DEF Probing
  <2>3. pc' \in Outside => stage = "none"
    BY <2>1 DEF Outside
  <2>4. Commanded'
    <3>1. command' = NoCommand
      BY <1>5 DEF RunQuery, RunSession, ShortDone
    <3> QED BY <2>2, <3>1 DEF NoCommand, Commanded
  <2> QED BY <1>1, <1>2, <2>2, <2>3, <2>4, Quiet
<1> QED BY <1>3, <1>4, <1>5

LEMMA OverSteps ==
  ASSUME IndexInv, Restart \/ Refuse \/ ScanCancelled \/ FinishScan
  PROVE  IndexInv'
<1>0. queue \in Seq(Cmd) /\ command \in Cmd \union {NoCommand} /\ <<>> \in Seq(Cmd)
  BY DEF IndexInv, Commands
<1>1. Rows' /\ Disk'
  <2>1. UNCHANGED <<rec, disk>>
    BY DEF Restart, Refuse, ScanCancelled, FinishScan, files, db
  <2> QED BY <2>1, RowsStay DEF IndexInv, Disk
<1>2. CASE Restart
  <2>1. /\ pc' = "open" /\ probe' = [path |-> None, stamp |-> 0, content |-> 0]
        /\ todo' = {} /\ stage' = "none" /\ root' = None
        /\ queue' = <<>> /\ command' = NoCommand
    BY <1>2 DEF Restart, NoProbe
  <2> QED BY <1>0, <1>1, <2>1 DEF IndexInv, Commands, Commanded, Listed, Probed, Staged, Gone, Walked,
         Probing, Outside
<1>3. CASE Refuse \/ ScanCancelled \/ FinishScan
  <2>1. Ended /\ queue' = queue
    BY <1>3 DEF Refuse, ScanCancelled, FinishScan, RunFailed, RunCancelled
  <2>2. Commands'
    BY <1>0, <2>1 DEF Ended, Commands
  <2> QED BY <1>1, <2>1, <2>2, Over
<1> QED BY <1>2, <1>3

(* A row whose status alone changes, or whose stamp is cleared, matches.   *)
LEMMA RowsTouched ==
  ASSUME Rows, rec' = [p \in Path |-> rec'[p]],
         \A p \in Path : /\ Row(rec'[p]) /\ rec'[p].content = rec[p].content
                         /\ rec'[p].stamp \in {rec[p].stamp, 0}
  PROVE  Rows'
<1>1. \A p \in Path : Row(rec[p]) /\ rec[p].stamp \in Nat /\ rec[p].content \in Nat /\ RowMatches(p)
  BY DEF Rows
<1>2. \A p \in Path : Row(rec'[p]) /\ rec'[p].stamp \in Nat /\ rec'[p].content \in Nat
  BY <1>1
<1>3. \A p \in Path : RowMatches(p)'
  BY <1>1 DEF RowMatches
<1> QED BY <1>2, <1>3 DEF Rows, Row

LEMMA StartSteps ==
  ASSUME IndexInv, StartScan
  PROVE  IndexInv'
<1>1. /\ pc = "run" /\ stage = "none" /\ root = None /\ todo = {}
      /\ UNCHANGED <<disk, queue>>
      /\ rec' = IF command.kind = "rebuild"
                  THEN [p \in Path |-> [rec[p] EXCEPT !.stamp = 0]] ELSE rec
  BY DEF StartScan, files, IndexInv, Staged, Outside
<1>2. Rows'
  <2>1. CASE command.kind = "rebuild"
    <3>1. rec' = [p \in Path |-> [rec[p] EXCEPT !.stamp = 0]]
      BY <1>1, <2>1
    <3>2. \A p \in Path : /\ Row(rec'[p]) /\ rec'[p].content = rec[p].content
                          /\ rec'[p].stamp = 0
      BY <3>1 DEF IndexInv, Rows, Row
    <3> QED BY <3>1, <3>2, RowsTouched DEF IndexInv
  <2>2. CASE command.kind # "rebuild"
    BY <1>1, <2>2, RowsStay DEF IndexInv
  <2> QED BY <2>1, <2>2
<1>3. Disk' /\ Commands /\ Listed /\ Probed
  BY <1>1 DEF IndexInv, Disk
<1>4. CASE command.kind = "configure" /\ ~command.scan
  <2>1. pc' = "test" /\ command' = NoCommand /\ UNCHANGED <<todo, probe, stage, root>>
    BY <1>4 DEF StartScan, scan
  <2>2. Commands' /\ Commanded' /\ Listed' /\ Staged' /\ Gone' /\ Walked'
    BY <1>1, <1>3, <2>1 DEF Commands, Commanded, Probing, Listed, Staged, Gone, Walked, Outside
  <2>3. Probed'
    BY <1>1, <1>3, <2>1 DEF Probed, Probing
  <2> QED BY <1>2, <1>3, <2>2, <2>3 DEF IndexInv
<1>5. CASE ~(command.kind = "configure" /\ ~command.scan) /\ command.cancelled
  <2>1. Ended
    BY <1>5 DEF StartScan, RunCancelled
  <2>2. Commands'
    BY <1>1, <1>3, <2>1 DEF Ended, Commands
  <2> QED BY <1>2, <1>3, <2>1, <2>2, Over
<1>6. CASE ~(command.kind = "configure" /\ ~command.scan) /\ ~command.cancelled
  <2>1. /\ pc' = "roots" /\ command' = NoCommand /\ stage' = "walk"
        /\ gone' = {p \in Path : ~disk[p].there} /\ UNCHANGED <<root, todo, probe>>
    BY <1>6 DEF StartScan
  <2>2. Commands' /\ Commanded'
    BY <1>1, <1>3, <2>1 DEF Commands, Commanded, NoCommand, Probing
  <2>3. Probed' /\ Staged' /\ Gone'
    BY <1>1, <1>3, <2>1 DEF Probed, Probing, Staged, Gone, Outside
  <2>4. Walked'
    <3>1. \A p \in File : RootOf[p] # None
      BY LibraryAssumption
    <3> QED BY <1>1, <2>1, <3>1 DEF Walked
  <2>5. Listed'
    BY <1>1, <2>1 DEF Listed
  <2> QED BY <1>2, <1>3, <2>2, <2>3, <2>4, <2>5 DEF IndexInv
<1> QED BY <1>4, <1>5, <1>6

-----------------------------------------------------------------------------
(* Games opened directly.                                                  *)

LEMMA ShortFails ==
  ASSUME IndexInv, ShortFailed, Rows', UNCHANGED <<disk, queue>>
  PROVE  IndexInv'
<1>1. Disk' /\ Disk /\ Commands /\ Gone
  BY DEF IndexInv, Disk
<1>2. CASE stage = "walk"
  <2>1. /\ pc' = "roots" /\ command' = NoCommand /\ root' = None /\ todo' = {}
        /\ probe' = [path |-> None, stamp |-> 0, content |-> 0]
        /\ stage' = stage /\ gone' = gone
    BY <1>2 DEF ShortFailed, NoProbe
  <2>2. Commands' /\ Commanded' /\ Listed' /\ Probed' /\ Staged' /\ Gone'
    BY <1>1, <1>2, <2>1 DEF Commands, Commanded, NoCommand, Listed, Probed, Probing, Staged, Outside, Gone
  <2>3. \A p \in File : RootOf[p] # None
    BY LibraryAssumption
  <2> QED BY <1>1, <2>1, <2>2, <2>3 DEF IndexInv, Walked
<1>3. CASE stage # "walk"
  <2>1. Ended
    BY <1>3 DEF ShortFailed, RunFailed
  <2>2. Commands'
    BY <1>1, <2>1 DEF Ended, Commands
  <2> QED BY <1>1, <2>1, <2>2, Over
<1> QED BY <1>2, <1>3

LEMMA ExternalSteps ==
  ASSUME IndexInv, RunExternal \/ StoreExternal \/ ExternalFails
  PROVE  IndexInv'
<1>0. /\ Rows /\ Disk /\ Commands /\ Commanded /\ Listed /\ Probed /\ Staged /\ Gone /\ Walked
      /\ UNCHANGED <<disk, queue>> /\ Disk'
  BY DEF IndexInv, RunExternal, StoreExternal, ExternalFails, files, Disk
<1>1. CASE ExternalFails
  <2>1. Rows' /\ ShortFailed
    BY <1>0, <1>1, RowsStay DEF ExternalFails
  <2> QED BY <1>0, <2>1, ShortFails
<1>2. CASE RunExternal
  <2> DEFINE p == command.path
  <2>1. command.kind = "external" /\ pc \in {"run", "short"}
    BY <1>2 DEF RunExternal, Running
  <2>2. p \in Opened
    BY <1>0, <2>1 DEF Commands, Cmd, ScanCommand, ShortCommand, NoCommand
  <2>3. p \in Path
    BY <2>2 DEF Path
  <2>4. CASE rec[p].content # 0
    <3>1. /\ UNCHANGED <<rec, todo, probe, stage, root, gone, generation>>
          /\ command' = NoCommand /\ pc' = IF stage = "none" THEN "test" ELSE "pulse"
      BY <1>2, <2>4 DEF RunExternal, ShortDone, scan
    <3>2. Commands'
      BY <1>0, <3>1 DEF Commands
    <3>3. /\ pc \notin Probing /\ pc' \notin Probing \union {"roots"} /\ Commanded'
          /\ pc' \in Outside => stage = "none"
      BY <2>1, <3>1 DEF Probing, Outside, Commanded, NoCommand
    <3> QED BY <1>0, <3>1, <3>2, <3>3, Quiet
  <2>5. CASE rec[p].content = 0
    <3>1. rec' = [rec EXCEPT ![p].status = IF @ = "none" THEN "new" ELSE @]
      BY <1>2, <2>5 DEF RunExternal
    <3>2. \A q \in Path : /\ Row(rec'[q]) /\ rec'[q].content = rec[q].content
                          /\ rec'[q].stamp = rec[q].stamp /\ rec'[q].seen = rec[q].seen
      BY <1>0, <2>3, <3>1 DEF Rows, Row
    <3>3. rec' = [q \in Path |-> rec'[q]]
      BY <1>0, <3>1 DEF Rows
    <3>4. Rows'
      BY <1>0, <3>2, <3>3, RowsTouched
    <3>5. CASE disk[p].there
      <4>1. /\ probe' = [path |-> p, stamp |-> disk[p].version, content |-> 0]
            /\ pc' = "inspect" /\ UNCHANGED <<command, todo, stage, root, gone, generation>>
        BY <1>2, <2>5, <3>5 DEF RunExternal, scan
      <4>2. disk[p].version \in Nat
        BY <1>0, <2>3 DEF Disk
      <4> HIDE DEF p
      <4>3. Probed'
        <5>1. p = command.path'
          BY <4>1 DEF p
        <5> QED BY <1>0, <2>2, <2>3, <4>1, <4>2 DEF Probed, Probing
      <4>4. Commands' /\ Commanded' /\ Listed' /\ Staged' /\ Gone'
        BY <1>0, <2>1, <4>1 DEF Commands, Commanded, Listed, Staged, Gone, Outside
      <4>5. Walked'
        BY <1>0, <2>1, <3>2, <4>1, LibraryAssumption DEF Walked, Followed, Probing, Path
      <4> QED BY <1>0, <3>4, <4>3, <4>4, <4>5 DEF IndexInv
    <3>6. CASE ~disk[p].there
      <4>1. ShortFailed
        BY <1>2, <2>5, <3>6 DEF RunExternal
      <4> QED BY <1>0, <3>4, <4>1, ShortFails
    <3> QED BY <3>5, <3>6
  <2> QED BY <2>4, <2>5
<1>3. CASE StoreExternal
  <2>1. /\ pc = "commit" /\ command.kind = "external"
        /\ UNCHANGED <<todo, stage, root, gone, generation>>
        /\ probe' = [path |-> None, stamp |-> 0, content |-> 0]
        /\ command' = NoCommand /\ pc' = IF stage = "none" THEN "test" ELSE "pulse"
    BY <1>3 DEF StoreExternal, ShortDone, scan, NoProbe
  <2>2. /\ probe.path \in Opened /\ probe.path \in Path /\ probe.path \notin File
        /\ probe.stamp \in Nat /\ probe.content \in Nat /\ probe.stamp <= probe.content
    BY <1>0, <2>1, LibraryAssumption DEF Probed, Probing, Path
  <2>3. PICK now \in Clock : rec' = [rec EXCEPT ![probe.path] = Stored(now)]
    BY <1>3 DEF StoreExternal
  <2>4. /\ rec' = [q \in Path |-> rec'[q]]
        /\ \A q \in Path : q # probe.path => rec'[q] = rec[q]
        /\ rec'[probe.path] = [status |-> "indexed", stamp |-> probe.stamp,
                               content |-> probe.content, seen |-> now]
    BY <1>0, <2>2, <2>3 DEF Rows, Stored
  <2>5. Rows'
    BY <1>0, <2>2, <2>4 DEF Rows, Row, RowMatches
  <2>6. Commands' /\ Commanded' /\ Listed' /\ Staged' /\ Gone' /\ Probed'
    BY <1>0, <2>1 DEF Commands, Commanded, NoCommand, Listed, Staged, Gone, Probed, Probing, Outside
  <2>7. Walked'
    BY <1>0, <2>1, <2>2, <2>4 DEF Walked, Followed, Path
  <2> QED BY <1>0, <2>5, <2>6, <2>7 DEF IndexInv
<1> QED BY <1>1, <1>2, <1>3

-----------------------------------------------------------------------------
(* The walk.                                                               *)

LEMMA ListSteps ==
  ASSUME IndexInv, ListOpened \/ \E r \in Root : ListRoot(r)
  PROVE  IndexInv'
<1>0. /\ Rows /\ Disk /\ Commands /\ Commanded /\ Listed /\ Probed /\ Staged /\ Gone /\ Walked
      /\ UNCHANGED <<disk, queue, rec, command, probe, gone, generation>>
      /\ pc = "roots" /\ pc' = "visit"
  BY DEF IndexInv, ListOpened, ListRoot, files, db
<1>1. Rows' /\ Disk' /\ Commands' /\ Commanded' /\ Probed'
  BY <1>0, RowsStay DEF Disk, Commands, Commanded, Probed, Probing
<1>2. \A p \in Path : disk[p].version \in Nat /\ rec[p].stamp \in Nat
  BY <1>0 DEF Disk, Rows
<1>3. CASE ListOpened
  <2>1. /\ stage' = "refresh" /\ root' = root
        /\ todo' = {[path |-> p, stamp |-> IF rec[p].status = "indexed"
                                            THEN rec[p].stamp ELSE 0] :
                      p \in {q \in Opened : rec[q].status # "none"}}
    BY <1>3 DEF ListOpened
  <2>2. todo' \subseteq Visit
    BY <1>2, <2>1 DEF Visit, Path
  <2>3. Listed' /\ Staged' /\ Gone' /\ Walked'
    BY <1>0, <2>1, <2>2 DEF Listed, Staged, Gone, Walked, Outside
  <2> QED BY <1>1, <2>3 DEF IndexInv
<1>4. ASSUME NEW r \in Root, ListRoot(r)  PROVE IndexInv'
  <2>1. /\ stage' = stage /\ root' = r
        /\ todo' = {[path |-> p, stamp |-> disk[p].version] :
                      p \in {f \in File : RootOf[f] = r /\ disk[f].there}}
    BY <1>4 DEF ListRoot
  <2>2. Listed'
    BY <1>0, <1>2, <2>1 DEF Listed, Visit, Path
  <2>3. Staged' /\ Gone'
    BY <1>0, <2>1 DEF Staged, Gone, Outside
  <2>4. Walked'
    <3> SUFFICES ASSUME NEW p \in File, RootOf[p] = r, p \notin gone
                 PROVE  \E f \in todo' : f.path = p
      BY <1>0, <2>1 DEF Walked, Followed
    <3>1. disk[p].there
      BY <1>0 DEF Gone, Staged, Path
    <3>2. [path |-> p, stamp |-> disk[p].version] \in todo'
      BY <2>1, <3>1
    <3> QED BY <3>2
  <2> QED BY <1>1, <2>2, <2>3, <2>4 DEF IndexInv
<1> QED BY <1>3, <1>4

LEMMA MarkSteps ==
  ASSUME IndexInv, MarkMissing
  PROVE  /\ IndexInv'
         /\ \A p \in Path :
              rec'[p].status = "missing" /\ rec[p].status # "missing" => p \in gone
<1>0. /\ Rows /\ Disk /\ Commands /\ Commanded /\ Listed /\ Probed /\ Staged /\ Gone /\ Walked
      /\ UNCHANGED <<disk, queue, command, probe, gone, generation, stage, todo>>
      /\ pc = "visit" /\ pc' = "roots" /\ stage = "walk" /\ todo = {} /\ root' = None
      /\ rec' = [p \in Path |->
                   IF p \in File /\ rec[p].status # "none" /\ RootOf[p] = root
                        /\ rec[p].seen # generation
                     THEN [rec[p] EXCEPT !.status = "missing"] ELSE rec[p]]
  BY DEF IndexInv, MarkMissing, files
<1>1. \A p \in Path : /\ Row(rec'[p]) /\ rec'[p].content = rec[p].content
                      /\ rec'[p].stamp = rec[p].stamp
  <2> SUFFICES ASSUME NEW p \in Path
               PROVE  /\ Row(rec'[p]) /\ rec'[p].content = rec[p].content
                      /\ rec'[p].stamp = rec[p].stamp
    OBVIOUS
  <2>1. Row(rec[p])
    BY <1>0 DEF Rows
  <2>2. rec'[p] \in {rec[p], [rec[p] EXCEPT !.status = "missing"]}
    BY <1>0
  <2> QED BY <2>1, <2>2 DEF Row
<1>2. rec' = [p \in Path |-> rec'[p]]
  BY <1>0
<1>3. Rows'
  BY <1>0, <1>1, <1>2, RowsTouched
<1>4. Disk' /\ Commands' /\ Commanded' /\ Listed' /\ Probed' /\ Staged' /\ Gone'
  BY <1>0 DEF Disk, Commands, Commanded, Listed, Probed, Probing, Staged, Gone, Outside
<1>5. Walked'
  BY <1>0, LibraryAssumption DEF Walked
<1>6. ASSUME NEW p \in Path, rec'[p].status = "missing", rec[p].status # "missing",
             p \notin gone
      PROVE  FALSE
  <2>1. p \in File /\ RootOf[p] = root /\ rec[p].seen # generation
    BY <1>0, <1>6
  <2>2. Followed(p)
    BY <1>0, <1>6, <2>1 DEF Walked
  <2> QED BY <1>0, <2>1, <2>2 DEF Followed, Probing
<1> QED BY <1>3, <1>4, <1>5, <1>6 DEF IndexInv

LEMMA VisitSteps ==
  ASSUME IndexInv, NEW f \in todo, VisitFile(f)
  PROVE  IndexInv'
<1>0. /\ Rows /\ Disk /\ Commands /\ Commanded /\ Listed /\ Probed /\ Staged /\ Gone /\ Walked
      /\ UNCHANGED <<disk, queue, command, gone, generation, stage, root>>
      /\ pc = "pulse" /\ stage = "walk" /\ todo' = todo \ {f}
  BY DEF IndexInv, VisitFile, PulseOver, files
<1>1. f.path \in Path /\ f.stamp \in Nat /\ f.stamp <= disk[f.path].version
  BY <1>0 DEF Listed, Visit
<1>2. /\ Disk' /\ Listed' /\ Gone'
  BY <1>0 DEF Disk, Listed, Gone
<1>3. CASE ~force /\ rec[f.path].status = "indexed" /\ rec[f.path].stamp = f.stamp
  <2>1. /\ rec' = [rec EXCEPT ![f.path].seen = generation]
        /\ pc' = "visit" /\ probe' = probe
    BY <1>3 DEF VisitFile
  <2>2. /\ \A q \in Path : /\ Row(rec'[q]) /\ rec'[q].content = rec[q].content
                           /\ rec'[q].stamp = rec[q].stamp
        /\ \A q \in Path : rec'[q].seen = IF q = f.path THEN generation ELSE rec[q].seen
    BY <1>0, <1>1, <2>1 DEF Rows, Row
  <2>3. rec' = [q \in Path |-> rec'[q]]
    BY <1>0, <2>1 DEF Rows
  <2>4. Rows'
    BY <1>0, <2>2, <2>3, RowsTouched
  <2>5. Commands' /\ Commanded' /\ Probed' /\ Staged'
    BY <1>0, <2>1 DEF Commands, Commanded, Probed, Probing, Staged, Outside
  <2>6. Walked'
    BY <1>0, <2>1, <2>2 DEF Walked, Followed, Probing, Path
  <2> QED BY <1>2, <2>4, <2>5, <2>6 DEF IndexInv
<1>4. CASE ~(~force /\ rec[f.path].status = "indexed" /\ rec[f.path].stamp = f.stamp)
  <2>1. /\ rec' = [rec EXCEPT ![f.path].status = IF @ = "none" THEN "new" ELSE @]
        /\ pc' = "inspect" /\ probe' = [path |-> f.path, stamp |-> f.stamp, content |-> 0]
    BY <1>4 DEF VisitFile
  <2>2. \A q \in Path : /\ Row(rec'[q]) /\ rec'[q].content = rec[q].content
                        /\ rec'[q].stamp = rec[q].stamp /\ rec'[q].seen = rec[q].seen
    BY <1>0, <1>1, <2>1 DEF Rows, Row
  <2>3. rec' = [q \in Path |-> rec'[q]]
    BY <1>0, <2>1 DEF Rows
  <2>4. Rows'
    BY <1>0, <2>2, <2>3, RowsTouched
  <2>5. command.kind # "external"
    BY <1>0 DEF Commanded
  <2>6. Commands' /\ Commanded' /\ Staged'
    BY <1>0, <2>1 DEF Commands, Commanded, Probing, Staged, Outside
  <2>7. Probed'
    BY <1>0, <1>1, <2>1, <2>5 DEF Probed, Probing
  <2>8. Walked'
    BY <1>0, <2>1, <2>2 DEF Walked, Followed, Probing, Path
  <2> QED BY <1>2, <2>4, <2>6, <2>7, <2>8 DEF IndexInv
<1> QED BY <1>3, <1>4

LEMMA RefreshSteps ==
  ASSUME IndexInv, NEW f \in todo, VisitOpened(f)
  PROVE  IndexInv'
<1>0. /\ Rows /\ Disk /\ Commands /\ Commanded /\ Listed /\ Probed /\ Staged /\ Gone
      /\ UNCHANGED <<disk, queue, command, gone, generation, stage, root>>
      /\ pc = "pulse" /\ stage = "refresh" /\ todo' = todo \ {f}
  BY DEF IndexInv, VisitOpened, PulseOver, files
<1>1. f.path \in Path /\ disk[f.path].version \in Nat
  BY <1>0 DEF Listed, Visit, Disk
<1>2. Disk' /\ Listed' /\ Gone' /\ Walked' /\ Commands' /\ Commanded'
  <2>1. pc' \in {"visit", "inspect"}
    BY DEF VisitOpened
  <2> QED BY <1>0, <2>1 DEF Disk, Listed, Gone, Walked, Commands, Commanded
<1>3. CASE disk[f.path].there /\ (force \/ disk[f.path].version # f.stamp)
  <2>1. /\ pc' = "inspect" /\ rec' = rec
        /\ probe' = [path |-> f.path, stamp |-> disk[f.path].version, content |-> 0]
    BY <1>3 DEF VisitOpened
  <2>2. command.kind # "external"
    BY <1>0 DEF Commanded
  <2>3. Rows' /\ Staged'
    BY <1>0, <2>1, RowsStay DEF Staged, Outside
  <2>4. Probed'
    BY <1>0, <1>1, <2>1, <2>2 DEF Probed, Probing
  <2> QED BY <1>2, <2>3, <2>4 DEF IndexInv
<1>4. CASE ~(disk[f.path].there /\ (force \/ disk[f.path].version # f.stamp))
  <2>1. /\ pc' = "visit" /\ probe' = probe
        /\ rec' = IF disk[f.path].there THEN rec
                  ELSE [rec EXCEPT ![f.path].status = "unavailable"]
    BY <1>4 DEF VisitOpened
  <2>2. \A q \in Path : /\ Row(rec'[q]) /\ rec'[q].content = rec[q].content
                        /\ rec'[q].stamp = rec[q].stamp
    BY <1>0, <1>1, <2>1 DEF Rows, Row
  <2>3. rec' = [q \in Path |-> rec'[q]]
    BY <1>0, <2>1 DEF Rows
  <2>4. Rows'
    BY <1>0, <2>2, <2>3, RowsTouched
  <2>5. Probed' /\ Staged'
    BY <1>0, <2>1 DEF Probed, Probing, Staged, Outside
  <2> QED BY <1>2, <2>4, <2>5 DEF IndexInv
<1> QED BY <1>3, <1>4

LEMMA InspectSteps ==
  ASSUME IndexInv, Inspect \/ StoreFile \/ FileFails
  PROVE  IndexInv'
<1>0. /\ Rows /\ Disk /\ Commands /\ Commanded /\ Listed /\ Probed /\ Staged /\ Gone /\ Walked
      /\ UNCHANGED <<disk, queue, command, todo, gone, generation, stage, root>>
      /\ pc \in Probing
  BY DEF IndexInv, Inspect, StoreFile, FileFails, files, scan, Probing
<1>1. /\ probe.path \in Path /\ probe.stamp \in Nat /\ probe.content \in Nat
      /\ probe.stamp <= disk[probe.path].version /\ disk[probe.path].version \in Nat
      /\ pc = "commit" => /\ probe.stamp <= probe.content
                         /\ probe.content <= disk[probe.path].version
  BY <1>0 DEF Probed, Disk
<1>2. Disk' /\ Listed' /\ Gone' /\ Commands'
  BY <1>0 DEF Disk, Listed, Gone, Commands
<1>3. CASE Inspect
  <2>1. /\ probe' = [probe EXCEPT !.content = disk[probe.path].version]
        /\ pc = "inspect" /\ pc' = "commit" /\ rec' = rec
    BY <1>3 DEF Inspect, db
  <2>2. /\ probe' \in [path : Path \union {None}, stamp : Nat, content : Nat]
        /\ probe'.path = probe.path /\ probe'.stamp = probe.stamp
        /\ probe'.content = disk[probe.path].version
    BY <1>0, <1>1, <2>1 DEF Probed
  <2>3. Rows' /\ Staged' /\ Commanded'
    BY <1>0, <2>1, RowsStay DEF Staged, Outside, Commanded, Probing
  <2>4. Probed'
    BY <1>0, <1>1, <2>1, <2>2 DEF Probed, Probing
  <2>5. Walked'
    BY <1>0, <2>1, <2>2 DEF Walked, Followed, Probing
  <2> QED BY <1>2, <2>3, <2>4, <2>5 DEF IndexInv
<1>4. CASE StoreFile \/ FileFails
  <2>1. pc' = "visit" /\ probe' = [path |-> None, stamp |-> 0, content |-> 0]
    BY <1>4 DEF StoreFile, FileFails, NoProbe
  <2>2. Probed' /\ Staged' /\ Commanded'
    <3>1. command.kind # "external"
      BY <1>4 DEF StoreFile, FileFails
    <3> QED BY <1>0, <2>1, <3>1 DEF Probed, Probing, Staged, Outside, Commanded
  <2>3. CASE StoreFile
    <3>1. /\ rec' = [rec EXCEPT ![probe.path] = Stored(generation)]
          /\ pc = "commit" /\ disk[probe.path].version = probe.stamp
      BY <2>3 DEF StoreFile, Unchanged
    <3>2. /\ rec' = [q \in Path |-> rec'[q]]
          /\ \A q \in Path : q # probe.path => rec'[q] = rec[q]
          /\ rec'[probe.path] = [status |-> "indexed", stamp |-> probe.stamp,
                                 content |-> probe.content, seen |-> generation]
      BY <1>0, <1>1, <3>1 DEF Rows, Stored
    <3>3. probe.stamp = probe.content
      BY <1>1, <3>1
    <3>4. Rows'
      BY <1>0, <1>1, <3>2, <3>3 DEF Rows, Row, RowMatches
    <3>5. Walked'
      BY <1>0, <2>1, <3>2 DEF Walked, Followed, Path
    <3> QED BY <1>2, <2>2, <3>4, <3>5 DEF IndexInv
  <2>4. CASE FileFails
    <3>1. rec' = [rec EXCEPT ![probe.path] =
            IF stage = "walk" THEN [@ EXCEPT !.status = "error", !.seen = generation]
                              ELSE [@ EXCEPT !.status = "unavailable"]]
      BY <2>4 DEF FileFails
    <3>2. /\ rec' = [q \in Path |-> rec'[q]]
          /\ \A q \in Path : q # probe.path => rec'[q] = rec[q]
          /\ rec'[probe.path] =
               IF stage = "walk"
                 THEN [rec[probe.path] EXCEPT !.status = "error", !.seen = generation]
                 ELSE [rec[probe.path] EXCEPT !.status = "unavailable"]
      BY <1>0, <1>1, <3>1 DEF Rows
    <3>3. Row(rec[probe.path])
      BY <1>0, <1>1 DEF Rows
    <3>4. /\ Row(rec'[probe.path]) /\ rec'[probe.path].content = rec[probe.path].content
          /\ rec'[probe.path].stamp = rec[probe.path].stamp
          /\ stage = "walk" => rec'[probe.path].seen = generation
      BY <3>2, <3>3 DEF Row
    <3>5. \A q \in Path : /\ Row(rec'[q]) /\ rec'[q].content = rec[q].content
                          /\ rec'[q].stamp = rec[q].stamp
      BY <1>0, <3>2, <3>4 DEF Rows
    <3>6. Rows'
      BY <1>0, <3>2, <3>5, RowsTouched
    <3>7. Walked'
      BY <1>0, <2>1, <3>2, <3>4 DEF Walked, Followed, Path
    <3> QED BY <1>2, <2>2, <3>6, <3>7 DEF IndexInv
  <2> QED BY <1>4, <2>3, <2>4
<1> QED BY <1>3, <1>4

-----------------------------------------------------------------------------
LEMMA IndexStep ==
  ASSUME IndexInv, [Next]_vars
  PROVE  IndexInv'
<1>1. CASE Environment \/ Destructor
  BY <1>1, FileSteps, CallSteps, OverSteps DEF Environment, Destructor
<1>2. CASE Worker
  BY <1>2, QuietSteps, OverSteps, StartSteps, ExternalSteps, ListSteps, MarkSteps, VisitSteps,
     RefreshSteps, InspectSteps DEF Worker
<1>3. CASE UNCHANGED vars
  <2>1. UNCHANGED <<disk, rec, todo, probe, stage, root, gone, generation, pc, queue, command>>
    BY <1>3 DEF vars, files, db, scan
  <2>2. Commands' /\ Commanded'
    BY <2>1 DEF IndexInv, Commands, Commanded
  <2>3. pc' \in Outside => stage = "none"
    BY <2>1 DEF IndexInv, Staged
  <2> QED BY <2>1, <2>2, <2>3, Quiet
<1> QED BY <1>1, <1>2, <1>3 DEF Next

LEMMA IndexStart == Init => IndexInv
<1> SUFFICES ASSUME Init  PROVE IndexInv
  OBVIOUS
<1>1. /\ rec = [p \in Path |-> [status |-> "none", stamp |-> 0, content |-> 0, seen |-> 0]]
      /\ disk = [p \in Path |-> [there |-> TRUE, version |-> 1]]
      /\ pc = "open" /\ queue = <<>> /\ command = NoCommand
      /\ stage = "none" /\ root = None /\ todo = {}
      /\ probe = [path |-> None, stamp |-> 0, content |-> 0]
  BY DEF Init, NoRow, NoProbe
<1>2. Rows /\ Disk
  BY <1>1 DEF Rows, Row, RowMatches, Disk
<1>3. Commands /\ Commanded /\ Listed /\ Probed /\ Staged /\ Gone /\ Walked
  BY <1>1 DEF Commands, Commanded, Listed, Probed, Probing, Staged, Outside, Gone, Walked
<1> QED BY <1>2, <1>3 DEF IndexInv

LEMMA Invariance == Spec => []IndexInv
BY IndexStart, IndexStep, PTL DEF Spec

(* A row's contents are those of its fingerprint, or newer for a game      *)
(* opened directly: for any number of writes, between any two reads of an  *)
(* inspection, across cancelled scans, failures and kills.                 *)
THEOREM RowsAreCoherent == Spec => []FingerprintNamesContents
<1>1. IndexInv => FingerprintNamesContents
  BY DEF IndexInv, Rows, FingerprintNamesContents
<1> QED BY <1>1, Invariance, PTL

(* No step but the end of a walk calls a file missing. *)
LEMMA OnlyMarks ==
  ASSUME IndexInv, [Next]_vars, ~MarkMissing, NEW p \in Path,
         rec'[p].status = "missing", rec[p].status # "missing"
  PROVE  FALSE
<1>0. Row(rec[p]) /\ rec = [q \in Path |-> rec[q]]
  BY DEF IndexInv, Rows
<1>1. CASE rec' = rec
  BY <1>1
<1>2. CASE StartScan
  <2>1. rec'[p] = rec[p] \/ rec'[p] = [rec[p] EXCEPT !.stamp = 0]
    BY <1>2 DEF StartScan
  <2> QED BY <1>0, <2>1 DEF Row
<1>3. CASE RunExternal
  <2>1. \/ rec' = rec
        \/ rec' = [rec EXCEPT ![command.path].status = IF @ = "none" THEN "new" ELSE @]
    BY <1>3 DEF RunExternal
  <2> QED BY <1>0, <2>1 DEF Row
<1>4. ASSUME NEW f \in todo, VisitFile(f)  PROVE FALSE
  <2>1. \/ rec' = [rec EXCEPT ![f.path].seen = generation]
        \/ rec' = [rec EXCEPT ![f.path].status = IF @ = "none" THEN "new" ELSE @]
    BY <1>4 DEF VisitFile
  <2> QED BY <1>0, <2>1 DEF Row
<1>5. ASSUME NEW f \in todo, VisitOpened(f)  PROVE FALSE
  <2>1. rec' = rec \/ rec' = [rec EXCEPT ![f.path].status = "unavailable"]
    BY <1>5 DEF VisitOpened
  <2> QED BY <1>0, <2>1 DEF Row
<1>6. CASE StoreFile \/ StoreExternal
  <2>1. PICK n : rec' = [rec EXCEPT ![probe.path] = Stored(n)]
    BY <1>6 DEF StoreFile, StoreExternal
  <2> QED BY <1>0, <2>1 DEF Row, Stored
<1>7. CASE FileFails
  <2>1. \/ rec' = [rec EXCEPT ![probe.path] = [@ EXCEPT !.status = "error", !.seen = generation]]
        \/ rec' = [rec EXCEPT ![probe.path] = [@ EXCEPT !.status = "unavailable"]]
    BY <1>7 DEF FileFails
  <2>2. \/ rec'[p] = rec[p]
        \/ rec'[p] = [rec[p] EXCEPT !.status = "error", !.seen = generation]
        \/ rec'[p] = [rec[p] EXCEPT !.status = "unavailable"]
    BY <1>0, <2>1
  <2>3. rec[p] = [status |-> rec[p].status, stamp |-> rec[p].stamp,
                  content |-> rec[p].content, seen |-> rec[p].seen]
    BY <1>0 DEF Row
  <2>4. /\ [rec[p] EXCEPT !.status = "error", !.seen = generation].status = "error"
        /\ [rec[p] EXCEPT !.status = "unavailable"].status = "unavailable"
    BY <2>3
  <2> QED BY <2>2, <2>4
<1>8. CASE Environment \/ Destructor \/ UNCHANGED vars
  <2>1. rec' = rec
    BY <1>8 DEF Environment, Destructor, WriteFile, RemoveFile, Restart, CallScan, CancelScan,
       CallShort, Destroy, DestroyCancel, DestroyNotify, db, vars
  <2> QED BY <1>1, <2>1
<1>9. CASE Worker
  <2>1. CASE Open \/ Test \/ Sleep \/ Skip \/ Refuse \/ RunQuery \/ RunSession
             \/ ScanCancelled \/ (\E r \in Root : ListRoot(r) \/ ListFails(r))
             \/ ListOpened \/ FinishScan \/ EnterPulse \/ Pulse \/ Inspect \/ ExternalFails
    <3>1. rec' = rec
      BY <2>1 DEF Open, Test, Sleep, Skip, Refuse, RunQuery, RunSession, ScanCancelled,
         ListRoot, ListFails, ListOpened, FinishScan, EnterPulse, Pulse, Inspect,
         ExternalFails, db
    <3> QED BY <1>1, <3>1
  <2> QED BY <1>2, <1>3, <1>4, <1>5, <1>6, <1>7, <1>9, <2>1 DEF Worker
<1> QED BY <1>8, <1>9 DEF Next

(* Only a file that was away during the scan becomes missing, for any      *)
(* roots and any interleaving of the walk with changes, calls, failures    *)
(* and restarts.                                                           *)
THEOREM MissingWasGone == Spec => OnlyGoneIsMissing
<1>1. ASSUME IndexInv, [Next]_vars
      PROVE  \A p \in Path : rec'[p].status = "missing" /\ rec[p].status # "missing"
                               => p \in gone
  BY <1>1, MarkSteps, OnlyMarks
<1> QED BY <1>1, Invariance, PTL DEF Spec, OnlyGoneIsMissing


-----------------------------------------------------------------------------
(* Sessions: how many a queue holds.                                       *)

SessionsIn(q) == {i \in 1 .. Len(q) : q[i].kind = "session"}
Count(q) == Cardinality(SessionsIn(q))
Owed(c) == IF c.kind = "session" THEN 1 ELSE 0

LEMMA CountTypes ==
  ASSUME NEW q \in Seq(Cmd)
  PROVE  IsFiniteSet(SessionsIn(q)) /\ Count(q) \in Nat
<1>1. IsFiniteSet(1 .. Len(q))
  BY FS_Interval
<1>2. IsFiniteSet(SessionsIn(q))
  BY <1>1, FS_Subset DEF SessionsIn
<1> QED BY <1>2, FS_CardinalityType DEF Count

LEMMA CountEmpty == Count(<<>>) = 0
<1>1. SessionsIn(<<>>) = {}
  BY DEF SessionsIn
<1> QED BY <1>1, FS_EmptySet DEF Count

LEMMA CountAppend ==
  ASSUME NEW q \in Seq(Cmd), NEW c \in Cmd
  PROVE  Count(Append(q, c)) = Count(q) + Owed(c)
<1> DEFINE n == Len(q) + 1
<1>1. /\ Len(Append(q, c)) = n /\ n \in Nat
      /\ \A i \in 1 .. Len(q) : Append(q, c)[i] = q[i]
      /\ Append(q, c)[n] = c
  BY AppendProperties
<1>2. n \notin SessionsIn(q)
  BY DEF SessionsIn
<1>3. IsFiniteSet(SessionsIn(q)) /\ Count(q) \in Nat
  BY CountTypes
<1>4. CASE c.kind = "session"
  <2>1. SessionsIn(Append(q, c)) = SessionsIn(q) \union {n}
    BY <1>1, <1>4 DEF SessionsIn
  <2>2. Count(Append(q, c)) = Count(q) + 1
    BY <1>2, <1>3, <2>1, FS_AddElement DEF Count
  <2> QED BY <1>4, <2>2 DEF Owed
<1>5. CASE c.kind # "session"
  <2>1. SessionsIn(Append(q, c)) = SessionsIn(q)
    BY <1>1, <1>5 DEF SessionsIn
  <2> QED BY <1>3, <1>5, <2>1 DEF Owed, Count
<1> QED BY <1>4, <1>5

LEMMA CountTail ==
  ASSUME NEW q \in Seq(Cmd), q # <<>>
  PROVE  Count(q) = Count(Tail(q)) + Owed(Head(q))
<1> DEFINE S == SessionsIn(Tail(q))
           T == SessionsIn(q) \ {1}
           next == [i \in S |-> i + 1]
<1>1. /\ Tail(q) \in Seq(Cmd) /\ Len(Tail(q)) = Len(q) - 1
      /\ \A i \in 1 .. Len(Tail(q)) : Tail(q)[i] = q[i + 1]
      /\ Head(q) = q[1] /\ Len(q) \in Nat \ {0}
  BY HeadTailProperties
<1>2. next \in Bijection(S, T)
  <2>1. next \in [S -> T]
    BY <1>1 DEF SessionsIn
  <2>2. \A i, j \in S : next[i] = next[j] => i = j
    BY <1>1 DEF SessionsIn
  <2>3. \A k \in T : \E i \in S : next[i] = k
    <3> SUFFICES ASSUME NEW k \in T PROVE \E i \in S : next[i] = k
      OBVIOUS
    <3>1. k - 1 \in S /\ (k - 1) + 1 = k
      BY <1>1 DEF SessionsIn
    <3> QED BY <3>1
  <2> HIDE DEF S, T, next
  <2> QED BY <2>1, <2>2, <2>3 DEF Bijection, Injection, IsInjective, Surjection
<1>3. IsFiniteSet(S) /\ Count(Tail(q)) \in Nat
  BY <1>1, CountTypes
<1>4. Cardinality(T) = Count(Tail(q))
  <2>1. ExistsBijection(S, T)
    BY <1>2 DEF ExistsBijection
  <2> HIDE DEF T
  <2> QED BY <1>3, <2>1, FS_Bijection DEF Count
<1>5. IsFiniteSet(SessionsIn(q)) /\ Count(q) \in Nat
  BY CountTypes
<1>6. Cardinality(T) = IF 1 \in SessionsIn(q) THEN Count(q) - 1 ELSE Count(q)
  BY <1>5, FS_RemoveElement DEF Count
<1>7. 1 \in SessionsIn(q) <=> Head(q).kind = "session"
  BY <1>1 DEF SessionsIn
<1> HIDE DEF T
<1> QED BY <1>3, <1>4, <1>5, <1>6, <1>7 DEF Owed

LEMMA CountCancelled ==
  ASSUME queue \in Seq(Cmd)
  PROVE  Count(Cancelling(queue)) = Count(queue)
<1>1. \A i \in 1 .. Len(queue) : Cancelled(queue[i]).kind = queue[i].kind
  <2> SUFFICES ASSUME NEW i \in 1 .. Len(queue)
               PROVE  Cancelled(queue[i]).kind = queue[i].kind
    OBVIOUS
  <2>1. queue[i] \in Cmd
    OBVIOUS
  <2> QED BY <2>1, CancelledKeeps
<1>2. Len(Cancelling(queue)) = Len(queue)
  BY DEF Cancelling
<1>3. \A i \in 1 .. Len(queue) : Cancelling(queue)[i] = Cancelled(queue[i])
  BY DEF Cancelling
<1>4. SessionsIn(Cancelling(queue)) = SessionsIn(queue)
  BY <1>1, <1>2, <1>3 DEF SessionsIn
<1> QED BY <1>4 DEF Count

(* No session is lost: those handed over are in the database, in the       *)
(* queue, or in the worker's hands, unless the database could not be       *)
(* opened.  Before it takes a command the worker holds none, so that it    *)
(* overwrites none; and nothing enters the queue once it was found empty   *)
(* by the worker that ends.                                                *)
Counted == ready \/ pc = "open" => accepted = sessions + Count(queue) + Owed(command)
Idle == pc \in {"open", "test", "tested", "asleep", "closed"} => command.kind = "none"
Emptied == pc = "closed" => queue = <<>>
Unopened == pc = "open" => ~ready

KeptInv == Counted /\ Idle /\ Emptied /\ Unopened /\ sessions \in Nat /\ accepted \in Nat

Others == Idle /\ Emptied /\ Unopened

LEMMA KeptCalls ==
  ASSUME IndexInv, KeptInv,
         NEW c \in Cmd, (CallScan(c) /\ c.kind # "session") \/ CallShort(c)
  PROVE  KeptInv'
<1>1. queue \in Seq(Cmd) /\ command \in Cmd \union {NoCommand}
  BY DEF IndexInv, Commands
<1>2. Cancelling(queue) \in Seq(Cmd) /\ Count(Cancelling(queue)) = Count(queue)
  BY <1>1, QueueCancelled, CountCancelled
<1>3. Count(queue') = Count(queue) + Owed(c) /\ Count(queue) \in Nat
  <2>1. queue' = Append(queue, c) \/ queue' = Append(Cancelling(queue), c)
    BY DEF CallScan, CallShort, Enqueued
  <2> QED BY <1>1, <1>2, <2>1, CountAppend, CountTypes
<1>4. command'.kind = command.kind
  <2>1. command' = command \/ command' = Cancelled(command)
    BY DEF CallScan, CallShort, Cancel
  <2> QED BY <1>1, <2>1, CancelledKeeps
<1>5. accepted' = accepted + Owed(c) /\ sessions' = sessions /\ ready' = ready
  BY DEF CallScan, CallShort, Owed, KeptInv, db
<1>6. /\ pc # "closed"
      /\ pc' = pc \/ (pc = "asleep" /\ pc' = "test")
  BY DEF CallScan, CallShort, CanCall, Enqueued
<1>7. Counted'
  <2>1. Owed(command') = Owed(command) /\ Owed(command) \in Nat /\ Owed(c) \in Nat
    BY <1>4 DEF Owed
  <2> QED BY <1>3, <1>5, <1>6, <2>1 DEF KeptInv, Counted
<1>8. Others' /\ sessions' \in Nat /\ accepted' \in Nat
  BY <1>4, <1>5, <1>6 DEF KeptInv, Others, Idle, Emptied, Unopened, Owed
<1> QED BY <1>7, <1>8 DEF KeptInv, Others

(* Steps that leave the queue and the counts alone. *)
LEMMA KeptQuiet ==
  ASSUME IndexInv, KeptInv, UNCHANGED <<queue, sessions, accepted>>,
         Owed(command') = Owed(command), Others',
         ready' \/ pc' = "open" => ready \/ pc = "open"
  PROVE  KeptInv'
  BY DEF KeptInv, Counted, Others

LEMMA KeptEnvironment ==
  ASSUME IndexInv, KeptInv, Environment \/ Destructor
  PROVE  KeptInv'
<1>1. queue \in Seq(Cmd) /\ command \in Cmd \union {NoCommand}
  BY DEF IndexInv, Commands
<1>2. ASSUME NEW p \in Path, WriteFile(p) \/ RemoveFile(p) PROVE KeptInv'
  BY <1>2, KeptQuiet DEF WriteFile, RemoveFile, env, db, KeptInv, Others, Idle, Emptied, Unopened
<1>3. CASE Restart
  <2>1. /\ accepted' = sessions /\ sessions' = sessions /\ queue' = <<>>
        /\ command' = NoCommand /\ pc' = "open" /\ ready' = FALSE
    BY <1>3 DEF Restart, db
  <2>2. Owed(command') = 0 /\ Count(queue') = 0
    BY <2>1, CountEmpty DEF NoCommand, Owed
  <2> QED BY <2>1, <2>2 DEF KeptInv, Counted, Idle, Emptied, Unopened, NoCommand
<1>4. ASSUME NEW c \in ScanCall, CallScan(c) PROVE KeptInv'
  <2>1. c \in Cmd /\ c.kind # "session"
    <3>1. CASE \E E \in Configured, s \in BOOLEAN :
                 c = [kind |-> "configure", roots |-> E, scan |-> s, cancelled |-> FALSE]
      BY <3>1, LibraryAssumption DEF Cmd, ScanCommand
    <3>2. CASE \E f \in BOOLEAN : c = [kind |-> "scan", force |-> f, cancelled |-> FALSE]
      BY <3>2 DEF Cmd, ScanCommand
    <3>3. CASE c = [kind |-> "rebuild", cancelled |-> FALSE]
      BY <3>3 DEF Cmd, ScanCommand
    <3> QED BY <3>1, <3>2, <3>3 DEF ScanCall
  <2> QED BY <1>4, <2>1, KeptCalls
<1>5. ASSUME NEW c \in ShortCommand, CallShort(c) PROVE KeptInv'
  <2>1. c \in Cmd
    BY DEF Cmd
  <2> QED BY <1>5, <2>1, KeptCalls
<1>6. CASE CancelScan \/ Destroy \/ DestroyCancel \/ DestroyNotify
  <2>1. /\ Count(queue') = Count(queue)
        /\ queue = <<>> => queue' = <<>>
    <3>1. queue' = queue \/ queue' = Cancelling(queue)
      BY <1>6 DEF CancelScan, Destroy, DestroyCancel, DestroyNotify
    <3>2. queue = <<>> => Cancelling(queue) = <<>>
      BY DEF Cancelling
    <3> QED BY <1>1, <3>1, <3>2, CountCancelled
  <2>2. command'.kind = command.kind
    <3>1. command' = command \/ command' = Cancelled(command)
      BY <1>6 DEF CancelScan, Destroy, DestroyCancel, DestroyNotify, Cancel
    <3> QED BY <1>1, <3>1, CancelledKeeps
  <2>3. /\ UNCHANGED <<sessions, accepted, ready>>
        /\ pc' = pc \/ (pc = "asleep" /\ pc' = "test")
    BY <1>6 DEF CancelScan, Destroy, DestroyCancel, DestroyNotify, db
  <2>4. Owed(command') = Owed(command)
    BY <2>2 DEF Owed
  <2> QED BY <2>1, <2>2, <2>3, <2>4 DEF KeptInv, Counted, Idle, Emptied, Unopened
<1> QED BY <1>2, <1>3, <1>4, <1>5, <1>6 DEF Environment, Destructor

(* The worker takes a command from the queue. *)
LEMMA KeptTakes ==
  ASSUME IndexInv, KeptInv, Test \/ Pulse
  PROVE  KeptInv'
<1>1. queue \in Seq(Cmd)
  BY DEF IndexInv, Commands
<1>2. command.kind = "none" /\ pc # "open" /\ pc' # "open"
  BY DEF Test, Pulse, KeptInv, Idle, IndexInv, Commanded
<1>3. UNCHANGED <<sessions, accepted, ready>>
  BY DEF Test, Pulse, env, db
<1>4. CASE queue # <<>>
  <2>1. /\ command' = Head(queue) /\ queue' = Tail(queue)
        /\ pc' \in {"run", "short"}
    BY <1>4 DEF Test, Pulse
  <2>2. Count(queue) = Count(queue') + Owed(command') /\ Owed(command) = 0
    BY <1>1, <1>2, <1>4, <2>1, CountTail DEF Owed
  <2>3. Count(queue') \in Nat /\ Owed(command') \in {0, 1}
    <3>1. Tail(queue) \in Seq(Cmd)
      BY <1>1, <1>4
    <3>2. Count(Tail(queue)) \in Nat
      BY <3>1, CountTypes
    <3> QED BY <2>1, <3>2 DEF Owed
  <2> QED BY <1>2, <1>3, <2>1, <2>2, <2>3 DEF KeptInv, Counted, Idle, Emptied, Unopened
<1>5. CASE queue = <<>>
  <2>1. command' = command /\ queue' = queue
    BY <1>5 DEF Test, Pulse
  <2> QED BY <1>2, <1>3, <1>5, <2>1, KeptQuiet DEF Others, Idle, Emptied, Unopened
<1> QED BY <1>4, <1>5

LEMMA KeptSession ==
  ASSUME IndexInv, KeptInv, RunSession
  PROVE  KeptInv'
<1>1. /\ sessions' = sessions + 1 /\ UNCHANGED <<accepted, queue, ready>>
      /\ command.kind = "session" /\ command' = NoCommand
      /\ pc' \in {"test", "pulse"} /\ pc # "open"
  BY DEF RunSession, Running, ShortDone, env
<1>2. Owed(command) = 1 /\ Owed(command') = 0
  BY <1>1 DEF Owed, NoCommand
<1>3. Count(queue) \in Nat
  BY CountTypes DEF IndexInv, Commands
<1> QED BY <1>1, <1>2, <1>3 DEF KeptInv, Counted, Idle, Emptied, Unopened, NoCommand

(* Every other step drops no command but a scan, a query or a game that    *)
(* was opened, or one that a database that did not open refuses.           *)
LEMMA KeptOthers ==
  ASSUME IndexInv, KeptInv, Worker, ~Test, ~Pulse, ~RunSession
  PROVE  KeptInv'
<1>1. UNCHANGED <<queue, sessions, accepted>>
  BY DEF Worker, Open, Sleep, Skip, Refuse, RunQuery, RunExternal, StartScan, ScanCancelled,
         ListRoot, ListFails, ListOpened, MarkMissing, FinishScan, EnterPulse, VisitFile,
         VisitOpened, Inspect, StoreFile, FileFails, StoreExternal, ExternalFails, env, db
<1>2. CASE Refuse
  <2>1. ready' = FALSE /\ pc' = "test" /\ command' = NoCommand /\ ready = FALSE
    BY <1>2 DEF Refuse, RunFailed, Ended, KeptInv
  <2> QED BY <1>1, <2>1 DEF KeptInv, Counted, Idle, Emptied, Unopened, NoCommand
<1>3. CASE Open \/ Sleep
  <2>1. /\ pc \in {"open", "tested"} /\ pc' \in {"test", "asleep"} /\ command' = command
        /\ ready' => ready \/ pc = "open"
    BY <1>3 DEF Open, Sleep
  <2> QED BY <1>1, <2>1, KeptQuiet DEF KeptInv, Others, Idle, Emptied, Unopened
<1>4. ASSUME pc \notin {"open", "closed"}, pc' \notin {"open", "closed"}, ready' = ready,
             command' = NoCommand, command.kind # "session"
      PROVE  KeptInv'
  <2>1. Owed(command') = Owed(command) /\ command'.kind = "none"
    BY <1>4 DEF Owed, NoCommand
  <2> QED BY <1>1, <1>4, <2>1, KeptQuiet DEF Others, Idle, Emptied, Unopened
<1>5. ASSUME pc \notin {"open", "closed"}, ready' = ready, command' = command,
             pc' \notin {"open", "test", "tested", "asleep", "closed"}
      PROVE  KeptInv'
  <2>1. Owed(command') = Owed(command)
    BY <1>5
  <2> QED BY <1>1, <1>5, <2>1, KeptQuiet DEF Others, Idle, Emptied, Unopened
<1>6. CASE Skip \/ RunQuery
  BY <1>4, <1>6 DEF Skip, IsScan, ScanKind, RunQuery, Running, ShortDone
<1>7. CASE RunExternal
  <2>1. command.kind = "external" /\ pc \in {"run", "short"} /\ ready' = ready
    BY <1>7 DEF RunExternal, Running
  <2>2. \/ command' = NoCommand /\ pc' \in {"test", "pulse", "roots"}
        \/ command' = command /\ pc' = "inspect"
    BY <1>7 DEF RunExternal, ShortDone, ShortFailed, RunFailed, Ended
  <2> QED BY <1>4, <1>5, <2>1, <2>2
<1>8. CASE StartScan
  <2>1. IsScan(command) /\ pc = "run" /\ ready' = ready
    BY <1>8 DEF StartScan
  <2>2. command' = NoCommand /\ pc' \in {"test", "roots"}
    BY <1>8 DEF StartScan, RunCancelled, Ended
  <2> QED BY <1>4, <2>1, <2>2 DEF IsScan, ScanKind
<1>9. CASE ScanCancelled \/ FinishScan
  <2>1. /\ pc \in {"visit", "inspect", "roots", "commit"} /\ ready' = ready
        /\ command' = NoCommand /\ pc' = "test"
    BY <1>9 DEF ScanCancelled, FinishScan, RunCancelled, Ended
  <2>2. command.kind \in {"none", "external"}
    BY <2>1 DEF IndexInv, Commanded, Probing
  <2> QED BY <1>4, <2>1, <2>2
<1>10. CASE StoreExternal \/ ExternalFails
  <2>1. /\ pc \in {"inspect", "commit"} /\ ready' = ready /\ command.kind = "external"
        /\ command' = NoCommand /\ pc' \in {"test", "pulse", "roots"}
    BY <1>10 DEF StoreExternal, ExternalFails, ShortDone, ShortFailed, RunFailed, Ended
  <2> QED BY <1>4, <2>1
<1>11. CASE \/ \E r \in Root : ListRoot(r) \/ ListFails(r)
            \/ ListOpened \/ MarkMissing \/ EnterPulse
            \/ \E f \in todo : VisitFile(f) \/ VisitOpened(f)
            \/ Inspect \/ StoreFile \/ FileFails
  <2>1. /\ pc \in {"roots", "visit", "pulse", "inspect", "commit"}
        /\ pc' \in {"roots", "visit", "pulse", "inspect", "commit"}
        /\ ready' = ready /\ command' = command
    BY <1>11 DEF ListRoot, ListFails, ListOpened, MarkMissing, EnterPulse, VisitFile,
                 VisitOpened, PulseOver, Inspect, StoreFile, FileFails
  <2> QED BY <1>5, <2>1
<1> QED BY <1>2, <1>3, <1>6, <1>7, <1>8, <1>9, <1>10, <1>11 DEF Worker

LEMMA KeptStep == IndexInv /\ KeptInv /\ [Next]_vars => KeptInv'
<1> SUFFICES ASSUME IndexInv, KeptInv, [Next]_vars PROVE KeptInv'
  OBVIOUS
<1>1. CASE UNCHANGED vars
  BY <1>1 DEF vars, env, db, KeptInv, Counted, Idle, Emptied, Unopened
<1> QED BY <1>1, KeptEnvironment, KeptTakes, KeptSession, KeptOthers DEF Next

LEMMA KeptStart == Init => KeptInv
<1>1. Init => Owed(command) = 0 /\ Count(queue) = 0 /\ command.kind = "none"
  BY CountEmpty DEF Init, Owed, NoCommand
<1> QED BY <1>1 DEF Init, KeptInv, Counted, Idle, Emptied, Unopened

-----------------------------------------------------------------------------
(* The number of a scan is above every row's.                              *)

(* A finite set of numbers has a greatest: one above which are no others,  *)
(* the least, by inclusion, of the sets of those above a member.           *)
LEMMA GreatestOf ==
  ASSUME NEW S \in SUBSET Nat, IsFiniteSet(S), S # {}
  PROVE  \E n \in S : \A m \in S : m <= n
<1> DEFINE Above(n) == {m \in S : m > n}
           T == {Above(n) : n \in S}
           R == StrictSubsetOrdering(S)
<1>1. IsWellFoundedOn(R, FiniteSubsetsOf(S))
  BY FS_StrictSubsetOrderingWellFounded
<1>2. T \subseteq FiniteSubsetsOf(S) /\ T # {}
  <2>1. ASSUME NEW n \in S  PROVE Above(n) \in SUBSET S /\ IsFiniteSet(Above(n))
    BY FS_Subset
  <2> QED BY <2>1 DEF FiniteSubsetsOf
<1>3. PICK x \in T : \A y \in T : ~ (<<y, x>> \in R)
  <2> HIDE DEF R, T
  <2> QED BY <1>1, <1>2, WFMin
<1>4. PICK n \in S : x = Above(n)
  BY <1>3
<1>5. ASSUME NEW m \in S, m > n  PROVE FALSE
  <2>1. Above(m) \subseteq Above(n) /\ m \in Above(n) /\ m \notin Above(m)
    <3>1. m \in Nat /\ n \in Nat
      OBVIOUS
    <3>2. ASSUME NEW k \in S, k > m  PROVE k > n
      <4>1. k \in Nat
        OBVIOUS
      <4> QED BY <1>5, <3>1, <3>2, <4>1
    <3>3. ~(m > m)
      BY <3>1
    <3> QED BY <1>5, <3>2, <3>3
  <2>2. <<Above(m), Above(n)>> \in (SUBSET S) \X (SUBSET S)
    OBVIOUS
  <2>3. <<Above(m), Above(n)>> \in R
    BY <2>1, <2>2 DEF StrictSubsetOrdering
  <2> QED BY <1>3, <1>4, <2>3
<1>6. \A m \in S : m \in Nat /\ n \in Nat
  OBVIOUS
<1> QED BY <1>5, <1>6

RowTypes ==
  rec \in [Path -> [status : {"none", "new", "indexed", "missing", "error", "unavailable"},
                    stamp : Nat, content : Nat, seen : Nat]]

LEMMA HighestIsNumber ==
  ASSUME RowTypes
  PROVE  Highest \in Nat
<1> DEFINE f == [p \in Path |-> rec[p].seen]
           V == {rec[p].seen : p \in Path}
           S == V \union {0}
<1>1. IsFiniteSet(Path)
  BY LibraryAssumption, FS_Union DEF Path
<1>2. f \in Surjection(Path, V)
  BY DEF Surjection
<1>3. IsFiniteSet(V)
  <2> HIDE DEF f, V
  <2> QED BY <1>1, <1>2, FS_Surjection
<1>4. IsFiniteSet(S)
  <2> HIDE DEF V
  <2> QED BY <1>3, FS_AddElement
<1>5. S \in SUBSET Nat /\ S # {}
  BY DEF RowTypes
<1>6. \E n \in S : \A m \in S : m <= n
  <2> HIDE DEF S
  <2> QED BY <1>4, <1>5, GreatestOf
<1>7. \E n \in S : \A p \in Path : rec[p].seen <= n
  BY <1>6
<1>8. Highest \in S
  BY <1>7 DEF Highest
<1> QED BY <1>5, <1>8

-----------------------------------------------------------------------------
(* The types that the invariants above do not hold.  While a root is being *)
(* walked there is one.                                                    *)

Numbered == RowTypes /\ generation \in Nat
Rooted == stage = "walk" /\ pc # "roots" => root \in Root
Tabled == /\ rootError \subseteq Root /\ enabled \subseteq Root /\ recent \subseteq Opened
          /\ roots \subseteq Root /\ root \in Root \union {None} /\ gone \subseteq Path
Placed == /\ pc \in Pc /\ stage \in {"none", "walk", "refresh"}
          /\ closing \in {"no", "stopping", "cancelled", "notified"}
          /\ cancel \in {"none", "live", "cancelled"}
Flagged == ready \in BOOLEAN /\ force \in BOOLEAN /\ scanning \in BOOLEAN /\ error \in BOOLEAN

TypeInv == Numbered /\ Rooted /\ Tabled /\ Placed /\ Flagged

LEMMA RowPut ==
  ASSUME RowTypes, NEW p \in Path, NEW n, rec' = [rec EXCEPT ![p] = n], Row(n),
         n.status \in {"none", "new", "indexed", "missing", "error", "unavailable"},
         n.stamp \in Nat, n.content \in Nat, n.seen \in Nat
  PROVE  RowTypes'
<1>1. n \in [status : {"none", "new", "indexed", "missing", "error", "unavailable"},
             stamp : Nat, content : Nat, seen : Nat]
  BY DEF Row
<1> QED BY <1>1 DEF RowTypes

LEMMA NumberedStep == IndexInv /\ TypeInv /\ [Next]_vars => Numbered'
<1> SUFFICES ASSUME IndexInv, TypeInv, [Next]_vars PROVE Numbered'
  OBVIOUS
<1>0. RowTypes /\ generation \in Nat
  BY DEF TypeInv, Numbered
<1>1. ASSUME UNCHANGED rec, generation' \in {generation, 0} PROVE Numbered'
  BY <1>0, <1>1 DEF Numbered, RowTypes
<1>2. CASE Environment \/ Destructor
  BY <1>1, <1>2 DEF Environment, Destructor, WriteFile, RemoveFile, Restart, CallScan,
     CancelScan, CallShort, Destroy, DestroyCancel, DestroyNotify, db, scan
<1>3. CASE UNCHANGED vars
  BY <1>1, <1>3 DEF vars, db, scan
<1>4. CASE \/ Open \/ Test \/ Sleep \/ Skip \/ Refuse \/ RunQuery \/ RunSession
           \/ ScanCancelled \/ FinishScan \/ EnterPulse \/ Pulse
  BY <1>1, <1>4 DEF Open, Test, Sleep, Skip, Refuse, RunQuery, RunSession, ScanCancelled,
     FinishScan, EnterPulse, Pulse, RunFailed, RunCancelled, Ended, db, scan
<1>5. CASE \/ \E r \in Root : ListRoot(r) \/ ListFails(r)
           \/ ListOpened \/ Inspect \/ ExternalFails
  BY <1>1, <1>5 DEF ListRoot, ListFails, ListOpened, Inspect, ExternalFails, ShortFailed,
     RunFailed, Ended, db, scan
<1>6. CASE RunExternal
  <2>1. rec' \in {rec, [rec EXCEPT ![command.path].status = IF @ = "none" THEN "new" ELSE @]}
    BY <1>6 DEF RunExternal
  <2>2. RowTypes'
    BY <1>0, <2>1 DEF RowTypes
  <2>3. generation' \in {generation, 0}
    BY <1>6 DEF RunExternal, ShortDone, ShortFailed, RunFailed, Ended, scan
  <2> QED BY <1>0, <2>2, <2>3 DEF Numbered
<1>7. CASE StartScan
  <2>1. RowTypes'
    BY <1>0, <1>7 DEF StartScan, RowTypes
  <2>2. generation' \in {generation, 0, Highest + 1}
    BY <1>7 DEF StartScan, RunCancelled, Ended, scan
  <2> QED BY <1>0, <2>1, <2>2, HighestIsNumber DEF Numbered
<1>8. CASE MarkMissing
  <2>1. generation' = generation
    BY <1>8 DEF MarkMissing
  <2>2. RowTypes'
    BY <1>0, <1>8 DEF MarkMissing, RowTypes
  <2> QED BY <1>0, <2>1, <2>2 DEF Numbered
<1>9. ASSUME NEW f \in todo, VisitFile(f) PROVE Numbered'
  <2>1. generation' = generation
    BY <1>9 DEF VisitFile
  <2>2. \/ rec' = [rec EXCEPT ![f.path].seen = generation]
        \/ rec' = [rec EXCEPT ![f.path].status = IF @ = "none" THEN "new" ELSE @]
    BY <1>9 DEF VisitFile
  <2>3. RowTypes'
    BY <1>0, <2>2 DEF RowTypes
  <2> QED BY <1>0, <2>1, <2>3 DEF Numbered
<1>10. ASSUME NEW f \in todo, VisitOpened(f) PROVE Numbered'
  <2>1. generation' = generation
    BY <1>10 DEF VisitOpened
  <2>2. rec' \in {rec, [rec EXCEPT ![f.path].status = "unavailable"]}
    BY <1>10 DEF VisitOpened
  <2>3. RowTypes'
    BY <1>0, <2>2 DEF RowTypes
  <2> QED BY <1>0, <2>1, <2>3 DEF Numbered
<1>11. CASE StoreFile \/ StoreExternal
  <2>1. generation' = generation
    BY <1>11 DEF StoreFile, StoreExternal, scan
  <2>2. probe.stamp \in Nat /\ probe.content \in Nat
    BY DEF IndexInv, Probed
  <2>3. PICK n \in Nat : rec' = [rec EXCEPT ![probe.path] = Stored(n)]
    BY <1>0, <1>11, LibraryAssumption DEF StoreFile, StoreExternal
  <2>4. RowTypes'
    BY <1>0, <2>2, <2>3 DEF RowTypes, Stored
  <2> QED BY <1>0, <2>1, <2>4 DEF Numbered
<1>12. CASE FileFails
  <2>1. generation' = generation
    BY <1>12 DEF FileFails, scan
  <2>2. \/ rec' = [rec EXCEPT ![probe.path] = [@ EXCEPT !.status = "error", !.seen = generation]]
        \/ rec' = [rec EXCEPT ![probe.path] = [@ EXCEPT !.status = "unavailable"]]
    BY <1>12 DEF FileFails
  <2>3. probe.path \in Path /\ Row(rec[probe.path])
    BY <1>12 DEF FileFails, IndexInv, Probed, Probing, Rows
  <2> DEFINE r == rec[probe.path]
             n == rec'[probe.path]
  <2>4. r.stamp \in Nat /\ r.content \in Nat /\ r.seen \in Nat
    BY <1>0, <2>3 DEF RowTypes
  <2>5. /\ n \in {[r EXCEPT !.status = "error", !.seen = generation],
                  [r EXCEPT !.status = "unavailable"]}
        /\ rec' = [rec EXCEPT ![probe.path] = n]
    BY <1>0, <2>2, <2>3 DEF RowTypes
  <2>6. /\ Row(n) /\ n.status \in {"error", "unavailable"}
        /\ n.stamp = r.stamp /\ n.content = r.content /\ n.seen \in {generation, r.seen}
    BY <2>3, <2>5 DEF Row
  <2>7. RowTypes'
    <3> HIDE DEF n, r
    <3> QED BY <1>0, <2>3, <2>4, <2>5, <2>6, RowPut
  <2> QED BY <1>0, <2>1, <2>7 DEF Numbered
<1> QED BY <1>2, <1>3, <1>4, <1>5, <1>6, <1>7, <1>8, <1>9, <1>10, <1>11, <1>12 DEF Next, Worker

LEMMA PlacedStep == TypeInv /\ [Next]_vars => Placed'
<1> SUFFICES ASSUME TypeInv, [Next]_vars PROVE Placed'
  OBVIOUS
<1> USE DEF Placed, Pc
<1>0. Placed
  BY DEF TypeInv
<1>1. CASE UNCHANGED vars
  BY <1>0, <1>1 DEF vars, env, scan
<1>2. CASE Environment \/ Destructor
  <2>1. ASSUME NEW p \in Path, WriteFile(p) \/ RemoveFile(p) PROVE Placed'
    BY <1>0, <2>1 DEF WriteFile, RemoveFile, env, scan
  <2>2. CASE Restart
    BY <2>2 DEF Restart
  <2>3. ASSUME NEW c, CallScan(c) \/ CallShort(c) PROVE Placed'
    BY <1>0, <2>3 DEF CallScan, CallShort, Enqueued, Cancel, Revoked, scan
  <2>4. CASE CancelScan \/ Destroy \/ DestroyCancel \/ DestroyNotify
    BY <1>0, <2>4 DEF CancelScan, Destroy, DestroyCancel, DestroyNotify, Cancel, Revoked, scan
  <2> QED BY <1>2, <2>1, <2>2, <2>3, <2>4 DEF Environment, Destructor
<1>3. CASE Open \/ Test \/ Sleep \/ Skip \/ EnterPulse \/ Pulse
  BY <1>0, <1>3 DEF Open, Test, Sleep, Skip, EnterPulse, Pulse, env, scan
<1>4. CASE Refuse \/ ScanCancelled \/ FinishScan
  BY <1>0, <1>4 DEF Refuse, ScanCancelled, FinishScan, RunFailed, RunCancelled, Ended, env
<1>5. CASE RunQuery \/ RunSession
  BY <1>0, <1>5 DEF RunQuery, RunSession, ShortDone, env, scan
<1>6. CASE RunExternal
  BY <1>0, <1>6 DEF RunExternal, ShortDone, ShortFailed, RunFailed, Ended, env, scan
<1>7. CASE StoreExternal \/ ExternalFails
  BY <1>0, <1>7 DEF StoreExternal, ExternalFails, ShortDone, ShortFailed, RunFailed, Ended,
     env, scan
<1>8. CASE StartScan
  BY <1>0, <1>8 DEF StartScan, RunCancelled, Ended, env, scan
<1>9. CASE \/ \E r \in Root : ListRoot(r) \/ ListFails(r)
           \/ ListOpened \/ MarkMissing
  BY <1>0, <1>9 DEF ListRoot, ListFails, ListOpened, MarkMissing, env
<1>10. CASE \/ \E f \in todo : VisitFile(f) \/ VisitOpened(f)
            \/ Inspect \/ StoreFile \/ FileFails
  BY <1>0, <1>10 DEF VisitFile, VisitOpened, Inspect, StoreFile, FileFails, env, scan
<1> QED BY <1>1, <1>2, <1>3, <1>4, <1>5, <1>6, <1>7, <1>8, <1>9, <1>10 DEF Next, Worker

LEMMA RootedStep == IndexInv /\ TypeInv /\ [Next]_vars => Rooted'
<1> SUFFICES ASSUME IndexInv, TypeInv, [Next]_vars PROVE Rooted'
  OBVIOUS
<1> USE DEF Rooted
<1>0. /\ Rooted
      /\ pc \in Outside => stage = "none"
  BY DEF TypeInv, IndexInv, Staged
<1>1. CASE stage' = stage /\ root' = root /\ (pc' # "roots" => pc # "roots")
  BY <1>0, <1>1
<1>2. CASE stage' # "walk" \/ pc' = "roots"
  BY <1>2
<1>3. CASE Environment \/ Destructor \/ UNCHANGED vars
  <2>1. Restart \/ (stage' = stage /\ root' = root /\ (pc' = pc \/ (pc = "asleep" /\ pc' = "test")))
    BY <1>3 DEF Environment, Destructor, WriteFile, RemoveFile, CallScan, CancelScan, CallShort,
       Destroy, DestroyCancel, DestroyNotify, Enqueued, env, scan, vars
  <2>2. CASE Restart
    BY <1>2, <2>2 DEF Restart
  <2> QED BY <1>1, <2>1, <2>2
<1>4. CASE Open \/ Test \/ Sleep \/ Skip \/ EnterPulse \/ Pulse \/ Inspect \/ StoreFile
           \/ FileFails \/ RunQuery \/ RunSession
  BY <1>1, <1>4 DEF Open, Test, Sleep, Skip, EnterPulse, Pulse, Inspect, StoreFile, FileFails,
     RunQuery, RunSession, Running, ShortDone, scan
<1>5. CASE Refuse \/ ScanCancelled \/ FinishScan \/ ListOpened
  BY <1>2, <1>5 DEF Refuse, ScanCancelled, FinishScan, ListOpened, RunFailed, RunCancelled, Ended
<1>6. CASE StoreExternal \/ ExternalFails \/ RunExternal
  BY <1>1, <1>2, <1>6 DEF StoreExternal, ExternalFails, RunExternal, Running, ShortDone,
     ShortFailed, RunFailed, Ended, scan
<1>7. CASE StartScan
  <2>1. pc = "run" /\ stage = "none"
    BY <1>0, <1>7 DEF StartScan, Outside
  <2> QED BY <1>2, <1>7, <2>1 DEF StartScan, RunCancelled, Ended, scan
<1>8. ASSUME NEW r \in Root, ListRoot(r) \/ ListFails(r) PROVE Rooted'
  BY <1>1, <1>8 DEF ListRoot, ListFails
<1>9. CASE MarkMissing
  BY <1>2, <1>9 DEF MarkMissing
<1>10. ASSUME NEW f \in todo, VisitFile(f) \/ VisitOpened(f) PROVE Rooted'
  <2>1. stage' = stage /\ root' = root /\ pc' \in {"visit", "inspect"}
    BY <1>10 DEF VisitFile, VisitOpened
  <2>2. pc # "roots"
    BY <1>10 DEF VisitFile, VisitOpened, PulseOver
  <2> QED BY <1>1, <2>1, <2>2
<1> QED BY <1>3, <1>4, <1>5, <1>6, <1>7, <1>8, <1>9, <1>10 DEF Next, Worker

(* What commands carry: roots of the library, files opened directly. *)
LEMMA Carries ==
  ASSUME NEW c \in Cmd \union {NoCommand}
  PROVE  /\ c.kind = "configure" => c.roots \in SUBSET Root
         /\ c.kind = "scan" => c.force \in BOOLEAN
         /\ c.kind = "external" => c.path \in Opened
BY DEF Cmd, ScanCommand, ShortCommand, NoCommand

LEMMA FlaggedStep == IndexInv /\ TypeInv /\ [Next]_vars => Flagged'
<1> SUFFICES ASSUME IndexInv, TypeInv, [Next]_vars PROVE Flagged'
  OBVIOUS
<1> USE DEF Flagged
<1>0. Flagged
  BY DEF TypeInv
<1>1. CASE Environment \/ Destructor \/ UNCHANGED vars
  <2>1. Restart \/ UNCHANGED <<ready, force, scanning, error>>
    BY <1>1 DEF Environment, Destructor, WriteFile, RemoveFile, CallScan, CancelScan, CallShort,
       Destroy, DestroyCancel, DestroyNotify, env, scan, shown, vars
  <2> QED BY <1>0, <2>1 DEF Restart
<1>2. CASE Open
  BY <1>0, <1>2 DEF Open, scan
<1>3. CASE Test \/ Sleep \/ Skip \/ EnterPulse \/ Pulse \/ Inspect \/ StoreFile
           \/ FileFails \/ RunQuery \/ RunSession \/ ListOpened \/ MarkMissing
           \/ \E r \in Root : ListRoot(r) \/ ListFails(r)
  BY <1>0, <1>3 DEF Test, Sleep, Skip, EnterPulse, Pulse, Inspect, StoreFile, FileFails,
     RunQuery, RunSession, ListOpened, MarkMissing, ListRoot, ListFails, scan, shown
<1>4. CASE Refuse \/ ScanCancelled \/ FinishScan
  BY <1>0, <1>4 DEF Refuse, ScanCancelled, FinishScan, RunFailed, RunCancelled, Ended
<1>5. CASE StoreExternal \/ ExternalFails \/ RunExternal
  BY <1>0, <1>5 DEF StoreExternal, ExternalFails, RunExternal,
     ShortFailed, RunFailed, Ended, scan
<1>6. CASE StartScan
  <2>1. command.kind = "scan" => command.force \in BOOLEAN
    BY Carries DEF IndexInv, Commands
  <2>2. ready' = ready /\ scanning' \in BOOLEAN /\ error' \in BOOLEAN
    BY <1>0, <1>6 DEF StartScan, RunCancelled, Ended
  <2>3. force' \in BOOLEAN
    BY <1>0, <1>6, <2>1 DEF StartScan, RunCancelled, Ended, scan
  <2> QED BY <1>0, <2>2, <2>3
<1>7. ASSUME NEW f \in todo, VisitFile(f) \/ VisitOpened(f) PROVE Flagged'
  BY <1>0, <1>7 DEF VisitFile, VisitOpened, PulseOver
<1> QED BY <1>1, <1>2, <1>3, <1>4, <1>5, <1>6, <1>7 DEF Next, Worker

LEMMA TabledStep == IndexInv /\ TypeInv /\ [Next]_vars => Tabled'
<1> SUFFICES ASSUME IndexInv, TypeInv, [Next]_vars PROVE Tabled'
  OBVIOUS
<1>0. /\ rootError \subseteq Root /\ enabled \subseteq Root /\ recent \subseteq Opened
      /\ roots \subseteq Root /\ root \in Root \union {None} /\ gone \subseteq Path
  BY DEF TypeInv, Tabled
<1>1. ASSUME UNCHANGED db,
             gone' \subseteq Path, roots' \subseteq Root, root' \in Root \union {None}
      PROVE  Tabled'
  BY <1>0, <1>1 DEF Tabled, db
<1>2. CASE Environment \/ Destructor \/ UNCHANGED vars
  <2>1. UNCHANGED <<db, gone, roots, root>> \/ Restart \/ \E p \in Path : RemoveFile(p)
    BY <1>2 DEF Environment, Destructor, WriteFile, CallScan, CancelScan, CallShort, Destroy,
       DestroyCancel, DestroyNotify, scan, vars
  <2>2. CASE Restart
    BY <1>1, <2>2 DEF Restart
  <2>3. ASSUME NEW p \in Path, RemoveFile(p) PROVE Tabled'
    BY <1>0, <1>1, <2>3 DEF RemoveFile
  <2> QED BY <1>0, <1>1, <2>1, <2>2, <2>3
<1>3. CASE Open \/ Test \/ Sleep \/ Skip \/ EnterPulse \/ Pulse \/ Inspect \/ RunQuery
  BY <1>0, <1>1, <1>3 DEF Open, Test, Sleep, Skip, EnterPulse, Pulse, Inspect, RunQuery, scan
<1>4. CASE Refuse \/ ScanCancelled \/ FinishScan
  BY <1>0, <1>1, <1>4 DEF Refuse, ScanCancelled, FinishScan, RunFailed, RunCancelled, Ended
<1>5. CASE RunSession
  BY <1>0, <1>5 DEF RunSession, Tabled, scan
<1>6. CASE StoreFile \/ FileFails
  BY <1>0, <1>6 DEF StoreFile, FileFails, Tabled, scan
<1>7. CASE ListOpened
  BY <1>0, <1>1, <1>7 DEF ListOpened
<1>8. ASSUME NEW r \in Root, ListRoot(r) \/ ListFails(r) PROVE Tabled'
  BY <1>0, <1>8 DEF ListRoot, ListFails, Tabled, db
<1>9. CASE MarkMissing
  BY <1>0, <1>9 DEF MarkMissing, Tabled
<1>10. ASSUME NEW f \in todo, VisitFile(f) \/ VisitOpened(f) PROVE Tabled'
  BY <1>0, <1>10 DEF VisitFile, VisitOpened, Tabled
<1>11. CASE StartScan
  <2>1. command.kind = "configure" => command.roots \in SUBSET Root
    BY Carries DEF IndexInv, Commands
  <2>2. UNCHANGED <<rootError, recent>> /\ enabled' \subseteq Root
    BY <1>0, <1>11, <2>1 DEF StartScan
  <2>3. roots' \in {roots, {}, enabled'} /\ root' \in {root, None}
    BY <1>11 DEF StartScan, RunCancelled, Ended, scan
  <2>4. gone' \subseteq Path
    BY <1>0, <1>11 DEF StartScan, RunCancelled, Ended, scan
  <2> QED BY <1>0, <2>2, <2>3, <2>4 DEF Tabled
<1>12. CASE RunExternal \/ StoreExternal \/ ExternalFails
  <2>1. enabled' = enabled
    BY <1>12 DEF RunExternal, StoreExternal, ExternalFails
  <2>2. recent' \subseteq Opened
    <3>1. CASE RunExternal
      <4>1. command.path \in Opened
        BY <3>1, Carries DEF RunExternal, IndexInv, Commands
      <4> QED BY <1>0, <3>1, <4>1 DEF RunExternal
    <3>2. CASE StoreExternal
      <4>1. probe.path \in Opened
        BY <3>2 DEF StoreExternal, IndexInv, Probed, Probing
      <4> QED BY <1>0, <3>2, <4>1 DEF StoreExternal
    <3>3. CASE ExternalFails
      BY <1>0, <3>3 DEF ExternalFails
    <3> QED BY <1>12, <3>1, <3>2, <3>3
  <2>3. stage = "walk" => root \in Root
    BY <1>12 DEF TypeInv, Rooted, RunExternal, StoreExternal, ExternalFails, Running
  <2>4. \/ UNCHANGED <<rootError, roots, root, gone>>
        \/ ShortFailed
    BY <1>12 DEF RunExternal, StoreExternal, ExternalFails, scan
  <2>5. ASSUME ShortFailed
        PROVE  rootError' \subseteq Root /\ roots' \subseteq Root
               /\ root' \in Root \union {None} /\ gone' \subseteq Path
    <3>1. CASE stage = "walk"
      BY <1>0, <2>3, <2>5, <3>1 DEF ShortFailed
    <3>2. CASE stage # "walk"
      BY <1>0, <2>5, <3>2 DEF ShortFailed, RunFailed, Ended
    <3> QED BY <3>1, <3>2
  <2> QED BY <1>0, <2>1, <2>2, <2>4, <2>5 DEF Tabled
<1> QED BY <1>2, <1>3, <1>4, <1>5, <1>6, <1>7, <1>8, <1>9, <1>10, <1>11, <1>12 DEF Next, Worker

LEMMA TypeStart == Init => TypeInv
<1> SUFFICES ASSUME Init PROVE TypeInv
  OBVIOUS
<1>1. Numbered
  BY DEF Init, Numbered, RowTypes, NoRow
<1>2. Rooted /\ Tabled /\ Placed /\ Flagged
  BY DEF Init, Rooted, Tabled, Placed, Flagged, Pc
<1> QED BY <1>1, <1>2 DEF TypeInv

(* The tables of the database, the worker's place and what it walks with   *)
(* keep their types: its command is one that was called, a root with an    *)
(* error one of the library, Recents hold only games opened directly, and  *)
(* the number of a scan, the greatest of the rows' and one more, exists.   *)
THEOREM TypeCorrect == Spec => []TypeOK
<1>1. IndexInv /\ TypeInv /\ [Next]_vars => TypeInv'
  BY NumberedStep, RootedStep, TabledStep, PlacedStep, FlaggedStep DEF TypeInv
<1>2. Init => KeptInv
  BY KeptStart
<1>3. IndexInv /\ KeptInv /\ TypeInv => TypeOK
  BY DEF IndexInv, Disk, Commands, Cmd, Listed, Probed, KeptInv, TypeInv, Numbered, RowTypes,
     Tabled, Placed, Flagged, TypeOK
<1> QED BY <1>1, <1>2, <1>3, TypeStart, Invariance, KeptStep, PTL DEF Spec

-----------------------------------------------------------------------------
(* The worker at rest.  From its test of the queue to its sleep only       *)
(* Destroy can come in: notification takes DestroyCancel before it, which  *)
(* waits for the mutex.                                                    *)

Awake == pc = "tested" => queue = <<>> /\ closing \in {"no", "stopping"}

LEMMA WakeStep == Awake /\ NoWakeupLost /\ [Next]_vars => Awake' /\ NoWakeupLost'
<1> SUFFICES ASSUME Awake, NoWakeupLost, [Next]_vars PROVE Awake' /\ NoWakeupLost'
  OBVIOUS
<1> USE DEF Awake, NoWakeupLost
<1>1. ASSUME pc' \notin {"tested", "asleep"} PROVE Awake' /\ NoWakeupLost'
  BY <1>1
<1>2. ASSUME UNCHANGED <<pc, queue, closing>> PROVE Awake' /\ NoWakeupLost'
  BY <1>2
<1>3. queue = <<>> => Cancelling(queue) = <<>>
  BY DEF Cancelling
<1>4. CASE Environment
  <2>1. ASSUME NEW p \in Path, WriteFile(p) \/ RemoveFile(p) PROVE UNCHANGED <<pc, queue, closing>>
    BY <2>1 DEF WriteFile, RemoveFile, env
  <2>2. CASE Restart
    BY <1>1, <2>2 DEF Restart
  <2>3. ASSUME NEW c, CallScan(c) \/ CallShort(c) PROVE pc' \notin {"tested", "asleep"}
    BY <2>3 DEF CallScan, CallShort, CanCall, Enqueued
  <2>4. CASE CancelScan
    BY <1>3, <2>4 DEF CancelScan, CanCall
  <2>5. CASE Destroy
    BY <2>5 DEF Destroy
  <2> QED BY <1>1, <1>2, <1>4, <2>1, <2>2, <2>3, <2>4, <2>5 DEF Environment
<1>5. CASE Destructor
  BY <1>3, <1>5 DEF Destructor, DestroyCancel, DestroyNotify
<1>6. CASE Test \/ Sleep
  BY <1>6 DEF Test, Sleep, env
<1>7. CASE UNCHANGED vars
  BY <1>2, <1>7 DEF vars, env
<1>8. CASE \/ Open \/ Skip \/ EnterPulse \/ Pulse \/ Inspect \/ StoreFile \/ FileFails
           \/ RunQuery \/ RunSession \/ ListOpened \/ MarkMissing
  BY <1>1, <1>8 DEF Open, Skip, EnterPulse, Pulse, Inspect, StoreFile, FileFails, RunQuery,
     RunSession, ShortDone, ListOpened, MarkMissing
<1>9. CASE \/ Refuse \/ StartScan \/ ScanCancelled \/ FinishScan
           \/ RunExternal \/ StoreExternal \/ ExternalFails
  BY <1>1, <1>9 DEF Refuse, StartScan, ScanCancelled, FinishScan, RunFailed, RunCancelled, Ended,
     RunExternal, StoreExternal, ExternalFails, ShortDone, ShortFailed
<1>10. ASSUME NEW r \in Root, ListRoot(r) \/ ListFails(r) PROVE Awake' /\ NoWakeupLost'
  BY <1>1, <1>2, <1>10 DEF ListRoot, ListFails, env
<1>11. ASSUME NEW f \in todo, VisitFile(f) \/ VisitOpened(f) PROVE Awake' /\ NoWakeupLost'
  BY <1>1, <1>11 DEF VisitFile, VisitOpened
<1> QED BY <1>4, <1>5, <1>6, <1>7, <1>8, <1>9, <1>10, <1>11 DEF Next, Worker

(* No wake-up is lost, for any number of calls at any moment: a worker     *)
(* that sleeps has an empty queue, and the destructor's notification finds *)
(* it asleep or not yet at its test (lines 86 and 117).                    *)
THEOREM NoWakeupIsLost == Spec => []NoWakeupLost
<1>1. Init => Awake /\ NoWakeupLost
  BY DEF Init, Awake, NoWakeupLost
<1> QED BY <1>1, WakeStep, PTL DEF Spec

(* A session handed over before the destructor ran is in the database when *)
(* the worker has ended, and each one when it sleeps, for any number of    *)
(* roots, files and calls, however many scans were cancelled before it and *)
(* commands stood in front of it (lines 117 and 118).                      *)
THEOREM SessionsAreKept == Spec => []SessionsKept
<1>1. KeptInv /\ NoWakeupLost => SessionsKept
  <2> SUFFICES ASSUME KeptInv, NoWakeupLost, pc \in {"asleep", "closed"}, ready
               PROVE sessions = accepted
    BY DEF SessionsKept
  <2>1. queue = <<>> /\ command.kind = "none"
    BY DEF KeptInv, NoWakeupLost, Emptied, Idle
  <2>2. Count(queue) = 0 /\ Owed(command) = 0
    BY <2>1, CountEmpty DEF Owed
  <2> QED BY <2>2 DEF KeptInv, Counted
<1> QED BY <1>1, KeptStart, Invariance, KeptStep, NoWakeupIsLost, PTL DEF Spec

-----------------------------------------------------------------------------
(* The last query is the last one in the queue, or the one that is run, or *)
(* the one whose page the next snapshot shows.                             *)

NoQuery(q, i) == \A j \in (i + 1) .. Len(q) : q[j].kind # "query"
LatestIn(q, c, k, a) ==
  /\ \A i \in 1 .. Len(q) : q[i].kind = "query" /\ NoQuery(q, i) => q[i].page = a
  /\ NoQuery(q, 0) => IF c.kind = "query" THEN c.page = a ELSE k = a
Latest == ready \/ pc = "open" => LatestIn(queue, command, query, asked)

LEMMA LatestAppend ==
  ASSUME NEW q \in Seq(Cmd), NEW n \in Cmd, NEW c, NEW k, NEW a, NEW b, LatestIn(q, c, k, a),
         IF n.kind = "query" THEN n.page = b ELSE b = a
  PROVE  LatestIn(Append(q, n), c, k, b)
<1> DEFINE r == Append(q, n)
           m == Len(q) + 1
<1>1. /\ Len(r) = m /\ Len(q) \in Nat /\ m \in Nat
      /\ \A i \in 1 .. Len(q) : r[i] = q[i]
      /\ r[m] = n
  BY AppendProperties
<1> HIDE DEF r
<1>2. CASE n.kind = "query"
  <2>1. \A i \in 0 .. Len(q) : ~NoQuery(r, i)
    BY <1>1, <1>2 DEF NoQuery
  <2> QED BY <1>1, <1>2, <2>1 DEF LatestIn, r
<1>3. CASE n.kind # "query"
  <2>1. \A i \in 0 .. Len(q) : NoQuery(r, i) => NoQuery(q, i)
    BY <1>1 DEF NoQuery
  <2>2. \A i \in 1 .. m : r[i].kind = "query" => i \in 1 .. Len(q)
    BY <1>1, <1>3
  <2> QED BY <1>1, <1>3, <2>1, <2>2 DEF LatestIn, r
<1> QED BY <1>2, <1>3

LEMMA LatestTail ==
  ASSUME NEW q \in Seq(Cmd), q # <<>>, NEW c, NEW k, NEW a, LatestIn(q, c, k, a),
         c.kind # "query"
  PROVE  LatestIn(Tail(q), Head(q), k, a)
<1> DEFINE t == Tail(q)
<1>1. /\ Len(t) = Len(q) - 1 /\ Len(q) \in Nat \ {0}
      /\ \A i \in 1 .. Len(t) : t[i] = q[i + 1]
      /\ Head(q) = q[1]
  BY HeadTailProperties
<1> HIDE DEF t
<1>2. ASSUME NEW i \in 0 .. Len(t), NoQuery(t, i) PROVE NoQuery(q, i + 1)
  <2> SUFFICES ASSUME NEW j \in (i + 2) .. Len(q) PROVE q[j].kind # "query"
    BY <1>1 DEF NoQuery
  <2>1. j - 1 \in (i + 1) .. Len(t) /\ (j - 1) + 1 = j /\ j - 1 \in 1 .. Len(t)
    BY <1>1
  <2> QED BY <1>1, <1>2, <2>1 DEF NoQuery
<1>3. ASSUME NEW i \in 1 .. Len(t), t[i].kind = "query", NoQuery(t, i) PROVE t[i].page = a
  <2>1. NoQuery(q, i + 1) /\ i + 1 \in 1 .. Len(q) /\ t[i] = q[i + 1]
    BY <1>1, <1>2, <1>3
  <2> QED BY <1>3, <2>1 DEF LatestIn
<1>4. ASSUME NoQuery(t, 0)
      PROVE  IF Head(q).kind = "query" THEN Head(q).page = a ELSE k = a
  <2>1. NoQuery(q, 1) /\ 1 \in 1 .. Len(q)
    BY <1>1, <1>2, <1>4
  <2>2. CASE Head(q).kind = "query"
    BY <1>1, <2>1, <2>2 DEF LatestIn
  <2>3. CASE Head(q).kind # "query"
    <3>1. NoQuery(q, 0)
      BY <1>1, <2>1, <2>3 DEF NoQuery
    <3> QED BY <2>3, <3>1 DEF LatestIn
  <2> QED BY <2>2, <2>3
<1> QED BY <1>3, <1>4 DEF LatestIn, t

LEMMA LatestCancelled ==
  ASSUME queue \in Seq(Cmd), command \in Cmd \union {NoCommand}, NEW k, NEW a,
         LatestIn(queue, command, k, a)
  PROVE  LatestIn(Cancelling(queue), Cancelled(command), k, a)
<1> DEFINE r == Cancelling(queue)
<1>1. ASSUME NEW c \in Cmd \union {NoCommand}
      PROVE  Cancelled(c).kind = c.kind /\ (c.kind = "query" => Cancelled(c) = c)
  <2>1. c.kind = "query" => Cancelled(c) = c
    BY DEF Cancelled, IsScan, ScanKind
  <2> QED BY <2>1, CancelledKeeps
<1>2. Len(r) = Len(queue) /\ Len(queue) \in Nat
  BY DEF Cancelling
<1>3. \A i \in 1 .. Len(queue) : r[i] = Cancelled(queue[i]) /\ queue[i] \in Cmd
  BY DEF Cancelling
<1> HIDE DEF r
<1>4. \A i \in 1 .. Len(queue) : r[i].kind = queue[i].kind
                                 /\ (queue[i].kind = "query" => r[i] = queue[i])
  BY <1>1, <1>3
<1>5. \A i \in 0 .. Len(queue) : NoQuery(r, i) => NoQuery(queue, i)
  BY <1>2, <1>4 DEF NoQuery
<1> QED BY <1>1, <1>2, <1>4, <1>5 DEF LatestIn, r

LEMMA LatestSame ==
  ASSUME Latest, UNCHANGED <<queue, asked, query, ready>>, pc' = "open" => pc = "open",
         command' = command \/ (command' = NoCommand /\ command.kind # "query")
  PROVE  Latest'
<1>1. NoCommand.kind # "query"
  BY DEF NoCommand
<1> QED BY <1>1 DEF Latest, LatestIn

LEMMA ScanCalls == ScanCall \subseteq ScanCommand
<1>1. ASSUME NEW E \in Configured, NEW s \in BOOLEAN
      PROVE  [kind |-> "configure", roots |-> E, scan |-> s, cancelled |-> FALSE] \in ScanCommand
  BY LibraryAssumption DEF ScanCommand
<1>2. ASSUME NEW f \in BOOLEAN
      PROVE  [kind |-> "scan", force |-> f, cancelled |-> FALSE] \in ScanCommand
  BY DEF ScanCommand
<1>3. [kind |-> "rebuild", cancelled |-> FALSE] \in ScanCommand
  BY DEF ScanCommand
<1> SUFFICES ASSUME NEW c \in ScanCall PROVE c \in ScanCommand
  OBVIOUS
<1>4. CASE \E E \in Configured, s \in BOOLEAN :
             c = [kind |-> "configure", roots |-> E, scan |-> s, cancelled |-> FALSE]
  BY <1>1, <1>4
<1>5. CASE \E f \in BOOLEAN : c = [kind |-> "scan", force |-> f, cancelled |-> FALSE]
  BY <1>2, <1>5
<1>6. CASE c = [kind |-> "rebuild", cancelled |-> FALSE]
  BY <1>3, <1>6
<1> QED BY <1>4, <1>5, <1>6 DEF ScanCall

LEMMA LatestEnvironment ==
  ASSUME IndexInv, Latest, Environment \/ Destructor
  PROVE  Latest'
<1>1. ASSUME UNCHANGED <<queue, asked, query, ready, command>>, pc' = "open" => pc = "open"
      PROVE  Latest'
  BY <1>1, LatestSame
<1>2. ASSUME NEW p \in Path, WriteFile(p) \/ RemoveFile(p) PROVE Latest'
  BY <1>1, <1>2 DEF WriteFile, RemoveFile, env, shown
<1>3. CASE Restart
  <2>1. /\ queue' = <<>> /\ command' = NoCommand /\ query' = None /\ asked' = None
        /\ NoCommand.kind # "query"
    BY <1>3 DEF Restart, NoCommand
  <2> QED BY <2>1 DEF Latest, LatestIn
<1>4. ASSUME NEW c \in ScanCall, CallScan(c) PROVE Latest'
  <2>1. c \in Cmd /\ c.kind # "query"
    BY ScanCalls DEF Cmd, ScanCommand
  <2>2. /\ UNCHANGED <<query, ready, asked>> /\ (pc' = "open" => pc = "open")
        /\ \/ queue' = Append(queue, c) /\ command' = command
           \/ queue' = Append(Cancelling(queue), c) /\ command' = Cancelled(command)
    BY <1>4 DEF CallScan, Enqueued, Cancel, shown
  <2>3. CASE queue' = Append(queue, c) /\ command' = command
    <3>1. LatestIn(queue, command, query, asked) => LatestIn(queue', command, query, asked)
      BY <2>1, <2>3, LatestAppend DEF IndexInv, Commands
    <3> QED BY <2>2, <2>3, <3>1 DEF Latest
  <2>4. CASE queue' = Append(Cancelling(queue), c) /\ command' = Cancelled(command)
    <3>1. queue \in Seq(Cmd) /\ command \in Cmd \union {NoCommand}
      BY DEF IndexInv, Commands
    <3>2. Cancelling(queue) \in Seq(Cmd)
      BY <3>1, QueueCancelled
    <3>3. LatestIn(queue, command, query, asked)
             => LatestIn(Cancelling(queue), Cancelled(command), query, asked)
      BY <3>1, LatestCancelled
    <3>4. LatestIn(Cancelling(queue), Cancelled(command), query, asked)
             => LatestIn(queue', Cancelled(command), query, asked)
      BY <2>1, <2>4, <3>2, LatestAppend
    <3> QED BY <2>2, <2>4, <3>3, <3>4 DEF Latest
  <2> QED BY <2>2, <2>3, <2>4
<1>5. ASSUME NEW c \in ShortCommand, CallShort(c) PROVE Latest'
  <2>1. c \in Cmd
    BY DEF Cmd
  <2>2. /\ UNCHANGED <<query, ready, command>> /\ (pc' = "open" => pc = "open")
        /\ queue' = Append(queue, c)
        /\ IF c.kind = "query" THEN c.page = asked' ELSE asked' = asked
    BY <1>5 DEF CallShort, Enqueued, shown
  <2>3. LatestIn(queue, command, query, asked) => LatestIn(queue', command, query, asked')
    BY <2>1, <2>2, LatestAppend DEF IndexInv, Commands
  <2> QED BY <2>2, <2>3 DEF Latest
<1>6. CASE CancelScan \/ DestroyCancel
  <2>1. /\ UNCHANGED <<query, ready, asked, pc>>
        /\ queue' = Cancelling(queue) /\ command' = Cancelled(command)
    BY <1>6 DEF CancelScan, DestroyCancel, Cancel, shown
  <2>2. LatestIn(queue, command, query, asked) => LatestIn(queue', command', query, asked)
    BY <2>1, LatestCancelled DEF IndexInv, Commands
  <2> QED BY <2>1, <2>2 DEF Latest
<1>7. CASE Destroy \/ DestroyNotify
  BY <1>1, <1>7 DEF Destroy, DestroyNotify, shown
<1> QED BY <1>2, <1>3, <1>4, <1>5, <1>6, <1>7 DEF Environment, Destructor

LEMMA LatestWorker ==
  ASSUME IndexInv, KeptInv, Latest, Worker
  PROVE  Latest'
<1>1. ASSUME UNCHANGED <<queue, asked, query, ready>>, pc' # "open",
             command' = command \/ (command' = NoCommand /\ command.kind # "query")
      PROVE  Latest'
  BY <1>1, LatestSame
<1>2. CASE Open
  <2>1. UNCHANGED <<queue, asked, query, command>> /\ pc = "open"
    BY <1>2 DEF Open, env
  <2> QED BY <2>1 DEF Latest
<1>3. CASE Test \/ Pulse
  <2>1. /\ UNCHANGED <<asked, query, ready>> /\ pc' # "open" /\ pc # "open"
        /\ command.kind # "query" /\ queue \in Seq(Cmd)
        /\ IF queue = <<>> THEN command' = command /\ queue' = queue
                           ELSE command' = Head(queue) /\ queue' = Tail(queue)
    BY <1>3 DEF Test, Pulse, env, shown, KeptInv, Idle, IndexInv, Commands, Commanded
  <2>2. CASE queue = <<>>
    BY <1>1, <2>1, <2>2
  <2>3. CASE queue # <<>>
    <3>1. LatestIn(queue, command, query, asked) => LatestIn(queue', command', query, asked)
      BY <2>1, <2>3, LatestTail
    <3> QED BY <2>1, <3>1 DEF Latest
  <2> QED BY <2>2, <2>3
<1>4. CASE RunQuery
  <2>1. /\ UNCHANGED <<queue, asked, ready>> /\ pc' # "open"
        /\ command.kind = "query" /\ query' = command.page /\ command' = NoCommand
        /\ NoCommand.kind # "query"
    BY <1>4 DEF RunQuery, ShortDone, env, NoCommand
  <2>2. pc # "open"
    BY <1>4 DEF RunQuery, Running
  <2> QED BY <2>1, <2>2 DEF Latest, LatestIn
<1>5. CASE Refuse
  <2>1. ~ready' /\ pc' # "open"
    BY <1>5 DEF Refuse, RunFailed, Ended
  <2> QED BY <2>1 DEF Latest
<1>6. CASE Sleep \/ Skip \/ RunSession
  BY <1>1, <1>6 DEF Sleep, Skip, IsScan, ScanKind, RunSession, ShortDone, env, shown
<1>7. CASE RunExternal
  <2>1. command.kind = "external" /\ UNCHANGED <<queue, asked, query, ready>>
    BY <1>7 DEF RunExternal, env
  <2>2. pc' # "open" /\ command' \in {command, NoCommand}
    BY <1>7 DEF RunExternal, ShortDone, ShortFailed, RunFailed, Ended
  <2> QED BY <1>1, <2>1, <2>2
<1>8. CASE StartScan
  <2>1. IsScan(command) /\ UNCHANGED <<queue, asked, query, ready>>
    BY <1>8 DEF StartScan, env
  <2>2. command' = NoCommand /\ pc' # "open"
    BY <1>8 DEF StartScan, RunCancelled, Ended
  <2> QED BY <1>1, <2>1, <2>2 DEF IsScan, ScanKind
<1>9. CASE ScanCancelled \/ FinishScan
  <2>1. /\ pc \in {"visit", "inspect", "roots", "commit"}
        /\ UNCHANGED <<queue, asked, query, ready>>
        /\ command' = NoCommand /\ pc' = "test"
    BY <1>9 DEF ScanCancelled, FinishScan, RunCancelled, Ended, env
  <2>2. command.kind \in {"none", "external"}
    BY <2>1 DEF IndexInv, Commanded, Probing
  <2> QED BY <1>1, <2>1, <2>2
<1>10. CASE StoreExternal \/ ExternalFails
  <2>1. /\ command.kind = "external" /\ command' = NoCommand /\ pc' # "open"
        /\ UNCHANGED <<queue, asked, query, ready>>
    BY <1>10 DEF StoreExternal, ExternalFails, ShortDone, ShortFailed, RunFailed, Ended, env
  <2> QED BY <1>1, <2>1
<1>11. CASE \/ \E r \in Root : ListRoot(r) \/ ListFails(r)
            \/ ListOpened \/ MarkMissing \/ EnterPulse
            \/ \E f \in todo : VisitFile(f) \/ VisitOpened(f)
            \/ Inspect \/ StoreFile \/ FileFails
  <2>1. UNCHANGED <<queue, asked, query, ready, command>> /\ pc' # "open"
    BY <1>11 DEF ListRoot, ListFails, ListOpened, MarkMissing, EnterPulse, VisitFile,
                 VisitOpened, PulseOver, Inspect, StoreFile, FileFails, env, shown
  <2> QED BY <1>1, <2>1
<1> QED BY <1>2, <1>3, <1>4, <1>5, <1>6, <1>7, <1>8, <1>9, <1>10, <1>11 DEF Worker

-----------------------------------------------------------------------------
(* What the interface was told: the scan in progress, the page of the last *)
(* query that was run or an error, and that the database is not open.      *)

Busy == snapshot.busy = scanning /\ scanning = (stage # "none")
Refused == ~ready => pc \in Outside /\ (pc # "open" => error /\ snapshot.error)
Shown == stage = "none" => snapshot.page = query \/ snapshot.error
Told == Busy /\ Refused /\ Shown

LEMMA Published ==
  ASSUME NEW full, Publish(full)
  PROVE  /\ snapshot'.busy = scanning' /\ snapshot'.error = error'
         /\ full /\ ready' => snapshot'.page = query'
BY DEF Publish

LEMMA TellsAll ==
  ASSUME Publish(TRUE), ready', scanning' = (stage' # "none")
  PROVE  Told'
BY Published DEF Told, Busy, Refused, Shown

LEMMA TellsFailure ==
  ASSUME RunFailed
  PROVE  Told'
<1>1. /\ scanning' = FALSE /\ error' = TRUE /\ stage' = "none" /\ pc' = "test"
      /\ Publish(FALSE)
  BY DEF RunFailed, Ended
<1>2. snapshot'.busy = scanning' /\ snapshot'.error = error'
  BY <1>1, Published
<1> QED BY <1>1, <1>2 DEF Told, Busy, Refused, Shown, Outside

LEMMA TellsNothing ==
  ASSUME Told, UNCHANGED <<snapshot, error, scanning, ready>>,
         (stage' # "none") = (stage # "none"), stage' = "none" => query' = query,
         pc \in Outside => pc' \in Outside /\ (pc' # "open" => pc # "open")
  PROVE  Told'
BY DEF Told, Busy, Refused, Shown

LEMMA ToldEnvironment ==
  ASSUME IndexInv, Told, Environment \/ Destructor
  PROVE  Told'
<1>1. ASSUME UNCHANGED <<snapshot, error, scanning, ready, stage, query>>,
             pc' = pc \/ (pc = "asleep" /\ pc' = "test")
      PROVE  Told'
  BY <1>1, TellsNothing DEF Outside
<1>2. CASE Restart
  <2>1. /\ snapshot' = NoSnapshot /\ stage' = "none" /\ scanning' = FALSE /\ pc' = "open"
        /\ query' = None /\ NoSnapshot.busy = FALSE /\ NoSnapshot.page = None
    BY <1>2 DEF Restart, NoSnapshot
  <2> QED BY <2>1 DEF Told, Busy, Refused, Shown, Outside
<1>3. ASSUME NEW p, WriteFile(p) \/ RemoveFile(p) PROVE Told'
  BY <1>1, <1>3 DEF WriteFile, RemoveFile, scan, shown
<1>4. ASSUME NEW c, CallScan(c) \/ CallShort(c) PROVE Told'
  BY <1>1, <1>4 DEF CallScan, CallShort, Enqueued, scan, shown
<1>5. CASE CancelScan \/ Destroy \/ Destructor
  BY <1>1, <1>5 DEF CancelScan, Destroy, Destructor, DestroyCancel, DestroyNotify, scan, shown
<1> QED BY <1>2, <1>3, <1>4, <1>5 DEF Environment, Destructor

(* A short command is run with the database open: it publishes outside of  *)
(* a scan, and what it throws ends the root of a walk or fails.            *)
LEMMA ToldShort ==
  ASSUME Told, pc \notin Outside \/ ready, pc # "open", UNCHANGED <<ready, stage, scanning, error>>,
         ShortDone
  PROVE  Told'
<1>1. ready'
  BY DEF Told, Refused
<1>2. CASE stage = "none"
  <2>1. Publish(TRUE) /\ scanning' = (stage' # "none")
    BY <1>2 DEF ShortDone, Told, Busy
  <2> QED BY <1>1, <2>1, TellsAll
<1>3. CASE stage # "none"
  <2>1. UNCHANGED snapshot
    BY <1>3 DEF ShortDone
  <2> QED BY <1>1, <1>3, <2>1 DEF Told, Busy, Refused, Shown
<1> QED BY <1>2, <1>3

LEMMA ToldShortFailed ==
  ASSUME Told, pc \notin Outside \/ ready, UNCHANGED <<ready, query>>, ShortFailed
  PROVE  Told'
<1>1. ready'
  BY DEF Told, Refused
<1>2. CASE stage = "walk"
  <2>1. UNCHANGED <<snapshot, error, scanning, stage>>
    BY <1>2 DEF ShortFailed
  <2> QED BY <1>1, <2>1 DEF Told, Busy, Refused, Shown
<1>3. CASE stage # "walk"
  BY <1>3, TellsFailure DEF ShortFailed
<1> QED BY <1>2, <1>3

LEMMA ToldStart ==
  ASSUME IndexInv, Told, StartScan
  PROVE  Told'
<1>1. ready' /\ stage = "none"
  BY DEF StartScan, IndexInv, Staged, Outside
<1>2. CASE command.kind = "configure" /\ ~command.scan
  <2>1. Publish(TRUE) /\ UNCHANGED <<stage, scanning>>
    BY <1>2 DEF StartScan, scan
  <2> QED BY <1>1, <2>1, TellsAll DEF Told, Busy
<1>3. CASE ~(command.kind = "configure" /\ ~command.scan) /\ command.cancelled
  <2>1. Publish(TRUE) /\ stage' = "none" /\ scanning' = FALSE
    BY <1>3 DEF StartScan, RunCancelled, Ended
  <2> QED BY <1>1, <2>1, TellsAll
<1>4. CASE ~(command.kind = "configure" /\ ~command.scan) /\ ~command.cancelled
  <2>1. Publish(TRUE) /\ stage' = "walk" /\ scanning' = TRUE
    BY <1>4 DEF StartScan
  <2> QED BY <1>1, <2>1, TellsAll
<1> QED BY <1>2, <1>3, <1>4

LEMMA ToldWorker ==
  ASSUME IndexInv, Told, Worker
  PROVE  Told'
<1> USE DEF Outside
<1>1. CASE Open
  <2>1. stage' = "none" /\ scanning' = scanning /\ scanning = FALSE /\ pc' = "test"
    BY <1>1 DEF Open, scan, Told, Busy, IndexInv, Staged
  <2>2. Publish(ready')
    BY <1>1 DEF Open
  <2>3. CASE ready' = TRUE
    BY <2>1, <2>2, <2>3, TellsAll
  <2>4. CASE ready' = FALSE /\ error' = TRUE
    BY <2>1, <2>2, <2>4, Published DEF Told, Busy, Refused, Shown
  <2> QED BY <1>1, <2>3, <2>4 DEF Open
<1>2. CASE Test \/ Sleep \/ Skip
  <2>1. /\ UNCHANGED <<snapshot, error, scanning, ready, stage, query>>
        /\ pc # "open" /\ pc' \in Outside
    BY <1>2 DEF Test, Sleep, Skip, scan, shown
  <2> QED BY <2>1, TellsNothing
<1>3. CASE Refuse
  BY <1>3, TellsFailure DEF Refuse
<1>4. CASE RunQuery \/ RunSession
  BY <1>4, ToldShort DEF RunQuery, RunSession, Running, scan
<1>5. CASE StoreExternal
  BY <1>5, ToldShort DEF StoreExternal, scan
<1>6. CASE RunExternal
  <2>1. (pc \notin Outside \/ ready) /\ pc # "open" /\ UNCHANGED <<ready, query>>
    BY <1>6 DEF RunExternal, Running
  <2>2. CASE UNCHANGED <<scan, scanning, error>> /\ ShortDone
    BY <2>1, <2>2, ToldShort DEF scan
  <2>3. CASE UNCHANGED <<scan, scanning, error, snapshot>> /\ pc' = "inspect"
    <3>1. ready'
      BY <2>1 DEF Told, Refused
    <3> QED BY <2>1, <2>3, <3>1 DEF scan, Told, Busy, Refused, Shown
  <2>4. CASE ShortFailed
    BY <2>1, <2>4, ToldShortFailed
  <2> QED BY <1>6, <2>2, <2>3, <2>4 DEF RunExternal
<1>7. CASE ExternalFails
  BY <1>7, ToldShortFailed DEF ExternalFails
<1>8. CASE StartScan
  BY <1>8, ToldStart
<1>9. CASE ScanCancelled \/ FinishScan
  <2>1. /\ pc \notin Outside /\ UNCHANGED ready
        /\ Publish(TRUE) /\ stage' = "none" /\ scanning' = FALSE
    BY <1>9 DEF ScanCancelled, FinishScan, RunCancelled, Ended
  <2> QED BY <2>1, TellsAll DEF Told, Refused
<1>10. CASE \/ \E r \in Root : ListRoot(r) \/ ListFails(r)
            \/ ListOpened \/ MarkMissing \/ EnterPulse \/ Pulse
            \/ Inspect \/ StoreFile \/ FileFails
  <2>1. pc \notin Outside /\ UNCHANGED <<snapshot, error, scanning, ready, query>>
    BY <1>10 DEF ListRoot, ListFails, ListOpened, MarkMissing, EnterPulse, Pulse, Inspect,
                 StoreFile, FileFails, shown
  <2>2. stage' = stage \/ (stage = "walk" /\ stage' = "refresh")
    BY <1>10 DEF ListRoot, ListFails, ListOpened, MarkMissing, EnterPulse, Pulse, Inspect,
                 StoreFile, FileFails, scan, IndexInv, Staged
  <2> QED BY <2>1, <2>2, TellsNothing
<1>11. ASSUME NEW f \in todo, VisitFile(f) \/ VisitOpened(f) PROVE Told'
  <2>1. /\ pc \notin Outside /\ UNCHANGED <<ready, error, scanning, query, stage>>
        /\ Publish(TRUE) \/ UNCHANGED snapshot
    BY <1>11 DEF VisitFile, VisitOpened, PulseOver
  <2>2. CASE Publish(TRUE)
    BY <2>1, <2>2, TellsAll DEF Told, Refused, Busy
  <2>3. CASE UNCHANGED snapshot
    BY <2>1, <2>3, TellsNothing
  <2> QED BY <2>1, <2>2, <2>3
<1> QED BY <1>1, <1>2, <1>3, <1>4, <1>5, <1>6, <1>7, <1>8, <1>9, <1>10, <1>11 DEF Worker

LEMMA SettledStep ==
  IndexInv /\ KeptInv /\ Latest /\ Told /\ [Next]_vars => Latest' /\ Told'
<1> SUFFICES ASSUME IndexInv, KeptInv, Latest, Told, [Next]_vars PROVE Latest' /\ Told'
  OBVIOUS
<1>1. CASE Next
  BY <1>1, LatestEnvironment, LatestWorker, ToldEnvironment, ToldWorker DEF Next
<1>2. CASE UNCHANGED vars
  <2>1. UNCHANGED <<queue, command, query, asked, ready, pc, stage, scanning, error, snapshot>>
    BY <1>2 DEF vars, env, scan, shown
  <2> QED BY <2>1 DEF Latest, Told, Busy, Refused, Shown
<1> QED BY <1>1, <1>2

LEMMA SettledStart == Init => Latest /\ Told
<1> SUFFICES ASSUME Init PROVE Latest /\ Told
  OBVIOUS
<1>1. Latest
  BY DEF Init, Latest, LatestIn, NoCommand
<1>2. Told
  BY DEF Init, Told, Busy, Refused, Shown, NoSnapshot, Outside
<1> QED BY <1>1, <1>2

(* When the worker sleeps nothing is left to run: its queue is empty and   *)
(* no scan is in progress, so that the last query handed over was the last *)
(* one run, and every way to the end of a command or of a scan published.  *)
THEOREM RestSettles == Spec => []RestsSettled
<1>1. ASSUME IndexInv, KeptInv, NoWakeupLost, Latest, Told PROVE RestsSettled
  <2> SUFFICES ASSUME pc = "asleep" PROVE ~snapshot.busy /\ (snapshot.page = asked \/ snapshot.error)
    BY DEF RestsSettled
  <2>1. queue = <<>> /\ command.kind = "none" /\ stage = "none"
    BY <1>1 DEF NoWakeupLost, KeptInv, Idle, IndexInv, Staged, Outside
  <2>2. ~snapshot.busy /\ (snapshot.page = query \/ snapshot.error)
    BY <1>1, <2>1 DEF Told, Busy, Shown
  <2>3. CASE ready
    <3>1. NoQuery(<<>>, 0)
      BY DEF NoQuery
    <3>2. query = asked
      BY <1>1, <2>1, <2>3, <3>1 DEF Latest, LatestIn
    <3> QED BY <2>2, <3>2
  <2>4. CASE ~ready
    BY <1>1, <2>2, <2>4 DEF Told, Refused
  <2> QED BY <2>3, <2>4
<1> QED BY <1>1, SettledStart, SettledStep, KeptStart, KeptStep, NoWakeupIsLost, Invariance, PTL
       DEF Spec
=============================================================================
