---------------------------- MODULE LibraryIndex ----------------------------
(***************************************************************************)
(* The index of games (src/library/library.cpp): calls of the interface    *)
(* put commands into a queue, one worker runs them against the database    *)
(* and publishes snapshots.  A scan is one long command that runs the      *)
(* short ones between two files (Pulse).  Around it files change, scans    *)
(* are cancelled, the destructor joins, the program is killed.             *)
(*                                                                         *)
(* A file's fingerprint is a version that grows with each write and        *)
(* determines its contents.  Archives have one member, directories no      *)
(* subdirectories; failures of the database itself are left out, and so    *)
(* are the limit of 16 commands of one Pulse, beyond MaxCalls, and the     *)
(* commands that only edit a game's fields.                                *)
(***************************************************************************)
EXTENDS Integers, Sequences, FiniteSets

CONSTANTS
  Root,       \* the directories of the library
  File,       \* files in them
  RootOf,     \* [File -> Root]
  Opened,     \* files opened directly, outside of every root
  Page,       \* queries of the interface
  None,       \* no file, no root, no query
  Configured, \* lists of roots the settings may hold
  Clock,      \* values of Now()
  MaxChanges, \* bound: writes and removals of files
  MaxCalls    \* bound: calls of the interface, destruction and restarts included

ASSUME LibraryAssumption ==
  /\ RootOf \in [File -> Root]
  /\ File \intersect Opened = {}
  /\ IsFiniteSet(File) /\ IsFiniteSet(Opened)
  /\ None \notin File \union Opened \union Root \union Page
  /\ Configured \subseteq SUBSET Root
  /\ Clock \subseteq Nat
  /\ MaxChanges \in Nat /\ MaxCalls \in Nat

Path == File \union Opened

VARIABLES
  disk,       \* a path's file: its version, and whether it is there
  changes,
  \* The interface's side.
  calls,
  asked,      \* history: the last query handed over
  accepted,   \* history: sessions handed over, without those a kill lost
  closing,    \* the destructor: "no", "stopping", "cancelled", "notified"
  queue,
  \* The database, which survives a kill.
  rec,        \* the row of a file and of its member
  rootError,  \* roots with an error
  enabled,    \* roots with roots.enabled
  sessions,   \* sessions of known copies
  recent,     \* opened files with a session, those in Recents
  \* The worker.
  pc,
  ready,      \* the database is open
  command,    \* the command it runs, other than a scan in progress
  cancel,     \* Impl::cancel, the token of the last scan
  stage,      \* what the scan in progress walks: a root or opened files
  roots,      \* roots still to be walked, and the one being walked
  root,
  todo,       \* files still to be visited, with the fingerprints first read
  generation,
  force,
  gone,       \* history: files absent at some moment of the scan
  probe,      \* the file being inspected
  scanning, error, \* progress.scanning; error is not empty
  query,      \* Impl::query
  snapshot    \* what the interface sees

files  == <<disk, changes>>
env    == <<calls, asked, accepted, closing>>
db     == <<rec, rootError, enabled, sessions, recent>>
scan   == <<stage, roots, root, todo, generation, force, gone>>
shown  == <<scanning, error, query, snapshot>>
vars   == <<files, env, queue, db, pc, ready, command, cancel, scan,
            probe, shown>>

NoRow == [status |-> "none", stamp |-> 0, content |-> 0, seen |-> 0]
NoProbe == [path |-> None, stamp |-> 0, content |-> 0]
NoCommand == [kind |-> "none"]
NoSnapshot == [games |-> {}, page |-> None, busy |-> FALSE, error |-> FALSE]

(* Commands: those marked as scans keep their place in the queue, the      *)
(* short ones are also run by Pulse.                                       *)
ScanKind == {"configure", "scan", "rebuild"}
ScanCommand ==
  [kind : {"configure"}, roots : SUBSET Root, scan : BOOLEAN, cancelled : BOOLEAN]
    \union [kind : {"scan"}, force : BOOLEAN, cancelled : BOOLEAN]
    \union [kind : {"rebuild"}, cancelled : BOOLEAN]
ShortCommand ==
  {[kind |-> "query", page |-> q] : q \in Page} \union {[kind |-> "session"]}
    \union {[kind |-> "external", path |-> p] : p \in Opened}

(* What Configure, Scan and Rebuild enqueue.                               *)
ScanCall ==
  {[kind |-> "configure", roots |-> E, scan |-> s, cancelled |-> FALSE] :
     E \in Configured, s \in BOOLEAN}
    \union {[kind |-> "scan", force |-> f, cancelled |-> FALSE] : f \in BOOLEAN}
    \union {[kind |-> "rebuild", cancelled |-> FALSE]}
IsScan(c) == c.kind \in ScanKind

Init ==
  /\ disk = [p \in Path |-> [there |-> TRUE, version |-> 1]]
  /\ rec = [p \in Path |-> NoRow]
  /\ rootError = {} /\ enabled = {} /\ sessions = 0 /\ recent = {}
  /\ changes = 0 /\ calls = 0 /\ accepted = 0
  /\ pc = "open"
  /\ queue = <<>> /\ command = NoCommand /\ cancel = "none"
  /\ stage = "none" /\ roots = {} /\ root = None /\ todo = {}
  /\ generation = 0 /\ force = FALSE
  /\ ready = FALSE /\ gone = {} /\ probe = NoProbe
  /\ scanning = FALSE /\ error = FALSE /\ query = None
  /\ snapshot = NoSnapshot /\ asked = None /\ closing = "no"

-----------------------------------------------------------------------------
(* Around the index.                                                       *)

WriteFile(p) ==
  /\ changes < MaxChanges /\ changes' = changes + 1
  /\ disk' = [disk EXCEPT ![p] = [there |-> TRUE, version |-> @.version + 1]]
  /\ UNCHANGED <<env, queue, db, pc, ready, command, cancel, scan, probe, shown>>

RemoveFile(p) ==
  /\ changes < MaxChanges /\ changes' = changes + 1
  /\ disk[p].there
  /\ disk' = [disk EXCEPT ![p].there = FALSE]
  /\ gone' = IF stage = "none" THEN gone ELSE gone \union {p}
  /\ UNCHANGED <<env, queue, db, pc, ready, command, cancel, stage, roots, root,
                 todo, generation, force, probe, shown>>

(* The process ends anywhere, or has ended, and is started again: the      *)
(* database stays.                                                         *)
Restart ==
  /\ calls < MaxCalls /\ calls' = calls + 1
  /\ accepted' = sessions
  /\ pc' = "open"
  /\ queue' = <<>> /\ command' = NoCommand /\ cancel' = "none"
  /\ stage' = "none" /\ roots' = {} /\ root' = None /\ todo' = {}
  /\ generation' = 0 /\ force' = FALSE
  /\ ready' = FALSE /\ gone' = {} /\ probe' = NoProbe
  /\ scanning' = FALSE /\ error' = FALSE /\ query' = None
  /\ snapshot' = NoSnapshot /\ asked' = None /\ closing' = "no"
  /\ UNCHANGED <<files, db>>

-----------------------------------------------------------------------------
(* The interface.  It takes the mutex for every change; the worker holds   *)
(* it from the test of the queue until it sleeps.                          *)

CanCall == closing = "no" /\ pc \notin {"tested", "closed"} /\ calls < MaxCalls

Cancelled(c) == IF IsScan(c) THEN [c EXCEPT !.cancelled = TRUE] ELSE c
Revoked(t) == IF t = "none" THEN t ELSE "cancelled"

(* enqueue and notify_one *)
Enqueued(q, c) ==
  /\ queue' = Append(q, c)
  /\ pc' = IF pc = "asleep" THEN "test" ELSE pc

Cancel ==
  /\ cancel' = Revoked(cancel)
  /\ command' = Cancelled(command)

Cancelling(q) == [i \in DOMAIN q |-> Cancelled(q[i])]

(* Configure and Rebuild cancel first, Scan does not. *)
CallScan(c) ==
  /\ CanCall /\ calls' = calls + 1
  /\ IF c.kind = "scan"
       THEN Enqueued(queue, c) /\ UNCHANGED <<cancel, command>>
       ELSE Enqueued(Cancelling(queue), c) /\ Cancel
  /\ UNCHANGED <<files, asked, accepted, closing, db, ready, scan,
                 probe, shown>>

CancelScan ==
  /\ CanCall /\ calls' = calls + 1
  /\ Cancel /\ queue' = Cancelling(queue)
  /\ UNCHANGED <<files, asked, accepted, closing, db, pc, ready, scan, probe, shown>>

(* The copy of a session is one that a snapshot showed. *)
CallShort(c) ==
  /\ CanCall /\ calls' = calls + 1
  /\ c.kind = "session" => snapshot.games # {}
  /\ Enqueued(queue, c)
  /\ asked' = IF c.kind = "query" THEN c.page ELSE asked
  /\ accepted' = IF c.kind = "session" THEN accepted + 1 ELSE accepted
  /\ UNCHANGED <<files, closing, db, ready, command, cancel, scan,
                 probe, shown>>

(* The destructor: stopping is stored without the mutex, Cancel takes it,  *)
(* and only then are waiters notified.                                     *)
Destroy ==
  /\ closing = "no" /\ calls < MaxCalls /\ calls' = calls + 1
  /\ closing' = "stopping"
  /\ UNCHANGED <<files, asked, accepted, queue, db, pc, ready, command, cancel,
                 scan, probe, shown>>

(* Fault: the tokens are cancelled without the mutex *)
DestroyCancelUnlocked ==
  /\ closing = "stopping"
  /\ closing' = "cancelled"
  /\ Cancel /\ queue' = Cancelling(queue)
  /\ UNCHANGED <<files, calls, asked, accepted, db, pc, ready, scan, probe, shown>>

DestroyCancel ==
  /\ closing = "stopping" /\ pc # "tested"
  /\ closing' = "cancelled"
  /\ Cancel /\ queue' = Cancelling(queue)
  /\ UNCHANGED <<files, calls, asked, accepted, db, pc, ready, scan, probe, shown>>

DestroyNotify ==
  /\ closing = "cancelled"
  /\ closing' = "notified"
  /\ pc' = IF pc = "asleep" THEN "test" ELSE pc
  /\ UNCHANGED <<files, calls, asked, accepted, queue, db, ready,
                 command, cancel, scan, probe, shown>>

-----------------------------------------------------------------------------
(* The worker outside of a scan.                                           *)

(* The games of enabled roots; a failed publication keeps those shown.     *)
Publish(full) ==
  snapshot' =
    [games |-> IF full /\ ready'
                 THEN {p \in Path : rec'[p].content # 0
                                    /\ (p \in File => RootOf[p] \in enabled')}
                 ELSE snapshot.games,
     page  |-> IF full /\ ready' THEN query' ELSE snapshot.page,
     busy  |-> scanning', error |-> error']

(* A scan's locals, and the inspection in progress, are gone. *)
Ended ==
  /\ pc' = "test" /\ command' = NoCommand /\ probe' = NoProbe
  /\ stage' = "none" /\ todo' = {} /\ roots' = {} /\ root' = None
  /\ generation' = 0 /\ force' = FALSE /\ gone' = {}

(* Fault: the handler forgets the progress *)
RunCancelledBusy == Ended /\ UNCHANGED scanning /\ Publish(TRUE)

(* Fault: the handler publishes no games *)
RunCancelledStale == Ended /\ scanning' = FALSE /\ Publish(FALSE)

(* The handlers of Run: of a cancelled scan and of every other failure.    *)
RunCancelled == Ended /\ scanning' = FALSE /\ Publish(TRUE)
RunFailed == Ended /\ scanning' = FALSE /\ error' = TRUE /\ Publish(FALSE)

Open ==
  /\ pc = "open"
  /\ pc' = "test"
  /\ \/ ready' = TRUE /\ UNCHANGED error
     \/ ready' = FALSE /\ error' = TRUE
  /\ UNCHANGED <<files, env, queue, db, command, cancel, scan, probe,
                 scanning, query>>
  /\ Publish(ready')

(* Fault: the destructor does not wait for the queue *)
TestAtOnce ==
  /\ pc = "test"
  /\ pc' = CASE queue # <<>> -> IF closing = "no" THEN "run" ELSE "closed"
             [] queue = <<>> /\ closing # "no" -> "closed"
             [] OTHER -> "tested"
  /\ command' = IF queue = <<>> THEN command ELSE Head(queue)
  /\ queue' = IF queue = <<>> THEN queue ELSE Tail(queue)
  /\ UNCHANGED <<files, env, db, ready, cancel, scan, probe, shown>>

(* The wait's predicate, with the mutex held, and the sleep. *)
Test ==
  /\ pc = "test"
  /\ pc' = CASE queue # <<>> -> "run"
             [] queue = <<>> /\ closing # "no" -> "closed"
             [] OTHER -> "tested"
  /\ command' = IF queue = <<>> THEN command ELSE Head(queue)
  /\ queue' = IF queue = <<>> THEN queue ELSE Tail(queue)
  /\ UNCHANGED <<files, env, db, ready, cancel, scan, probe, shown>>

Sleep ==
  /\ pc = "tested" /\ pc' = "asleep"
  /\ UNCHANGED <<files, env, queue, db, ready, command, cancel, scan,
                 probe, shown>>

(* A scan is dropped once the destructor runs, a closed database refuses.  *)
Skip ==
  /\ pc = "run" /\ IsScan(command) /\ closing # "no"
  /\ pc' = "test" /\ command' = NoCommand
  /\ UNCHANGED <<files, env, queue, db, ready, cancel, scan, probe, shown>>

Refuse ==
  /\ pc = "run" /\ ~ready /\ ~(IsScan(command) /\ closing # "no")
  /\ UNCHANGED <<files, env, queue, db, ready, cancel, query>>
  /\ RunFailed

(* A short command, run by Run or inside of Pulse.                         *)
ShortDone ==
  /\ command' = NoCommand
  /\ pc' = IF stage = "none" THEN "test" ELSE "pulse"
  /\ IF stage = "none" THEN Publish(TRUE) ELSE UNCHANGED snapshot

(* What it throws ends the root of a walk, or the whole scan. *)
ShortFailed ==
  IF stage = "walk"
    THEN /\ rootError' = rootError \union {root}
         /\ pc' = "roots" /\ command' = NoCommand /\ probe' = NoProbe
         /\ todo' = {} /\ root' = None
         /\ UNCHANGED <<stage, roots, generation, force, gone, scanning, error, snapshot>>
    ELSE RunFailed /\ UNCHANGED rootError

Running == (pc = "run" /\ ready) \/ pc = "short"

RunQuery ==
  /\ Running /\ command.kind = "query"
  /\ query' = command.page
  /\ UNCHANGED <<files, env, queue, db, ready, cancel, scan, probe, scanning, error>>
  /\ ShortDone

RunSession ==
  /\ Running /\ command.kind = "session"
  /\ sessions' = sessions + 1
  /\ UNCHANGED <<files, env, queue, rec, rootError, enabled, recent, ready, cancel,
                 scan, probe, scanning, error, query>>
  /\ ShortDone

(* A game opened directly: a known copy takes the session, another file    *)
(* gets a row and is inspected first.                                      *)
RunExternal ==
  /\ Running /\ command.kind = "external"
  /\ LET p == command.path IN
       IF rec[p].content # 0
         THEN /\ recent' = recent \union {p}
              /\ UNCHANGED <<rec, rootError, scan, probe, scanning, error>>
              /\ UNCHANGED <<enabled, query, ready>>
              /\ ShortDone
         ELSE /\ rec' = [rec EXCEPT ![p].status = IF @ = "none" THEN "new" ELSE @]
              /\ UNCHANGED <<recent, enabled, query, ready>>
              /\ IF disk[p].there
                   THEN /\ probe' = [path |-> p, stamp |-> disk[p].version, content |-> 0]
                        /\ pc' = "inspect"
                        /\ UNCHANGED <<command, rootError, scan, scanning, error, snapshot>>
                   ELSE ShortFailed
  /\ UNCHANGED <<files, env, queue, sessions, cancel>>

-----------------------------------------------------------------------------
(* The scan.                                                               *)

Highest == CHOOSE n \in {rec[p].seen : p \in Path} \union {0} :
             \A p \in Path : rec[p].seen <= n

(* Configure's roots, Rebuild's cleared fingerprints, then Scan up to its  *)
(* first root.                                                             *)
StartScan ==
  /\ pc = "run" /\ ready /\ closing = "no" /\ IsScan(command)
  /\ enabled' = IF command.kind = "configure" THEN command.roots ELSE enabled
  /\ rec' = IF command.kind = "rebuild"
              THEN [p \in Path |-> [rec[p] EXCEPT !.stamp = 0]] ELSE rec
  /\ UNCHANGED <<files, env, queue, rootError, sessions, recent, ready, query>>
  /\ IF command.kind = "configure" /\ ~command.scan
       THEN /\ UNCHANGED <<cancel, scan, probe, scanning, error>>
            /\ pc' = "test" /\ command' = NoCommand /\ Publish(TRUE)
       ELSE /\ cancel' = IF command.cancelled THEN "cancelled" ELSE "live"
            /\ IF command.cancelled
                 THEN UNCHANGED error /\ RunCancelled
                 ELSE /\ pc' = "roots" /\ command' = NoCommand
                      /\ scanning' = TRUE /\ error' = FALSE
                      /\ Publish(TRUE)
                      /\ stage' = "walk" /\ roots' = enabled'
                      /\ generation' = Highest + 1
                      /\ force' = (IF command.kind = "scan" THEN command.force
                                   ELSE command.kind = "rebuild")
                      /\ gone' = {p \in Path : ~disk[p].there}
                      /\ UNCHANGED <<root, todo, probe>>

(* CheckCancelled wherever the code has it: in Walk, in Pulse, in Inspect  *)
(* and after them.                                                         *)
ScanCancelled ==
  /\ cancel = "cancelled"
  /\ \/ pc \in {"visit", "inspect"}
     \/ pc = "roots" /\ roots # {}
     \/ pc = "commit" /\ command.kind # "external"
  /\ UNCHANGED <<files, env, queue, db, ready, cancel, error, query>>
  /\ RunCancelled

Going == cancel # "cancelled"

ListRoot(r) ==
  /\ pc = "roots" /\ r \in roots /\ Going
  /\ roots' = roots \ {r} /\ root' = r
  /\ todo' = {[path |-> p, stamp |-> disk[p].version] :
                p \in {f \in File : RootOf[f] = r /\ disk[f].there}}
  /\ pc' = "visit"
  /\ UNCHANGED <<files, env, queue, db, ready, command, cancel, stage, generation,
                 force, gone, probe, shown>>

(* A directory that cannot be listed: its files keep their rows. *)
ListFails(r) ==
  /\ pc = "roots" /\ r \in roots /\ Going
  /\ roots' = roots \ {r}
  /\ rootError' = rootError \union {r}
  /\ UNCHANGED <<files, env, queue, rec, enabled, sessions, recent, pc, ready,
                 command, cancel, stage, root, todo, generation, force, gone,
                 probe, shown>>

(* Line 212 reads the rows of opened files before it refreshes them: a     *)
(* fingerprint to compare with, 0 if the row's does not count.             *)
ListOpened ==
  /\ pc = "roots" /\ roots = {}
  /\ stage' = "refresh"
  /\ todo' = {[path |-> p, stamp |-> IF rec[p].status = "indexed"
                                       THEN rec[p].stamp ELSE 0] :
                p \in {q \in Opened : rec[q].status # "none"}}
  /\ pc' = "visit"
  /\ UNCHANGED <<files, env, queue, db, ready, command, cancel, roots, root,
                 generation, force, gone, probe, shown>>

(* Fault: the roots still to be walked are marked too *)
MarkMissingEverywhere ==
  /\ pc = "visit" /\ stage = "walk" /\ todo = {} /\ Going
  /\ rec' = [p \in Path |->
               IF p \in File /\ rec[p].status # "none"
                    /\ rec[p].seen # generation
                 THEN [rec[p] EXCEPT !.status = "missing"] ELSE rec[p]]
  /\ rootError' = rootError \ {root}
  /\ pc' = "roots" /\ root' = None
  /\ UNCHANGED <<files, env, queue, enabled, sessions, recent, ready, command,
                 cancel, stage, roots, todo, generation, force, gone, probe, shown>>

(* The files of a root were all visited: those not seen are missing.       *)
MarkMissing ==
  /\ pc = "visit" /\ stage = "walk" /\ todo = {} /\ Going
  /\ rec' = [p \in Path |->
               IF p \in File /\ rec[p].status # "none" /\ RootOf[p] = root
                    /\ rec[p].seen # generation
                 THEN [rec[p] EXCEPT !.status = "missing"] ELSE rec[p]]
  /\ rootError' = rootError \ {root}
  /\ pc' = "roots" /\ root' = None
  /\ UNCHANGED <<files, env, queue, enabled, sessions, recent, ready, command,
                 cancel, stage, roots, todo, generation, force, gone, probe, shown>>

FinishScan ==
  /\ pc = "visit" /\ stage = "refresh" /\ todo = {}
  /\ UNCHANGED <<files, env, queue, db, ready, cancel, error, query>>
  /\ Ended /\ scanning' = FALSE /\ Publish(TRUE)

EnterPulse ==
  /\ pc = "visit" /\ todo # {} /\ Going
  /\ pc' = "pulse"
  /\ UNCHANGED <<files, env, queue, db, ready, command, cancel, scan,
                 probe, shown>>

Pulse ==
  /\ pc = "pulse" /\ queue # <<>> /\ ~IsScan(Head(queue))
  /\ command' = Head(queue) /\ queue' = Tail(queue)
  /\ pc' = "short"
  /\ UNCHANGED <<files, env, db, ready, cancel, scan, probe, shown>>

(* No short command waits; every 150 ms the state is published.            *)
PulseOver ==
  /\ pc = "pulse" /\ (queue # <<>> => IsScan(Head(queue)))
  /\ UNCHANGED <<scanning, error, query>>
  /\ Publish(TRUE) \/ UNCHANGED snapshot

(* An unchanged file is only seen; another one is inspected. *)
VisitFile(f) ==
  /\ stage = "walk" /\ f \in todo
  /\ todo' = todo \ {f}
  /\ LET row == rec[f.path]
         known == ~force /\ row.status = "indexed" /\ row.stamp = f.stamp IN
       IF known
         THEN /\ rec' = [rec EXCEPT ![f.path].seen = generation]
              /\ pc' = "visit" /\ UNCHANGED probe
         ELSE /\ rec' = [rec EXCEPT ![f.path].status = IF @ = "none" THEN "new" ELSE @]
              /\ pc' = "inspect"
              /\ probe' = [path |-> f.path, stamp |-> f.stamp, content |-> 0]
  /\ UNCHANGED <<files, env, queue, rootError, enabled, sessions, recent, ready,
                 command, cancel, stage, roots, root, generation, force, gone>>
  /\ PulseOver

VisitOpened(f) ==
  /\ stage = "refresh" /\ f \in todo
  /\ todo' = todo \ {f}
  /\ LET d == disk[f.path] IN
       IF d.there /\ (force \/ d.version # f.stamp)
         THEN /\ pc' = "inspect" /\ UNCHANGED rec
              /\ probe' = [path |-> f.path, stamp |-> d.version, content |-> 0]
         ELSE /\ pc' = "visit" /\ UNCHANGED probe
              /\ rec' = IF d.there THEN rec
                        ELSE [rec EXCEPT ![f.path].status = "unavailable"]
  /\ UNCHANGED <<files, env, queue, rootError, enabled, sessions, recent, ready,
                 command, cancel, stage, roots, root, generation, force, gone>>
  /\ PulseOver

Inspect ==
  /\ pc = "inspect" /\ Going /\ disk[probe.path].there
  /\ probe' = [probe EXCEPT !.content = disk[probe.path].version]
  /\ pc' = "commit"
  /\ UNCHANGED <<files, env, queue, db, ready, command, cancel, scan, shown>>

(* Fault: no second fingerprint *)
UnchangedUnchecked == disk[probe.path].there

(* The second fingerprint agrees: the row takes the contents. *)
Unchanged == disk[probe.path].there /\ disk[probe.path].version = probe.stamp
Stored(seen) == [status |-> "indexed", stamp |-> probe.stamp,
                 content |-> probe.content, seen |-> seen]
StoreFile ==
  /\ pc = "commit" /\ command.kind # "external" /\ Going /\ Unchanged
  /\ rec' = [rec EXCEPT ![probe.path] = Stored(generation)]
  /\ pc' = "visit" /\ probe' = NoProbe
  /\ UNCHANGED <<files, env, queue, rootError, enabled, sessions, recent, ready,
                 command, cancel, scan, shown>>

(* It was unreadable (Inspect may fail for other reasons), gone, or        *)
(* changed meanwhile: the row keeps what it had, with an error.            *)
FileFails ==
  /\ command.kind # "external" /\ Going
  /\ pc = "inspect" \/ (pc = "commit" /\ ~Unchanged)
  /\ rec' = [rec EXCEPT ![probe.path] =
       IF stage = "walk" THEN [@ EXCEPT !.status = "error", !.seen = generation]
                         ELSE [@ EXCEPT !.status = "unavailable"]]
  /\ pc' = "visit" /\ probe' = NoProbe
  /\ UNCHANGED <<files, env, queue, rootError, enabled, sessions, recent, ready,
                 command, cancel, scan, shown>>

(* The rest of RunExternal: no second fingerprint here. *)
StoreExternal ==
  /\ pc = "commit" /\ command.kind = "external"
  /\ \E now \in Clock : rec' = [rec EXCEPT ![probe.path] = Stored(now)]
  /\ recent' = recent \union {probe.path}
  /\ probe' = NoProbe
  /\ UNCHANGED <<files, env, queue, rootError, enabled, sessions, ready, cancel,
                 scan, scanning, error, query>>
  /\ ShortDone

ExternalFails ==
  /\ pc = "inspect" /\ command.kind = "external" /\ Going
  /\ UNCHANGED <<files, env, queue, rec, enabled, sessions, recent, ready, cancel,
                 query>>
  /\ ShortFailed

-----------------------------------------------------------------------------
Environment ==
  \/ \E p \in Path : WriteFile(p) \/ RemoveFile(p)
  \/ Restart
  \/ \E c \in ScanCall : CallScan(c)
  \/ CancelScan
  \/ \E c \in ShortCommand : CallShort(c)
  \/ Destroy

Destructor == DestroyCancel \/ DestroyNotify

Worker ==
  \/ Open \/ Test \/ Sleep \/ Skip \/ Refuse
  \/ RunQuery \/ RunSession \/ RunExternal
  \/ StartScan \/ ScanCancelled
  \/ \E r \in Root : ListRoot(r) \/ ListFails(r)
  \/ ListOpened \/ MarkMissing \/ FinishScan
  \/ EnterPulse \/ Pulse
  \/ \E f \in todo : VisitFile(f) \/ VisitOpened(f)
  \/ Inspect \/ StoreFile \/ FileFails \/ StoreExternal \/ ExternalFails

Next == Environment \/ Destructor \/ Worker

Fairness == WF_vars(Worker) /\ WF_vars(Destructor)
Spec == Init /\ [][Next]_vars /\ Fairness

-----------------------------------------------------------------------------
Pc == {"open", "test", "tested", "asleep", "run", "short", "roots", "visit",
       "pulse", "inspect", "commit", "closed"}
Visit == [path : Path, stamp : Nat]

(* The values of the state (Impl's fields, the tables of the database).    *)
TypeOK ==
  /\ disk \in [Path -> [there : BOOLEAN, version : Nat]]
  /\ rec \in [Path -> [status : {"none", "new", "indexed", "missing", "error",
                                 "unavailable"},
                       stamp : Nat, content : Nat, seen : Nat]]
  /\ rootError \subseteq Root /\ enabled \subseteq Root /\ recent \subseteq Opened
  /\ sessions \in Nat /\ accepted \in Nat
  /\ pc \in Pc /\ stage \in {"none", "walk", "refresh"}
  /\ closing \in {"no", "stopping", "cancelled", "notified"}
  /\ cancel \in {"none", "live", "cancelled"}
  /\ queue \in Seq(ScanCommand \union ShortCommand)
  /\ command \in ScanCommand \union ShortCommand \union {NoCommand}
  /\ roots \subseteq Root /\ root \in Root \union {None}
  /\ todo \subseteq Visit
  /\ probe \in [path : Path \union {None}, stamp : Nat, content : Nat]
  /\ generation \in Nat /\ gone \subseteq Path
  /\ ready \in BOOLEAN /\ force \in BOOLEAN
  /\ scanning \in BOOLEAN /\ error \in BOOLEAN

(* Only a file that really was away becomes "missing": a file that a       *)
(* completed walk of its root did not see was absent at some moment of     *)
(* that scan, whatever was cancelled, failed, changed or restarted before  *)
(* (library.cpp:192, 199 and 204).                                         *)
OnlyGoneIsMissing ==
  [][\A p \in Path :
       rec'[p].status = "missing" /\ rec[p].status # "missing" => p \in gone]_vars

(* A row never pairs a fingerprint with the contents of another version:   *)
(* rows of a root come from a file that did not change between its listing *)
(* and its commit (lines 194 and 220), a game opened directly can only     *)
(* have newer contents than its fingerprint, so that the next scan         *)
(* refreshes it (line 307).                                                *)
RowMatches(p) ==
  LET row == rec[p] IN
    row.stamp # 0 => /\ row.stamp <= row.content
                     /\ p \in File => row.stamp = row.content
FingerprintNamesContents == \A p \in Path : RowMatches(p)

(* A session that was handed over is in the database when the index has    *)
(* been destroyed, and whenever its worker sleeps: the queue is emptied    *)
(* first, with scans dropped and not the commands behind them (lines 117   *)
(* and 118).                                                               *)
SessionsKept == pc \in {"asleep", "closed"} /\ ready => sessions = accepted

(* No wake-up is lost: a worker that sleeps has nothing in its queue, and  *)
(* the destructor has not notified it yet; whatever comes between its test *)
(* of the queue and its sleep waits for the mutex (lines 86, 90 and 117).  *)
NoWakeupLost == pc = "asleep" => queue = <<>> /\ closing # "notified"

(* When the worker has come to rest the interface shows no scan, and the   *)
(* last query's page or that something failed; also if scans were          *)
(* cancelled or failed with the query in front of, in or behind them       *)
(* (lines 120, 121 and 224).                                               *)
RestsSettled ==
  pc = "asleep" => ~snapshot.busy /\ (snapshot.page = asked \/ snapshot.error)

(* What the interface shows as busy ends: every way out of a scan clears   *)
(* the progress and publishes (lines 120, 121 and 224).                    *)
ScanSettles == snapshot.busy ~> (~snapshot.busy)

(* The last query is answered, or the failure that kept the old page is    *)
(* shown: also if it came during a scan that was then cancelled.           *)
QueryAnswered ==
  \A q \in Page :
    (asked = q) ~> (snapshot.page = q \/ snapshot.error \/ asked # q)

(* The destructor's join returns: the worker cannot miss its notification, *)
(* because Cancel takes the mutex between the store and the notify         *)
(* (line 86).                                                              *)
Joins == (closing # "no") ~> (pc = "closed" \/ closing = "no")

(* "RecordExternal adds only the explicitly opened game to Recents"        *)
(* (readme.txt:50): such a command ends with the game in Recents or with   *)
(* an error.                                                               *)
ExternalRecorded ==
  [][command.kind = "external" /\ command' # command /\ pc' # "open"
       => command.path \in recent' \/ error' \/ root \in rootError']_vars
=============================================================================
