--------------------------- MODULE MetadataService ---------------------------
(***************************************************************************)
(* The online-metadata service (src/metadata/service.cpp): a worker that   *)
(* does all disk and network work, the calls the user interface makes of   *)
(* it under one mutex, and the destructor, which does not take the mutex.  *)
(*                                                                         *)
(* A worker action is what the worker does between two points at which a   *)
(* call can come in between: it takes the mutex, waits on the condition    *)
(* variable, looks at one of the atomics, or does I/O.  A wait is in two   *)
(* steps, because its predicate is evaluated before the thread is in the   *)
(* condition variable's queue; the mutex is held from one to the other,    *)
(* which keeps out whoever takes the mutex and nobody else.                *)
(*                                                                         *)
(* Left out: the artwork files and their eviction, the retry timetable, a  *)
(* catalog's contents.  A viewport has at most one cover, the sources are  *)
(* Sources in number, and a fetch may fail or not.                         *)
(***************************************************************************)
EXTENDS Naturals, Sequences, FiniteSets

CONSTANTS
  MaxEvents,   \* capacity of the event queue: 64 in the code
  Sources,     \* catalog downloads of a refresh: 6 in the code
  MaxCalls     \* bounds TLC's instances: calls that bump a generation

ASSUME MetadataServiceAssumption ==
  /\ MaxEvents \in Nat \ {0}
  /\ Sources \in Nat \ {0}
  /\ MaxCalls \in Nat

VARIABLES
  ui,          \* the owner: "live", "stopping", "joining", "joined"
  calls,       \* calls made
  stop, generation, coverGeneration,               \* the atomics
  lock,        \* who holds the mutex across a step: "free" or "worker"
  enabled, refresh, coverPending, clear, viewport, \* guarded by it
  events,      \* the event queue
  pc,          \* where the worker stands
  asleep,      \* the worker is in the condition variable's queue
  job,         \* the worker's copy of what it was asked
  source,      \* the source it downloads
  outbox,      \* the event Emit is to queue, and where Emit returns to
  disk,        \* catalog.cache as the worker finds it: "none", "stale", "fresh"
  wanted,      \* history: a refresh was asked for and has not been answered
  served       \* history: versions of the last viewport gone through

shared == <<enabled, refresh, coverPending, clear, viewport>>
atomics == <<stop, generation, coverGeneration>>
work == <<job, source, outbox, disk>>
vars == <<ui, calls, atomics, lock, shared, events, pc, asleep, work, wanted, served>>

Places == {"start", "flags", "wait", "sleep", "clear", "source", "fetch", "write",
           "commit", "publish", "failed", "cover", "load", "deliver", "cover failed",
           "emit", "emit sleep", "done"}

Event == [type : {"catalog", "cover", "error", "cover error"}, gen : Nat, cov : Nat]
NoEvent == [type |-> "catalog", gen |-> 0, cov |-> 0]

TypeOK ==
  /\ ui \in {"live", "stopping", "joining", "joined"}
  /\ calls \in 0 .. MaxCalls
  /\ stop \in BOOLEAN /\ generation \in Nat /\ coverGeneration \in Nat
  /\ lock \in {"free", "worker"}
  /\ enabled \in BOOLEAN /\ refresh \in BOOLEAN /\ coverPending \in BOOLEAN
  /\ clear \in BOOLEAN /\ viewport \in BOOLEAN
  /\ events \in Seq(Event) /\ Len(events) <= MaxEvents
  /\ pc \in Places
  /\ asleep \in BOOLEAN
  /\ job \in [refresh : BOOLEAN, clear : BOOLEAN, cover : BOOLEAN, enabled : BOOLEAN,
              gen : Nat, cov : Nat]
  /\ source \in 1 .. Sources
  /\ outbox \in [event : Event, cancellable : BOOLEAN, return : Places]
  /\ disk \in {"none", "stale", "fresh"}
  /\ wanted \in BOOLEAN
  /\ served \in [gen : Nat, cov : Nat]

Init ==
  /\ ui = "live"
  /\ calls = 0
  /\ stop = FALSE /\ generation = 0 /\ coverGeneration = 0
  /\ lock = "free"
  /\ enabled \in BOOLEAN
  /\ refresh = FALSE /\ coverPending = FALSE /\ clear = FALSE /\ viewport = FALSE
  /\ events = << >>
  /\ pc = "start"
  /\ asleep = FALSE
  /\ job = [refresh |-> FALSE, clear |-> FALSE, cover |-> FALSE, enabled |-> FALSE,
            gen |-> 0, cov |-> 0]
  /\ source = 1
  /\ outbox = [event |-> NoEvent, cancellable |-> FALSE, return |-> "flags"]
  /\ disk \in {"none", "stale", "fresh"}
  /\ wanted = FALSE
  /\ served = [gen |-> 0, cov |-> 0]

-----------------------------------------------------------------------------
(* The calls. *)

(* Work has not reached its second line, which sets "refresh" anew: a refresh *)
(* asked for before that is lost, unless the catalog was out of date anyway.  *)
Starting == pc \in {"start", "flags"}
              \/ (pc \in {"emit", "emit sleep"} /\ outbox.return = "flags")

NotCover(event) == event.type \notin {"cover", "cover error"}

(* PurgeCovers: the other events stay, in their order.  The order is a map of *)
(* their new places to the old ones, so that the queue can be reasoned about. *)
Purges(kept) ==
  LET stay == {i \in 1 .. Len(events) : NotCover(events[i])}
      places == 1 .. Cardinality(stay)
  IN  \E old \in [places -> stay] :
        /\ \A i, j \in places : i < j => old[i] < old[j]
        /\ kept = [i \in places |-> events[old[i]]]
PurgeCovers == Purges(events')

Notify == asleep' = FALSE

Call == /\ ui = "live"
        /\ lock = "free"
        /\ calls < MaxCalls
        /\ calls' = calls + 1
        /\ Notify
        /\ UNCHANGED <<ui, stop, lock, pc, work, served>>

(* Configure; the application changes nothing but "enabled". *)
Configure ==
  /\ Call
  /\ enabled' = ~enabled
  /\ generation' = generation + 1
  /\ PurgeCovers
  /\ coverPending' = TRUE
  /\ refresh' = (refresh \/ enabled')
  /\ wanted' = (enabled' /\ ~Starting)
  /\ UNCHANGED <<coverGeneration, clear, viewport>>

RefreshCatalog ==
  /\ Call
  /\ generation' = generation + 1
  /\ PurgeCovers
  /\ refresh' = TRUE
  /\ coverPending' = TRUE
  /\ wanted' = (enabled /\ ~Starting)
  /\ UNCHANGED <<coverGeneration, enabled, clear, viewport>>

(* A variant: the covers in hand are canceled, and no new round is asked for. *)
RequestCoversUnasked ==
  /\ Call
  /\ viewport' \in BOOLEAN
  /\ coverGeneration' = coverGeneration + 1
  /\ PurgeCovers
  /\ UNCHANGED <<generation, enabled, refresh, coverPending, clear, wanted>>

(* RequestCovers, of a viewport that differs from the present one. *)
RequestCovers ==
  /\ Call
  /\ viewport' \in BOOLEAN
  /\ coverGeneration' = coverGeneration + 1
  /\ PurgeCovers
  /\ coverPending' = TRUE
  /\ UNCHANGED <<generation, enabled, refresh, clear, wanted>>

ClearCache ==
  /\ Call
  /\ generation' = generation + 1
  /\ PurgeCovers
  /\ clear' = TRUE
  /\ coverPending' = TRUE
  /\ refresh' = FALSE
  /\ wanted' = FALSE
  /\ UNCHANGED <<coverGeneration, enabled, viewport>>

(* A variant: the worker is not told that there is room again. *)
PollEventsSilent ==
  /\ ui = "live" /\ lock = "free"
  /\ events' = << >>
  /\ UNCHANGED <<ui, calls, atomics, lock, shared, pc, asleep, work, wanted, served>>

PollEvents ==
  /\ ui = "live" /\ lock = "free"
  /\ events' = << >>
  /\ Notify
  /\ UNCHANGED <<ui, calls, atomics, lock, shared, pc, work, wanted, served>>

(* ~Impl: the atomics, then notify_all, then join; never the mutex. *)
SetStop ==
  /\ ui = "live"
  /\ ui' = "stopping"
  /\ stop' = TRUE
  /\ generation' = generation + 1
  /\ UNCHANGED <<calls, coverGeneration, lock, shared, events, pc, asleep, work, wanted, served>>

NotifyStop ==
  /\ ui = "stopping"
  /\ ui' = "joining"
  /\ Notify
  /\ UNCHANGED <<calls, atomics, lock, shared, events, pc, work, wanted, served>>

Join ==
  /\ ui = "joining"
  /\ pc = "done"
  /\ ui' = "joined"
  /\ UNCHANGED <<calls, atomics, lock, shared, events, pc, asleep, work, wanted, served>>

-----------------------------------------------------------------------------
(* The worker. *)

owner == <<ui, calls, atomics>>

Cancelled == stop \/ generation # job.gen
CoverCancelled == Cancelled \/ coverGeneration # job.cov

GoTo(place) == pc' = place /\ UNCHANGED outbox

(* Emit(type), then on to "return". *)
Send(type, cancellable, return) ==
  /\ pc' = "emit"
  /\ outbox' = [event |-> [type |-> type, gen |-> job.gen, cov |-> job.cov],
                cancellable |-> cancellable, return |-> return]

(* A worker step outside the mutex. *)
At(place) ==
  /\ pc = place
  /\ UNCHANGED <<owner, lock, shared, events, asleep>>

(* Work's first line, with LoadCache: the file is read, is refused, or is not there. *)
Start ==
  /\ At("start")
  /\ \/ disk = "none" /\ GoTo("flags") /\ UNCHANGED disk
     \/ disk # "none" /\ Send("catalog", FALSE, "flags") /\ UNCHANGED disk
     \/ Send("error", FALSE, "flags") /\ disk' = "stale"
  /\ UNCHANGED <<job, source, wanted, served>>

(* Its second: whether the catalog that was loaded is out of date. *)
Flags ==
  /\ pc = "flags"
  /\ lock = "free"
  /\ refresh' = (enabled /\ disk # "fresh")
  /\ pc' = "wait"
  /\ UNCHANGED <<owner, lock, enabled, coverPending, clear, viewport, events, asleep, work,
                 wanted, served>>

Asked == refresh \/ coverPending \/ clear

(* The wait at the head of Work's loop: nothing to do. *)
CheckWait ==
  /\ pc = "wait" /\ ~asleep /\ lock = "free"
  /\ ~stop /\ ~Asked
  /\ lock' = "worker"
  /\ pc' = "sleep"
  /\ UNCHANGED <<owner, shared, events, asleep, work, wanted, served>>

FallAsleep(place, return) ==
  /\ pc = place
  /\ lock' = "free"
  /\ asleep' = TRUE
  /\ pc' = return
  /\ UNCHANGED <<owner, shared, events, work, wanted, served>>

(* It is over: the worker copies what it is to do and resets the flags. *)
Take ==
  /\ pc = "wait" /\ ~asleep /\ lock = "free"
  /\ ~stop /\ Asked
  /\ job' = [refresh |-> refresh /\ enabled, clear |-> clear, cover |-> viewport,
             enabled |-> enabled, gen |-> generation, cov |-> coverGeneration]
  /\ refresh' = FALSE /\ coverPending' = FALSE /\ clear' = FALSE
  /\ pc' = "clear"
  /\ UNCHANGED <<owner, lock, enabled, viewport, events, asleep, source, outbox, disk,
                 wanted, served>>

Finish ==
  /\ pc = "wait" /\ ~asleep /\ lock = "free"
  /\ stop
  /\ pc' = "done"
  /\ UNCHANGED <<owner, lock, shared, events, asleep, work, wanted, served>>

(* Clear and Evict, each of which may throw; then Refresh if it is asked for. *)
ClearFiles ==
  /\ At("clear")
  /\ \/ /\ disk' = IF job.clear THEN "none" ELSE disk
        /\ GoTo(IF job.refresh THEN "source" ELSE "cover") \/ GoTo("failed")
     \/ GoTo("failed") /\ UNCHANGED disk
  /\ source' = 1
  /\ UNCHANGED <<job, wanted, served>>

(* Refresh: before each download. *)
NextSource ==
  /\ At("source")
  /\ GoTo(IF Cancelled THEN "cover" ELSE "fetch")
  /\ UNCHANGED <<job, source, disk, wanted, served>>

(* A download, after which the worker looks whether it was cancelled.  The *)
(* base data must not fail; a supplement may.                              *)
FetchSource ==
  /\ At("fetch")
  /\ LET onward == IF source < Sources THEN "source" ELSE "write"
     IN  \/ Cancelled /\ GoTo("cover") /\ UNCHANGED source
         \/ /\ ~Cancelled
            /\ source' = IF source < Sources THEN source + 1 ELSE source
            /\ GoTo(onward) \/ (source > 1 /\ Send("error", FALSE, onward))
         \/ ~Cancelled /\ source = 1 /\ GoTo("failed") /\ UNCHANGED source
  /\ UNCHANGED <<job, disk, wanted, served>>

(* BuildCatalog, then AtomicWrite; either may throw. *)
WriteCache ==
  /\ At("write")
  /\ \/ GoTo("failed") /\ UNCHANGED disk
     \/ Cancelled /\ GoTo("cover") /\ UNCHANGED disk
     \/ ~Cancelled /\ GoTo("commit") /\ disk' = "fresh"
  /\ UNCHANGED <<job, source, wanted, served>>

Commit ==
  /\ At("commit")
  /\ GoTo(IF Cancelled THEN "cover" ELSE "publish")
  /\ UNCHANGED <<job, source, disk, wanted, served>>

(* Publish, and the answer to whoever asked. *)
Publish ==
  /\ At("publish")
  /\ lock = "free"
  /\ Send("catalog", FALSE, "cover")
  /\ wanted' = (wanted /\ Cancelled)
  /\ UNCHANGED <<job, source, disk, served>>

(* The catch clause: a failure is reported unless it was overtaken. *)
Failed ==
  /\ At("failed")
  /\ IF Cancelled THEN GoTo("cover") /\ UNCHANGED wanted
                  ELSE Send("error", FALSE, "cover") /\ wanted' = (wanted /\ ~job.refresh)
  /\ UNCHANGED <<job, source, disk, served>>

(* The loop over the covers; back to the head of Work's loop at its end. *)
NextCover ==
  /\ At("cover")
  /\ IF job.cover /\ ~Cancelled
     THEN GoTo("load") /\ UNCHANGED <<job, served>>
     ELSE GoTo("wait") /\ served' = [gen |-> job.gen, cov |-> job.cov] /\ UNCHANGED job
  /\ UNCHANGED <<source, disk, wanted>>

(* Cover: the picture is not to be had, is there, perhaps with an error of the *)
(* cache, or could not be had.                                                 *)
LoadCover ==
  /\ At("load")
  /\ job' = [job EXCEPT !.cover = FALSE]
  /\ \/ GoTo("cover")
     \/ ~CoverCancelled /\ (GoTo("deliver") \/ Send("error", FALSE, "deliver"))
     \/ ~CoverCancelled /\ job.enabled /\ Send("cover error", FALSE, "cover")
     \/ ~CoverCancelled /\ GoTo("cover failed")
  /\ UNCHANGED <<source, disk, wanted, served>>

Deliver ==
  /\ At("deliver")
  /\ IF CoverCancelled THEN GoTo("cover") ELSE Send("cover", TRUE, "cover")
  /\ UNCHANGED <<job, source, disk, wanted, served>>

CoverFailed ==
  /\ At("cover failed")
  /\ IF CoverCancelled THEN GoTo("cover") ELSE Send("cover error", FALSE, "cover")
  /\ UNCHANGED <<job, source, disk, wanted, served>>

(* Emit. *)
Dropped == stop \/ (outbox.cancellable /\ CoverCancelled)
Room == Len(events) < MaxEvents

(* A variant: cancellation is not looked at again. *)
EmitUncancelled ==
  /\ pc = "emit" /\ ~asleep /\ lock = "free"
  /\ stop \/ Room
  /\ pc' = outbox.return
  /\ events' = IF stop THEN events ELSE Append(events, outbox.event)
  /\ UNCHANGED <<owner, lock, shared, asleep, work, wanted, served>>

EmitNow ==
  /\ pc = "emit" /\ ~asleep /\ lock = "free"
  /\ Dropped \/ Room
  /\ pc' = outbox.return
  /\ events' = IF Dropped THEN events ELSE Append(events, outbox.event)
  /\ UNCHANGED <<owner, lock, shared, asleep, work, wanted, served>>

CheckEmit ==
  /\ pc = "emit" /\ ~asleep /\ lock = "free"
  /\ ~Dropped /\ ~Room
  /\ lock' = "worker"
  /\ pc' = "emit sleep"
  /\ UNCHANGED <<owner, shared, events, asleep, work, wanted, served>>

Worker ==
  \/ Start \/ Flags
  \/ CheckWait \/ FallAsleep("sleep", "wait") \/ Take \/ Finish
  \/ ClearFiles
  \/ NextSource \/ FetchSource \/ WriteCache \/ Commit \/ Publish \/ Failed
  \/ NextCover \/ LoadCover \/ Deliver \/ CoverFailed
  \/ EmitNow \/ CheckEmit \/ FallAsleep("emit sleep", "emit")

Next ==
  \/ Configure \/ RefreshCatalog \/ RequestCovers \/ ClearCache \/ PollEvents
  \/ SetStop \/ NotifyStop \/ Join
  \/ Worker

Spec == Init /\ [][Next]_vars

(* The scheduler runs the worker, downloads end (they have a time limit), the *)
(* interface keeps polling, and a destructor that has begun goes on.          *)
FairSpec == Spec /\ WF_vars(Worker) /\ WF_vars(PollEvents) /\ WF_vars(NotifyStop) /\ WF_vars(Join)

-----------------------------------------------------------------------------
(* Properties. *)

(* "Requests replace the prior viewport" (service.hpp): no picture in the     *)
(* queue is of a viewport, or of settings, that have been replaced, although  *)
(* the worker may have had it ready, or may have waited for room, when they   *)
(* were.                                                                      *)
CoversCurrent ==
  ui = "live" => \A i \in 1 .. Len(events) :
    events[i].type = "cover" =>
      events[i].gen = generation /\ events[i].cov = coverGeneration

(* No wake-up is lost while the service is up: a worker that sleeps at the    *)
(* head of its loop has nothing to do, has gone through the last viewport     *)
(* under the last settings and owes no answer to a refresh, and one that      *)
(* sleeps in Emit has no room and holds an event that nothing has overtaken   *)
(* (service.cpp:155, 285 and 287).                                            *)
SleepsServed ==
  ui = "live" /\ asleep =>
    IF pc = "wait"
      THEN ~Asked /\ ~wanted /\ served = [gen |-> generation, cov |-> coverGeneration]
      ELSE ~Room /\ ~Dropped

(* Whatever calls come while it works, sleeps or waits for room, the worker    *)
(* goes through the last viewport under the last settings: no call is lost.    *)
ViewportSettles ==
  <>[](ui = "live" => served = [gen |-> generation, cov |-> coverGeneration])

(* A refresh asked for while the service is up and online is answered by a     *)
(* catalog or an error, unless it is given up.                                 *)
RefreshAnswered == wanted ~> (~wanted \/ ui # "live")

(* The destructor's join returns: "stop" is in the predicate of each of the    *)
(* worker's waits (service.cpp:155 and 285), and the destructor notifies.      *)
WorkerJoins == ui = "stopping" ~> ui = "joined"
=============================================================================
