----------------------------- MODULE AuditArchive -----------------------------
(***************************************************************************)
(* The hourly archive of one customer's audit events: every hour a worker    *)
(* reads the rows of the last whole hour and uploads them as one object,     *)
(* over the object that is there.  While a new release replaces an old one   *)
(* two workers run, and rows reach the table when the PDP flushes them.      *)
(*                                                                          *)
(* Time is kept in whole hours.  A timer fires once an hour at most; nothing *)
(* is assumed of how late, so an hour may pass without a tick.               *)
(***************************************************************************)
EXTENDS Naturals

CONSTANTS
    ArchiveEvents,
    Archivers,      \* processes of the control plane
    MaxHour         \* bound on time

ASSUME ArchiveAssumption == MaxHour \in Nat

VARIABLES
    hour,           \* the hour it is
    events,         \* where each event is, and the hour of its ts
    archivers,      \* the worker of each process
    objects         \* what the object of each hour holds

archiveVars == <<hour, events, archivers, objects>>

-----------------------------------------------------------------------------
(* State                                                                    *)

Hours == 0 .. MaxHour

EventStates == [at : {"nowhere", "buffer", "table"}, ts : Hours]

ArchiverStates == [pc : {"down", "waiting", "reading", "uploading"},
                   ticked : Hours, of : Hours, got : SUBSET ArchiveEvents,
                   overtaken : BOOLEAN]

NoArchiver == [pc |-> "down", ticked |-> 0, of |-> 0, got |-> {}, overtaken |-> FALSE]

ArchiveTypeOK ==
    /\ hour \in Hours
    /\ events \in [ArchiveEvents -> EventStates]
    /\ archivers \in [Archivers -> ArchiverStates]
    /\ objects \in [Hours -> SUBSET ArchiveEvents]

ArchiveInit ==
    /\ hour = 0
    /\ events = [e \in ArchiveEvents |-> [at |-> "nowhere", ts |-> 0]]
    /\ archivers = [w \in Archivers |-> NoArchiver]
    /\ objects = [h \in Hours |-> {}]

-----------------------------------------------------------------------------
(* Events                                                                   *)

HourPasses ==
    /\ hour < MaxHour
    /\ hour' = hour + 1
    /\ UNCHANGED <<events, archivers, objects>>

EventEmitted(e) ==
    /\ events[e].at = "nowhere"
    /\ events' = [events EXCEPT ![e] = [at |-> "buffer", ts |-> hour]]
    /\ UNCHANGED <<hour, archivers, objects>>

EventFlushed(e) ==
    /\ events[e].at = "buffer"
    /\ events' = [events EXCEPT ![e].at = "table"]
    /\ UNCHANGED <<hour, archivers, objects>>

-----------------------------------------------------------------------------
(* The worker                                                               *)

Becomes(w, archiver) == archivers' = [archivers EXCEPT ![w] = archiver]

WorkerStarts(w) ==
    /\ archivers[w].pc = "down"
    /\ Becomes(w, [NoArchiver EXCEPT !.pc = "waiting", !.ticked = hour])
    /\ UNCHANGED <<hour, events, objects>>

WorkerStops(w) ==
    /\ archivers[w].pc # "down"
    /\ Becomes(w, NoArchiver)
    /\ UNCHANGED <<hour, events, objects>>

(* tick: the last whole hour.                                               *)
WorkerTicks(w) ==
    /\ archivers[w].pc = "waiting"
    /\ archivers[w].ticked < hour
    /\ Becomes(w, [NoArchiver EXCEPT !.pc = "reading", !.ticked = hour, !.of = hour - 1])
    /\ UNCHANGED <<hour, events, objects>>

RowsOf(h) == {e \in ArchiveEvents : events[e].at = "table" /\ events[e].ts = h}

(* reads the rows that are not archived yet *)
WorkerReadsNew(w) ==
    /\ archivers[w].pc = "reading"
    /\ LET rows == RowsOf(archivers[w].of) \ objects[archivers[w].of]
       IN  IF rows = {} THEN Becomes(w, [archivers[w] EXCEPT !.pc = "waiting"])
           ELSE Becomes(w, [archivers[w] EXCEPT !.pc = "uploading", !.got = rows])
    /\ UNCHANGED <<hour, events, objects>>

WorkerReads(w) ==
    /\ archivers[w].pc = "reading"
    /\ LET rows == RowsOf(archivers[w].of)
       IN  IF rows = {} THEN Becomes(w, [archivers[w] EXCEPT !.pc = "waiting"])
           ELSE Becomes(w, [archivers[w] EXCEPT !.pc = "uploading", !.got = rows])
    /\ UNCHANGED <<hour, events, objects>>

(* The key is the hour's: what another worker read later is overwritten.    *)
WorkerUploads(w) ==
    /\ archivers[w].pc = "uploading"
    /\ objects' = [objects EXCEPT ![archivers[w].of] = archivers[w].got]
    /\ archivers' = [v \in Archivers |->
           IF v = w THEN [archivers[w] EXCEPT !.pc = "waiting"]
           ELSE [archivers[v] EXCEPT !.overtaken =
                    @ \/ (archivers[v].pc = "uploading" /\ archivers[v].of = archivers[w].of)]]
    /\ UNCHANGED <<hour, events>>

(* "audit hour archive failed" is all that is left of it.                   *)
WorkerFails(w) ==
    /\ archivers[w].pc \in {"reading", "uploading"}
    /\ Becomes(w, [archivers[w] EXCEPT !.pc = "waiting"])
    /\ UNCHANGED <<hour, events, objects>>

ArchiveNext ==
    \/ HourPasses
    \/ \E e \in ArchiveEvents : EventEmitted(e) \/ EventFlushed(e)
    \/ \E w \in Archivers :
          \/ WorkerStarts(w) \/ WorkerStops(w) \/ WorkerTicks(w)
          \/ WorkerReads(w) \/ WorkerUploads(w) \/ WorkerFails(w)

ArchiveSpec == ArchiveInit /\ [][ArchiveNext]_archiveVars

-----------------------------------------------------------------------------
(* Properties                                                               *)

(* "Long-term immutable retention": what an object of the archive holds is   *)
(* taken from it only by a worker that had read the rows before another one  *)
(* uploaded the same hour, although rows come late, uploads fail and workers *)
(* of two releases archive the same hour.                                    *)
ArchiveShrinksByOverlapOnly ==
    [][\A h \in Hours : objects[h] \subseteq objects'[h] \/
          \E w \in Archivers :
             /\ archivers[w].pc = "uploading" /\ archivers[w].of = h
             /\ archivers[w].overtaken /\ archivers'[w].pc = "waiting"]_archiveVars

=============================================================================
