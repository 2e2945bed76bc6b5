----------------------------- MODULE Recording -----------------------------
(* Call recording (internal/recording and its tables in internal/store):    *)
(* segments are written by workers, started and stopped by whoever holds    *)
(* reconcileMu, and survive in two places, rows and files, that no          *)
(* transaction covers together.                                             *)
(*                                                                          *)
(* The phase of a call is its row in call_history, which changes only with  *)
(* a committed snapshot.  A segment's slot is used again when neither row   *)
(* nor file is left of it.  Every step of the database or the file store    *)
(* may fail; the process may stop between any two steps.                    *)
EXTENDS Absence, Naturals, FiniteSets

CONSTANTS
  RecCalls,  \* calls
  Segments   \* recording segments

VARIABLES
  app,       \* the process: recovering, up, closing (Service.closed) or down
  phase,     \* a call's row: none, early (not connected yet), active, ended
  media,     \* calls with media_available
  known,     \* Service.knownCalls
  rec,       \* a call's recording state: status, enabled, active segment
  seg,       \* a segment's row: its status, or none
  of,        \* the call a segment belongs to
  file,      \* a segment's file: none, part, or final (published under its name)
  worker,    \* Service.workers
  work,      \* where a segment's worker is
  cancelled, \* workers that were cancelled
  job,       \* what the holder of reconcileMu is about to do
  target,    \* the call it does it for
  fresh,     \* the segment startTarget has created
  todo,      \* calls a snapshot has still to reconcile
  refused    \* calls with a failure the database refused to store (history)

rows == <<rec, seg, of>>
workers == <<worker, work, cancelled>>
locked == <<job, target, fresh>>
recVars == <<app, phase, media, known, rows, file, workers, locked, todo, refused>>

Statuses == {"none", "off", "pending", "recording", "ready", "failed"}
Off == [status |-> "off", enabled |-> FALSE, active |-> None]
NoState == [Off EXCEPT !.status = "none"]
InProgress(s) == seg[s] \in {"pending", "recording"}

RecTypeOK ==
  /\ app \in {"recovering", "up", "closing", "down"}
  /\ phase \in [RecCalls -> {"none", "early", "active", "ended"}]
  /\ media \subseteq RecCalls /\ known \subseteq RecCalls
  /\ rec \in [RecCalls -> [status : Statuses, enabled : BOOLEAN,
                           active : Segments \cup {None}]]
  /\ seg \in [Segments -> {"none", "pending", "recording", "ready", "failed"}]
  /\ of \in [Segments -> RecCalls \cup {None}]
  /\ file \in [Segments -> {"none", "part", "final"}]
  /\ worker \in [RecCalls -> Segments \cup {None}]
  /\ work \in [Segments -> {"none", "run", "complete", "remove", "fail", "leave"}]
  /\ cancelled \subseteq Segments
  /\ job \in {"free", "stop", "finalize", "subscribe", "mark", "launch",
              "giveup", "delete"}
  /\ target \in RecCalls \cup {None} /\ fresh \in Segments \cup {None}
  /\ todo \subseteq RecCalls /\ refused \subseteq RecCalls

RecInit ==
  /\ app = "up"
  /\ phase = [c \in RecCalls |-> "none"] /\ media = {} /\ known = {}
  /\ rec = [c \in RecCalls |-> NoState]
  /\ seg = [s \in Segments |-> "none"] /\ of = [s \in Segments |-> None]
  /\ file = [s \in Segments |-> "none"]
  /\ worker = [c \in RecCalls |-> None]
  /\ work = [s \in Segments |-> "none"] /\ cancelled = {}
  /\ job = "free" /\ target = None /\ fresh = None
  /\ todo = {} /\ refused = {}

Live(c) == phase[c] \in {"early", "active"}
Holds(j, c, s) == job' = j /\ target' = c /\ fresh' = s
Unlock == Holds("free", None, None)
-----------------------------------------------------------------------------
(* The tables                                                               *)

\* ensureCallRecordingState: a row for the call, with the recording its
\* request asked for.
Ensured(c, asked) ==
  IF rec[c].status # "none" THEN rec[c]
  ELSE IF asked THEN [status |-> "pending", enabled |-> TRUE, active |-> None]
  ELSE Off

\* SetCallRecordingEnabled
Switched(r, on) ==
  CASE r.enabled = on -> r
    [] on -> [status |-> "pending", enabled |-> TRUE, active |-> None]
    [] OTHER -> [r EXCEPT !.enabled = FALSE,
                   !.status = IF r.active = None THEN "off" ELSE @]

\* CompleteRecordingSegment, FailRecordingSegment: the call's state follows
\* while the segment is still the one it names.
Settled(c, s, status) ==
  IF rec[c].active # s THEN rec
  ELSE [rec EXCEPT ![c].active = None, ![c].status =
          IF status = "ready" /\ ~rec[c].enabled THEN "off" ELSE status]

SettleSegment(s, status) ==
  /\ seg' = [seg EXCEPT ![s] = status]
  /\ rec' = Settled(of[s], s, status)
  /\ UNCHANGED of

\* FailRecordingSegment, or the database refuses it.
TryFail(s) ==
  \/ SettleSegment(s, "failed") /\ UNCHANGED refused
  \/ refused' = refused \cup {of[s]} /\ UNCHANGED rows

\* FinalizePendingCallRecording
Finalized(r) ==
  IF r.status = "pending" /\ r.active = None THEN [r EXCEPT !.status = "failed"] ELSE r
-----------------------------------------------------------------------------
(* The holder of reconcileMu: SetEnabled, ReconcileAuthoritativeCalls,      *)
(* DeleteCall, DeleteRecording                                              *)

Wanted(c) == phase[c] = "active" /\ c \in media /\ rec'[c].status = "pending"

\* Mutant: the worker of the segment before is not looked for.
MayStartAnyway(c) == app = "up"
\* startTarget: the service is open and the call has no worker.
MayStart(c) == app = "up" /\ worker[c] = None

\* The segment's id is chosen, or the start comes to nothing.
StartTarget(c) ==
  \/ /\ MayStart(c)
     /\ \E s \in Segments :
          /\ seg[s] = "none" /\ file[s] = "none" /\ work[s] = "none"
          /\ Holds("subscribe", c, s)
  \/ Unlock

SetEnabled(c, on, asked) ==
  /\ app \in {"up", "closing"} /\ job = "free" /\ Live(c)
  /\ known' = known \cup {c}
  /\ rec' = [rec EXCEPT ![c] = Switched(Ensured(c, asked), on)]
  /\ CASE phase[c] # "active" \/ ~on -> Holds("stop", c, None)
       [] Wanted(c) -> StartTarget(c)
       [] OTHER -> Unlock
  /\ UNCHANGED <<app, phase, media, seg, of, file, workers, todo, refused>>

\* A snapshot is committed: calls begin, connect, get or lose media, and end.
\* Its calls, and the calls known before, are reconciled.
Snapshot(c, p) ==
  /\ app \in {"up", "closing"} /\ todo = {}
  /\ <<phase[c], p>> \in {<<"none", "early">>, <<"none", "active">>,
       <<"early", "active">>, <<"early", "ended">>, <<"active", "ended">>}
       \cup {<<q, q>> : q \in {"early", "active", "ended"}}
  /\ phase' = [phase EXCEPT ![c] = p]
  /\ \E m \in SUBSET {d \in RecCalls : phase'[d] = "active"} : media' = m
  /\ todo' = {d \in RecCalls : phase'[d] \in {"early", "active"} \/ d \in known}
  /\ UNCHANGED <<app, known, rows, file, workers, locked, refused>>

\* One call of the snapshot.  The code holds the lock from the first to the last;
\* here another holder may come between.  The database may refuse the state.
Reconcile(c, asked) ==
  /\ app \in {"up", "closing"} /\ job = "free" /\ c \in todo
  /\ todo' = todo \ {c}
  /\ known' = IF Live(c) THEN known \cup {c} ELSE known
  /\ \/ Live(c) /\ rec' = rec /\ Unlock
     \/ /\ rec' = IF Live(c) THEN [rec EXCEPT ![c] = Ensured(c, asked)] ELSE rec
        /\ IF phase[c] = "active" /\ rec'[c].enabled /\ c \in media
             THEN IF Wanted(c) THEN StartTarget(c) ELSE Unlock
             ELSE Holds("stop", c, None)
  /\ UNCHANGED <<app, phase, media, seg, of, file, workers, refused>>

\* The row of the new segment.
Create ==
  /\ job = "subscribe" /\ seg[fresh] = "none"
  /\ \/ /\ seg' = [seg EXCEPT ![fresh] = "pending"]
        /\ of' = [of EXCEPT ![fresh] = target]
        /\ rec' = [rec EXCEPT ![target].status = "pending", ![target].active = fresh]
        /\ UNCHANGED locked
     \/ Unlock /\ UNCHANGED rows
  /\ UNCHANGED <<app, phase, media, known, file, workers, todo, refused>>

JobOnly == UNCHANGED <<app, phase, media, known, workers, todo>>

\* Subscription, writer and partial file.
Subscribe ==
  /\ job = "subscribe" /\ seg[fresh] # "none"
  /\ \/ /\ file' = [file EXCEPT ![fresh] = "part"]
        /\ Holds("mark", target, fresh)
     \/ UNCHANGED file /\ Holds("giveup", target, fresh)
  /\ UNCHANGED <<rows, refused>> /\ JobOnly

\* MarkRecordingSegmentStarted; when it fails the writer is aborted.
Mark ==
  /\ job = "mark"
  /\ \/ /\ seg' = [seg EXCEPT ![fresh] = "recording"]
        /\ rec' = [rec EXCEPT ![target].status = "recording", ![target].active = fresh]
        /\ Holds("launch", target, fresh)
        /\ UNCHANGED <<of, file>>
     \/ /\ file' = [file EXCEPT ![fresh] = "none"]
        /\ Holds("giveup", target, fresh)
        /\ UNCHANGED rows
  /\ UNCHANGED refused /\ JobOnly

\* The worker enters the table, unless the service was closed meanwhile.
Launch ==
  /\ job = "launch"
  /\ IF app = "up"
       THEN /\ worker' = [worker EXCEPT ![target] = fresh]
            /\ work' = [work EXCEPT ![fresh] = "run"]
            /\ Unlock /\ UNCHANGED file
       ELSE /\ file' = [file EXCEPT ![fresh] = "none"]
            /\ Holds("giveup", target, fresh)
            /\ UNCHANGED <<worker, work>>
  /\ UNCHANGED <<app, phase, media, known, rows, cancelled, todo, refused>>

\* startTarget's fail.
GiveUp ==
  /\ job = "giveup"
  /\ TryFail(fresh) /\ Unlock
  /\ UNCHANGED file /\ JobOnly

\* stopWorker cancels the worker ...
StopWorker ==
  /\ job = "stop" /\ worker[target] # None /\ worker[target] \notin cancelled
  /\ cancelled' = cancelled \cup {worker[target]}
  /\ UNCHANGED <<app, phase, media, known, rows, file, worker, work, locked,
                 todo, refused>>

\* ... and waits until it is done; the wait may be given up with its request.
WorkerGone(c) == worker[c] = None

Stopped ==
  /\ job = "stop" /\ (WorkerGone(target) \/ worker[target] \in cancelled)
  /\ IF Live(target) THEN Unlock ELSE Holds("finalize", target, None)
  /\ UNCHANGED <<rows, file, refused>> /\ JobOnly

\* A call that has ended: a recording that never started has failed.
Finalize ==
  /\ job = "finalize"
  /\ \/ rec' = [rec EXCEPT ![target] = Finalized(@)] /\ UNCHANGED refused
     \/ rec' = rec /\ refused' = refused \cup {target}
  /\ known' = known \ {target}
  /\ Unlock
  /\ UNCHANGED <<app, phase, media, seg, of, file, workers, todo>>

\* DeleteCall of a call that has ended stops its worker first.
BeginDelete(c) ==
  /\ app = "up" /\ job = "free" /\ phase[c] = "ended"
  /\ cancelled' = cancelled \cup ({worker[c]} \ {None})
  /\ Holds("delete", c, None)
  /\ UNCHANGED <<app, phase, media, known, rows, file, worker, work, todo, refused>>

SegmentsOf(c) == {s \in Segments : of[s] = c}

\* A deletion removes the rows, then the files they named.
RowsRemoved(gone) ==
  /\ seg' = [s \in Segments |-> IF s \in gone THEN "none" ELSE seg[s]]
  /\ of' = [s \in Segments |-> IF s \in gone THEN None ELSE of[s]]

\* A file that cannot be removed, or not before the process stops, is left.
FilesRemoved(gone) ==
  \E kept \in SUBSET gone :
    file' = [s \in Segments |-> IF s \in gone \ kept THEN "none" ELSE file[s]]

DeleteRecording(s) ==
  /\ app = "up" /\ job = "free" /\ seg[s] \in {"ready", "failed"}
  /\ RowsRemoved({s}) /\ FilesRemoved({s})
  /\ UNCHANGED <<app, phase, media, known, rec, workers, locked, todo, refused>>

\* DeleteCall deletes the call with its rows, and is refused while a segment is
\* in progress.
DeleteCall(c) ==
  /\ job = "delete" /\ target = c
  /\ WorkerGone(c) /\ \A s \in SegmentsOf(c) : ~InProgress(s)
  /\ RowsRemoved(SegmentsOf(c)) /\ FilesRemoved(SegmentsOf(c))
  /\ rec' = [rec EXCEPT ![c] = NoState]
  /\ phase' = [phase EXCEPT ![c] = "none"]
  /\ known' = known \ {c} /\ refused' = refused \ {c}
  /\ Unlock
  /\ UNCHANGED <<app, media, workers, todo>>

RefuseDelete ==
  /\ job = "delete"
  /\ Unlock
  /\ UNCHANGED <<rows, file, refused>> /\ JobOnly
-----------------------------------------------------------------------------
(* A worker                                                                 *)

WorkerOnly == UNCHANGED <<app, phase, media, known, of, worker, cancelled,
                          locked, todo>>
WorkerAt(s, at) == work' = [work EXCEPT ![s] = at]

\* The subscription or the writer fails: the partial file is removed.
WorkerBreaks(s) ==
  /\ work[s] = "run"
  /\ WorkerAt(s, "fail")
  /\ file' = [file EXCEPT ![s] = "none"]
  /\ UNCHANGED <<seg, rec, refused>> /\ WorkerOnly

\* The worker is cancelled, or the call's audio ends: Finalize publishes the
\* file, or there was no audio, or the directory could not be synced after it.
Publish(s) ==
  /\ work[s] = "run"
  /\ \/ file' = [file EXCEPT ![s] = "final"] /\ WorkerAt(s, "complete")
     \/ file' = [file EXCEPT ![s] = "none"] /\ WorkerAt(s, "remove")
     \/ file' = [file EXCEPT ![s] = "final"] /\ WorkerAt(s, "remove")
  /\ UNCHANGED <<seg, rec, refused>> /\ WorkerOnly

Complete(s) ==
  /\ work[s] = "complete"
  /\ \/ SettleSegment(s, "ready") /\ WorkerAt(s, "leave")
     \/ UNCHANGED rows /\ WorkerAt(s, "remove")
  /\ UNCHANGED <<file, refused>> /\ WorkerOnly

\* What could not be completed is removed, as far as it goes ...
Remove(s) ==
  /\ work[s] = "remove"
  /\ file' = [file EXCEPT ![s] = "none"] \/ UNCHANGED file
  /\ WorkerAt(s, "fail")
  /\ UNCHANGED <<seg, rec, refused>> /\ WorkerOnly

\* ... and recorded as failed.
Fail(s) ==
  /\ work[s] = "fail"
  /\ TryFail(s)
  /\ WorkerAt(s, "leave")
  /\ UNCHANGED file /\ WorkerOnly

\* Mutant: a worker that was stopped is left to stopWorker.
TableWithoutUnstopped(s) ==
  [c \in RecCalls |-> IF worker[c] = s /\ s \notin cancelled THEN None ELSE worker[c]]
TableWithout(s) == [c \in RecCalls |-> IF worker[c] = s THEN None ELSE worker[c]]

Leave(s) ==
  /\ work[s] = "leave"
  /\ WorkerAt(s, "none")
  /\ worker' = TableWithout(s)
  /\ cancelled' = cancelled \ {s}
  /\ UNCHANGED <<app, phase, media, known, rows, file, locked, todo, refused>>
-----------------------------------------------------------------------------
(* Close, crash and recovery                                                *)

\* Close cancels the workers it finds ...
BeginClose ==
  /\ app = "up"
  /\ app' = "closing"
  /\ cancelled' = cancelled \cup ({worker[c] : c \in RecCalls} \ {None})
  /\ UNCHANGED <<phase, media, known, rows, file, worker, work, locked, todo, refused>>

\* ... and the process ends, in the middle of anything.
Stop ==
  /\ app # "down"
  /\ app' = "down"
  /\ worker' = [c \in RecCalls |-> None] /\ work' = [s \in Segments |-> "none"]
  /\ cancelled' = {} /\ known' = {} /\ todo' = {} /\ Unlock
  /\ UNCHANGED <<phase, media, rows, file, refused>>

Start ==
  /\ app = "down"
  /\ app' = "recovering"
  /\ UNCHANGED <<phase, media, known, rows, file, workers, locked, todo, refused>>

\* recoverableReadyFiles removes partial files; Recover the files of segments
\* that are not ready.
Unready(s) == file[s] = "part" \/ seg[s] # "ready"

Sweep(s) ==
  /\ app = "recovering" /\ file[s] # "none" /\ Unready(s)
  /\ file' = [file EXCEPT ![s] = "none"]
  /\ UNCHANGED <<app, phase, media, known, rows, workers, locked, todo, refused>>

\* FailInterruptedRecordingSegments, in one transaction; a start-up that fails
\* before is Stop.
Recover ==
  /\ app = "recovering"
  /\ \A s \in Segments : file[s] # "none" => ~Unready(s)
  /\ app' = "up"
  /\ seg' = [s \in Segments |-> IF InProgress(s) THEN "failed" ELSE seg[s]]
  /\ rec' = [c \in RecCalls |->
       IF rec[c].active # None THEN [rec[c] EXCEPT !.status = "failed", !.active = None]
       ELSE IF phase[c] = "ended" THEN Finalized(rec[c]) ELSE rec[c]]
  /\ refused' = {}
  /\ UNCHANGED <<phase, media, known, of, file, workers, locked, todo>>
-----------------------------------------------------------------------------
JobStep ==
  \/ Create \/ Subscribe \/ Mark \/ Launch \/ GiveUp
  \/ StopWorker \/ Stopped \/ Finalize \/ RefuseDelete
WorkerStep(s) ==
  \/ Complete(s) \/ Remove(s) \/ Fail(s) \/ Leave(s)

RecNext ==
  \/ \E c \in RecCalls, asked \in BOOLEAN :
       \/ \E on \in BOOLEAN : SetEnabled(c, on, asked)
       \/ Reconcile(c, asked)
  \/ \E c \in RecCalls, p \in {"early", "active", "ended"} : Snapshot(c, p)
  \/ \E c \in RecCalls : BeginDelete(c) \/ DeleteCall(c)
  \/ \E s \in Segments :
       WorkerBreaks(s) \/ Publish(s) \/ WorkerStep(s) \/ DeleteRecording(s) \/ Sweep(s)
  \/ JobStep \/ BeginClose \/ Stop \/ Start \/ Recover

RecSpec == RecInit /\ [][RecNext]_recVars
-----------------------------------------------------------------------------
(* Properties                                                               *)

\* What is offered for download can be opened and is complete.
ReadyIsPlayable == \A s \in Segments : seg[s] = "ready" => file[s] = "final"

\* A segment has one writer and a call has one segment being written, also
\* while the worker of the segment before is finishing (service.go:564).
OneWriter ==
  \A s, t \in Segments :
    (s # t /\ file[s] = "part" /\ file[t] = "part" /\ app = "up") => of[s] # of[t]

\* A call is shown as being recorded while it is, or until its failure could
\* not be stored.
ShownIsWritten ==
  \A c \in RecCalls :
    (rec[c].status = "recording" /\ app = "up") =>
      \/ c \in refused
      \/ /\ rec[c].active # None /\ of[rec[c].active] = c
         /\ \/ work[rec[c].active] # "none"
            \/ job = "launch" /\ fresh = rec[c].active
            \/ job = "giveup" /\ fresh = rec[c].active

RecordingIsTrue == ReadyIsPlayable /\ OneWriter /\ ShownIsWritten

NoSlot == \A s \in Segments : seg[s] # "none" \/ file[s] # "none"

\* A recording that is wanted while its call is connected does not stay pending:
\* a start that met the worker of the segment before is made up for by a later
\* snapshot (service.go:564).
WantedIsRecorded ==
  \A c \in RecCalls :
    (rec[c].status = "pending" /\ phase[c] = "active" /\ c \in media /\ app = "up") ~>
      \/ rec[c].status # "pending" \/ phase[c] # "active" \/ c \notin media
      \/ app # "up" \/ c \in refused \/ NoSlot
=============================================================================
