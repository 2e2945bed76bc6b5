--------------------------- MODULE MessageExchange ---------------------------
(***************************************************************************)
(* Messages of one line (communication/service.go, store/hardware.go,      *)
(* message_policies.go and, in the agent, modemmanager/provider.go and     *)
(* message_snapshot.go).  The modem holds message objects; snapshots copy  *)
(* them into rows, and only then a cleanup deletes them.  A request to     *)
(* send is a journalled command of the application whose handler in the    *)
(* agent creates an object and sends it, once more without a delivery      *)
(* report when the network refuses the report.  References of messages are *)
(* unique here; the network's wrap after 256.                              *)
(***************************************************************************)
EXTENDS Absence, Naturals, FiniteSets

CONSTANTS
  Sends,      \* request identifiers
  Incoming,   \* messages the network delivers
  MaxRestarts, \* bound: restarts of ModemManager
  MaxRev      \* bound: revisions of the delivery policy

VARIABLES
  modem,      \* objects: [id, state, report], id a record [kind, of, try, epoch]
  epoch,      \* the ModemManager process
  arrived,    \* incoming messages the network has delivered
  handler,    \* the agent's handler of each request
  sent,       \* how often the network took the message of a request
  journal,    \* modemdeck_hardware_commands: status of each request
  app,        \* the application's handler: [pc, rev, asks, of], of the receipt
  policy,     \* [enabled, support, rev]
  snap,       \* the objects a refresh has read and not committed, or None
  rows,       \* sms: [id, req, whole, ref, asked, status]
  cleanup     \* [pending, deleting]

mxVars == <<modem, epoch, arrived, handler, sent, journal, app, policy, snap,
            rows, cleanup>>
device == <<modem, epoch, arrived, handler, sent>>
records == <<policy, rows>>
refreshing == <<snap, cleanup>>

Id(kind, of, try) == [kind |-> kind, of |-> of, try |-> try, epoch |-> epoch]
AgentIdle == [pc |-> "idle", report |-> FALSE, refused |-> FALSE, try |-> 0]
AppIdle == [pc |-> "idle", rev |-> 0, asks |-> FALSE, of |-> None]

MessagesInit ==
  /\ modem = {} /\ epoch = 0 /\ arrived = {}
  /\ handler = [s \in Sends |-> AgentIdle]
  /\ sent = [s \in Sends |-> 0]
  /\ journal = [s \in Sends |-> None]
  /\ app = [s \in Sends |-> AppIdle]
  /\ policy = [enabled |-> TRUE, support |-> "unknown", rev |-> 1]
  /\ snap = None /\ rows = {}
  /\ cleanup = [pending |-> {}, deleting |-> None]

-----------------------------------------------------------------------------
(* The network and ModemManager.                                             *)

\* A message of several parts is listed while its parts come in.
Arrive(i) ==
  /\ i \notin arrived
  /\ arrived' = arrived \cup {i}
  /\ \E state \in {"receiving", "received"} :
       modem' = modem \cup {[id |-> Id("in", i, 1), state |-> state,
                             report |-> FALSE]}
  /\ UNCHANGED <<epoch, handler, sent, journal, app, records, refreshing>>

Assembled(o) ==
  /\ o.state = "receiving"
  /\ modem' = (modem \ {o}) \cup {[o EXCEPT !.state = "received"]}
  /\ UNCHANGED <<epoch, arrived, handler, sent, journal, app, records, refreshing>>

\* The network reports on a message that asked for it, once.
Report(o, outcome) ==
  /\ o.id.kind = "out" /\ o.state = "sent" /\ o.report
  /\ modem' = (modem \ {o}) \cup {[o EXCEPT !.report = FALSE],
       [id |-> [o.id EXCEPT !.kind = "report", !.epoch = epoch],
        state |-> outcome, report |-> FALSE]}
  /\ UNCHANGED <<epoch, arrived, handler, sent, journal, app, records, refreshing>>

\* What is stored in the modem gets new object paths; what was created to be
\* sent is gone.
ProviderRestarts ==
  /\ epoch < MaxRestarts
  /\ epoch' = epoch + 1
  /\ modem' = {[o EXCEPT !.id.epoch = epoch + 1] :
                 o \in {x \in modem : x.id.kind # "out"}}
  /\ UNCHANGED <<arrived, handler, sent, journal, app, records, refreshing>>

-----------------------------------------------------------------------------
(* The agent's handler (Provider.SendMessage).                               *)

Agent(s, a) == handler' = [handler EXCEPT ![s] = a]

\* createSMS, without a report when the modem refuses to create one with it.
CreateSMS(s) ==
  /\ handler[s].pc = "create"
  /\ \/ \E refuse \in {r \in BOOLEAN : r => handler[s].report} :
          LET a == [handler[s] EXCEPT !.pc = "send", !.report = @ /\ ~refuse,
                                    !.refused = @ \/ refuse]
          IN /\ Agent(s, a)
             /\ modem' = modem \cup {[id |-> Id("out", s, a.try),
                                      state |-> "unknown", report |-> a.report]}
     \/ Agent(s, [handler[s] EXCEPT !.pc = "error"]) /\ UNCHANGED modem
  /\ UNCHANGED <<epoch, arrived, sent, journal, app, records, refreshing>>

\* Mutant: any failure of a send that asked for a report is tried again.
RejectsReportAny(a, taken) == a.report

\* deliveryReportSendRejected: the network took nothing.
RejectsReport(a, taken) == a.report /\ ~taken

\* sendSMS: a failure may come after the network took the message.
SendSMS(s) ==
  LET a == handler[s]
      id == Id("out", s, a.try)
      mine == {o \in modem : o.id = id}
  IN /\ a.pc = "send"
     /\ \/ /\ mine # {}
           /\ Agent(s, [a EXCEPT !.pc = "done"])
           /\ modem' = (modem \ mine) \cup {[o EXCEPT !.state = "sent"] : o \in mine}
           /\ sent' = [sent EXCEPT ![s] = @ + 1]
        \/ \E taken \in {t \in BOOLEAN : t => mine # {}} :
             /\ sent' = [sent EXCEPT ![s] = IF taken THEN @ + 1 ELSE @]
             /\ \/ Agent(s, [a EXCEPT !.pc = "error"]) /\ UNCHANGED modem
                \/ /\ RejectsReport(a, taken)
                   /\ Agent(s, [a EXCEPT !.pc = "create", !.report = FALSE,
                                         !.refused = TRUE, !.try = 2])
                   /\ modem' = modem \ mine
     /\ UNCHANGED <<epoch, arrived, journal, app, records, refreshing>>

-----------------------------------------------------------------------------
(* The application's handler (Service.SendMessage).                          *)

App(s, p) == app' = [app EXCEPT ![s] = p]

\* beginCommand: any other request with this identifier is a replay.
BeginCommand(s) ==
  /\ journal[s] = None /\ app[s].pc = "idle"
  /\ journal' = [journal EXCEPT ![s] = "executing"]
  /\ App(s, [AppIdle EXCEPT !.pc = "begun"])
  /\ UNCHANGED <<device, records, refreshing>>

ReadPolicy(s) ==
  /\ app[s].pc = "begun"
  /\ \/ /\ App(s, [AppIdle EXCEPT !.pc = "waiting", !.rev = policy.rev,
                                  !.asks = policy.enabled])
        /\ Agent(s, [AgentIdle EXCEPT !.pc = "create", !.try = 1,
                                      !.report = policy.enabled])
        /\ UNCHANGED journal
     \/ /\ App(s, AppIdle) /\ journal' = [journal EXCEPT ![s] = "failed"]
        /\ UNCHANGED handler
  /\ UNCHANGED <<modem, epoch, arrived, sent, records, refreshing>>

\* The answer, or a timeout or broken connection instead of it; the outcome may
\* fail to be recorded.
Answered(s) ==
  /\ app[s].pc = "waiting"
  /\ \/ /\ handler[s].pc = "done"
        /\ App(s, [app[s] EXCEPT !.pc = "policy", !.of = handler[s].try,
                                 !.asks = @ /\ ~handler[s].refused])
        /\ UNCHANGED journal
     \/ /\ App(s, AppIdle)
        /\ \E outcome \in {"failed", "indeterminate", journal[s]} :
             /\ outcome = "failed" => handler[s].pc = "error"
             /\ journal' = [journal EXCEPT ![s] = outcome]
  /\ UNCHANGED <<device, records, refreshing>>

\* MarkMessageDeliveryReportsUnsupported, at the revision that was read.
MarkUnsupported(s) ==
  /\ app[s].pc = "policy"
  /\ App(s, [app[s] EXCEPT !.pc = "record"])
  /\ \/ UNCHANGED policy
     \/ /\ handler[s].refused /\ policy.rev = app[s].rev /\ policy.rev < MaxRev
        /\ policy' = [enabled |-> FALSE, support |-> "unsupported",
                      rev |-> policy.rev + 1]
  /\ UNCHANGED <<device, journal, rows, refreshing>>

\* UpsertHardwareMessage: the row of the request, the row a snapshot made of
\* the same object, or a new one.
RowFor(s, id) == {r \in rows : r.req = s \/ r.id = id}

Record(s) ==
  LET id == [kind |-> "out", of |-> s, try |-> app[s].of, epoch |-> epoch]
      mine == RowFor(s, id)
      new == [id |-> id, req |-> s, whole |-> TRUE, ref |-> FALSE,
              asked |-> app[s].asks, status |-> "submitted"]
      kept == {[r EXCEPT !.req = s, !.asked = @ \/ app[s].asks] : r \in mine}
  IN /\ app[s].pc = "record"
     /\ \/ /\ rows' = (rows \ mine) \cup (IF mine = {} THEN {new} ELSE kept)
           /\ App(s, [app[s] EXCEPT !.pc = "finish"])
        \/ App(s, AppIdle) /\ UNCHANGED rows
     /\ UNCHANGED <<device, journal, policy, refreshing>>

FinishCommand(s) ==
  /\ app[s].pc = "finish"
  /\ App(s, AppIdle)
  /\ journal' \in {journal, [journal EXCEPT ![s] = "completed"]}
  /\ UNCHANGED <<device, records, refreshing>>

\* UpdateMessageDeliveryPolicy: switching reports on forgets the refusal.
UpdatePolicy(on) ==
  /\ policy.rev < MaxRev
  /\ policy' = [enabled |-> on, rev |-> policy.rev + 1,
                support |-> IF on THEN "unknown" ELSE policy.support]
  /\ UNCHANGED <<device, journal, app, rows, refreshing>>

-----------------------------------------------------------------------------
(* Snapshots (refreshLocked, under the coordinator's lock) and the cleanup.  *)

TakeObjects ==
  /\ snap = None
  /\ snap' = modem
  /\ UNCHANGED <<device, journal, app, records, cleanup>>

\* Mutant: a message is stored while its parts still come in.
ProjectedParts(o) == o.id.kind # "report"

\* projectSnapshot: an incoming message only when it is complete.
Projected(o) == o.id.kind = "out" \/ o.state = "received"

\* upsertHardwareMessage: a known message keeps its content, and learns its
\* reference once it was sent.
Upserted(table, seen) ==
  LET Ref(id) == \E o \in seen : o.id = id /\ o.state = "sent"
      new == {o \in seen : \A r \in table : r.id # o.id}
  IN {[r EXCEPT !.ref = @ \/ Ref(r.id)] : r \in table}
     \cup {[id |-> o.id, req |-> None, whole |-> o.state # "receiving",
            ref |-> o.state = "sent", asked |-> FALSE,
            status |-> IF o.id.kind = "in" THEN None ELSE "submitted"] : o \in new}

\* applyHardwareMessageDeliveryReport: the row with the report's reference that
\* asked for one; without such a row the report counts as handled all the same.
Reported(table, reports) ==
  {LET mine == {p \in reports : /\ r.asked /\ r.ref /\ p.id.of = r.id.of
                                /\ p.id.try = r.id.try}
   IN IF mine # {} /\ r.status = "submitted"
      THEN [r EXCEPT !.status = (CHOOSE p \in mine : TRUE).state] ELSE r : r \in table}

\* enqueueDeviceMessageCleanup, after the commit.
Deletable(o) == o.state \in {"received", "sent"} \/ o.id.kind = "report"

CommitSnapshot ==
  /\ snap # None
  /\ snap' = None
  /\ LET seen == {o \in snap : Projected(o)}
         reports == {o \in snap : o.id.kind = "report"}
     IN \/ /\ rows' = Reported(Upserted(rows, seen), reports)
           /\ cleanup' = [cleanup EXCEPT !.pending =
                @ \cup {o.id : o \in {x \in seen \cup reports : Deletable(x)}}]
        \/ UNCHANGED <<rows, cleanup>>      \* fails
  /\ UNCHANGED <<device, journal, app, policy>>

\* drainDeviceMessageCleanup: one goroutine, one message at a time.
BeginDelete(id) ==
  /\ cleanup.deleting = None /\ id \in cleanup.pending
  /\ cleanup' = [cleanup EXCEPT !.deleting = id]
  /\ UNCHANGED <<device, journal, app, records, snap>>

\* Provider.DeleteMessage; an identifier of an older process names nothing.
\* A failure gives all the others up until the next snapshot lists them.
DeleteMessage ==
  /\ cleanup.deleting # None
  /\ \/ modem' = {o \in modem : o.id # cleanup.deleting} /\ cleanup' =
          [cleanup EXCEPT !.pending = @ \ {cleanup.deleting}, !.deleting = None]
     \/ /\ modem' \in {modem, {o \in modem : o.id # cleanup.deleting}}
        /\ cleanup' = [pending |-> {}, deleting |-> None]
  /\ UNCHANGED <<epoch, arrived, handler, sent, journal, app, records, snap>>

\* The process dies; at its start what was executing is indeterminate.
AppRestarts ==
  /\ app' = [s \in Sends |-> AppIdle]
  /\ journal' = [s \in Sends |->
                   IF journal[s] = "executing" THEN "indeterminate" ELSE journal[s]]
  /\ snap' = None /\ cleanup' = [pending |-> {}, deleting |-> None]
  /\ UNCHANGED <<device, records>>

SendStep(s) ==
  \/ CreateSMS(s) \/ SendSMS(s) \/ BeginCommand(s) \/ ReadPolicy(s)
  \/ Answered(s) \/ MarkUnsupported(s) \/ Record(s) \/ FinishCommand(s)

MessagesNext ==
  \/ \E i \in Incoming : Arrive(i)
  \/ \E o \in modem : Assembled(o)
  \/ \E o \in modem, outcome \in {"delivered", "failed"} : Report(o, outcome)
  \/ ProviderRestarts
  \/ \E s \in Sends : SendStep(s)
  \/ \E on \in BOOLEAN : UpdatePolicy(on)
  \/ TakeObjects \/ CommitSnapshot
  \/ \E id \in cleanup.pending : BeginDelete(id)
  \/ DeleteMessage \/ AppRestarts

-----------------------------------------------------------------------------
\* A message the network delivered is in the modem until it is stored, whole
\* (enqueueDeviceMessageCleanup runs after the commit).
NoMessageLost ==
  \A i \in arrived :
    \/ \E o \in modem : o.id.kind = "in" /\ o.id.of = i
    \/ \E r \in rows : r.id.kind = "in" /\ r.id.of = i /\ r.whole

\* Whatever the restarts, refusals and lost answers, a request reaches the
\* network once, and a request that is reported done has its one row.
RequestSentOnce ==
  \A s \in Sends :
    /\ sent[s] <= 1
    /\ Cardinality({r \in rows : r.req = s}) <= 1
    /\ journal[s] = "completed" =>
         sent[s] = 1 /\ \E r \in rows : r.req = s

\* An object of the modem has one row, and a message the network was never
\* given is not shown as delivered.
RowsAreTrue ==
  /\ \A r, q \in rows : r.id = q.id => r = q
  /\ \A r \in rows : r.status = "delivered" => sent[r.id.of] = 1

MessagesAreTrue == NoMessageLost /\ RequestSentOnce /\ RowsAreTrue
=============================================================================
