---------------------------- MODULE TelegramBot ----------------------------
(***************************************************************************)
(* One Telegram unit: its stored settings and checkpoint                   *)
(* (telegramsettings.Service, store/telegram.go), the manager that starts  *)
(* and stops its poller (telegramruntime.Manager), the long poll           *)
(* (telegram.Poller) and the SMS command an update carries                  *)
(* (telegram.Service, communication.SendMessage and the command journal).  *)
(*                                                                         *)
(* Telegram numbers the updates of a bot, keeps each until a request with  *)
(* a higher offset confirms it, and sends the unconfirmed ones again. What *)
(* reached the modem is kept in `texted`, which update was handled in      *)
(* `handled`: the program reads neither.                                   *)
(***************************************************************************)
EXTENDS Absence, Naturals, FiniteSetsExt

CONSTANTS Bots,       \* bots whose token the unit may be given
          Last        \* bound: the last update Telegram delivers for each bot

MaxUpdate == Max({Last[b] : b \in Bots})
Updates == 1..MaxUpdate

VARIABLES
  botUnit,   \* [bot, on, offset]: the unit's row, bot None once deleted
  edit,      \* the row as a settings request read it, or None
  manager,   \* [due, step, want]: reconciliation of the runtime
  poller,    \* [step, bot, next, batch, cancelled]: the unit's goroutine
  sms,       \* journal entry of the SMS of each update of each bot
  texted,    \* how often that SMS reached the modem
  arrived,   \* updates Telegram has received for each bot
  confirmed, \* the offset below which Telegram has forgotten them
  handled,   \* updates HandleUpdate has returned from, for each bot
  crossed    \* a poller stored its offset in the row of another bot

botVars == <<botUnit, edit, manager, poller, sms, texted, arrived, confirmed,
             handled, crossed>>

durable == <<sms, texted, handled>>
telegram == <<arrived, confirmed>>

NoPoller == [step |-> "off", bot |-> None, next |-> 0, batch |-> {},
             cancelled |-> FALSE]

Journal == {"pending", "completed", "failed", "indeterminate"}

BotTypeOK ==
  /\ botUnit \in [bot : Bots \cup {None}, on : BOOLEAN, offset : 0..MaxUpdate + 1]
  /\ edit \in [bot : Bots, on : BOOLEAN, offset : 0..MaxUpdate + 1] \cup {None}
  /\ manager \in [due : BOOLEAN, step : {"idle", "switching"},
                  want : Bots \cup {None}]
  /\ poller \in [step : {"off", "load", "poll", "pick", "send", "advance", "done"},
                 bot : Bots \cup {None}, next : 0..MaxUpdate + 1,
                 batch : SUBSET Updates, cancelled : BOOLEAN]
  /\ sms \in [Bots -> [Updates -> Journal \cup {None}]]
  /\ texted \in [Bots -> [Updates -> 0..2]]
  /\ arrived \in [Bots -> 0..MaxUpdate]
  /\ confirmed \in [Bots -> 0..MaxUpdate + 1]
  /\ handled \in [Bots -> SUBSET Updates]
  /\ crossed \in BOOLEAN

BotInit ==
  /\ botUnit \in [bot : Bots, on : {TRUE}, offset : {0}]
  /\ edit = None
  /\ manager = [due |-> TRUE, step |-> "idle", want |-> None]
  /\ poller = NoPoller
  /\ sms = [b \in Bots |-> [u \in Updates |-> None]]
  /\ texted = [b \in Bots |-> [u \in Updates |-> 0]]
  /\ arrived = [b \in Bots |-> 0] /\ confirmed = [b \in Bots |-> 0]
  /\ handled = [b \in Bots |-> {}]
  /\ crossed = FALSE

-----------------------------------------------------------------------------
(* Settings.                                                               *)

\* Update reads the row and builds the new record from it: the stored offset
\* is part of the record. (A second request loses by its revision.)
ReadUnit ==
  /\ edit = None /\ botUnit.bot # None
  /\ edit' = botUnit
  /\ UNCHANGED <<botUnit, manager, poller, durable, telegram, crossed>>

\* The record that is written: a token, new or the same, starts at offset 0;
\* without one the offset read before is written back.
WriteUnit ==
  /\ edit # None
  /\ \/ \E on \in BOOLEAN : botUnit' = [edit EXCEPT !.on = on]
     \/ \E on \in BOOLEAN, b \in Bots : botUnit' = [bot |-> b, on |-> on, offset |-> 0]
  /\ edit' = None
  /\ manager' = [manager EXCEPT !.due = TRUE]
  /\ UNCHANGED <<poller, durable, telegram, crossed>>

\* Delete; a request that has read the row finds no row to write.
DeleteUnit ==
  /\ botUnit.bot # None
  /\ botUnit' = [botUnit EXCEPT !.bot = None, !.on = FALSE]
  /\ edit' = None
  /\ manager' = [manager EXCEPT !.due = TRUE]
  /\ UNCHANGED <<poller, durable, telegram, crossed>>

-----------------------------------------------------------------------------
(* Manager.                                                                *)

PollerRuns == poller.step \notin {"off", "done"}

Wanted == IF botUnit.on THEN botUnit.bot ELSE None

\* reconcile reads the settings; a poller that runs under them may stay (an
\* edit of a field of the configuration replaces it), any other is cancelled.
ReconcileUnit ==
  /\ manager.step = "idle" /\ manager.due
  /\ \/ /\ PollerRuns /\ poller.bot = Wanted
        /\ manager' = [manager EXCEPT !.due = FALSE]
        /\ UNCHANGED poller
     \/ /\ manager' = [due |-> FALSE, step |-> "switching", want |-> Wanted]
        /\ poller' = IF PollerRuns THEN [poller EXCEPT !.cancelled = TRUE] ELSE poller
  /\ UNCHANGED <<botUnit, edit, durable, telegram, crossed>>

\* Once the old goroutine has returned, startUnit verifies the bot and starts
\* the next; a refusal (a 429 comes back by its deadline) leaves none.
StartPoller ==
  /\ manager.step = "switching" /\ ~PollerRuns
  /\ \/ /\ manager.want # None
        /\ poller' = [NoPoller EXCEPT !.step = "load", !.bot = manager.want]
        /\ manager' = [manager EXCEPT !.step = "idle", !.want = None]
     \/ /\ poller' = NoPoller
        /\ \E retry \in BOOLEAN :
             /\ retry => manager.want # None
             /\ manager' = [due |-> manager.due \/ retry, step |-> "idle",
                            want |-> None]
  /\ UNCHANGED <<botUnit, edit, durable, telegram, crossed>>

-----------------------------------------------------------------------------
(* Poller.                                                                 *)

\* NextOffset; the checkpoint of a deleted unit cannot be loaded.
LoadOffset ==
  /\ poller.step = "load"
  /\ poller' = IF poller.cancelled \/ botUnit.bot = None
                 THEN [poller EXCEPT !.step = "done"]
                 ELSE [poller EXCEPT !.step = "poll", !.next = botUnit.offset]
  /\ UNCHANGED <<botUnit, edit, manager, durable, telegram, crossed>>

\* GetUpdates: the request confirms what is below its offset, even when its
\* answer is lost; the last of MaxConsecutiveFailures ends the poller.
GetUpdates ==
  /\ poller.step = "poll"
  /\ IF poller.cancelled
       THEN /\ poller' = [poller EXCEPT !.step = "done"]
            /\ UNCHANGED confirmed
       ELSE LET b    == poller.bot
                low  == Max({confirmed[b], poller.next})
                left == {u \in 1..arrived[b] : u >= low}
            IN /\ confirmed' = [confirmed EXCEPT ![b] = low]
               /\ poller' \in { [poller EXCEPT !.step = "pick", !.batch = left],
                                poller, [poller EXCEPT !.step = "done"] }
  /\ UNCHANGED <<botUnit, edit, manager, arrived, durable, crossed>>

\* Updates are handled in the order of their numbers.
Current(batch) == Min(batch)

Done(update) == handled' = [handled EXCEPT ![poller.bot] = @ \cup {update}]

\* Mutant: a command whose outcome is unknown may be sent again.
UnusedUnlessUnknown(entry) == entry \in {None, "indeterminate"}

\* BeginHardwareCommand lets a request id through once.
Unused(entry) == entry = None

\* HandleUpdate up to the journal: an update that carries no SMS, that finds no
\* line or no database, or whose request id is known, ends here, with an error
\* or without one; the SMS of the others is journalled.
HandleUpdate ==
  /\ poller.step = "pick" /\ poller.batch # {}
  /\ LET u == Current(poller.batch) IN
       \/ /\ Done(u)
          /\ poller' = [poller EXCEPT !.step = "advance"]
          /\ UNCHANGED sms
       \/ /\ ~poller.cancelled /\ Unused(sms[poller.bot][u])
          /\ sms' = [sms EXCEPT ![poller.bot][u] = "pending"]
          /\ poller' = [poller EXCEPT !.step = "send"]
          /\ UNCHANGED handled
  /\ UNCHANGED <<botUnit, edit, manager, texted, telegram, crossed>>

\* The outcomes of the command that reached the modem or not: the journal says
\* completed or failed of what is certain, indeterminate otherwise, and stays
\* pending when it cannot be written.
Outcomes(reached) == {"indeterminate", "pending"} \cup
                     (IF reached THEN {"completed"} ELSE {"failed"})

SendSms ==
  /\ poller.step = "send"
  /\ LET u == Current(poller.batch) IN
       /\ \E reached \in BOOLEAN : \E result \in Outcomes(reached) :
            /\ sms' = [sms EXCEPT ![poller.bot][u] = result]
            /\ texted' = IF reached /\ texted[poller.bot][u] < 2
                           THEN [texted EXCEPT ![poller.bot][u] = @ + 1]
                           ELSE texted
       /\ Done(u)
  /\ poller' = [poller EXCEPT !.step = "advance"]
  /\ UNCHANGED <<botUnit, edit, manager, telegram, crossed>>

\* Advance writes the checkpoint only upwards and only in a row that exists;
\* any refusal, and a cancelled context, ends the poller.
Advance ==
  /\ poller.step = "advance"
  /\ LET u       == Current(poller.batch)
         moved   == /\ ~poller.cancelled /\ botUnit.bot # None
                    /\ botUnit.offset <= u + 1
     IN \/ /\ moved
           /\ botUnit' = [botUnit EXCEPT !.offset = u + 1]
           /\ poller' = [poller EXCEPT !.step = "pick", !.next = u + 1,
                                       !.batch = @ \ {u}]
           /\ crossed' = (crossed \/ botUnit.bot # poller.bot)
        \/ /\ poller' = [poller EXCEPT !.step = "done"]
           /\ UNCHANGED <<botUnit, crossed>>
  /\ UNCHANGED <<edit, manager, durable, telegram>>

\* The batch is handled: the next long poll.
NextPoll ==
  /\ poller.step = "pick" /\ poller.batch = {}
  /\ poller' = [poller EXCEPT !.step = "poll"]
  /\ UNCHANGED <<botUnit, edit, manager, durable, telegram, crossed>>

-----------------------------------------------------------------------------
Arrive(b) ==
  /\ arrived[b] < Last[b]
  /\ arrived' = [arrived EXCEPT ![b] = @ + 1]
  /\ UNCHANGED <<botUnit, edit, manager, poller, durable, confirmed, crossed>>

\* RecoverInterruptedCommunicationOperations.
RecoveredCommand(entry) == IF entry = "pending" THEN "indeterminate" ELSE entry

\* The process dies and starts again, with a first reconciliation due.
RestartBot ==
  /\ edit' = None /\ poller' = NoPoller
  /\ manager' = [due |-> TRUE, step |-> "idle", want |-> None]
  /\ sms' = [b \in Bots |-> [u \in Updates |-> RecoveredCommand(sms[b][u])]]
  /\ UNCHANGED <<botUnit, texted, handled, telegram, crossed>>

BotNext ==
  \/ ReadUnit \/ WriteUnit \/ DeleteUnit
  \/ ReconcileUnit \/ StartPoller
  \/ LoadOffset \/ GetUpdates \/ HandleUpdate \/ SendSms \/ Advance \/ NextPoll
  \/ \E b \in Bots : Arrive(b)
  \/ RestartBot

BotSpec == BotInit /\ [][BotNext]_botVars

-----------------------------------------------------------------------------
\* The SMS of an update reaches the modem at most once, although updates are
\* delivered again after a crash, after a checkpoint that a settings request
\* wrote back, and after a token was entered again.
SmsSentOnce == \A b \in Bots, u \in Updates : texted[b][u] <= 1

\* Telegram forgets an update only after it was handled. (A poller that is
\* still running while the unit's token is replaced may store its offset in
\* the row that now belongs to the new bot, see `crossed`.)
ForgottenWasHandled ==
  crossed \/ \A b \in Bots, u \in Updates : u < confirmed[b] => u \in handled[b]

BotIsExact == SmsSentOnce /\ ForgottenWasHandled
=============================================================================
