------------------------- MODULE GenerationMonitor -------------------------
(***************************************************************************)
(* The desktop's control of application creation                           *)
(* (smartapply/desktop/generation_controller.py, workers.py and the        *)
(* shutdown of bridge.py): a command worker and a monitor worker, each on a *)
(* pool of one thread, the timer that follows the runs, what was asked     *)
(* while a worker was busy, and the closing of the window.                 *)
(*                                                                         *)
(* One action is one event of the interface thread or one call of the      *)
(* service on a worker thread.  A worker's result (or error) and its end   *)
(* are two queued signals: other events may come before and between them.  *)
(***************************************************************************)
EXTENDS Naturals, FiniteSets

CONSTANTS
    Runs,         \* runs the user may create
    Earlier,      \* runs an earlier session may have left under way
    Modes,        \* modes the user chooses from
    MaxAsked,     \* bound: requests of the user
    MaxFailures   \* bound: service calls that raise

ASSUME MonitorAssumption ==
    /\ Earlier \subseteq Runs /\ Modes \subseteq {"batch", "immediate"}
    /\ MaxAsked \in Nat /\ MaxFailures \in Nat

VARIABLES
    run,       \* what the journal says of each run
    cmd,       \* the command worker
    mon,       \* the monitor worker
    pending,   \* what waits for the workers: a read, Stops, abandons, the first sync
    queued,    \* refreshes posted to the event loop (QTimer.singleShot(0))
    timer,     \* the timer is running
    shown,     \* the runs as the interface shows them
    window,    \* open, closing (shutdownRequested) or closed (shutdownReady)
    asked,     \* runs the user, or the closing of the window, wants stopped
    used       \* requests and failures so far

vars == <<run, cmd, mon, pending, queued, timer, shown, window, asked, used>>

RunStates == {"none", "active", "stopped", "ended", "abandoned"}
Commands == {"start", "retry"}
Journal == [r \in Runs |-> run[r].state]
Nothing == [r \in Runs |-> "none"]

\* op and target, where it stands, whether Stop was pressed, whether a command
\* ended or the view changed since it began, and the journal it read
NoWorker == [op |-> "none", run |-> {}, at |-> "none", stop |-> FALSE,
             old |-> FALSE, late |-> FALSE, seen |-> Nothing]
Worker(op, rs) == [NoWorker EXCEPT !.op = op, !.run = rs, !.at = "calling"]
Busy(worker) == worker # NoWorker
InFlight(worker) == worker.at \in {"calling", "working", "result"}
Finished == [NoWorker EXCEPT !.at = "finished"]

Open == window = "open"
Running == window # "closed"

----------------------------------------------------------------------------
(* The controller's own methods.                                           *)

\* _update_timer, from what is shown and the command worker once they change
Timer(command, rows, win) ==
    win = "open" /\ (Busy(command) \/ \E r \in Runs : rows[r] = "active")

\* mutant: a refresh asks the provider while a command works
MutantReads(sync) == IF sync THEN "sync" ELSE "read"

\* refresh: a command advances its own run, so that its monitor only reads
Reads(sync) == IF sync /\ ~Busy(cmd) THEN "sync" ELSE "read"

Refresh(sync) ==
    /\ IF Open /\ Busy(mon)
       THEN pending' = [pending EXCEPT !.read = TRUE] /\ UNCHANGED <<mon, timer>>
       ELSE IF Open
       THEN /\ mon' = Worker(Reads(sync), {})
            /\ timer' = Timer(cmd, shown, window)
            /\ UNCHANGED pending
       ELSE UNCHANGED <<mon, timer, pending>>

\* _loaded, for the snapshot of a worker: nothing while closing, and a snapshot
\* taken for another view only asks for a new one; `command' is the command
\* worker, `marks' what else becomes pending
Load(worker, command, marks) ==
    IF ~Open THEN pending' = marks /\ UNCHANGED <<shown, timer>>
    ELSE IF worker.late
    THEN pending' = [marks EXCEPT !.read = TRUE] /\ UNCHANGED <<shown, timer>>
    ELSE /\ shown' = worker.seen
         /\ timer' = Timer(command, worker.seen, window)
         /\ pending' = marks

\* the end of a worker: what waits is launched before the readiness of the
\* shutdown is looked at
Dispatch(command, monitor, afterCommand) ==
    /\ CASE ~Busy(monitor) /\ pending.stops # {} ->
              \E r \in pending.stops :
                  /\ mon' = Worker("cancel", {r})
                  /\ pending' = [pending EXCEPT !.stops = @ \ {r}]
                  /\ UNCHANGED queued
         [] ~Busy(monitor) /\ pending.stops = {} /\ pending.abandons # {} ->
              \E r \in pending.abandons :
                  /\ mon' = IF Busy(command) THEN monitor ELSE Worker("abandon", {r})
                  /\ pending' = [pending EXCEPT !.abandons = @ \ {r}]
                  /\ UNCHANGED queued
         [] OTHER ->
              /\ mon' = monitor
              /\ IF ~Open THEN UNCHANGED <<pending, queued>>
                 ELSE IF pending.read \/ afterCommand
                 THEN pending' = [pending EXCEPT !.read = FALSE] /\ queued' = queued \cup {"read"}
                 ELSE IF pending.sync
                 THEN pending' = [pending EXCEPT !.sync = FALSE] /\ queued' = queued \cup {"sync"}
                 ELSE UNCHANGED <<pending, queued>>
    /\ cmd' = command
    /\ timer' = Timer(command, shown, window)
    /\ window' = IF window = "closing" /\ ~Busy(command) /\ ~Busy(mon') THEN "closed" ELSE window

----------------------------------------------------------------------------
(* What the user does.                                                     *)

Asking == Running /\ used.asked < MaxAsked /\ used' = [used EXCEPT !.asked = @ + 1]

\* _execute of a command: refused while either worker is busy
Free == Open /\ ~Busy(cmd) /\ ~Busy(mon)

Start(r, mode) ==
    /\ Asking /\ Free
    /\ run[r].state = "none" /\ run[r].mode = "unset"
    /\ run' = [run EXCEPT ![r].mode = mode]
    /\ cmd' = Worker("start", {r}) /\ timer' = Timer(cmd', shown, window)
    /\ UNCHANGED <<mon, pending, queued, shown, window, asked>>

Retry(r) ==
    /\ Asking /\ Free
    /\ shown[r] = "stopped"
    /\ cmd' = Worker("retry", {r}) /\ timer' = Timer(cmd', shown, window)
    /\ UNCHANGED <<run, mon, pending, queued, shown, window, asked>>

\* mutant: Stop is dropped while the monitor is busy
MutantCancel(r) ==
    /\ Asking
    /\ shown[r] = "active" /\ asked' = asked \cup {r}
    /\ mon' = IF Busy(mon) THEN mon ELSE Worker("cancel", {r})
    /\ timer' = Timer(cmd, shown, window)
    /\ UNCHANGED <<run, cmd, pending, queued, shown, window>>

Cancel(r) ==
    /\ Asking
    /\ shown[r] = "active" /\ asked' = asked \cup {r}
    /\ IF Busy(mon)
       THEN pending' = [pending EXCEPT !.stops = @ \cup {r}] /\ UNCHANGED <<mon, timer>>
       ELSE /\ mon' = Worker("cancel", {r})
            /\ timer' = Timer(cmd, shown, window) /\ UNCHANGED pending
    /\ UNCHANGED <<run, cmd, queued, shown, window>>

\* the Stop of the command under way; the run it registers must stop too (once
\* its result has been handled, the Stop has nothing to act on)
CancelCurrent ==
    /\ Asking /\ InFlight(cmd) /\ Open
    /\ cmd' = [cmd EXCEPT !.stop = TRUE]
    /\ asked' = asked \cup cmd.run
    /\ UNCHANGED <<run, mon, pending, queued, timer, shown, window>>

Abandon(r) ==
    /\ Asking
    /\ shown[r] = "stopped" /\ ~Busy(cmd)
    /\ IF Busy(mon)
       THEN pending' = [pending EXCEPT !.abandons = @ \cup {r}] /\ UNCHANGED <<mon, timer>>
       ELSE /\ mon' = Worker("abandon", {r})
            /\ timer' = Timer(cmd, shown, window) /\ UNCHANGED pending
    /\ UNCHANGED <<run, cmd, queued, shown, window, asked>>

\* set_view: snapshots asked for before no longer fit
Navigate ==
    /\ Asking /\ Open
    /\ cmd' = [cmd EXCEPT !.late = InFlight(cmd)]
    /\ IF Busy(mon)
       THEN /\ mon' = [mon EXCEPT !.late = InFlight(mon)]
            /\ pending' = [pending EXCEPT !.read = TRUE] /\ UNCHANGED timer
       ELSE /\ mon' = Worker("read", {})
            /\ timer' = Timer(cmd', shown, window) /\ UNCHANGED pending
    /\ UNCHANGED <<run, queued, shown, window, asked>>

\* requestShutdown and stop: only an immediate command is cancelled
Close ==
    /\ Open /\ window' = "closing"
    /\ timer' = FALSE
    /\ pending' = [pending EXCEPT !.read = FALSE, !.sync = FALSE]
    /\ LET immediate == \E r \in cmd.run : run[r].mode = "immediate" IN
        /\ cmd' = [cmd EXCEPT !.stop = @ \/ immediate]
        /\ asked' = IF immediate THEN asked \cup cmd.run ELSE asked
    /\ queued' = queued \cup {"check"}
    /\ UNCHANGED <<run, mon, shown, used>>

----------------------------------------------------------------------------
(* The event loop.                                                         *)

\* the timer, or Refresh pressed
Tick ==
    /\ Running /\ timer
    /\ Refresh(TRUE)
    /\ UNCHANGED <<run, cmd, queued, shown, window, asked, used>>

Posted(sync) ==
    LET event == IF sync THEN "sync" ELSE "read" IN
    /\ Running /\ event \in queued /\ queued' = queued \ {event}
    /\ Refresh(sync)
    /\ UNCHANGED <<run, cmd, shown, window, asked, used>>

\* the readiness check that requestShutdown posts
CheckShutdown ==
    /\ Running /\ "check" \in queued /\ queued' = queued \ {"check"}
    /\ window' = IF Busy(cmd) \/ Busy(mon) THEN window ELSE "closed"
    /\ UNCHANGED <<run, cmd, mon, pending, timer, shown, asked, used>>

\* mutant: a Stop that came too late for the command is forgotten
MutantCommandResult ==
    /\ Running /\ cmd.at = "result"
    /\ cmd' = Finished
    /\ mon' = IF mon.op \in {"read", "sync"} /\ InFlight(mon) THEN [mon EXCEPT !.old = TRUE] ELSE mon
    /\ Load(cmd, cmd', pending)
    /\ UNCHANGED <<run, queued, window, asked, used>>

\* the result of a command: a Stop pressed too late for it becomes a Stop of
\* the run it started
CommandResult ==
    /\ Running /\ cmd.at = "result"
    /\ cmd' = Finished
    /\ mon' = IF mon.op \in {"read", "sync"} /\ InFlight(mon) THEN [mon EXCEPT !.old = TRUE] ELSE mon
    /\ Load(cmd, cmd',
            IF cmd.stop
            THEN [pending EXCEPT !.stops = @ \cup {r \in cmd.run : cmd.seen[r] = "active"}]
            ELSE pending)
    /\ UNCHANGED <<run, queued, window, asked, used>>

CommandError ==
    /\ Running /\ cmd.at = "error"
    /\ cmd' = Finished
    /\ timer' = Timer(cmd, shown, window)
    /\ UNCHANGED <<run, mon, pending, queued, shown, window, asked, used>>

\* mutant: nothing is read after a command
MutantCommandFinished ==
    /\ Running /\ cmd.at = "finished"
    /\ Dispatch(NoWorker, mon, FALSE)
    /\ UNCHANGED <<run, shown, asked, used>>

CommandFinished ==
    /\ Running /\ cmd.at = "finished"
    /\ Dispatch(NoWorker, mon, TRUE)
    /\ UNCHANGED <<run, shown, asked, used>>

\* a read begun before the last command ended is thrown away
MonitorResult ==
    /\ Running /\ mon.at = "result"
    /\ mon' = Finished
    /\ IF mon.old
       THEN pending' = [pending EXCEPT !.read = TRUE] /\ UNCHANGED <<shown, timer>>
       ELSE Load(mon, cmd, pending)
    /\ UNCHANGED <<run, cmd, queued, window, asked, used>>

\* a failed sync can still have changed runs
MonitorError ==
    /\ Running /\ mon.at = "error"
    /\ mon' = Finished
    /\ pending' = [pending EXCEPT !.read = @ \/ mon.op = "sync"]
    /\ timer' = Timer(cmd, shown, window)
    /\ UNCHANGED <<run, cmd, queued, shown, window, asked, used>>

MonitorFinished ==
    /\ Running /\ mon.at = "finished"
    /\ Dispatch(cmd, NoWorker, FALSE)
    /\ UNCHANGED <<run, shown, asked, used>>

----------------------------------------------------------------------------
(* The service, on the worker threads.                                     *)

SetRun(rs, state) ==
    run' = [r \in Runs |-> IF r \in rs THEN [run[r] EXCEPT !.state = state] ELSE run[r]]
Answers(worker) == [worker EXCEPT !.at = "result", !.seen = Journal']
Failing(worker) == [NoWorker EXCEPT !.op = worker.op, !.at = "error"]
Raises(worker) ==
    /\ used.failures < MaxFailures /\ used' = [used EXCEPT !.failures = @ + 1]
    /\ worker' = Failing(worker)

\* start registers the run, retry reopens it; Stop pressed before prevents a start
CommandBegins ==
    /\ Running /\ cmd.at = "calling"
    /\ IF cmd.op = "start" /\ cmd.stop
       THEN cmd' = Failing(cmd) /\ UNCHANGED <<run, asked>>
       ELSE /\ SetRun(cmd.run, "active")
            /\ asked' = IF cmd.stop THEN asked ELSE asked \ cmd.run
            /\ cmd' = [cmd EXCEPT !.at = "working"]
    /\ UNCHANGED <<mon, pending, queued, timer, shown, window, used>>

\* the follow-up in the same call: an immediate run ends or stops; a batch is
\* sent unless Stop was seen in time
CommandReturns ==
    /\ Running /\ cmd.at = "working"
    /\ \E state \in RunStates :
        /\ \/ state = "stopped" /\ (cmd.stop \/ \E r \in cmd.run : run[r].state = "stopped")
           \/ state = "ended" /\ \E r \in cmd.run : run[r].mode = "immediate"
           \/ state = "active" /\ \E r \in cmd.run : run[r].mode = "batch" /\ run[r].state = "active"
        /\ SetRun(cmd.run, state)
    /\ cmd' = Answers(cmd)
    /\ UNCHANGED <<mon, pending, queued, timer, shown, window, asked, used>>

\* it raises, before the run is registered or after
CommandRaises ==
    /\ Running /\ cmd.at \in {"calling", "working"} /\ Raises(cmd)
    /\ UNCHANGED <<run, mon, pending, queued, timer, shown, window, asked>>

MonitorReads ==
    /\ Running /\ mon.at = "calling" /\ mon.op = "read"
    /\ UNCHANGED <<run, cmd, pending, queued, timer, shown, window, asked, used>>
    /\ mon' = Answers(mon)

\* GenerationCoordinator.sync: batches may have ended, and an immediate run
\* without its worker is paused
MonitorSyncs(rs) ==
    /\ Running /\ mon.at = "calling" /\ mon.op = "sync"
    /\ rs \subseteq {r \in Runs : run[r].state = "active" /\ run[r].mode = "batch"}
    /\ run' = [r \in Runs |->
          CASE r \in rs -> [run[r] EXCEPT !.state = "ended"]
            [] r \notin rs /\ run[r].state = "active" /\ run[r].mode = "immediate" /\ r \notin cmd.run ->
                  [run[r] EXCEPT !.state = "stopped"]
            [] OTHER -> run[r]]
    /\ mon' = Answers(mon)
    /\ UNCHANGED <<cmd, pending, queued, timer, shown, window, asked, used>>

\* cancel and abandon refuse a run in another state
MonitorControls ==
    /\ Running /\ mon.at = "calling" /\ mon.op \in {"cancel", "abandon"}
    /\ IF \A r \in mon.run : run[r].state = (IF mon.op = "cancel" THEN "active" ELSE "stopped")
       THEN /\ SetRun(mon.run, IF mon.op = "cancel" THEN "stopped" ELSE "abandoned")
            /\ mon' = Answers(mon)
       ELSE mon' = Failing(mon) /\ UNCHANGED run
    /\ UNCHANGED <<cmd, pending, queued, timer, shown, window, asked, used>>

MonitorRaises ==
    /\ Running /\ mon.at = "calling" /\ Raises(mon)
    /\ UNCHANGED <<run, cmd, pending, queued, timer, shown, window, asked>>

----------------------------------------------------------------------------
\* the journal holds what earlier sessions left: nothing, or a batch under way
Init ==
    /\ \E rs \in SUBSET Earlier :
          run = [r \in Runs |-> IF r \in rs THEN [state |-> "active", mode |-> "batch"]
                                           ELSE [state |-> "none", mode |-> "unset"]]
    /\ cmd = NoWorker /\ mon = NoWorker
    /\ pending = [read |-> FALSE, stops |-> {}, abandons |-> {}, sync |-> TRUE]
    /\ queued = {"read"} /\ timer = FALSE /\ shown = Nothing
    /\ window = "open" /\ asked = {}
    /\ used = [asked |-> 0, failures |-> 0]

User ==
    \/ \E r \in Runs :
          Retry(r) \/ Cancel(r) \/ Abandon(r) \/ \E mode \in Modes : Start(r, mode)
    \/ CancelCurrent \/ Navigate \/ Close

CommandEvents == CommandResult \/ CommandError \/ CommandFinished
MonitorEvents == MonitorResult \/ MonitorError \/ MonitorFinished
PostedEvents == CheckShutdown \/ \E sync \in BOOLEAN : Posted(sync)

Service ==
    \/ CommandBegins \/ CommandReturns
    \/ MonitorReads \/ (\E rs \in SUBSET Runs : MonitorSyncs(rs)) \/ MonitorControls

Next ==
    \/ User \/ Tick \/ CommandEvents \/ MonitorEvents \/ PostedEvents
    \/ Service \/ CommandRaises \/ MonitorRaises

Spec == Init /\ [][Next]_vars

\* The event loop and the worker threads run; the timer, whose two minutes are
\* longer than a read of the journal, does not find a monitor at work every time
\* it fires; and a provider asked again and again answers that a batch has ended.
FairSpec ==
    /\ Spec
    /\ WF_vars(CommandEvents) /\ WF_vars(MonitorEvents) /\ WF_vars(PostedEvents)
    /\ SF_vars(~Busy(mon) /\ Tick)
    /\ WF_vars(CommandBegins \/ CommandReturns)
    /\ WF_vars(MonitorReads \/ MonitorControls \/ \E rs \in SUBSET Runs : MonitorSyncs(rs))
    /\ \A r \in Runs : SF_vars(\E rs \in SUBSET Runs : r \in rs /\ MonitorSyncs(rs))

----------------------------------------------------------------------------
(* Properties.                                                             *)

WorkerRecs == [op : {"none", "start", "retry", "read", "sync", "cancel", "abandon"},
               run : SUBSET Runs, at : {"none", "calling", "working", "result", "error", "finished"},
               stop : BOOLEAN, old : BOOLEAN, late : BOOLEAN, seen : [Runs -> RunStates]]

TypeOK ==
    /\ run \in [Runs -> [state : RunStates, mode : {"unset", "batch", "immediate"}]]
    /\ cmd \in WorkerRecs /\ mon \in WorkerRecs
    /\ pending \in [read : BOOLEAN, stops : SUBSET Runs, abandons : SUBSET Runs, sync : BOOLEAN]
    /\ queued \subseteq {"read", "sync", "check"} /\ timer \in BOOLEAN
    /\ shown \in [Runs -> RunStates]
    /\ window \in {"open", "closing", "closed"} /\ asked \subseteq Runs
    /\ used \in [asked : 0..MaxAsked, failures : 0..MaxFailures]

\* A provider sync never works on the runs while a command does.
OneAtATime == mon.op = "sync" /\ mon.at = "calling" => cmd.at \notin {"calling", "working"}

\* The window is not closed over a run that was to be stopped, whatever the
\* workers were doing when Stop was pressed.
ClosesAfterStops ==
    window = "closed" /\ used.failures = 0 => \A r \in asked : run[r].state # "active"

\* Stop is carried out, if no call of the service fails.
StopsReached ==
    \A r \in Runs : r \in asked ~> (run[r].state # "active" \/ used.failures > 0)

\* docs/batch-generation.md:51 -- batches are checked at startup, then every two
\* minutes: one that has ended is noticed while the window stays open.
BatchesFollowed ==
    \A r \in Runs : (run[r].state = "active" /\ run[r].mode = "batch")
                        ~> (run[r].state # "active" \/ ~Open \/ used.failures > 0)

=============================================================================
