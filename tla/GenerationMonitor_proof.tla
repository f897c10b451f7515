----------------------- MODULE GenerationMonitor_proof -----------------------
(***************************************************************************)
(* Theorems about the control of application creation: what the two        *)
(* workers may do at once, and that the window does not close over a run   *)
(* that was to be stopped.                                                 *)
(***************************************************************************)
EXTENDS GenerationMonitor, TLAPS

\* what the workers hold: a command its run until its result is handled, a Stop
\* one run; and what a result says of the runs that are still active
Workers ==
    /\ cmd.run # {} => InFlight(cmd) /\ \E r \in Runs : cmd.run = {r}
    /\ cmd.op = "start" /\ cmd.at = "calling" => \A r \in cmd.run : run[r].state = "none"
    /\ cmd.at = "result" => \A r \in Runs : run[r].state = "active" => cmd.seen[r] = "active"
    /\ mon.op = "cancel" /\ mon.at = "calling" => \E r \in Runs : mon.run = {r}
    /\ mon.at = "none" => ~Busy(mon)

\* a Stop that waits is waited for, and a closed window has no worker
Waiting ==
    /\ pending.stops # {} => Busy(cmd) \/ Busy(mon)
    /\ window = "closed" => ~Busy(cmd) /\ ~Busy(mon)

\* who will stop run r: the queue, the monitor, or the command that works on it
ToStop(r) ==
    \/ r \in pending.stops
    \/ mon.op = "cancel" /\ mon.at = "calling" /\ r \in mon.run
    \/ r \in cmd.run /\ cmd.stop

Followed == used.failures = 0 => \A r \in asked : run[r].state = "active" => ToStop(r)

IInv == TypeOK /\ OneAtATime /\ Workers /\ Waiting /\ Followed

----------------------------------------------------------------------------
(* Workers.                                                                *)

Operations == {"start", "retry", "read", "sync", "cancel", "abandon"}

\* an idle worker, one that begins, one that is done
LEMMA WorkerFields ==
    /\ NoWorker \in WorkerRecs /\ NoWorker.op = "none" /\ NoWorker.run = {}
    /\ NoWorker.at = "none" /\ NoWorker.stop = FALSE
    /\ Finished \in WorkerRecs /\ Finished.op = "none" /\ Finished.run = {}
    /\ Finished.at = "finished" /\ Finished.stop = FALSE
    /\ \A op \in Operations, rs \in SUBSET Runs :
          /\ Worker(op, rs) \in WorkerRecs /\ Worker(op, rs).op = op /\ Worker(op, rs).run = rs
          /\ Worker(op, rs).at = "calling" /\ Worker(op, rs).stop = FALSE
    /\ \A w \in WorkerRecs :
          /\ Failing(w) \in WorkerRecs /\ Failing(w).op = w.op /\ Failing(w).run = {}
          /\ Failing(w).at = "error" /\ Failing(w).stop = FALSE
<1>1. Nothing \in [Runs -> RunStates] BY DEF Nothing, RunStates
<1>2. NoWorker \in WorkerRecs BY <1>1 DEF NoWorker, WorkerRecs
<1>3. Finished \in WorkerRecs BY <1>1 DEF Finished, NoWorker, WorkerRecs
<1>4. ASSUME NEW op \in Operations, NEW rs \in SUBSET Runs
      PROVE  /\ Worker(op, rs) \in WorkerRecs /\ Worker(op, rs).op = op /\ Worker(op, rs).run = rs
             /\ Worker(op, rs).at = "calling" /\ Worker(op, rs).stop = FALSE
  BY <1>1 DEF Worker, NoWorker, WorkerRecs, Operations
<1>5. ASSUME NEW w \in WorkerRecs
      PROVE  /\ Failing(w) \in WorkerRecs /\ Failing(w).op = w.op /\ Failing(w).run = {}
             /\ Failing(w).at = "error" /\ Failing(w).stop = FALSE
  BY <1>1 DEF Failing, NoWorker, WorkerRecs
<1> QED BY <1>2, <1>3, <1>4, <1>5 DEF NoWorker, Finished

\* a worker that is somewhere is busy
LEMMA BusyWorkers ==
    ASSUME NEW w
    PROVE  (w.at # "none" => Busy(w)) /\ (w.op # "none" => Busy(w))
BY WorkerFields DEF Busy

\* a refresh begins a read or a sync, or leaves one to be made
LEMMA RefreshStep ==
    ASSUME TypeOK, NEW sync \in BOOLEAN, Refresh(sync)
    PROVE  /\ mon' \in WorkerRecs /\ timer' \in BOOLEAN
           /\ pending' = pending \/ pending' = [pending EXCEPT !.read = TRUE]
           /\ mon' = mon \/ (~Busy(mon) /\ mon' = Worker(Reads(sync), {}))
<1>1. Reads(sync) \in Operations BY DEF Reads, Operations
<1>2. Worker(Reads(sync), {}) \in WorkerRecs BY <1>1, WorkerFields
<1>3. Timer(cmd, shown, window) \in BOOLEAN BY DEF Timer
<1> QED BY <1>2, <1>3 DEF Refresh, TypeOK

\* a result that is shown or not leaves what is to be stopped
LEMMA LoadStep ==
    ASSUME TypeOK, NEW worker \in WorkerRecs, NEW command,
           NEW marks \in [read : BOOLEAN, stops : SUBSET Runs, abandons : SUBSET Runs, sync : BOOLEAN],
           Load(worker, command, marks)
    PROVE  /\ pending' = marks \/ pending' = [marks EXCEPT !.read = TRUE]
           /\ pending' \in [read : BOOLEAN, stops : SUBSET Runs, abandons : SUBSET Runs, sync : BOOLEAN]
           /\ pending'.stops = marks.stops
           /\ shown' \in [Runs -> RunStates] /\ timer' \in BOOLEAN
<1>1. worker.seen \in [Runs -> RunStates] BY DEF WorkerRecs
<1>2. Timer(command, worker.seen, window) \in BOOLEAN BY DEF Timer
<1> QED BY <1>1, <1>2 DEF Load, TypeOK

\* the end of a worker begins what waits: first a Stop
LEMMA DispatchStep ==
    ASSUME TypeOK, NEW command \in WorkerRecs, NEW monitor \in WorkerRecs,
           NEW afterCommand \in BOOLEAN, Dispatch(command, monitor, afterCommand)
    PROVE  /\ cmd' = command /\ mon' \in WorkerRecs /\ timer' \in BOOLEAN
           /\ pending' \in [read : BOOLEAN, stops : SUBSET Runs, abandons : SUBSET Runs, sync : BOOLEAN]
           /\ queued' \subseteq queued \cup {"read", "sync"}
           /\ window' = IF window = "closing" /\ ~Busy(command) /\ ~Busy(mon') THEN "closed" ELSE window
           /\ \/ mon' = monitor /\ pending'.stops = pending.stops
                 /\ (Busy(monitor) \/ pending.stops = {})
              \/ /\ ~Busy(monitor) /\ \E r \in pending.stops :
                       mon' = Worker("cancel", {r}) /\ pending'.stops = pending.stops \ {r}
              \/ /\ ~Busy(monitor) /\ pending.stops = {} /\ pending'.stops = {}
                 /\ \E r \in Runs : mon' = Worker("abandon", {r})
<1>0. pending \in [read : BOOLEAN, stops : SUBSET Runs, abandons : SUBSET Runs, sync : BOOLEAN]
  BY DEF TypeOK
<1>1. \A r \in Runs : Worker("cancel", {r}) \in WorkerRecs /\ Worker("abandon", {r}) \in WorkerRecs
  BY WorkerFields DEF Operations
<1>2. Timer(command, shown, window) \in BOOLEAN BY DEF Timer
<1>3. /\ cmd' = command /\ timer' \in BOOLEAN
      /\ window' = IF window = "closing" /\ ~Busy(command) /\ ~Busy(mon') THEN "closed" ELSE window
  BY <1>2 DEF Dispatch
<1>4. CASE ~Busy(monitor) /\ pending.stops # {}
  <2>1. PICK r \in pending.stops : /\ mon' = Worker("cancel", {r})
                                   /\ pending' = [pending EXCEPT !.stops = @ \ {r}]
                                   /\ UNCHANGED queued
    BY <1>4 DEF Dispatch
  <2>2. r \in Runs BY <1>0
  <2> QED BY <1>0, <1>1, <1>3, <1>4, <2>1, <2>2
<1>5. CASE ~Busy(monitor) /\ pending.stops = {} /\ pending.abandons # {}
  <2>1. PICK r \in pending.abandons :
            /\ mon' = IF Busy(command) THEN monitor ELSE Worker("abandon", {r})
            /\ pending' = [pending EXCEPT !.abandons = @ \ {r}]
            /\ UNCHANGED queued
    BY <1>5 DEF Dispatch
  <2>2. r \in Runs BY <1>0
  <2> QED BY <1>0, <1>1, <1>3, <1>5, <2>1, <2>2
<1>6. CASE ~(~Busy(monitor) /\ pending.stops # {})
           /\ ~(~Busy(monitor) /\ pending.stops = {} /\ pending.abandons # {})
  <2>1. mon' = monitor /\ \/ UNCHANGED <<pending, queued>>
                          \/ pending' = [pending EXCEPT !.read = FALSE] /\ queued' = queued \cup {"read"}
                          \/ pending' = [pending EXCEPT !.sync = FALSE] /\ queued' = queued \cup {"sync"}
    BY <1>6 DEF Dispatch
  <2> QED BY <1>0, <1>3, <1>6, <2>1
<1> QED BY <1>4, <1>5, <1>6

----------------------------------------------------------------------------
(* What the user does.                                                     *)

\* the parts of the type invariant a step reads
LEMMA Types ==
    ASSUME TypeOK
    PROVE  /\ run \in [Runs -> [state : RunStates, mode : {"unset", "batch", "immediate"}]]
           /\ cmd \in WorkerRecs /\ mon \in WorkerRecs
           /\ pending \in [read : BOOLEAN, stops : SUBSET Runs, abandons : SUBSET Runs, sync : BOOLEAN]
           /\ used \in [asked : 0..MaxAsked, failures : 0..MaxFailures]
BY DEF TypeOK

\* a request is counted
LEMMA AskingStep ==
    ASSUME TypeOK, Asking
    PROVE  /\ used' \in [asked : 0..MaxAsked, failures : 0..MaxFailures]
           /\ used'.failures = used.failures /\ window # "closed"
BY MonitorAssumption DEF MonitorAssumption, TypeOK, Asking, Running

\* a step that activates no run and drops no Stop
LEMMA FollowedStays ==
    ASSUME Followed, used'.failures = 0 => used.failures = 0,
           \A r \in asked' : run'[r].state = "active" =>
               ToStop(r)' \/ (r \in asked /\ run[r].state = "active" /\ (ToStop(r) => ToStop(r)'))
    PROVE  Followed'
BY DEF Followed

\* the user starts a run: no worker is busy
LEMMA StartStep ==
    ASSUME IInv, NEW r \in Runs, NEW mode \in Modes, Start(r, mode)
    PROVE  IInv'
<1>0. TypeOK BY DEF IInv
<1>1. /\ cmd' = Worker("start", {r}) /\ cmd' \in WorkerRecs /\ cmd'.op = "start" /\ cmd'.run = {r}
      /\ cmd'.at = "calling" /\ cmd = NoWorker /\ mon = NoWorker /\ mon' = mon
      /\ used' \in [asked : 0..MaxAsked, failures : 0..MaxFailures]
      /\ used'.failures = used.failures /\ window # "closed"
      /\ UNCHANGED <<pending, queued, shown, window, asked>>
  BY <1>0, AskingStep, WorkerFields DEF Start, Free, Busy, Operations
<1>2. run' = [run EXCEPT ![r].mode = mode] /\ run[r].state = "none" BY DEF Start
<1>3. \A q \in Runs : run'[q].state = run[q].state BY <1>0, <1>2, Types
<1>9. run'[r].state = "none" BY <1>2, <1>3
<1>4. TypeOK'
  <2>1. mode \in {"batch", "immediate"} BY MonitorAssumption DEF MonitorAssumption
  <2>2. run' \in [Runs -> [state : RunStates, mode : {"unset", "batch", "immediate"}]]
    BY <1>0, <1>2, <2>1, Types
  <2>3. timer' \in BOOLEAN BY DEF Start, Timer
  <2> QED BY <1>0, <1>1, <2>2, <2>3 DEF TypeOK
<1>5. OneAtATime' BY <1>1, WorkerFields DEF OneAtATime
<1>6. Workers' BY <1>1, <1>9, WorkerFields DEF Workers, InFlight, Busy
<1>7. Waiting' BY <1>1, BusyWorkers DEF Waiting
<1>8. Followed'
  <2>1. \A q \in asked : run'[q].state = "active" =>
            q \in Runs /\ run[q].state = "active" /\ (ToStop(q) => ToStop(q)')
    BY <1>0, <1>1, <1>3, WorkerFields DEF ToStop, TypeOK
  <2> QED BY <1>1, <2>1, FollowedStays DEF IInv
<1> QED BY <1>4, <1>5, <1>6, <1>7, <1>8 DEF IInv

\* the user retries a stopped run
LEMMA RetryStep ==
    ASSUME IInv, NEW r \in Runs, Retry(r)
    PROVE  IInv'
<1>0. TypeOK BY DEF IInv
<1>1. /\ cmd' = Worker("retry", {r}) /\ cmd' \in WorkerRecs /\ cmd'.op = "retry" /\ cmd'.run = {r}
      /\ cmd'.at = "calling" /\ cmd = NoWorker /\ mon = NoWorker /\ mon' = mon
      /\ used' \in [asked : 0..MaxAsked, failures : 0..MaxFailures]
      /\ used'.failures = used.failures /\ window # "closed"
      /\ UNCHANGED <<run, pending, queued, shown, window, asked>>
  BY <1>0, AskingStep, WorkerFields DEF Retry, Free, Busy, Operations
<1>2. timer' \in BOOLEAN BY DEF Retry, Timer
<1>3. TypeOK' BY <1>0, <1>1, <1>2 DEF TypeOK
<1>4. OneAtATime' BY <1>1, WorkerFields DEF OneAtATime
<1>5. Workers' BY <1>1, WorkerFields DEF Workers, InFlight, Busy
<1>6. Waiting' BY <1>1, BusyWorkers DEF Waiting
<1>7. \A q \in asked : ToStop(q) => ToStop(q)' BY <1>1, WorkerFields DEF ToStop
<1>8. Followed' BY <1>1, <1>7, FollowedStays DEF IInv
<1> QED BY <1>3, <1>4, <1>5, <1>6, <1>8 DEF IInv

\* Stop goes to the queue or to the monitor
LEMMA CancelStep ==
    ASSUME IInv, NEW r \in Runs, Cancel(r)
    PROVE  IInv'
<1>0. TypeOK /\ pending \in [read : BOOLEAN, stops : SUBSET Runs, abandons : SUBSET Runs, sync : BOOLEAN]
  BY DEF IInv, TypeOK
<1>1. /\ UNCHANGED <<run, cmd, queued, shown, window>> /\ asked' = asked \cup {r}
      /\ used' \in [asked : 0..MaxAsked, failures : 0..MaxFailures]
      /\ used'.failures = used.failures /\ window # "closed"
  BY <1>0, AskingStep DEF Cancel
<1>2. CASE Busy(mon)
  <2>1. pending' = [pending EXCEPT !.stops = @ \cup {r}] /\ UNCHANGED <<mon, timer>>
    BY <1>2 DEF Cancel
  <2>2. TypeOK' BY <1>0, <1>1, <2>1 DEF TypeOK
  <2>3. pending'.stops = pending.stops \cup {r} BY <1>0, <2>1
  <2>4. OneAtATime' /\ Workers' BY <1>1, <2>1 DEF OneAtATime, Workers, InFlight, Busy, IInv
  <2>5. Waiting' BY <1>1, <1>2, <2>1 DEF Waiting, IInv, Busy
  <2>6. \A q \in asked' : ToStop(q)' \/ (q \in asked /\ (ToStop(q) => ToStop(q)'))
    BY <1>1, <2>1, <2>3 DEF ToStop
  <2>7. Followed' BY <1>1, <2>6, FollowedStays DEF IInv
  <2> QED BY <2>2, <2>4, <2>5, <2>7 DEF IInv
<1>3. CASE ~Busy(mon)
  <2>1. mon' = Worker("cancel", {r}) /\ timer' = Timer(cmd, shown, window) /\ UNCHANGED pending
    BY <1>3 DEF Cancel
  <2>2. /\ mon' \in WorkerRecs /\ mon'.op = "cancel" /\ mon'.run = {r} /\ mon'.at = "calling"
        /\ mon = NoWorker /\ timer' \in BOOLEAN
    BY <1>3, <2>1, WorkerFields DEF Operations, Busy, Timer
  <2>3. TypeOK' BY <1>0, <1>1, <2>1, <2>2 DEF TypeOK
  <2>4. OneAtATime' /\ Workers' BY <1>1, <2>2 DEF OneAtATime, Workers, InFlight, Busy, IInv
  <2>5. Waiting' BY <1>1, <2>2, BusyWorkers DEF Waiting
  <2>6. \A q \in asked' : ToStop(q)' \/ (q \in asked /\ (ToStop(q) => ToStop(q)'))
    BY <1>1, <2>1, <2>2, WorkerFields DEF ToStop
  <2>7. Followed' BY <1>1, <2>6, FollowedStays DEF IInv
  <2> QED BY <2>3, <2>4, <2>5, <2>7 DEF IInv
<1> QED BY <1>2, <1>3

\* Stop goes to the command that works on the run
LEMMA CancelCurrentStep ==
    ASSUME IInv, CancelCurrent
    PROVE  IInv'
<1>0. TypeOK BY DEF IInv
<1>1. /\ UNCHANGED <<run, mon, pending, queued, timer, shown, window>> /\ asked' = asked \cup cmd.run
      /\ used' \in [asked : 0..MaxAsked, failures : 0..MaxFailures]
      /\ used'.failures = used.failures /\ window # "closed" /\ InFlight(cmd)
  BY <1>0, AskingStep DEF CancelCurrent
<1>2. cmd' = [cmd EXCEPT !.stop = TRUE] BY DEF CancelCurrent
<1>3. /\ cmd \in WorkerRecs /\ cmd' \in WorkerRecs /\ cmd'.stop /\ cmd'.op = cmd.op
      /\ cmd'.run = cmd.run /\ cmd'.at = cmd.at /\ cmd'.seen = cmd.seen /\ cmd.run \subseteq Runs
  BY <1>0, <1>2 DEF TypeOK, WorkerRecs
<1>4. TypeOK' BY <1>0, <1>1, <1>3 DEF TypeOK
<1>5. OneAtATime' /\ Workers' BY <1>1, <1>3 DEF OneAtATime, Workers, InFlight, Busy, IInv
<1>6. Waiting' BY <1>1, <1>3, BusyWorkers DEF Waiting, InFlight
<1>7. \A q \in asked' : ToStop(q)' \/ (q \in asked /\ (ToStop(q) => ToStop(q)'))
  BY <1>1, <1>3 DEF ToStop
<1>8. Followed' BY <1>1, <1>7, FollowedStays DEF IInv
<1> QED BY <1>4, <1>5, <1>6, <1>8 DEF IInv

\* a run is abandoned; Stops are left as they are
LEMMA AbandonStep ==
    ASSUME IInv, NEW r \in Runs, Abandon(r)
    PROVE  IInv'
<1>0. TypeOK /\ pending \in [read : BOOLEAN, stops : SUBSET Runs, abandons : SUBSET Runs, sync : BOOLEAN]
  BY DEF IInv, TypeOK
<1>1. /\ UNCHANGED <<run, cmd, queued, shown, window, asked>>
      /\ used' \in [asked : 0..MaxAsked, failures : 0..MaxFailures]
      /\ used'.failures = used.failures /\ window # "closed"
  BY <1>0, AskingStep DEF Abandon
<1>2. CASE Busy(mon)
  <2>1. pending' = [pending EXCEPT !.abandons = @ \cup {r}] /\ UNCHANGED <<mon, timer>>
    BY <1>2 DEF Abandon
  <2>2. TypeOK' BY <1>0, <1>1, <2>1 DEF TypeOK
  <2>3. pending'.stops = pending.stops BY <1>0, <2>1
  <2>4. OneAtATime' /\ Workers' BY <1>1, <2>1 DEF OneAtATime, Workers, InFlight, Busy, IInv
  <2>5. Waiting' BY <1>1, <1>2, <2>1 DEF Waiting, IInv, Busy
  <2>6. \A q \in asked : ToStop(q) => ToStop(q)' BY <1>1, <2>1, <2>3 DEF ToStop
  <2>7. Followed' BY <1>1, <2>6, FollowedStays DEF IInv
  <2> QED BY <2>2, <2>4, <2>5, <2>7 DEF IInv
<1>3. CASE ~Busy(mon)
  <2>1. mon' = Worker("abandon", {r}) /\ timer' = Timer(cmd, shown, window) /\ UNCHANGED pending
    BY <1>3 DEF Abandon
  <2>2. /\ mon' \in WorkerRecs /\ mon'.op = "abandon" /\ mon'.at = "calling"
        /\ mon = NoWorker /\ timer' \in BOOLEAN
    BY <1>3, <2>1, WorkerFields DEF Operations, Busy, Timer
  <2>3. TypeOK' BY <1>0, <1>1, <2>1, <2>2 DEF TypeOK
  <2>4. OneAtATime' /\ Workers' BY <1>1, <2>2 DEF OneAtATime, Workers, InFlight, Busy, IInv
  <2>5. Waiting' BY <1>1, <2>2, BusyWorkers DEF Waiting
  <2>6. \A q \in asked : ToStop(q) => ToStop(q)' BY <1>1, <2>1, <2>2, WorkerFields DEF ToStop
  <2>7. Followed' BY <1>1, <2>6, FollowedStays DEF IInv
  <2> QED BY <2>3, <2>4, <2>5, <2>7 DEF IInv
<1> QED BY <1>2, <1>3

\* another view: the workers keep what they do
LEMMA NavigateStep ==
    ASSUME IInv, Navigate
    PROVE  IInv'
<1>0. TypeOK /\ pending \in [read : BOOLEAN, stops : SUBSET Runs, abandons : SUBSET Runs, sync : BOOLEAN]
  BY DEF IInv, TypeOK
<1>1. /\ UNCHANGED <<run, queued, shown, window, asked>>
      /\ used' \in [asked : 0..MaxAsked, failures : 0..MaxFailures]
      /\ used'.failures = used.failures /\ window # "closed"
  BY <1>0, AskingStep DEF Navigate
<1>2. cmd' = [cmd EXCEPT !.late = InFlight(cmd)] BY DEF Navigate
<1>3. /\ cmd \in WorkerRecs /\ cmd' \in WorkerRecs /\ cmd'.stop = cmd.stop /\ cmd'.op = cmd.op
      /\ cmd'.run = cmd.run /\ cmd'.at = cmd.at /\ cmd'.seen = cmd.seen
  <2>1. InFlight(cmd) \in BOOLEAN BY DEF InFlight
  <2> QED BY <1>0, <1>2, <2>1 DEF TypeOK, WorkerRecs
<1>4. CASE Busy(mon)
  <2>1. mon' = [mon EXCEPT !.late = InFlight(mon)] /\ pending' = [pending EXCEPT !.read = TRUE]
        /\ UNCHANGED timer
    BY <1>4 DEF Navigate
  <2>2. /\ mon' \in WorkerRecs /\ mon'.op = mon.op /\ mon'.run = mon.run /\ mon'.at = mon.at
    <3>1. InFlight(mon) \in BOOLEAN BY DEF InFlight
    <3> QED BY <1>0, <2>1, <3>1 DEF TypeOK, WorkerRecs
  <2>3. pending'.stops = pending.stops BY <1>0, <2>1
  <2>4. TypeOK' BY <1>0, <1>1, <1>3, <2>1, <2>2 DEF TypeOK
  <2>5. mon'.at # "none" BY <1>4, <2>2 DEF IInv, Workers
  <2>6. OneAtATime' /\ Workers'
    BY <1>1, <1>3, <2>2, <2>5 DEF OneAtATime, Workers, InFlight, IInv
  <2>7. Waiting' BY <1>1, <2>5, BusyWorkers DEF Waiting
  <2>8. \A q \in asked : ToStop(q) => ToStop(q)' BY <1>3, <2>2, <2>3 DEF ToStop
  <2>9. Followed' BY <1>1, <2>8, FollowedStays DEF IInv
  <2> QED BY <2>4, <2>6, <2>7, <2>9 DEF IInv
<1>5. CASE ~Busy(mon)
  <2>1. mon' = Worker("read", {}) /\ timer' = Timer(cmd', shown, window) /\ UNCHANGED pending
    BY <1>5 DEF Navigate
  <2>2. /\ mon' \in WorkerRecs /\ mon'.op = "read" /\ mon'.at = "calling" /\ mon = NoWorker
        /\ timer' \in BOOLEAN
    BY <1>5, <2>1, WorkerFields DEF Operations, Busy, Timer
  <2>3. TypeOK' BY <1>0, <1>1, <1>3, <2>1, <2>2 DEF TypeOK
  <2>4. OneAtATime' /\ Workers' BY <1>1, <1>3, <2>2 DEF OneAtATime, Workers, InFlight, Busy, IInv
  <2>5. Waiting' BY <1>1, <2>2, BusyWorkers DEF Waiting
  <2>6. \A q \in asked : ToStop(q) => ToStop(q)' BY <1>1, <1>3, <2>1, <2>2, WorkerFields DEF ToStop
  <2>7. Followed' BY <1>1, <2>6, FollowedStays DEF IInv
  <2> QED BY <2>3, <2>4, <2>5, <2>7 DEF IInv
<1> QED BY <1>4, <1>5

\* the window begins to close; only an immediate command is stopped
LEMMA CloseStep ==
    ASSUME IInv, Close
    PROVE  IInv'
<1>0. TypeOK /\ pending \in [read : BOOLEAN, stops : SUBSET Runs, abandons : SUBSET Runs, sync : BOOLEAN]
      /\ cmd \in WorkerRecs
  BY DEF IInv, TypeOK
<1> DEFINE immediate == \E r \in cmd.run : run[r].mode = "immediate"
<1>1. /\ UNCHANGED <<run, mon, shown, used>> /\ window' = "closing" /\ timer' = FALSE
      /\ pending' = [pending EXCEPT !.read = FALSE, !.sync = FALSE]
      /\ queued' = queued \cup {"check"}
      /\ cmd' = [cmd EXCEPT !.stop = @ \/ immediate]
      /\ asked' = IF immediate THEN asked \cup cmd.run ELSE asked
  BY DEF Close
<1>2. immediate \in BOOLEAN OBVIOUS
<1> HIDE DEF immediate
<1>3. /\ cmd' \in WorkerRecs /\ cmd'.stop = (cmd.stop \/ immediate) /\ cmd'.op = cmd.op
      /\ cmd'.run = cmd.run /\ cmd'.at = cmd.at /\ cmd'.seen = cmd.seen /\ cmd.run \subseteq Runs
  BY <1>0, <1>1, <1>2 DEF WorkerRecs
<1>4. pending'.stops = pending.stops BY <1>0, <1>1
<1>5. TypeOK' BY <1>0, <1>1, <1>3 DEF TypeOK
<1>6. OneAtATime' /\ Workers' BY <1>1, <1>3 DEF OneAtATime, Workers, InFlight, Busy, IInv
<1>7. Waiting'
  <2>1. CASE cmd = NoWorker BY <1>1, <1>4, <2>1, BusyWorkers DEF Waiting, IInv, Busy
  <2>2. CASE cmd # NoWorker
    <3>1. Busy(cmd)'
      <4>1. CASE cmd.run # {}
        BY <1>3, <4>1, WorkerFields DEF Busy
      <4>2. CASE cmd.run = {}
        <5>1. ~immediate BY <4>2 DEF immediate
        <5>2. cmd' = cmd BY <1>0, <1>1, <5>1 DEF WorkerRecs
        <5> QED BY <2>2, <5>2 DEF Busy
      <4> QED BY <4>1, <4>2
    <3> QED BY <1>1, <3>1 DEF Waiting
  <2> QED BY <2>1, <2>2
<1>8. \A q \in asked' : ToStop(q)' \/ (q \in asked /\ (ToStop(q) => ToStop(q)'))
  BY <1>1, <1>3, <1>4 DEF ToStop
<1>9. Followed' BY <1>1, <1>8, FollowedStays DEF IInv
<1> QED BY <1>5, <1>6, <1>7, <1>9 DEF IInv

----------------------------------------------------------------------------
(* The event loop.                                                         *)

\* a refresh, by the timer or posted: a sync only beside an idle command worker
LEMMA RefreshKeeps ==
    ASSUME IInv, NEW sync \in BOOLEAN, Running, Refresh(sync), queued' \subseteq queued,
           UNCHANGED <<run, cmd, shown, window, asked, used>>
    PROVE  IInv'
<1>0. TypeOK /\ pending \in [read : BOOLEAN, stops : SUBSET Runs, abandons : SUBSET Runs, sync : BOOLEAN]
  BY DEF IInv, TypeOK
<1>1. /\ mon' \in WorkerRecs /\ timer' \in BOOLEAN
      /\ pending' = pending \/ pending' = [pending EXCEPT !.read = TRUE]
      /\ mon' = mon \/ (~Busy(mon) /\ mon' = Worker(Reads(sync), {}))
  BY <1>0, RefreshStep
<1>2. pending'.stops = pending.stops BY <1>0, <1>1
<1>3. TypeOK' BY <1>0, <1>1 DEF TypeOK
<1>4. window # "closed" BY DEF Running
<1>5. CASE mon' = mon
  <2>1. OneAtATime' /\ Workers' BY <1>5 DEF OneAtATime, Workers, InFlight, Busy, IInv
  <2>2. Waiting' BY <1>2, <1>4, <1>5 DEF Waiting, Busy, IInv
  <2>3. \A q \in asked : ToStop(q) => ToStop(q)' BY <1>2, <1>5 DEF ToStop
  <2>4. Followed' BY <2>3, FollowedStays DEF IInv
  <2> QED BY <1>3, <2>1, <2>2, <2>4 DEF IInv
<1>6. CASE ~Busy(mon) /\ mon' = Worker(Reads(sync), {})
  <2>1. /\ Reads(sync) \in {"read", "sync"} /\ (Reads(sync) = "sync" => cmd = NoWorker)
        /\ mon = NoWorker
    BY <1>6 DEF Reads, Busy
  <2>2. mon'.op = Reads(sync) /\ mon'.at = "calling"
    BY <1>6, <2>1, WorkerFields DEF Operations
  <2>3. OneAtATime' BY <2>1, <2>2, WorkerFields DEF OneAtATime
  <2>4. Workers' BY <2>1, <2>2 DEF Workers, InFlight, IInv
  <2>5. Waiting' BY <1>4, <2>2, BusyWorkers DEF Waiting
  <2>6. \A q \in asked : ToStop(q) => ToStop(q)' BY <1>2, <2>1, <2>2, WorkerFields DEF ToStop
  <2>7. Followed' BY <2>6, FollowedStays DEF IInv
  <2> QED BY <1>3, <2>3, <2>4, <2>5, <2>7 DEF IInv
<1> QED BY <1>1, <1>5, <1>6

\* the timer, and the refreshes posted to the event loop
LEMMA TickStep ==
    ASSUME IInv, Tick \/ \E sync \in BOOLEAN : Posted(sync)
    PROVE  IInv'
<1>1. CASE Tick
  <2>1. /\ Running /\ Refresh(TRUE) /\ queued' \subseteq queued
        /\ UNCHANGED <<run, cmd, shown, window, asked, used>>
    BY <1>1 DEF Tick
  <2> QED BY <2>1, RefreshKeeps
<1>2. ASSUME NEW sync \in BOOLEAN, Posted(sync)
      PROVE  IInv'
  <2>1. /\ Running /\ Refresh(sync) /\ queued' \subseteq queued
        /\ UNCHANGED <<run, cmd, shown, window, asked, used>>
    BY <1>2 DEF Posted
  <2> QED BY <2>1, RefreshKeeps
<1> QED BY <1>1, <1>2

\* the readiness check closes the window beside idle workers only
LEMMA CheckShutdownStep ==
    ASSUME IInv, CheckShutdown
    PROVE  IInv'
<1>1. /\ UNCHANGED <<run, cmd, mon, pending, timer, shown, asked, used>>
      /\ queued' \subseteq queued /\ window # "closed"
      /\ window' = IF Busy(cmd) \/ Busy(mon) THEN window ELSE "closed"
  BY DEF CheckShutdown, Running
<1>2. TypeOK' BY <1>1 DEF IInv, TypeOK
<1>3. OneAtATime' /\ Workers' BY <1>1 DEF OneAtATime, Workers, InFlight, Busy, IInv
<1>4. Waiting' BY <1>1 DEF Waiting, Busy, IInv
<1>5. \A q \in asked : ToStop(q) => ToStop(q)' BY <1>1 DEF ToStop
<1>6. Followed' BY <1>1, <1>5, FollowedStays DEF IInv
<1> QED BY <1>2, <1>3, <1>4, <1>6 DEF IInv

\* the result of a command: a Stop pressed too late for it goes to the queue
LEMMA CommandResultStep ==
    ASSUME IInv, CommandResult
    PROVE  IInv'
<1> DEFINE marks == IF cmd.stop
                    THEN [pending EXCEPT !.stops = @ \cup {r \in cmd.run : cmd.seen[r] = "active"}]
                    ELSE pending
<1>0. /\ TypeOK /\ cmd \in WorkerRecs /\ mon \in WorkerRecs /\ cmd.run \subseteq Runs
      /\ pending \in [read : BOOLEAN, stops : SUBSET Runs, abandons : SUBSET Runs, sync : BOOLEAN]
  BY DEF IInv, TypeOK, WorkerRecs
<1>1. /\ UNCHANGED <<run, queued, window, asked, used>> /\ window # "closed"
      /\ cmd.at = "result" /\ cmd' = Finished
      /\ mon' = IF mon.op \in {"read", "sync"} /\ InFlight(mon) THEN [mon EXCEPT !.old = TRUE] ELSE mon
      /\ Load(cmd, cmd', marks)
  BY DEF CommandResult, Running
<1>2. /\ marks \in [read : BOOLEAN, stops : SUBSET Runs, abandons : SUBSET Runs, sync : BOOLEAN]
      /\ pending.stops \subseteq marks.stops
      /\ cmd.stop => \A r \in cmd.run : cmd.seen[r] = "active" => r \in marks.stops
  BY <1>0
<1> HIDE DEF marks
<1>3. /\ pending' \in [read : BOOLEAN, stops : SUBSET Runs, abandons : SUBSET Runs, sync : BOOLEAN]
      /\ pending'.stops = marks.stops /\ shown' \in [Runs -> RunStates] /\ timer' \in BOOLEAN
  BY <1>0, <1>1, <1>2, LoadStep
<1>4. mon' \in WorkerRecs /\ mon'.op = mon.op /\ mon'.run = mon.run /\ mon'.at = mon.at
      /\ (mon.at = "none" => mon' = mon)
  BY <1>0, <1>1 DEF WorkerRecs, InFlight
<1>5. TypeOK' BY <1>0, <1>1, <1>3, <1>4, WorkerFields DEF TypeOK
<1>6. OneAtATime' BY <1>1, WorkerFields DEF OneAtATime
<1>7. Workers' BY <1>1, <1>4, WorkerFields DEF Workers, InFlight, Busy, IInv
<1>8. Waiting' BY <1>1, WorkerFields, BusyWorkers DEF Waiting
<1>9. \A q \in asked : run[q].state = "active" => (ToStop(q) => ToStop(q)')
  <2>1. \A q \in cmd.run : run[q].state = "active" => cmd.seen[q] = "active"
    BY <1>0, <1>1 DEF IInv, Workers
  <2> QED BY <1>1, <1>2, <1>3, <1>4, <2>1 DEF ToStop
<1>10. Followed' BY <1>1, <1>9, FollowedStays DEF IInv
<1> QED BY <1>5, <1>6, <1>7, <1>8, <1>10 DEF IInv

\* the error of a command
LEMMA CommandErrorStep ==
    ASSUME IInv, CommandError
    PROVE  IInv'
<1>1. /\ UNCHANGED <<run, mon, pending, queued, shown, window, asked, used>> /\ window # "closed"
      /\ cmd.at = "error" /\ cmd' = Finished /\ timer' \in BOOLEAN
  BY DEF CommandError, Running, Timer
<1>2. TypeOK' BY <1>1, WorkerFields DEF IInv, TypeOK
<1>3. OneAtATime' BY <1>1, WorkerFields DEF OneAtATime
<1>4. Workers' BY <1>1, WorkerFields DEF Workers, InFlight, Busy, IInv
<1>5. Waiting' BY <1>1, WorkerFields, BusyWorkers DEF Waiting
<1>6. cmd.run = {} BY <1>1 DEF IInv, Workers, InFlight
<1>7. \A q \in asked : ToStop(q) => ToStop(q)' BY <1>1, <1>6 DEF ToStop
<1>8. Followed' BY <1>1, <1>7, FollowedStays DEF IInv
<1> QED BY <1>2, <1>3, <1>4, <1>5, <1>8 DEF IInv

\* a worker ends, and what waits begins: it held no Stop of its own
LEMMA DispatchKeeps ==
    ASSUME IInv, NEW command \in WorkerRecs, NEW monitor \in WorkerRecs,
           NEW afterCommand \in BOOLEAN, Dispatch(command, monitor, afterCommand),
           Running, UNCHANGED <<run, shown, asked, used>>,
           \/ cmd.at = "finished" /\ command = NoWorker /\ monitor = mon
           \/ mon.at = "finished" /\ command = cmd /\ monitor = NoWorker
    PROVE  IInv'
<1>0. /\ TypeOK /\ window # "closed"
      /\ pending \in [read : BOOLEAN, stops : SUBSET Runs, abandons : SUBSET Runs, sync : BOOLEAN]
  BY DEF IInv, TypeOK, Running
<1>1. /\ cmd' = command /\ mon' \in WorkerRecs /\ timer' \in BOOLEAN
      /\ pending' \in [read : BOOLEAN, stops : SUBSET Runs, abandons : SUBSET Runs, sync : BOOLEAN]
      /\ queued' \subseteq queued \cup {"read", "sync"}
      /\ window' = IF window = "closing" /\ ~Busy(command) /\ ~Busy(mon') THEN "closed" ELSE window
      /\ \/ mon' = monitor /\ pending'.stops = pending.stops
            /\ (Busy(monitor) \/ pending.stops = {})
         \/ /\ ~Busy(monitor) /\ \E r \in pending.stops :
                  mon' = Worker("cancel", {r}) /\ pending'.stops = pending.stops \ {r}
         \/ /\ ~Busy(monitor) /\ pending.stops = {} /\ pending'.stops = {}
            /\ \E r \in Runs : mon' = Worker("abandon", {r})
  BY <1>0, DispatchStep
<1>2. TypeOK' BY <1>0, <1>1 DEF TypeOK
\* the command worker: idle now, or as it was
<1>3. /\ cmd' = cmd \/ (cmd' = NoWorker /\ cmd.run = {})
  BY <1>1 DEF IInv, Workers, InFlight
<1>4. /\ cmd'.run # {} => InFlight(cmd') /\ \E r \in Runs : cmd'.run = {r}
      /\ cmd'.op = "start" /\ cmd'.at = "calling" => \A r \in cmd'.run : run'[r].state = "none"
      /\ cmd'.at = "result" => \A r \in Runs : run'[r].state = "active" => cmd'.seen[r] = "active"
      /\ cmd'.at \in {"calling", "working"} => cmd' = cmd
  BY <1>3, WorkerFields DEF IInv, Workers
<1>5. \A q \in asked : q \in cmd.run /\ cmd.stop => q \in cmd'.run /\ cmd'.stop
  BY <1>3
<1>6. ~Busy(monitor) => ~(mon.op = "cancel" /\ mon.at = "calling")
  BY WorkerFields DEF Busy
<1>7. CASE mon' = monitor /\ pending'.stops = pending.stops /\ (Busy(monitor) \/ pending.stops = {})
  <2>1. monitor = NoWorker \/ monitor = mon OBVIOUS
  <2>2. OneAtATime' BY <1>4, <1>7, <2>1, WorkerFields DEF OneAtATime, IInv
  <2>3. Workers' BY <1>4, <1>7, <2>1, WorkerFields DEF Workers, InFlight, Busy, IInv
  <2>4. Waiting' BY <1>0, <1>1, <1>7 DEF Waiting, Busy
  <2>5. \A q \in asked : ToStop(q) => ToStop(q)' BY <1>5, <1>7 DEF ToStop
  <2>6. Followed' BY <2>5, FollowedStays DEF IInv
  <2> QED BY <1>2, <2>2, <2>3, <2>4, <2>6 DEF IInv
<1>8. ASSUME ~Busy(monitor), NEW r \in pending.stops, mon' = Worker("cancel", {r}),
             pending'.stops = pending.stops \ {r}
      PROVE  IInv'
  <2>1. r \in Runs /\ mon'.op = "cancel" /\ mon'.run = {r} /\ mon'.at = "calling"
    BY <1>0, <1>8, WorkerFields DEF Operations
  <2>2. OneAtATime' BY <2>1 DEF OneAtATime
  <2>3. Workers' BY <1>4, <2>1 DEF Workers, InFlight
  <2>4. Waiting' BY <1>0, <1>1, <2>1, BusyWorkers DEF Waiting, Busy
  <2>5. \A q \in asked : ToStop(q) => ToStop(q)' BY <1>5, <1>6, <1>8, <2>1 DEF ToStop
  <2>6. Followed' BY <2>5, FollowedStays DEF IInv
  <2> QED BY <1>2, <2>2, <2>3, <2>4, <2>6 DEF IInv
<1>9. ASSUME ~Busy(monitor), pending.stops = {}, pending'.stops = {},
             NEW r \in Runs, mon' = Worker("abandon", {r})
      PROVE  IInv'
  <2>1. mon'.op = "abandon" /\ mon'.at = "calling" BY <1>9, WorkerFields DEF Operations
  <2>2. OneAtATime' BY <2>1 DEF OneAtATime
  <2>3. Workers' BY <1>4, <2>1 DEF Workers, InFlight
  <2>4. Waiting' BY <1>0, <1>1, <2>1, BusyWorkers DEF Waiting, Busy
  <2>5. \A q \in asked : ToStop(q) => ToStop(q)' BY <1>5, <1>6, <1>9 DEF ToStop
  <2>6. Followed' BY <2>5, FollowedStays DEF IInv
  <2> QED BY <1>2, <2>2, <2>3, <2>4, <2>6 DEF IInv
<1> QED BY <1>1, <1>7, <1>8, <1>9

\* the end of the command worker, and of the monitor
LEMMA FinishedStep ==
    ASSUME IInv, CommandFinished \/ MonitorFinished
    PROVE  IInv'
<1>0. cmd \in WorkerRecs /\ mon \in WorkerRecs /\ NoWorker \in WorkerRecs
  BY WorkerFields DEF IInv, TypeOK
<1>1. CASE CommandFinished
  <2>1. /\ Running /\ cmd.at = "finished" /\ Dispatch(NoWorker, mon, TRUE)
        /\ UNCHANGED <<run, shown, asked, used>>
    BY <1>1 DEF CommandFinished
  <2> QED BY <1>0, <2>1, DispatchKeeps
<1>2. CASE MonitorFinished
  <2>1. /\ Running /\ mon.at = "finished" /\ Dispatch(cmd, NoWorker, FALSE)
        /\ UNCHANGED <<run, shown, asked, used>>
    BY <1>2 DEF MonitorFinished
  <2> QED BY <1>0, <2>1, DispatchKeeps
<1> QED BY <1>1, <1>2

\* the result or the error of the monitor, whose Stop is done
LEMMA MonitorAnswers ==
    ASSUME IInv, MonitorResult \/ MonitorError
    PROVE  IInv'
<1>0. /\ TypeOK /\ mon \in WorkerRecs
      /\ pending \in [read : BOOLEAN, stops : SUBSET Runs, abandons : SUBSET Runs, sync : BOOLEAN]
  BY DEF IInv, TypeOK
<1>1. /\ UNCHANGED <<run, cmd, queued, window, asked, used>> /\ window # "closed"
      /\ mon.at \in {"result", "error"} /\ mon' = Finished
  BY DEF MonitorResult, MonitorError, Running
<1>2. /\ pending' \in [read : BOOLEAN, stops : SUBSET Runs, abandons : SUBSET Runs, sync : BOOLEAN]
      /\ pending'.stops = pending.stops /\ shown' \in [Runs -> RunStates] /\ timer' \in BOOLEAN
  <2>1. CASE MonitorResult /\ mon.old BY <1>0, <2>1 DEF MonitorResult, TypeOK
  <2>2. CASE MonitorResult /\ ~mon.old
    <3>1. Load(mon, cmd, pending) BY <2>2 DEF MonitorResult
    <3> QED BY <1>0, <3>1, LoadStep
  <2>3. CASE MonitorError
    <3>1. /\ pending' = [pending EXCEPT !.read = @ \/ mon.op = "sync"]
          /\ timer' \in BOOLEAN /\ shown' = shown
      BY <2>3 DEF MonitorError, Timer
    <3> QED BY <1>0, <3>1 DEF TypeOK
  <2> QED BY <2>1, <2>2, <2>3
<1>3. TypeOK' BY <1>0, <1>1, <1>2, WorkerFields DEF TypeOK
<1>4. OneAtATime' BY <1>1, WorkerFields DEF OneAtATime
<1>5. Workers' BY <1>1, WorkerFields DEF Workers, InFlight, IInv
<1>6. Waiting' BY <1>1, WorkerFields, BusyWorkers DEF Waiting
<1>7. \A q \in asked : ToStop(q) => ToStop(q)' BY <1>1, <1>2 DEF ToStop
<1>8. Followed' BY <1>1, <1>7, FollowedStays DEF IInv
<1> QED BY <1>3, <1>4, <1>5, <1>6, <1>8 DEF IInv

----------------------------------------------------------------------------
(* The service.                                                            *)

\* what a step makes of the runs it sets, and of the others
LEMMA SetRunStep ==
    ASSUME TypeOK, NEW rs \in SUBSET Runs, NEW state \in RunStates, SetRun(rs, state)
    PROVE  /\ run' \in [Runs -> [state : RunStates, mode : {"unset", "batch", "immediate"}]]
           /\ \A r \in rs : run'[r].state = state
           /\ \A r \in Runs \ rs : run'[r].state = run[r].state
<1>1. \A r \in Runs : run[r] \in [state : RunStates, mode : {"unset", "batch", "immediate"}]
  BY DEF TypeOK
<1>2. \A r \in Runs : [run[r] EXCEPT !.state = state]
                         \in [state : RunStates, mode : {"unset", "batch", "immediate"}]
  BY <1>1
<1> QED BY <1>1, <1>2 DEF SetRun

\* an answer holds the journal as it is
LEMMA AnswersStep ==
    ASSUME NEW w \in WorkerRecs, NEW v, v = Answers(w),
           run' \in [Runs -> [state : RunStates, mode : {"unset", "batch", "immediate"}]]
    PROVE  /\ v \in WorkerRecs /\ v.op = w.op /\ v.run = w.run /\ v.stop = w.stop
           /\ v.at = "result" /\ \A r \in Runs : v.seen[r] = run'[r].state
<1>1. /\ Journal' \in [Runs -> RunStates]
      /\ \A r \in Runs : Journal'[r] = run'[r].state
  BY DEF Journal
<1> QED BY <1>1 DEF Answers, WorkerRecs

\* a command begins: its run is under way, or was stopped before it began
LEMMA CommandBeginsStep ==
    ASSUME IInv, CommandBegins
    PROVE  IInv'
<1>0. /\ TypeOK /\ cmd \in WorkerRecs /\ cmd.run \subseteq Runs /\ asked \subseteq Runs
  BY DEF IInv, TypeOK, WorkerRecs
<1>1. /\ UNCHANGED <<mon, pending, queued, timer, shown, window, used>>
      /\ cmd.at = "calling" /\ window # "closed"
  BY DEF CommandBegins, Running
<1>2. CASE cmd.op = "start" /\ cmd.stop
  <2>1. cmd' = Failing(cmd) /\ UNCHANGED <<run, asked>> BY <1>2 DEF CommandBegins
  <2>2. cmd' \in WorkerRecs /\ cmd'.run = {} /\ cmd'.at = "error" BY <1>0, <2>1, WorkerFields
  <2>3. TypeOK' BY <1>0, <1>1, <2>1, <2>2 DEF TypeOK
  <2>4. OneAtATime' BY <2>2 DEF OneAtATime
  <2>5. Workers' BY <1>1, <2>2 DEF Workers, InFlight, Busy, IInv
  <2>6. Waiting' BY <1>1, <2>2, BusyWorkers DEF Waiting
  <2>7. \A q \in cmd.run : run[q].state = "none" BY <1>1, <1>2 DEF IInv, Workers
  <2>8. \A q \in asked : run[q].state = "active" => (ToStop(q) => ToStop(q)')
    BY <1>1, <2>7 DEF ToStop
  <2>9. Followed' BY <1>1, <2>1, <2>8, FollowedStays DEF IInv
  <2> QED BY <2>3, <2>4, <2>5, <2>6, <2>9 DEF IInv
<1>3. CASE ~(cmd.op = "start" /\ cmd.stop)
  <2>1. /\ SetRun(cmd.run, "active") /\ asked' = (IF cmd.stop THEN asked ELSE asked \ cmd.run)
        /\ cmd' = [cmd EXCEPT !.at = "working"]
    BY <1>3 DEF CommandBegins
  <2>2. /\ cmd' \in WorkerRecs /\ cmd'.at = "working" /\ cmd'.run = cmd.run /\ cmd'.stop = cmd.stop
    BY <1>0, <2>1 DEF WorkerRecs
  <2>3. /\ run' \in [Runs -> [state : RunStates, mode : {"unset", "batch", "immediate"}]]
        /\ \A r \in Runs \ cmd.run : run'[r].state = run[r].state
    BY <1>0, <2>1, SetRunStep DEF RunStates
  <2>4. asked' \subseteq Runs BY <1>0, <2>1
  <2>5. TypeOK' BY <1>0, <1>1, <2>2, <2>3, <2>4 DEF TypeOK
  <2>6. OneAtATime' BY <1>1 DEF OneAtATime, IInv
  <2>7. Workers' BY <1>1, <2>2 DEF Workers, InFlight, Busy, IInv
  <2>8. Waiting' BY <1>1, <2>2, BusyWorkers DEF Waiting
  <2>9. \A q \in asked' : run'[q].state = "active" =>
            ToStop(q)' \/ (q \in asked /\ run[q].state = "active" /\ (ToStop(q) => ToStop(q)'))
    <3> TAKE q \in asked'
    <3>1. CASE q \in cmd.run
      <4>1. cmd.stop BY <2>1, <3>1
      <4> QED BY <2>2, <3>1, <4>1 DEF ToStop
    <3>2. CASE q \notin cmd.run
      <4>1. q \in asked /\ q \in Runs BY <1>0, <2>1, <2>4
      <4>2. run'[q].state = run[q].state BY <2>3, <3>2, <4>1
      <4> QED BY <1>1, <2>2, <3>2, <4>1, <4>2 DEF ToStop
    <3> QED BY <3>1, <3>2
  <2>10. Followed' BY <1>1, <2>9, FollowedStays DEF IInv
  <2> QED BY <2>5, <2>6, <2>7, <2>8, <2>10 DEF IInv
<1> QED BY <1>2, <1>3

\* a command answers: a run it leaves under way was so before
LEMMA CommandReturnsStep ==
    ASSUME IInv, CommandReturns
    PROVE  IInv'
<1>0. /\ TypeOK /\ cmd \in WorkerRecs /\ cmd.run \subseteq Runs /\ asked \subseteq Runs
  BY DEF IInv, TypeOK, WorkerRecs
<1>1. /\ UNCHANGED <<mon, pending, queued, timer, shown, window, asked, used>>
      /\ cmd.at = "working" /\ window # "closed" /\ cmd' = Answers(cmd)
  BY DEF CommandReturns, Running
<1>2. PICK state \in RunStates :
         /\ SetRun(cmd.run, state)
         /\ state = "active" => \E r \in cmd.run : run[r].state = "active"
  BY DEF CommandReturns
<1>3. /\ run' \in [Runs -> [state : RunStates, mode : {"unset", "batch", "immediate"}]]
      /\ \A r \in cmd.run : run'[r].state = state
      /\ \A r \in Runs \ cmd.run : run'[r].state = run[r].state
  BY <1>0, <1>2, SetRunStep
<1>4. /\ cmd' \in WorkerRecs /\ cmd'.op = cmd.op /\ cmd'.run = cmd.run /\ cmd'.stop = cmd.stop
      /\ cmd'.at = "result" /\ \A r \in Runs : cmd'.seen[r] = run'[r].state
  BY <1>0, <1>1, <1>3, AnswersStep
<1>5. TypeOK' BY <1>0, <1>1, <1>3, <1>4 DEF TypeOK
<1>6. OneAtATime' BY <1>4 DEF OneAtATime
<1>7. Workers' BY <1>1, <1>4 DEF Workers, InFlight, Busy, IInv
<1>8. Waiting' BY <1>1, <1>4, BusyWorkers DEF Waiting
<1>9. \A q \in asked' : run'[q].state = "active" => run[q].state = "active"
  <2> SUFFICES ASSUME NEW q \in asked, run'[q].state = "active" PROVE run[q].state = "active"
    BY <1>1
  <2>1. CASE q \in cmd.run
    <3>1. \E r \in cmd.run : run[r].state = "active" BY <1>2, <1>3, <2>1
    <3>2. \E r \in Runs : cmd.run = {r} BY <2>1 DEF IInv, Workers
    <3> QED BY <2>1, <3>1, <3>2
  <2>2. CASE q \notin cmd.run BY <1>0, <1>3, <2>2
  <2> QED BY <2>1, <2>2
<1>10. \A q \in asked : ToStop(q) => ToStop(q)' BY <1>1, <1>4 DEF ToStop
<1>11. Followed' BY <1>1, <1>9, <1>10, FollowedStays DEF IInv
<1> QED BY <1>5, <1>6, <1>7, <1>8, <1>11 DEF IInv

\* a call raises: nothing is claimed of Stops any more
LEMMA RaisesStep ==
    ASSUME IInv, CommandRaises \/ MonitorRaises
    PROVE  IInv'
<1>0. /\ TypeOK /\ cmd \in WorkerRecs /\ mon \in WorkerRecs
      /\ used \in [asked : 0..MaxAsked, failures : 0..MaxFailures]
  BY DEF IInv, TypeOK
<1>1. /\ UNCHANGED <<run, pending, queued, timer, shown, window, asked>> /\ window # "closed"
      /\ used.failures < MaxFailures /\ used' = [used EXCEPT !.failures = @ + 1]
      /\ \/ cmd' = Failing(cmd) /\ UNCHANGED mon
         \/ mon' = Failing(mon) /\ UNCHANGED cmd
  BY DEF CommandRaises, MonitorRaises, Raises, Running
<1>2. /\ used' \in [asked : 0..MaxAsked, failures : 0..MaxFailures] /\ used'.failures # 0
  BY <1>0, <1>1, MonitorAssumption DEF MonitorAssumption
<1>3. Followed' BY <1>2 DEF Followed
<1>4. CASE cmd' = Failing(cmd) /\ UNCHANGED mon
  <2>1. cmd' \in WorkerRecs /\ cmd'.run = {} /\ cmd'.at = "error" BY <1>0, <1>4, WorkerFields
  <2>2. TypeOK' BY <1>0, <1>1, <1>2, <1>4, <2>1 DEF TypeOK
  <2>3. OneAtATime' BY <2>1 DEF OneAtATime
  <2>4. Workers' BY <1>1, <1>4, <2>1 DEF Workers, InFlight, Busy, IInv
  <2>5. Waiting' BY <1>1, <2>1, BusyWorkers DEF Waiting
  <2> QED BY <1>3, <2>2, <2>3, <2>4, <2>5 DEF IInv
<1>5. CASE mon' = Failing(mon) /\ UNCHANGED cmd
  <2>1. mon' \in WorkerRecs /\ mon'.at = "error" BY <1>0, <1>5, WorkerFields
  <2>2. TypeOK' BY <1>0, <1>1, <1>2, <1>5, <2>1 DEF TypeOK
  <2>3. OneAtATime' BY <2>1 DEF OneAtATime
  <2>4. Workers' BY <1>1, <1>5, <2>1 DEF Workers, InFlight, Busy, IInv
  <2>5. Waiting' BY <1>1, <2>1, BusyWorkers DEF Waiting
  <2> QED BY <1>3, <2>2, <2>3, <2>4, <2>5 DEF IInv
<1> QED BY <1>1, <1>4, <1>5

\* the monitor answers, or refuses: a run is only ever taken out of "active",
\* one that is not registered is left alone, and a Stop that is gone found its
\* run no longer active
LEMMA MonitorKeeps ==
    ASSUME IInv, mon.at = "calling", Running, mon' = Answers(mon) \/ mon' = Failing(mon),
           UNCHANGED <<cmd, pending, queued, timer, shown, window, asked, used>>,
           run' \in [Runs -> [state : RunStates, mode : {"unset", "batch", "immediate"}]],
           \A r \in Runs : run'[r].state = "active" => run[r].state = "active",
           \A r \in Runs : run[r].state = "none" => run'[r].state = "none",
           mon.op = "cancel" => \A r \in mon.run : run'[r].state # "active"
    PROVE  IInv'
<1>0. /\ TypeOK /\ cmd \in WorkerRecs /\ mon \in WorkerRecs /\ cmd.run \subseteq Runs
      /\ asked \subseteq Runs /\ window # "closed"
  BY DEF IInv, TypeOK, WorkerRecs, Running
<1>1. mon' \in WorkerRecs /\ mon'.at \in {"result", "error"} BY <1>0, WorkerFields, AnswersStep
<1>2. TypeOK' BY <1>0, <1>1 DEF TypeOK
<1>3. OneAtATime' BY <1>1 DEF OneAtATime
<1>4. Workers'
  <2>1. cmd.op = "start" /\ cmd.at = "calling" => \A r \in cmd.run : run'[r].state = "none"
    BY <1>0 DEF IInv, Workers
  <2>2. cmd.at = "result" => \A r \in Runs : run'[r].state = "active" => cmd.seen[r] = "active"
    BY DEF IInv, Workers
  <2> QED BY <1>1, <2>1, <2>2 DEF IInv, Workers, InFlight
<1>5. Waiting' BY <1>0, <1>1, BusyWorkers DEF Waiting
<1>6. \A q \in asked : run'[q].state = "active" => run[q].state = "active" /\ (ToStop(q) => ToStop(q)')
  BY <1>0 DEF ToStop
<1>7. Followed' BY <1>6, FollowedStays DEF IInv
<1> QED BY <1>2, <1>3, <1>4, <1>5, <1>7 DEF IInv

\* the calls of the monitor
LEMMA MonitorCalls ==
    ASSUME IInv, MonitorReads \/ (\E rs \in SUBSET Runs : MonitorSyncs(rs)) \/ MonitorControls
    PROVE  IInv'
<1>0. /\ TypeOK /\ mon \in WorkerRecs /\ mon.run \subseteq Runs
      /\ run \in [Runs -> [state : RunStates, mode : {"unset", "batch", "immediate"}]]
  BY DEF IInv, TypeOK, WorkerRecs
<1>1. CASE MonitorReads
  <2>1. /\ mon.at = "calling" /\ mon.op = "read" /\ Running /\ mon' = Answers(mon)
        /\ UNCHANGED <<run, cmd, pending, queued, timer, shown, window, asked, used>>
    BY <1>1 DEF MonitorReads
  <2> QED BY <1>0, <2>1, MonitorKeeps
<1>2. ASSUME NEW rs \in SUBSET Runs, MonitorSyncs(rs)
      PROVE  IInv'
  <2>1. /\ mon.at = "calling" /\ mon.op = "sync" /\ Running /\ mon' = Answers(mon)
        /\ UNCHANGED <<cmd, pending, queued, timer, shown, window, asked, used>>
        /\ \A r \in rs : run[r].state = "active"
    BY <1>2 DEF MonitorSyncs
  <2>2. \A r \in Runs :
           \/ run'[r] = run[r]
           \/ run[r].state = "active" /\ run'[r] = [run[r] EXCEPT !.state = "ended"]
           \/ run[r].state = "active" /\ run'[r] = [run[r] EXCEPT !.state = "stopped"]
    BY <1>2, <2>1 DEF MonitorSyncs
  <2>3. \A r \in Runs :
           /\ run'[r] \in [state : RunStates, mode : {"unset", "batch", "immediate"}]
           /\ run'[r] = run[r]
              \/ (run[r].state = "active" /\ run'[r].state \in {"ended", "stopped"})
    BY <1>0, <2>2 DEF RunStates
  <2>4. run' \in [Runs -> [state : RunStates, mode : {"unset", "batch", "immediate"}]]
    <3>1. \E f : run' = [r \in Runs |-> f[r]] /\ \A r \in Runs : f[r] = run'[r]
      BY <1>2 DEF MonitorSyncs
    <3> QED BY <2>3, <3>1
  <2> QED BY <2>1, <2>3, <2>4, MonitorKeeps
<1>3. CASE MonitorControls
  <2>1. /\ mon.at = "calling" /\ mon.op \in {"cancel", "abandon"} /\ Running
        /\ UNCHANGED <<cmd, pending, queued, timer, shown, window, asked, used>>
    BY <1>3 DEF MonitorControls
  <2>2. CASE \A r \in mon.run : run[r].state = (IF mon.op = "cancel" THEN "active" ELSE "stopped")
    <3> DEFINE state == IF mon.op = "cancel" THEN "stopped" ELSE "abandoned"
    <3>1. SetRun(mon.run, state) /\ mon' = Answers(mon) BY <1>3, <2>2 DEF MonitorControls
    <3>2. state \in RunStates /\ state \notin {"active", "none"} BY DEF RunStates
    <3>3. /\ run' \in [Runs -> [state : RunStates, mode : {"unset", "batch", "immediate"}]]
          /\ \A r \in mon.run : run'[r].state = state
          /\ \A r \in Runs \ mon.run : run'[r].state = run[r].state
      BY <1>0, <3>1, <3>2, SetRunStep
    <3>4. \A r \in mon.run : run[r].state # "none" BY <2>2
    <3> HIDE DEF state
    <3>5. /\ \A r \in Runs : run'[r].state = "active" => run[r].state = "active"
          /\ \A r \in Runs : run[r].state = "none" => run'[r].state = "none"
          /\ \A r \in mon.run : run'[r].state # "active"
      BY <3>2, <3>3, <3>4
    <3> QED BY <2>1, <3>1, <3>3, <3>5, MonitorKeeps
  <2>3. CASE ~\A r \in mon.run : run[r].state = (IF mon.op = "cancel" THEN "active" ELSE "stopped")
    <3>1. mon' = Failing(mon) /\ UNCHANGED run BY <1>3, <2>3 DEF MonitorControls
    <3>2. mon.op = "cancel" => \A r \in mon.run : run[r].state # "active"
      BY <2>1, <2>3 DEF IInv, Workers
    <3> QED BY <1>0, <2>1, <3>1, <3>2, MonitorKeeps
  <2> QED BY <2>2, <2>3
<1> QED BY <1>1, <1>2, <1>3

----------------------------------------------------------------------------
(* The theorems.                                                           *)

\* nothing has been asked for at first
LEMMA InitIInv == Init => IInv
<1> SUFFICES ASSUME Init PROVE IInv
  OBVIOUS
<1>1. PICK rs \in SUBSET Earlier :
         run = [r \in Runs |-> IF r \in rs THEN [state |-> "active", mode |-> "batch"]
                                           ELSE [state |-> "none", mode |-> "unset"]]
  BY DEF Init
<1>2. run \in [Runs -> [state : RunStates, mode : {"unset", "batch", "immediate"}]]
  BY <1>1 DEF RunStates
<1>3. /\ cmd = NoWorker /\ mon = NoWorker
      /\ pending = [read |-> FALSE, stops |-> {}, abandons |-> {}, sync |-> TRUE]
      /\ queued = {"read"} /\ timer = FALSE /\ shown = Nothing
      /\ window = "open" /\ asked = {} /\ used = [asked |-> 0, failures |-> 0]
  BY DEF Init
<1>4. Nothing \in [Runs -> RunStates] BY DEF Nothing, RunStates
<1>5. used \in [asked : 0..MaxAsked, failures : 0..MaxFailures]
  BY <1>3, MonitorAssumption DEF MonitorAssumption
<1>6. TypeOK BY <1>2, <1>3, <1>4, <1>5, WorkerFields DEF TypeOK
<1>7. OneAtATime /\ Workers /\ Waiting
  BY <1>3, WorkerFields DEF OneAtATime, Workers, Waiting, InFlight, Busy
<1>8. Followed BY <1>3 DEF Followed
<1> QED BY <1>6, <1>7, <1>8 DEF IInv

\* every step keeps the invariant
LEMMA NextIInv == IInv /\ [Next]_vars => IInv'
<1> SUFFICES ASSUME IInv, [Next]_vars PROVE IInv'
  OBVIOUS
<1>1. CASE UNCHANGED vars
  BY <1>1 DEF vars, IInv, TypeOK, OneAtATime, Workers, Waiting, Followed, ToStop, InFlight, Busy
<1>2. CASE User
  BY <1>2, StartStep, RetryStep, CancelStep, CancelCurrentStep, AbandonStep, NavigateStep, CloseStep
     DEF User
<1>3. CASE Tick \/ PostedEvents BY <1>3, TickStep, CheckShutdownStep DEF PostedEvents
<1>4. CASE CommandEvents \/ MonitorEvents
  BY <1>4, CommandResultStep, CommandErrorStep, FinishedStep, MonitorAnswers
     DEF CommandEvents, MonitorEvents
<1>5. CASE Service BY <1>5, CommandBeginsStep, CommandReturnsStep, MonitorCalls DEF Service
<1>6. CASE CommandRaises \/ MonitorRaises BY <1>6, RaisesStep
<1> QED BY <1>1, <1>2, <1>3, <1>4, <1>5, <1>6 DEF Next

\* The state of the controller keeps its shape, through every event and call.
THEOREM MonitorTypes == Spec => []TypeOK
<1>1. IInv => TypeOK BY DEF IInv
<1> QED BY <1>1, InitIInv, NextIInv, PTL DEF Spec

\* A provider sync of the monitor never works on the runs while a command does:
\* the two workers have a pool of their own each, and only the order in which
\* they are begun keeps them apart (generation_controller.py).
THEOREM SyncsAlone == Spec => []OneAtATime
<1>1. IInv => OneAtATime BY DEF IInv
<1> QED BY <1>1, InitIInv, NextIInv, PTL DEF Spec

\* The window closes over no run that was to be stopped, however the Stop, the
\* workers' results and the closing were interleaved, if no call has failed.
THEOREM StopsBeforeClosing == Spec => []ClosesAfterStops
<1>1. ASSUME IInv PROVE ClosesAfterStops
  <2> SUFFICES ASSUME window = "closed", used.failures = 0, NEW r \in asked, run[r].state = "active"
               PROVE  FALSE
    BY DEF ClosesAfterStops
  <2>1. cmd = NoWorker /\ mon = NoWorker BY <1>1 DEF IInv, Waiting, Busy
  <2>2. pending.stops = {} BY <1>1, <2>1 DEF IInv, Waiting, Busy
  <2>3. ToStop(r) BY <1>1 DEF IInv, Followed
  <2> QED BY <2>1, <2>2, <2>3, WorkerFields DEF ToStop
<1> QED BY <1>1, InitIInv, NextIInv, PTL DEF Spec

=============================================================================
