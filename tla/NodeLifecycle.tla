---------------------------- MODULE NodeLifecycle ----------------------------
(***************************************************************************)
(* The life of a node process: node.js starts the configured services in   *)
(* the order of their dependencies and stops them in the reverse order;    *)
(* scaffold/start.js stops the node on SIGINT, on an uncaught exception and *)
(* when the start fails; services/bitcoind.js spawns bitcoind, waits until *)
(* it answers, and spawns it again when it exits.                          *)
(*                                                                         *)
(* Starting, stopping and respawning are chains of callbacks of one event  *)
(* loop.  Nothing cancels one chain when another begins: they meet only in *)
(* node.stopping, in spawn.process and in the daemon itself.  A turn of the *)
(* event loop is one action, or an action and those that finish its turn.   *)
(*                                                                         *)
(* Whether a daemon runs on the data directory is decided by the pid file   *)
(* that bitcoind writes some time after it starts and removes when it stops *)
(* in order: the file may be missing though a daemon runs, or name one that *)
(* crashed.  That the system gives a pid of the file to another program is  *)
(* not modelled.                                                           *)
(*                                                                         *)
(* One Tick is 5 s, the time base of spawnRestartTime (5 s),               *)
(* startRetryInterval (5 s), spawnStopTime (10 s) and shutdownTimeout       *)
(* (15 s).  What the event loop has ready it does before time passes.       *)
(***************************************************************************)
EXTENDS Integers, Sequences, FiniteSets

CONSTANTS
    Services,        \* names of services
    Bitcoind,        \* the service that spawns the daemon
    Configs,         \* [services |-> names in the order of the configuration,
                     \*  dependencies |-> the dependencies of each service]
    RestartTime, RetryInterval, SpawnStopTime, ShutdownTimeout,   \* in ticks
    Tries,           \* 60 in the code: attempts to reach a daemon
    MaxExits,        \* bounds: unexpected exits of the daemon,
    MaxFaults        \* uncaught exceptions, services that fail to start, spawns
                     \* that end in an error

Config == [services: Seq(Services), dependencies: [Services -> Seq(Services)]]

Elements(s) == {s[i] : i \in 1..Len(s)}

DependsOn(c, s) == Elements(c.dependencies[s])

\* Dependencies are configured, and there is no cycle among them.
ASSUME ConfigAssumption ==
    /\ Bitcoind \in Services /\ IsFiniteSet(Services)
    /\ Configs \subseteq Config
    /\ \A c \in Configs :
          /\ \A s \in Elements(c.services) : DependsOn(c, s) \subseteq Elements(c.services)
          /\ \E rank \in [Services -> 0..Cardinality(Services)] :
                \A s \in Services : \A t \in DependsOn(c, s) : rank[t] < rank[s]

ASSUME TimeAssumption ==
    /\ {RestartTime, RetryInterval, SpawnStopTime, ShutdownTimeout, Tries} \subseteq Nat \ {0}
    /\ {MaxExits, MaxFaults} \subseteq Nat

\* The daemons this process spawns, and 0, one left by an earlier process.
Pids == 0..(MaxExits + 1)
Spawnable == Pids \ {0}

-----------------------------------------------------------------------------
(* getServiceOrder.                                                        *)

\* mutant: a service goes on the stack before its dependencies
DependentsFirst(c) ==
    LET Add[names \in Seq(Services)] ==
            [stack \in Seq(Services) |->
                IF names = <<>> THEN stack
                ELSE LET name == Head(names)
                         here == IF name \in Elements(stack) THEN stack ELSE Append(stack, name)
                     IN  Add[Tail(names)][Add[c.dependencies[name]][here]]]
    IN  Add[c.services][<<>>]

\* addToStack, from the names to the stack it makes of one: first the
\* dependencies of a name, then the name, unless it is there already.
ServiceOrder(c) ==
    LET Add[names \in Seq(Services)] ==
            [stack \in Seq(Services) |->
                IF names = <<>> THEN stack
                ELSE LET name == Head(names)
                         below == Add[c.dependencies[name]][stack]
                     IN  Add[Tail(names)][IF name \in Elements(below) THEN below
                                          ELSE Append(below, name)]]
    IN  Add[c.services][<<>>]

StopInOrder(c) == ServiceOrder(c)  \* mutant: without reverse()
StopOrder(c) ==
    LET order == ServiceOrder(c)
    IN  [i \in 1..Len(order) |-> order[Len(order) + 1 - i]]

-----------------------------------------------------------------------------
VARIABLES
    config,
    process,       \* "up" or "gone"
    faults, exits,   \* what the environment has done so far
    \* node.js
    toStart,       \* the services start() has not dealt with
    startPc,       \* "next", "starting", "ready" or "failed"
    loaded,        \* node.services: set before the service starts
    started,       \* services whose start called back
    stopping,      \* node.stopping
    stopped,       \* services told to stop
    \* start.js
    shuttingDown,
    runs,          \* the calls of node.stop under way, in the order they began
    \* bitcoind.js and the daemon
    launch,        \* the next spawn: "none", "timer", "check" or "wait"
    launchIn,      \* ... and when
    spawned,       \* how often a daemon was spawned; its pid is the number of the spawn
    handle,        \* spawn.process, 0 for none
    attempt,       \* of the spawn that made a daemon: "none", "try", "asked", "sleep",
                   \* "up", "aborted" or "given up"
    attemptIn, triesLeft,
    alive,         \* daemons running
    signalled,     \* daemons sent SIGINT
    pidFile        \* the pid in bitcoind.pid; {} is no file, or one without a number

environment == <<faults, exits>>
node        == <<toStart, startPc, loaded, started>>
shutdown    == <<stopping, stopped, shuttingDown, runs>>
launching   == <<launch, launchIn, spawned, handle>>
attempts    == <<attempt, attemptIn, triesLeft>>
daemon      == <<alive, signalled, pidFile>>
vars == <<config, process, environment, node, shutdown, launching, attempts, daemon>>

Init ==
    /\ config \in Configs
    /\ process = "up" /\ faults = 0 /\ exits = 0
    /\ toStart = ServiceOrder(config) /\ startPc = "next"
    /\ loaded = {} /\ started = {}
    /\ stopping = FALSE /\ stopped = {} /\ shuttingDown = FALSE /\ runs = <<>>
    /\ launch = "none" /\ launchIn = 0 /\ spawned = 0 /\ handle = 0
    /\ attempt = [p \in Spawnable |-> "none"]
    /\ attemptIn = [p \in Spawnable |-> 0]
    /\ triesLeft = [p \in Spawnable |-> Tries]
    /\ alive \in {{}, {0}} /\ signalled = {} /\ pidFile \in {{}, {0}}

\* The event loop is free: no callback is in the middle of starting a service,
\* of an attempt to reach the daemon, or of a call of stop.
Free == /\ process = "up" /\ startPc # "next"
        /\ \A p \in Spawnable : attempt[p] # "try"
        /\ \A i \in DOMAIN runs : runs[i].pc \notin {"begin", "exited"}

-----------------------------------------------------------------------------
(* node.stop, called from three places of start.js.                        *)

\* `had`: the services that were loaded when the call began
Run == [left: Seq(Services), pc: {"begin", "next", "wait", "exited"}, child: Pids,
        in: 0..ShutdownTimeout, had: SUBSET Services]

BeginStop ==
    /\ stopping' = TRUE
    /\ runs' = Append(runs, [left |-> StopOrder(config), pc |-> "begin", child |-> 0,
                             in |-> 0, had |-> loaded])

Sigint ==
    /\ Free /\ ~ shuttingDown
    /\ shuttingDown' = TRUE
    /\ BeginStop
    /\ UNCHANGED <<config, process, environment, node, stopped, launching, attempts, daemon>>

\* An exception stops the node whether or not a stop is under way.
Throw ==
    /\ Free /\ faults < MaxFaults /\ faults' = faults + 1
    /\ BeginStop
    /\ UNCHANGED <<config, process, exits, node, stopped, shuttingDown, launching,
                   attempts, daemon>>

\* node.start calls back with an error: cleanShutdown
StartError ==
    /\ startPc' = "failed"
    /\ BeginStop
    /\ UNCHANGED <<toStart, loaded, started, stopped, shuttingDown>>

-----------------------------------------------------------------------------
(* node.start                                                              *)

StartNext ==
    /\ process = "up" /\ startPc = "next" /\ toStart # <<>>
    /\ startPc' = "starting"
    /\ loaded' = loaded \union {Head(toStart)}
    /\ launch' = IF Head(toStart) = Bitcoind THEN "check" ELSE launch
    /\ UNCHANGED <<config, process, environment, toStart, started, shutdown, launchIn, spawned,
                   handle, attempts, daemon>>

StartsNext ==
    /\ startPc' = "next"
    /\ started' = started \union {Head(toStart)}
    /\ toStart' = Tail(toStart)
    /\ UNCHANGED loaded

\* A service other than bitcoind
ServiceStarted ==
    /\ Free /\ startPc = "starting" /\ Head(toStart) # Bitcoind
    /\ StartsNext
    /\ UNCHANGED <<config, process, environment, shutdown, launching, attempts, daemon>>

\* An error of its start, or the name of an API method that is taken
ServiceFails ==
    /\ Free /\ startPc = "starting" /\ Head(toStart) # Bitcoind
    /\ faults < MaxFaults /\ faults' = faults + 1
    /\ StartError
    /\ UNCHANGED <<config, process, exits, launching, attempts, daemon>>

Ready ==
    /\ process = "up" /\ startPc = "next" /\ toStart = <<>>
    /\ startPc' = "ready"
    /\ UNCHANGED <<config, process, environment, toStart, loaded, started, shutdown, launching,
                   attempts, daemon>>

-----------------------------------------------------------------------------
(* _spawnChildProcess, for the start of the service and for every restart. *)

\* The daemon that the pid file names, when it runs.
Other == pidFile \intersect alive

\* _stopSpawnedBitcoin: a daemon that the pid file names is told to stop, and
\* looked for again spawnStopTime later.
StopOther ==
    /\ Free /\ launch = "check" /\ Other # {}
    /\ signalled' = signalled \union Other
    /\ launch' = "wait" /\ launchIn' = SpawnStopTime
    /\ UNCHANGED <<config, process, environment, node, shutdown, spawned, handle, attempts,
                   alive, pidFile>>

\* mutant: after ESRCH it calls back, and looks again as well
StillLooking == IF pidFile = {} THEN "none" ELSE "wait"
LookedUp == "none"

\* There is no pid file, no number in it, or no process of that pid.  When the
\* spawn fails ('error') the process has no exit either, and the rest goes on.
Spawn ==
    /\ Free /\ launch = "check" /\ Other = {}
    /\ spawned + 1 \in Spawnable
    /\ spawned' = spawned + 1 /\ handle' = spawned'
    /\ \/ alive' = alive \union {spawned'} /\ UNCHANGED faults
       \/ faults < MaxFaults /\ faults' = faults + 1 /\ UNCHANGED alive
    /\ attempt' = [attempt EXCEPT ![spawned'] = "try"]
    /\ launch' = LookedUp
    /\ UNCHANGED <<config, process, exits, node, shutdown, launchIn, attemptIn, triesLeft,
                   signalled, pidFile>>

\* The spawn of daemon p ends in an error.  The first one is the start of the
\* service; the error of a restart is only logged.
SpawnError(p) ==
    IF p = 1 THEN StartError ELSE UNCHANGED <<node, shutdown>>

\* The configuration is refused, the pid file cannot be read, or the process it
\* names cannot be signalled: nothing is spawned, and nothing tries again.
LaunchFails ==
    /\ Free /\ launch = "check"
    /\ faults < MaxFaults /\ faults' = faults + 1
    /\ launch' = "none"
    /\ SpawnError(spawned + 1)
    /\ UNCHANGED <<config, process, exits, launchIn, spawned, handle, attempts, daemon>>

Try(p) ==
    /\ process = "up" /\ attempt[p] = "try"
    /\ attempt' = [attempt EXCEPT ![p] = IF stopping THEN "aborted" ELSE "asked"]
    /\ IF stopping THEN SpawnError(p) ELSE UNCHANGED <<node, shutdown>>
    /\ UNCHANGED <<config, process, environment, launching, attemptIn, triesLeft, daemon>>

\* _loadTipFromNode: whichever daemon has the port answers.
Answered(p) ==
    /\ Free /\ attempt[p] = "asked" /\ alive # {}
    /\ attempt' = [attempt EXCEPT ![p] = "up"]
    /\ IF p = 1 THEN StartsNext ELSE UNCHANGED node
    /\ UNCHANGED <<config, process, environment, shutdown, launching, attemptIn, triesLeft, daemon>>

\* The daemon answers, but _initChain fails.
ChainFails ==
    /\ Free /\ attempt[1] = "asked" /\ alive # {}
    /\ faults < MaxFaults /\ faults' = faults + 1
    /\ attempt' = [attempt EXCEPT ![1] = "up"]
    /\ StartError
    /\ UNCHANGED <<config, process, exits, launching, attemptIn, triesLeft, daemon>>

TriesOnceMore(p) == triesLeft[p] > 0  \* mutant: one attempt too many
TriesAgain(p) == triesLeft[p] > 1

Unanswered(p) ==
    /\ Free /\ attempt[p] = "asked"
    /\ triesLeft' = [triesLeft EXCEPT ![p] = @ - 1]
    /\ IF TriesAgain(p)
       THEN /\ attempt' = [attempt EXCEPT ![p] = "sleep"]
            /\ attemptIn' = [attemptIn EXCEPT ![p] = RetryInterval]
            /\ UNCHANGED <<node, shutdown>>
       ELSE /\ attempt' = [attempt EXCEPT ![p] = "given up"]
            /\ SpawnError(p) /\ UNCHANGED attemptIn
    /\ UNCHANGED <<config, process, environment, launching, daemon>>

NeverRestarted == FALSE  \* mutant: the exit handler does not restart
RestartsOnExit == ~ stopping

\* A daemon exits on SIGINT or on its own.  Its exit handlers: the restart of
\* the spawn, and the calls of stop that wait for it.
DaemonExits(p) ==
    /\ Free /\ p \in alive
    /\ \/ p \in signalled /\ UNCHANGED exits
       \/ p \notin signalled /\ exits < MaxExits /\ exits' = exits + 1
    /\ alive' = alive \ {p}
    /\ IF p # 0 /\ RestartsOnExit
       THEN launch' = "timer" /\ launchIn' = RestartTime
       ELSE UNCHANGED <<launch, launchIn>>
    /\ runs' = [i \in DOMAIN runs |->
                   IF p # 0 /\ runs[i].pc = "wait" /\ runs[i].child = p
                   THEN [runs[i] EXCEPT !.pc = "exited", !.in = 0] ELSE runs[i]]
    /\ UNCHANGED <<config, process, faults, node, stopping, stopped, shuttingDown,
                   spawned, handle, attempts, signalled, pidFile>>

\* bitcoind, which keeps a second one off its data directory
WritesPid(p) ==
    /\ Free /\ p \in alive \ signalled /\ Other = {}
    /\ pidFile' = {p}
    /\ UNCHANGED <<config, process, environment, node, shutdown, launching, attempts, alive,
                   signalled>>

RemovesPid(p) ==
    /\ Free /\ p \in alive \intersect signalled /\ pidFile = {p}
    /\ pidFile' = {}
    /\ UNCHANGED <<config, process, environment, node, shutdown, launching, attempts, alive,
                   signalled>>

-----------------------------------------------------------------------------
(* The calls of node.stop.                                                 *)

\* The process ends, and its chains of callbacks with it.
End ==
    /\ process' = "gone"
    /\ runs' = <<>> /\ launch' = "none" /\ launchIn' = 0
    /\ attemptIn' = [p \in Spawnable |-> 0]
    /\ UNCHANGED <<config, environment, node, stopping, stopped, shuttingDown, spawned, handle,
                   attempt, triesLeft, daemon>>

FirstChild == {1} \intersect alive  \* mutant: the process of the first spawn
Child == {handle} \intersect alive

\* bitcoind without a child calls back at once, and the series goes on in the
\* same turn.  With one it waits for the exit.  Every other stop, and the turn of
\* a service that is not loaded, calls back in a later turn.
AfterStop(run, left) ==
    IF Head(left) # Bitcoind \/ Bitcoind \notin loaded
    THEN [run EXCEPT !.pc = "next", !.left = Tail(left)]
    ELSE IF handle = 0
    THEN [run EXCEPT !.pc = "begin", !.left = Tail(left)]
    ELSE [run EXCEPT !.pc = "wait", !.left = left, !.child = handle, !.in = ShutdownTimeout]

\* The series of call i goes on with the services `left`: it stops the next one,
\* if it is loaded, or ends the process when there is none.
Proceed(i, left) ==
    IF left = <<>>
    THEN End
    ELSE /\ stopped' = stopped \union (loaded \intersect {Head(left)})
         /\ runs' = [runs EXCEPT ![i] = AfterStop(@, left)]
         /\ signalled' = IF runs'[i].pc = "wait" THEN signalled \union Child ELSE signalled
         /\ UNCHANGED <<config, process, environment, node, stopping, shuttingDown, launching,
                        attempts, alive, pidFile>>

StopService(i) ==
    /\ runs[i].pc = "begin" \/ (Free /\ runs[i].pc = "next")
    /\ Proceed(i, runs[i].left)

\* The daemon exited with status 0, so the next service is stopped; or with
\* another, so the process ends.
ChildExited(i) ==
    /\ runs[i].pc = "exited"
    /\ Proceed(i, Tail(runs[i].left)) \/ End

NoTimeout(i) == FALSE  \* mutant: stop only waits for the exit
TimedOut(i) == runs[i].pc = "wait" /\ runs[i].in = 0

\* 'bitcoind process did not exit'
ShutdownTimesOut(i) ==
    /\ Free /\ TimedOut(i)
    /\ End

-----------------------------------------------------------------------------
(* Time.                                                                   *)

\* The restart loads the configuration again, and with it begins a new this.spawn.
RestartTimer ==
    /\ Free /\ launch = "timer" /\ launchIn = 0
    /\ launch' = "check" /\ handle' = 0
    /\ UNCHANGED <<config, process, environment, node, shutdown, launchIn, spawned, attempts,
                   daemon>>

LookAgain ==
    /\ Free /\ launch = "wait" /\ launchIn = 0
    /\ launch' = "check"
    /\ UNCHANGED <<config, process, environment, node, shutdown, launchIn, spawned, handle,
                   attempts, daemon>>

AttemptTimer(p) ==
    /\ Free /\ attempt[p] = "sleep" /\ attemptIn[p] = 0
    /\ attempt' = [attempt EXCEPT ![p] = "try"]
    /\ UNCHANGED <<config, process, environment, node, shutdown, launching, attemptIn, triesLeft,
                   daemon>>

Starting == StartNext \/ ServiceStarted \/ Ready
Launching == StopOther \/ Spawn \/ RestartTimer \/ LookAgain
             \/ \E p \in Spawnable : Try(p) \/ AttemptTimer(p)
Stopping == \E i \in DOMAIN runs :
               StopService(i) \/ ChildExited(i) \/ ShutdownTimesOut(i)

\* Nothing is ready to run.
Idle ==
    /\ startPc = "starting" => Head(toStart) = Bitcoind
    /\ launch # "check" /\ (launch \in {"timer", "wait"} => launchIn > 0)
    /\ \A p \in Spawnable : attempt[p] = "sleep" => attemptIn[p] > 0
    /\ \A i \in DOMAIN runs : runs[i].pc = "wait" /\ runs[i].in > 0

Less(n) == IF n = 0 THEN 0 ELSE n - 1

Tick ==
    /\ Free /\ Idle
    /\ \/ launch \in {"timer", "wait"} \/ runs # <<>>
       \/ \E p \in Spawnable : attempt[p] = "sleep"
    /\ launchIn' = Less(launchIn)
    /\ attemptIn' = [p \in Spawnable |-> Less(attemptIn[p])]
    /\ runs' = [i \in DOMAIN runs |-> [runs[i] EXCEPT !.in = Less(@)]]
    /\ UNCHANGED <<config, process, environment, node, stopping, stopped, shuttingDown, launch,
                   spawned, handle, attempt, triesLeft, daemon>>

-----------------------------------------------------------------------------
Daemon == \E p \in Pids : DaemonExits(p) \/ WritesPid(p) \/ RemovesPid(p)
Rpc == \E p \in Spawnable : Answered(p) \/ Unanswered(p)
Environment == Sigint \/ Throw \/ ServiceFails \/ ChainFails \/ LaunchFails

Next == Starting \/ Launching \/ Stopping \/ Rpc \/ Daemon \/ Environment \/ Tick

\* The event loop runs what is ready, time passes, and every call of the daemon
\* comes back.  Nothing makes the daemon exit.
Spec == Init /\ [][Next]_vars
FairSpec == /\ Spec
            /\ WF_vars(Starting \/ Launching \/ Stopping) /\ WF_vars(Tick) /\ WF_vars(Rpc)

-----------------------------------------------------------------------------
\* The start of the node and what the environment did.
StartTypeOK ==
    /\ config \in Configs /\ process \in {"up", "gone"}
    /\ faults \in 0..MaxFaults /\ exits \in 0..MaxExits
    /\ toStart \in Seq(Services) /\ startPc \in {"next", "starting", "ready", "failed"}
    /\ startPc = "starting" => toStart # <<>>
    /\ loaded \subseteq Services /\ started \subseteq Services

ShutdownTypeOK ==
    /\ stopped \subseteq Services
    /\ stopping \in BOOLEAN /\ shuttingDown \in BOOLEAN
    /\ runs \in Seq(Run)

DaemonTypeOK ==
    /\ launch \in {"none", "timer", "check", "wait"} /\ launchIn \in Nat
    /\ spawned \in Pids /\ handle \in Pids
    /\ attempt \in [Spawnable -> {"none", "try", "asked", "sleep", "up", "aborted", "given up"}]
    /\ attemptIn \in [Spawnable -> Nat] /\ triesLeft \in [Spawnable -> 0..Tries]
    /\ alive \subseteq Pids /\ signalled \subseteq Pids /\ pidFile \subseteq Pids

\* Every variable keeps its type, and a chain of callbacks is where it can be.
TypeOK == StartTypeOK /\ ShutdownTypeOK /\ DaemonTypeOK

\* The chain of spawns and exits never has two daemons of its own, and the look at
\* the pid file before a restart never tells one of them to stop: the exit handler,
\* the restart timer and the look again take turns, however the file lags behind.
OneOwnDaemon ==
    /\ Cardinality(alive \ {0}) <= 1
    /\ signalled \subseteq {0} \/ stopping

\* A service is only created when everything it depends on has started, in
\* whatever order the configuration names them.
DependenciesStarted ==
    \A s \in loaded : DependsOn(config, s) \subseteq started

\* A service is told to stop only after those that use it, whatever calls of stop
\* overlap, also when they begin while services are starting: only one that was
\* created after a stop began may be missed.
DependentsStopFirst ==
    [][\A s \in stopped' \ stopped : \A t \in started :
          s \in DependsOn(config, t) /\ (\A i \in DOMAIN runs : t \in runs[i].had)
              => t \in stopped]_vars

\* No daemon this process waited for, or has, an answer from outlives it without
\* having been told to stop.
AnsweringDaemonToldToStop ==
    process = "gone" => \A p \in alive \ signalled :
        p # 0 => attempt[p] \in {"try", "aborted"}

\* What the documentation says of the service: it manages stopping bitcoind.
NoDaemonLeftBehind ==
    process = "gone" => \A p \in alive : p # 0 => p \in signalled

\* A stop ends the process, though the daemon hang, exit before it is told, or
\* be spawned meanwhile.
StopEnds == stopping ~> process = "gone"

\* A daemon that exits is replaced, unless the node stops or a call of the restart
\* fails: then the error is logged and no timer is set again.
DaemonComesBack ==
    (process = "up" /\ startPc = "ready" /\ alive = {} /\ Bitcoind \in started)
        ~> (alive # {} \/ stopping \/ faults > 0)
=============================================================================
