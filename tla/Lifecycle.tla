----------------------------- MODULE Lifecycle -----------------------------
(***************************************************************************)
(* One run of the gateway process: main, GatewayServer::Initialize and     *)
(* Run, the event loop's running flag, the logger's mutex, and the signal  *)
(* handler, which runs on the same thread in the middle of what it was     *)
(* doing.                                                                  *)
(*                                                                         *)
(* The thread is a stack of frames, main's first and a frame for each      *)
(* handler that has not returned.  A frame is the instructions it has      *)
(* left; the top frame executes its first one.                             *)
(*                                                                         *)
(* What the handlers do to the allocator, by building strings, is not in   *)
(* the model, nor are signals after EventLoop's destructor.                *)
(***************************************************************************)
EXTENDS Configuration, SequencesExt

CONSTANTS
  Launches,     (* environments, command lines, and whether the socket's   *)
                (* path fits sun_path: 1 to 107 bytes                      *)
  Interrupted,  (* bound: the launches in which signals arrive, each once  *)
  MaxEntries    (* bound: entries that the coroutines log                  *)

ASSUME LifecycleAssumption ==
  /\ Interrupted \subseteq Launches
  /\ MaxEntries \in Nat
  /\ \A l \in Launches :
       /\ IsEnvironment(l.environment) /\ l.fits \in BOOLEAN
       /\ l.arguments \in Seq(Range(l.arguments))
       /\ \A i \in DOMAIN l.arguments : IsArgument(l.arguments[i])

VARIABLES
  launch,       (* the environment, the arguments, the path's length       *)
  parsed,       (* arguments parsed                                        *)
  config,       (* Configuration's fields                                  *)
  stack,        (* the thread                                              *)
  running,      (* EventLoop::m_stdab8Running                              *)
  holder,       (* Logger::m_stdMutexWrite: the frame that holds it, or 0  *)
  logFile,      (* Logger::m_stdFileStream.is_open()                       *)
  written,      (* who wrote the entries on stdout, those put in the       *)
                (* file's stream, and those that are in the file           *)
  engine,       (* TokenEngine::m_bIsInitialized                           *)
  open,         (* the listeners with a descriptor                         *)
  socketFile,   (* the files there are: at the socket's path, "whole", and *)
                (* at as much of it as sun_path holds, "cut"               *)
  caught,       (* the signals whose handler is installed                  *)
  arrived,      (* history: the signals that arrived                       *)
  entries,      (* entries the coroutines logged                           *)
  exit          (* "none", "0", "1", "killed" or "aborted"                 *)

vars == << launch, parsed, config, stack, running, holder, logFile, written,
           engine, open, socketFile, caught, arrived, entries, exit >>

Signals == {"SIGINT", "SIGTERM"}

Do(what) == [do |-> what]

(* An argument of LogMessage; "any" stands for LogRequest, LogBackendEvent *)
(* and LogAuthEvent, which no level holds back.                            *)
Log(level) == [do |-> "log", level |-> level]

(* ~GatewayServer: the destructors of the members that log, last first.    *)
Destructors(code) ==
  << Do("close_unix"), Do("close_tcp"), Do("stop"), Log("info"), Do(code) >>

(* main, Initialize and Run.                                               *)
Main ==
  << Do("environment"), Do("arguments"), Do("logger"), Log("info"),
     Do("epoll"), Do("tokens"), Do("tcp"), Do("unix"), Log("info"),
     Do("SIGINT"), Do("SIGTERM"), Log("info"), Do("run"), Do("loop"),
     Log("info") >> \o Destructors("0")

(* The event loop goes on: a plausible bug.                                *)
HandleSignalWithoutStop == << Log("info"), Log("info"), Do("return") >>

(* HandleSignal, with EventLoop::Stop.                                     *)
HandleSignal == << Log("info"), Do("stop"), Log("info"), Do("return") >>

(* The entry is written without the mutex: a plausible bug.                *)
WriteWithoutLock == << Do("print"), Do("append") >>

(* Logger::WriteLogEntry.                                                  *)
WriteLogEntry == << Do("lock"), Do("print"), Do("append"), Do("unlock") >>

(* The name that bind gives to the socket.                                 *)
Bound == IF launch.fits THEN "whole" ELSE "cut"

Init ==
  /\ launch \in Launches
  /\ parsed = 0
  /\ config = Defaults
  /\ stack = << [who |-> "main", todo |-> Main] >>
  /\ running = FALSE /\ holder = 0 /\ logFile = FALSE
  /\ written = [stdout |-> << >>, file |-> << >>, disk |-> << >>]
  /\ engine = FALSE /\ open = {} /\ socketFile \in SUBSET {"whole", Bound}
  /\ caught = {} /\ arrived = {} /\ entries = 0
  /\ exit = "none"

Top == stack[Len(stack)]

Instruction == Head(Top.todo)

At(what) == exit = "none" /\ Instruction.do = what

(* The top frame goes on, with more to do first.                           *)
Continue(more) ==
  stack' = [stack EXCEPT ![Len(stack)].todo = more \o Tail(@)]

(* Initialize returns false, and main ends.                                *)
Abandon(more) ==
  stack' = [stack EXCEPT ![Len(stack)].todo = more \o Destructors("1")]

----------------------------------------------------------------------------
(* Initialize.                                                             *)

LoadEnvironment ==
  /\ At("environment")
  /\ IF Throws(launch.environment)
     THEN exit' = "aborted" /\ UNCHANGED << config, stack >>
     ELSE /\ config' = LoadEnvironmentVariables(config, launch.environment)
          /\ Continue(<< >>)
          /\ UNCHANGED exit
  /\ UNCHANGED << launch, parsed, running, holder, logFile, written, engine,
                  open, socketFile, caught, arrived, entries >>

ParseNextArgument ==
  /\ At("arguments") /\ parsed < Len(launch.arguments)
  /\ LET argument == launch.arguments[parsed + 1]
     IN IF ArgumentThrows(argument)
        THEN exit' = "aborted" /\ UNCHANGED << config, parsed >>
        ELSE /\ config' = ParseArgument(config, argument)
             /\ parsed' = parsed + 1
             /\ UNCHANGED exit
  /\ UNCHANGED << launch, stack, running, holder, logFile, written, engine,
                  open, socketFile, caught, arrived, entries >>

ArgumentsParsed ==
  /\ At("arguments") /\ parsed = Len(launch.arguments)
  /\ Continue(<< >>)
  /\ UNCHANGED << launch, parsed, config, running, holder, logFile, written,
                  engine, open, socketFile, caught, arrived, entries, exit >>

(* A file that does not open is no failure.                                *)
InitializeLogger ==
  /\ At("logger")
  /\ logFile' \in BOOLEAN
  /\ Continue(<< >>)
  /\ UNCHANGED << launch, parsed, config, running, holder, written, engine,
                  open, socketFile, caught, arrived, entries, exit >>

InitializeEventLoop ==
  /\ At("epoll")
  /\ Continue(<< Log("info") >>) \/ Abandon(<< Log("error") >>)
  /\ UNCHANGED << launch, parsed, config, running, holder, logFile, written,
                  engine, open, socketFile, caught, arrived, entries, exit >>

(* Without a key, or without AF_ALG, the gateway goes on without tokens.   *)
(* AesGcm, TokenEngine and main each have an entry for a success.          *)
InitializeTokenEngine ==
  /\ At("tokens")
  /\ \/ /\ config.loaded
        /\ engine' = TRUE
        /\ Continue(<< Log("info"), Log("info"), Log("info") >>)
     \/ /\ config.loaded
        /\ Continue(<< Log("error"), Log("warning") >>)
        /\ UNCHANGED engine
     \/ ~ config.loaded /\ Continue(<< Log("warning") >>) /\ UNCHANGED engine
  /\ UNCHANGED << launch, parsed, config, running, holder, logFile, written,
                  open, socketFile, caught, arrived, entries, exit >>

(* UnixSocketListener::Bind: unlink, of the whole path, may fail; bind     *)
(* makes a file at as much of the path as sun_path holds, and fails if     *)
(* there is one.                                                           *)
BindPath(bound) ==
  \E rest \in {socketFile, socketFile \ {"whole"}} :
    IF bound THEN Bound \notin rest /\ socketFile' = rest \cup {Bound}
             ELSE socketFile' = rest

(* Bind and Listen.  A failed socket, address or bind leaves no            *)
(* descriptor; a failed SetNonBlocking, and a failed listen, leave it      *)
(* open.                                                                   *)
BindAndListen(listener) ==
  /\ At(listener)
  /\ \/ /\ open' = open \cup {listener}
        /\ \/ Continue(<< Log("info"), Log("info") >>)
           \/ Abandon(<< >>)
           \/ Abandon(<< Log("info"), Log("error") >>)
     \/ Abandon(<< Log("error") >>) /\ UNCHANGED open
  /\ IF listener = "unix" THEN BindPath("unix" \in open') ELSE UNCHANGED socketFile
  /\ UNCHANGED << launch, parsed, config, running, holder, logFile, written,
                  engine, caught, arrived, entries, exit >>

----------------------------------------------------------------------------
(* Run, the event loop, and the way out.                                   *)

CatchSignal(signal) ==
  /\ At(signal)
  /\ caught' = caught \cup {signal}
  /\ Continue(<< >>)
  /\ UNCHANGED << launch, parsed, config, running, holder, logFile, written,
                  engine, open, socketFile, arrived, entries, exit >>

(* EventLoop::Run's first line.                                            *)
StartLoop ==
  /\ At("run")
  /\ running' = TRUE
  /\ Continue(<< >>)
  /\ UNCHANGED << launch, parsed, config, holder, logFile, written, engine,
                  open, socketFile, caught, arrived, entries, exit >>

(* A turn of the loop in which a coroutine logs; other turns change        *)
(* nothing here.                                                           *)
CoroutineLogs(level) ==
  /\ At("loop") /\ running /\ entries < MaxEntries
  /\ entries' = entries + 1
  /\ stack' = [stack EXCEPT ![Len(stack)].todo = << Log(level) >> \o @]
  /\ UNCHANGED << launch, parsed, config, running, holder, logFile, written,
                  engine, open, socketFile, caught, arrived, exit >>

LeaveLoop ==
  /\ At("loop") /\ ~ running
  /\ Continue(<< >>)
  /\ UNCHANGED << launch, parsed, config, running, holder, logFile, written,
                  engine, open, socketFile, caught, arrived, entries, exit >>

(* EventLoop::Stop, in a handler or in the destructor, before it logs.     *)
Stop ==
  /\ At("stop")
  /\ running' = FALSE
  /\ Continue(<< >>)
  /\ UNCHANGED << launch, parsed, config, holder, logFile, written, engine,
                  open, socketFile, caught, arrived, entries, exit >>

(* The path is not unlinked: a plausible bug.                              *)
ClosedWithoutUnlink(listener) ==
  /\ open' = open \ {listener}
  /\ Continue(IF listener \in open THEN << Log("info") >> ELSE << >>)
  /\ UNCHANGED socketFile

(* UnixSocketListener::Close unlinks the whole path.                       *)
Closed(listener) ==
  IF listener \in open
  THEN /\ open' = open \ {listener}
       /\ socketFile' = IF listener = "unix" THEN socketFile \ {"whole"} ELSE socketFile
       /\ Continue(<< Log("info") >>)
  ELSE Continue(<< >>) /\ UNCHANGED << open, socketFile >>

CloseListener(listener) ==
  /\ At(IF listener = "unix" THEN "close_unix" ELSE "close_tcp")
  /\ Closed(listener)
  /\ UNCHANGED << launch, parsed, config, running, holder, logFile, written,
                  engine, caught, arrived, entries, exit >>

(* exit runs ~Logger, which closes the stream: what it holds goes to the   *)
(* file.                                                                   *)
Exit(code) ==
  /\ At(code)
  /\ exit' = code
  /\ written' = [written EXCEPT !.disk = written.file]
  /\ UNCHANGED << launch, parsed, config, stack, running, holder, logFile,
                  engine, open, socketFile, caught, arrived, entries >>

----------------------------------------------------------------------------
(* The logger.                                                             *)

(* The level is ignored: a plausible bug.                                  *)
PassesAlways(level) == TRUE

Passes(level) == level = "any" \/ Severity(level) >= Severity(config.level)

LogMessage ==
  /\ At("log")
  /\ Continue(IF Passes(Instruction.level) THEN WriteLogEntry ELSE << >>)
  /\ UNCHANGED << launch, parsed, config, running, holder, logFile, written,
                  engine, open, socketFile, caught, arrived, entries, exit >>

(* std::mutex is not recursive: a frame that finds it held by one below    *)
(* waits for ever.                                                         *)
Lock ==
  /\ At("lock") /\ holder = 0
  /\ holder' = Len(stack)
  /\ Continue(<< >>)
  /\ UNCHANGED << launch, parsed, config, running, logFile, written, engine,
                  open, socketFile, caught, arrived, entries, exit >>

PrintEntry ==
  /\ At("print")
  /\ written' = IF config.stdout
                THEN [written EXCEPT !.stdout = Append(@, Top.who)]
                ELSE written
  /\ Continue(<< >>)
  /\ UNCHANGED << launch, parsed, config, running, holder, logFile, engine,
                  open, socketFile, caught, arrived, entries, exit >>

(* The stream is never flushed: its buffer, when full, goes to the file    *)
(* with the entry that did not fit.                                        *)
AppendToFile ==
  /\ At("append")
  /\ IF logFile
     THEN LET file == Append(written.file, Top.who)
          IN \E disk \in {written.disk, file} :
               written' = [written EXCEPT !.file = file, !.disk = disk]
     ELSE UNCHANGED written
  /\ Continue(<< >>)
  /\ UNCHANGED << launch, parsed, config, running, holder, logFile, engine,
                  open, socketFile, caught, arrived, entries, exit >>

Unlock ==
  /\ At("unlock")
  /\ holder' = 0
  /\ Continue(<< >>)
  /\ UNCHANGED << launch, parsed, config, running, logFile, written, engine,
                  open, socketFile, caught, arrived, entries, exit >>

----------------------------------------------------------------------------
(* Signals.                                                                *)

(* Without a handler the signal ends the process.                          *)
Signal(signal) ==
  /\ exit = "none" /\ launch \in Interrupted /\ signal \notin arrived
  /\ Head(stack[1].todo).do \notin {"0", "1"}
  /\ arrived' = arrived \cup {signal}
  /\ IF signal \in caught
     THEN /\ stack' = Append(stack, [who |-> signal, todo |-> HandleSignal])
          /\ UNCHANGED exit
     ELSE exit' = "killed" /\ UNCHANGED stack
  /\ UNCHANGED << launch, parsed, config, running, holder, logFile, written,
                  engine, open, socketFile, caught, entries >>

Return ==
  /\ At("return")
  /\ stack' = SubSeq(stack, 1, Len(stack) - 1)
  /\ UNCHANGED << launch, parsed, config, running, holder, logFile, written,
                  engine, open, socketFile, caught, arrived, entries, exit >>

(* What the thread does by itself.                                         *)
Execute ==
  \/ LoadEnvironment \/ ParseNextArgument \/ ArgumentsParsed
  \/ InitializeLogger \/ InitializeEventLoop \/ InitializeTokenEngine
  \/ \E listener \in {"tcp", "unix"} :
        BindAndListen(listener) \/ CloseListener(listener)
  \/ \E signal \in Signals : CatchSignal(signal)
  \/ StartLoop \/ LeaveLoop \/ Stop \/ Return
  \/ \E code \in {"0", "1"} : Exit(code)
  \/ LogMessage \/ Lock \/ PrintEntry \/ AppendToFile \/ Unlock

Next ==
  \/ Execute
  \/ \E level \in Range(Levels) \cup {"any"} : CoroutineLogs(level)
  \/ \E signal \in Signals : Signal(signal)

Spec == Init /\ [][Next]_vars

(* The thread runs: its steps do not block, and epoll_wait returns within  *)
(* 100 ms.  Coroutines need not log, nor signals arrive.                   *)
FairSpec == Spec /\ WF_vars(Execute)

----------------------------------------------------------------------------
(* Properties.                                                             *)

(* The fields have their types; the port is a uint16_t, whatever number    *)
(* it was given.                                                           *)
TypeOK ==
  /\ launch \in Launches
  /\ parsed \in 0 .. Len(launch.arguments)
  /\ config.port \in 0 .. Word - 1
  /\ config.level \in Range(Levels)
  /\ config.stdout \in BOOLEAN /\ config.loaded \in BOOLEAN
  /\ Len(stack) \in 1 .. 3 /\ \A i \in DOMAIN stack : stack[i].todo # << >>
  /\ holder \in 0 .. Len(stack)
  /\ {running, logFile, engine} \subseteq BOOLEAN
  /\ socketFile \subseteq {"whole", Bound}
  /\ open \subseteq {"tcp", "unix"}
  /\ caught \subseteq Signals /\ arrived \subseteq Signals
  /\ entries \in 0 .. MaxEntries
  /\ exit \in {"none", "0", "1", "killed", "aborted"}

Configured ==
  \A i \in DOMAIN stack[1].todo :
    stack[1].todo[i].do \notin {"environment", "arguments"}

(* Once the arguments are parsed, each setting is what the documented      *)
(* precedence makes of the flags, the files and the environment, whatever  *)
(* their number and order; unless a --config comes after a flag and gives  *)
(* its setting again, where the code goes by the order of the arguments.   *)
EffectiveSettings ==
  Configured =>
    \A setting \in {"port", "address", "level", "stdout"} :
      FlagsLast(launch, setting) =>
        config[setting] = Effective(launch, setting)

(* The token engine gets a key only when some source gives a whole one;    *)
(* and the key is the last such, whole, unless a later text, well-formed   *)
(* at first, broke off and left its bytes in it.                           *)
KeyWholeUnlessBroken ==
  Configured /\ (config.loaded \/ engine) =>
    LET sources == Sources(launch)
        whole   == KeyTexts(sources)
    IN /\ whole # {}
       /\ \/ config.key = sources[Max(whole)].key
          \/ \E i \in BrokenKeyTexts(sources) : i > Max(whole)

(* The file's stream gets the entries that stdout gets, in the same order, *)
(* whatever handler runs between the two, and at most one less; the file   *)
(* holds a beginning of them, however the process ends, and all of them    *)
(* when it ends by itself.                                                 *)
LogsAgree ==
  config.stdout /\ logFile =>
    /\ IsPrefix(written.file, written.stdout)
    /\ Len(written.stdout) - Len(written.file) <= 1
    /\ IsPrefix(written.disk, written.file)
    /\ exit \in {"0", "1"} => written.disk = written.stdout

(* The thread waits for a mutex that no one will release.                  *)
Stuck == At("lock") /\ holder # 0

(* The handler's own entries are the danger: a logger that holds back      *)
(* entries of level info never blocks the thread, though the requests'     *)
(* entries pass it.                                                        *)
QuietSignalsNeverBlock ==
  Stuck => Severity(config.level) <= Severity("info")

(* A process that ends by itself, even one that failed half-way, leaves no *)
(* listener open, and one that served leaves no file at the socket's path, *)
(* if sun_path holds the path.                                             *)
LeavesNothingBehind ==
  /\ exit \in {"0", "1"} => open = {}
  /\ exit = "0" /\ launch.fits => socketFile = {}

(* A handler that runs while the loop's flag is set ends the process, or   *)
(* the thread is stuck.  (Before that, the flag is set over what the       *)
(* handler did, and the signal is lost.)                                   *)
StopsWhenAsked ==
  (running /\ Len(stack) > 1) ~> (exit # "none" \/ Stuck)
=============================================================================
