-------------------------- MODULE Lifecycle_proofs --------------------------
(***************************************************************************)
(* The invariants of Lifecycle, for all environments, files and command    *)
(* lines, and all signals.                                                 *)
(*                                                                         *)
(* A frame's instructions are what is left of WriteLogEntry, then calls of *)
(* the logger, then what is left of the frame's program.  The invariant    *)
(* says where in its program each frame is, and what main's place says of  *)
(* the settings, the listeners, the handlers and the log.                  *)
(***************************************************************************)
EXTENDS Lifecycle, FiniteSetTheorems, SequenceTheorems, WellFoundedInduction, TLAPS

----------------------------------------------------------------------------
(* Where the frames are.                                                   *)

Rest(program, k) == SubSeq(program, k, Len(program))

LogLevels == Range(Levels) \cup {"any"}

Logs == {Log(level) : level \in LogLevels}

LogLists == Seq(Logs)

Words ==
  {"environment", "arguments", "logger", "epoll", "tokens", "tcp",
   "unix", "SIGINT", "SIGTERM", "run", "loop", "close_unix", "close_tcp",
   "stop", "0", "1", "return", "lock", "print", "append", "unlock"}

Instructions == {Do(word) : word \in Words} \cup Logs

(* At place k of the program, with logs before it, and place j of          *)
(* WriteLogEntry before them; j = 5 is none of it.                         *)
Place(todo, program, k, j, logs) ==
  todo = Rest(WriteLogEntry, j) \o (logs \o Rest(program, k))

(* main's program up to an exit; the one that fails jumps to place 16.     *)
Program(code) == SubSeq(Main, 1, 15) \o Destructors(code)

(* The settings after the first n sources.                                 *)
DecidingUpTo(sources, n, setting) ==
  {i \in Deciding(sources, setting) : i <= n}

KeysUpTo(sources, n) == {i \in KeyTexts(sources) : i <= n}

EffectiveUpTo(sources, n, setting) ==
  LET deciding == DecidingUpTo(sources, n, setting)
  IN IF deciding = {} THEN Defaults[setting]
     ELSE Meaning(setting, sources[Max(deciding)][setting])

KeyUpTo(sources, n, key) ==
  \/ key = sources[Max(KeysUpTo(sources, n))].key
  \/ \E i \in BrokenKeyTexts(sources) : i <= n /\ i > Max(KeysUpTo(sources, n))

SettingNames == {"port", "address", "level", "stdout"}

LoadedUpTo(sources, c, n) ==
  /\ c.loaded = (KeysUpTo(sources, n) # {})
  /\ c.loaded => Max(KeysUpTo(sources, n)) \in KeysUpTo(sources, n)
  /\ c.loaded => KeyUpTo(sources, n, c.key)

SettingsUpTo(sources, c, n) ==
  /\ \A setting \in SettingNames : c[setting] = EffectiveUpTo(sources, n, setting)
  /\ LoadedUpTo(sources, c, n)

(* What it says of the state that main is at place k on the way to code.   *)
Reached(code, k) ==
  /\ code = "1" => k >= 16
  /\ k = 1 => config = Defaults /\ parsed = 0
  /\ k > 1 => SettingsUpTo(Sources(launch), config, parsed + 1)
  /\ k > 2 => parsed = Len(launch.arguments)
  /\ k <= 3 => written = [stdout |-> << >>, file |-> << >>, disk |-> << >>]
  /\ k <= 5 => ~ engine
  /\ k <= 7 => "tcp" \notin open
  /\ k <= 8 => "unix" \notin open
  /\ k > 16 => "unix" \notin open
  /\ k > 17 => "tcp" \notin open
  /\ code = "0" /\ k > 8 /\ "whole" \in socketFile => "unix" \in open
  /\ k <= 10 => caught = {}

MainFrame ==
  \E code \in {"0", "1"}, k \in 1 .. 20, j \in 1 .. 5, logs \in LogLists :
    /\ Place(stack[1].todo, Program(code), k, j, logs)
    /\ Reached(code, k)
    /\ k <= 3 => j = 5 /\ logs = << >>

HandlerFrame(i) ==
  \E k \in 1 .. 4, j \in 1 .. 5 :
    /\ Place(stack[i].todo, HandleSignal, k, j, << >>)
    /\ j < 5 => Severity(config.level) <= Severity("info")

IsConfig(c) ==
  /\ c = [port |-> c.port, address |-> c.address, level |-> c.level,
          stdout |-> c.stdout, key |-> c.key, loaded |-> c.loaded]
  /\ c.port \in 0 .. Word - 1 /\ c.level \in Range(Levels)
  /\ c.stdout \in BOOLEAN /\ c.loaded \in BOOLEAN
  /\ c.address = Malformed => c.address = ""

Kept ==
  /\ launch \in Launches /\ parsed \in 0 .. Len(launch.arguments)
  /\ IsConfig(config)
  /\ engine => config.loaded
  /\ running \in BOOLEAN /\ logFile \in BOOLEAN
  /\ engine \in BOOLEAN /\ socketFile \subseteq {"whole", Bound}
  /\ open \subseteq {"tcp", "unix"}
  /\ caught \subseteq Signals /\ arrived \subseteq Signals
  /\ entries \in 0 .. MaxEntries
  /\ exit \in {"none", "0", "1", "killed", "aborted"}

Frame == [who : {"main"} \cup Signals, todo : Seq(Instructions)]

Frames ==
  /\ stack \in Seq(Frame)
  /\ stack # << >>
  /\ MainFrame
  /\ \A i \in 2 .. Len(stack) :
       /\ HandlerFrame(i)
       /\ stack[i].who \in arrived \cap caught
       /\ \A h \in 2 .. Len(stack) : stack[h].who = stack[i].who => h = i

(* The frame that is inside WriteLogEntry's lock_guard holds the mutex.    *)
Inside(i) == Head(stack[i].todo).do \in {"print", "append", "unlock"}

Mutex ==
  /\ holder \in 0 .. Len(stack)
  /\ \A i \in 1 .. Len(stack) : Inside(i) <=> holder = i

Ledger ==
  /\ written = [stdout |-> written.stdout, file |-> written.file,
                disk |-> written.disk]
  /\ written.stdout \in Seq({"main"} \cup Signals)
  /\ written.file \in Seq({"main"} \cup Signals)
  /\ written.disk \in Seq({"main"} \cup Signals)
  /\ IsPrefix(written.disk, written.file)
  /\ config.stdout /\ logFile =>
       written.stdout =
         IF holder # 0 /\ Head(stack[holder].todo).do = "append"
         THEN Append(written.file, stack[holder].who)
         ELSE written.file

(* What a process that ended by itself has done.                           *)
Ended ==
  /\ LeavesNothingBehind
  /\ exit \in {"0", "1"} => written.disk = written.file /\ holder = 0

IInv == Kept /\ Frames /\ Mutex /\ Ledger /\ Ended

----------------------------------------------------------------------------
(* The settings.                                                           *)

(* What one source makes of the settings.                                  *)
Gives(source, setting) ==
  /\ setting \in DOMAIN source
  /\ setting = "level" => source.level # Malformed

Applied(c, d, source) ==
  /\ IsConfig(d)
  /\ \A setting \in SettingNames :
       d[setting] = IF Gives(source, setting)
                    THEN Meaning(setting, source[setting]) ELSE c[setting]
  /\ d.loaded = (c.loaded \/ ("key" \in DOMAIN source /\ Whole(source.key)))
  /\ d.key = IF "key" \in DOMAIN source
             THEN ParseHexString(c.key, source.key) ELSE c.key

LEMMA PortInWord ==
  ASSUME NEW text \in Int \cup {Malformed}
  PROVE  Port(text) \in 0 .. Word - 1
  BY ConfigurationAssumption DEF Port

LEMMA PortIsNumber ==
  ASSUME NEW port \in 0 .. Word - 1
  PROVE  port \in Int
  BY ConfigurationAssumption

LEMMA PortKept ==
  ASSUME NEW port \in 0 .. Word - 1
  PROVE  Port(port) = port
  BY ConfigurationAssumption DEF Port

LEMMA WithKeyMeans ==
  ASSUME NEW c, NEW text, IsConfig(c)
  PROVE  WithKey(c, text) =
           [port |-> c.port, address |-> c.address, level |-> c.level,
            stdout |-> c.stdout, key |-> ParseHexString(c.key, text),
            loaded |-> (c.loaded \/ Whole(text))]
<1>1. c = [port |-> c.port, address |-> c.address, level |-> c.level,
           stdout |-> c.stdout, key |-> c.key, loaded |-> c.loaded]
  BY DEF IsConfig
<1> DEFINE key == ParseHexString(c.key, text)
           loaded == c.loaded \/ Whole(text)
           d == [c EXCEPT !.key = key]
<1>2. d = [port |-> c.port, address |-> c.address, level |-> c.level,
           stdout |-> c.stdout, key |-> key, loaded |-> c.loaded]
  <2> HIDE DEF key
  <2> QED  BY <1>1
<1>3. WithKey(c, text) = [c EXCEPT !.key = key, !.loaded = loaded]
  BY Zenon DEF WithKey
<1>4. WithKey(c, text) = [d EXCEPT !.loaded = loaded]
  BY <1>3, Zenon
<1> HIDE DEF key, loaded, d
<1>5. WithKey(c, text) = [port |-> c.port, address |-> c.address, level |-> c.level,
                          stdout |-> c.stdout, key |-> key, loaded |-> loaded]
  BY <1>2, <1>4
<1> QED
  BY <1>5, Zenon DEF key, loaded

(* LEVELS: a level that is none leaves the level alone.                    *)
LEMMA WithLevelMeans ==
  ASSUME NEW c, NEW text \in Range(Levels) \cup {Malformed},
         NEW p, NEW a, NEW l \in Range(Levels), NEW s, NEW k, NEW b,
         c = [port |-> p, address |-> a, level |-> l, stdout |-> s, key |-> k,
              loaded |-> b]
  PROVE  WithLevel(c, text) =
           [port |-> p, address |-> a,
            level |-> (IF text = Malformed THEN l ELSE text),
            stdout |-> s, key |-> k, loaded |-> b]
  BY DEF WithLevel

(* The fields after the settings that an environment gives.                *)
LEMMA EnvironmentMeans ==
  ASSUME NEW c, IsConfig(c), NEW source, IsEnvironment(source), ~ Throws(source)
  PROVE  Applied(c, LoadEnvironmentVariables(c, source), source)
<1> DEFINE key == IF "key" \in DOMAIN source
                  THEN ParseHexString(c.key, source.key) ELSE c.key
           loaded == IF "key" \in DOMAIN source
                     THEN c.loaded \/ Whole(source.key) ELSE c.loaded
           c1 == IF "key" \in DOMAIN source THEN WithKey(c, source.key) ELSE c
           port == Port(Given(source, "port", c.port))
           address == Given(source, "address", c.address)
           c2 == [c1 EXCEPT !.port = port]
           c3 == [c2 EXCEPT !.address = address]
           text == Given(source, "level", c.level)
           level == IF text = Malformed THEN c.level ELSE text
           d == LoadEnvironmentVariables(c, source)
<1>1. c = [port |-> c.port, address |-> c.address, level |-> c.level,
           stdout |-> c.stdout, key |-> c.key, loaded |-> c.loaded]
      /\ c.port \in 0 .. Word - 1 /\ c.level \in Range(Levels)
      /\ c.stdout \in BOOLEAN /\ c.loaded \in BOOLEAN
      /\ (c.address = Malformed => c.address = "")
  BY DEF IsConfig
<1>2. c1 = [port |-> c.port, address |-> c.address, level |-> c.level,
            stdout |-> c.stdout, key |-> key, loaded |-> loaded]
  <2>1. CASE "key" \in DOMAIN source
    BY <2>1, WithKeyMeans, Zenon
  <2>2. CASE "key" \notin DOMAIN source
    BY <2>2, <1>1, Zenon
  <2> QED  BY <2>1, <2>2
<1>3. c1.level = c.level /\ c1.port = c.port /\ c1.address = c.address
  <2> HIDE DEF key, loaded, c1
  <2> QED  BY <1>2
<1>4. d = WithLevel([c1 EXCEPT !.port = port, !.address = address], text)
  BY <1>3, Zenon DEF LoadEnvironmentVariables
<1>5. d = WithLevel(c3, text)
  BY <1>4, Zenon
<1>6. text \in Range(Levels) \cup {Malformed}
  BY <1>1 DEF IsEnvironment, IsSource, Given
<1>7. port \in 0 .. Word - 1
  <2>1. Given(source, "port", c.port) \in Int \cup {Malformed}
    <3>1. "port" \in DOMAIN source => source["port"] \in Int \cup {Malformed}
      BY Zenon DEF IsEnvironment, IsSource
    <3>2. c.port \in Int
      BY <1>1, PortIsNumber, Zenon
    <3> QED  BY <3>1, <3>2, Zenon DEF Given
  <2> QED  BY <2>1, PortInWord, Zenon
<1>8. /\ port = IF Gives(source, "port") THEN Meaning("port", source["port"]) ELSE c.port
  BY <1>1, PortKept DEF Gives, Meaning, Given
<1>9. /\ address = IF Gives(source, "address") THEN Meaning("address", source["address"])
                   ELSE c.address
      /\ (address = Malformed => address = "")
  BY <1>1 DEF Gives, Meaning, Given, IsEnvironment
<1>10. level = (IF Gives(source, "level") THEN Meaning("level", source["level"])
                ELSE c.level)
  BY <1>1 DEF Gives, Meaning, Given
<1>11. c.stdout = (IF Gives(source, "stdout") THEN Meaning("stdout", source["stdout"])
                   ELSE c.stdout)
  BY DEF Gives, IsEnvironment
<1>12. loaded = (c.loaded \/ ("key" \in DOMAIN source /\ Whole(source.key)))
       /\ loaded \in BOOLEAN
  BY <1>1, Zenon
<1>13. level \in Range(Levels)
  BY <1>6, <1>1
<1> HIDE DEF key, loaded, c1, port, address, text, level, d
<1>14. c2 = [port |-> port, address |-> c.address, level |-> c.level,
             stdout |-> c.stdout, key |-> key, loaded |-> loaded]
  BY <1>2
<1> HIDE DEF c2
<1>15. c3 = [port |-> port, address |-> address, level |-> c.level,
             stdout |-> c.stdout, key |-> key, loaded |-> loaded]
  BY <1>14
<1> HIDE DEF c3
<1>16. d = [port |-> port, address |-> address, level |-> level,
            stdout |-> c.stdout, key |-> key, loaded |-> loaded]
  <2>1. c.level \in Range(Levels)
    BY <1>1
  <2>2. WithLevel(c3, text) =
          [port |-> port, address |-> address,
           level |-> (IF text = Malformed THEN c.level ELSE text),
           stdout |-> c.stdout, key |-> key, loaded |-> loaded]
    BY <2>1, <1>6, <1>15, WithLevelMeans
  <2> QED  BY <2>2, <1>5, Zenon DEF level
<1>17. d["port"] = port /\ d["address"] = address /\ d["level"] = level
       /\ d["stdout"] = c["stdout"] /\ d.key = key /\ d.loaded = loaded
  BY <1>16
<1>18. IsConfig(d)
  BY <1>1, <1>7, <1>9, <1>12, <1>13, <1>16 DEF IsConfig
<1>19. \A setting \in SettingNames :
         d[setting] = IF Gives(source, setting)
                      THEN Meaning(setting, source[setting]) ELSE c[setting]
  BY <1>17, <1>8, <1>9, <1>10, <1>11 DEF SettingNames
<1> QED
  BY <1>12, <1>17, <1>18, <1>19, Zenon DEF Applied, key, d

(* The fields after the settings that a file gives.                        *)
LEMMA FileMeans ==
  ASSUME NEW c, IsConfig(c), NEW source, IsSource(source), source # Malformed
  PROVE  Applied(c, LoadFromFile(c, source), source)
<1> DEFINE key == IF "key" \in DOMAIN source
                  THEN ParseHexString(c.key, source.key) ELSE c.key
           loaded == IF "key" \in DOMAIN source
                     THEN c.loaded \/ Whole(source.key) ELSE c.loaded
           c1 == IF "key" \in DOMAIN source THEN WithKey(c, source.key) ELSE c
           port == Port(Given(source, "port", c.port))
           given == Given(source, "address", c.address)
           address == IF given = Malformed THEN "" ELSE given
           stdout == Given(source, "stdout", c.stdout) = TRUE
           c2 == [c1 EXCEPT !.port = port]
           c3 == [c2 EXCEPT !.address = address]
           c4 == [c3 EXCEPT !.stdout = stdout]
           text == Given(source, "level", c.level)
           level == IF text = Malformed THEN c.level ELSE text
           d == LoadFromFile(c, source)
<1>1. c = [port |-> c.port, address |-> c.address, level |-> c.level,
           stdout |-> c.stdout, key |-> c.key, loaded |-> c.loaded]
      /\ c.port \in 0 .. Word - 1 /\ c.level \in Range(Levels)
      /\ c.stdout \in BOOLEAN /\ c.loaded \in BOOLEAN
      /\ (c.address = Malformed => c.address = "")
  BY DEF IsConfig
<1>2. c1 = [port |-> c.port, address |-> c.address, level |-> c.level,
            stdout |-> c.stdout, key |-> key, loaded |-> loaded]
  <2>1. CASE "key" \in DOMAIN source
    BY <2>1, WithKeyMeans, Zenon
  <2>2. CASE "key" \notin DOMAIN source
    BY <2>2, <1>1, Zenon
  <2> QED  BY <2>1, <2>2
<1>3. c1.level = c.level /\ c1.port = c.port /\ c1.address = c.address
      /\ c1.stdout = c.stdout
  <2> HIDE DEF key, loaded, c1
  <2> QED  BY <1>2
<1>4. d = WithLevel([c1 EXCEPT !.port = port, !.address = address,
                               !.stdout = stdout], text)
  BY <1>3, Zenon DEF LoadFromFile
<1>5. d = WithLevel(c4, text)
  BY <1>4, Zenon
<1>6. text \in Range(Levels) \cup {Malformed}
  BY <1>1 DEF IsSource, Given
<1>7. port \in 0 .. Word - 1
  <2>1. Given(source, "port", c.port) \in Int \cup {Malformed}
    <3>1. "port" \in DOMAIN source => source["port"] \in Int \cup {Malformed}
      BY Zenon DEF IsSource
    <3>2. c.port \in Int
      BY <1>1, PortIsNumber, Zenon
    <3> QED  BY <3>1, <3>2, Zenon DEF Given
  <2> QED  BY <2>1, PortInWord, Zenon
<1>8. port = IF Gives(source, "port") THEN Meaning("port", source["port"]) ELSE c.port
  BY <1>1, PortKept DEF Gives, Meaning, Given
<1>9. /\ address = IF Gives(source, "address") THEN Meaning("address", source["address"])
                   ELSE c.address
      /\ address = Malformed => address = ""
  BY <1>1 DEF Gives, Meaning, Given
<1>10. level = (IF Gives(source, "level") THEN Meaning("level", source["level"])
                ELSE c.level)
  BY <1>1 DEF Gives, Meaning, Given
<1>11. stdout = (IF Gives(source, "stdout") THEN Meaning("stdout", source["stdout"])
                 ELSE c.stdout)
       /\ stdout \in BOOLEAN
  BY <1>1 DEF Gives, Meaning, Given
<1>12. loaded = (c.loaded \/ ("key" \in DOMAIN source /\ Whole(source.key)))
       /\ loaded \in BOOLEAN
  BY <1>1, Zenon
<1>13. level \in Range(Levels)
  BY <1>6, <1>1
<1> HIDE DEF key, loaded, c1, port, given, address, stdout, text, level, d
<1>14. c2 = [port |-> port, address |-> c.address, level |-> c.level,
             stdout |-> c.stdout, key |-> key, loaded |-> loaded]
  BY <1>2
<1> HIDE DEF c2
<1>15. c3 = [port |-> port, address |-> address, level |-> c.level,
             stdout |-> c.stdout, key |-> key, loaded |-> loaded]
  BY <1>14
<1> HIDE DEF c3
<1>16. c4 = [port |-> port, address |-> address, level |-> c.level,
             stdout |-> stdout, key |-> key, loaded |-> loaded]
  BY <1>15
<1> HIDE DEF c4
<1>17. d = [port |-> port, address |-> address, level |-> level,
            stdout |-> stdout, key |-> key, loaded |-> loaded]
  <2>1. c.level \in Range(Levels)
    BY <1>1
  <2>2. WithLevel(c4, text) =
          [port |-> port, address |-> address,
           level |-> (IF text = Malformed THEN c.level ELSE text),
           stdout |-> stdout, key |-> key, loaded |-> loaded]
    BY <2>1, <1>6, <1>16, WithLevelMeans
  <2> QED  BY <2>2, <1>5, Zenon DEF level
<1>18. d["port"] = port /\ d["address"] = address /\ d["level"] = level
       /\ d["stdout"] = stdout /\ d.key = key /\ d.loaded = loaded
  BY <1>17
<1>19. IsConfig(d)
  BY <1>7, <1>9, <1>11, <1>12, <1>13, <1>17 DEF IsConfig
<1>20. \A setting \in SettingNames :
         d[setting] = IF Gives(source, setting)
                      THEN Meaning(setting, source[setting]) ELSE c[setting]
  BY <1>18, <1>8, <1>9, <1>10, <1>11 DEF SettingNames
<1> QED
  <2>1. d.loaded = (c.loaded \/ ("key" \in DOMAIN source /\ Whole(source.key)))
    BY <1>12, <1>18, Zenon
  <2>2. d.key = IF "key" \in DOMAIN source
                THEN ParseHexString(c.key, source.key) ELSE c.key
    BY <1>18, Zenon DEF key
  <2>3. Applied(c, d, source)
    BY <1>19, <1>20, <2>1, <2>2, Zenon DEF Applied
  <2> QED  BY <2>3 DEF d

(* One that gives nothing leaves them.                                     *)
LEMMA NothingMeans ==
  ASSUME NEW c, IsConfig(c), NEW source, DOMAIN source = {}
  PROVE  Applied(c, c, source)
<1>1. c.loaded \in BOOLEAN
  BY DEF IsConfig
<1> QED
  BY <1>1, Zenon DEF Applied, Gives

(* A flag that gives one setting.                                          *)
LEMMA FlagMeans ==
  ASSUME NEW c, IsConfig(c), NEW flag \in SettingNames, NEW text, NEW value,
         NEW d, IsConfig(d), d[flag] = value,
         \A x \in SettingNames \cup {"key", "loaded"} : x # flag => d[x] = c[x],
         NEW source, DOMAIN source = {flag}, source[flag] = text,
         flag = "level" /\ text = Malformed => value = c.level,
         ~ (flag = "level" /\ text = Malformed) => value = Meaning(flag, text)
  PROVE  Applied(c, d, source)
<1>1. c.loaded \in BOOLEAN
  BY DEF IsConfig
<1>2. "key" \notin DOMAIN source /\ d.key = c.key /\ d.loaded = c.loaded
  BY DEF SettingNames
<1>3. ASSUME NEW setting \in SettingNames
      PROVE  d[setting] = IF Gives(source, setting)
                          THEN Meaning(setting, source[setting]) ELSE c[setting]
  <2>1. CASE setting # flag
    BY <2>1, Zenon DEF Gives
  <2>2. CASE setting = flag /\ flag = "level" /\ text = Malformed
    BY <2>2, Zenon DEF Gives
  <2>3. CASE setting = flag /\ ~ (flag = "level" /\ text = Malformed)
    BY <2>3, Zenon DEF Gives
  <2> QED  BY <2>1, <2>2, <2>3
<1> QED
  BY <1>1, <1>2, <1>3, Zenon DEF Applied

LEMMA OneFieldReplaced ==
  ASSUME NEW p, NEW a, NEW l, NEW s, NEW k, NEW b, NEW value, NEW c,
         c = [port |-> p, address |-> a, level |-> l, stdout |-> s, key |-> k,
              loaded |-> b]
  PROVE  /\ [c EXCEPT !["port"] = value] =
              [port |-> value, address |-> a, level |-> l, stdout |-> s,
               key |-> k, loaded |-> b]
         /\ [c EXCEPT !["address"] = value] =
              [port |-> p, address |-> value, level |-> l, stdout |-> s,
               key |-> k, loaded |-> b]
         /\ [c EXCEPT !["level"] = value] =
              [port |-> p, address |-> a, level |-> value, stdout |-> s,
               key |-> k, loaded |-> b]
         /\ [c EXCEPT !["stdout"] = value] =
              [port |-> p, address |-> a, level |-> l, stdout |-> value,
               key |-> k, loaded |-> b]
<1>1. [c EXCEPT !["port"] = value] =
              [port |-> value, address |-> a, level |-> l, stdout |-> s,
               key |-> k, loaded |-> b]
  OBVIOUS
<1>2. [c EXCEPT !["address"] = value] =
              [port |-> p, address |-> value, level |-> l, stdout |-> s,
               key |-> k, loaded |-> b]
  OBVIOUS
<1>3. [c EXCEPT !["level"] = value] =
              [port |-> p, address |-> a, level |-> value, stdout |-> s,
               key |-> k, loaded |-> b]
  OBVIOUS
<1>4. [c EXCEPT !["stdout"] = value] =
              [port |-> p, address |-> a, level |-> l, stdout |-> value,
               key |-> k, loaded |-> b]
  OBVIOUS
<1> QED  BY <1>1, <1>2, <1>3, <1>4, Zenon

LEMMA ArgumentMeans ==
  ASSUME NEW c, IsConfig(c), NEW argument, IsArgument(argument),
         ~ ArgumentThrows(argument)
  PROVE  Applied(c, ParseArgument(c, argument), SourceOf(argument))
<1>0. PICK p, a, l, s, k, b :
        c = [port |-> p, address |-> a, level |-> l, stdout |-> s, key |-> k,
             loaded |-> b]
  BY DEF IsConfig
<1>1. /\ p \in 0 .. Word - 1 /\ l \in Range(Levels)
      /\ s \in BOOLEAN /\ b \in BOOLEAN
      /\ a = Malformed => a = ""
      /\ c.level = l
  BY <1>0 DEF IsConfig
<1>2. CASE argument.flag = "other"
  <2>1. ParseArgument(c, argument) = c /\ SourceOf(argument) = << >>
    BY <1>2 DEF ParseArgument, SourceOf
  <2>2. DOMAIN << >> = {}
    OBVIOUS
  <2> QED  BY <2>1, <2>2, NothingMeans, Zenon
<1>3. CASE argument.flag = "config" /\ argument.text = Malformed
  <2>1. ParseArgument(c, argument) = c /\ SourceOf(argument) = << >>
    BY <1>3 DEF ParseArgument, SourceOf, LoadFromFile
  <2>2. DOMAIN << >> = {}
    OBVIOUS
  <2> QED  BY <2>1, <2>2, NothingMeans, Zenon
<1>4. CASE argument.flag = "config" /\ argument.text # Malformed
  <2>1. /\ ParseArgument(c, argument) = LoadFromFile(c, argument.text)
        /\ SourceOf(argument) = argument.text
    BY <1>4 DEF ParseArgument, SourceOf, ArgumentThrows
  <2>2. IsSource(argument.text)
    BY <1>4 DEF IsArgument, ArgumentThrows
  <2> QED  BY <2>1, <2>2, <1>4, FileMeans, Zenon
<1>5. CASE argument.flag = "port"
  <2> DEFINE port == Port(argument.text)
  <2>1. /\ ParseArgument(c, argument) = [c EXCEPT !["port"] = port]
        /\ SourceOf(argument) = [setting \in {"port"} |-> argument.text]
    BY <1>5 DEF ParseArgument, SourceOf
  <2>2. port \in 0 .. Word - 1
    <3>1. argument.text \in Int \cup {Malformed}
      BY <1>5 DEF IsArgument
    <3> QED  BY <3>1, PortInWord, Zenon
  <2>3. port = Meaning("port", argument.text)
    BY DEF Meaning
  <2> HIDE DEF port
  <2>4. IsConfig([c EXCEPT !["port"] = port])
    <3> DEFINE d == [c EXCEPT !["port"] = port]
    <3>1. d = [port |-> port, address |-> a, level |-> l, stdout |-> s,
                key |-> k, loaded |-> b]
      BY <1>0, OneFieldReplaced
    <3> HIDE DEF d
    <3>2. IsConfig(d)
      BY <1>1, <2>2, <3>1 DEF IsConfig
    <3> QED  BY <3>2, Zenon DEF d
  <2>5. "port" \in SettingNames /\ "port" # "level"
    BY DEF SettingNames
  <2>6. IsConfig(ParseArgument(c, argument))
    BY <2>1, <2>4, Zenon
  <2>7. /\ "port" = "level" /\ argument.text = Malformed => port = c.level
        /\ ~ ("port" = "level" /\ argument.text = Malformed)
             => port = Meaning("port", argument.text)
    BY <2>3, <2>5, Zenon
  <2>8. /\ ParseArgument(c, argument)["port"] = port
         /\ \A x \in SettingNames \cup {"key", "loaded"} :
              x # "port" => ParseArgument(c, argument)[x] = c[x]
    <3> DEFINE d == [c EXCEPT !["port"] = port]
    <3>1. d = [port |-> port, address |-> a, level |-> l, stdout |-> s,
               key |-> k, loaded |-> b]
      BY <1>0, OneFieldReplaced
    <3> HIDE DEF d
    <3>2. /\ d["port"] = port
          /\ \A x \in SettingNames \cup {"key", "loaded"} : x # "port" => d[x] = c[x]
      BY <1>0, <3>1 DEF SettingNames
    <3> QED  BY <2>1, <3>2, Zenon DEF d
  <2>9. /\ DOMAIN SourceOf(argument) = {"port"}
         /\ SourceOf(argument)["port"] = argument.text
    BY <2>1, Zenon
  <2> QED  BY <2>5, <2>6, <2>7, <2>8, <2>9, FlagMeans
<1>6. CASE argument.flag = "address"
  <2> DEFINE address == argument.text
  <2>1. /\ ParseArgument(c, argument) = [c EXCEPT !["address"] = address]
        /\ SourceOf(argument) = [setting \in {"address"} |-> argument.text]
    BY <1>6 DEF ParseArgument, SourceOf
  <2>2. address # Malformed
    BY <1>6 DEF IsArgument
  <2>3. address = Meaning("address", argument.text)
    BY <2>2 DEF Meaning
  <2> HIDE DEF address
  <2>4. IsConfig([c EXCEPT !["address"] = address])
    <3> DEFINE d == [c EXCEPT !["address"] = address]
    <3>1. d = [port |-> p, address |-> address, level |-> l, stdout |-> s,
                key |-> k, loaded |-> b]
      BY <1>0, OneFieldReplaced
    <3> HIDE DEF d
    <3>2. IsConfig(d)
      BY <1>1, <2>2, <3>1 DEF IsConfig
    <3> QED  BY <3>2, Zenon DEF d
  <2>5. "address" \in SettingNames /\ "address" # "level"
    BY DEF SettingNames
  <2>6. IsConfig(ParseArgument(c, argument))
    BY <2>1, <2>4, Zenon
  <2>7. /\ "address" = "level" /\ argument.text = Malformed => address = c.level
        /\ ~ ("address" = "level" /\ argument.text = Malformed)
             => address = Meaning("address", argument.text)
    BY <2>3, <2>5, Zenon
  <2>8. /\ ParseArgument(c, argument)["address"] = address
         /\ \A x \in SettingNames \cup {"key", "loaded"} :
              x # "address" => ParseArgument(c, argument)[x] = c[x]
    <3> DEFINE d == [c EXCEPT !["address"] = address]
    <3>1. d = [port |-> p, address |-> address, level |-> l, stdout |-> s,
               key |-> k, loaded |-> b]
      BY <1>0, OneFieldReplaced
    <3> HIDE DEF d
    <3>2. /\ d["address"] = address
          /\ \A x \in SettingNames \cup {"key", "loaded"} : x # "address" => d[x] = c[x]
      BY <1>0, <3>1 DEF SettingNames
    <3> QED  BY <2>1, <3>2, Zenon DEF d
  <2>9. /\ DOMAIN SourceOf(argument) = {"address"}
         /\ SourceOf(argument)["address"] = argument.text
    BY <2>1, Zenon
  <2> QED  BY <2>5, <2>6, <2>7, <2>8, <2>9, FlagMeans
<1>7. CASE argument.flag = "stdout"
  <2> DEFINE stdout == argument.text
  <2>1. /\ ParseArgument(c, argument) = [c EXCEPT !["stdout"] = stdout]
        /\ SourceOf(argument) = [setting \in {"stdout"} |-> argument.text]
    BY <1>7 DEF ParseArgument, SourceOf
  <2>2. stdout \in BOOLEAN
    BY <1>7 DEF IsArgument
  <2>3. stdout = Meaning("stdout", argument.text)
    BY <2>2 DEF Meaning
  <2> HIDE DEF stdout
  <2>4. IsConfig([c EXCEPT !["stdout"] = stdout])
    <3> DEFINE d == [c EXCEPT !["stdout"] = stdout]
    <3>1. d = [port |-> p, address |-> a, level |-> l, stdout |-> stdout,
                key |-> k, loaded |-> b]
      BY <1>0, OneFieldReplaced
    <3> HIDE DEF d
    <3>2. IsConfig(d)
      BY <1>1, <2>2, <3>1 DEF IsConfig
    <3> QED  BY <3>2, Zenon DEF d
  <2>5. "stdout" \in SettingNames /\ "stdout" # "level"
    BY DEF SettingNames
  <2>6. IsConfig(ParseArgument(c, argument))
    BY <2>1, <2>4, Zenon
  <2>7. /\ "stdout" = "level" /\ argument.text = Malformed => stdout = c.level
        /\ ~ ("stdout" = "level" /\ argument.text = Malformed)
             => stdout = Meaning("stdout", argument.text)
    BY <2>3, <2>5, Zenon
  <2>8. /\ ParseArgument(c, argument)["stdout"] = stdout
         /\ \A x \in SettingNames \cup {"key", "loaded"} :
              x # "stdout" => ParseArgument(c, argument)[x] = c[x]
    <3> DEFINE d == [c EXCEPT !["stdout"] = stdout]
    <3>1. d = [port |-> p, address |-> a, level |-> l, stdout |-> stdout,
               key |-> k, loaded |-> b]
      BY <1>0, OneFieldReplaced
    <3> HIDE DEF d
    <3>2. /\ d["stdout"] = stdout
          /\ \A x \in SettingNames \cup {"key", "loaded"} : x # "stdout" => d[x] = c[x]
      BY <1>0, <3>1 DEF SettingNames
    <3> QED  BY <2>1, <3>2, Zenon DEF d
  <2>9. /\ DOMAIN SourceOf(argument) = {"stdout"}
         /\ SourceOf(argument)["stdout"] = argument.text
    BY <2>1, Zenon
  <2> QED  BY <2>5, <2>6, <2>7, <2>8, <2>9, FlagMeans
<1>8. CASE argument.flag = "level"
  <2> DEFINE level == IF argument.text = Malformed THEN c.level ELSE argument.text
  <2>1. argument.text \in Range(Levels) \cup {Malformed}
    BY <1>8 DEF IsArgument
  <2>2. /\ ParseArgument(c, argument) = WithLevel(c, argument.text)
        /\ SourceOf(argument) = [setting \in {"level"} |-> argument.text]
    BY <1>8 DEF ParseArgument, SourceOf
  <2>3. WithLevel(c, argument.text) = [c EXCEPT !["level"] = level]
    <3>1. CASE argument.text = Malformed
      <4>1. c = [c EXCEPT !["level"] = c.level]
        BY <1>0, <1>1, OneFieldReplaced, Zenon
      <4> QED  BY <3>1, <4>1, Zenon DEF WithLevel
    <3>2. CASE argument.text # Malformed
      BY <3>2, Zenon DEF WithLevel
    <3> QED  BY <3>1, <3>2
  <2>4. level \in Range(Levels)
    BY <1>1, <2>1
  <2>5. /\ argument.text = Malformed => level = c.level
        /\ argument.text # Malformed => level = Meaning("level", argument.text)
    BY DEF Meaning
  <2> HIDE DEF level
  <2>6. IsConfig([c EXCEPT !["level"] = level])
    <3> DEFINE d == [c EXCEPT !["level"] = level]
    <3>1. d = [port |-> p, address |-> a, level |-> level, stdout |-> s,
                key |-> k, loaded |-> b]
      BY <1>0, OneFieldReplaced
    <3> HIDE DEF d
    <3>2. IsConfig(d)
      BY <1>1, <2>4, <3>1 DEF IsConfig
    <3> QED  BY <3>2, Zenon DEF d
  <2>7. "level" \in SettingNames
    BY DEF SettingNames
  <2>8. IsConfig(ParseArgument(c, argument))
    BY <2>2, <2>3, <2>6, Zenon
  <2>9. ParseArgument(c, argument) = [c EXCEPT !["level"] = level]
    BY <2>2, <2>3, Zenon
  <2>10. /\ ParseArgument(c, argument)["level"] = level
         /\ \A x \in SettingNames \cup {"key", "loaded"} :
              x # "level" => ParseArgument(c, argument)[x] = c[x]
    <3> DEFINE d == [c EXCEPT !["level"] = level]
    <3>1. d = [port |-> p, address |-> a, level |-> level, stdout |-> s,
               key |-> k, loaded |-> b]
      BY <1>0, OneFieldReplaced
    <3> HIDE DEF d
    <3>2. /\ d["level"] = level
          /\ \A x \in SettingNames \cup {"key", "loaded"} : x # "level" => d[x] = c[x]
      BY <1>0, <3>1 DEF SettingNames
    <3> QED  BY <2>9, <3>2, Zenon DEF d
  <2>11. /\ DOMAIN SourceOf(argument) = {"level"}
         /\ SourceOf(argument)["level"] = argument.text
    BY <2>2, Zenon
  <2> QED  BY <2>5, <2>7, <2>8, <2>10, <2>11, FlagMeans
<1>9. argument.flag \in {"config", "port", "address", "level", "stdout", "other"}
  BY DEF IsArgument
<1> QED
  BY <1>2, <1>3, <1>4, <1>5, <1>6, <1>7, <1>8, <1>9

(* The last of the members of a set that are no greater than n.            *)
LEMMA LastUpTo ==
  ASSUME NEW D, D \subseteq Nat, NEW n \in Nat
  PROVE  /\ n + 1 \in D => /\ {i \in D : i <= n + 1} # {}
                           /\ Max({i \in D : i <= n + 1}) = n + 1
         /\ n + 1 \notin D => {i \in D : i <= n + 1} = {i \in D : i <= n}
<1>1. ASSUME n + 1 \in D
      PROVE  Max({i \in D : i <= n + 1}) = n + 1
  <2> DEFINE S == {i \in D : i <= n + 1}
  <2>1. n + 1 \in S /\ \A y \in S : n + 1 >= y
    BY <1>1
  <2>2. \A x \in S : (\A y \in S : x >= y) => x = n + 1
    <3> SUFFICES ASSUME NEW x \in S, \A y \in S : x >= y
                 PROVE  x = n + 1
      OBVIOUS
    <3>1. x >= n + 1 /\ n + 1 >= x /\ x \in Nat
      BY <2>1
    <3> QED  BY <3>1
  <2> HIDE DEF S
  <2>3. Max(S) = n + 1
    BY <2>1, <2>2, Zenon DEF Max
  <2> QED  BY <2>3 DEF S
<1>2. ASSUME n + 1 \notin D
      PROVE  {i \in D : i <= n + 1} = {i \in D : i <= n}
  <2>1. \A i \in D : i <= n + 1 <=> i <= n
    BY <1>2
  <2> QED  BY <2>1
<1>3. n + 1 \in D => n + 1 \in {i \in D : i <= n + 1}
  OBVIOUS
<1> QED
  BY <1>1, <1>2, <1>3, Zenon

LEMMA SettingStep ==
  ASSUME NEW sources, DOMAIN sources \subseteq Nat, NEW n \in Nat,
         n + 1 \in DOMAIN sources, NEW c, NEW d,
         NEW setting \in SettingNames, c[setting] = EffectiveUpTo(sources, n, setting),
         d[setting] = IF Gives(sources[n + 1], setting)
                      THEN Meaning(setting, sources[n + 1][setting])
                      ELSE c[setting]
  PROVE  d[setting] = EffectiveUpTo(sources, n + 1, setting)
<1> DEFINE D == Deciding(sources, setting)
<1>1. D \subseteq Nat /\ (n + 1 \in D <=> Gives(sources[n + 1], setting))
  BY DEF Deciding, Gives
<1>2. /\ DecidingUpTo(sources, n + 1, setting) = {i \in D : i <= n + 1}
      /\ DecidingUpTo(sources, n, setting) = {i \in D : i <= n}
  BY Zenon DEF DecidingUpTo
<1> HIDE DEF D
<1>3. CASE n + 1 \in D
  <2>1. DecidingUpTo(sources, n + 1, setting) # {}
        /\ Max(DecidingUpTo(sources, n + 1, setting)) = n + 1
    BY <1>1, <1>2, <1>3, LastUpTo, Zenon
  <2> QED  BY <2>1, <1>1, <1>3, Zenon DEF EffectiveUpTo
<1>4. CASE n + 1 \notin D
  <2>1. DecidingUpTo(sources, n + 1, setting) = DecidingUpTo(sources, n, setting)
    BY <1>1, <1>2, <1>4, LastUpTo, Zenon
  <2> QED  BY <2>1, <1>1, <1>4, Zenon DEF EffectiveUpTo
<1> QED
  BY <1>3, <1>4

(* What the key is after one more source.                                  *)
LEMMA KeyStep ==
  ASSUME NEW sources, DOMAIN sources \subseteq Nat, NEW n \in Nat,
         n + 1 \in DOMAIN sources, IsSource(sources[n + 1]),
         NEW c, IsConfig(c), LoadedUpTo(sources, c, n),
         NEW d, Applied(c, d, sources[n + 1])
  PROVE  LoadedUpTo(sources, d, n + 1)
<1>0. /\ c.loaded \in BOOLEAN /\ d.loaded \in BOOLEAN
      /\ c.loaded = (KeysUpTo(sources, n) # {})
      /\ c.loaded => Max(KeysUpTo(sources, n)) \in KeysUpTo(sources, n)
      /\ c.loaded => KeyUpTo(sources, n, c.key)
      /\ d.loaded = (c.loaded \/ ("key" \in DOMAIN sources[n + 1]
                                  /\ Whole(sources[n + 1].key)))
      /\ d.key = IF "key" \in DOMAIN sources[n + 1]
                 THEN ParseHexString(c.key, sources[n + 1].key) ELSE c.key
  BY Zenon DEF IsConfig, Applied, LoadedUpTo
<1> DEFINE D == KeyTexts(sources)
           source == sources[n + 1]
           text == source.key
           B == BrokenKeyTexts(sources)
<1>1. /\ D \subseteq Nat /\ B \subseteq Nat
      /\ n + 1 \in D <=> "key" \in DOMAIN source /\ Whole(text)
      /\ n + 1 \in B <=> /\ "key" \in DOMAIN source
                        /\ text # Malformed /\ text.first # Malformed
                        /\ text.second = Malformed
  BY DEF KeyTexts, BrokenKeyTexts
<1>2. /\ KeysUpTo(sources, n + 1) = {i \in D : i <= n + 1}
      /\ KeysUpTo(sources, n) = {i \in D : i <= n}
  BY Zenon DEF KeysUpTo
<1>3. CASE n + 1 \in D
  <2>1. Max(KeysUpTo(sources, n + 1)) = n + 1 /\ n + 1 \in KeysUpTo(sources, n + 1)
    <3>1. n + 1 \in {i \in D : i <= n + 1}
      BY <1>3
    <3> HIDE DEF D
    <3> QED  BY <3>1, <1>1, <1>2, <1>3, LastUpTo, Zenon
  <2>2. "key" \in DOMAIN source /\ text # Malformed /\ text.first # Malformed
        /\ text.second # Malformed
    BY <1>1, <1>3, Zenon DEF Whole
  <2>3. text = [first |-> text.first, second |-> text.second]
    BY <2>2, Zenon DEF IsSource
  <2>4. d.key = text
    BY <1>0, <2>2, <2>3, <1>1, <1>3, Zenon DEF ParseHexString
  <2>5. KeyUpTo(sources, n + 1, d.key)
    BY <2>1, <2>4, Zenon DEF KeyUpTo
  <2> QED  BY <1>0, <2>1, <2>5, <1>1, <1>3, Zenon DEF LoadedUpTo
<1>4. CASE n + 1 \notin D
  <2>1. KeysUpTo(sources, n + 1) = KeysUpTo(sources, n)
    BY <1>1, <1>2, <1>4, LastUpTo, Zenon
  <2>2. d.loaded = c.loaded
    BY <1>0, <1>1, <1>4, Zenon
  <2>3. ASSUME d.loaded
        PROVE  KeyUpTo(sources, n + 1, d.key)
    <3>1. KeyUpTo(sources, n, c.key) /\ Max(KeysUpTo(sources, n)) \in KeysUpTo(sources, n)
      BY <1>0, <2>2, <2>3
    <3> DEFINE m == Max(KeysUpTo(sources, n))
    <3>2. m \in Nat /\ m <= n
      BY <3>1, <1>1, <1>2
    <3>3. CASE n + 1 \in B
      <4>1. n + 1 <= n + 1 /\ n + 1 > m
        BY <3>2
      <4> QED  BY <4>1, <3>3, <2>1, Zenon DEF KeyUpTo
    <3>4. CASE n + 1 \notin B
      <4>1. d.key = c.key
        <5>1. CASE "key" \notin DOMAIN source
          BY <1>0, <5>1, Zenon
        <5>2. CASE "key" \in DOMAIN source /\ text = Malformed
          BY <1>0, <5>2, Zenon DEF ParseHexString
        <5>3. CASE "key" \in DOMAIN source /\ text # Malformed
          <6>1. text.first = Malformed
            BY <5>3, <3>4, <1>1, <1>4, Zenon DEF Whole
          <6> QED  BY <1>0, <5>3, <6>1, Zenon DEF ParseHexString
        <5> QED  BY <5>1, <5>2, <5>3
      <4>2. CASE c.key = sources[m].key
        BY <4>1, <4>2, <2>1, Zenon DEF KeyUpTo
      <4>3. CASE c.key # sources[m].key
        <5>1. PICK i \in B : i <= n /\ i > m
          BY <4>3, <3>1, Zenon DEF KeyUpTo
        <5>2. i <= n + 1
          BY <5>1, <1>1
        <5> QED  BY <5>1, <5>2, <2>1, Zenon DEF KeyUpTo
      <4> QED  BY <4>2, <4>3
    <3> QED  BY <3>3, <3>4
  <2> QED  BY <1>0, <2>1, <2>2, <2>3, Zenon DEF LoadedUpTo
<1> QED
  BY <1>3, <1>4

(* One more source.                                                        *)
LEMMA SettingsStep ==
  ASSUME NEW sources, DOMAIN sources \subseteq Nat, NEW n \in Nat,
         n + 1 \in DOMAIN sources, IsSource(sources[n + 1]),
         NEW c, IsConfig(c), SettingsUpTo(sources, c, n),
         NEW d, Applied(c, d, sources[n + 1])
  PROVE  SettingsUpTo(sources, d, n + 1)
<1>1. \A setting \in SettingNames :
        d[setting] = EffectiveUpTo(sources, n + 1, setting)
  <2> SUFFICES ASSUME NEW setting \in SettingNames
               PROVE  d[setting] = EffectiveUpTo(sources, n + 1, setting)
    OBVIOUS
  <2>1. c[setting] = EffectiveUpTo(sources, n, setting)
    BY Zenon DEF SettingsUpTo
  <2>2. d[setting] = IF Gives(sources[n + 1], setting)
                     THEN Meaning(setting, sources[n + 1][setting])
                     ELSE c[setting]
    BY Zenon DEF Applied
  <2> QED  BY <2>1, <2>2, SettingStep
<1>2. LoadedUpTo(sources, d, n + 1)
  BY KeyStep DEF SettingsUpTo
<1> QED
  BY <1>1, <1>2, Zenon DEF SettingsUpTo

(* Before any source.                                                      *)
LEMMA SettingsAtFirst ==
  ASSUME NEW sources, DOMAIN sources \subseteq Nat \ {0}
  PROVE  SettingsUpTo(sources, Defaults, 0)
<1>1. \A setting : DecidingUpTo(sources, 0, setting) = {}
  <2>1. \A setting : Deciding(sources, setting) \subseteq Nat \ {0}
    BY DEF Deciding
  <2>2. \A i \in Nat \ {0} : ~ (i <= 0)
    OBVIOUS
  <2> QED  BY <2>1, <2>2, Zenon DEF DecidingUpTo
<1>2. KeysUpTo(sources, 0) = {}
  <2>1. KeyTexts(sources) \subseteq Nat \ {0}
    BY DEF KeyTexts
  <2>2. \A i \in Nat \ {0} : ~ (i <= 0)
    OBVIOUS
  <2> QED  BY <2>1, <2>2, Zenon DEF KeysUpTo
<1>3. Defaults.loaded = FALSE
  BY DEF Defaults
<1> QED
  BY <1>1, <1>2, <1>3, Zenon DEF SettingsUpTo, EffectiveUpTo, LoadedUpTo

LEMMA DefaultsTyped == IsConfig(Defaults)
<1>1. 8080 % Word \in 0 .. Word - 1
  BY ConfigurationAssumption
<1>2. "info" \in Range(Levels)
  <2>1. 2 \in DOMAIN Levels /\ Levels[2] = "info"
    BY DEF Levels
  <2> QED  BY <2>1, Zenon DEF Range
<1> DEFINE port == 8080 % Word
<1>3. /\ Defaults.port = port /\ Defaults.address = "0.0.0.0"
      /\ Defaults.level = "info" /\ Defaults.stdout = TRUE
      /\ Defaults.key = Blank /\ Defaults.loaded = FALSE
      /\ Defaults = [port |-> port, address |-> "0.0.0.0", level |-> "info",
                     stdout |-> TRUE, key |-> Blank, loaded |-> FALSE]
  BY DEF Defaults
<1>4. Malformed # "0.0.0.0"
  BY ConfigurationAssumption
<1> HIDE DEF port
<1>5. port \in 0 .. Word - 1
  BY <1>1 DEF port
<1> QED
  BY <1>2, <1>3, <1>4, <1>5, Zenon DEF IsConfig

(* The sources of a launch.                                                *)
LEMMA SourcesOfLaunch ==
  ASSUME NEW l \in Launches
  PROVE  /\ l.arguments \in Seq(Range(l.arguments))
         /\ Len(l.arguments) \in Nat
         /\ DOMAIN Sources(l) = 1 .. Len(l.arguments) + 1
         /\ Sources(l)[1] = l.environment
         /\ \A i \in 1 .. Len(l.arguments) :
              Sources(l)[i + 1] = SourceOf(l.arguments[i])
<1> DEFINE args == l.arguments
           n == Len(args)
           f == [i \in DOMAIN args |-> SourceOf(args[i])]
           S == {SourceOf(args[i]) : i \in 1 .. n}
           env == l.environment
<1>1. args \in Seq(Range(args))
  BY LifecycleAssumption
<1>2. n \in Nat /\ DOMAIN args = 1 .. n
  BY <1>1, LenProperties
<1>3. f = [i \in 1 .. n |-> SourceOf(args[i])]
  BY <1>2
<1> DEFINE g == [i \in 1 .. n |-> SourceOf(args[i])]
<1>4. \A i \in 1 .. n : g[i] \in S /\ g[i] = SourceOf(args[i])
  OBVIOUS
<1>5. Sources(l) = << env >> \o g
  BY <1>3, Zenon DEF Sources
<1>6. g \in [1 .. n -> S]
  BY <1>4
<1> HIDE DEF g, S, n, args, env
<1>7. g \in Seq(S) /\ Len(g) = n
  BY <1>2, <1>6
<1> DEFINE T == S \cup {env}
<1>8. << env >> \in Seq(T) /\ g \in Seq(T)
  BY <1>7
<1>9. /\ DOMAIN (<< env >> \o g) = 1 .. n + 1
      /\ (<< env >> \o g)[1] = env
      /\ \A i \in 1 .. n : (<< env >> \o g)[i + 1] = g[i]
  BY <1>2, <1>7, <1>8
<1>10. \A i \in 1 .. n : (<< env >> \o g)[i + 1] = SourceOf(args[i])
  BY <1>4, <1>9, Zenon
<1> QED
  BY <1>1, <1>2, <1>5, <1>9, <1>10, Zenon DEF n, args, env

LEMMA SourcesAreSources ==
  ASSUME NEW l \in Launches
  PROVE  /\ IsEnvironment(l.environment) /\ IsSource(l.environment)
         /\ \A i \in 1 .. Len(l.arguments) :
              /\ IsArgument(l.arguments[i])
              /\ IsSource(SourceOf(l.arguments[i]))
<1>1. IsEnvironment(l.environment)
  BY LifecycleAssumption
<1>2. ASSUME NEW i \in 1 .. Len(l.arguments)
      PROVE  IsArgument(l.arguments[i])
  <2>1. DOMAIN l.arguments = 1 .. Len(l.arguments)
    BY SourcesOfLaunch, LenProperties
  <2> QED  BY <2>1, LifecycleAssumption
<1>3. ASSUME NEW a, IsArgument(a)
      PROVE  IsSource(SourceOf(a))
  <2>1. CASE a.flag = "other" \/ (a.flag = "config" /\ a.text \in {Malformed, Garbled})
    <3>1. SourceOf(a) = << >>
      BY <2>1 DEF SourceOf
    <3>2. DOMAIN << >> = {}
      OBVIOUS
    <3> QED  BY <3>1, <3>2, Zenon DEF IsSource
  <2>2. CASE a.flag = "config" /\ a.text \notin {Malformed, Garbled}
    BY <2>2, <1>3 DEF SourceOf, IsArgument
  <2>3. CASE a.flag \in {"port", "address", "level", "stdout"}
    <3> DEFINE s == [setting \in {a.flag} |-> a.text]
    <3>1. SourceOf(a) = s
      BY <2>3 DEF SourceOf
    <3>2. DOMAIN s = {a.flag} /\ s[a.flag] = a.text
      OBVIOUS
    <3>3. a.flag = "port" => a.text \in Int \cup {Malformed}
      BY <1>3 DEF IsArgument
    <3>4. a.flag = "level" => a.text \in Range(Levels) \cup {Malformed}
      BY <1>3 DEF IsArgument
    <3> HIDE DEF s
    <3>5. "key" \notin DOMAIN s
      BY <3>2, <2>3
    <3>6. /\ "port" \in DOMAIN s => s["port"] \in Int \cup {Malformed}
          /\ "level" \in DOMAIN s => s["level"] \in Range(Levels) \cup {Malformed}
      BY <3>2, <3>3, <3>4, Zenon
    <3> QED  BY <3>1, <3>5, <3>6, Zenon DEF IsSource
  <2>4. a.flag \in {"config", "port", "address", "level", "stdout", "other"}
    BY <1>3 DEF IsArgument
  <2> QED  BY <2>1, <2>2, <2>3, <2>4
<1> QED
  BY <1>1, <1>2, <1>3, Zenon DEF IsEnvironment

----------------------------------------------------------------------------
(* Places in a program.                                                    *)

LEMMA LogIsInstruction ==
  /\ Log("info") \in Logs /\ Log("warning") \in Logs
  /\ Log("error") \in Logs
  /\ \A level \in LogLevels : Log(level) \in Logs
<1>1. "info" \in LogLevels /\ "warning" \in LogLevels /\ "error" \in LogLevels
  <2>1. /\ 2 \in DOMAIN Levels /\ Levels[2] = "info"
        /\ 3 \in DOMAIN Levels /\ Levels[3] = "warning"
        /\ 4 \in DOMAIN Levels /\ Levels[4] = "error"
    BY DEF Levels
  <2> QED  BY <2>1, Zenon DEF LogLevels, Range
<1> QED
  BY <1>1, Zenon DEF Logs

LEMMA LogsDo ==
  ASSUME NEW x \in Logs
  PROVE  x.do = "log" /\ x.level \in LogLevels /\ x = Log(x.level)
  BY DEF Logs, Log

LEMMA Tuple5 ==
  ASSUME NEW S, NEW a \in S, NEW b \in S, NEW c \in S, NEW d \in S, NEW e \in S
  PROVE  << a, b, c, d, e >> \in Seq(S)
  OBVIOUS

LEMMA Tuple15 ==
  ASSUME NEW S, NEW a \in S, NEW b \in S, NEW c \in S, NEW d \in S, NEW e \in S,
         NEW f \in S, NEW g \in S, NEW h \in S, NEW i \in S, NEW j \in S,
         NEW k \in S, NEW l \in S, NEW m \in S, NEW n \in S, NEW o \in S
  PROVE  << a, b, c, d, e, f, g, h, i, j, k, l, m, n, o >> \in Seq(S)
  OBVIOUS

(* Fifteen instructions and five.                                          *)
Joined(u, s, t) ==
  /\ u \in Seq(Instructions) /\ Len(u) = 20
  /\ \A i \in 1 .. 15 : u[i] = s[i]
  /\ \A i \in 1 .. 5 : u[15 + i] = t[i]

LEMMA Concat15 ==
  ASSUME NEW s \in Seq(Instructions), NEW t \in Seq(Instructions)
  PROVE  Len(s) = 15 /\ Len(t) = 5 => Joined(s \o t, s, t)
<1> DEFINE n == Len(s)
           m == Len(t)
           u == s \o t
<1>1. /\ u \in Seq(Instructions) /\ Len(u) = n + m
      /\ \A i \in 1 .. n + m : u[i] = IF i <= n THEN s[i] ELSE t[i - n]
  BY ConcatProperties, Zenon
<1> HIDE DEF u, n, m
<1>2. ASSUME n = 15, m = 5
      PROVE  /\ n + m = 20
             /\ \A i \in 1 .. 15 : u[i] = s[i]
             /\ \A i \in 1 .. 5 : u[15 + i] = t[i]
  BY <1>1, <1>2
<1>3. n = 15 /\ m = 5 => Joined(u, s, t)
  BY <1>1, <1>2, Zenon DEF Joined
<1> QED
  BY <1>3, Zenon DEF u, n, m

LEMMA WriteLogEntryIs ==
  /\ WriteLogEntry \in Seq(Instructions) /\ Len(WriteLogEntry) = 4
  /\ WriteLogEntry[1].do = "lock" /\ WriteLogEntry[2].do = "print"
  /\ WriteLogEntry[3].do = "append" /\ WriteLogEntry[4].do = "unlock"
<1>1. /\ Do("lock") \in Instructions /\ Do("print") \in Instructions
      /\ Do("append") \in Instructions /\ Do("unlock") \in Instructions
  BY Zenon DEF Instructions, Words
<1>2. /\ Do("lock").do = "lock" /\ Do("print").do = "print"
      /\ Do("append").do = "append" /\ Do("unlock").do = "unlock"
  BY DEF Do
<1> QED
  BY <1>1, <1>2 DEF WriteLogEntry

LEMMA HandleSignalIs ==
  /\ HandleSignal \in Seq(Instructions) /\ Len(HandleSignal) = 4
  /\ HandleSignal[1] = Log("info") /\ HandleSignal[2].do = "stop"
  /\ HandleSignal[3] = Log("info") /\ HandleSignal[4].do = "return"
<1>1. /\ Log("info") \in Instructions /\ Do("stop") \in Instructions
      /\ Do("return") \in Instructions
  BY LogIsInstruction, Zenon DEF Instructions, Words
<1>2. /\ Do("stop").do = "stop" /\ Do("return").do = "return"
  BY DEF Do
<1> QED
  BY <1>1, <1>2 DEF HandleSignal

LEMMA DestructorsAre ==
  ASSUME NEW code \in {"0", "1"}
  PROVE  /\ Destructors(code) \in Seq(Instructions) /\ Len(Destructors(code)) = 5
         /\ Destructors(code)[1].do = "close_unix"
         /\ Destructors(code)[2].do = "close_tcp"
         /\ Destructors(code)[3].do = "stop"
         /\ Destructors(code)[4] = Log("info")
         /\ Destructors(code)[5].do = code
<1>1. /\ Log("info") \in Instructions /\ Do("stop") \in Instructions
      /\ Do("close_unix") \in Instructions /\ Do("close_tcp") \in Instructions
      /\ Do(code) \in Instructions
  BY LogIsInstruction, Zenon DEF Instructions, Words
<1>2. /\ Do("stop").do = "stop" /\ Do("close_unix").do = "close_unix"
      /\ Do("close_tcp").do = "close_tcp" /\ Do(code).do = code
  BY DEF Do
<1> QED
  <2>1. Destructors(code) \in Seq(Instructions)
    BY <1>1, Tuple5, Zenon DEF Destructors
  <2>2. /\ Len(Destructors(code)) = 5
        /\ Destructors(code)[1] = Do("close_unix")
        /\ Destructors(code)[2] = Do("close_tcp")
        /\ Destructors(code)[3] = Do("stop")
        /\ Destructors(code)[4] = Log("info")
        /\ Destructors(code)[5] = Do(code)
    BY DEF Destructors
  <2> QED  BY <1>2, <2>1, <2>2, Zenon

LEMMA MainIs ==
  /\ Main \in Seq(Instructions) /\ Len(Main) = 20
  /\ Main[1].do = "environment" /\ Main[2].do = "arguments"
  /\ Main[3].do = "logger" /\ Main[4] = Log("info")
  /\ Main[5].do = "epoll" /\ Main[6].do = "tokens"
  /\ Main[7].do = "tcp" /\ Main[8].do = "unix" /\ Main[9] = Log("info")
  /\ Main[10].do = "SIGINT" /\ Main[11].do = "SIGTERM"
  /\ Main[12] = Log("info") /\ Main[13].do = "run" /\ Main[14].do = "loop"
  /\ Main[15] = Log("info")
  /\ \A i \in 1 .. 5 : Main[15 + i] = Destructors("0")[i]
<1> DEFINE first == << Do("environment"), Do("arguments"), Do("logger"), Log("info"),
     Do("epoll"), Do("tokens"), Do("tcp"), Do("unix"), Log("info"),
     Do("SIGINT"), Do("SIGTERM"), Log("info"), Do("run"), Do("loop"),
     Log("info") >>
<1>1. /\ Do("environment") \in Instructions /\ Do("arguments") \in Instructions
      /\ Do("logger") \in Instructions /\ Log("info") \in Instructions
      /\ Do("epoll") \in Instructions /\ Do("tokens") \in Instructions
      /\ Do("tcp") \in Instructions /\ Do("unix") \in Instructions
      /\ Do("SIGINT") \in Instructions /\ Do("SIGTERM") \in Instructions
      /\ Do("run") \in Instructions /\ Do("loop") \in Instructions
  BY LogIsInstruction, Zenon DEF Instructions, Words
<1>2. \A word : Do(word).do = word
  BY DEF Do
<1>3. /\ first \in Seq(Instructions) /\ Len(first) = 15
      /\ first[1].do = "environment" /\ first[2].do = "arguments"
      /\ first[3].do = "logger" /\ first[4] = Log("info")
      /\ first[5].do = "epoll" /\ first[6].do = "tokens"
      /\ first[7].do = "tcp" /\ first[8].do = "unix" /\ first[9] = Log("info")
      /\ first[10].do = "SIGINT" /\ first[11].do = "SIGTERM"
      /\ first[12] = Log("info") /\ first[13].do = "run" /\ first[14].do = "loop"
      /\ first[15] = Log("info")
  <2>1. /\ Len(first) = 15
        /\ first[1] = Do("environment") /\ first[2] = Do("arguments")
        /\ first[3] = Do("logger") /\ first[4] = Log("info")
        /\ first[5] = Do("epoll") /\ first[6] = Do("tokens")
        /\ first[7] = Do("tcp") /\ first[8] = Do("unix") /\ first[9] = Log("info")
        /\ first[10] = Do("SIGINT") /\ first[11] = Do("SIGTERM")
        /\ first[12] = Log("info") /\ first[13] = Do("run")
        /\ first[14] = Do("loop") /\ first[15] = Log("info")
    OBVIOUS
  <2>2. first \in Seq(Instructions)
    BY <1>1, Tuple15, Zenon
  <2> HIDE DEF first
  <2> QED  BY <2>1, <2>2, <1>2, Zenon
<1> HIDE DEF first
<1>4. Main = first \o Destructors("0")
  BY Zenon DEF Main, first
<1>5. Destructors("0") \in Seq(Instructions) /\ Len(Destructors("0")) = 5
  BY DestructorsAre
<1>6. /\ Main \in Seq(Instructions) /\ Len(Main) = 20
      /\ \A i \in 1 .. 15 : Main[i] = first[i]
      /\ \A i \in 1 .. 5 : Main[15 + i] = Destructors("0")[i]
  <2> DEFINE second == Destructors("0")
  <2>1. second \in Seq(Instructions) /\ Len(second) = 5
    BY <1>5
  <2> HIDE DEF second
  <2>2. Joined(first \o second, first, second)
    BY <1>3, <2>1, Concat15, Zenon
  <2>3. Main = first \o second
    BY <1>4 DEF second
  <2> QED  BY <2>2, <2>3, Zenon DEF second, Joined
<1>7. /\ Main[1] = first[1] /\ Main[2] = first[2] /\ Main[3] = first[3]
      /\ Main[4] = first[4] /\ Main[5] = first[5] /\ Main[6] = first[6]
      /\ Main[7] = first[7] /\ Main[8] = first[8] /\ Main[9] = first[9]
      /\ Main[10] = first[10] /\ Main[11] = first[11] /\ Main[12] = first[12]
      /\ Main[13] = first[13] /\ Main[14] = first[14] /\ Main[15] = first[15]
  BY <1>6
<1> QED
  BY <1>3, <1>6, <1>7, ZenonT(40)

LEMMA ProgramIs ==
  ASSUME NEW code \in {"0", "1"}
  PROVE  /\ Program(code) \in Seq(Instructions) /\ Len(Program(code)) = 20
         /\ \A i \in 1 .. 15 : Program(code)[i] = Main[i]
         /\ \A i \in 1 .. 5 : Program(code)[15 + i] = Destructors(code)[i]
<1> DEFINE first == SubSeq(Main, 1, 15)
<1>0. Main \in Seq(Instructions) /\ Len(Main) = 20
  BY MainIs, Zenon
<1>1. /\ first \in Seq(Instructions) /\ Len(first) = 15
      /\ \A i \in 1 .. 15 : first[i] = Main[i]
  BY <1>0
<1>2. Destructors(code) \in Seq(Instructions) /\ Len(Destructors(code)) = 5
  BY DestructorsAre
<1>3. Program(code) = first \o Destructors(code)
  BY DEF Program
<1> HIDE DEF first
<1> QED
  <2>1. /\ Program(code) \in Seq(Instructions) /\ Len(Program(code)) = 20
        /\ \A i \in 1 .. 15 : Program(code)[i] = first[i]
        /\ \A i \in 1 .. 5 : Program(code)[15 + i] = Destructors(code)[i]
    <3> DEFINE second == Destructors(code)
    <3>1. second \in Seq(Instructions) /\ Len(second) = 5
      BY <1>2
    <3> HIDE DEF second
    <3>2. Joined(first \o second, first, second)
      BY <1>1, <3>1, Concat15, Zenon
    <3>3. Program(code) = first \o second
      BY <1>3 DEF second
    <3> QED  BY <3>2, <3>3, Zenon DEF second, Joined
  <2> QED  BY <1>1, <2>1, Zenon

(* What main does at each place.                                           *)
Does(program, code) ==
  /\ program[1].do = "environment"
  /\ program[2].do = "arguments"
  /\ program[3].do = "logger"
  /\ program[4] = Log("info")
  /\ program[5].do = "epoll"
  /\ program[6].do = "tokens"
  /\ program[7].do = "tcp"
  /\ program[8].do = "unix"
  /\ program[9] = Log("info")
  /\ program[10].do = "SIGINT"
  /\ program[11].do = "SIGTERM"
  /\ program[12] = Log("info")
  /\ program[13].do = "run"
  /\ program[14].do = "loop"
  /\ program[15] = Log("info")
  /\ program[16].do = "close_unix"
  /\ program[17].do = "close_tcp"
  /\ program[18].do = "stop"
  /\ program[19] = Log("info")
  /\ program[20].do = code

LEMMA ProgramDoes ==
  ASSUME NEW code \in {"0", "1"}
  PROVE  Does(Program(code), code)
<1> DEFINE P == Program(code)
<1>1. /\ P[1] = Main[1] /\ P[2] = Main[2] /\ P[3] = Main[3]
      /\ P[4] = Main[4] /\ P[5] = Main[5] /\ P[6] = Main[6]
      /\ P[7] = Main[7] /\ P[8] = Main[8] /\ P[9] = Main[9]
      /\ P[10] = Main[10] /\ P[11] = Main[11] /\ P[12] = Main[12]
      /\ P[13] = Main[13] /\ P[14] = Main[14] /\ P[15] = Main[15]
  <2>1. \A i \in 1 .. 15 : P[i] = Main[i]
    BY ProgramIs
  <2> HIDE DEF P
  <2> QED  BY <2>1
<1>2. /\ Program(code)[16] = Destructors(code)[1]
      /\ Program(code)[17] = Destructors(code)[2]
      /\ Program(code)[18] = Destructors(code)[3]
      /\ Program(code)[19] = Destructors(code)[4]
      /\ Program(code)[20] = Destructors(code)[5]
  <2>1. \A i \in 1 .. 5 : Program(code)[15 + i] = Destructors(code)[i]
    BY ProgramIs
  <2> QED  BY <2>1
<1> QED
  <2>1. /\ Main[4] = Log("info") /\ Main[9] = Log("info") /\ Main[12] = Log("info")
        /\ Main[15] = Log("info")
        /\ Main[1].do = "environment" /\ Main[2].do = "arguments"
        /\ Main[3].do = "logger" /\ Main[5].do = "epoll"
        /\ Main[6].do = "tokens" /\ Main[7].do = "tcp" /\ Main[8].do = "unix"
        /\ Main[10].do = "SIGINT" /\ Main[11].do = "SIGTERM"
        /\ Main[13].do = "run" /\ Main[14].do = "loop"
    BY MainIs, Zenon
  <2>2. /\ Destructors(code)[1].do = "close_unix"
        /\ Destructors(code)[2].do = "close_tcp"
        /\ Destructors(code)[3].do = "stop"
        /\ Destructors(code)[4] = Log("info")
        /\ Destructors(code)[5].do = code
    BY DestructorsAre, Zenon
  <2> HIDE DEF P
  <2>3. /\ P[1].do = "environment" /\ P[2].do = "arguments"
        /\ P[3].do = "logger" /\ P[4] = Log("info") /\ P[5].do = "epoll"
    BY <1>1, <2>1, Zenon
  <2>4. /\ P[6].do = "tokens" /\ P[7].do = "tcp" /\ P[8].do = "unix"
        /\ P[9] = Log("info") /\ P[10].do = "SIGINT"
    BY <1>1, <2>1, Zenon
  <2>5. /\ P[11].do = "SIGTERM" /\ P[12] = Log("info") /\ P[13].do = "run"
        /\ P[14].do = "loop" /\ P[15] = Log("info")
    BY <1>1, <2>1, Zenon
  <2>6. /\ P[16].do = "close_unix" /\ P[17].do = "close_tcp" /\ P[18].do = "stop"
        /\ P[19] = Log("info") /\ P[20].do = code
    BY <1>2, <2>2, Zenon DEF P
  <2> QED  BY <2>3, <2>4, <2>5, <2>6, Zenon DEF P, Does

LEMMA HeadOfConcat ==
  ASSUME NEW S, NEW s \in Seq(S), s # << >>, NEW t \in Seq(S)
  PROVE  /\ s \o t # << >>
         /\ Head(s \o t) = Head(s)
         /\ Tail(s \o t) = Tail(s) \o t
<1> DEFINE u == s \o t
           v == Tail(s) \o t
           n == Len(s)
           m == Len(t)
<1>1. /\ u \in Seq(S) /\ Len(u) = n + m
      /\ \A i \in 1 .. n + m : u[i] = IF i <= n THEN s[i] ELSE t[i - n]
  BY ConcatProperties, Zenon
<1>2. n \in Nat /\ m \in Nat /\ n # 0
  BY EmptySeq, LenProperties
<1>3. Tail(s) \in Seq(S) /\ Len(Tail(s)) = n - 1
      /\ \A i \in 1 .. Len(Tail(s)) : Tail(s)[i] = s[i + 1]
  BY HeadTailProperties, Zenon
<1> DEFINE r == Tail(s)
           l == Len(r)
<1>4. /\ v \in Seq(S) /\ Len(v) = l + m
      /\ \A i \in 1 .. l + m : v[i] = IF i <= l THEN r[i] ELSE t[i - l]
  BY <1>3, ConcatProperties, Zenon
<1>5. l = n - 1 /\ \A i \in 1 .. l : r[i] = s[i + 1]
  BY <1>3
<1>6. Head(s) = s[1]
  OBVIOUS
<1> HIDE DEF u, v, n, m, r, l
<1>7. u # << >>
  BY <1>1, <1>2
<1>8. Tail(u) \in Seq(S) /\ Len(Tail(u)) = Len(u) - 1
      /\ \A i \in 1 .. Len(Tail(u)) : Tail(u)[i] = u[i + 1]
  BY <1>1, <1>7, HeadTailProperties, Zenon
<1> DEFINE w == Tail(u)
<1>9. w \in Seq(S) /\ Len(w) = Len(u) - 1 /\ \A i \in 1 .. Len(w) : w[i] = u[i + 1]
  BY <1>8
<1> HIDE DEF w
<1>10. Len(w) = Len(v)
  BY <1>1, <1>2, <1>4, <1>5, <1>9
<1>11. ASSUME NEW i \in 1 .. Len(w)
       PROVE  w[i] = v[i]
  <2>1. i \in 1 .. l + m /\ i + 1 \in 1 .. n + m /\ w[i] = u[i + 1]
    BY <1>1, <1>2, <1>4, <1>5, <1>9, <1>10
  <2>2. CASE i <= l
    <3>1. u[i + 1] = s[i + 1] /\ v[i] = r[i] /\ r[i] = s[i + 1]
      BY <2>1, <2>2, <1>1, <1>2, <1>4, <1>5
    <3> QED  BY <2>1, <3>1
  <2>3. CASE ~ (i <= l)
    <3>1. u[i + 1] = t[(i + 1) - n] /\ v[i] = t[i - l] /\ (i + 1) - n = i - l
      BY <2>1, <2>3, <1>1, <1>2, <1>4, <1>5
    <3> QED  BY <2>1, <3>1
  <2> QED  BY <2>2, <2>3
<1>12. w = v
  BY <1>4, <1>9, <1>10, <1>11, SeqEqual
<1>13. Head(u) = u[1]
  OBVIOUS
<1>14. u[1] = s[1]
  BY <1>1, <1>2
<1> QED
  BY <1>6, <1>7, <1>12, <1>13, <1>14, Zenon DEF u, v, r, w

LEMMA RestIs ==
  ASSUME NEW program \in Seq(Instructions), NEW k \in 1 .. Len(program)
  PROVE  /\ Rest(program, k) \in Seq(Instructions)
         /\ Rest(program, k) # << >>
         /\ Head(Rest(program, k)) = program[k]
         /\ Tail(Rest(program, k)) = Rest(program, k + 1)
<1> DEFINE n == Len(program)
<1>1. n \in Nat /\ n \in k .. n
  BY LenProperties
<1>2. Head(SubSeq(program, k, n)) = program[k]
      /\ Tail(SubSeq(program, k, n)) = SubSeq(program, k + 1, n)
  BY <1>1, HeadTailOfSubSeq, Zenon
<1>3. SubSeq(program, k, n) \in Seq(Instructions) /\ SubSeq(program, k, n) # << >>
  <2>1. \A i \in k .. n : program[i] \in Instructions
    BY ElementOfSeq
  <2> DEFINE rest == SubSeq(program, k, n)
  <2>2. rest \in Seq(Instructions) /\ Len(rest) = IF k <= n THEN n - k + 1 ELSE 0
    <3>1. k \in Int /\ n \in Int
      BY <1>1
    <3> QED  BY <2>1, <3>1, SubSeqProperties, ZenonT(40)
  <2> HIDE DEF rest
  <2>3. rest # << >>
    BY <1>1, <2>2
  <2> QED  BY <2>2, <2>3 DEF rest
<1> QED
  BY <1>2, <1>3, Zenon DEF Rest

LEMMA NoEntry == Rest(WriteLogEntry, 5) = << >>
  BY WriteLogEntryIs, SubSeqEmpty DEF Rest

LEMMA LogListsAre ==
  ASSUME NEW logs \in LogLists
  PROVE  logs \in Seq(Instructions)
  BY SeqMonotonic DEF LogLists, Instructions

(* What comes first at a place, and where it leads.                        *)
LEMMA PlaceIs ==
  ASSUME NEW program \in Seq(Instructions), NEW k \in 1 .. Len(program),
         NEW j \in 1 .. 5, NEW logs \in LogLists, NEW todo,
         Place(todo, program, k, j, logs)
  PROVE  /\ todo \in Seq(Instructions) /\ todo # << >>
         /\ j < 5 => /\ Head(todo) = WriteLogEntry[j]
                    /\ Place(Tail(todo), program, k, j + 1, logs)
         /\ j = 5 /\ logs # << >> =>
              /\ Head(todo) \in Logs
              /\ Tail(logs) \in LogLists
              /\ Place(Tail(todo), program, k, 5, Tail(logs))
         /\ j = 5 /\ logs = << >> =>
              /\ Head(todo) = program[k]
              /\ Place(Tail(todo), program, k + 1, 5, << >>)
<1> DEFINE w == Rest(WriteLogEntry, j)
           rest == Rest(program, k)
           tail == logs \o rest
<1>1. rest \in Seq(Instructions) /\ rest # << >> /\ Head(rest) = program[k]
      /\ Tail(rest) = Rest(program, k + 1)
  BY RestIs, Zenon
<1>2. logs \in Seq(Instructions)
  BY LogListsAre, Zenon
<1>3. tail \in Seq(Instructions)
  BY <1>1, <1>2, ConcatProperties, Zenon
<1>4. todo = w \o tail
  BY Zenon DEF Place
<1>5. tail # << >>
  <2>1. CASE logs = << >>
    BY <2>1, <1>1, ConcatEmptySeq, Zenon
  <2>2. CASE logs # << >>
    BY <2>2, <1>1, <1>2, HeadOfConcat, Zenon
  <2> QED  BY <2>1, <2>2
<1>6. CASE j < 5
  <2>1. j \in 1 .. Len(WriteLogEntry) /\ WriteLogEntry \in Seq(Instructions)
    BY <1>6, WriteLogEntryIs
  <2>2. w \in Seq(Instructions) /\ w # << >> /\ Head(w) = WriteLogEntry[j]
        /\ Tail(w) = Rest(WriteLogEntry, j + 1)
    BY <2>1, RestIs, Zenon
  <2> HIDE DEF w, tail
  <2>3. w \o tail # << >> /\ Head(w \o tail) = Head(w)
        /\ Tail(w \o tail) = Tail(w) \o tail
    BY <2>2, <1>3, HeadOfConcat, Zenon
  <2>4. w \o tail \in Seq(Instructions)
    BY <2>2, <1>3, ConcatProperties, Zenon
  <2>5. Place(Tail(todo), program, k, j + 1, logs)
    BY <1>4, <2>2, <2>3, Zenon DEF Place, tail
  <2>6. j # 5
    BY <1>6
  <2> QED  BY <1>4, <2>2, <2>3, <2>4, <2>5, <2>6, Zenon
<1>7. CASE j = 5
  <2>0. ~ (j < 5)
    BY <1>7
  <2>1. w = << >>
    BY <1>7, NoEntry, Zenon
  <2> HIDE DEF w
  <2>2. todo = tail
    BY <1>3, <1>4, <2>1, ConcatEmptySeq, Zenon
  <2>3. ASSUME NEW t, t \in Seq(Instructions)
        PROVE  Rest(WriteLogEntry, 5) \o t = t
    BY <2>3, NoEntry, ConcatEmptySeq, Zenon
  <2>4. ASSUME logs # << >>
        PROVE  /\ Head(todo) \in Logs
               /\ Tail(logs) \in LogLists
               /\ Place(Tail(todo), program, k, 5, Tail(logs))
    <3>1. Head(tail) = Head(logs) /\ Tail(tail) = Tail(logs) \o rest
      <4> HIDE DEF rest
      <4> QED  BY <1>1, <1>2, <2>4, HeadOfConcat, Zenon
    <3>2. Head(logs) \in Logs /\ Tail(logs) \in LogLists
      BY <2>4, HeadTailProperties, Zenon DEF LogLists
    <3>3. Tail(logs) \o rest \in Seq(Instructions)
      BY <3>2, <1>1, LogListsAre, ConcatProperties, Zenon
    <3>4. Place(Tail(todo), program, k, 5, Tail(logs))
      BY <2>2, <2>3, <3>1, <3>3, Zenon DEF Place
    <3> QED  BY <2>2, <3>1, <3>2, <3>4, Zenon
  <2>5. ASSUME logs = << >>
        PROVE  /\ Head(todo) = program[k]
               /\ Place(Tail(todo), program, k + 1, 5, << >>)
    <3>1. tail = rest
      <4> HIDE DEF rest
      <4> QED  BY <1>1, <2>5, ConcatEmptySeq, Zenon
    <3>2. Tail(rest) \in Seq(Instructions)
      BY <1>1, HeadTailProperties, Zenon
    <3>3. << >> \o Rest(program, k + 1) = Rest(program, k + 1)
      BY <1>1, <3>2, ConcatEmptySeq, Zenon
    <3>4. Place(Tail(todo), program, k + 1, 5, << >>)
      BY <1>1, <2>2, <2>3, <3>1, <3>2, <3>3, Zenon DEF Place
    <3> QED  BY <1>1, <2>2, <3>1, <3>4, Zenon
  <2> QED  BY <1>3, <1>5, <2>0, <2>2, <2>4, <2>5, Zenon
<1>8. j < 5 \/ j = 5
  OBVIOUS
<1> QED
  BY <1>6, <1>7, <1>8, Zenon

(* More logs first.                                                        *)
LEMMA LogsFirst ==
  ASSUME NEW program \in Seq(Instructions), NEW k \in 1 .. Len(program),
         NEW more \in LogLists, NEW todo,
         Place(todo, program, k, 5, << >>)
  PROVE  Place(more \o todo, program, k, 5, more)
<1> DEFINE rest == Rest(program, k)
<1>1. rest \in Seq(Instructions)
  BY RestIs, Zenon
<1>2. more \in Seq(Instructions)
  BY LogListsAre, Zenon
<1> HIDE DEF rest
<1>3. more \o rest \in Seq(Instructions)
  BY <1>1, <1>2, ConcatProperties, Zenon
<1>4. << >> \o rest = rest /\ << >> \o (more \o rest) = more \o rest
  BY <1>1, <1>3, ConcatEmptySeq, Zenon
<1>5. todo = rest
  BY <1>4, NoEntry, Zenon DEF Place, rest
<1> QED
  BY <1>4, <1>5, NoEntry, Zenon DEF Place, rest

(* An entry first.                                                         *)
LEMMA EntryFirst ==
  ASSUME NEW program \in Seq(Instructions), NEW k \in 1 .. Len(program),
         NEW logs \in LogLists, NEW todo,
         Place(todo, program, k, 5, logs)
  PROVE  Place(WriteLogEntry \o todo, program, k, 1, logs)
<1> DEFINE rest == Rest(program, k)
           tail == logs \o rest
<1>1. rest \in Seq(Instructions)
  BY RestIs, Zenon
<1>2. logs \in Seq(Instructions)
  BY LogListsAre, Zenon
<1>3. tail \in Seq(Instructions)
  BY <1>1, <1>2, ConcatProperties, Zenon
<1>4. todo = << >> \o tail
  BY NoEntry, Zenon DEF Place
<1> HIDE DEF tail
<1>5. todo = tail
  BY <1>3, <1>4, ConcatEmptySeq, Zenon
<1>6. Rest(WriteLogEntry, 1) = WriteLogEntry
  BY WriteLogEntryIs, SubSeqFull, Zenon DEF Rest
<1> QED
  BY <1>5, <1>6, Zenon DEF Place, tail

----------------------------------------------------------------------------
(* The thread.                                                             *)

(* The word by which main or a handler goes on says its place.             *)
LEMMA PlaceOfWord ==
  ASSUME NEW code \in {"0", "1"}, NEW k \in 1 .. 20, NEW word,
         Program(code)[k].do = word
  PROVE  /\ word = "environment" => k = 1
         /\ word = "arguments" => k = 2
         /\ word = "logger" => k = 3
         /\ word = "epoll" => k = 5
         /\ word = "tokens" => k = 6
         /\ word = "tcp" => k = 7
         /\ word = "unix" => k = 8
         /\ word = "SIGINT" => k = 10
         /\ word = "SIGTERM" => k = 11
         /\ word = "run" => k = 13
         /\ word = "loop" => k = 14
         /\ word = "close_unix" => k = 16
         /\ word = "close_tcp" => k = 17
         /\ word = "stop" => k = 18
         /\ word \in {"0", "1"} => k = 20 /\ word = code
         /\ word = "log" => k \in {4, 9, 12, 15, 19}
         /\ word \notin {"lock", "print", "append", "unlock", "return"}
<1> DEFINE P == Program(code)
<1>1. Log("info").do = "log"
  BY DEF Log
<1>2. /\ P[1].do = "environment" /\ P[2].do = "arguments" /\ P[3].do = "logger"
      /\ P[4].do = "log" /\ P[5].do = "epoll" /\ P[6].do = "tokens"
      /\ P[7].do = "tcp" /\ P[8].do = "unix" /\ P[9].do = "log"
      /\ P[10].do = "SIGINT" /\ P[11].do = "SIGTERM" /\ P[12].do = "log"
      /\ P[13].do = "run" /\ P[14].do = "loop" /\ P[15].do = "log"
      /\ P[16].do = "close_unix" /\ P[17].do = "close_tcp" /\ P[18].do = "stop"
      /\ P[19].do = "log" /\ P[20].do = code
  <2>1. Does(P, code)
    BY ProgramDoes, Zenon
  <2> HIDE DEF P
  <2> QED  BY <1>1, <2>1 DEF Does
<1>3. P[k].do = word
  OBVIOUS
<1> HIDE DEF P
<1>5. ASSUME k \in 1 .. 5
      PROVE  (k = 1 /\ word = "environment") \/ (k = 2 /\ word = "arguments")
             \/ (k = 3 /\ word = "logger") \/ (k = 4 /\ word = "log")
             \/ (k = 5 /\ word = "epoll")
  <2>1. k = 1 => word = "environment"
    BY <1>2, <1>3, Zenon
  <2>2. k = 2 => word = "arguments"
    BY <1>2, <1>3, Zenon
  <2>3. k = 3 => word = "logger"
    BY <1>2, <1>3, Zenon
  <2>4. k = 4 => word = "log"
    BY <1>2, <1>3, Zenon
  <2>5. k = 5 => word = "epoll"
    BY <1>2, <1>3, Zenon
  <2> QED
    BY <1>5, <2>1, <2>2, <2>3, <2>4, <2>5
<1>6. ASSUME k \in 6 .. 10
      PROVE  (k = 6 /\ word = "tokens") \/ (k = 7 /\ word = "tcp")
             \/ (k = 8 /\ word = "unix") \/ (k = 9 /\ word = "log")
             \/ (k = 10 /\ word = "SIGINT")
  <2>6. k = 6 => word = "tokens"
    BY <1>2, <1>3, Zenon
  <2>7. k = 7 => word = "tcp"
    BY <1>2, <1>3, Zenon
  <2>8. k = 8 => word = "unix"
    BY <1>2, <1>3, Zenon
  <2>9. k = 9 => word = "log"
    BY <1>2, <1>3, Zenon
  <2>10. k = 10 => word = "SIGINT"
    BY <1>2, <1>3, Zenon
  <2> QED
    BY <1>6, <2>6, <2>7, <2>8, <2>9, <2>10
<1>7. ASSUME k \in 11 .. 15
      PROVE  (k = 11 /\ word = "SIGTERM") \/ (k = 12 /\ word = "log")
             \/ (k = 13 /\ word = "run") \/ (k = 14 /\ word = "loop")
             \/ (k = 15 /\ word = "log")
  <2>11. k = 11 => word = "SIGTERM"
    BY <1>2, <1>3, Zenon
  <2>12. k = 12 => word = "log"
    BY <1>2, <1>3, Zenon
  <2>13. k = 13 => word = "run"
    BY <1>2, <1>3, Zenon
  <2>14. k = 14 => word = "loop"
    BY <1>2, <1>3, Zenon
  <2>15. k = 15 => word = "log"
    BY <1>2, <1>3, Zenon
  <2> QED
    BY <1>7, <2>11, <2>12, <2>13, <2>14, <2>15
<1>8. ASSUME k \in 16 .. 20
      PROVE  (k = 16 /\ word = "close_unix") \/ (k = 17 /\ word = "close_tcp")
             \/ (k = 18 /\ word = "stop") \/ (k = 19 /\ word = "log")
             \/ (k = 20 /\ word = code)
  <2>16. k = 16 => word = "close_unix"
    BY <1>2, <1>3, Zenon
  <2>17. k = 17 => word = "close_tcp"
    BY <1>2, <1>3, Zenon
  <2>18. k = 18 => word = "stop"
    BY <1>2, <1>3, Zenon
  <2>19. k = 19 => word = "log"
    BY <1>2, <1>3, Zenon
  <2>20. k = 20 => word = code
    BY <1>2, <1>3, Zenon
  <2> QED
    BY <1>8, <2>16, <2>17, <2>18, <2>19, <2>20
<1>4. k \in 1 .. 5 \/ k \in 6 .. 10 \/ k \in 11 .. 15 \/ k \in 16 .. 20
  OBVIOUS
<1> QED
  BY <1>4, <1>5, <1>6, <1>7, <1>8

LEMMA PlaceOfHandler ==
  ASSUME NEW k \in 1 .. 4, NEW word, HandleSignal[k].do = word
  PROVE  /\ word = "log" => k \in {1, 3} /\ HandleSignal[k] = Log("info")
         /\ word = "stop" => k = 2
         /\ word = "return" => k = 4
         /\ word \in {"log", "stop", "return"}
  BY HandleSignalIs DEF Log

(* An instruction that only main executes.                                 *)
MainWords ==
  {"environment", "arguments", "logger", "epoll", "tokens", "tcp",
   "unix", "SIGINT", "SIGTERM", "run", "loop", "close_unix", "close_tcp",
   "0", "1"}

EntryWords == {"lock", "print", "append", "unlock"}

(* What comes first at a place.                                            *)
First(todo, program, k, j, logs) ==
  /\ todo \in Seq(Instructions) /\ todo # << >>
  /\ Head(todo).do = "lock" <=> j = 1
  /\ Head(todo).do = "print" <=> j = 2
  /\ Head(todo).do = "append" <=> j = 3
  /\ Head(todo).do = "unlock" <=> j = 4
  /\ Head(todo).do \notin EntryWords \cup {"log"} =>
       j = 5 /\ logs = << >> /\ Head(todo) = program[k]
  /\ Head(todo).do = "log" =>
       /\ j = 5
       /\ \/ logs # << >> /\ Head(todo) \in Logs
          \/ logs = << >> /\ Head(todo) = program[k]

LEMMA HeadIs ==
  ASSUME NEW program \in Seq(Instructions), NEW k \in 1 .. Len(program),
         NEW j \in 1 .. 5, NEW logs \in LogLists, NEW todo,
         Place(todo, program, k, j, logs),
         program[k].do \notin EntryWords
  PROVE  First(todo, program, k, j, logs)
<1> DEFINE h == Head(todo)
<1>1. /\ todo \in Seq(Instructions) /\ todo # << >>
      /\ j < 5 => h = WriteLogEntry[j]
      /\ j = 5 /\ logs # << >> => h \in Logs
      /\ j = 5 /\ logs = << >> => h = program[k]
  <2>1. /\ todo \in Seq(Instructions) /\ todo # << >>
        /\ j < 5 => /\ Head(todo) = WriteLogEntry[j]
                    /\ Place(Tail(todo), program, k, j + 1, logs)
        /\ j = 5 /\ logs # << >> =>
             /\ Head(todo) \in Logs
             /\ Tail(logs) \in LogLists
             /\ Place(Tail(todo), program, k, 5, Tail(logs))
        /\ j = 5 /\ logs = << >> =>
             /\ Head(todo) = program[k]
             /\ Place(Tail(todo), program, k + 1, 5, << >>)
    BY PlaceIs, Zenon
  <2> QED  BY <2>1, Zenon
<1>2. ASSUME j < 5
      PROVE  h = WriteLogEntry[j]
  BY <1>1, <1>2, Zenon
<1>3. ASSUME j = 5, logs # << >>
      PROVE  h \in Logs
  BY <1>1, <1>3, Zenon
<1>4. ASSUME j = 5, logs = << >>
      PROVE  h = program[k]
  BY <1>1, <1>4, Zenon
<1> HIDE DEF h
<1>5. h \in Logs => h.do = "log"
  BY LogsDo, Zenon
<1>6. j \in {1, 2, 3, 4, 5}
  OBVIOUS
<1>7. CASE j < 5
  <2>1. h = WriteLogEntry[j] /\ j \in {1, 2, 3, 4} /\ j # 5
    BY <1>2, <1>6, <1>7
  <2>2. /\ j = 1 => h.do = "lock"
        /\ j = 2 => h.do = "print"
        /\ j = 3 => h.do = "append"
        /\ j = 4 => h.do = "unlock"
    BY <2>1, WriteLogEntryIs, Zenon
  <2>3. /\ h.do = "lock" <=> j = 1
        /\ h.do = "print" <=> j = 2
        /\ h.do = "append" <=> j = 3
        /\ h.do = "unlock" <=> j = 4
        /\ h.do \in EntryWords /\ h.do # "log"
    BY <2>1, <2>2 DEF EntryWords
  <2> QED  BY <1>1, <2>3, Zenon DEF First, h
<1>8. CASE j = 5
  <2>1. h.do \notin EntryWords
    <3>1. CASE logs # << >>
      BY <3>1, <1>8, <1>3, <1>5 DEF EntryWords
    <3>2. CASE logs = << >>
      BY <3>2, <1>8, <1>4
    <3> QED  BY <3>1, <3>2
  <2>2. /\ h.do = "lock" <=> j = 1
        /\ h.do = "print" <=> j = 2
        /\ h.do = "append" <=> j = 3
        /\ h.do = "unlock" <=> j = 4
    BY <2>1, <1>8 DEF EntryWords
  <2>3. h.do \notin EntryWords \cup {"log"} =>
          j = 5 /\ logs = << >> /\ h = program[k]
    BY <1>8, <1>3, <1>4, <1>5, Zenon
  <2>4. h.do = "log" =>
          /\ j = 5
          /\ \/ logs # << >> /\ h \in Logs
             \/ logs = << >> /\ h = program[k]
    BY <1>8, <1>3, <1>4, Zenon
  <2> QED  BY <1>1, <2>2, <2>3, <2>4, Zenon DEF First, h
<1> QED
  BY <1>6, <1>7, <1>8

LEMMA MainFirst ==
  ASSUME NEW code \in {"0", "1"}, NEW k \in 1 .. 20, NEW j \in 1 .. 5,
         NEW logs \in LogLists, NEW todo, Place(todo, Program(code), k, j, logs)
  PROVE  First(todo, Program(code), k, j, logs)
<1>1. Program(code) \in Seq(Instructions) /\ k \in 1 .. Len(Program(code))
  BY ProgramIs
<1>2. Program(code)[k].do \notin EntryWords
  BY PlaceOfWord, Zenon DEF EntryWords
<1> QED
  BY <1>1, <1>2, HeadIs, Zenon

LEMMA HandlerFirst ==
  ASSUME NEW k \in 1 .. 4, NEW j \in 1 .. 5, NEW todo,
         Place(todo, HandleSignal, k, j, << >>)
  PROVE  First(todo, HandleSignal, k, j, << >>)
<1>1. HandleSignal \in Seq(Instructions) /\ k \in 1 .. Len(HandleSignal)
  BY HandleSignalIs
<1>2. HandleSignal[k].do \notin EntryWords
  BY PlaceOfHandler DEF EntryWords
<1>3. << >> \in LogLists
  BY DEF LogLists
<1> QED
  BY <1>1, <1>2, <1>3, HeadIs, Zenon

(* The top frame goes on with X.                                           *)
Moved(X) == stack' = [stack EXCEPT ![Len(stack)].todo = X]

MovedTo(X) ==
  /\ stack' \in Seq(Frame) /\ stack' # << >> /\ Len(stack') = Len(stack)
  /\ stack'[Len(stack)].todo = X
  /\ \A i \in 1 .. Len(stack) :
       stack'[i].who = stack[i].who /\ (i # Len(stack) => stack'[i] = stack[i])

(* Its place is one of main's, or of a handler's.                          *)
MainPlace(todo, code, k, j, logs) ==
  /\ Place(todo, Program(code), k, j, logs)
  /\ k <= 3 => j = 5 /\ logs = << >>

HandlerPlace(todo, k, j) ==
  /\ Place(todo, HandleSignal, k, j, << >>)
  /\ j < 5 => Severity(config.level) <= Severity("info")

LEMMA FramesAre ==
  ASSUME Frames
  PROVE  /\ Len(stack) \in Nat /\ Len(stack) >= 1
         /\ DOMAIN stack = 1 .. Len(stack)
         /\ \A i \in 1 .. Len(stack) :
              /\ stack[i] \in Frame
              /\ stack[i].who \in {"main"} \cup Signals
              /\ stack[i].todo \in Seq(Instructions)
         /\ Top = stack[Len(stack)] /\ Top.todo \in Seq(Instructions)
<1>1. stack \in Seq(Frame) /\ stack # << >>
  BY DEF Frames
<1>2. Len(stack) \in Nat /\ Len(stack) >= 1 /\ DOMAIN stack = 1 .. Len(stack)
      /\ \A i \in 1 .. Len(stack) : stack[i] \in Frame
  BY <1>1
<1>3. \A f \in Frame : f.who \in {"main"} \cup Signals /\ f.todo \in Seq(Instructions)
  BY Zenon DEF Frame
<1>4. Len(stack) \in 1 .. Len(stack)
  BY <1>2
<1> QED
  BY <1>2, <1>3, <1>4, Zenon DEF Top

LEMMA Moves ==
  ASSUME Frames, NEW X \in Seq(Instructions), Moved(X)
  PROVE  MovedTo(X)
<1> DEFINE n == Len(stack)
           f == [stack[n] EXCEPT !.todo = X]
<1>1. stack \in Seq(Frame) /\ n \in 1 .. n /\ DOMAIN stack = 1 .. n
      /\ stack[n] \in Frame /\ n \in Nat
  <2>1. stack \in Seq(Frame)
    BY DEF Frames
  <2>2. Len(stack) \in Nat /\ Len(stack) >= 1 /\ DOMAIN stack = 1 .. Len(stack)
        /\ \A i \in 1 .. Len(stack) : stack[i] \in Frame
    BY FramesAre, Zenon
  <2>3. Len(stack) \in 1 .. Len(stack)
    BY <2>2
  <2> QED  BY <2>1, <2>2, <2>3, Zenon
<1>2. f \in Frame /\ f.who = stack[n].who /\ f.todo = X
  <2> DEFINE g == stack[n]
  <2>1. g \in Frame
    BY <1>1
  <2> HIDE DEF g
  <2>2. [g EXCEPT !.todo = X] \in Frame /\ [g EXCEPT !.todo = X].who = g.who
        /\ [g EXCEPT !.todo = X].todo = X
    BY <2>1 DEF Frame
  <2> QED  BY <2>2 DEF g
<1>3. stack' = [stack EXCEPT ![n] = f]
  BY DEF Moved
<1> HIDE DEF n, f
<1>4. stack' \in Seq(Frame) /\ Len(stack') = Len(stack)
      /\ \A i \in 1 .. Len(stack) : stack'[i] = IF i = n THEN f ELSE stack[i]
  BY <1>1, <1>2, <1>3, ExceptSeq DEF n
<1>5. stack' # << >>
  <2>1. n \in Nat /\ n # 0
    BY <1>1
  <2>2. Len(stack') = n
    BY <1>4, Zenon DEF n
  <2>3. Len(stack') # 0
    BY <2>1, <2>2, Zenon
  <2> QED  BY <2>3, <1>4, EmptySeq, Zenon
<1> QED
  BY <1>1, <1>2, <1>4, <1>5, Zenon DEF MovedTo, n

(* Where the top frame is.                                                 *)
LEMMA TopPlaces ==
  ASSUME Frames
  PROVE  \/ /\ Len(stack) = 1 /\ Top = stack[1]
            /\ \E code \in {"0", "1"}, k \in 1 .. 20, j \in 1 .. 5, logs \in LogLists :
                 MainPlace(Top.todo, code, k, j, logs) /\ Reached(code, k)
         \/ /\ Len(stack) > 1
            /\ \E k \in 1 .. 4, j \in 1 .. 5 : HandlerPlace(Top.todo, k, j)
<1>1. Len(stack) \in Nat /\ Len(stack) >= 1 /\ Top = stack[Len(stack)]
  BY FramesAre, Zenon
<1>2. CASE Len(stack) = 1
  <2>1. Top = stack[1]
    BY <1>1, <1>2
  <2>2. MainFrame
    BY DEF Frames
  <2> QED  BY <1>2, <2>1, <2>2, Zenon DEF MainFrame, MainPlace
<1>3. CASE Len(stack) # 1
  <2>1. Len(stack) > 1 /\ Len(stack) \in 2 .. Len(stack)
    BY <1>1, <1>3
  <2>2. HandlerFrame(Len(stack))
    BY <2>1, Zenon DEF Frames
  <2> QED  BY <1>1, <2>1, <2>2, Zenon DEF HandlerFrame, HandlerPlace
<1> QED
  BY <1>2, <1>3

LEMMA NoHandlers ==
  ASSUME NEW n, n = 1
  PROVE  2 .. n = {}
  OBVIOUS

(* Main moves, on the way to the exit with code.                           *)
LEMMA MainMoves ==
  ASSUME Frames, Len(stack) = 1, NEW X, MovedTo(X),
         NEW code \in {"0", "1"}, NEW k \in 1 .. 20, NEW j \in 1 .. 5,
         NEW logs \in LogLists,
         MainPlace(X, code, k, j, logs), Reached(code, k)'
  PROVE  Frames'
<1>1. stack' \in Seq(Frame) /\ stack' # << >> /\ Len(stack') = 1
      /\ stack'[1].todo = X
  BY DEF MovedTo
<1>2. MainFrame'
  BY <1>1, Zenon DEF MainFrame, MainPlace
<1>3. 2 .. Len(stack') = {}
  BY <1>1, NoHandlers, Zenon
<1> QED
  BY <1>1, <1>2, <1>3, Zenon DEF Frames

LEMMA MainStays ==
  ASSUME Frames, Len(stack) = 1, stack' = stack,
         NEW code \in {"0", "1"}, NEW k \in 1 .. 20, NEW j \in 1 .. 5,
         NEW logs \in LogLists,
         MainPlace(stack[1].todo, code, k, j, logs), Reached(code, k)'
  PROVE  Frames'
<1>1. stack' \in Seq(Frame) /\ stack' # << >>
  BY DEF Frames
<1>2. MainFrame'
  BY Zenon DEF MainFrame, MainPlace
<1>3. 2 .. Len(stack') = {}
  BY NoHandlers, Zenon
<1> QED
  BY <1>1, <1>2, <1>3, Zenon DEF Frames

(* A handler runs only after main has installed it.                        *)
LEMMA MainIsPast ==
  ASSUME Frames, Len(stack) > 1, NEW code, NEW k \in 1 .. 20, Reached(code, k)
  PROVE  k > 10
<1>1. 2 \in 2 .. Len(stack)
  BY FramesAre
<1>2. stack[2].who \in caught
  BY <1>1, Zenon DEF Frames
<1>3. caught # {}
  BY <1>2
<1> QED
  BY <1>3 DEF Reached

LEMMA HandlerMoves ==
  ASSUME Frames, Len(stack) > 1, NEW X, MovedTo(X),
         NEW k \in 1 .. 4, NEW j \in 1 .. 5, HandlerPlace(X, k, j),
         UNCHANGED << launch, parsed, config, engine, open, socketFile, caught,
                      arrived >>
  PROVE  Frames'
<1> DEFINE n == Len(stack)
<1>1. /\ stack' \in Seq(Frame) /\ stack' # << >> /\ Len(stack') = n
      /\ stack'[n].todo = X
      /\ \A i \in 1 .. n :
           stack'[i].who = stack[i].who /\ (i # n => stack'[i] = stack[i])
  BY DEF MovedTo
<1>2. n \in Nat /\ n > 1 /\ 1 \in 1 .. n /\ 1 # n
      /\ \A i \in 2 .. n : i \in 1 .. n
  BY FramesAre
<1>3. stack'[1] = stack[1]
  BY <1>1, <1>2, Zenon
<1>4. MainFrame'
  <2>1. PICK code \in {"0", "1"}, l \in 1 .. 20, h \in 1 .. 5, logs \in LogLists :
          /\ Place(stack[1].todo, Program(code), l, h, logs)
          /\ Reached(code, l)
          /\ l <= 3 => h = 5 /\ logs = << >>
    BY DEF Frames, MainFrame
  <2>2. Place(stack'[1].todo, Program(code), l, h, logs)
    BY <2>1, <1>3, Zenon
  <2>3. l > 10
    BY <2>1, MainIsPast
  <2>4. Reached(code, l)'
    <3>1. ~ (l <= 3)
      BY <2>3
    <3>2. Reached(code, l)
      BY <2>1
    <3> QED  BY <3>1, <3>2, Zenon DEF Reached
  <2> QED  BY <2>1, <2>2, <2>4, Zenon DEF MainFrame
<1>5. ASSUME NEW i \in 2 .. n
      PROVE  HandlerFrame(i)'
  <2>1. CASE i = n
    BY <2>1, <1>1, Zenon DEF HandlerPlace, HandlerFrame
  <2>2. CASE i # n
    <3>1. stack'[i] = stack[i]
      BY <2>2, <1>1, <1>2, Zenon
    <3>2. HandlerFrame(i)
      BY Zenon DEF Frames
    <3> QED  BY <3>1, <3>2, Zenon DEF HandlerFrame
  <2> QED  BY <2>1, <2>2
<1>6. ASSUME NEW i \in 2 .. n
      PROVE  /\ stack'[i].who \in arrived' \cap caught'
             /\ \A h \in 2 .. n : stack'[h].who = stack'[i].who => h = i
  <2>1. /\ stack[i].who \in arrived \cap caught
        /\ \A h \in 2 .. n : stack[h].who = stack[i].who => h = i
    BY Zenon DEF Frames
  <2>2. \A h \in 2 .. n : stack'[h].who = stack[h].who
    BY <1>1, <1>2, Zenon
  <2>3. arrived' = arrived /\ caught' = caught
    OBVIOUS
  <2> QED  BY <2>1, <2>2, <2>3, Zenon
<1>7. Len(stack') = n
  BY <1>1
<1> QED
  BY <1>1, <1>4, <1>5, <1>6, <1>7, Zenon DEF Frames

(* The word of the top frame says whose it is, and where.                  *)
LEMMA MainWord ==
  ASSUME Frames, Instruction.do \in MainWords
  PROVE  /\ Len(stack) = 1 /\ Top = stack[1]
         /\ \E code \in {"0", "1"}, k \in 1 .. 20 :
              /\ MainPlace(Top.todo, code, k, 5, << >>) /\ Reached(code, k)
              /\ Program(code)[k].do = Instruction.do
<1> DEFINE word == Instruction.do
<1>1. word \notin EntryWords \cup {"log"} /\ word \notin {"log", "stop", "return"}
  BY DEF MainWords, EntryWords
<1>2. ASSUME NEW k \in 1 .. 4, NEW j \in 1 .. 5, HandlerPlace(Top.todo, k, j)
      PROVE  FALSE
  <2>1. Head(Top.todo).do \notin EntryWords \cup {"log"} =>
          Head(Top.todo) = HandleSignal[k]
    <3>1. First(Top.todo, HandleSignal, k, j, << >>)
      BY <1>2, HandlerFirst, Zenon DEF HandlerPlace
    <3> QED  BY <3>1, Zenon DEF First
  <2>2. word = HandleSignal[k].do
    BY <1>1, <2>1, Zenon DEF Instruction
  <2> QED  BY <1>1, <2>2, PlaceOfHandler, Zenon
<1>3. Len(stack) = 1 /\ Top = stack[1]
  BY <1>2, TopPlaces, Zenon
<1>4. PICK code \in {"0", "1"}, k \in 1 .. 20, j \in 1 .. 5, logs \in LogLists :
        MainPlace(Top.todo, code, k, j, logs) /\ Reached(code, k)
  <2>1. ~ (Len(stack) > 1)
    BY <1>3
  <2> QED  BY <2>1, TopPlaces, Zenon
<1>5. j = 5 /\ logs = << >> /\ Head(Top.todo) = Program(code)[k]
  <2>1. First(Top.todo, Program(code), k, j, logs)
    BY <1>4, MainFirst, Zenon DEF MainPlace
  <2> QED  BY <1>1, <2>1, Zenon DEF First, Instruction
<1> QED
  BY <1>3, <1>4, <1>5, Zenon DEF Instruction

(* Where an instruction leads.                                             *)
Onward(todo, program, k, j, logs) ==
  /\ j < 5 => Place(Tail(todo), program, k, j + 1, logs)
  /\ j = 5 /\ logs # << >> =>
       /\ Tail(logs) \in LogLists
       /\ Place(Tail(todo), program, k, 5, Tail(logs))
       /\ Place(WriteLogEntry \o Tail(todo), program, k, 1, Tail(logs))
  /\ j = 5 /\ logs = << >> =>
       Place(Tail(todo), program, k + 1, 5, << >>)
  /\ j = 5 /\ logs = << >> /\ k < Len(program) =>
       /\ \A more \in LogLists : Place(more \o Tail(todo), program, k + 1, 5, more)
       /\ Place(WriteLogEntry \o Tail(todo), program, k + 1, 1, << >>)

LEMMA Leads ==
  ASSUME NEW program \in Seq(Instructions), NEW k \in 1 .. Len(program),
         NEW j \in 1 .. 5, NEW logs \in LogLists, NEW todo,
         Place(todo, program, k, j, logs)
  PROVE  Onward(todo, program, k, j, logs)
<1>1. /\ todo \in Seq(Instructions) /\ todo # << >>
      /\ j < 5 => /\ Head(todo) = WriteLogEntry[j]
                  /\ Place(Tail(todo), program, k, j + 1, logs)
      /\ j = 5 /\ logs # << >> =>
           /\ Head(todo) \in Logs
           /\ Tail(logs) \in LogLists
           /\ Place(Tail(todo), program, k, 5, Tail(logs))
      /\ j = 5 /\ logs = << >> =>
           /\ Head(todo) = program[k]
           /\ Place(Tail(todo), program, k + 1, 5, << >>)
  BY PlaceIs, Zenon
<1>2. ASSUME j = 5, logs # << >>
      PROVE  Place(WriteLogEntry \o Tail(todo), program, k, 1, Tail(logs))
  <2>1. Tail(logs) \in LogLists /\ Place(Tail(todo), program, k, 5, Tail(logs))
    BY <1>1, <1>2, Zenon
  <2> QED  BY <2>1, EntryFirst, Zenon
<1>3. ASSUME j = 5, logs = << >>, k < Len(program)
      PROVE  /\ \A more \in LogLists : Place(more \o Tail(todo), program, k + 1, 5, more)
             /\ Place(WriteLogEntry \o Tail(todo), program, k + 1, 1, << >>)
  <2>1. Place(Tail(todo), program, k + 1, 5, << >>)
    BY <1>1, <1>3, Zenon
  <2>2. k + 1 \in 1 .. Len(program)
    BY <1>3, LenProperties
  <2>3. << >> \in LogLists
    BY DEF LogLists
  <2>4. Place(WriteLogEntry \o Tail(todo), program, k + 1, 1, << >>)
    BY <2>1, <2>2, <2>3, EntryFirst, Zenon
  <2>5. \A more \in LogLists : Place(more \o Tail(todo), program, k + 1, 5, more)
    BY <2>1, <2>2, LogsFirst, Zenon
  <2> QED  BY <2>4, <2>5
<1> QED
  BY <1>1, <1>2, <1>3, Zenon DEF Onward

LEMMA MainLeads ==
  ASSUME NEW code \in {"0", "1"}, NEW k \in 1 .. 20, NEW j \in 1 .. 5,
         NEW logs \in LogLists, NEW todo, Place(todo, Program(code), k, j, logs)
  PROVE  Onward(todo, Program(code), k, j, logs)
<1>1. Program(code) \in Seq(Instructions) /\ k \in 1 .. Len(Program(code))
  BY ProgramIs
<1> QED
  BY <1>1, Leads, Zenon

LEMMA HandlerLeads ==
  ASSUME NEW k \in 1 .. 4, NEW j \in 1 .. 5, NEW todo,
         Place(todo, HandleSignal, k, j, << >>)
  PROVE  Onward(todo, HandleSignal, k, j, << >>)
<1>1. HandleSignal \in Seq(Instructions) /\ k \in 1 .. Len(HandleSignal)
  BY HandleSignalIs
<1>2. << >> \in LogLists
  BY DEF LogLists
<1> QED
  BY <1>1, <1>2, Leads, Zenon

(* The logger goes through an entry.                                       *)
AfterEntry(X, word) ==
  /\ X \in Seq(Instructions) /\ X # << >>
  /\ word = "lock" => Head(X).do = "print"
  /\ word = "print" => Head(X).do = "append"
  /\ word = "append" => Head(X).do = "unlock"
  /\ word = "unlock" => Head(X).do \notin EntryWords

LEMMA EntryGoesOn ==
  ASSUME Frames, Instruction.do \in EntryWords,
         Moved(Tail(Top.todo)),
         UNCHANGED << launch, parsed, config, engine, open, socketFile, caught,
                      arrived >>
  PROVE  /\ Frames' /\ MovedTo(Tail(Top.todo))
         /\ AfterEntry(Tail(Top.todo), Instruction.do)
<1> DEFINE X == Tail(Top.todo)
           word == Instruction.do
<1>1. ASSUME NEW j \in 1 .. 5, NEW program, NEW k, NEW logs,
             First(Top.todo, program, k, j, logs)
      PROVE  /\ j < 5
             /\ j = 1 <=> word = "lock"
             /\ j = 2 <=> word = "print"
             /\ j = 3 <=> word = "append"
             /\ j = 4 <=> word = "unlock"
  <2>1. /\ word = "lock" <=> j = 1
        /\ word = "print" <=> j = 2
        /\ word = "append" <=> j = 3
        /\ word = "unlock" <=> j = 4
    BY <1>1, Zenon DEF First, Instruction
  <2>2. word \in {"lock", "print", "append", "unlock"}
    BY DEF EntryWords
  <2> QED  BY <2>1, <2>2
<1>2. ASSUME NEW j \in 1 .. 5, NEW program, NEW k, NEW logs,
             First(Top.todo, program, k, j, logs),
             First(X, program, k, j + 1, logs)
      PROVE  AfterEntry(X, word)
  <2>1. /\ j < 5
        /\ j = 1 <=> word = "lock"
        /\ j = 2 <=> word = "print"
        /\ j = 3 <=> word = "append"
        /\ j = 4 <=> word = "unlock"
    BY <1>1, <1>2, Zenon
  <2>2. /\ X \in Seq(Instructions) /\ X # << >>
        /\ Head(X).do = "lock" <=> j + 1 = 1
        /\ Head(X).do = "print" <=> j + 1 = 2
        /\ Head(X).do = "append" <=> j + 1 = 3
        /\ Head(X).do = "unlock" <=> j + 1 = 4
    BY <1>2, Zenon DEF First
  <2> HIDE DEF X, word
  <2>3. /\ word = "lock" => Head(X).do = "print"
        /\ word = "print" => Head(X).do = "append"
        /\ word = "append" => Head(X).do = "unlock"
        /\ word = "unlock" => Head(X).do \notin EntryWords
    BY <2>1, <2>2 DEF EntryWords
  <2> QED  BY <2>2, <2>3, Zenon DEF AfterEntry
<1>3. X \in Seq(Instructions) => MovedTo(X)
  BY Moves, Zenon
<1>4. ASSUME Len(stack) = 1, NEW code \in {"0", "1"}, NEW k \in 1 .. 20,
             NEW j \in 1 .. 5, NEW logs \in LogLists,
             MainPlace(Top.todo, code, k, j, logs), Reached(code, k)
      PROVE  Frames' /\ MovedTo(X) /\ AfterEntry(X, word)
  <2>1. Place(Top.todo, Program(code), k, j, logs) /\ (k <= 3 => j = 5 /\ logs = << >>)
    BY <1>4 DEF MainPlace
  <2>2. First(Top.todo, Program(code), k, j, logs)
    BY <2>1, MainFirst, Zenon
  <2>3. j < 5
    BY <1>1, <2>2, Zenon
  <2>4. j + 1 \in 1 .. 5 /\ ~ (k <= 3)
    BY <2>1, <2>3
  <2>5. Onward(Top.todo, Program(code), k, j, logs)
    BY <2>1, MainLeads, Zenon
  <2>6. Place(X, Program(code), k, j + 1, logs)
    BY <2>3, <2>5, Zenon DEF Onward
  <2>7. First(X, Program(code), k, j + 1, logs)
    BY <2>4, <2>6, MainFirst, Zenon
  <2>8. AfterEntry(X, word)
    BY <1>2, <2>2, <2>7, Zenon
  <2>9. MovedTo(X)
    BY <1>3, <2>8, Zenon DEF AfterEntry
  <2>10. MainPlace(X, code, k, j + 1, logs)
    BY <2>4, <2>6, Zenon DEF MainPlace
  <2>11. Reached(code, k)'
    BY <1>4, <2>4, Zenon DEF Reached
  <2>12. Frames'
    BY <1>4, <2>4, <2>9, <2>10, <2>11, MainMoves, Zenon
  <2> QED  BY <2>8, <2>9, <2>12, Zenon
<1>5. ASSUME Len(stack) > 1, NEW k \in 1 .. 4, NEW j \in 1 .. 5,
             HandlerPlace(Top.todo, k, j)
      PROVE  Frames' /\ MovedTo(X) /\ AfterEntry(X, word)
  <2>1. Place(Top.todo, HandleSignal, k, j, << >>)
        /\ (j < 5 => Severity(config.level) <= Severity("info"))
    BY <1>5, Zenon DEF HandlerPlace
  <2>2. First(Top.todo, HandleSignal, k, j, << >>)
    BY <2>1, HandlerFirst, Zenon
  <2>3. j < 5
    BY <1>1, <2>2, Zenon
  <2>4. j + 1 \in 1 .. 5
    BY <2>3
  <2>5. Onward(Top.todo, HandleSignal, k, j, << >>)
    BY <2>1, HandlerLeads, Zenon
  <2>6. Place(X, HandleSignal, k, j + 1, << >>)
    BY <2>3, <2>5, Zenon DEF Onward
  <2>7. First(X, HandleSignal, k, j + 1, << >>)
    BY <2>4, <2>6, HandlerFirst, Zenon
  <2>8. AfterEntry(X, word)
    BY <1>2, <2>2, <2>7, Zenon
  <2>9. MovedTo(X)
    BY <1>3, <2>8, Zenon DEF AfterEntry
  <2>10. HandlerPlace(X, k, j + 1)
    BY <2>1, <2>3, <2>6, Zenon DEF HandlerPlace
  <2>11. Frames'
    BY <1>5, <2>4, <2>9, <2>10, HandlerMoves, Zenon
  <2> QED  BY <2>8, <2>9, <2>11, Zenon
<1> HIDE DEF X, word
<1>6. Frames' /\ MovedTo(X) /\ AfterEntry(X, word)
  BY <1>4, <1>5, TopPlaces, Zenon
<1> QED
  BY <1>6, Zenon DEF X, word

(* A place that is in no entry, or at its lock.                            *)
Calm(X) ==
  /\ X \in Seq(Instructions) /\ X # << >>
  /\ Head(X).do \notin {"print", "append", "unlock"}

LEMMA CalmIs ==
  ASSUME NEW X, NEW program, NEW k, NEW j, j = 1 \/ j = 5, NEW logs,
         First(X, program, k, j, logs)
  PROVE  Calm(X)
<1>1. /\ X \in Seq(Instructions) /\ X # << >>
      /\ Head(X).do = "print" <=> j = 2
      /\ Head(X).do = "append" <=> j = 3
      /\ Head(X).do = "unlock" <=> j = 4
  BY Zenon DEF First
<1>2. j # 2 /\ j # 3 /\ j # 4
  OBVIOUS
<1> QED
  BY <1>1, <1>2, Zenon DEF Calm

LEMMA ReachedNext ==
  ASSUME NEW code, NEW k \in (3 .. 19) \ {8, 16, 17}, Reached(code, k)
  PROVE  Reached(code, k + 1)
  BY DEF Reached

LEMMA NothingMore ==
  ASSUME NEW todo \in Seq(Instructions), todo # << >>
  PROVE  << >> \o Tail(todo) = Tail(todo)
<1>1. Tail(todo) \in Seq(Instructions)
  BY HeadTailProperties, Zenon
<1> QED
  BY <1>1, ConcatEmptySeq, Zenon

(* The logger takes an entry, or drops it.                                 *)
Taken(X) ==
  X = (IF Passes(Instruction.level) THEN WriteLogEntry ELSE << >>) \o Tail(Top.todo)

LEMMA SeverityIs ==
  /\ "info" \in Range(Levels)
  /\ \A level \in Range(Levels) : Severity(level) \in Nat
<1>1. "info" \in Range(Levels)
  BY DEF Range, Levels
<1>2. ASSUME NEW level \in Range(Levels)
      PROVE  Severity(level) \in Nat
  <2>1. \E i \in DOMAIN Levels : Levels[i] = level
    BY Zenon DEF Range
  <2>2. Severity(level) \in DOMAIN Levels
    BY <2>1, Zenon DEF Severity
  <2>3. DOMAIN Levels = 1 .. 5
    BY DEF Levels
  <2> QED  BY <2>2, <2>3
<1> QED
  BY <1>1, <1>2

LEMMA LogGoesOn ==
  ASSUME Kept, Frames, Instruction.do = "log", NEW X, Taken(X), Moved(X),
         UNCHANGED << launch, parsed, config, written, engine, open, socketFile,
                      caught, arrived >>
  PROVE  Frames' /\ MovedTo(X) /\ Calm(X)
<1>0. \/ Passes(Instruction.level) /\ X = WriteLogEntry \o Tail(Top.todo)
      \/ ~ Passes(Instruction.level) /\ X = << >> \o Tail(Top.todo)
  BY Zenon DEF Taken
<1>1. X \in Seq(Instructions) => MovedTo(X)
  BY Moves, Zenon
<1>2. ASSUME Len(stack) = 1, NEW code \in {"0", "1"}, NEW k \in 1 .. 20,
             NEW j \in 1 .. 5, NEW logs \in LogLists,
             MainPlace(Top.todo, code, k, j, logs), Reached(code, k)
      PROVE  Frames' /\ MovedTo(X) /\ Calm(X)
  <2>1. Place(Top.todo, Program(code), k, j, logs) /\ (k <= 3 => j = 5 /\ logs = << >>)
    BY <1>2 DEF MainPlace
  <2>2. First(Top.todo, Program(code), k, j, logs)
    BY <2>1, MainFirst, Zenon
  <2>3. /\ Top.todo \in Seq(Instructions) /\ Top.todo # << >>
        /\ j = 5
        /\ logs # << >> \/ (logs = << >> /\ Program(code)[k].do = "log")
    BY <2>2, Zenon DEF First, Instruction
  <2>4. Onward(Top.todo, Program(code), k, j, logs)
    BY <2>1, MainLeads, Zenon
  <2>5. PICK l \in 4 .. 20, h \in {1, 5}, more \in LogLists :
          Place(X, Program(code), l, h, more) /\ Reached(code, l)
    <3>1. CASE logs # << >>
      <4>1. /\ Tail(logs) \in LogLists
            /\ Place(Tail(Top.todo), Program(code), k, 5, Tail(logs))
            /\ Place(WriteLogEntry \o Tail(Top.todo), Program(code), k, 1, Tail(logs))
        BY <2>3, <2>4, <3>1, Zenon DEF Onward
      <4>2. << >> \o Tail(Top.todo) = Tail(Top.todo)
        BY <2>3, NothingMore, Zenon
      <4>3. k \in 4 .. 20 /\ 1 \in {1, 5} /\ 5 \in {1, 5}
        BY <2>1, <3>1
      <4> QED  BY <1>0, <1>2, <4>1, <4>2, <4>3, Zenon
    <3>2. CASE logs = << >>
      <4>1. Program(code)[k].do = "log"
        BY <2>3, <3>2, Zenon
      <4>2. k \in {4, 9, 12, 15, 19}
        BY <4>1, PlaceOfWord, Zenon
      <4>3. k < Len(Program(code))
        <5>1. k < 20
          BY <4>2
        <5>2. Len(Program(code)) = 20
          BY ProgramIs, Zenon
        <5> QED  BY <5>1, <5>2, Zenon
      <4>4. /\ Place(Tail(Top.todo), Program(code), k + 1, 5, << >>)
            /\ Place(WriteLogEntry \o Tail(Top.todo), Program(code), k + 1, 1, << >>)
        BY <2>3, <2>4, <3>2, <4>3, Zenon DEF Onward
      <4>5. << >> \o Tail(Top.todo) = Tail(Top.todo)
        BY <2>3, NothingMore, Zenon
      <4>6. k + 1 \in 4 .. 20 /\ 1 \in {1, 5} /\ 5 \in {1, 5} /\ << >> \in LogLists
        BY <4>2 DEF LogLists
      <4>7. Reached(code, k + 1)
        <5>1. k \in (3 .. 19) \ {8, 16, 17}
          BY <4>2
        <5> QED  BY <1>2, <5>1, ReachedNext, Zenon
      <4> QED  BY <1>0, <4>4, <4>5, <4>6, <4>7, Zenon
    <3> QED  BY <3>1, <3>2
  <2>6. l \in 1 .. 20 /\ h \in 1 .. 5 /\ ~ (l <= 3) /\ (h = 1 \/ h = 5)
    BY <2>5
  <2>7. Calm(X)
    <3>1. First(X, Program(code), l, h, more)
      BY <2>5, <2>6, MainFirst, Zenon
    <3> QED  BY <2>6, <3>1, CalmIs, Zenon
  <2>8. MovedTo(X)
    BY <1>1, <2>7, Zenon DEF Calm
  <2>9. MainPlace(X, code, l, h, more) /\ Reached(code, l)'
    BY <2>5, <2>6, Zenon DEF MainPlace, Reached
  <2>10. Frames'
    BY <1>2, <2>6, <2>8, <2>9, MainMoves, Zenon
  <2> QED  BY <2>7, <2>8, <2>10, Zenon
<1>3. ASSUME Len(stack) > 1, NEW k \in 1 .. 4, NEW j \in 1 .. 5,
             HandlerPlace(Top.todo, k, j)
      PROVE  Frames' /\ MovedTo(X) /\ Calm(X)
  <2>1. Place(Top.todo, HandleSignal, k, j, << >>)
        /\ (j < 5 => Severity(config.level) <= Severity("info"))
    BY <1>3, Zenon DEF HandlerPlace
  <2>2. First(Top.todo, HandleSignal, k, j, << >>)
    BY <2>1, HandlerFirst, Zenon
  <2>3. /\ Top.todo \in Seq(Instructions) /\ Top.todo # << >>
        /\ j = 5 /\ Instruction = HandleSignal[k] /\ HandleSignal[k].do = "log"
    BY <2>2, Zenon DEF First, Instruction
  <2>4. k \in {1, 3} /\ Instruction = Log("info")
    BY <2>3, PlaceOfHandler, Zenon
  <2>5. Onward(Top.todo, HandleSignal, k, j, << >>)
    BY <2>1, HandlerLeads, Zenon
  <2>6. k < Len(HandleSignal) /\ k + 1 \in 1 .. 4
    BY <2>4, HandleSignalIs
  <2>7. /\ Place(Tail(Top.todo), HandleSignal, k + 1, 5, << >>)
        /\ Place(WriteLogEntry \o Tail(Top.todo), HandleSignal, k + 1, 1, << >>)
    BY <2>3, <2>5, <2>6, Zenon DEF Onward
  <2>8. << >> \o Tail(Top.todo) = Tail(Top.todo)
    BY <2>3, NothingMore, Zenon
  <2>9. Passes(Instruction.level) => Severity(config.level) <= Severity("info")
    <3>1. Instruction.level = "info" /\ "info" # "any"
      BY <2>4 DEF Log
    <3>2. Passes(Instruction.level) => Severity("info") >= Severity(config.level)
      BY <3>1, Zenon DEF Passes
    <3> DEFINE a == Severity("info")
               b == Severity(config.level)
    <3>3. a \in Nat /\ b \in Nat
      BY SeverityIs, Zenon DEF Kept, IsConfig
    <3> HIDE DEF a, b
    <3>4. a >= b => b <= a
      BY <3>3
    <3> QED  BY <3>2, <3>4, Zenon DEF a, b
  <2>10. PICK h \in {1, 5} : HandlerPlace(X, k + 1, h)
    <3>1. 1 \in {1, 5} /\ 5 \in {1, 5} /\ ~ (5 < 5)
      OBVIOUS
    <3> QED  BY <1>0, <2>7, <2>8, <2>9, <3>1, Zenon DEF HandlerPlace
  <2>11. h \in 1 .. 5 /\ (h = 1 \/ h = 5)
    BY <2>10
  <2>12. Calm(X)
    <3>1. First(X, HandleSignal, k + 1, h, << >>)
      BY <2>6, <2>10, <2>11, HandlerFirst, Zenon DEF HandlerPlace
    <3> QED  BY <2>11, <3>1, CalmIs, Zenon
  <2>13. MovedTo(X)
    BY <1>1, <2>12, Zenon DEF Calm
  <2>14. Frames'
    BY <1>3, <2>6, <2>10, <2>11, <2>13, HandlerMoves, Zenon
  <2> QED  BY <2>12, <2>13, <2>14, Zenon
<1> QED
  BY <1>2, <1>3, TopPlaces, Zenon

(* Main goes on to the next instruction, with more to log first.           *)
LEMMA MainGoesOn ==
  ASSUME Frames, Len(stack) = 1,
         NEW code \in {"0", "1"}, NEW k \in 1 .. 19,
         MainPlace(Top.todo, code, k, 5, << >>),
         NEW more \in LogLists, k + 1 <= 3 => more = << >>,
         Moved(more \o Tail(Top.todo)), Reached(code, k + 1)'
  PROVE  Frames' /\ MovedTo(more \o Tail(Top.todo)) /\ Calm(more \o Tail(Top.todo))
<1> DEFINE X == more \o Tail(Top.todo)
<1>1. k \in 1 .. 20 /\ k + 1 \in 1 .. 20 /\ 5 \in 1 .. 5 /\ << >> \in LogLists
      /\ k < 20
  BY DEF LogLists
<1>2. Place(Top.todo, Program(code), k, 5, << >>)
  BY DEF MainPlace
<1>3. Onward(Top.todo, Program(code), k, 5, << >>)
  BY <1>1, <1>2, MainLeads, Zenon
<1>4. Place(X, Program(code), k + 1, 5, more)
  <2>1. k < Len(Program(code))
    <3>1. Len(Program(code)) = 20
      BY ProgramIs, Zenon
    <3> QED  BY <1>1, <3>1, Zenon
  <2> QED  BY <1>3, <2>1, Zenon DEF Onward
<1>5. MainPlace(X, code, k + 1, 5, more)
  BY <1>4, Zenon DEF MainPlace
<1>6. Calm(X)
  <2>1. First(X, Program(code), k + 1, 5, more)
    BY <1>1, <1>4, MainFirst, Zenon
  <2> QED  BY <2>1, CalmIs, Zenon
<1>7. MovedTo(X)
  BY <1>6, Moves, Zenon DEF Calm
<1>8. Frames'
  BY <1>1, <1>5, <1>7, MainMoves, Zenon
<1> QED
  BY <1>6, <1>7, <1>8, Zenon

(* Main gives up, and is destroyed.                                        *)
LEMMA RestOfProgram ==
  /\ Rest(Program("1"), 16) = Destructors("1")
  /\ Rest(Program("0"), 1) = Main
<1>1. Rest(Program("1"), 16) = Destructors("1")
  <2> DEFINE s == SubSeq(Main, 1, 15)
             t == Destructors("1")
  <2>1. Main \in Seq(Instructions) /\ Len(Main) = 20
    BY MainIs, Zenon
  <2>2. s \in Seq(Instructions) /\ Len(s) = 15
    BY <2>1
  <2>3. t \in Seq(Instructions) /\ Len(t) = 5
    BY DestructorsAre
  <2>4. Program("1") = s \o t /\ Len(Program("1")) = 20
    <3>1. Program("1") = s \o t
      BY Zenon DEF Program
    <3>2. Len(Program("1")) = 20
      BY ProgramIs
    <3> QED  BY <3>1, <3>2, Zenon
  <2> HIDE DEF s, t
  <2>5. 16 \in Len(s) + 1 .. Len(s) + Len(t) /\ 20 \in Len(s) + 1 .. Len(s) + Len(t)
        /\ 16 - Len(s) = 1 /\ 20 - Len(s) = Len(t)
    BY <2>2, <2>3
  <2>6. SubSeq(s \o t, 16, 20) = SubSeq(t, 16 - Len(s), 20 - Len(s))
    BY <2>2, <2>3, <2>5, SubSeqOfConcat2, ZenonT(40)
  <2>7. SubSeq(t, 1, Len(t)) = t
    BY <2>3, SubSeqFull, Zenon
  <2>8. Rest(Program("1"), 16) = t
    BY <2>4, <2>5, <2>6, <2>7, Zenon DEF Rest
  <2> QED  BY <2>8, Zenon DEF t
<1>2. Rest(Program("0"), 1) = Main
  <2> DEFINE P == Program("0")
  <2>1. /\ P \in Seq(Instructions) /\ Len(P) = 20
        /\ \A i \in 1 .. 15 : P[i] = Main[i]
        /\ \A i \in 1 .. 5 : P[15 + i] = Destructors("0")[i]
    BY ProgramIs
  <2>2. /\ Main \in Seq(Instructions) /\ Len(Main) = 20
        /\ \A i \in 1 .. 5 : Main[15 + i] = Destructors("0")[i]
    BY MainIs, Zenon
  <2> HIDE DEF P
  <2>3. ASSUME NEW i \in 1 .. 20
        PROVE  P[i] = Main[i]
    <3>1. CASE i <= 15
      <4>1. i \in 1 .. 15
        BY <3>1
      <4> QED  BY <2>1, <4>1, Zenon
    <3>2. CASE ~ (i <= 15)
      <4>1. i - 15 \in 1 .. 5 /\ 15 + (i - 15) = i
        BY <3>2
      <4>2. P[15 + (i - 15)] = Main[15 + (i - 15)]
        BY <2>1, <2>2, <4>1, Zenon
      <4> QED  BY <4>1, <4>2, Zenon
    <3> QED  BY <3>1, <3>2
  <2>4. P = Main
    BY <2>1, <2>2, <2>3, SeqEqual
  <2>5. SubSeq(P, 1, Len(P)) = P
    BY <2>1, SubSeqFull, Zenon
  <2> QED  BY <2>4, <2>5, Zenon DEF Rest, P
<1> QED
  BY <1>1, <1>2

LEMMA MainAbandons ==
  ASSUME Frames, Len(stack) = 1, NEW more \in LogLists,
         Moved(more \o Destructors("1")), Reached("1", 16)'
  PROVE  /\ Frames' /\ MovedTo(more \o Destructors("1"))
         /\ Calm(more \o Destructors("1"))
<1> DEFINE X == more \o Destructors("1")
           t == Destructors("1")
<1>1. t \in Seq(Instructions)
  BY DestructorsAre
<1>2. more \in Seq(Instructions)
  BY LogListsAre, Zenon
<1>3. more \o t \in Seq(Instructions)
  BY <1>1, <1>2, ConcatProperties, Zenon
<1>4. Place(X, Program("1"), 16, 5, more)
  <2>1. << >> \o (more \o t) = more \o t
    BY <1>3, ConcatEmptySeq, Zenon
  <2> QED  BY <2>1, NoEntry, RestOfProgram, Zenon DEF Place
<1>5. 16 \in 1 .. 20 /\ 5 \in 1 .. 5 /\ ~ (16 <= 3) /\ "1" \in {"0", "1"}
  OBVIOUS
<1>6. MainPlace(X, "1", 16, 5, more)
  BY <1>4, <1>5, Zenon DEF MainPlace
<1>7. Calm(X)
  <2>1. First(X, Program("1"), 16, 5, more)
    BY <1>4, <1>5, MainFirst, Zenon
  <2> QED  BY <2>1, CalmIs, Zenon
<1>8. MovedTo(X)
  BY <1>7, Moves, Zenon DEF Calm
<1>9. Frames'
  BY <1>5, <1>6, <1>8, MainMoves, Zenon
<1> QED
  BY <1>7, <1>8, <1>9, Zenon

(* A coroutine logs, in the loop.                                          *)
LEMMA LoopGoesOn ==
  ASSUME Frames, Len(stack) = 1,
         NEW code \in {"0", "1"}, NEW k \in 4 .. 20,
         MainPlace(Top.todo, code, k, 5, << >>),
         NEW more \in LogLists, Moved(more \o Top.todo), Reached(code, k)'
  PROVE  Frames' /\ MovedTo(more \o Top.todo) /\ Calm(more \o Top.todo)
<1> DEFINE X == more \o Top.todo
<1>1. k \in 1 .. 20 /\ k \in 1 .. 20 /\ 5 \in 1 .. 5 /\ ~ (k <= 3)
  OBVIOUS
<1>2. Place(X, Program(code), k, 5, more)
  <2>1. Place(Top.todo, Program(code), k, 5, << >>)
    BY DEF MainPlace
  <2>2. Program(code) \in Seq(Instructions) /\ k \in 1 .. Len(Program(code))
    BY <1>1, ProgramIs
  <2> QED  BY <2>1, <2>2, LogsFirst, Zenon
<1>3. MainPlace(X, code, k, 5, more)
  BY <1>1, <1>2, Zenon DEF MainPlace
<1>4. Calm(X)
  <2>1. First(X, Program(code), k, 5, more)
    BY <1>1, <1>2, MainFirst, Zenon
  <2> QED  BY <2>1, CalmIs, Zenon
<1>5. MovedTo(X)
  BY <1>4, Moves, Zenon DEF Calm
<1>6. Frames'
  BY <1>1, <1>3, <1>5, MainMoves, Zenon
<1> QED
  BY <1>4, <1>5, <1>6, Zenon

(* Stop, in main or in a handler.                                          *)
LEMMA StopGoesOn ==
  ASSUME Frames, Instruction.do = "stop", Moved(<< >> \o Tail(Top.todo)),
         UNCHANGED << launch, parsed, config, written, engine, open, socketFile,
                      caught, arrived >>
  PROVE  /\ Frames' /\ MovedTo(<< >> \o Tail(Top.todo))
         /\ Calm(<< >> \o Tail(Top.todo))
<1> DEFINE X == << >> \o Tail(Top.todo)
<1>1. "stop" \notin EntryWords \cup {"log"}
  BY DEF EntryWords
<1>2. ASSUME Len(stack) = 1, NEW code \in {"0", "1"}, NEW k \in 1 .. 20,
             NEW j \in 1 .. 5, NEW logs \in LogLists,
             MainPlace(Top.todo, code, k, j, logs), Reached(code, k)
      PROVE  Frames' /\ MovedTo(X) /\ Calm(X)
  <2>1. First(Top.todo, Program(code), k, j, logs)
    BY <1>2, MainFirst, Zenon DEF MainPlace
  <2>2. j = 5 /\ logs = << >> /\ Program(code)[k].do = "stop"
    BY <1>1, <2>1, Zenon DEF First, Instruction
  <2>3. k = 18
    BY <2>2, PlaceOfWord, Zenon
  <2>4. k \in 1 .. 19 /\ k \in (3 .. 19) \ {8, 16, 17} /\ << >> \in LogLists
    BY <2>3 DEF LogLists
  <2>5. Reached(code, k + 1)
    BY <1>2, <2>4, ReachedNext, Zenon
  <2>6. Reached(code, k + 1)'
    BY <2>5, ZenonT(40) DEF Reached
  <2> QED  BY <1>2, <2>2, <2>4, <2>6, MainGoesOn, Zenon
<1>3. ASSUME Len(stack) > 1, NEW k \in 1 .. 4, NEW j \in 1 .. 5,
             HandlerPlace(Top.todo, k, j)
      PROVE  Frames' /\ MovedTo(X) /\ Calm(X)
  <2>1. Place(Top.todo, HandleSignal, k, j, << >>)
    BY <1>3, Zenon DEF HandlerPlace
  <2>2. First(Top.todo, HandleSignal, k, j, << >>)
    BY <2>1, HandlerFirst, Zenon
  <2>3. /\ Top.todo \in Seq(Instructions) /\ Top.todo # << >>
        /\ j = 5 /\ HandleSignal[k].do = "stop"
    BY <1>1, <2>2, Zenon DEF First, Instruction
  <2>4. k = 2
    BY <2>3, PlaceOfHandler, Zenon
  <2>5. Onward(Top.todo, HandleSignal, k, j, << >>)
    BY <2>1, HandlerLeads, Zenon
  <2>6. k + 1 \in 1 .. 4 /\ 5 \in 1 .. 5 /\ ~ (5 < 5)
    BY <2>4
  <2>7. Place(Tail(Top.todo), HandleSignal, k + 1, 5, << >>)
    BY <2>3, <2>5, Zenon DEF Onward
  <2>8. << >> \o Tail(Top.todo) = Tail(Top.todo)
    BY <2>3, NothingMore, Zenon
  <2>9. HandlerPlace(X, k + 1, 5)
    BY <2>6, <2>7, <2>8, Zenon DEF HandlerPlace
  <2>10. Calm(X)
    <3>1. First(X, HandleSignal, k + 1, 5, << >>)
      BY <2>6, <2>9, HandlerFirst, Zenon DEF HandlerPlace
    <3> QED  BY <3>1, CalmIs, Zenon
  <2>11. MovedTo(X)
    BY <2>10, Moves, Zenon DEF Calm
  <2>12. Frames'
    BY <1>3, <2>6, <2>9, <2>11, HandlerMoves, Zenon
  <2> QED  BY <2>10, <2>11, <2>12, Zenon
<1> QED
  BY <1>2, <1>3, TopPlaces, Zenon

----------------------------------------------------------------------------
(* The mutex and the entries.                                              *)

HoldingWords == {"print", "append", "unlock"}

LEMMA MutexMoves ==
  ASSUME Frames, Mutex, NEW X, MovedTo(X),
         \/ holder' = holder /\ (Head(X).do \in HoldingWords <=> Inside(Len(stack)))
         \/ holder = 0 /\ holder' = Len(stack) /\ Head(X).do \in HoldingWords
         \/ Inside(Len(stack)) /\ holder' = 0 /\ Head(X).do \notin HoldingWords
  PROVE  Mutex'
<1> DEFINE n == Len(stack)
<1>1. /\ stack'[n].todo = X /\ Len(stack') = n
      /\ \A i \in 1 .. n : i # n => stack'[i] = stack[i]
  BY DEF MovedTo
<1>2. n \in Nat /\ n \in 1 .. n /\ n # 0 /\ \A i \in 1 .. n : i # 0
  BY FramesAre
<1>3. holder \in 0 .. n /\ \A i \in 1 .. n : Inside(i) <=> holder = i
  BY DEF Mutex
<1>4. Inside(n)' <=> Head(X).do \in HoldingWords
  BY <1>1, Zenon DEF Inside, HoldingWords
<1>5. \A i \in 1 .. n : i # n => (Inside(i)' <=> Inside(i))
  BY <1>1, Zenon DEF Inside
<1> DEFINE after == Head(X).do \in HoldingWords
<1>6. \/ holder' = holder /\ (after <=> Inside(n))
      \/ holder = 0 /\ holder' = n /\ after
      \/ Inside(n) /\ holder' = 0 /\ ~ after
  OBVIOUS
<1>7. ASSUME NEW i \in 1 .. n
      PROVE  Inside(i)' <=> holder' = i
  <2>1. CASE i = n
    <3>1. Inside(n)' <=> after
      BY <1>4
    <3>2. Inside(n) <=> holder = n
      BY <1>2, <1>3, Zenon
    <3> HIDE DEF after
    <3>3. Inside(n)' <=> holder' = n
      BY <1>2, <1>6, <3>1, <3>2, Zenon
    <3> QED  BY <1>1, <2>1, <3>3, Zenon DEF Inside
  <2>2. CASE i # n
    <3>1. Inside(i)' <=> Inside(i)
      BY <1>5, <2>2, Zenon
    <3>2. Inside(i) <=> holder = i
      BY <1>3, Zenon
    <3>3. Inside(n) <=> holder = n
      BY <1>2, <1>3, Zenon
    <3>4. i # 0
      OBVIOUS
    <3> HIDE DEF after
    <3>5. holder' = i <=> holder = i
      BY <1>2, <1>6, <2>2, <3>3, <3>4, Zenon
    <3> QED  BY <3>1, <3>2, <3>5, Zenon
  <2> QED  BY <2>1, <2>2
<1>8. 0 \in 0 .. n /\ n \in 0 .. n
  BY <1>2
<1>9. holder' \in 0 .. n /\ \A i \in 1 .. n : Inside(i)' <=> holder' = i
  <2>1. holder' \in 0 .. n
    BY <1>3, <1>6, <1>8, Zenon
  <2> QED  BY <1>7, <2>1
<1> QED
  BY <1>1, <1>9, Zenon DEF Mutex

(* An entry that waits to get into the file.                               *)
Waits == holder # 0 /\ Head(stack[holder].todo).do = "append"

LEMMA LedgerSame ==
  ASSUME Ledger, config'.stdout = config.stdout, logFile' = logFile,
         written' = written, Waits' <=> Waits,
         Waits => stack'[holder'].who = stack[holder].who
  PROVE  Ledger'
<1>1. /\ written = [stdout |-> written.stdout, file |-> written.file,
                    disk |-> written.disk]
      /\ written.stdout \in Seq({"main"} \cup Signals)
      /\ written.file \in Seq({"main"} \cup Signals)
      /\ written.disk \in Seq({"main"} \cup Signals)
      /\ IsPrefix(written.disk, written.file)
  BY DEF Ledger
<1>2. config.stdout /\ logFile =>
        written.stdout = IF Waits THEN Append(written.file, stack[holder].who)
                         ELSE written.file
  BY Zenon DEF Ledger, Waits
<1>3. config'.stdout /\ logFile' =>
        written'.stdout = IF Waits' THEN Append(written'.file, stack'[holder'].who)
                          ELSE written'.file
  BY <1>2, Zenon
<1> QED
  BY <1>1, <1>3, Zenon DEF Ledger, Waits

(* A sequence is a prefix of itself, and of itself with one more; and what *)
(* is a prefix of it is one of it with one more.                           *)
LEMMA PrefixOfAppended ==
  ASSUME NEW S, NEW s \in Seq(S), NEW e \in S
  PROVE  /\ IsPrefix(s, s) /\ Len(s) - Len(s) <= 1
         /\ IsPrefix(s, Append(s, e)) /\ Len(Append(s, e)) - Len(s) <= 1
<1>1. Len(s) \in Nat /\ Len(Append(s, e)) = Len(s) + 1
  BY LenProperties, AppendProperties
<1>2. SubSeq(s, 1, Len(s)) = s
  BY SubSeqFull, Zenon
<1>3. SubSeq(Append(s, e), 1, Len(s)) = s
  OBVIOUS
<1>4. IsPrefix(s, s) /\ IsPrefix(s, Append(s, e))
  BY <1>1, <1>2, <1>3 DEF IsPrefix
<1> QED
  BY <1>1, <1>4

LEMMA PrefixStays ==
  ASSUME NEW S, NEW d \in Seq(S), NEW s \in Seq(S), NEW e \in S, IsPrefix(d, s)
  PROVE  IsPrefix(d, Append(s, e))
<1>1. /\ Len(d) \in Nat /\ Len(s) \in Nat /\ Len(Append(s, e)) = Len(s) + 1
      /\ Len(d) <= Len(s) /\ SubSeq(d, 1, Len(d)) = SubSeq(s, 1, Len(d))
  BY LenProperties, AppendProperties DEF IsPrefix
<1>2. SubSeq(Append(s, e), 1, Len(d)) = SubSeq(s, 1, Len(d))
  BY <1>1
<1> QED
  BY <1>1, <1>2 DEF IsPrefix

LEMMA WrittenIs ==
  ASSUME Ledger
  PROVE  \E a \in Seq({"main"} \cup Signals), b \in Seq({"main"} \cup Signals),
            d \in Seq({"main"} \cup Signals) :
           /\ written = [stdout |-> a, file |-> b, disk |-> d]
           /\ written.stdout = a /\ written.file = b /\ written.disk = d
           /\ IsPrefix(d, b)
           /\ config.stdout /\ logFile =>
                a = IF Waits THEN Append(b, stack[holder].who) ELSE b
  BY Zenon DEF Ledger, Waits

(* A step that is no part of an entry leaves mutex and entries alone.      *)
LEMMA CalmStep ==
  ASSUME Frames, Mutex, Ledger, NEW X, MovedTo(X), Calm(X),
         Instruction.do \notin HoldingWords, holder' = holder,
         config'.stdout = config.stdout, logFile' = logFile, written' = written
  PROVE  Mutex' /\ Ledger'
<1> DEFINE n == Len(stack)
<1>1. Top = stack[n] /\ n \in 1 .. n
  BY FramesAre
<1>2. ~ Inside(n)
  BY <1>1, Zenon DEF Inside, Instruction, HoldingWords
<1>3. Head(X).do \notin HoldingWords
  BY DEF Calm, HoldingWords
<1>4. Mutex'
  BY <1>2, <1>3, MutexMoves, Zenon
<1>5. holder # 0 => stack'[holder] = stack[holder]
  <2>1. holder \in 0 .. n /\ holder # n
    BY <1>1, <1>2 DEF Mutex
  <2>2. holder # 0 => holder \in 1 .. n
    BY <2>1
  <2> QED  BY <2>1, <2>2, Zenon DEF MovedTo
<1>6. (Waits' <=> Waits) /\ (Waits => stack'[holder'].who = stack[holder].who)
  BY <1>5, Zenon DEF Waits
<1> QED
  BY <1>4, <1>6, LedgerSame, Zenon

(* A step that leaves the thread alone.                                    *)
LEMMA QuietStep ==
  ASSUME Mutex, Ledger, stack' = stack, holder' = holder,
         config'.stdout = config.stdout, logFile' = logFile, written' = written
  PROVE  Mutex' /\ Ledger'
<1>1. Mutex'
  BY Zenon DEF Mutex, Inside
<1>2. (Waits' <=> Waits) /\ (Waits => stack'[holder'].who = stack[holder].who)
  BY Zenon DEF Waits
<1> QED
  BY <1>1, <1>2, LedgerSame, Zenon

(* Nothing is written before the logger is there.                          *)
LEMMA FirstSteps ==
  ASSUME Frames, Len(stack) = 1, Mutex, Ledger,
         Instruction.do \notin HoldingWords, holder' = holder,
         written' = written, written = [stdout |-> << >>, file |-> << >>, disk |-> << >>],
         \/ stack' = stack
         \/ \E X : MovedTo(X) /\ Calm(X)
  PROVE  Mutex' /\ Ledger'
<1>1. Top = stack[1] /\ 1 \in 1 .. Len(stack)
  BY FramesAre
<1>2. ~ Inside(1)
  BY <1>1, Zenon DEF Inside, Instruction, HoldingWords
<1>3. holder = 0
  <2>1. holder \in 0 .. 1 /\ holder # 1
    BY <1>1, <1>2 DEF Mutex
  <2> QED  BY <2>1
<1>4. Mutex'
  <2>1. ASSUME stack' = stack
        PROVE  Mutex'
    BY <2>1, Zenon DEF Mutex, Inside
  <2>2. ASSUME NEW X, MovedTo(X), Calm(X)
        PROVE  Mutex'
    <3>1. Head(X).do \notin HoldingWords
      BY <2>2 DEF Calm, HoldingWords
    <3>2. ~ Inside(Len(stack))
      BY <1>2, Zenon
    <3> QED  BY <2>2, <3>1, <3>2, MutexMoves, Zenon
  <2> QED  BY <2>1, <2>2
<1>5. /\ written' = [stdout |-> written'.stdout, file |-> written'.file,
                     disk |-> written'.disk]
      /\ written'.stdout \in Seq({"main"} \cup Signals)
      /\ written'.file \in Seq({"main"} \cup Signals)
      /\ written'.disk \in Seq({"main"} \cup Signals)
      /\ IsPrefix(written'.disk, written'.file)
      /\ written'.stdout = written'.file
  <2>1. written.stdout = written.file
    OBVIOUS
  <2> QED  BY <2>1, Zenon DEF Ledger
<1>6. ~ Waits'
  BY <1>3, Zenon DEF Waits
<1> QED
  BY <1>4, <1>5, <1>6, Zenon DEF Ledger, Waits

----------------------------------------------------------------------------
(* Initialize's steps.                                                     *)

LEMMA ReachedSame ==
  ASSUME NEW code, NEW k, Reached(code, k),
         UNCHANGED << launch, parsed, config, written, engine, open, socketFile,
                      caught >>
  PROVE  Reached(code, k)'
  BY DEF Reached

LEMMA FramesStay ==
  ASSUME Frames, stack' = stack,
         UNCHANGED << launch, parsed, config, written, engine, open, socketFile,
                      caught >>,
         arrived \subseteq arrived'
  PROVE  Frames'
<1>1. /\ launch' = launch /\ parsed' = parsed /\ config' = config
      /\ written' = written /\ engine' = engine /\ open' = open
      /\ socketFile' = socketFile /\ caught' = caught /\ arrived \subseteq arrived'
      /\ stack' = stack
  OBVIOUS
<1>2. MainFrame'
  <2>1. MainFrame
    BY DEF Frames
  <2>2. ASSUME NEW code, NEW k, Reached(code, k)
        PROVE  Reached(code, k)'
    BY <1>1, <2>2 DEF Reached
  <2> QED  BY <1>1, <2>1, <2>2, Zenon DEF MainFrame
<1>3. \A i : HandlerFrame(i) => HandlerFrame(i)'
  BY <1>1, Zenon DEF HandlerFrame
<1> QED
  BY <1>1, <1>2, <1>3, Zenon DEF Frames

LEMMA Unended ==
  ASSUME exit' \notin {"0", "1"}
  PROVE  Ended'
  BY DEF Ended, LeavesNothingBehind

LEMMA SourcesDomain ==
  ASSUME Kept
  PROVE  /\ DOMAIN Sources(launch) = 1 .. Len(launch.arguments) + 1
         /\ DOMAIN Sources(launch) \subseteq Nat \ {0}
         /\ DOMAIN Sources(launch) \subseteq Nat
         /\ Len(launch.arguments) \in Nat /\ parsed \in Nat
         /\ parsed <= Len(launch.arguments)
<1>1. DOMAIN Sources(launch) = 1 .. Len(launch.arguments) + 1
      /\ Len(launch.arguments) \in Nat
  BY SourcesOfLaunch, Zenon DEF Kept
<1>2. parsed \in 0 .. Len(launch.arguments)
  BY DEF Kept
<1> QED
  BY <1>1, <1>2

LEMMA LoadEnvironmentKeeps ==
  ASSUME IInv, LoadEnvironment
  PROVE  IInv'
<1>1. /\ exit = "none" /\ Instruction.do = "environment"
      /\ launch' = launch /\ parsed' = parsed /\ running' = running
      /\ holder' = holder /\ logFile' = logFile /\ written' = written
      /\ engine' = engine /\ open' = open /\ socketFile' = socketFile
      /\ caught' = caught /\ arrived' = arrived /\ entries' = entries
  BY DEF LoadEnvironment, At
<1>2. Kept /\ Frames /\ Mutex /\ Ledger
  BY DEF IInv
<1>3. CASE Throws(launch.environment)
  <2>1. exit' = "aborted" /\ config' = config /\ stack' = stack
    BY <1>3 DEF LoadEnvironment
  <2>2. Kept'
    BY <1>1, <1>2, <2>1 DEF Kept, Bound
  <2>3. Frames'
    BY <1>1, <1>2, <2>1, FramesStay, Zenon
  <2>4. Mutex' /\ Ledger'
    BY <1>1, <1>2, <2>1, QuietStep, Zenon
  <2>5. Ended'
    BY <2>1, Unended
  <2> QED  BY <2>2, <2>3, <2>4, <2>5 DEF IInv
<1>4. CASE ~ Throws(launch.environment)
  <2>1. /\ config' = LoadEnvironmentVariables(config, launch.environment)
        /\ Moved(<< >> \o Tail(Top.todo)) /\ exit' = exit
    BY <1>4 DEF LoadEnvironment, Continue, Moved, Top
  <2>2. Instruction.do \in MainWords /\ Instruction.do \notin HoldingWords
    BY <1>1 DEF MainWords, HoldingWords
  <2>3. Len(stack) = 1
    BY <1>2, <2>2, MainWord, Zenon
  <2>4. PICK code \in {"0", "1"}, k \in 1 .. 20 :
          /\ MainPlace(Top.todo, code, k, 5, << >>) /\ Reached(code, k)
          /\ Program(code)[k].do = Instruction.do
    BY <1>2, <2>2, MainWord, Zenon
  <2>5. k = 1
    <3>1. Program(code)[k].do = "environment"
      BY <1>1, <2>4
    <3> QED  BY <3>1, PlaceOfWord, Zenon
  <2>6. /\ code # "1" /\ config = Defaults /\ parsed = 0
        /\ written = [stdout |-> << >>, file |-> << >>, disk |-> << >>] /\ ~ engine
        /\ "tcp" \notin open /\ "unix" \notin open /\ caught = {}
    BY <2>4, <2>5 DEF Reached
  <2>7. /\ IsConfig(config) /\ launch \in Launches
        /\ IsEnvironment(launch.environment) /\ IsSource(launch.environment)
        /\ Sources(launch)[1] = launch.environment
    BY <1>2, SourcesOfLaunch, SourcesAreSources, Zenon DEF Kept
  <2>8. Applied(config, config', launch.environment)
    BY <1>4, <2>1, <2>7, EnvironmentMeans, Zenon
  <2>9. SettingsUpTo(Sources(launch), config', 1)
    <3>1. SettingsUpTo(Sources(launch), config, 0)
      BY <1>2, <2>6, SourcesDomain, SettingsAtFirst, Zenon
    <3>2. /\ 0 \in Nat /\ 0 + 1 = 1 /\ 1 \in DOMAIN Sources(launch)
          /\ DOMAIN Sources(launch) \subseteq Nat
      BY <1>2, SourcesDomain
    <3>3. Sources(launch)[0 + 1] = launch.environment
      BY <2>7, <3>2, Zenon
    <3>4. SettingsUpTo(Sources(launch), config', 0 + 1)
      BY <2>7, <2>8, <3>1, <3>2, <3>3, SettingsStep, Zenon
    <3> QED  BY <3>2, <3>4, Zenon
  <2>10. Reached(code, k + 1)'
    BY <1>1, <2>4, <2>5, <2>6, <2>9 DEF Reached
  <2>11. Frames' /\ MovedTo(<< >> \o Tail(Top.todo)) /\ Calm(<< >> \o Tail(Top.todo))
    <3>1. k \in 1 .. 19 /\ << >> \in LogLists
      BY <2>5 DEF LogLists
    <3> QED  BY <1>2, <2>1, <2>3, <2>4, <2>10, <3>1, MainGoesOn, Zenon
  <2>12. Mutex' /\ Ledger'
    BY <1>1, <1>2, <2>2, <2>3, <2>6, <2>11, FirstSteps, Zenon
  <2>13. Kept'
    <3>1. IsConfig(config')
      BY <2>8, Zenon DEF Applied
    <3> QED  BY <1>1, <1>2, <2>1, <2>6, <3>1 DEF Kept, Bound
  <2>14. Ended'
    BY <1>1, <2>1, Unended
  <2> QED  BY <2>11, <2>12, <2>13, <2>14 DEF IInv
<1> QED
  BY <1>3, <1>4

LEMMA ParseNextArgumentKeeps ==
  ASSUME IInv, ParseNextArgument
  PROVE  IInv'
<1> DEFINE argument == launch.arguments[parsed + 1]
<1>1. /\ exit = "none" /\ Instruction.do = "arguments"
      /\ parsed < Len(launch.arguments)
      /\ launch' = launch /\ stack' = stack /\ running' = running
      /\ holder' = holder /\ logFile' = logFile /\ written' = written
      /\ engine' = engine /\ open' = open /\ socketFile' = socketFile
      /\ caught' = caught /\ arrived' = arrived /\ entries' = entries
  BY DEF ParseNextArgument, At
<1>2. Kept /\ Frames /\ Mutex /\ Ledger
  BY DEF IInv
<1>3. CASE ArgumentThrows(argument)
  <2>1. exit' = "aborted" /\ config' = config /\ parsed' = parsed
    BY <1>3 DEF ParseNextArgument
  <2>2. Kept'
    BY <1>1, <1>2, <2>1 DEF Kept, Bound
  <2>3. Frames'
    BY <1>1, <1>2, <2>1, FramesStay, Zenon
  <2>4. Mutex' /\ Ledger'
    BY <1>1, <1>2, <2>1, QuietStep, Zenon
  <2>5. Ended'
    BY <2>1, Unended
  <2> QED  BY <2>2, <2>3, <2>4, <2>5 DEF IInv
<1>4. CASE ~ ArgumentThrows(argument)
  <2>1. /\ config' = ParseArgument(config, argument)
        /\ parsed' = parsed + 1 /\ exit' = exit
    BY <1>4 DEF ParseNextArgument
  <2>2. Instruction.do \in MainWords /\ Instruction.do \notin HoldingWords
    BY <1>1 DEF MainWords, HoldingWords
  <2>3. Len(stack) = 1 /\ Top = stack[1]
    BY <1>2, <2>2, MainWord, Zenon
  <2>4. PICK code \in {"0", "1"}, k \in 1 .. 20 :
          /\ MainPlace(Top.todo, code, k, 5, << >>) /\ Reached(code, k)
          /\ Program(code)[k].do = Instruction.do
    BY <1>2, <2>2, MainWord, Zenon
  <2>5. k = 2
    <3>1. Program(code)[k].do = "arguments"
      BY <1>1, <2>4
    <3> QED  BY <3>1, PlaceOfWord, Zenon
  <2>6. /\ code # "1" /\ SettingsUpTo(Sources(launch), config, parsed + 1)
        /\ written = [stdout |-> << >>, file |-> << >>, disk |-> << >>] /\ ~ engine
        /\ "tcp" \notin open /\ "unix" \notin open /\ caught = {}
    BY <2>4, <2>5 DEF Reached
  <2>7. /\ IsConfig(config) /\ launch \in Launches
        /\ parsed \in Nat /\ Len(launch.arguments) \in Nat
        /\ parsed + 1 \in 1 .. Len(launch.arguments) /\ parsed + 1 \in Nat
        /\ parsed + 1 \in 0 .. Len(launch.arguments)
        /\ (parsed + 1) + 1 \in 1 .. Len(launch.arguments) + 1
    <3>1. IsConfig(config) /\ launch \in Launches
      BY <1>2 DEF Kept
    <3>2. parsed \in Nat /\ Len(launch.arguments) \in Nat
      BY <1>2, SourcesDomain, Zenon
    <3> QED  BY <1>1, <3>1, <3>2
  <2>8. /\ IsArgument(argument) /\ IsSource(SourceOf(argument))
        /\ Sources(launch)[(parsed + 1) + 1] = SourceOf(argument)
    BY <2>7, SourcesOfLaunch, SourcesAreSources, Zenon
  <2>9. Applied(config, config', SourceOf(argument))
    BY <1>4, <2>1, <2>7, <2>8, ArgumentMeans, Zenon
  <2>10. SettingsUpTo(Sources(launch), config', (parsed + 1) + 1)
    <3>1. /\ (parsed + 1) + 1 \in DOMAIN Sources(launch)
          /\ DOMAIN Sources(launch) \subseteq Nat
      BY <1>2, <2>7, SourcesDomain, Zenon
    <3> HIDE DEF argument
    <3> QED  BY <2>6, <2>7, <2>8, <2>9, <3>1, SettingsStep, Zenon
  <2>11. Reached(code, k)'
    BY <1>1, <2>1, <2>4, <2>5, <2>6, <2>10 DEF Reached
  <2>12. Frames'
    <3>1. 5 \in 1 .. 5 /\ << >> \in LogLists
      BY DEF LogLists
    <3>2. MainPlace(stack[1].todo, code, k, 5, << >>)
      BY <2>3, <2>4, Zenon
    <3> QED  BY <1>1, <1>2, <2>3, <2>11, <3>1, <3>2, MainStays, Zenon
  <2>13. Mutex' /\ Ledger'
    BY <1>1, <1>2, <2>2, <2>3, <2>6, FirstSteps, Zenon
  <2>14. Kept'
    <3>1. IsConfig(config')
      BY <2>9, Zenon DEF Applied
    <3> HIDE DEF argument
    <3> QED  BY <1>1, <1>2, <2>1, <2>6, <2>7, <3>1 DEF Kept, Bound
  <2>15. Ended'
    BY <1>1, <2>1, Unended
  <2> QED  BY <2>12, <2>13, <2>14, <2>15 DEF IInv
<1> QED
  BY <1>3, <1>4

(* Main executes word at place k.                                          *)
MainDoes(word, code, k) ==
  /\ MainPlace(Top.todo, code, k, 5, << >>) /\ Reached(code, k)
  /\ Program(code)[k].do = word

LEMMA MainAt ==
  ASSUME IInv, NEW word \in MainWords, At(word)
  PROVE  /\ Len(stack) = 1 /\ Top = stack[1]
         /\ exit = "none" /\ Instruction.do \notin HoldingWords
         /\ \E code \in {"0", "1"}, k \in 1 .. 20 : MainDoes(word, code, k)
<1>1. Frames /\ Instruction.do = word /\ exit = "none"
  BY DEF IInv, At
<1>2. Instruction.do \in MainWords
  BY <1>1
<1>3. Instruction.do \notin HoldingWords
  BY <1>2 DEF MainWords, HoldingWords
<1> QED
  BY <1>1, <1>2, <1>3, MainWord, Zenon DEF MainDoes

LEMMA ReachedAbandoned ==
  ASSUME NEW code, NEW k \in 3 .. 20, Reached(code, k)
  PROVE  Reached("1", 16)
  BY DEF Reached

LEMMA MainStepKeeps ==
  ASSUME IInv, Instruction.do \notin HoldingWords,
         exit = "none", exit' = exit, holder' = holder, written' = written,
         config'.stdout = config.stdout, logFile' = logFile,
         Kept', Frames', NEW X, MovedTo(X), Calm(X)
  PROVE  IInv'
<1>1. Frames /\ Mutex /\ Ledger
  BY DEF IInv
<1>2. Mutex' /\ Ledger'
  BY <1>1, CalmStep, Zenon
<1>3. Ended'
  BY Unended
<1> QED
  BY <1>2, <1>3 DEF IInv

LEMMA ArgumentsParsedKeeps ==
  ASSUME IInv, ArgumentsParsed
  PROVE  IInv'
<1>1. /\ At("arguments") /\ parsed = Len(launch.arguments)
      /\ Moved(<< >> \o Tail(Top.todo))
      /\ launch' = launch /\ parsed' = parsed /\ config' = config
      /\ running' = running /\ holder' = holder /\ logFile' = logFile
      /\ written' = written /\ engine' = engine /\ open' = open
      /\ socketFile' = socketFile /\ caught' = caught /\ arrived' = arrived
      /\ entries' = entries /\ exit' = exit
  BY DEF ArgumentsParsed, Continue, Moved, Top
<1>2. "arguments" \in MainWords
  BY DEF MainWords
<1>3. /\ Kept /\ Frames
      /\ Len(stack) = 1 /\ exit = "none" /\ Instruction.do \notin HoldingWords
  BY <1>1, <1>2, MainAt, Zenon DEF IInv
<1>4. PICK code \in {"0", "1"}, k \in 1 .. 20 : MainDoes("arguments", code, k)
  BY <1>1, <1>2, MainAt, Zenon
<1>5. MainPlace(Top.todo, code, k, 5, << >>) /\ Reached(code, k)
  BY <1>4 DEF MainDoes
<1>6. k = 2
  BY <1>4, PlaceOfWord, Zenon DEF MainDoes
<1>7. Reached(code, k + 1)'
  BY <1>1, <1>5, <1>6 DEF Reached
<1>8. k \in 1 .. 19 /\ << >> \in LogLists
  BY <1>6 DEF LogLists
<1>9. Frames' /\ MovedTo(<< >> \o Tail(Top.todo)) /\ Calm(<< >> \o Tail(Top.todo))
  BY <1>1, <1>3, <1>5, <1>7, <1>8, MainGoesOn, Zenon
<1>10. Kept'
  BY <1>1, <1>3 DEF Kept, Bound
<1> QED
  BY <1>1, <1>3, <1>9, <1>10, MainStepKeeps, Zenon

LEMMA InitializeLoggerKeeps ==
  ASSUME IInv, InitializeLogger
  PROVE  IInv'
<1>1. /\ At("logger") /\ Moved(<< >> \o Tail(Top.todo)) /\ logFile' \in BOOLEAN
      /\ launch' = launch /\ parsed' = parsed /\ config' = config
      /\ running' = running /\ holder' = holder
      /\ written' = written /\ engine' = engine /\ open' = open
      /\ socketFile' = socketFile /\ caught' = caught /\ arrived' = arrived
      /\ entries' = entries /\ exit' = exit
  BY DEF InitializeLogger, Continue, Moved, Top
<1>2. "logger" \in MainWords
  BY DEF MainWords
<1>3. /\ Kept /\ Frames /\ Mutex /\ Ledger
      /\ Len(stack) = 1 /\ exit = "none" /\ Instruction.do \notin HoldingWords
  BY <1>1, <1>2, MainAt, Zenon DEF IInv
<1>4. PICK code \in {"0", "1"}, k \in 1 .. 20 : MainDoes("logger", code, k)
  BY <1>1, <1>2, MainAt, Zenon
<1>5. MainPlace(Top.todo, code, k, 5, << >>) /\ Reached(code, k)
  BY <1>4 DEF MainDoes
<1>6. k = 3
  BY <1>4, PlaceOfWord, Zenon DEF MainDoes
<1>7. written = [stdout |-> << >>, file |-> << >>, disk |-> << >>]
  BY <1>5, <1>6 DEF Reached
<1>8. Reached(code, k + 1)'
  BY <1>1, <1>5, <1>6 DEF Reached
<1>9. k \in 1 .. 19 /\ << >> \in LogLists
  BY <1>6 DEF LogLists
<1>10. Frames' /\ MovedTo(<< >> \o Tail(Top.todo)) /\ Calm(<< >> \o Tail(Top.todo))
  BY <1>1, <1>3, <1>5, <1>8, <1>9, MainGoesOn, Zenon
<1>11. Mutex' /\ Ledger'
  BY <1>1, <1>3, <1>7, <1>10, FirstSteps, Zenon
<1>12. Kept'
  BY <1>1, <1>3 DEF Kept, Bound
<1>13. Ended'
  BY <1>1, <1>3, Unended
<1> QED
  BY <1>10, <1>11, <1>12, <1>13 DEF IInv

LEMMA InitializeEventLoopKeeps ==
  ASSUME IInv, InitializeEventLoop
  PROVE  IInv'
<1>1. /\ At("epoll")
      /\ \/ Moved(<< Log("info") >> \o Tail(Top.todo))
         \/ Moved(<< Log("error") >> \o Destructors("1"))
      /\ launch' = launch /\ parsed' = parsed /\ config' = config
      /\ running' = running /\ holder' = holder /\ logFile' = logFile
      /\ written' = written /\ engine' = engine /\ open' = open
      /\ socketFile' = socketFile /\ caught' = caught /\ arrived' = arrived
      /\ entries' = entries /\ exit' = exit
  BY DEF InitializeEventLoop, Continue, Abandon, Moved, Top
<1>2. "epoll" \in MainWords
  BY DEF MainWords
<1>3. /\ Kept /\ Frames
      /\ Len(stack) = 1 /\ exit = "none" /\ Instruction.do \notin HoldingWords
  BY <1>1, <1>2, MainAt, Zenon DEF IInv
<1>4. PICK code \in {"0", "1"}, k \in 1 .. 20 : MainDoes("epoll", code, k)
  BY <1>1, <1>2, MainAt, Zenon
<1>5. MainPlace(Top.todo, code, k, 5, << >>) /\ Reached(code, k)
  BY <1>4 DEF MainDoes
<1>6. k = 5
  BY <1>4, PlaceOfWord, Zenon DEF MainDoes
<1>7. /\ k \in 1 .. 19 /\ k \in 3 .. 20 /\ k \in (3 .. 19) \ {8, 16, 17}
      /\ ~ (k + 1 <= 3)
  BY <1>6
<1>8. Reached(code, k + 1) /\ Reached("1", 16)
  BY <1>5, <1>7, ReachedNext, ReachedAbandoned, Zenon
<1>9. Reached(code, k + 1)' /\ Reached("1", 16)'
  BY <1>1, <1>8, ReachedSame, Zenon
<1>10. << Log("info") >> \in LogLists /\ << Log("error") >> \in LogLists
  BY LogIsInstruction DEF LogLists
<1>11. Kept'
  BY <1>1, <1>3 DEF Kept, Bound
<1>12. CASE Moved(<< Log("info") >> \o Tail(Top.todo))
  <2> DEFINE X == << Log("info") >> \o Tail(Top.todo)
  <2>1. Frames' /\ MovedTo(X) /\ Calm(X)
    BY <1>3, <1>5, <1>7, <1>9, <1>10, <1>12, MainGoesOn, Zenon
  <2> QED  BY <1>1, <1>3, <1>11, <2>1, MainStepKeeps, Zenon
<1>13. CASE Moved(<< Log("error") >> \o Destructors("1"))
  <2> DEFINE X == << Log("error") >> \o Destructors("1")
  <2>1. Frames' /\ MovedTo(X) /\ Calm(X)
    BY <1>3, <1>9, <1>10, <1>13, MainAbandons, Zenon
  <2> QED  BY <1>1, <1>3, <1>11, <2>1, MainStepKeeps, Zenon
<1> QED
  BY <1>1, <1>12, <1>13

LEMMA InitializeTokenEngineKeeps ==
  ASSUME IInv, InitializeTokenEngine
  PROVE  IInv'
<1>1. /\ At("tokens")
      /\ \/ /\ config.loaded /\ engine' = TRUE
            /\ Moved(<< Log("info"), Log("info"), Log("info") >> \o Tail(Top.todo))
         \/ /\ Moved(<< Log("error"), Log("warning") >> \o Tail(Top.todo))
            /\ engine' = engine
         \/ Moved(<< Log("warning") >> \o Tail(Top.todo)) /\ engine' = engine
      /\ launch' = launch /\ parsed' = parsed /\ config' = config
      /\ running' = running /\ holder' = holder /\ logFile' = logFile
      /\ written' = written /\ open' = open
      /\ socketFile' = socketFile /\ caught' = caught /\ arrived' = arrived
      /\ entries' = entries /\ exit' = exit
  BY DEF InitializeTokenEngine, Continue, Moved, Top
<1>2. "tokens" \in MainWords
  BY DEF MainWords
<1>3. /\ Kept /\ Frames
      /\ Len(stack) = 1 /\ exit = "none" /\ Instruction.do \notin HoldingWords
  BY <1>1, <1>2, MainAt, Zenon DEF IInv
<1>4. PICK code \in {"0", "1"}, k \in 1 .. 20 : MainDoes("tokens", code, k)
  BY <1>1, <1>2, MainAt, Zenon
<1>5. MainPlace(Top.todo, code, k, 5, << >>) /\ Reached(code, k)
  BY <1>4 DEF MainDoes
<1>6. k = 6
  BY <1>4, PlaceOfWord, Zenon DEF MainDoes
<1>7. k \in 1 .. 19 /\ ~ (k + 1 <= 3)
  BY <1>6
<1>8. Reached(code, k + 1)'
  BY <1>1, <1>5, <1>6 DEF Reached
<1>9. /\ << Log("info"), Log("info"), Log("info") >> \in LogLists
      /\ << Log("error"), Log("warning") >> \in LogLists
      /\ << Log("warning") >> \in LogLists
  BY LogIsInstruction DEF LogLists
<1>10. PICK more \in LogLists : Moved(more \o Tail(Top.todo))
  BY <1>1, <1>9, Zenon
<1>11. Kept'
  <2>1. (engine' = TRUE /\ config.loaded) \/ engine' = engine
    BY <1>1, Zenon
  <2>2. /\ launch' = launch /\ parsed' = parsed /\ config' = config
        /\ running' = running /\ logFile' = logFile /\ open' = open
        /\ socketFile' = socketFile /\ caught' = caught /\ arrived' = arrived
        /\ entries' = entries /\ exit' = exit
    BY <1>1, Zenon
  <2>3. engine' \in BOOLEAN /\ (engine' => config'.loaded)
    <3>1. CASE engine' = TRUE /\ config.loaded
      <4>1. engine' \in BOOLEAN
        BY <3>1
      <4>2. config'.loaded
        BY <2>2, <3>1, Zenon
      <4> QED  BY <4>1, <4>2
    <3>2. CASE engine' = engine
      BY <1>3, <2>2, <3>2, Zenon DEF Kept
    <3> QED  BY <2>1, <3>1, <3>2
  <2> QED  BY <1>3, <2>2, <2>3, Zenon DEF Kept, Bound
<1> DEFINE X == more \o Tail(Top.todo)
<1>12. Frames' /\ MovedTo(X) /\ Calm(X)
  BY <1>3, <1>5, <1>7, <1>8, <1>10, MainGoesOn, Zenon
<1> QED
  BY <1>1, <1>3, <1>11, <1>12, MainStepKeeps, Zenon

LEMMA BindAndListenKeeps ==
  ASSUME IInv, NEW listener \in {"tcp", "unix"}, BindAndListen(listener)
  PROVE  IInv'
<1>1. /\ At(listener)
      /\ \/ /\ open' = open \cup {listener}
            /\ \/ Moved(<< Log("info"), Log("info") >> \o Tail(Top.todo))
               \/ Moved(<< >> \o Destructors("1"))
               \/ Moved(<< Log("info"), Log("error") >> \o Destructors("1"))
         \/ Moved(<< Log("error") >> \o Destructors("1")) /\ open' = open
      /\ IF listener = "unix" THEN BindPath("unix" \in open')
                              ELSE socketFile' = socketFile
      /\ launch' = launch /\ parsed' = parsed /\ config' = config
      /\ running' = running /\ holder' = holder /\ logFile' = logFile
      /\ written' = written /\ engine' = engine
      /\ caught' = caught /\ arrived' = arrived
      /\ entries' = entries /\ exit' = exit
  BY DEF BindAndListen, Continue, Abandon, Moved, Top
<1>2. listener \in MainWords
  BY DEF MainWords
<1>3. /\ Kept /\ Frames
      /\ Len(stack) = 1 /\ exit = "none" /\ Instruction.do \notin HoldingWords
  BY <1>1, <1>2, MainAt, Zenon DEF IInv
<1>4. PICK code \in {"0", "1"}, k \in 1 .. 20 : MainDoes(listener, code, k)
  BY <1>1, <1>2, MainAt, Zenon
<1>5. MainPlace(Top.todo, code, k, 5, << >>) /\ Reached(code, k)
  BY <1>4 DEF MainDoes
<1>6. /\ listener = "tcp" => k = 7
      /\ listener = "unix" => k = 8
  BY <1>4, PlaceOfWord, ZenonT(40) DEF MainDoes
<1>7. /\ k \in 1 .. 19 /\ ~ (k + 1 <= 3)
      /\ (listener = "tcp" /\ k = 7) \/ (listener = "unix" /\ k = 8)
  BY <1>6
<1>8. Reached("1", 16)'
  <2>1. Reached("1", 16)
    BY <1>5, <1>7, ReachedAbandoned
  <2> QED  BY <1>1, <2>1 DEF Reached
<1>9. open' = open \cup {listener} => Reached(code, k + 1)'
  <2>1. listener = "tcp" => k = 7
    BY <1>7
  <2>2. CASE listener = "tcp"
    <3>1. k = 7 /\ socketFile' = socketFile
      BY <1>1, <2>1, <2>2
    <3> QED  BY <1>1, <1>5, <3>1, <2>2 DEF Reached
  <2>3. CASE listener = "unix"
    <3>1. k = 8
      BY <1>7, <2>3
    <3> QED  BY <1>1, <1>5, <3>1, <2>3 DEF Reached
  <2> QED  BY <2>2, <2>3
<1>10. /\ << Log("info"), Log("info") >> \in LogLists /\ << Log("error") >> \in LogLists
       /\ << Log("info"), Log("error") >> \in LogLists /\ << >> \in LogLists
  BY LogIsInstruction DEF LogLists
<1>11. Kept'
  <2>1. open' = open \cup {listener} \/ open' = open
    BY <1>1, Zenon
  <2>2. /\ launch' = launch /\ parsed' = parsed /\ config' = config
        /\ running' = running /\ logFile' = logFile /\ engine' = engine
        /\ caught' = caught /\ arrived' = arrived
        /\ entries' = entries /\ exit' = exit
    BY <1>1, Zenon
  <2>3. open' \subseteq {"tcp", "unix"}
    BY <1>3, <2>1 DEF Kept
  <2>4. socketFile' \subseteq {"whole", Bound}
    <3>1. socketFile \subseteq {"whole", Bound}
      BY <1>3, Zenon DEF Kept
    <3>2. CASE listener = "unix"
      <4>1. BindPath("unix" \in open')
        BY <1>1, <3>2
      <4> QED  BY <3>1, <4>1 DEF BindPath
    <3>3. CASE listener # "unix"
      BY <1>1, <3>1, <3>3
    <3> QED  BY <3>2, <3>3
  <2>5. Bound' = Bound
    BY <2>2, Zenon DEF Bound
  <2> QED  BY <1>3, <2>2, <2>3, <2>4, <2>5, Zenon DEF Kept
<1>12. CASE /\ open' = open \cup {listener}
            /\ Moved(<< Log("info"), Log("info") >> \o Tail(Top.todo))
  <2> DEFINE X == << Log("info"), Log("info") >> \o Tail(Top.todo)
  <2>1. Frames' /\ MovedTo(X) /\ Calm(X)
    BY <1>3, <1>5, <1>7, <1>9, <1>10, <1>12, MainGoesOn, Zenon
  <2> QED  BY <1>1, <1>3, <1>11, <2>1, MainStepKeeps, Zenon
<1>13. CASE \E more \in LogLists : Moved(more \o Destructors("1"))
  <2>1. PICK more \in LogLists : Moved(more \o Destructors("1"))
    BY <1>13
  <2> DEFINE X == more \o Destructors("1")
  <2>2. Frames' /\ MovedTo(X) /\ Calm(X)
    BY <1>3, <1>8, <2>1, MainAbandons, Zenon
  <2> QED  BY <1>1, <1>3, <1>11, <2>2, MainStepKeeps, Zenon
<1> QED
  BY <1>1, <1>10, <1>12, <1>13, Zenon

LEMMA CatchSignalKeeps ==
  ASSUME IInv, NEW signal \in Signals, CatchSignal(signal)
  PROVE  IInv'
<1>1. /\ At(signal) /\ Moved(<< >> \o Tail(Top.todo))
      /\ caught' = caught \cup {signal}
      /\ launch' = launch /\ parsed' = parsed /\ config' = config
      /\ running' = running /\ holder' = holder /\ logFile' = logFile
      /\ written' = written /\ engine' = engine /\ open' = open
      /\ socketFile' = socketFile /\ arrived' = arrived
      /\ entries' = entries /\ exit' = exit
  BY DEF CatchSignal, Continue, Moved, Top
<1>2. signal \in MainWords /\ signal \in {"SIGINT", "SIGTERM"}
  BY DEF MainWords, Signals
<1>3. /\ Kept /\ Frames
      /\ Len(stack) = 1 /\ exit = "none" /\ Instruction.do \notin HoldingWords
  BY <1>1, <1>2, MainAt, Zenon DEF IInv
<1>4. PICK code \in {"0", "1"}, k \in 1 .. 20 : MainDoes(signal, code, k)
  BY <1>1, <1>2, MainAt, Zenon
<1>5. MainPlace(Top.todo, code, k, 5, << >>) /\ Reached(code, k)
  BY <1>4 DEF MainDoes
<1>6. /\ signal = "SIGINT" => k = 10
      /\ signal = "SIGTERM" => k = 11
  BY <1>4, PlaceOfWord, ZenonT(40) DEF MainDoes
<1>7. k \in 1 .. 19 /\ ~ (k + 1 <= 3) /\ (k = 10 \/ k = 11) /\ << >> \in LogLists
  BY <1>2, <1>6 DEF LogLists
<1>8. Reached(code, k + 1)'
  BY <1>1, <1>5, <1>7 DEF Reached
<1>9. Kept'
  BY <1>1, <1>3 DEF Kept, Bound
<1> DEFINE X == << >> \o Tail(Top.todo)
<1>10. Frames' /\ MovedTo(X) /\ Calm(X)
  BY <1>1, <1>3, <1>5, <1>7, <1>8, MainGoesOn, Zenon
<1> QED
  BY <1>1, <1>3, <1>9, <1>10, MainStepKeeps, Zenon

LEMMA StartLoopKeeps ==
  ASSUME IInv, StartLoop
  PROVE  IInv'
<1>1. /\ At("run") /\ Moved(<< >> \o Tail(Top.todo))
      /\ running' \in BOOLEAN \cup {running}
      /\ launch' = launch /\ parsed' = parsed /\ config' = config
      /\ holder' = holder /\ logFile' = logFile
      /\ written' = written /\ engine' = engine /\ open' = open
      /\ socketFile' = socketFile /\ caught' = caught /\ arrived' = arrived
      /\ entries' = entries /\ exit' = exit
  BY DEF StartLoop, Continue, Moved, Top
<1>2. "run" \in MainWords
  BY DEF MainWords
<1>3. /\ Kept /\ Frames
      /\ Len(stack) = 1 /\ exit = "none" /\ Instruction.do \notin HoldingWords
  BY <1>1, <1>2, MainAt, Zenon DEF IInv
<1>4. PICK code \in {"0", "1"}, k \in 1 .. 20 : MainDoes("run", code, k)
  BY <1>1, <1>2, MainAt, Zenon
<1>5. MainPlace(Top.todo, code, k, 5, << >>) /\ Reached(code, k)
  BY <1>4 DEF MainDoes
<1>6. k = 13
  BY <1>4, PlaceOfWord, Zenon DEF MainDoes
<1>7. /\ k \in 1 .. 19 /\ k \in (3 .. 19) \ {8, 16, 17} /\ ~ (k + 1 <= 3)
      /\ << >> \in LogLists
  BY <1>6 DEF LogLists
<1>8. Reached(code, k + 1)'
  <2>1. Reached(code, k + 1)
    BY <1>5, <1>7, ReachedNext, Zenon
  <2> QED  BY <1>1, <2>1, ReachedSame, Zenon
<1>9. Kept'
  BY <1>1, <1>3 DEF Kept, Bound
<1> DEFINE X == << >> \o Tail(Top.todo)
<1>10. Frames' /\ MovedTo(X) /\ Calm(X)
  BY <1>1, <1>3, <1>5, <1>7, <1>8, MainGoesOn, Zenon
<1> QED
  BY <1>1, <1>3, <1>9, <1>10, MainStepKeeps, Zenon

LEMMA LeaveLoopKeeps ==
  ASSUME IInv, LeaveLoop
  PROVE  IInv'
<1>1. /\ At("loop") /\ Moved(<< >> \o Tail(Top.todo))
      /\ running' \in BOOLEAN \cup {running}
      /\ launch' = launch /\ parsed' = parsed /\ config' = config
      /\ holder' = holder /\ logFile' = logFile
      /\ written' = written /\ engine' = engine /\ open' = open
      /\ socketFile' = socketFile /\ caught' = caught /\ arrived' = arrived
      /\ entries' = entries /\ exit' = exit
  BY DEF LeaveLoop, Continue, Moved, Top
<1>2. "loop" \in MainWords
  BY DEF MainWords
<1>3. /\ Kept /\ Frames
      /\ Len(stack) = 1 /\ exit = "none" /\ Instruction.do \notin HoldingWords
  BY <1>1, <1>2, MainAt, Zenon DEF IInv
<1>4. PICK code \in {"0", "1"}, k \in 1 .. 20 : MainDoes("loop", code, k)
  BY <1>1, <1>2, MainAt, Zenon
<1>5. MainPlace(Top.todo, code, k, 5, << >>) /\ Reached(code, k)
  BY <1>4 DEF MainDoes
<1>6. k = 14
  BY <1>4, PlaceOfWord, Zenon DEF MainDoes
<1>7. /\ k \in 1 .. 19 /\ k \in (3 .. 19) \ {8, 16, 17} /\ ~ (k + 1 <= 3)
      /\ << >> \in LogLists
  BY <1>6 DEF LogLists
<1>8. Reached(code, k + 1)'
  <2>1. Reached(code, k + 1)
    BY <1>5, <1>7, ReachedNext, Zenon
  <2> QED  BY <1>1, <2>1, ReachedSame, Zenon
<1>9. Kept'
  BY <1>1, <1>3 DEF Kept, Bound
<1> DEFINE X == << >> \o Tail(Top.todo)
<1>10. Frames' /\ MovedTo(X) /\ Calm(X)
  BY <1>1, <1>3, <1>5, <1>7, <1>8, MainGoesOn, Zenon
<1> QED
  BY <1>1, <1>3, <1>9, <1>10, MainStepKeeps, Zenon

----------------------------------------------------------------------------
(* Run's steps, and the way out.                                           *)

LEMMA CoroutineLogsKeeps ==
  ASSUME IInv, NEW level \in LogLevels, CoroutineLogs(level)
  PROVE  IInv'
<1>1. /\ At("loop") /\ Moved(<< Log(level) >> \o Top.todo)
      /\ entries < MaxEntries /\ entries' = entries + 1
      /\ launch' = launch /\ parsed' = parsed /\ config' = config
      /\ running' = running /\ holder' = holder /\ logFile' = logFile
      /\ written' = written /\ engine' = engine /\ open' = open
      /\ socketFile' = socketFile /\ caught' = caught /\ arrived' = arrived
      /\ exit' = exit
  BY DEF CoroutineLogs, Moved, Top
<1>2. "loop" \in MainWords
  BY DEF MainWords
<1>3. /\ Kept /\ Frames
      /\ Len(stack) = 1 /\ exit = "none" /\ Instruction.do \notin HoldingWords
  BY <1>1, <1>2, MainAt, Zenon DEF IInv
<1>4. PICK code \in {"0", "1"}, k \in 1 .. 20 : MainDoes("loop", code, k)
  BY <1>1, <1>2, MainAt, Zenon
<1>5. MainPlace(Top.todo, code, k, 5, << >>) /\ Reached(code, k)
  BY <1>4 DEF MainDoes
<1>6. k = 14
  BY <1>4, PlaceOfWord, Zenon DEF MainDoes
<1>7. k \in 4 .. 20
  BY <1>6
<1>8. << Log(level) >> \in LogLists
  BY LogIsInstruction DEF LogLists
<1>9. Reached(code, k)'
  BY <1>1, <1>5, ReachedSame, Zenon
<1>10. Kept'
  BY <1>1, <1>3, LifecycleAssumption DEF Kept, Bound
<1> DEFINE X == << Log(level) >> \o Top.todo
<1>11. Frames' /\ MovedTo(X) /\ Calm(X)
  BY <1>1, <1>3, <1>5, <1>7, <1>8, <1>9, LoopGoesOn, Zenon
<1> QED
  BY <1>1, <1>3, <1>10, <1>11, MainStepKeeps, Zenon

LEMMA CloseListenerKeeps ==
  ASSUME IInv, NEW listener \in {"tcp", "unix"}, CloseListener(listener)
  PROVE  IInv'
<1> DEFINE word == IF listener = "unix" THEN "close_unix" ELSE "close_tcp"
<1>1. /\ At(word)
      /\ \/ /\ listener \in open
            /\ open' = open \ {listener}
            /\ socketFile' = IF listener = "unix" THEN socketFile \ {"whole"}
                                                  ELSE socketFile
            /\ Moved(<< Log("info") >> \o Tail(Top.todo))
         \/ /\ listener \notin open
            /\ Moved(<< >> \o Tail(Top.todo))
            /\ open' = open /\ socketFile' = socketFile
      /\ launch' = launch /\ parsed' = parsed /\ config' = config
      /\ running' = running /\ holder' = holder /\ logFile' = logFile
      /\ written' = written /\ engine' = engine
      /\ caught' = caught /\ arrived' = arrived
      /\ entries' = entries /\ exit' = exit
  BY DEF CloseListener, Closed, Continue, Moved, Top
<1>2. word \in MainWords
  BY DEF MainWords
<1>3. /\ Kept /\ Frames
      /\ Len(stack) = 1 /\ exit = "none" /\ Instruction.do \notin HoldingWords
  BY <1>1, <1>2, MainAt, Zenon DEF IInv
<1>4. PICK code \in {"0", "1"}, k \in 1 .. 20 : MainDoes(word, code, k)
  BY <1>1, <1>2, MainAt, Zenon
<1>5. MainPlace(Top.todo, code, k, 5, << >>) /\ Reached(code, k)
  BY <1>4 DEF MainDoes
<1>6. /\ word = "close_unix" => k = 16
      /\ word = "close_tcp" => k = 17
  <2> HIDE DEF word
  <2> QED  BY <1>4, PlaceOfWord, Zenon DEF MainDoes
<1>7. \/ listener = "unix" /\ k = 16
      \/ listener = "tcp" /\ k = 17
  BY <1>6
<1>8. k \in 1 .. 19 /\ ~ (k + 1 <= 3) /\ << >> \in LogLists
      /\ << Log("info") >> \in LogLists
  BY <1>7, LogIsInstruction DEF LogLists
<1>9. Reached(code, k + 1)'
  <2>1. /\ open' \subseteq open /\ listener \notin open'
        /\ "whole" \in socketFile' => "whole" \in socketFile
        /\ listener = "unix" /\ "whole" \in socketFile' => listener \notin open
    <3>1. CASE listener \in open
      BY <1>1, <3>1
    <3>2. CASE listener \notin open
      <4>1. open' = open /\ socketFile' = socketFile
        BY <1>1, <3>2, Zenon
      <4> QED  BY <3>2, <4>1, Zenon
    <3> QED  BY <3>1, <3>2
  <2>2. /\ launch' = launch /\ parsed' = parsed /\ config' = config
        /\ written' = written /\ engine' = engine /\ caught' = caught
    BY <1>1
  <2>3. CASE listener = "unix" /\ k = 16
    BY <1>5, <2>1, <2>2, <2>3 DEF Reached
  <2>4. CASE listener = "tcp" /\ k = 17
    BY <1>5, <2>1, <2>2, <2>4 DEF Reached
  <2> QED  BY <1>7, <2>3, <2>4
<1>10. Kept'
  <2>1. open' \subseteq open /\ socketFile' \subseteq socketFile
    BY <1>1
  <2>2. Bound' = Bound
    BY <1>1, Zenon DEF Bound
  <2>3. open' \subseteq {"tcp", "unix"} /\ socketFile' \subseteq {"whole", Bound'}
    BY <1>3, <2>1, <2>2 DEF Kept
  <2> QED  BY <1>1, <1>3, <2>3, Zenon DEF Kept
<1>11. PICK more \in LogLists : Moved(more \o Tail(Top.todo))
  BY <1>1, <1>8, Zenon
<1> DEFINE X == more \o Tail(Top.todo)
<1>12. Frames' /\ MovedTo(X) /\ Calm(X)
  BY <1>3, <1>5, <1>8, <1>9, <1>11, MainGoesOn, Zenon
<1> QED
  BY <1>1, <1>3, <1>10, <1>12, MainStepKeeps, Zenon

LEMMA ExitKeeps ==
  ASSUME IInv, NEW code \in {"0", "1"}, Exit(code)
  PROVE  IInv'
<1>1. /\ At(code) /\ exit' = code
      /\ launch' = launch /\ parsed' = parsed /\ config' = config
      /\ stack' = stack
      /\ running' = running /\ holder' = holder /\ logFile' = logFile
      /\ written' = [written EXCEPT !.disk = written.file]
      /\ engine' = engine /\ open' = open
      /\ socketFile' = socketFile /\ caught' = caught /\ arrived' = arrived
      /\ entries' = entries
  BY DEF Exit
<1>2. code \in MainWords
  BY DEF MainWords
<1>3. Kept /\ Frames /\ Mutex /\ Ledger
  BY DEF IInv
<1>4. PICK c \in {"0", "1"}, k \in 1 .. 20 : MainDoes(code, c, k)
  BY <1>1, <1>2, MainAt, Zenon
<1>5. Reached(c, k)
  BY <1>4 DEF MainDoes
<1>6. k = 20 /\ code = c
  BY <1>4, PlaceOfWord, ZenonT(40) DEF MainDoes
<1>7. "tcp" \notin open /\ "unix" \notin open /\ (c = "0" => "whole" \notin socketFile)
  BY <1>5, <1>6 DEF Reached
<1>8. open = {} /\ (code = "0" /\ launch.fits => socketFile = {})
  BY <1>3, <1>6, <1>7 DEF Kept, Bound
<1>9. holder = 0
  <2>1. Len(stack) = 1 /\ Top = stack[1] /\ Instruction.do \notin HoldingWords
    BY <1>1, <1>2, MainAt, Zenon
  <2>2. ~ Inside(1)
    BY <2>1, Zenon DEF Inside, Instruction, HoldingWords
  <2>3. 1 \in 1 .. Len(stack) /\ holder \in 0 .. 1 /\ holder # 1
    BY <1>3, <2>1, <2>2 DEF Mutex
  <2> QED  BY <2>3
<1>10. PICK a \in Seq({"main"} \cup Signals), b \in Seq({"main"} \cup Signals),
            d \in Seq({"main"} \cup Signals) :
         /\ written = [stdout |-> a, file |-> b, disk |-> d]
         /\ written.stdout = a /\ written.file = b /\ written.disk = d
         /\ IsPrefix(d, b)
         /\ config.stdout /\ logFile =>
              a = IF Waits THEN Append(b, stack[holder].who) ELSE b
  BY <1>3, WrittenIs, Zenon
<1>11. /\ written' = [stdout |-> a, file |-> b, disk |-> b]
       /\ written'.stdout = a /\ written'.file = b /\ written'.disk = b
  <2>1. written' = [[stdout |-> a, file |-> b, disk |-> d] EXCEPT !.disk = b]
    BY <1>1, <1>10, Zenon
  <2> QED  BY <2>1
<1>12. Ended'
  <2>1. LeavesNothingBehind'
    BY <1>1, <1>8, Zenon DEF LeavesNothingBehind
  <2> QED  BY <1>1, <1>9, <1>11, <2>1, Zenon DEF Ended
<1>13. Kept'
  BY <1>1, <1>3 DEF Kept, Bound
<1>14. Frames'
  <2>1. Len(stack) = 1 /\ Top = stack[1]
    BY <1>1, <1>2, MainAt, Zenon
  <2>2. Reached(c, k)'
    BY <1>1, <1>5, <1>6 DEF Reached
  <2>3. MainPlace(stack[1].todo, c, k, 5, << >>)
    BY <1>4, <2>1, Zenon DEF MainDoes
  <2>4. 5 \in 1 .. 5 /\ << >> \in LogLists
    BY DEF LogLists
  <2> QED  BY <1>1, <1>3, <2>1, <2>2, <2>3, <2>4, MainStays, Zenon
<1>15. Mutex'
  BY <1>1, <1>3, Zenon DEF Mutex, Inside
<1>16. Ledger'
  <2>1. ~ Waits' /\ ~ Waits
    BY <1>1, <1>9, Zenon DEF Waits
  <2>2. IsPrefix(b, b)
    BY <1>10, PrefixOfAppended, Zenon
  <2>3. written' = [stdout |-> written'.stdout, file |-> written'.file,
                    disk |-> written'.disk]
    BY <1>11, Zenon
  <2>4. config'.stdout /\ logFile' => written'.stdout = written'.file
    BY <1>1, <1>10, <1>11, <2>1, Zenon
  <2> QED  BY <1>11, <2>1, <2>2, <2>3, <2>4, Zenon DEF Ledger, Waits
<1> QED
  BY <1>12, <1>13, <1>14, <1>15, <1>16 DEF IInv

LEMMA StopKeeps ==
  ASSUME IInv, Stop
  PROVE  IInv'
<1>1. /\ exit = "none" /\ Instruction.do = "stop"
      /\ Moved(<< >> \o Tail(Top.todo)) /\ running' = FALSE
      /\ launch' = launch /\ parsed' = parsed /\ config' = config
      /\ holder' = holder /\ logFile' = logFile
      /\ written' = written /\ engine' = engine /\ open' = open
      /\ socketFile' = socketFile /\ caught' = caught /\ arrived' = arrived
      /\ entries' = entries /\ exit' = exit
  BY DEF Stop, At, Continue, Moved, Top
<1>2. Kept /\ Frames
  BY DEF IInv
<1>3. Instruction.do \notin HoldingWords
  BY <1>1 DEF HoldingWords
<1>4. Kept'
  BY <1>1, <1>2 DEF Kept, Bound
<1> DEFINE X == << >> \o Tail(Top.todo)
<1>5. Frames' /\ MovedTo(X) /\ Calm(X)
  BY <1>1, <1>2, StopGoesOn, Zenon
<1> QED
  BY <1>1, <1>3, <1>4, <1>5, MainStepKeeps, Zenon

LEMMA LogMessageKeeps ==
  ASSUME IInv, LogMessage
  PROVE  IInv'
<1> DEFINE X == (IF Passes(Instruction.level) THEN WriteLogEntry ELSE << >>)
                \o Tail(Top.todo)
<1>1. /\ exit = "none" /\ Instruction.do = "log" /\ Moved(X)
      /\ launch' = launch /\ parsed' = parsed /\ config' = config
      /\ running' = running /\ holder' = holder /\ logFile' = logFile
      /\ written' = written /\ engine' = engine /\ open' = open
      /\ socketFile' = socketFile /\ caught' = caught /\ arrived' = arrived
      /\ entries' = entries /\ exit' = exit
  BY DEF LogMessage, At, Continue, Moved, Top
<1>2. Kept /\ Frames
  BY DEF IInv
<1>3. Instruction.do \notin HoldingWords
  BY <1>1 DEF HoldingWords
<1>4. Kept'
  <2> HIDE DEF X
  <2> QED  BY <1>1, <1>2 DEF Kept, Bound
<1>5. Taken(X)
  BY Zenon DEF Taken
<1> HIDE DEF X
<1>6. Frames' /\ MovedTo(X) /\ Calm(X)
  BY <1>1, <1>2, <1>5, LogGoesOn, Zenon
<1> QED
  BY <1>1, <1>3, <1>4, <1>6, MainStepKeeps, Zenon

----------------------------------------------------------------------------
(* The logger's steps.                                                     *)

LEMMA TopTodo ==
  ASSUME Frames
  PROVE  Top.todo \in Seq(Instructions) /\ Top.todo # << >>
<1>1. \A code \in {"0", "1"}, k \in 1 .. 20, j \in 1 .. 5, logs \in LogLists :
        MainPlace(Top.todo, code, k, j, logs) =>
          First(Top.todo, Program(code), k, j, logs)
  BY MainFirst, Zenon DEF MainPlace
<1>2. \A k \in 1 .. 4, j \in 1 .. 5 :
        HandlerPlace(Top.todo, k, j) => First(Top.todo, HandleSignal, k, j, << >>)
  BY HandlerFirst, Zenon DEF HandlerPlace
<1> QED
  BY <1>1, <1>2, TopPlaces, Zenon DEF First

(* The step of an entry that does word.                                    *)
EntryStep(word) ==
  /\ exit = "none" /\ Instruction.do = word
  /\ Moved(<< >> \o Tail(Top.todo))
  /\ launch' = launch /\ parsed' = parsed /\ config' = config
  /\ running' = running /\ logFile' = logFile
  /\ engine' = engine /\ open' = open
  /\ socketFile' = socketFile /\ caught' = caught /\ arrived' = arrived
  /\ entries' = entries /\ exit' = exit

LEMMA EntryStepKeeps ==
  ASSUME IInv, NEW word \in EntryWords, EntryStep(word)
  PROVE  /\ Kept' /\ Frames' /\ Ended'
         /\ \E X : MovedTo(X) /\ AfterEntry(X, word)
<1>1. Kept /\ Frames
  BY DEF IInv
<1>2. /\ exit = "none" /\ Instruction.do = word
      /\ launch' = launch /\ parsed' = parsed /\ config' = config
      /\ running' = running /\ logFile' = logFile
      /\ engine' = engine /\ open' = open
      /\ socketFile' = socketFile /\ caught' = caught /\ arrived' = arrived
      /\ entries' = entries /\ exit' = exit
  BY DEF EntryStep
<1>3. Moved(Tail(Top.todo))
  <2>1. << >> \o Tail(Top.todo) = Tail(Top.todo)
    BY <1>1, TopTodo, NothingMore, Zenon
  <2> QED  BY <2>1, Zenon DEF EntryStep
<1>4. /\ Frames' /\ MovedTo(Tail(Top.todo))
      /\ AfterEntry(Tail(Top.todo), Instruction.do)
  BY <1>1, <1>2, <1>3, EntryGoesOn, Zenon
<1>5. Kept'
  BY <1>1, <1>2 DEF Kept, Bound
<1>6. Ended'
  BY <1>2, Unended
<1> QED
  BY <1>2, <1>4, <1>5, <1>6, Zenon

LEMMA LockKeeps ==
  ASSUME IInv, Lock
  PROVE  IInv'
<1>1. EntryStep("lock") /\ holder = 0 /\ holder' = Len(stack) /\ written' = written
  BY DEF Lock, At, Continue, Moved, Top, EntryStep
<1>2. Frames /\ Mutex /\ Ledger
  BY DEF IInv
<1>3. "lock" \in EntryWords
  BY DEF EntryWords
<1>4. Kept' /\ Frames' /\ Ended'
  BY <1>1, <1>3, EntryStepKeeps, Zenon
<1>5. PICK X : MovedTo(X) /\ AfterEntry(X, "lock")
  BY <1>1, <1>3, EntryStepKeeps, Zenon
<1>6. Head(X).do = "print"
  BY <1>5 DEF AfterEntry
<1>7. Mutex'
  <2>1. Head(X).do \in HoldingWords
    BY <1>6 DEF HoldingWords
  <2> QED  BY <1>1, <1>2, <1>5, <2>1, MutexMoves, Zenon
<1>8. Ledger'
  <2>1. ~ Waits
    BY <1>1, Zenon DEF Waits
  <2>2. stack'[Len(stack)].todo = X
    BY <1>5 DEF MovedTo
  <2>3. Head(X).do # "append"
    BY <1>6
  <2>4. ~ Waits'
    BY <1>1, <2>2, <2>3, Zenon DEF Waits
  <2>5. config' = config /\ logFile' = logFile
    BY <1>1 DEF EntryStep
  <2> QED  BY <1>1, <1>2, <2>1, <2>4, <2>5, LedgerSame, Zenon
<1> QED
  BY <1>4, <1>7, <1>8 DEF IInv

LEMMA UnlockKeeps ==
  ASSUME IInv, Unlock
  PROVE  IInv'
<1>1. EntryStep("unlock") /\ holder' = 0 /\ written' = written
  BY DEF Unlock, At, Continue, Moved, Top, EntryStep
<1>2. Frames /\ Mutex /\ Ledger
  BY DEF IInv
<1>3. "unlock" \in EntryWords
  BY DEF EntryWords
<1>4. Kept' /\ Frames' /\ Ended'
  BY <1>1, <1>3, EntryStepKeeps, Zenon
<1>5. PICK X : MovedTo(X) /\ AfterEntry(X, "unlock")
  BY <1>1, <1>3, EntryStepKeeps, Zenon
<1>6. Instruction.do = "unlock"
  BY <1>1 DEF EntryStep
<1>7. Inside(Len(stack)) /\ Instruction = Head(stack[Len(stack)].todo)
  BY <1>6 DEF Inside, Instruction, Top
<1>8. holder = Len(stack)
  <2>1. Len(stack) \in 1 .. Len(stack)
    BY <1>2, FramesAre
  <2> QED  BY <1>2, <1>7, <2>1, Zenon DEF Mutex
<1>9. Mutex'
  <2>1. Head(X).do \notin HoldingWords
    BY <1>5 DEF AfterEntry, HoldingWords, EntryWords
  <2> QED  BY <1>1, <1>2, <1>5, <1>7, <2>1, MutexMoves, Zenon
<1>10. Ledger'
  <2>1. Instruction.do # "append"
    BY <1>6
  <2>2. ~ Waits
    BY <1>7, <1>8, <2>1, Zenon DEF Waits
  <2>3. ~ Waits'
    BY <1>1, Zenon DEF Waits
  <2>4. config' = config /\ logFile' = logFile
    BY <1>1 DEF EntryStep
  <2> QED  BY <1>1, <1>2, <2>2, <2>3, <2>4, LedgerSame, Zenon
<1> QED
  BY <1>4, <1>9, <1>10 DEF IInv

LEMMA PrintEntryKeeps ==
  ASSUME IInv, PrintEntry
  PROVE  IInv'
<1>1. /\ EntryStep("print") /\ holder' = holder
      /\ written' = IF config.stdout
                    THEN [written EXCEPT !.stdout = Append(@, Top.who)]
                    ELSE written
  BY DEF PrintEntry, At, Continue, Moved, Top, EntryStep
<1>2. Frames /\ Mutex /\ Ledger
  BY DEF IInv
<1>3. "print" \in EntryWords
  BY DEF EntryWords
<1>4. Kept' /\ Frames' /\ Ended'
  BY <1>1, <1>3, EntryStepKeeps, Zenon
<1>5. PICK X : MovedTo(X) /\ AfterEntry(X, "print")
  BY <1>1, <1>3, EntryStepKeeps, Zenon
<1>6. Instruction.do = "print" /\ config' = config /\ logFile' = logFile
  BY <1>1 DEF EntryStep
<1>7. Inside(Len(stack)) /\ Instruction = Head(stack[Len(stack)].todo)
  BY <1>6 DEF Inside, Instruction, Top
<1>8. holder = Len(stack) /\ Len(stack) \in 1 .. Len(stack) /\ holder # 0
  <2>1. Len(stack) \in 1 .. Len(stack) /\ Len(stack) # 0
    BY <1>2, FramesAre
  <2> QED  BY <1>2, <1>7, <2>1, Zenon DEF Mutex
<1>9. Head(X).do = "append"
  BY <1>5 DEF AfterEntry
<1>10. Mutex'
  <2>1. Head(X).do \in HoldingWords
    BY <1>9 DEF HoldingWords
  <2> QED  BY <1>1, <1>2, <1>5, <1>7, <2>1, MutexMoves, Zenon
<1>11. ~ Waits
  <2>1. Instruction.do # "append"
    BY <1>6
  <2> QED  BY <1>7, <1>8, <2>1, Zenon DEF Waits
<1>12. Waits' /\ stack'[holder'].who = Top.who
       /\ Top.who \in {"main"} \cup Signals
  <2>1. stack'[Len(stack)].todo = X /\ stack'[Len(stack)].who = stack[Len(stack)].who
    BY <1>5, <1>8, Zenon DEF MovedTo
  <2>2. Top = stack[Len(stack)] /\ Top.who \in {"main"} \cup Signals
    BY <1>2, <1>8, FramesAre, Zenon
  <2> QED  BY <1>1, <1>8, <1>9, <2>1, <2>2, Zenon DEF Waits
<1>13. PICK a \in Seq({"main"} \cup Signals), b \in Seq({"main"} \cup Signals),
            d \in Seq({"main"} \cup Signals) :
         /\ written = [stdout |-> a, file |-> b, disk |-> d]
         /\ written.stdout = a /\ written.file = b /\ written.disk = d
         /\ IsPrefix(d, b)
         /\ config.stdout /\ logFile =>
              a = IF Waits THEN Append(b, stack[holder].who) ELSE b
  BY <1>2, WrittenIs, Zenon
<1>14. Ledger'
  <2>1. CASE config.stdout
    <3> DEFINE w == Top.who
    <3>1. Append(a, w) \in Seq({"main"} \cup Signals)
      BY <1>12, AppendProperties, Zenon
    <3>2. written' = [written EXCEPT !.stdout = Append(written.stdout, w)]
      BY <1>1, <2>1, Zenon
    <3> HIDE DEF w
    <3> DEFINE c == Append(a, w)
    <3>3. written' = [[stdout |-> a, file |-> b, disk |-> d] EXCEPT !.stdout = c]
      BY <3>2, <1>13, Zenon
    <3> HIDE DEF c
    <3>4. written' = [stdout |-> c, file |-> b, disk |-> d] /\ written'.stdout = c
          /\ written'.file = b /\ written'.disk = d
      BY <3>3
    <3>5. logFile => c = Append(b, w)
      BY <1>11, <1>13, <2>1, Zenon DEF c
    <3>6. Ledger'
      <4>1. c \in Seq({"main"} \cup Signals) /\ b \in Seq({"main"} \cup Signals)
        BY <3>1, Zenon DEF c
      <4>2. stack'[holder'].who = w
        BY <1>12, Zenon DEF w
      <4>3. written' = [stdout |-> written'.stdout, file |-> written'.file,
                        disk |-> written'.disk]
        BY <3>4, Zenon
      <4>4. config'.stdout /\ logFile' => written'.stdout = Append(written'.file, stack'[holder'].who)
        BY <1>6, <3>4, <3>5, <4>2, Zenon
      <4> QED  BY <1>12, <1>13, <3>4, <4>1, <4>3, <4>4, Zenon DEF Ledger, Waits
    <3> QED  BY <3>6
  <2>2. CASE ~ config.stdout
    <3>1. written' = written
      BY <1>1, <2>2, Zenon
    <3>2. ~ config'.stdout
      BY <1>6, <2>2, Zenon
    <3> QED  BY <1>13, <3>1, <3>2, Zenon DEF Ledger
  <2> QED  BY <2>1, <2>2
<1> QED
  BY <1>4, <1>10, <1>14 DEF IInv

LEMMA AppendToFileKeeps ==
  ASSUME IInv, AppendToFile
  PROVE  IInv'
<1>1. /\ EntryStep("append") /\ holder' = holder
      /\ logFile => \E disk \in {written.disk, Append(written.file, Top.who)} :
            written' = [written EXCEPT !.file = Append(written.file, Top.who),
                                       !.disk = disk]
      /\ ~ logFile => written' = written
  BY DEF AppendToFile, At, Continue, Moved, Top, EntryStep
<1>2. Frames /\ Mutex /\ Ledger
  BY DEF IInv
<1>3. "append" \in EntryWords
  BY DEF EntryWords
<1>4. Kept' /\ Frames' /\ Ended'
  BY <1>1, <1>3, EntryStepKeeps, Zenon
<1>5. PICK X : MovedTo(X) /\ AfterEntry(X, "append")
  BY <1>1, <1>3, EntryStepKeeps, Zenon
<1>6. Instruction.do = "append" /\ config' = config /\ logFile' = logFile
  BY <1>1 DEF EntryStep
<1>7. Inside(Len(stack)) /\ Instruction = Head(stack[Len(stack)].todo)
  BY <1>6 DEF Inside, Instruction, Top
<1>8. holder = Len(stack) /\ Len(stack) \in 1 .. Len(stack) /\ holder # 0
  <2>1. Len(stack) \in 1 .. Len(stack) /\ Len(stack) # 0
    BY <1>2, FramesAre
  <2> QED  BY <1>2, <1>7, <2>1, Zenon DEF Mutex
<1>9. Head(X).do = "unlock"
  BY <1>5 DEF AfterEntry
<1>10. Mutex'
  <2>1. Head(X).do \in HoldingWords
    BY <1>9 DEF HoldingWords
  <2> QED  BY <1>1, <1>2, <1>5, <1>7, <2>1, MutexMoves, Zenon
<1>11. Waits /\ stack[holder].who = Top.who /\ Top.who \in {"main"} \cup Signals
  <2>1. Top = stack[Len(stack)] /\ Top.who \in {"main"} \cup Signals
    BY <1>2, <1>8, FramesAre, Zenon
  <2> QED  BY <1>6, <1>7, <1>8, <2>1, Zenon DEF Waits
<1>12. ~ Waits'
  <2>1. stack'[Len(stack)].todo = X
    BY <1>5, Zenon DEF MovedTo
  <2>2. Head(X).do # "append"
    BY <1>9
  <2> QED  BY <1>1, <1>8, <2>1, <2>2, Zenon DEF Waits
<1>13. PICK a \in Seq({"main"} \cup Signals), b \in Seq({"main"} \cup Signals),
            d \in Seq({"main"} \cup Signals) :
         /\ written = [stdout |-> a, file |-> b, disk |-> d]
         /\ written.stdout = a /\ written.file = b /\ written.disk = d
         /\ IsPrefix(d, b)
         /\ config.stdout /\ logFile =>
              a = IF Waits THEN Append(b, stack[holder].who) ELSE b
  BY <1>2, WrittenIs, Zenon
<1>14. Ledger'
  <2>1. CASE logFile
    <3> DEFINE w == Top.who
    <3>1. Append(b, w) \in Seq({"main"} \cup Signals)
      BY <1>11, AppendProperties, Zenon
    <3>2. PICK e \in {written.disk, Append(written.file, w)} :
            written' = [written EXCEPT !.file = Append(written.file, w), !.disk = e]
      BY <1>1, <2>1, Zenon
    <3>3. IsPrefix(d, Append(b, w)) /\ IsPrefix(Append(b, w), Append(b, w))
      BY <1>11, <1>13, <3>1, PrefixStays, PrefixOfAppended, Zenon
    <3> HIDE DEF w
    <3> DEFINE c == Append(b, w)
    <3>4. /\ written' = [stdout |-> a, file |-> c, disk |-> e]
          /\ written'.stdout = a /\ written'.file = c /\ written'.disk = e
          /\ e = d \/ e = c
      <4>1. written' = [[stdout |-> a, file |-> b, disk |-> d] EXCEPT !.file = c, !.disk = e]
        BY <3>2, <1>13, Zenon
      <4>2. e = d \/ e = c
        BY <3>2, <1>13, Zenon
      <4> HIDE DEF c
      <4> QED  BY <4>1, <4>2
    <3>7. e \in Seq({"main"} \cup Signals) /\ IsPrefix(e, c)
      BY <1>13, <3>1, <3>3, <3>4, Zenon DEF c
    <3>5. config.stdout => a = c
      BY <1>11, <1>13, <2>1, Zenon DEF c, w
    <3>6. Ledger'
      <4>1. a \in Seq({"main"} \cup Signals) /\ c \in Seq({"main"} \cup Signals)
        BY <3>1, Zenon DEF c
      <4>2. written' = [stdout |-> written'.stdout, file |-> written'.file,
                        disk |-> written'.disk]
        BY <3>4, Zenon
      <4>3. config'.stdout /\ logFile' => written'.stdout = written'.file
        BY <1>6, <3>4, <3>5, Zenon
      <4> QED  BY <1>12, <3>4, <3>7, <4>1, <4>2, <4>3, Zenon DEF Ledger, Waits
    <3> QED  BY <3>6
  <2>2. CASE ~ logFile
    <3>1. written' = written
      BY <1>1, <2>2, Zenon
    <3>2. ~ logFile'
      BY <1>6, <2>2, Zenon
    <3> QED  BY <1>13, <3>1, <3>2, Zenon DEF Ledger
  <2> QED  BY <2>1, <2>2
<1> QED
  BY <1>4, <1>10, <1>14 DEF IInv

----------------------------------------------------------------------------
(* Signals.                                                                *)

LEMMA HandlerAtFirst == Place(HandleSignal, HandleSignal, 1, 5, << >>)
<1>1. HandleSignal \in Seq(Instructions)
  BY HandleSignalIs, Zenon
<1>2. Rest(HandleSignal, 1) = HandleSignal
  BY <1>1, SubSeqFull, Zenon DEF Rest
<1>3. << >> \o HandleSignal = HandleSignal
  BY <1>1, ConcatEmptySeq, Zenon
<1> QED
  BY <1>2, <1>3, NoEntry, Zenon DEF Place

IsPushed(t, s, e) ==
  /\ t \in Seq(Frame) /\ t # << >> /\ Len(t) = Len(s) + 1
  /\ \A i \in 1 .. Len(s) : t[i] = s[i]
  /\ t[Len(s) + 1] = e

LEMMA Pushed ==
  ASSUME NEW s \in Seq(Frame), NEW e \in Frame
  PROVE  IsPushed(Append(s, e), s, e)
<1>1. /\ Append(s, e) \in Seq(Frame)
      /\ Append(s, e) # << >>
      /\ Len(Append(s, e)) = Len(s) + 1
      /\ \A i \in 1 .. Len(s) : Append(s, e)[i] = s[i]
      /\ Append(s, e)[Len(s) + 1] = e
  BY AppendProperties, Zenon
<1> QED
  BY <1>1, Zenon DEF IsPushed

IsPopped(t, s, n) ==
  /\ t \in Seq(Frame) /\ Len(t) = n
  /\ \A i \in 1 .. n : t[i] = s[i]

LEMMA Popped ==
  ASSUME NEW s \in Seq(Frame), NEW n \in 0 .. Len(s)
  PROVE  IsPopped(SubSeq(s, 1, n), s, n)
<1>1. Len(s) \in Nat /\ n \in Nat /\ 1 \in Int /\ n \in Int
  BY LenProperties
<1>2. \A i \in 1 .. n : s[i] \in Frame
  <2>1. \A i \in 1 .. n : i \in 1 .. Len(s)
    BY <1>1
  <2> QED  BY <2>1, ElementOfSeq, Zenon
<1> DEFINE t == SubSeq(s, 1, n)
<1>3. /\ t \in Seq(Frame)
      /\ Len(t) = IF 1 <= n THEN n - 1 + 1 ELSE 0
      /\ \A i \in 1 .. n - 1 + 1 : t[i] = s[1 + i - 1]
  BY <1>1, <1>2, SubSeqProperties
<1> HIDE DEF t
<1>4. Len(t) = n
  BY <1>1, <1>3
<1>5. ASSUME NEW i \in 1 .. n
      PROVE  t[i] = s[i]
  <2>1. i \in 1 .. n - 1 + 1 /\ 1 + i - 1 = i
    BY <1>1
  <2>2. t[i] = s[1 + i - 1]
    BY <1>3, <2>1, Zenon
  <2> QED  BY <2>1, <2>2, Zenon
<1> QED
  BY <1>3, <1>4, <1>5, Zenon DEF IsPopped, t

LEMMA SignalKeeps ==
  ASSUME IInv, NEW signal \in Signals, Signal(signal)
  PROVE  IInv'
<1>1. /\ exit = "none" /\ signal \notin arrived
      /\ arrived' = arrived \cup {signal}
      /\ launch' = launch /\ parsed' = parsed /\ config' = config
      /\ running' = running /\ holder' = holder /\ logFile' = logFile
      /\ written' = written /\ engine' = engine /\ open' = open
      /\ socketFile' = socketFile /\ caught' = caught
      /\ entries' = entries
  BY DEF Signal
<1>2. Kept /\ Frames /\ Mutex /\ Ledger
  BY DEF IInv
<1>3. CASE signal \notin caught
  <2>1. exit' = "killed" /\ stack' = stack
    BY <1>3 DEF Signal
  <2>2. Kept'
    BY <1>1, <1>2, <2>1 DEF Kept, Bound
  <2>3. Frames'
    BY <1>1, <1>2, <2>1, FramesStay, Zenon
  <2>4. Mutex' /\ Ledger'
    BY <1>1, <1>2, <2>1, QuietStep, Zenon
  <2>5. Ended'
    BY <2>1, Unended
  <2> QED  BY <2>2, <2>3, <2>4, <2>5 DEF IInv
<1>4. CASE signal \in caught
  <2> DEFINE n == Len(stack)
             f == [who |-> signal, todo |-> HandleSignal]
  <2>1. exit' = exit /\ stack' = Append(stack, f)
    BY <1>4 DEF Signal
  <2>2. f \in Frame /\ f.who = signal /\ f.todo = HandleSignal
    <3>1. HandleSignal \in Seq(Instructions)
      BY HandleSignalIs, Zenon
    <3> QED  BY <3>1, Zenon DEF Frame
  <2> HIDE DEF f
  <2>3. stack \in Seq(Frame) /\ n \in Nat /\ n \in 1 .. n /\ 1 \in 1 .. n
    <3>1. stack \in Seq(Frame)
      BY <1>2, Zenon DEF Frames
    <3> QED  BY <1>2, <3>1, FramesAre
  <2>4. /\ stack' \in Seq(Frame) /\ stack' # << >> /\ Len(stack') = n + 1
        /\ \A i \in 1 .. n : stack'[i] = stack[i]
        /\ stack'[n + 1] = f
    <3>1. IsPushed(stack', stack, f)
      BY <2>1, <2>2, <2>3, Pushed, Zenon
    <3> QED  BY <3>1, Zenon DEF IsPushed
  <2> HIDE DEF n
  <2>5. /\ \A i \in 1 .. n + 1 : i \in 1 .. n \/ i = n + 1
        /\ \A i \in 2 .. n + 1 : i \in 2 .. n \/ i = n + 1
        /\ \A i \in 2 .. n : i \in 1 .. n
        /\ \A i \in 1 .. n : i # n + 1
        /\ \A i \in 0 .. n : i \in 0 .. n + 1 /\ i # n + 1
    BY <2>3
  <2>6. MainFrame'
    <3>1. PICK code \in {"0", "1"}, k \in 1 .. 20, j \in 1 .. 5, logs \in LogLists :
            /\ Place(stack[1].todo, Program(code), k, j, logs)
            /\ Reached(code, k)
            /\ k <= 3 => j = 5 /\ logs = << >>
      BY <1>2 DEF Frames, MainFrame
    <3>2. stack'[1] = stack[1]
      BY <2>3, <2>4, Zenon
    <3>3. Reached(code, k)'
      BY <1>1, <3>1, ReachedSame, Zenon
    <3> QED  BY <3>1, <3>2, <3>3, Zenon DEF MainFrame
  <2>7. ASSUME NEW i \in 2 .. n
        PROVE  /\ HandlerFrame(i)' /\ stack'[i].who \in arrived
               /\ stack'[i].who \in arrived' \cap caught'
               /\ \A h \in 2 .. n : stack'[h].who = stack'[i].who => h = i
    <3>1. /\ HandlerFrame(i) /\ stack[i].who \in arrived \cap caught
          /\ \A h \in 2 .. n : stack[h].who = stack[i].who => h = i
      BY <1>2, Zenon DEF Frames, n
    <3>2. \A h \in 2 .. n : stack'[h] = stack[h]
      BY <2>4, <2>5, Zenon
    <3>3. HandlerFrame(i)'
      BY <1>1, <3>1, <3>2, Zenon DEF HandlerFrame
    <3> QED  BY <1>1, <3>1, <3>2, <3>3, Zenon
  <2>8. ASSUME NEW i \in 2 .. n + 1, i = n + 1
        PROVE  /\ HandlerFrame(i)'
               /\ stack'[i].who = signal
    <3>1. stack'[i].who = signal /\ stack'[i].todo = HandleSignal
      BY <2>2, <2>4, <2>8, Zenon
    <3>2. 1 \in 1 .. 4 /\ 5 \in 1 .. 5 /\ ~ (5 < 5)
      OBVIOUS
    <3> QED  BY <3>1, <3>2, HandlerAtFirst, Zenon DEF HandlerFrame
  <2>9. Frames'
    <3>1. ASSUME NEW i \in 2 .. n + 1
          PROVE  /\ HandlerFrame(i)' /\ stack'[i].who \in arrived' \cap caught'
                 /\ \A h \in 2 .. n + 1 : stack'[h].who = stack'[i].who => h = i
      <4>1. CASE i \in 2 .. n
        <5>1. /\ HandlerFrame(i)' /\ stack'[i].who \in arrived' \cap caught'
              /\ \A h \in 2 .. n : stack'[h].who = stack'[i].who => h = i
          BY <2>7, <4>1
        <5>2. stack'[i].who # signal
          BY <1>1, <2>7, <4>1
        <5>3. \A h \in 2 .. n + 1 : h = n + 1 => stack'[h].who = signal
          BY <2>8, Zenon
        <5> QED  BY <2>5, <5>1, <5>2, <5>3, Zenon
      <4>2. CASE i = n + 1
        <5>1. HandlerFrame(i)' /\ stack'[i].who = signal
          BY <2>8, <4>2
        <5>2. signal \in arrived' \cap caught'
          BY <1>1, <1>4
        <5>3. ASSUME NEW h \in 2 .. n
              PROVE  stack'[h].who # signal
          <6>1. stack'[h].who \in arrived
            BY <2>7, Zenon
          <6> QED  BY <1>1, <6>1, Zenon
        <5>4. \A h \in 2 .. n + 1 : stack'[h].who = stack'[i].who => h = i
          BY <2>5, <4>2, <5>1, <5>3, Zenon
        <5> QED  BY <5>1, <5>2, <5>4, Zenon
      <4> QED  BY <2>5, <4>1, <4>2, Zenon
    <3>2. Len(stack') = n + 1
      BY <2>4
    <3>3. \A i \in 2 .. Len(stack') :
            /\ HandlerFrame(i)' /\ stack'[i].who \in arrived' \cap caught'
            /\ \A h \in 2 .. Len(stack') : stack'[h].who = stack'[i].who => h = i
      BY <3>1, <3>2, Zenon
    <3> QED  BY <2>4, <2>6, <3>3, Zenon DEF Frames
  <2>10. holder \in 0 .. n /\ \A i \in 1 .. n : Inside(i) <=> holder = i
    BY <1>2, Zenon DEF Mutex, n
  <2>11. holder # 0 => stack'[holder] = stack[holder]
    <3>1. holder # 0 => holder \in 1 .. n
      BY <2>3, <2>10
    <3> QED  BY <2>4, <3>1, Zenon
  <2>12. Mutex'
    <3>1. ASSUME NEW i \in 1 .. n + 1
          PROVE  Inside(i)' <=> holder = i
      <4>1. CASE i \in 1 .. n
        <5>1. stack'[i] = stack[i]
          BY <2>4, <4>1, Zenon
        <5>2. Inside(i) <=> holder = i
          BY <2>10, <4>1, Zenon
        <5> QED  BY <5>1, <5>2, Zenon DEF Inside
      <4>2. CASE i = n + 1
        <5>1. holder # i
          BY <2>5, <2>10, <4>2, Zenon
        <5>2. stack'[i].todo = HandleSignal
          BY <2>2, <2>4, <4>2, Zenon
        <5>3. Head(HandleSignal).do = "log"
          BY HandleSignalIs DEF Log
        <5>4. ~ Inside(i)'
          BY <5>2, <5>3 DEF Inside
        <5> QED  BY <5>1, <5>4, Zenon
      <4> QED  BY <2>5, <4>1, <4>2, Zenon
    <3>2. holder' \in 0 .. n + 1
      BY <1>1, <2>5, <2>10, Zenon
    <3>3. Len(stack') = n + 1
      BY <2>4
    <3> QED  BY <1>1, <3>1, <3>2, <3>3, Zenon DEF Mutex
  <2>13. Ledger'
    <3>1. (Waits' <=> Waits) /\ (Waits => stack'[holder'].who = stack[holder].who)
      BY <1>1, <2>11, Zenon DEF Waits
    <3> QED  BY <1>1, <1>2, <3>1, LedgerSame, Zenon
  <2>14. Kept'
    BY <1>1, <1>2, <2>1, Zenon DEF Kept, Bound
  <2>15. Ended'
    BY <1>1, <2>1, Unended
  <2> QED  BY <2>9, <2>12, <2>13, <2>14, <2>15 DEF IInv
<1> QED
  BY <1>3, <1>4

LEMMA ReturnKeeps ==
  ASSUME IInv, Return
  PROVE  IInv'
<1> DEFINE n == Len(stack)
<1>1. /\ exit = "none" /\ exit' = exit /\ Instruction.do = "return"
      /\ stack' = SubSeq(stack, 1, n - 1)
      /\ launch' = launch /\ parsed' = parsed /\ config' = config
      /\ running' = running /\ holder' = holder /\ logFile' = logFile
      /\ written' = written /\ engine' = engine /\ open' = open
      /\ socketFile' = socketFile /\ caught' = caught /\ arrived' = arrived
      /\ entries' = entries
  BY DEF Return, At
<1>2. Kept /\ Frames /\ Mutex /\ Ledger
  BY DEF IInv
<1>3. n > 1
  <2>1. ASSUME NEW code \in {"0", "1"}, NEW k \in 1 .. 20,
               NEW j \in 1 .. 5, NEW logs \in LogLists,
               MainPlace(Top.todo, code, k, j, logs)
        PROVE  FALSE
    <3>1. First(Top.todo, Program(code), k, j, logs)
      BY <2>1, MainFirst, Zenon DEF MainPlace
    <3>2. Instruction.do \notin EntryWords \cup {"log"}
      BY <1>1 DEF EntryWords
    <3>3. Program(code)[k].do = "return"
      BY <1>1, <3>1, <3>2, Zenon DEF First, Instruction
    <3>4. "return" \notin {"lock", "print", "append", "unlock", "return"}
      BY <3>3, PlaceOfWord, Zenon
    <3> QED  BY <3>4
  <2> QED  BY <1>2, <2>1, TopPlaces, Zenon
<1>4. /\ stack \in Seq(Frame) /\ n \in Nat /\ n - 1 \in 1 .. n /\ 1 \in 1 .. n
      /\ \A i \in 1 .. n - 1 : i \in 1 .. n /\ i # n
      /\ \A i \in 1 .. n - 1 : stack[i] \in Frame
  <2>1. stack \in Seq(Frame)
    BY <1>2, Zenon DEF Frames
  <2>2. n \in Nat /\ \A i \in 1 .. n : stack[i] \in Frame
    BY <1>2, FramesAre, Zenon
  <2> HIDE DEF n
  <2> QED  BY <1>3, <2>1, <2>2
<1>5. /\ stack' \in Seq(Frame) /\ stack' # << >> /\ Len(stack') = n - 1
      /\ \A i \in 1 .. n - 1 : stack'[i] = stack[i]
  <2>1. n - 1 \in 0 .. n /\ n - 1 # 0
    <3> HIDE DEF n
    <3> QED  BY <1>3, <1>4
  <2>2. IsPopped(stack', stack, n - 1)
    BY <1>1, <1>4, <2>1, Popped, Zenon
  <2>3. stack' # << >>
    BY <2>1, <2>2, EmptySeq, Zenon DEF IsPopped
  <2> QED  BY <2>2, <2>3, Zenon DEF IsPopped
<1>6. /\ holder \in 0 .. n - 1
      /\ \A i \in 1 .. n - 1 : Inside(i) <=> holder = i
  <2>1. ~ Inside(n)
    <3>1. Top = stack[n]
      BY <1>2, FramesAre, Zenon
    <3> QED  BY <1>1, <3>1 DEF Inside, Instruction
  <2>2. holder \in 0 .. n /\ \A i \in 1 .. n : Inside(i) <=> holder = i
    BY <1>2, Zenon DEF Mutex
  <2>3. n \in 1 .. n
    BY <1>2, FramesAre
  <2>4. holder # n
    BY <2>1, <2>2, <2>3, Zenon
  <2> HIDE DEF n
  <2>5. holder \in 0 .. n - 1
    BY <1>4, <2>2, <2>4
  <2> QED  BY <1>4, <2>2, <2>5, Zenon
<1> HIDE DEF n
<1>7. MainFrame'
  <2>1. PICK code \in {"0", "1"}, k \in 1 .. 20, j \in 1 .. 5, logs \in LogLists :
          /\ Place(stack[1].todo, Program(code), k, j, logs)
          /\ Reached(code, k)
          /\ k <= 3 => j = 5 /\ logs = << >>
    BY <1>2 DEF Frames, MainFrame
  <2>2. 1 \in 1 .. n - 1
    BY <1>3, <1>4
  <2>3. stack'[1] = stack[1]
    BY <1>5, <2>2, Zenon
  <2>4. Reached(code, k)'
    BY <1>1, <2>1, ReachedSame, Zenon
  <2> QED  BY <2>1, <2>3, <2>4, Zenon DEF MainFrame
<1>8. Frames'
  <2>1. \A i \in 2 .. n - 1 : i \in 1 .. n - 1 /\ i \in 2 .. n
    BY <1>4
  <2>2. ASSUME NEW i \in 2 .. n - 1
        PROVE  /\ HandlerFrame(i)' /\ stack'[i].who \in arrived' \cap caught'
               /\ \A h \in 2 .. n - 1 : stack'[h].who = stack'[i].who => h = i
    <3>1. /\ HandlerFrame(i) /\ stack[i].who \in arrived \cap caught
          /\ \A h \in 2 .. n : stack[h].who = stack[i].who => h = i
      BY <1>2, <2>1, Zenon DEF Frames, n
    <3>2. \A h \in 2 .. n - 1 : stack'[h] = stack[h]
      BY <1>5, <2>1, Zenon
    <3>3. HandlerFrame(i)'
      BY <1>1, <3>1, <3>2, Zenon DEF HandlerFrame
    <3> QED  BY <1>1, <2>1, <3>1, <3>2, <3>3, Zenon
  <2>3. Len(stack') = n - 1
    BY <1>5
  <2>4. \A i \in 2 .. Len(stack') :
          /\ HandlerFrame(i)' /\ stack'[i].who \in arrived' \cap caught'
          /\ \A h \in 2 .. Len(stack') : stack'[h].who = stack'[i].who => h = i
    BY <2>2, <2>3, Zenon
  <2> QED  BY <1>5, <1>7, <2>4, Zenon DEF Frames
<1>9. holder # 0 => stack'[holder] = stack[holder]
  <2>1. holder # 0 => holder \in 1 .. n - 1
    BY <1>4, <1>6
  <2> QED  BY <1>5, <2>1, Zenon
<1>10. Mutex'
  <2>1. ASSUME NEW i \in 1 .. n - 1
        PROVE  Inside(i)' <=> holder = i
    <3>1. stack'[i] = stack[i]
      BY <1>5, Zenon
    <3>2. Inside(i) <=> holder = i
      BY <1>6, Zenon
    <3> QED  BY <3>1, <3>2, Zenon DEF Inside
  <2>2. Len(stack') = n - 1
    BY <1>5
  <2> QED  BY <1>1, <1>6, <2>1, <2>2, Zenon DEF Mutex
<1>11. Ledger'
  <2>1. (Waits' <=> Waits) /\ (Waits => stack'[holder'].who = stack[holder].who)
    BY <1>1, <1>9, Zenon DEF Waits
  <2> QED  BY <1>1, <1>2, <2>1, LedgerSame, Zenon
<1>12. Kept'
  BY <1>1, <1>2, Zenon DEF Kept, Bound
<1>13. Ended'
  BY <1>1, Unended
<1> QED
  BY <1>8, <1>10, <1>11, <1>12, <1>13 DEF IInv

----------------------------------------------------------------------------
(* The invariant.                                                          *)

LEMMA MainAtFirst == Place(Main, Program("0"), 1, 5, << >>)
<1>1. Main \in Seq(Instructions)
  BY MainIs, Zenon
<1>2. << >> \o Main = Main
  BY <1>1, ConcatEmptySeq, Zenon
<1> QED
  BY <1>2, NoEntry, RestOfProgram, Zenon DEF Place

LEMMA InitIInv ==
  ASSUME Init
  PROVE  IInv
<1>1. /\ launch \in Launches /\ parsed = 0 /\ config = Defaults
      /\ stack = << [who |-> "main", todo |-> Main] >>
      /\ running = FALSE /\ holder = 0 /\ logFile = FALSE
      /\ written = [stdout |-> << >>, file |-> << >>, disk |-> << >>]
      /\ engine = FALSE /\ open = {} /\ socketFile \in SUBSET {"whole", Bound}
      /\ caught = {} /\ arrived = {} /\ entries = 0
      /\ exit = "none"
  BY DEF Init
<1>2. Kept
  <2>1. Len(launch.arguments) \in Nat
    BY <1>1, SourcesOfLaunch, Zenon
  <2>2. parsed \in 0 .. Len(launch.arguments)
    BY <1>1, <2>1
  <2>3. entries \in 0 .. MaxEntries
    BY <1>1, LifecycleAssumption
  <2>4. engine => config.loaded
    BY <1>1
  <2>5. IsConfig(config)
    BY <1>1, DefaultsTyped, Zenon
  <2> QED  BY <1>1, <2>2, <2>3, <2>4, <2>5 DEF Kept
<1> DEFINE f == [who |-> "main", todo |-> Main]
<1>3. /\ f \in Frame /\ f.todo = Main /\ f.who = "main"
  <2>1. Main \in Seq(Instructions)
    BY MainIs, Zenon
  <2> QED  BY <2>1, Zenon DEF Frame
<1>4. stack = << f >>
  BY <1>1, Zenon
<1> HIDE DEF f
<1>5. stack \in Seq(Frame) /\ stack # << >> /\ Len(stack) = 1 /\ stack[1] = f
  BY <1>3, <1>4
<1>6. Frames
  <2>1. Reached("0", 1)
    BY <1>1 DEF Reached
  <2>2. /\ "0" \in {"0", "1"} /\ 1 \in 1 .. 20 /\ 5 \in 1 .. 5
        /\ << >> \in LogLists
    BY DEF LogLists
  <2>3. Place(stack[1].todo, Program("0"), 1, 5, << >>)
    BY <1>3, <1>5, MainAtFirst, Zenon
  <2>4. MainFrame
    BY <2>1, <2>2, <2>3, Zenon DEF MainFrame
  <2>5. 2 .. Len(stack) = {}
    BY <1>5, NoHandlers, Zenon
  <2> QED  BY <1>5, <2>4, <2>5, Zenon DEF Frames
<1>7. Mutex
  <2>1. Head(stack[1].todo).do = "environment"
    <3>1. Main # << >> /\ Head(Main) = Main[1]
      <4> DEFINE m == Main
      <4>1. m \in Seq(Instructions) /\ Len(m) = 20
        BY MainIs, Zenon
      <4> HIDE DEF m
      <4>2. m # << >>
        <5>1. Len(m) # 0
          BY <4>1
        <5> QED  BY <4>1, <5>1, EmptySeq, Zenon
      <4>3. Head(m) = m[1]
        OBVIOUS
      <4> QED  BY <4>2, <4>3 DEF m
    <3> QED  BY <1>3, <1>5, <3>1, MainIs, Zenon
  <2>2. ~ Inside(1)
    BY <2>1 DEF Inside
  <2>3. \A i \in 1 .. Len(stack) : i = 1 /\ i # 0
    BY <1>5
  <2>4. 0 \in 0 .. Len(stack)
    BY <1>5
  <2> QED  BY <1>1, <2>2, <2>3, <2>4, Zenon DEF Mutex
<1>8. Ledger
  <2>1. /\ written.stdout = << >> /\ written.file = << >> /\ written.disk = << >>
        /\ written = [stdout |-> written.stdout, file |-> written.file,
                      disk |-> written.disk]
    BY <1>1, Zenon
  <2>2. << >> \in Seq({"main"} \cup Signals)
    OBVIOUS
  <2>3. IsPrefix(<< >>, << >>)
    BY DEF IsPrefix
  <2> QED  BY <1>1, <2>1, <2>2, <2>3, Zenon DEF Ledger
<1>9. Ended
  BY <1>1 DEF Ended, LeavesNothingBehind
<1> QED
  BY <1>2, <1>6, <1>7, <1>8, <1>9 DEF IInv

LEMMA StutterKeeps ==
  ASSUME IInv, UNCHANGED vars
  PROVE  IInv'
<1>1. /\ launch' = launch /\ parsed' = parsed /\ config' = config
      /\ stack' = stack /\ running' = running /\ holder' = holder
      /\ logFile' = logFile /\ written' = written /\ engine' = engine
      /\ open' = open /\ socketFile' = socketFile /\ caught' = caught
      /\ arrived' = arrived /\ entries' = entries /\ exit' = exit
  BY DEF vars
<1>2. Kept /\ Frames /\ Mutex /\ Ledger /\ Ended
  BY DEF IInv
<1>3. Kept' /\ Ended'
  BY <1>1, <1>2, Zenon DEF Kept, Ended, LeavesNothingBehind, Bound
<1>4. Frames'
  BY <1>1, <1>2, FramesStay, Zenon
<1>5. Mutex' /\ Ledger'
  BY <1>1, <1>2, QuietStep, Zenon
<1> QED
  BY <1>3, <1>4, <1>5 DEF IInv

LEMMA ExecuteKeeps ==
  ASSUME IInv, Execute
  PROVE  IInv'
<1>1. CASE LoadEnvironment \/ ParseNextArgument \/ ArgumentsParsed
  BY <1>1, LoadEnvironmentKeeps, ParseNextArgumentKeeps, ArgumentsParsedKeeps, Zenon
<1>2. CASE InitializeLogger \/ InitializeEventLoop \/ InitializeTokenEngine
  BY <1>2, InitializeLoggerKeeps, InitializeEventLoopKeeps,
     InitializeTokenEngineKeeps, Zenon
<1>3. ASSUME NEW listener \in {"tcp", "unix"},
             BindAndListen(listener) \/ CloseListener(listener)
      PROVE  IInv'
  BY <1>3, BindAndListenKeeps, CloseListenerKeeps, Zenon
<1>4. ASSUME NEW signal \in Signals, CatchSignal(signal)
      PROVE  IInv'
  BY <1>4, CatchSignalKeeps, Zenon
<1>5. CASE StartLoop \/ LeaveLoop \/ Stop \/ Return
  BY <1>5, StartLoopKeeps, LeaveLoopKeeps, StopKeeps, ReturnKeeps, Zenon
<1>6. ASSUME NEW code \in {"0", "1"}, Exit(code)
      PROVE  IInv'
  BY <1>6, ExitKeeps, Zenon
<1>7. CASE LogMessage \/ Lock \/ PrintEntry \/ AppendToFile \/ Unlock
  BY <1>7, LogMessageKeeps, LockKeeps, PrintEntryKeeps, AppendToFileKeeps,
     UnlockKeeps, Zenon
<1> QED
  BY <1>1, <1>2, <1>3, <1>4, <1>5, <1>6, <1>7, Zenon DEF Execute

LEMMA NextKeeps ==
  ASSUME IInv, [Next]_vars
  PROVE  IInv'
<1>1. CASE Execute
  BY <1>1, ExecuteKeeps, Zenon
<1>2. ASSUME NEW level \in LogLevels, CoroutineLogs(level)
      PROVE  IInv'
  BY <1>2, CoroutineLogsKeeps, Zenon
<1>3. ASSUME NEW signal \in Signals, Signal(signal)
      PROVE  IInv'
  BY <1>3, SignalKeeps, Zenon
<1>4. CASE UNCHANGED vars
  BY <1>4, StutterKeeps, Zenon
<1> QED
  BY <1>1, <1>2, <1>3, <1>4, Zenon DEF Next, LogLevels

(* At every moment each frame is at a place of its program, and main's     *)
(* place says what is known of the settings, the listeners, the handlers   *)
(* and the log.                                                            *)
THEOREM Invariance == Spec => []IInv
<1>1. Init => IInv
  BY InitIInv
<1>2. IInv /\ [Next]_vars => IInv'
  BY NextKeeps
<1> QED
  BY <1>1, <1>2, PTL DEF Spec

----------------------------------------------------------------------------
(* What it implies.                                                        *)

(* No frame is at its end, whatever handlers came between its steps; the   *)
(* mutex is a frame's; and the port is a uint16_t.                         *)
LEMMA FramesHaveMore ==
  ASSUME Frames
  PROVE  \A i \in 1 .. Len(stack) : stack[i].todo # << >>
<1>1. stack[1].todo # << >>
  <2>1. PICK code \in {"0", "1"}, k \in 1 .. 20, j \in 1 .. 5, logs \in LogLists :
          Place(stack[1].todo, Program(code), k, j, logs)
    BY Zenon DEF Frames, MainFrame
  <2>2. First(stack[1].todo, Program(code), k, j, logs)
    BY <2>1, MainFirst, Zenon
  <2> QED  BY <2>2, Zenon DEF First
<1>2. ASSUME NEW i \in 2 .. Len(stack)
      PROVE  stack[i].todo # << >>
  <2>1. PICK k \in 1 .. 4, j \in 1 .. 5 :
          Place(stack[i].todo, HandleSignal, k, j, << >>)
    BY Zenon DEF Frames, HandlerFrame
  <2>2. First(stack[i].todo, HandleSignal, k, j, << >>)
    BY <2>1, HandlerFirst, Zenon
  <2> QED  BY <2>2, Zenon DEF First
<1>3. \A i \in 1 .. Len(stack) : i = 1 \/ i \in 2 .. Len(stack)
  BY FramesAre
<1> QED
  BY <1>1, <1>2, <1>3, Zenon

(* A handler is not entered again for its own signal, so that there are    *)
(* at most two.                                                            *)
LEMMA FewFrames ==
  ASSUME Kept, Frames
  PROVE  Len(stack) \in 1 .. 3
<1> DEFINE n == Len(stack)
<1>1. n \in Nat /\ n >= 1
  BY FramesAre, Zenon
<1>2. \A i \in 2 .. n :
        /\ stack[i].who \in Signals
        /\ \A h \in 2 .. n : stack[h].who = stack[i].who => h = i
  BY Zenon DEF Frames, Kept
<1> HIDE DEF n
<1>3. ASSUME n > 3
      PROVE  FALSE
  <2>1. 2 \in 2 .. n /\ 3 \in 2 .. n /\ 4 \in 2 .. n /\ 2 # 3 /\ 2 # 4 /\ 3 # 4
    BY <1>1, <1>3
  <2>2. /\ stack[2].who \in Signals /\ stack[3].who \in Signals
        /\ stack[4].who \in Signals
        /\ stack[2].who # stack[3].who /\ stack[2].who # stack[4].who
        /\ stack[3].who # stack[4].who
    BY <1>2, <2>1, Zenon
  <2> QED  BY <2>2, Zenon DEF Signals
<1>4. n \in 1 .. 3
  BY <1>1, <1>3
<1> QED
  BY <1>4 DEF n

(* TypeOK: the settings keep their types whatever the sources say, the     *)
(* port cut to 16 bits, and the thread has at most a frame for each of the *)
(* two handlers over main's.                                               *)
THEOREM TypeCorrectness == Spec => []TypeOK
<1>1. ASSUME IInv
      PROVE  TypeOK
  <2>1. Kept /\ Frames /\ Mutex
    BY <1>1 DEF IInv
  <2>2. /\ config.port \in 0 .. Word - 1 /\ config.level \in Range(Levels)
        /\ config.stdout \in BOOLEAN /\ config.loaded \in BOOLEAN
    BY <2>1, Zenon DEF Kept, IsConfig
  <2>3. Len(stack) \in 1 .. 3
    BY <2>1, FewFrames, Zenon
  <2>4. \A i \in DOMAIN stack : stack[i].todo # << >>
    BY <2>1, FramesAre, FramesHaveMore, Zenon
  <2>5. holder \in 0 .. Len(stack)
    BY <2>1 DEF Mutex
  <2>6. {running, logFile, engine} \subseteq BOOLEAN
        /\ socketFile \subseteq {"whole", Bound}
    BY <2>1, Zenon DEF Kept
  <2>7. /\ launch \in Launches /\ parsed \in 0 .. Len(launch.arguments)
        /\ open \subseteq {"tcp", "unix"}
        /\ caught \subseteq Signals /\ arrived \subseteq Signals
        /\ entries \in 0 .. MaxEntries
        /\ exit \in {"none", "0", "1", "killed", "aborted"}
    BY <2>1, Zenon DEF Kept
  <2> QED  BY <2>2, <2>3, <2>4, <2>5, <2>6, <2>7, Zenon DEF TypeOK
<1> QED
  BY <1>1, Invariance, PTL

(* When main is past the arguments, all sources have been applied.         *)
LEMMA AllSourcesApplied ==
  ASSUME Kept, Frames, Configured
  PROVE  SettingsUpTo(Sources(launch), config, Len(launch.arguments) + 1)
<1>1. PICK code \in {"0", "1"}, k \in 1 .. 20, j \in 1 .. 5, logs \in LogLists :
        /\ Place(stack[1].todo, Program(code), k, j, logs)
        /\ Reached(code, k)
        /\ k <= 3 => j = 5 /\ logs = << >>
  BY Zenon DEF Frames, MainFrame
<1>2. k > 2
  <2>1. ASSUME k = 1 \/ k = 2
        PROVE  FALSE
    <3>1. Program(code) \in Seq(Instructions) /\ k \in 1 .. Len(Program(code))
      BY ProgramIs
    <3>2. j = 5 /\ logs = << >>
      BY <1>1, <2>1
    <3>3. /\ stack[1].todo \in Seq(Instructions) /\ stack[1].todo # << >>
          /\ Head(stack[1].todo) = Program(code)[k]
      <4> DEFINE todo == stack[1].todo
                 program == Program(code)
      <4>1. Place(todo, program, k, j, logs)
        BY <1>1
      <4>2. program \in Seq(Instructions) /\ k \in 1 .. Len(program)
        BY <3>1
      <4> HIDE DEF todo, program
      <4>3. /\ todo \in Seq(Instructions) /\ todo # << >>
            /\ j = 5 /\ logs = << >> =>
                 /\ Head(todo) = program[k]
                 /\ Place(Tail(todo), program, k + 1, 5, << >>)
        BY <4>1, <4>2, PlaceIs, Zenon
      <4> QED  BY <3>2, <4>3, Zenon DEF todo, program
    <3>4. 1 \in DOMAIN stack[1].todo /\ stack[1].todo[1] = Program(code)[k]
      BY <3>3
    <3>5. Program(code)[k].do \in {"environment", "arguments"}
      <4>1. /\ Program(code)[1].do = "environment"
            /\ Program(code)[2].do = "arguments"
        BY ProgramDoes, ZenonT(40) DEF Does
      <4> QED  BY <2>1, <4>1, Zenon
    <3> QED  BY <3>4, <3>5, Zenon DEF Configured
  <2> QED  BY <2>1
<1>3. SettingsUpTo(Sources(launch), config, parsed + 1)
      /\ parsed = Len(launch.arguments)
  <2>1. k > 1
    BY <1>2
  <2> QED  BY <1>1, <1>2, <2>1, Zenon DEF Reached
<1> QED
  BY <1>3, Zenon

(* A set of sources has a last one.                                        *)
LEMMA LastSource ==
  ASSUME NEW n \in Nat, NEW D, D \subseteq 1 .. n, D # {}
  PROVE  \E m \in D : \A i \in D : m >= i
<1> DEFINE T == {n - i : i \in D}
<1>1. T \subseteq Nat /\ T # {}
  <2>1. \A i \in D : n - i \in Nat
    OBVIOUS
  <2> QED  BY <2>1
<1>2. PICK R : IsWellFoundedOn(R, Nat) /\ \A x, y \in Nat : << x, y >> \in R <=> x < y
  <2>1. \A x, y \in Nat : << x, y >> \in OpToRel(<, Nat) <=> x < y
    BY DEF OpToRel
  <2> QED  BY <2>1, NatLessThanWellFounded, Zenon
<1> HIDE DEF T
<1>3. PICK t \in T : \A u \in T : ~ (<< u, t >> \in R)
  <2>1. ASSUME NEW Q, NEW S, IsWellFoundedOn(Q, S), NEW U, U \subseteq S, U # {}
        PROVE  \E x \in U : \A y \in U : ~ (<< y, x >> \in Q)
    BY <2>1, WFMin, SMT
  <2>2. IsWellFoundedOn(R, Nat)
    BY <1>2
  <2> QED  BY <1>1, <2>1, <2>2, Zenon
<1>4. PICK m \in D : t = n - m
  BY <1>3 DEF T
<1>5. ASSUME NEW i \in D
      PROVE  m >= i
  <2>1. n - i \in T
    BY DEF T
  <2>2. ~ (n - i < n - m)
    BY <1>1, <1>2, <1>3, <1>4, <2>1
  <2>3. m \in 1 .. n /\ i \in 1 .. n
    OBVIOUS
  <2> QED  BY <2>2, <2>3
<1> QED
  BY <1>5

LEMMA MaxIs ==
  ASSUME NEW D, D \subseteq Nat, NEW m \in D, \A i \in D : m >= i
  PROVE  Max(D) = m
<1>1. \A x \in D : (\A y \in D : x >= y) => x = m
  <2> SUFFICES ASSUME NEW x \in D, \A y \in D : x >= y
               PROVE  x = m
    OBVIOUS
  <2>1. x >= m /\ m >= x /\ x \in Nat /\ m \in Nat
    OBVIOUS
  <2> QED  BY <2>1
<1> QED
  BY <1>1, Zenon DEF Max

(* Where no file comes after a flag that gives its setting, the last       *)
(* source is the one that the documented precedence puts first.            *)
LEMMA PrecedenceIsOrder ==
  ASSUME Kept, NEW setting, FlagsLast(launch, setting)
  PROVE  Effective(launch, setting) =
           LET deciding == Deciding(Sources(launch), setting)
           IN IF deciding = {} THEN Defaults[setting]
              ELSE Meaning(setting, Sources(launch)[Max(deciding)][setting])
<1> DEFINE D == Deciding(Sources(launch), setting)
           flags == Flags(launch, setting)
           files == Files(launch, setting)
           first == CASE flags # {} -> flags
                      [] flags = {} /\ files # {} -> files
                      [] OTHER -> D
           n == Len(launch.arguments) + 1
<1>1. n \in Nat /\ D \subseteq 1 .. n /\ D \subseteq Nat
  BY SourcesDomain DEF Deciding
<1>2. /\ flags \subseteq D /\ files \subseteq D
      /\ \A i \in D : i = 1 \/ i \in flags \/ i \in files
      /\ \A i \in flags \cup files : i > 1
      /\ \A i \in flags, j \in files : j < i
  <2>1. \A i \in D : i = 1 \/ i > 1
    BY <1>1
  <2> QED  BY <2>1 DEF Flags, Files, FlagsLast
<1>3. /\ flags # {} => first = flags
      /\ flags = {} /\ files # {} => first = files
      /\ flags = {} /\ files = {} => first = D
  OBVIOUS
<1>4. Effective(launch, setting) =
        IF first = {} THEN Defaults[setting]
        ELSE Meaning(setting, Sources(launch)[Max(first)][setting])
  BY Zenon DEF Effective
<1> HIDE DEF D, flags, files, first, n
<1>5. first \subseteq D /\ (D # {} => first # {})
  BY <1>2, <1>3, Zenon
<1>6. ASSUME D # {}
      PROVE  Max(first) = Max(D)
  <2>1. PICK m \in D : \A i \in D : m >= i
    BY <1>1, <1>6, LastSource, Zenon
  <2>2. m \in first
    <3>1. CASE flags # {}
      <4>1. PICK f \in flags : TRUE
        BY <3>1
      <4>2. f > 1 /\ m >= f /\ f \in Nat /\ m \in Nat
        BY <1>1, <1>2, <2>1
      <4>3. m # 1 /\ (m \in files => m < f)
        BY <1>2, <4>2
      <4>4. m \notin files
        BY <4>2, <4>3
      <4> QED  BY <1>2, <1>3, <3>1, <4>3, <4>4, Zenon
    <3>2. CASE flags = {} /\ files # {}
      <4>1. PICK f \in files : TRUE
        BY <3>2
      <4>2. f > 1 /\ m >= f /\ f \in Nat /\ m \in Nat
        BY <1>1, <1>2, <2>1
      <4>3. m # 1
        BY <4>2
      <4> QED  BY <1>2, <1>3, <3>2, <4>3, Zenon
    <3>3. CASE flags = {} /\ files = {}
      BY <1>3, <3>3, Zenon
    <3> QED  BY <3>1, <3>2, <3>3
  <2>3. \A i \in first : m >= i
    BY <1>5, <2>1, Zenon
  <2>4. first \subseteq Nat
    BY <1>1, <1>5, Zenon
  <2>5. Max(first) = m
    BY <2>2, <2>3, <2>4, MaxIs, Zenon
  <2>6. Max(D) = m
    BY <1>1, <2>1, MaxIs, Zenon
  <2> QED  BY <2>5, <2>6, Zenon
<1>7. D = {} => first = {}
  BY <1>5, Zenon
<1> QED
  BY <1>4, <1>5, <1>6, <1>7, Zenon DEF D

(* EffectiveSettings: once the arguments are parsed, each setting is what  *)
(* the documented precedence makes of the sources, for all environments,   *)
(* files and command lines in which no --config gives a setting again      *)
(* after its flag: Initialize and ParseCommandLineArguments apply each     *)
(* source over the earlier ones, and the last prevails.                    *)
THEOREM SettingsAsGiven == Spec => []EffectiveSettings
<1>1. ASSUME IInv, Configured, NEW setting \in {"port", "address", "level", "stdout"},
             FlagsLast(launch, setting)
      PROVE  config[setting] = Effective(launch, setting)
  <2> DEFINE sources == Sources(launch)
             n == Len(launch.arguments) + 1
  <2>1. Kept /\ Frames
    BY <1>1 DEF IInv
  <2>2. SettingsUpTo(sources, config, n)
    BY <1>1, <2>1, AllSourcesApplied, Zenon
  <2>3. config[setting] = EffectiveUpTo(sources, n, setting)
    BY <2>2, Zenon DEF SettingsUpTo, SettingNames
  <2>4. \A i \in DOMAIN sources : i <= n
    BY <2>1, SourcesDomain
  <2>5. Effective(launch, setting) =
          LET deciding == Deciding(sources, setting)
          IN IF deciding = {} THEN Defaults[setting]
             ELSE Meaning(setting, sources[Max(deciding)][setting])
    BY <1>1, <2>1, PrecedenceIsOrder, Zenon
  <2> HIDE DEF sources, n
  <2>6. DecidingUpTo(sources, n, setting) = Deciding(sources, setting)
    BY <2>4, Zenon DEF DecidingUpTo, Deciding
  <2> QED  BY <2>3, <2>5, <2>6, Zenon DEF EffectiveUpTo
<1>2. IInv => EffectiveSettings
  BY <1>1, Zenon DEF EffectiveSettings
<1> QED
  BY <1>2, Invariance, PTL

(* KeyWholeUnlessBroken: the token engine starts only with a whole key     *)
(* from some source, and a key that is not the last whole one is due to a  *)
(* later text that broke off, ParseHexString writing into the key itself.  *)
THEOREM KeyFromWholeText == Spec => []KeyWholeUnlessBroken
<1>1. ASSUME IInv, Configured, config.loaded \/ engine
      PROVE  LET sources == Sources(launch)
                 whole   == KeyTexts(sources)
             IN /\ whole # {}
                /\ \/ config.key = sources[Max(whole)].key
                   \/ \E i \in BrokenKeyTexts(sources) : i > Max(whole)
  <2> DEFINE sources == Sources(launch)
             n == Len(launch.arguments) + 1
  <2>1. Kept /\ Frames
    BY <1>1 DEF IInv
  <2>2. LoadedUpTo(sources, config, n)
    BY <1>1, <2>1, AllSourcesApplied, Zenon DEF SettingsUpTo
  <2>3. config.loaded
    BY <1>1, <2>1, Zenon DEF Kept
  <2>4. \A i \in DOMAIN sources : i <= n
    BY <2>1, SourcesDomain
  <2> HIDE DEF sources, n
  <2>5. KeysUpTo(sources, n) = KeyTexts(sources)
    BY <2>4, Zenon DEF KeysUpTo, KeyTexts
  <2>6. KeyTexts(sources) # {} /\ KeyUpTo(sources, n, config.key)
    BY <2>2, <2>3, <2>5, Zenon DEF LoadedUpTo
  <2>7. \/ config.key = sources[Max(KeyTexts(sources))].key
        \/ \E i \in BrokenKeyTexts(sources) : i > Max(KeyTexts(sources))
    BY <2>5, <2>6, Zenon DEF KeyUpTo
  <2> QED  BY <2>6, <2>7, Zenon DEF sources
<1>2. IInv => KeyWholeUnlessBroken
  BY <1>1, Zenon DEF KeyWholeUnlessBroken
<1> QED
  BY <1>2, Invariance, PTL

(* LogsAgree: the file's stream gets stdout's entries in stdout's order,   *)
(* whatever handler comes between the two writes of WriteLogEntry, and the *)
(* file has a beginning of them, whatever of its buffer the stream wrote,  *)
(* and all of them once ~Logger has closed it.                             *)
THEOREM FileFollowsStdout == Spec => []LogsAgree
<1>1. ASSUME IInv, config.stdout, logFile
      PROVE  /\ IsPrefix(written.file, written.stdout)
             /\ Len(written.stdout) - Len(written.file) <= 1
             /\ IsPrefix(written.disk, written.file)
             /\ exit \in {"0", "1"} => written.disk = written.stdout
  <2> DEFINE S == {"main"} \cup Signals
             holding == holder # 0 /\ Head(stack[holder].todo).do = "append"
             who == stack[holder].who
  <2>1. /\ written.file \in Seq(S)
        /\ written.stdout = IF holding THEN Append(written.file, who)
                            ELSE written.file
        /\ IsPrefix(written.disk, written.file)
    BY <1>1, Zenon DEF IInv, Ledger
  <2>5. exit \in {"0", "1"} => written.disk = written.file /\ ~ holding
    BY <1>1, Zenon DEF IInv, Ended
  <2>2. holding => who \in S
    <3>1. holder # 0 => holder \in 1 .. Len(stack)
      BY <1>1, FramesAre DEF IInv, Mutex
    <3> QED  BY <1>1, <3>1, FramesAre, Zenon DEF IInv
  <2>3. CASE holding
    <3>1. who \in S /\ written.stdout = Append(written.file, who)
      BY <2>1, <2>2, <2>3, Zenon
    <3> HIDE DEF S, who
    <3> QED  BY <2>1, <2>3, <2>5, <3>1, PrefixOfAppended, Zenon
  <2>4. CASE ~ holding
    <3>1. "main" \in S /\ written.stdout = written.file
      BY <2>1, <2>4, Zenon
    <3> HIDE DEF S
    <3> QED  BY <2>1, <2>5, <3>1, PrefixOfAppended, Zenon
  <2> QED  BY <2>3, <2>4
<1>2. IInv => LogsAgree
  BY <1>1, Zenon DEF LogsAgree
<1> QED
  BY <1>2, Invariance, PTL

(* QuietSignalsNeverBlock: the thread waits for Logger's own mutex only in *)
(* a handler, and the handlers' entries are of level info: a logger that   *)
(* holds these back never blocks the thread.                               *)
THEOREM QuietNeverStuck == Spec => []QuietSignalsNeverBlock
<1>1. ASSUME IInv, Stuck
      PROVE  Severity(config.level) <= Severity("info")
  <2>1. Frames /\ Mutex
    BY <1>1 DEF IInv
  <2>2. Head(Top.todo).do = "lock" /\ holder # 0
    BY <1>1 DEF Stuck, At, Instruction
  <2>3. ASSUME Len(stack) = 1, Top = stack[1]
        PROVE  FALSE
    <3>1. 1 \in 1 .. Len(stack) /\ holder = 1
      BY <2>1, <2>2, <2>3 DEF Mutex
    <3>2. Inside(1)
      BY <2>1, <3>1, Zenon DEF Mutex
    <3> QED  BY <2>2, <2>3, <3>2 DEF Inside
  <2>4. PICK k \in 1 .. 4, j \in 1 .. 5 : HandlerPlace(Top.todo, k, j)
    BY <2>1, <2>3, TopPlaces, Zenon
  <2>5. First(Top.todo, HandleSignal, k, j, << >>)
    BY <2>4, HandlerFirst, Zenon DEF HandlerPlace
  <2>6. j = 1
    BY <2>2, <2>5, Zenon DEF First
  <2>7. j < 5
    BY <2>6
  <2> QED  BY <2>4, <2>7, Zenon DEF HandlerPlace
<1>2. IInv => QuietSignalsNeverBlock
  BY <1>1, Zenon DEF QuietSignalsNeverBlock
<1> QED
  BY <1>2, Invariance, PTL

(* LeavesNothingBehind: whatever Initialize got done before it failed, and *)
(* whatever the signals cut short, the destructors close what is open.     *)
THEOREM NothingLeftBehind == Spec => []LeavesNothingBehind
<1>1. IInv => LeavesNothingBehind
  BY DEF IInv, Ended
<1> QED
  BY <1>1, Invariance, PTL
=============================================================================
