--------------------------- MODULE Configuration ---------------------------
(***************************************************************************)
(* Configuration.cpp: what the environment, the command line and the files *)
(* it names make of the settings, each source applied to what the earlier  *)
(* ones left.                                                              *)
(*                                                                         *)
(* A source is a function from the settings it gives to their texts.  Five *)
(* settings stand for all: "port" for the numbers, "address" for the       *)
(* strings, "level", "stdout" and "key".  Malformed is a text that is not  *)
(* of the setting's form: no number, no level, a JSON value of another     *)
(* type, a key of another length than 64.                                  *)
(***************************************************************************)
EXTENDS Integers, Sequences, FiniteSetsExt, Functions

CONSTANTS
  Malformed,
  Garbled,      (* a file at which JsonParser throws: a number that 64     *)
                (* bits do not hold, a \u without four hex digits          *)
  Word          (* the values of a uint16_t: 2^16 in the code              *)

ASSUME ConfigurationAssumption ==
  /\ Word \in Nat \ {0}
  /\ Malformed \notin Int /\ Malformed # "0.0.0.0" /\ Garbled # Malformed

Levels == << "debug", "info", "warning", "error", "fatal" >>

(* The values of enum class LogLevel are in this order.                    *)
Severity(level) == CHOOSE i \in DOMAIN Levels : Levels[i] = level

(* A key is what its two halves are: which text wrote them.                *)
Blank == [first |-> "zero", second |-> "zero"]

Defaults == [port |-> 8080 % Word, address |-> "0.0.0.0", level |-> "info",
             stdout |-> TRUE, key |-> Blank, loaded |-> FALSE]

(* What a source is: each text is of its setting's form, or Malformed.     *)
IsSource(source) ==
  /\ "port" \in DOMAIN source => source.port \in Int \cup {Malformed}
  /\ "level" \in DOMAIN source => source.level \in Range(Levels) \cup {Malformed}
  /\ "key" \in DOMAIN source =>
        \/ source.key = Malformed
        \/ source.key = [first |-> source.key.first, second |-> source.key.second]

(* No variable is about stdout, and any text is an address.                *)
IsEnvironment(environment) ==
  /\ IsSource(environment)
  /\ "stdout" \notin DOMAIN environment
  /\ "address" \in DOMAIN environment => environment.address # Malformed

IsArgument(argument) ==
  CASE argument.flag = "config"  -> \/ argument.text \in {Malformed, Garbled}
                                    \/ IsSource(argument.text)
    [] argument.flag = "port"    -> argument.text \in Int \cup {Malformed}
    [] argument.flag = "address" -> argument.text # Malformed
    [] argument.flag = "level"   -> argument.text \in Range(Levels) \cup {Malformed}
    [] argument.flag = "stdout"  -> argument.text \in BOOLEAN
    [] OTHER                     -> argument.flag = "other"

(* The number keeps all its bits: a plausible bug.                         *)
PortUncut(text) == IF text = Malformed THEN 0 ELSE text

(* m_un16TcpListenPort: a number is cut to 16 bits, and GetInteger of a    *)
(* JSON value that is no integer is 0.                                     *)
Port(text) == IF text = Malformed THEN 0 ELSE text % Word

(* The if-chains over the levels: another word leaves the level alone.     *)
WithLevel(config, text) ==
  IF text = Malformed THEN config ELSE [config EXCEPT !.level = text]

Whole(text) == text # Malformed /\ Malformed \notin {text.first, text.second}

(* ParseHexString writes the bytes as it goes, into the key itself, up to  *)
(* the first that is not two digits.                                       *)
ParseHexString(key, text) ==
  CASE text = Malformed \/ text.first = Malformed -> key
    [] OTHER -> [first |-> text.first,
                 second |-> IF Whole(text) THEN text.second ELSE key.second]

(* ParseHexString succeeds on any text of the right length: a plausible     *)
(* bug.                                                                    *)
WithAnyKey(config, text) ==
  [config EXCEPT !.key = ParseHexString(@, text),
                 !.loaded = @ \/ text # Malformed]

WithKey(config, text) ==
  [config EXCEPT !.key = ParseHexString(@, text),
                 !.loaded = @ \/ Whole(text)]

Given(source, setting, otherwise) ==
  IF setting \in DOMAIN source THEN source[setting] ELSE otherwise

(* std::stoi throws, and nothing catches it.                               *)
Throws(source) == Given(source, "port", 0) = Malformed

LoadEnvironmentVariables(config, environment) ==
  LET c == IF "key" \in DOMAIN environment
           THEN WithKey(config, environment.key) ELSE config
  IN WithLevel([c EXCEPT !.port = Port(Given(environment, "port", @)),
                         !.address = Given(environment, "address", @)],
               Given(environment, "level", c.level))

(* A setting that the file does not give gets its default: a plausible bug.*)
LoadWholeFile(config, file) ==
  IF file = Malformed THEN config ELSE
  WithLevel([config EXCEPT !.port = Port(Given(file, "port", Defaults.port)),
                           !.address = Given(file, "address", Defaults.address),
                           !.stdout = (Given(file, "stdout", Defaults.stdout) = TRUE)],
            Given(file, "level", Defaults.level))

(* LoadFromFile and ParseJsonConfiguration.  Malformed is a file that      *)
(* cannot be read, or is no JSON object.  GetString of another value is    *)
(* the empty string, GetBoolean is false.                                  *)
LoadFromFile(config, file) ==
  IF file = Malformed THEN config ELSE
  LET c == IF "key" \in DOMAIN file THEN WithKey(config, file.key) ELSE config
      Text(text) == IF text = Malformed THEN "" ELSE text
  IN WithLevel([c EXCEPT !.port = Port(Given(file, "port", @)),
                         !.address = Text(Given(file, "address", @)),
                         !.stdout = (Given(file, "stdout", @) = TRUE)],
               Given(file, "level", c.level))

(* One turn of ParseCommandLineArguments' loop.  "other" is a word that is *)
(* no flag, or a flag that lacks its value.                                *)
ParseArgument(config, argument) ==
  CASE argument.flag = "config"  -> LoadFromFile(config, argument.text)
    [] argument.flag = "port"    -> [config EXCEPT !.port = Port(argument.text)]
    [] argument.flag = "address" -> [config EXCEPT !.address = argument.text]
    [] argument.flag = "level"   -> WithLevel(config, argument.text)
    [] argument.flag = "stdout"  -> [config EXCEPT !.stdout = argument.text]
    [] argument.flag = "other"   -> config

(* std::stoi throws at a flag's text, and JsonParser at a file.            *)
ArgumentThrows(argument) ==
  \/ argument.flag = "port" /\ argument.text = Malformed
  \/ argument.flag = "config" /\ argument.text = Garbled

----------------------------------------------------------------------------
(* The reference: what a setting is, said of all sources at once.          *)

(* The settings an argument gives.                                         *)
SourceOf(argument) ==
  CASE argument.flag = "other"  -> << >>
    [] argument.flag = "config" -> IF argument.text \in {Malformed, Garbled}
                                   THEN << >> ELSE argument.text
    [] OTHER                    -> [setting \in {argument.flag} |-> argument.text]

(* The sources in the order Initialize and main's arguments put them.      *)
Sources(launch) ==
  << launch.environment >> \o
  [i \in DOMAIN launch.arguments |-> SourceOf(launch.arguments[i])]

(* The sources that give the setting; a level that is none is not given.   *)
Deciding(sources, setting) ==
  {i \in DOMAIN sources :
     /\ setting \in DOMAIN sources[i]
     /\ setting = "level" => sources[i].level # Malformed}

Meaning(setting, text) ==
  CASE setting = "port"    -> Port(text)
    [] setting = "address" -> IF text = Malformed THEN "" ELSE text
    [] setting = "stdout"  -> text = TRUE
    [] setting = "level"   -> text

(* The files, and the flags, that give the setting.                        *)
Files(launch, setting) ==
  {i \in Deciding(Sources(launch), setting) :
     i > 1 /\ launch.arguments[i - 1].flag = "config"}

Flags(launch, setting) ==
  {i \in Deciding(Sources(launch), setting) :
     i > 1 /\ launch.arguments[i - 1].flag # "config"}

(* What the documents say of precedence: the flags before the files, and   *)
(* the files before the environment; of several the last.                  *)
Effective(launch, setting) ==
  LET sources == Sources(launch)
      flags   == Flags(launch, setting)
      files   == Files(launch, setting)
      first   == CASE flags # {} -> flags
                   [] flags = {} /\ files # {} -> files
                   [] OTHER -> Deciding(sources, setting)
  IN IF first = {} THEN Defaults[setting]
     ELSE Meaning(setting, sources[Max(first)][setting])

(* No --config comes after a flag and gives the flag's setting again.      *)
FlagsLast(launch, setting) ==
  \A i \in Flags(launch, setting), j \in Files(launch, setting) : j < i

(* The sources that give a whole key, and those that break off in it.      *)
KeyTexts(sources) ==
  {i \in DOMAIN sources : "key" \in DOMAIN sources[i] /\ Whole(sources[i].key)}

BrokenKeyTexts(sources) ==
  {i \in DOMAIN sources :
     /\ "key" \in DOMAIN sources[i]
     /\ sources[i].key # Malformed
     /\ sources[i].key.first # Malformed /\ sources[i].key.second = Malformed}
=============================================================================
