---------------------------- MODULE MCLifecycle ----------------------------
(***************************************************************************)
(* Lifecycle for TLC: environments, files and command lines in which every *)
(* pair of sources disagrees on some setting.                              *)
(***************************************************************************)
EXTENDS Lifecycle

KeyA  == [first |-> "a", second |-> "a"]
KeyB  == [first |-> "b", second |-> "b"]
Cut   == [first |-> "c", second |-> Malformed]

(* Port 5 is beyond a word of 4.                                           *)
MCEnvironments ==
  { << >>,
    [key |-> KeyA, port |-> 1, level |-> "warning"],
    [key |-> Cut, address |-> "e", level |-> Malformed],
    [port |-> Malformed] }

MCFiles ==
  { Malformed, Garbled,
    [port |-> 5, level |-> "error", key |-> KeyB, stdout |-> FALSE],
    [port |-> Malformed, address |-> Malformed, stdout |-> Malformed],
    [key |-> Cut, level |-> Malformed, stdout |-> TRUE],
    [key |-> Malformed, address |-> "f"] }

MCFlags ==
  [flag : {"config"}, text : MCFiles] \cup
  { [flag |-> "port", text |-> 2], [flag |-> "port", text |-> Malformed],
    [flag |-> "level", text |-> "debug"], [flag |-> "address", text |-> "c"],
    [flag |-> "stdout", text |-> FALSE], [flag |-> "other", text |-> "x"] }

MCLaunches ==
  [environment : MCEnvironments, arguments : BoundedSeq(MCFlags, 2), fits : {TRUE}]

(* Two launches for the signals: the handler's entries pass, or they do    *)
(* not; and a path too long.                                               *)
MCInterrupted ==
  [environment : { << >> },
   arguments : { << >>, << [flag |-> "level", text |-> "warning"] >> },
   fits : BOOLEAN]

MCAllLaunches == MCLaunches \cup MCInterrupted
=============================================================================
