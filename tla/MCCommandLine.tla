--------------------------- MODULE MCCommandLine ---------------------------
(***************************************************************************)
(* CommandLine with two letters: the commands help and flash, the flash    *)
(* command with two sub commands, and a third command, whose name begins   *)
(* with that of flash, that a task may register while a line is at work.   *)
(***************************************************************************)
EXTENDS CommandLine

Help == [name |-> <<"h">>, parameters |-> -1, subcommands |-> {}]
Flash == [name |-> <<"f">>, parameters |-> -1,
          subcommands |-> {<<"h">>, <<"f", "h">>}]
Other == [name |-> <<"f", "h">>, parameters |-> -1, subcommands |-> {}]

\* A command with a fixed number of parameters, as FreeRTOS_CLI.h has them.
OneParameter == [name |-> <<"f">>, parameters |-> 1, subcommands |-> {}]

MCRegistered == <<Help, Flash>>
MCCommands == {Help, Flash, Other}

MCFixed == <<Help, OneParameter>>
MCFixedCommands == {Help, OneParameter}
=============================================================================
