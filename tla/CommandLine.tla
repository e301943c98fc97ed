---------------------------- MODULE CommandLine ----------------------------
(***************************************************************************)
(* The command line: the task of cli.c that polls the USART, its line      *)
(* buffer, the registered commands of FreeRTOS_CLI.c and the flash command *)
(* of drivers/flash/flash.c with its sub commands.                         *)
(*                                                                         *)
(* The receiver holds one character: one that arrives while it is full is  *)
(* lost.  The task takes a character and edits its buffer in one step,     *)
(* since nobody else looks at the buffer; the walk over the commands takes *)
(* one step per command, since tasks may register commands meanwhile.      *)
(* What a sub command then does to the flash is in Flash.                  *)
(***************************************************************************)
EXTENDS Integers, Sequences, SequencesExt

CONSTANTS
  Letter, Space, Newline, Return, Backspace,   \* the keys
  NUL,            \* the character 0, which nobody sends, or that the receiver is empty
  End,           \* the cell that takes no character: 62 in the build
  Registered,     \* the commands that app_init has registered, in order
  Command,        \* the commands there are
  HeapBlocks      \* how many pieces of memory the heap can give

Key == Letter \cup {Space, Newline, Return, Backspace}

\* flash_sub_cmd_para holds a sub command and three parameters: no sub command
\* takes more.  The code does not look and writes a fifth word behind the array;
\* lines with more words are left out by the choice of End.
MaxWords == 4

ASSUME KeysAssumption ==
  /\ {Space, Newline, Return, Backspace, NUL} \cap Letter = {}
  /\ End \in Nat \ {0} /\ HeapBlocks \in Nat
  /\ \A i \in DOMAIN Registered : Registered[i] \in Command
  /\ \A c \in Command :
       c.name \in Seq(Letter) \ {<<>>} /\ c.parameters \in Int

VARIABLES
  USART1_DR,        \* the character received, NUL when there is none
  cli_read_buf,
  cli_read_buf_p,   \* the index of the next cell to write
  pxCommand,        \* where the walk over the commands is, 0 for NULL
  xRegisteredCommands,
  flash_sub_cmd_para,
  room,             \* how many more pieces of memory the heap can give
  call,             \* what the last character made run
  shown             \* what the terminal shows behind the prompt

lineVars == <<cli_read_buf, cli_read_buf_p, shown>>
commandVars == <<xRegisteredCommands, flash_sub_cmd_para, room, call>>
vars == <<USART1_DR, pxCommand, lineVars, commandVars>>

NoCall == [command |-> <<>>, does |-> "nothing", words |-> <<>>]

Empty == [i \in 0..(End + 1) |-> NUL]

NoParameters == [i \in 0..(MaxWords - 1) |-> <<>>]

\* After a carriage return the terminal writes over the prompt.
Unclear == <<Return>>

CommandLineInit ==
  /\ USART1_DR = NUL /\ cli_read_buf = Empty /\ cli_read_buf_p = 0
  /\ pxCommand = 0 /\ xRegisteredCommands = Registered
  /\ flash_sub_cmd_para = NoParameters /\ room = HeapBlocks
  /\ call = NoCall /\ shown = <<>>

\* The string that begins at cell i.
StringAt(i) ==
  LET end == CHOOSE j \in i..(End + 1) :
               cli_read_buf[j] = NUL /\ \A k \in i..(j - 1) : cli_read_buf[k] # NUL
  IN [n \in 1..(end - i) |-> cli_read_buf[i + n - 1]]

---------------------------------------------------------------------------
(* The keys.  Each handler ends with portYIELD: the task never blocks.     *)

\* The other side sends a character; a full receiver overruns.
Receive(k) ==
  /\ USART1_DR' = IF USART1_DR = NUL THEN k ELSE USART1_DR
  /\ UNCHANGED <<pxCommand, lineVars, commandVars>>

\* getc_usart1_loop, called from the loop with no line at work.
Read(k) ==
  /\ pxCommand = 0
  /\ USART1_DR = k
  /\ USART1_DR' = NUL

Show(s) == shown' = IF shown = Unclear THEN Unclear ELSE s

\* Mutant: the pointer is not reset.
ClearsTheBuffer ==
  /\ cli_read_buf' = Empty
  /\ UNCHANGED cli_read_buf_p

Cleared ==
  /\ cli_read_buf' = Empty
  /\ cli_read_buf_p' = 0

StoreCharacter(k) ==
  /\ Read(k)
  /\ cli_read_buf_p < End
  /\ cli_read_buf' = [cli_read_buf EXCEPT ![cli_read_buf_p] = k]
  /\ cli_read_buf_p' = cli_read_buf_p + 1
  /\ Show(Append(shown, k))
  /\ call' = NoCall
  /\ UNCHANGED <<pxCommand, xRegisteredCommands, flash_sub_cmd_para, room>>

TooLong(k) ==
  /\ Read(k)
  /\ cli_read_buf_p >= End
  /\ Cleared
  /\ shown' = <<>> /\ call' = NoCall
  /\ UNCHANGED <<pxCommand, xRegisteredCommands, flash_sub_cmd_para, room>>

\* The cell written is the one behind the character that is taken back, which
\* stays in the buffer until it is written over.
EraseCharacter ==
  /\ Read(Backspace)
  /\ IF cli_read_buf_p > 0
     THEN /\ cli_read_buf' = [cli_read_buf EXCEPT ![cli_read_buf_p] = NUL]
          /\ cli_read_buf_p' = cli_read_buf_p - 1
          /\ Show(Front(shown))
     ELSE UNCHANGED lineVars
  /\ call' = NoCall
  /\ UNCHANGED <<pxCommand, xRegisteredCommands, flash_sub_cmd_para, room>>

CarriageReturn ==
  /\ Read(Return)
  /\ shown' = Unclear /\ call' = NoCall
  /\ UNCHANGED <<pxCommand, cli_read_buf, cli_read_buf_p, xRegisteredCommands,
                 flash_sub_cmd_para, room>>

\* A line with nothing on it only prints a new prompt.
EndEmptyLine ==
  /\ Read(Newline)
  /\ cli_read_buf_p = 0
  /\ shown' = <<>> /\ call' = NoCall
  /\ UNCHANGED <<pxCommand, cli_read_buf, cli_read_buf_p, xRegisteredCommands,
                 flash_sub_cmd_para, room>>

Terminated == [cli_read_buf EXCEPT ![cli_read_buf_p] = NUL]

EndLine ==
  /\ Read(Newline)
  /\ cli_read_buf_p > 0
  /\ cli_read_buf' = Terminated
  /\ pxCommand' = 1
  /\ UNCHANGED <<cli_read_buf_p, shown, commandVars>>

---------------------------------------------------------------------------
(* The commands.                                                           *)

\* The line begins with the name of c, and a separator or its end follows.
Matches(c) ==
  /\ \A i \in 1..Len(c.name) : cli_read_buf[i - 1] = c.name[i]
  /\ cli_read_buf[Len(c.name)] \in {Space, NUL, Return, Newline}

\* The loop of flash_command_callback over the string it is given: a space ends
\* a word, which is copied to memory that is not given back.
Copied(s, word) ==
  IF s.room = 0 THEN [s EXCEPT !.failed = TRUE]
  ELSE [s EXCEPT !.para[s.index] = word, !.index = @ + 1, !.room = @ - 1]

\* Mutant: the words of the last command are not cleared first.
WordsOfLastTime == flash_sub_cmd_para

\* The memset before the loop.
WordsReset == NoParameters

Scanned(rest) ==
  LET step(s, i) ==
        IF s.failed \/ rest[i] # Space THEN s
        ELSE [ (IF s.start = i THEN s ELSE Copied(s, SubSeq(rest, s.start, i - 1)))
               EXCEPT !.start = i + 1]
  IN FoldLeftDomain(step,
       [start |-> 1, index |-> 0, para |-> WordsReset, room |-> room,
        failed |-> FALSE], rest)

\* After the loop the last word is copied: to the first place if it is the only
\* one and follows the command's name directly.
Parsed(rest) ==
  LET s == Scanned(rest)
  IN IF s.failed \/ s.start > Len(rest) THEN s
     ELSE Copied(IF s.start = 2 THEN [s EXCEPT !.index = 0] ELSE s,
                 SubSeq(rest, s.start, Len(rest)))

\* flash_command_callback for the command named name.  With no word the
\* comparison reads a null pointer, an empty string on this processor.
RunSubCommand(name, rest) ==
  LET s == Parsed(rest)
      \* The first command whose name begins with that of this command.
      first == SelectInSeq(xRegisteredCommands, LAMBDA c : IsPrefix(name, c.name))
      known == s.para[0] \in xRegisteredCommands[first].subcommands
      does == IF s.failed THEN "no memory" ELSE IF known THEN "runs" ELSE "helps"
  IN /\ flash_sub_cmd_para' = s.para
     /\ room' = s.room
     /\ call' = [command |-> name, does |-> does,
                 words |-> IF does = "runs"
                           THEN [n \in 1..MaxWords |-> s.para[n - 1]] ELSE <<>>]

\* FreeRTOS_CLIProcessCommand is given the command's name for the string that
\* was typed, so that it counts no parameters, and the rest of the line for
\* the buffer of the answer.
FreeRTOS_CLIProcessCommand(name, rest) ==
  LET found == xRegisteredCommands[
                 SelectInSeq(xRegisteredCommands, LAMBDA c : c.name = name)]
  IN IF found.parameters >= 0 /\ found.parameters # 0
     THEN /\ call' = [command |-> name, does |-> "refused", words |-> <<>>]
          /\ UNCHANGED <<flash_sub_cmd_para, room>>
     ELSE IF found.subcommands = {}
     THEN /\ call' = [command |-> name, does |-> "runs", words |-> <<rest>>]
          /\ UNCHANGED <<flash_sub_cmd_para, room>>
     ELSE RunSubCommand(name, rest)

Found ==
  /\ pxCommand # 0
  /\ LET c == xRegisteredCommands[pxCommand]
     IN /\ Matches(c)
        /\ FreeRTOS_CLIProcessCommand(c.name, StringAt(Len(c.name)))
  /\ Cleared
  /\ pxCommand' = 0 /\ shown' = <<>>
  /\ UNCHANGED <<USART1_DR, xRegisteredCommands>>

LookAtNext ==
  /\ pxCommand # 0
  /\ ~Matches(xRegisteredCommands[pxCommand])
  /\ pxCommand < Len(xRegisteredCommands)
  /\ pxCommand' = pxCommand + 1
  /\ UNCHANGED <<USART1_DR, lineVars, commandVars>>

\* The list is at its end: the line is dropped and help is run instead.
NotFound ==
  /\ pxCommand # 0
  /\ ~Matches(xRegisteredCommands[pxCommand])
  /\ pxCommand = Len(xRegisteredCommands)
  /\ Cleared
  /\ pxCommand' = 0 /\ shown' = <<>>
  /\ call' = [NoCall EXCEPT !.does = "unknown"]
  /\ UNCHANGED <<USART1_DR, xRegisteredCommands, flash_sub_cmd_para, room>>

\* By any task, once for each command; with no memory it returns pdFAIL.
FreeRTOS_CLIRegisterCommand(c) ==
  /\ ~Contains(xRegisteredCommands, c)
  /\ room > 0
  /\ room' = room - 1
  /\ xRegisteredCommands' = Append(xRegisteredCommands, c)
  /\ UNCHANGED <<USART1_DR, pxCommand, lineVars, flash_sub_cmd_para, call>>

cli_executor_loop ==
  \/ \E k \in Letter \cup {Space} : StoreCharacter(k) \/ TooLong(k)
  \/ EraseCharacter
  \/ CarriageReturn
  \/ EndEmptyLine
  \/ EndLine
  \/ Found
  \/ LookAtNext
  \/ NotFound

CommandLineNext ==
  \/ cli_executor_loop
  \/ \E k \in Key : Receive(k)
  \/ \E c \in Command : FreeRTOS_CLIRegisterCommand(c)

CommandLineSpec == CommandLineInit /\ [][CommandLineNext]_vars

---------------------------------------------------------------------------

\* The pointer stays where the terminating zero fits in the buffer.
CommandLineTypeOK ==
  /\ USART1_DR \in Key \cup {NUL}
  /\ cli_read_buf \in [0..(End + 1) -> Letter \cup {Space, NUL}]
  /\ cli_read_buf_p \in 0..End
  /\ pxCommand \in 0..Len(xRegisteredCommands)
  /\ room \in 0..HeapBlocks
  /\ \A i \in DOMAIN flash_sub_cmd_para : flash_sub_cmd_para[i] \in Seq(Letter)

line == [i \in 1..cli_read_buf_p |-> cli_read_buf[i - 1]]

\* What stands behind the prompt is what the next newline will run, whatever
\* was typed, taken back or thrown away before: the echo, the pointer and the
\* buffer do not part (cli.c:161-180).
ShownIsKept == shown \in {line, Unclear}

\* The buffer, its pointer and the terminal agree.
CommandLineConsistent == CommandLineTypeOK /\ ShownIsKept

\* Every line is run as it was typed, with what was taken back left out, for
\* the first command of that name, one registered during the walk included,
\* and with its own words and none of an earlier line's (cli.c:70-185,
\* FreeRTOS_CLI.c:144, flash.c:717).
Editor == INSTANCE LineEditor WITH
  Longest <- End, commands <- xRegisteredCommands,
  input <- (IF pxCommand = 0 THEN <<>> ELSE <<Newline>>) \o
           (IF USART1_DR = NUL THEN <<>> ELSE <<USART1_DR>>)

ImplementsEditor == Editor!Spec
=============================================================================
