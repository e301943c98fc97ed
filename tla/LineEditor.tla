----------------------------- MODULE LineEditor -----------------------------
(***************************************************************************)
(* What the command line (lib/FreeRTOS_CLI) promises: the keys take effect *)
(* in the order in which they came, each at once, on a line of at most     *)
(* Longest characters; the end of a line runs the first registered command *)
(* whose name is the line's first word, with the words that follow it.     *)
(* CommandLine, with its buffer and its walk over the commands, implements *)
(* this.                                                                   *)
(***************************************************************************)
EXTENDS Integers, Sequences, SequencesExt

CONSTANTS Letter, Space, Newline, Return, Backspace, Longest, Command

VARIABLES
  line,       \* what has been typed since the last line was ended
  input,      \* the keys that are still to take effect
  commands,   \* the registered commands, the first registered first
  room,       \* how many more pieces of memory the heap can give
  call        \* what the last key made run

editorVars == <<line, input, commands, room, call>>

Key == Letter \cup {Space, Newline, Return, Backspace}

NoCall == [command |-> <<>>, does |-> "nothing", words |-> <<>>]

\* Where the words of s begin and, for a word that begins at i, where it ends.
Begins(s) == {i \in DOMAIN s : s[i] # Space /\ (i = 1 \/ s[i - 1] = Space)}

WordAt(s, i) ==
  LET ends == {j \in i..Len(s) : \A k \in i..j : s[k] # Space}
  IN SubSeq(s, i, CHOOSE j \in ends : \A k \in ends : k <= j)

Words(s) ==
  LET begins == SetToSortSeq(Begins(s), <)
  IN [n \in DOMAIN begins |-> WordAt(s, begins[n])]

\* The commands that the line s names: their name is where the line begins.
Named(s) ==
  {i \in DOMAIN commands : s[1] # Space /\ commands[i].name = WordAt(s, 1)}

\* What a line runs, with n words after the command's name.
Meaning(s) ==
  IF Named(s) = {} THEN [NoCall EXCEPT !.does = "unknown"]
  ELSE LET first == CHOOSE i \in Named(s) : \A j \in Named(s) : i <= j
           c == commands[first]
           given == Tail(Words(s))
           does == IF c.parameters >= 0 /\ Len(given) # c.parameters
                     THEN "refused"
                   ELSE IF c.subcommands = {} THEN "runs"
                   ELSE IF Len(given) > room THEN "no memory"
                   ELSE IF given # <<>> /\ given[1] \in c.subcommands
                     THEN "runs"
                   ELSE "helps"
       IN [command |-> c.name, does |-> does,
           words |-> IF does # "runs" THEN <<>>
                     ELSE IF c.subcommands = {}
                       THEN <<SubSeq(s, Len(c.name) + 1, Len(s))>>
                     ELSE [n \in 1..4 |-> IF n <= Len(given) THEN given[n]
                                          ELSE <<>>]]

\* The pieces of memory that a line's sub command takes, and nothing returns.
Spent(s) ==
  IF \E c \in Command : c.name = Meaning(s).command /\ c.subcommands # {}
  THEN LET n == Len(Words(s)) - 1 IN IF n > room THEN room ELSE n
  ELSE 0

Init ==
  /\ line = <<>> /\ input = <<>> /\ call = NoCall
  /\ commands \in Seq(Command) /\ room \in Nat

Send(k) ==
  /\ Len(input) < 2
  /\ input' = Append(input, k)
  /\ UNCHANGED <<line, commands, room, call>>

Edited(k) ==
  CASE k = Backspace -> IF line = <<>> THEN line ELSE Front(line)
    [] k = Return -> line
    [] k = Newline -> <<>>
    [] OTHER -> IF Len(line) < Longest THEN Append(line, k) ELSE <<>>

Type ==
  /\ input # <<>>
  /\ input' = Tail(input)
  /\ line' = Edited(Head(input))
  /\ IF Head(input) = Newline /\ line # <<>>
     THEN call' = Meaning(line) /\ room' = room - Spent(line)
     ELSE call' = NoCall /\ UNCHANGED room
  /\ UNCHANGED commands

Register(c) ==
  /\ room > 0
  /\ room' = room - 1
  /\ commands' = Append(commands, c)
  /\ UNCHANGED <<line, input, call>>

Next ==
  \/ Type
  \/ \E k \in Key : Send(k)
  \/ \E c \in Command : Register(c)

Spec == Init /\ [][Next]_editorVars
=============================================================================
