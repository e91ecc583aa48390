----------------------------------- MODULE Cli -----------------------------------
(***************************************************************************)
(* kernel/src/cli.c: the line editor, the tokenizer and the command table. *)
(* Keys are characters, "enter", "bs" (backspace) and "esc"; an arrow key  *)
(* is the three keys "esc", "[" and "C" or "D".  A command is named by the *)
(* word that calls it.                                                     *)
(*                                                                         *)
(* typed is the text the keys typed so far stand for.  screen is the       *)
(* terminal (external): the text right of the prompt and the column of its *)
(* cursor.  muddled says that "ERROR: BUFFER FULL" was printed since the   *)
(* line was begun: it ends the row and the line is not printed again.      *)
(***************************************************************************)
EXTENDS Integers, SequencesExt

CONSTANTS
    CLI_MAX_LINE_LEN, CLI_MAX_ARGS, CLI_MAX_CMDS,
    Chars,              \* printable characters typed
    Names               \* names of commands (words)

ASSUME CliAssumption ==
    {CLI_MAX_LINE_LEN, CLI_MAX_ARGS, CLI_MAX_CMDS} \subseteq Nat \ {0}

VARIABLES
    cli,                \* buf (from index 1), line_pos, cursor_pos, esc_state
    commands,           \* the table
    called,             \* what the last key, "enter", executed: the command, its
                        \* arguments, and the words typed
    typed, screen, muddled

cliVars == <<cli, commands, called, typed, screen, muddled>>

NUL == "nul"
Space == " "

Nothing == [handler |-> NUL, argv |-> <<>>, words |-> <<>>]

\* cli_init registers help.
CliInit ==
  /\ cli = [buf |-> [i \in 1..CLI_MAX_LINE_LEN |-> NUL], line |-> 0, cursor |-> 0, esc |-> 0]
  /\ commands = <<<<"h">>>>
  /\ called = Nothing
  /\ typed = <<>>
  /\ screen = [text |-> <<>>, col |-> 0]
  /\ muddled = FALSE

------------------------------------------------------------------------------
(* The terminal: what it does with what cli_puts sends. *)

PutAll(s, cs) ==
  [text |-> SubSeq(s.text, 1, s.col) \o cs \o SubSeq(s.text, s.col + Len(cs) + 1, Len(s.text)),
   col |-> s.col + Len(cs)]
Put(s, c) == PutAll(s, <<c>>)
Back(s, n) == [s EXCEPT !.col = @ - n]
Fresh == [text |-> <<>>, col |-> 0]

\* What is printed to a muddled row is not followed up.
Shows(s) == screen' = IF muddled THEN Fresh ELSE s

\* The string from index k (from 0) up to the terminating NUL.
StringAt(buf, k) ==
  LET ends == {i \in k + 1..Len(buf) : buf[i] = NUL}
  IN  SubSeq(buf, k + 1, IF ends = {} THEN Len(buf) ELSE Min(ends) - 1)

------------------------------------------------------------------------------
(* cli_tokenize and cli_process_cmd *)

Starts(l) == {i \in 1..Len(l) : l[i] # Space /\ (i = 1 \/ l[i - 1] = Space)}

\* The tokens of a line.  The loop stops as soon as CLI_MAX_ARGS tokens have
\* begun, so nothing terminates the last of them.
Tokenize(l) ==
  LET starts == SetToSortSeq(Starts(l), <)
      Ends(i) == {j \in starts[i]..Len(l) : l[j] = Space}
      argc == Min({Len(starts), CLI_MAX_ARGS})
  IN  [i \in 1..argc |->
         SubSeq(l, starts[i], IF i = CLI_MAX_ARGS \/ Ends(i) = {} THEN Len(l) ELSE Min(Ends(i)) - 1)]

\* Reference: the words of a text.
Words(l) ==
  LET At(i) == CHOOSE w \in {SubSeq(l, i, j) : j \in i..Len(l)} :
                 /\ \A k \in 1..Len(w) : w[k] # Space
                 /\ i + Len(w) > Len(l) \/ l[i + Len(w)] = Space
  IN  LET starts == SetToSortSeq(Starts(l), <) IN [i \in DOMAIN starts |-> At(starts[i])]

\* The first command of that name.
Handler(argv) ==
  IF argv # <<>> /\ \E i \in DOMAIN commands : commands[i] = argv[1] THEN argv[1] ELSE NUL

------------------------------------------------------------------------------
(* cli_task_entry, one key *)

\* The line is terminated, and the blanks between its tokens become NUL.
Enter ==
  LET Cut(i) == \/ i = cli.line + 1
                \/ i <= cli.line /\ cli.buf[i] = Space /\ Cardinality({s \in Starts(cli.buf) : s < i}) < CLI_MAX_ARGS
  IN
  /\ called' = LET argv == Tokenize(StringAt([cli.buf EXCEPT ![cli.line + 1] = NUL], 0))
               IN  [handler |-> Handler(argv), argv |-> argv, words |-> Words(typed)]
  /\ cli' = [cli EXCEPT !.buf = [i \in DOMAIN @ |-> IF Cut(i) THEN NUL ELSE @[i]], !.line = 0, !.cursor = 0]
  /\ typed' = <<>>
  /\ screen' = Fresh
  /\ muddled' = FALSE

\* Variant: the rest of the line is not moved.
ShiftLeftNot(buf, from, to) == buf

\* The characters from..to - 1 (from 0) move one to the left, or to the right.
ShiftLeft(buf, from, to) == [i \in DOMAIN buf |-> IF i \in from..to - 1 THEN buf[i + 1] ELSE buf[i]]
ShiftRight(buf, from, to) == [i \in DOMAIN buf |-> IF i \in from + 2..to + 1 THEN buf[i - 1] ELSE buf[i]]

Backspace ==
  /\ IF cli.cursor > 0
     THEN LET buf == [ShiftLeft(cli.buf, cli.cursor, cli.line) EXCEPT ![cli.line] = NUL]
              cur == cli.cursor - 1
              pos == cli.line - 1
          IN  /\ cli' = [cli EXCEPT !.buf = buf, !.line = pos, !.cursor = cur]
              /\ typed' = RemoveAt(typed, cli.cursor)
              /\ Shows(Back(Put(PutAll(Back(screen, 1), StringAt(buf, cur)), Space), pos - cur + 1))
     ELSE UNCHANGED <<cli, typed, screen>>
  /\ called' = Nothing
  /\ UNCHANGED muddled

Character(c) ==
  /\ IF cli.line >= CLI_MAX_LINE_LEN - 1
     THEN /\ screen' = Fresh
          /\ muddled' = TRUE
          /\ UNCHANGED <<cli, typed>>
     ELSE IF cli.cursor < cli.line
     THEN LET buf == [ShiftRight(cli.buf, cli.cursor, cli.line) EXCEPT ![cli.cursor + 1] = c,
                                                                       ![cli.line + 2] = NUL]
          IN  /\ cli' = [cli EXCEPT !.buf = buf, !.line = @ + 1, !.cursor = @ + 1]
              /\ typed' = InsertAt(typed, cli.cursor + 1, c)
              /\ Shows(Back(PutAll(screen, StringAt(buf, cli.cursor)), cli.line - cli.cursor))
              /\ UNCHANGED muddled
     ELSE /\ cli' = [cli EXCEPT !.buf[cli.line + 1] = c, !.line = @ + 1, !.cursor = @ + 1]
          /\ typed' = Append(typed, c)
          /\ Shows(Put(screen, c))
          /\ UNCHANGED muddled
  /\ called' = Nothing

Escape(c) ==
  LET left == cli.esc = 2 /\ c = "D" /\ cli.cursor > 0
      right == cli.esc = 2 /\ c = "C" /\ cli.cursor < cli.line
      move == IF left THEN -1 ELSE IF right THEN 1 ELSE 0
  IN  /\ cli' = [cli EXCEPT !.esc = IF cli.esc = 1 /\ c = "[" THEN 2 ELSE 0, !.cursor = @ + move]
      /\ Shows([screen EXCEPT !.col = @ + move])
      /\ called' = Nothing
      /\ UNCHANGED <<typed, muddled>>

CliKey(c) ==
  /\ UNCHANGED commands
  /\ IF cli.esc # 0 THEN Escape(c)
     ELSE IF c = "esc" THEN cli' = [cli EXCEPT !.esc = 1] /\ called' = Nothing /\ UNCHANGED <<typed, screen, muddled>>
     ELSE IF c = "enter" THEN Enter
     ELSE IF c = "bs" THEN Backspace
     ELSE Character(c)

------------------------------------------------------------------------------
(* cli_register_command and cli_unregister_command, called by any task *)

CliRegisterCommand(name) ==
  /\ Len(commands) < CLI_MAX_CMDS
  /\ commands' = Append(commands, name)
  /\ UNCHANGED <<cli, called, typed, screen, muddled>>

\* The last command takes the place of the first one of that name.
CliUnregisterCommand(name) ==
  /\ \E i \in DOMAIN commands : commands[i] = name
  /\ commands' = LET i == Min({j \in DOMAIN commands : commands[j] = name})
                 IN  Front(ReplaceAt(commands, i, Last(commands)))
  /\ UNCHANGED <<cli, called, typed, screen, muddled>>

CliNext ==
  \/ \E c \in Chars \cup {"enter", "bs", "esc"} : CliKey(c)
  \/ \E name \in Names : CliRegisterCommand(name)
  \/ \E name \in Names : CliUnregisterCommand(name)

CliSpec == CliInit /\ [][CliNext]_cliVars

------------------------------------------------------------------------------
(* What is typed is what is seen and what is executed: the line buffer     *)
(* holds the typed text; as long as it fits, the terminal shows it, with   *)
(* only blanks after it and the cursor at cursor_pos; and a command gets   *)
(* the typed words as its arguments, up to CLI_MAX_ARGS - 1 of them.      *)
TypedIsExecuted ==
  /\ typed = SubSeq(cli.buf, 1, cli.line)
  /\ ~muddled =>
       /\ screen.col = cli.cursor
       /\ IsPrefix(typed, screen.text)
       /\ \A i \in cli.line + 1..Len(screen.text) : screen.text[i] = Space
  /\ Len(called.argv) = Min({Len(called.words), CLI_MAX_ARGS})
  /\ \A i \in 1..Min({Len(called.words), CLI_MAX_ARGS - 1}) : called.argv[i] = called.words[i]
==============================================================================
