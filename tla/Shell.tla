-------------------------------- MODULE Shell --------------------------------
(***************************************************************************)
(* shell.c: one turn of shell_run's loop (copy a line into shell_buffer,  *)
(* shell_parse_line, shell_execute) over the AI core it asks about        *)
(* unknown commands.  A line is a sequence of symbols: a blank (SP, TAB), *)
(* a double quote (QT), or a word, a run of other characters written as  *)
(* one string; two words never touch.  argv[i] is the string the C        *)
(* pointer shows, up to the first '\0' the parser wrote.  The handlers    *)
(* print, which is left out; their argument checks and their calls into  *)
(* the core are kept.                                                      *)
(***************************************************************************)
EXTENDS JarvisCore, TLC

CONSTANT ShellLines   \* the lines a turn copies into shell_buffer

VARIABLES shell_buffer, shell_argv

shell_vars == <<shell_buffer, shell_argv>>

SP == " "
TAB == "\t"
QT == "\""

SHELL_MAX_ARGS == 64

\* isspace() on the characters of a line.
IsSpace(c) == c \in {SP, TAB}

ShellInit == shell_buffer = <<>> /\ shell_argv = <<>>

\* while (*p && isspace(*p)) p++;
RECURSIVE SkipSpaces(_, _)
SkipSpaces(line, p) == IF p <= Len(line) /\ IsSpace(line[p]) THEN SkipSpaces(line, p + 1) ELSE p

\* Mutant: a blank ends an argument even inside quotes.
IsArgEndUnquoted(inq, c) == IsSpace(c)

\* else if (!in_quotes && isspace(*p))
IsArgEnd(inq, c) == ~inq /\ IsSpace(c)

\* The inner while (*p): a quote flips in_quotes and becomes '\0'; an
\* unquoted blank becomes '\0' and ends the argument.  cut records that
\* a '\0' was written, after which argv[i] shows nothing more.
RECURSIVE ScanArg(_, _, _, _, _)
ScanArg(line, p, inq, arg, cut) ==
  IF p > Len(line) THEN [p |-> p, inq |-> inq, arg |-> arg]
  ELSE IF line[p] = QT THEN ScanArg(line, p + 1, ~inq, arg, TRUE)
  ELSE IF IsArgEnd(inq, line[p]) THEN [p |-> p + 1, inq |-> inq, arg |-> arg]
  ELSE ScanArg(line, p + 1, inq, IF cut THEN arg ELSE arg \o line[p], cut)

\* The outer while (*p && shell_argc < SHELL_MAX_ARGS).
RECURSIVE ParseFrom(_, _, _, _)
ParseFrom(line, p, inq, argv) ==
  IF p > Len(line) \/ Len(argv) >= SHELL_MAX_ARGS THEN argv
  ELSE LET r == ScanArg(line, p, inq, "", FALSE)
       IN  ParseFrom(line, SkipSpaces(line, r.p), r.inq, Append(argv, r.arg))

shell_parse_line(line) == ParseFrom(line, SkipSpaces(line, 1), FALSE, <<>>)

\* The command table: the argc below which a handler prints its usage
\* and returns JAR_INVAL (1: never).  jarvis and ai are cmd_jarvis.
MinArgs ==
  [c \in {"help", "?", "clear", "cls", "echo", "ls", "dir", "cd", "pwd", "ps", "meminfo",
          "free", "cpuinfo", "diskinfo", "df", "netinfo", "ifconfig", "ip", "date", "time",
          "uptime", "reboot", "restart", "shutdown", "halt", "think", "evolve", "status",
          "version", "ver", "debug"} |-> 1]
  @@ [c \in {"cat", "type", "mkdir", "md", "rm", "del", "kill", "ping", "search", "edit",
             "compile"} |-> 2]
  @@ [c \in {"cp", "copy", "mv", "rename", "learn"} |-> 3]

JarvisNames == {"jarvis", "ai"}

\* What a printed response shows: printing one jarvis_process_input left
\* untouched (it returned JAR_INVAL) reads an uninitialised buffer.
Answer(ret) == [ret |-> ret, uninit |-> jarvis_process_input = JAR_INVAL]

\* cmd_jarvis: with an argument, the joined query goes to
\* jarvis_process_input and its response is printed.
cmd_jarvis(argv) ==
  IF Len(argv) < 2 THEN [ret |-> JAR_OK, uninit |-> FALSE] ELSE Answer(JAR_OK)

\* Every other handler: the usage message and JAR_INVAL below its argc.
CommandHandler(argv) ==
  [ret |-> IF Len(argv) < MinArgs[argv[1]] THEN JAR_INVAL ELSE JAR_OK, uninit |-> FALSE]

\* shell_execute(shell_argc, shell_argv): the lookup by strcmp, then the
\* handler, or the unknown command handed to jarvis_process_input.
shell_execute(argv) ==
  IF Len(argv) = 0 THEN [ret |-> JAR_OK, uninit |-> FALSE]
  ELSE IF argv[1] \in JarvisNames THEN cmd_jarvis(argv)
  ELSE IF argv[1] \in DOMAIN MinArgs THEN CommandHandler(argv)
  ELSE Answer(JAR_NOTFOUND)

\* One turn of shell_run: memset and strcpy into shell_buffer, parse,
\* execute.  shell.c copies the fixed line "help" (shell.c:208) where a
\* keyboard read would go; the model takes any line of ShellLines there,
\* so that the parser's loops are checked on what a user could type.
shell_turn ==
  /\ Running
  /\ \E line \in ShellLines :
       /\ shell_buffer' = line
       /\ shell_argv' = shell_parse_line(line)
       /\ fault' = IF shell_execute(shell_parse_line(line)).uninit THEN "uninit_read" ELSE fault
  /\ UNCHANGED <<heap, core_vars>>

(***************************************************************************)
(* The arguments a line holds, defined without the parser's loops: an     *)
(* argument starts at a non-blank that follows a blank or the line's      *)
(* start, with an even number of quotes before it (quotes pair up across  *)
(* the whole line); it shows its first word if it starts with one, and    *)
(* nothing if it starts with a quote.                                     *)
(***************************************************************************)
QuotesBefore(line, q) == Cardinality({j \in 1 .. q - 1 : line[j] = QT})

ArgStarts(line) ==
  {q \in DOMAIN line : /\ ~IsSpace(line[q])
                       /\ q = 1 \/ IsSpace(line[q - 1])
                       /\ QuotesBefore(line, q) % 2 = 0}

ShellTokens(line) ==
  LET S == ArgStarts(line)
      n == IF Cardinality(S) < SHELL_MAX_ARGS THEN Cardinality(S) ELSE SHELL_MAX_ARGS
      at(i) == CHOOSE q \in S : Cardinality({x \in S : x < q}) = i - 1
  IN  [i \in 1 .. n |-> IF line[at(i)] = QT THEN "" ELSE line[at(i)]]

=============================================================================
