------------------------------- MODULE Shell --------------------------------
(***************************************************************************)
(* The command shell (shell.c) with the AI core its ai command queries and *)
(* the arena its run command interprets scripts in.                        *)
(*                                                                         *)
(* A word stands for its characters and the blank after it: a key is a     *)
(* word, the line buffer holds words, and splitting a line at character    *)
(* level is in module Text.  What is printed is left out.  The natural-    *)
(* language router, the path-based file calls and the script interpreter   *)
(* are not in the repository: they answer anything, and a script takes any *)
(* sequence of allocations.                                                *)
(***************************************************************************)
EXTENDS Integers, Sequences, FiniteSets, SequencesExt, Arena, AiCore

CONSTANTS SHELL_BUF_LEN, HISTORY_DEPTH, MAX_ARGS,
          Sessions,         \* sets of lines: every key a user types is of a line of the session
          NlpLines,         \* what the router may answer
          Requests,         \* allocation sizes of scripts, too small for a size_t to wrap
          MaxLines, MaxDepth, MaxLive, MaxOom       \* bounds of the runs

NUL == "NUL"
JUNK == "JUNK"              \* a word with bytes of the stack in it
NoLine == <<NUL>>

ASSUME ShellAssumption == /\ SHELL_BUF_LEN \in Nat \ {0, 1, 2}
                          /\ HISTORY_DEPTH \in Nat \ {0}
                          /\ MAX_ARGS \in Nat \ {0, 1}

Words == UNION {UNION {Range(line) : line \in s} : s \in Sessions}

(* Lines are made of words; the router's answers fit the shell's buffers. *)
ASSUME LineAssumption ==
  /\ NUL \notin Words /\ JUNK \notin Words
  /\ \A line \in NlpLines : /\ line \in Seq(Range(line)) /\ Len(line) \in 1 .. SHELL_BUF_LEN - 1
                            /\ NUL \notin Range(line) /\ JUNK \notin Range(line)

ASSUME RequestAssumption ==
  \A r \in Requests : r \in Nat /\ CAPACITY + 2 * r + ALIGN < SIZE_T

VARIABLES input_buf, cursor_pos,    \* cursor_pos is shell.c's cursor
          history, hist_count,
          exec,             \* the line execute_line was called with, NoLine between lines
          depth,            \* its recursion
          script,           \* cmd_run is interpreting
          halted,
          argv,             \* what run_builtin was last called with
          session,
          typed, entered    \* ghosts: the line as the user sees it, the lines entered

shell == <<input_buf, cursor_pos, history, hist_count, typed, entered>>
vars == <<session, shell, exec, depth, script, halted, argv, arena, response>>

(* The static arrays are zero; shell_init *)
Init == /\ input_buf = [i \in 1 .. SHELL_BUF_LEN |-> NUL] /\ cursor_pos = 0
        /\ history = [i \in 0 .. HISTORY_DEPTH - 1 |-> [j \in 1 .. SHELL_BUF_LEN |-> NUL]]
        /\ hist_count = 0
        /\ exec = NoLine /\ depth = 0 /\ script = FALSE /\ halted = FALSE /\ argv = <<>>
        /\ session \in Sessions /\ typed = <<>> /\ entered = <<>>
        /\ ArenaInit /\ response = NoResponse

(* The string in a buffer. *)
Text(b) == LET ends == {i \in DOMAIN b : b[i] = NUL}
           IN SubSeq(b, 1, (CHOOSE i \in ends : \A j \in ends : i <= j) - 1)

(* luna_strncpy(b, line, SHELL_BUF_LEN - 1) leaves the last byte of b alone. *)
Strncpy(b, line) ==
  [i \in 1 .. SHELL_BUF_LEN |-> IF i = SHELL_BUF_LEN THEN b[i] ELSE IF i <= Len(line) THEN line[i] ELSE NUL]
-----------------------------------------------------------------------------
(* shell_on_key: the four kinds of key.  Keys come one at a time: the      *)
(* handler runs a line to its end.                                         *)

Waiting == exec = NoLine /\ ~halted

Character(k) ==
  /\ Waiting
  /\ \E line \in session : IsPrefix(Append(typed, k), line)
  /\ IF cursor_pos < SHELL_BUF_LEN - 1
     THEN /\ input_buf' = [input_buf EXCEPT ![cursor_pos + 1] = k, ![cursor_pos + 2] = NUL]
          /\ cursor_pos' = cursor_pos + 1
          /\ typed' = Append(typed, k)
     ELSE UNCHANGED <<input_buf, cursor_pos, typed>>
  /\ UNCHANGED <<history, hist_count, entered, exec, depth, script, halted, argv, arena, response>>

Backspace ==
  /\ Waiting /\ cursor_pos > 0
  /\ cursor_pos' = cursor_pos - 1
  /\ input_buf' = [input_buf EXCEPT ![cursor_pos] = NUL]
  /\ typed' = Front(typed)
  /\ UNCHANGED <<history, hist_count, entered, exec, depth, script, halted, argv, arena, response>>

RememberLate ==             \* mutant: hist_count is advanced before it is used
  /\ history' = [history EXCEPT ![(hist_count + 1) % HISTORY_DEPTH] = Strncpy(@, Text(input_buf'))]
  /\ hist_count' = hist_count + 1

Remember ==
  /\ history' = [history EXCEPT ![hist_count % HISTORY_DEPTH] = Strncpy(@, Text(input_buf'))]
  /\ hist_count' = hist_count + 1

Enter ==
  /\ Waiting /\ Len(entered) < MaxLines
  /\ input_buf' = [input_buf EXCEPT ![cursor_pos + 1] = NUL]
  /\ IF cursor_pos > 0
     THEN Remember /\ exec' = Text(input_buf') /\ entered' = Append(entered, typed)
     ELSE UNCHANGED <<history, hist_count, exec, entered>>
  /\ cursor_pos' = 0 /\ typed' = <<>>
  /\ UNCHANGED <<depth, script, halted, argv, arena, response>>
-----------------------------------------------------------------------------
(* execute_line *)

Known == {"ls", "cat", "write", "rm", "clear", "ledger", "ps", "ai", "hash", "run", "help", "shutdown", "reboot"}

is_english_intent(line) == line[1] \notin Known /\ Len(line) > 1

Executing == exec # NoLine /\ ~script /\ ~halted

(* luna_strncpy into a local array whose last byte is never written: the  *)
(* string of a line that fills the copy runs on into the stack, up to the  *)
(* next zero byte.  What is there lengthens the last word, or follows it   *)
(* as words of its own, of which tokenize looks at fewer than MAX_ARGS.    *)
RunOn(line, last, k) == Append(SubSeq(line, 1, SHELL_BUF_LEN - 2), last) \o [i \in 1 .. k |-> JUNK]

Copies(line) ==
  IF Len(line) < SHELL_BUF_LEN - 1 THEN {line}
  ELSE {RunOn(line, last, k) : last \in {line[SHELL_BUF_LEN - 1], JUNK}, k \in 0 .. MAX_ARGS}

(* The router has an answer: it is executed in the line's place. *)
Routed ==
  /\ Executing /\ is_english_intent(exec) /\ depth < MaxDepth
  /\ \E mapped \in NlpLines : exec' \in Copies(mapped)
  /\ depth' = depth + 1
  /\ UNCHANGED <<shell, script, halted, argv, arena, response>>

tokenize(line) == SubSeq(line, 1, IF Len(line) < MAX_ARGS - 1 THEN Len(line) ELSE MAX_ARGS - 1)

Done == exec' = NoLine /\ depth' = 0

(* run_builtin: commands that only print, or change what is not modelled   *)
(* here (files), the unknown ones, and those with too few arguments.       *)
Plain(args) ==
  /\ args[1] \notin {"ai", "run", "shutdown"} \/ (args[1] \in {"ai", "run"} /\ Len(args) < 2)
  /\ Done /\ UNCHANGED <<script, halted, arena, response>>

(* What may occur in the query: a word from the stack holds any keyword. *)
Queries(args) ==
  LET words == {args[i] : i \in 2 .. Len(args)}
  IN IF JUNK \in words THEN {words} \cup {words \cup Keywords[i].words : i \in DOMAIN Keywords}
     ELSE {words}

cmd_ai(args) ==
  /\ args[1] = "ai" /\ Len(args) >= 2
  /\ \E query \in Queries(args) : ai_query(query)
  /\ Done /\ UNCHANGED <<script, halted, arena>>

cmd_run(args) ==
  /\ args[1] = "run" /\ Len(args) >= 2
  /\ \/ Done /\ UNCHANGED <<script, arena>>                 \* script not found
     \/ script' = TRUE /\ arena_reset /\ UNCHANGED <<exec, depth>>
  /\ UNCHANGED <<halted, response>>

shutdown(args) ==           \* cli; hlt
  /\ args[1] = "shutdown"
  /\ halted' = TRUE
  /\ UNCHANGED <<exec, depth, script, arena, response>>

Builtin ==
  /\ Executing
  /\ \E line \in Copies(exec) :
       LET args == tokenize(line)
       IN /\ argv' = args
          /\ Plain(args) \/ cmd_ai(args) \/ cmd_run(args) \/ shutdown(args)
  /\ UNCHANGED shell
-----------------------------------------------------------------------------
(* The interpreter at work in the arena. *)

Scripting == script /\ UNCHANGED <<shell, halted, argv, response>>

ScriptAlloc ==
  /\ Scripting /\ Len(live) < MaxLive /\ oom_count < MaxOom
  /\ \/ \E size \in Requests : arena_alloc(size)
     \/ \E size \in Requests : arena_calloc(2, size)
     \/ \E len \in Requests : arena_strdup(len)
  /\ UNCHANGED <<saved, exec, depth, script>>

ScriptScope ==
  /\ Scripting
  /\ (arena_save /\ Len(saved) < 2) \/ arena_restore
  /\ UNCHANGED <<exec, depth, script>>

(* A parse error returns at once and leaves the arena as it is. *)
ScriptEnd ==
  /\ Scripting
  /\ arena_reset \/ UNCHANGED arena
  /\ script' = FALSE /\ Done

Next == /\ \/ \E k \in UNION {Range(line) : line \in session} : Character(k)
           \/ Backspace \/ Enter
           \/ Routed \/ Builtin
           \/ ScriptAlloc \/ ScriptScope \/ ScriptEnd
        /\ UNCHANGED session

Spec == Init /\ [][Next]_vars
-----------------------------------------------------------------------------
(* The words of a line as a command gets them: all of a line that leaves   *)
(* room for its terminator in the copy, and of one that fills the copy all *)
(* but the last that fits.                                                 *)
Follows(words, line) ==
  /\ Len(line) < SHELL_BUF_LEN - 1 => words = tokenize(line)
  /\ \A i \in DOMAIN tokenize(line) : i < SHELL_BUF_LEN - 1 => i \in DOMAIN words /\ words[i] = line[i]

(* The line buffer is what the user sees, terminated; the history ring     *)
(* holds the last lines entered, each in the slot of its number; and the   *)
(* words a built-in command is run with are those of a line entered, or of *)
(* the router's answer to an English one, as far as the copies it went     *)
(* through were terminated.                                                *)
LinesKept ==
  /\ Len(typed) = cursor_pos /\ cursor_pos < SHELL_BUF_LEN
  /\ SubSeq(input_buf, 1, cursor_pos) = typed
  /\ cursor_pos > 0 => input_buf[cursor_pos + 1] = NUL
  /\ hist_count = Len(entered)
  /\ \A i \in DOMAIN entered : i > hist_count - HISTORY_DEPTH => Text(history[(i - 1) % HISTORY_DEPTH]) = entered[i]
  /\ argv # <<>> =>
       \/ \E line \in Range(entered) : Follows(argv, line)
       \/ /\ \E line \in NlpLines : Follows(argv, line)
          /\ \E line \in Range(entered) : is_english_intent(line)
=============================================================================
