-------------------------------- MODULE Cli --------------------------------
(***************************************************************************)
(* The command line of tasks/task_cli.c.  The CLI task splits a typed line *)
(* into tokens, looks them up in the table of commands and calls back; the *)
(* Eth task enters the four PTP commands into the same table whenever a    *)
(* session starts (ptp_init() of ptp.c), each time replacing the previous  *)
(* ones.  Both tokenize with the same static buffer and strtok(), and both *)
(* run at the same priority, time-sliced, with no lock: a handler is split *)
(* at each access to the buffer, the table and its counter, and the two    *)
(* interleave freely.  Two histories tell what became of it: whether both  *)
(* tasks have been in the tokenizer at once, and whether entries have      *)
(* moved under the present lookup.  strtok() is taken to stop between      *)
(* tokens, also when shared, where in the code the position left by one    *)
(* task may be in the middle of a token of the other: no property but the  *)
(* types says anything of a table entered through a shared tokenizer.  The *)
(* list of commands ("?") and empty lines change nothing and are left out. *)
(***************************************************************************)
EXTENDS Integers, Sequences, SequencesExt

CONSTANTS
    CliMax,        (* CLI_MAX_CMD_CNT, 16 in the code                         *)
    Words,         (* the tokens, those of the commands among them            *)
    Lines,         (* the lines the user types, as sequences of tokens        *)
    MaxSessions    (* bound: sessions started, each of which registers        *)

ASSUME CliAssumption ==
    /\ CliMax \in Nat \ {0} /\ MaxSessions \in Nat
    /\ {"ptp", "servo", "params", "reset", "offset", "log", "help"} \subseteq Words
    /\ \A typed \in Lines : typed \in Seq(Words) /\ typed # <<>>

VARIABLES
    copy, next,    (* pLineCpy and the position of strtok() in it             *)
    table, cnt,    (* spCliCmds and sCliCmdCnt                                *)
    reg, idx,      (* program counter of the Eth task, command it registers   *)
    regTok, slot,  (* tokens it has read, entry it overwrites                 *)
    cli, tok,      (* program counter of the CLI task, tokens it has read     *)
    line, i,       (* the line typed, entry the CLI task looks at             *)
    sessions,      (* sessions started                                        *)
    running,       (* a session runs: the network is connected                *)
    answer,        (* what became of the last line, until the next            *)
    shared,        (* history: the tasks have been in the tokenizer at once   *)
    moved          (* history: entries have moved during the present lookup   *)

regVars   == <<reg, idx, regTok, slot, sessions, running>>
lineVars  == <<cli, tok, line, i, answer>>
tableVars == <<table, cnt>>
strtok    == <<copy, next>>
histVars  == <<shared, moved>>
cliVars   == <<copy, next, table, cnt, reg, idx, regTok, slot, cli, tok, line, i,
               sessions, running, answer, shared, moved>>

\* The commands in the order ptp_init() registers them, the servo's first.
Commands ==
    << [cb |-> "params", ppTok |-> <<"ptp", "servo", "params">>, tokCnt |-> 3, min |-> 0],
       [cb |-> "reset",  ppTok |-> <<"ptp", "reset">>,           tokCnt |-> 2, min |-> 0],
       [cb |-> "offset", ppTok |-> <<"ptp", "servo", "offset">>, tokCnt |-> 3, min |-> 0],
       [cb |-> "log",    ppTok |-> <<"ptp", "log">>,             tokCnt |-> 2, min |-> 2] >>

Empty == [cb |-> "none", ppTok |-> <<>>, tokCnt |-> 0, min |-> 0]
Tokens(cmd) == SubSeq(cmd.ppTok, 1, cmd.tokCnt)
NoAnswer == [cb |-> "none", argc |-> 0]

Init ==
    /\ copy = <<>> /\ next = 1
    /\ table = [k \in 0 .. (CliMax - 1) |-> Empty] /\ cnt = 0
    /\ reg = "idle" /\ idx = 1 /\ regTok = <<>> /\ slot = 0
    /\ cli = "gets" /\ tok = <<>> /\ line = <<>> /\ i = 0
    /\ sessions = 0 /\ running = FALSE /\ answer = NoAnswer
    /\ shared = FALSE /\ moved = FALSE

-----------------------------------------------------------------------------
(***************************************************************************)
(* tokenize_cli_line(): the first strtok() starts at the front of the      *)
(* buffer, the others go on where the last call, by whichever task, ended. *)
(***************************************************************************)
FirstToken == <<copy[1]>>
NextToken(tokens) == Append(tokens, copy[next])

TOK_ARR_LEN == 16

\* Mutant of MoreTokens: one token too many.
OneMoreToken(tokens, max) == Len(tokens) <= max /\ next <= Len(copy)

MoreTokens(tokens, max) == Len(tokens) < max /\ next <= Len(copy)

(***************************************************************************)
(* cli_register_command(), called by the Eth task.                         *)
(***************************************************************************)
RegGoto(from, to) == reg = from /\ reg' = to
HelpLine(n) == Append(Commands[n].ppTok, "help")

InTokenizer(pc) == pc \in {"first", "more"}

RegStart ==
    /\ ~running /\ sessions < MaxSessions
    /\ RegGoto("idle", "copy")
    /\ sessions' = sessions + 1 /\ running' = TRUE /\ idx' = 1
    /\ UNCHANGED <<strtok, tableVars, regTok, slot, lineVars, histVars>>

RegCopy ==
    /\ RegGoto("copy", "first")
    /\ copy' = HelpLine(idx)
    /\ shared' = (shared \/ InTokenizer(cli))
    /\ UNCHANGED <<next, tableVars, idx, regTok, slot, sessions, running, lineVars, moved>>

RegFirst ==
    /\ RegGoto("first", "more")
    /\ regTok' = FirstToken /\ next' = 2
    /\ UNCHANGED <<copy, tableVars, idx, slot, sessions, running, lineVars, histVars>>

RegMore ==
    /\ reg = "more" /\ MoreTokens(regTok, Commands[idx].tokCnt)
    /\ regTok' = NextToken(regTok) /\ next' = next + 1
    /\ UNCHANGED <<copy, tableVars, reg, idx, slot, sessions, running, lineVars, histVars>>

\* The entry behind the last one is filled; the tokens it does not overwrite stay.
\* Behind the end of the table nothing is modelled.
Overwrite(old, new) == new \o SubSeq(old, Len(new) + 1, Len(old))

RegFill ==
    /\ ~MoreTokens(regTok, Commands[idx].tokCnt)
    /\ RegGoto("more", IF cnt < CliMax THEN "count" ELSE "overflow")
    /\ table' = [k \in DOMAIN table |->
                    IF k = cnt THEN [Commands[idx] EXCEPT !.ppTok = Overwrite(table[k].ppTok, regTok),
                                                          !.tokCnt = Len(regTok)]
                    ELSE table[k]]
    /\ regTok' = <<>>
    /\ UNCHANGED <<strtok, cnt, idx, slot, sessions, running, lineVars, histVars>>

\* Mutant of SameCommand: the tokens are not compared.
SameLength(k) == table[k].tokCnt = Commands[idx].tokCnt

\* The command at k has as many tokens as the one registered, and its tokens.
SameCommand(k) ==
    /\ table[k].tokCnt = Commands[idx].tokCnt
    /\ IsPrefix(Tokens(table[k]), table[cnt].ppTok)

\* Mutant of Duplicates: the search starts one entry late.
LateSearch == {k \in 1 .. (cnt - 1) : SameCommand(k)}

Duplicates == {k \in 0 .. (cnt - 1) : SameCommand(k)}

RegCount ==         \* sCliCmdCnt++, look for the first entry that is the same command
    /\ \/ RegGoto("count", "done") /\ Duplicates = {} /\ slot' = 0
       \/ RegGoto("count", "shift") /\ \E k \in Duplicates :
                                         (\A d \in Duplicates : k <= d) /\ slot' = k
    /\ cnt' = cnt + 1
    /\ UNCHANGED <<strtok, table, idx, regTok, sessions, running, lineVars, histVars>>

RegShift ==         \* cli_remove_command(): one memcpy() ...
    /\ reg = "shift" /\ slot < cnt - 1
    /\ table' = [table EXCEPT ![slot] = table[slot + 1]]
    /\ slot' = slot + 1
    /\ moved' = (moved \/ cli \in {"lookup", "call"})
    /\ UNCHANGED <<strtok, cnt, reg, idx, regTok, sessions, running, lineVars, shared>>

RegRemoved ==       \* ... after the other, then sCliCmdCnt--
    /\ slot = cnt - 1
    /\ RegGoto("shift", "done")
    /\ cnt' = cnt - 1 /\ slot' = 0
    /\ UNCHANGED <<strtok, table, idx, regTok, sessions, running, lineVars, histVars>>

RegNext ==
    /\ RegGoto("done", IF idx < Len(Commands) THEN "copy" ELSE "idle")
    /\ idx' = IF idx < Len(Commands) THEN idx + 1 ELSE 1
    /\ UNCHANGED <<strtok, tableVars, regTok, slot, sessions, running, lineVars, histVars>>

\* The session ends, and nothing is taken out of the table.
SessionEnd ==
    /\ running /\ reg = "idle"
    /\ running' = FALSE
    /\ UNCHANGED <<strtok, tableVars, reg, idx, regTok, slot, sessions, lineVars, histVars>>

Register == RegStart \/ RegCopy \/ RegFirst \/ RegMore \/ RegFill \/ RegCount
            \/ RegShift \/ RegRemoved \/ RegNext \/ SessionEnd

-----------------------------------------------------------------------------
(***************************************************************************)
(* process_cli_line(), run by the CLI task.                                *)
(***************************************************************************)
CliGoto(from, to) == cli = from /\ cli' = to

Gets(typed) ==      \* UARTgets(), strcpy()
    /\ CliGoto("gets", "first")
    /\ line' = typed /\ copy' = typed /\ answer' = NoAnswer
    /\ shared' = (shared \/ InTokenizer(reg))
    /\ UNCHANGED <<next, tableVars, regVars, tok, i, moved>>

CliFirst ==
    /\ CliGoto("first", "more")
    /\ tok' = FirstToken /\ next' = 2
    /\ UNCHANGED <<copy, tableVars, regVars, line, i, answer, histVars>>

CliMore ==
    /\ cli = "more" /\ MoreTokens(tok, TOK_ARR_LEN)
    /\ tok' = NextToken(tok) /\ next' = next + 1
    /\ UNCHANGED <<copy, tableVars, regVars, cli, line, i, answer, histVars>>

Tokenized ==
    /\ ~MoreTokens(tok, TOK_ARR_LEN)
    /\ CliGoto("more", "lookup")
    /\ i' = 0 /\ moved' = FALSE
    /\ UNCHANGED <<strtok, tableVars, regVars, tok, line, answer, shared>>

\* Mutant of Matches: the first token decides.
FirstMatches(cmd) == cmd.tokCnt > 0 /\ cmd.ppTok[1] = tok[1]

\* All tokens of the command are at the front of the line.
Matches(cmd) == cmd.tokCnt > 0 /\ IsPrefix(Tokens(cmd), tok)

LookNext ==
    /\ cli = "lookup" /\ i < cnt /\ ~Matches(table[i])
    /\ i' = i + 1
    /\ UNCHANGED <<strtok, tableVars, regVars, cli, tok, line, answer, histVars>>

Found ==
    /\ CliGoto("lookup", "call")
    /\ i < cnt /\ Matches(table[i])
    /\ UNCHANGED <<strtok, tableVars, regVars, tok, line, i, answer, histVars>>

\* The line is done with: answered with the callback cb and argc arguments.
Answer(cb, argc) ==
    /\ answer' = [cb |-> cb, argc |-> argc]
    /\ line' = <<>> /\ tok' = <<>> /\ i' = 0 /\ moved' = FALSE
    /\ UNCHANGED <<strtok, tableVars, regVars, shared>>

\* Mutant of Unknown: the lookup gives up at the last entry.
LastSkipped ==
    /\ i >= cnt - 1
    /\ CliGoto("lookup", "gets")
    /\ Answer("unknown", 0)

Unknown ==
    /\ i >= cnt
    /\ CliGoto("lookup", "gets")
    /\ Answer("unknown", 0)

\* The entry found is read again for the number of arguments, an uint8_t, and the
\* callback.
Argc == (Len(tok) - table[i].tokCnt) % 256

Call ==
    /\ CliGoto("call", "gets")
    /\ IF Argc < table[i].min THEN Answer("insufficient", Argc) ELSE Answer(table[i].cb, Argc)

ProcessLine == (\E typed \in Lines : Gets(typed)) \/ CliFirst \/ CliMore \/ Tokenized
               \/ LookNext \/ Found \/ Unknown \/ Call

Next == Register \/ ProcessLine

Spec == Init /\ [][Next]_cliVars

-----------------------------------------------------------------------------
Entry == [cb : {"none"} \cup {Commands[n].cb : n \in DOMAIN Commands},
          ppTok : Seq(Words), tokCnt : 0 .. 3, min : 0 .. 2]

TypeOK ==
    /\ table \in [0 .. (CliMax - 1) -> Entry] /\ cnt \in 0 .. CliMax
    /\ copy \in Seq(Words) /\ next \in Nat \ {0}
    /\ reg \in {"idle", "copy", "first", "more", "count", "shift", "done", "overflow"}
    /\ idx \in DOMAIN Commands /\ regTok \in Seq(Words) /\ Len(regTok) <= 3
    /\ slot \in 0 .. CliMax
    /\ cli \in {"gets", "first", "more", "lookup", "call"}
    /\ tok \in Seq(Words) /\ line \in Lines \cup {<<>>} /\ i \in 0 .. CliMax
    /\ sessions \in 0 .. MaxSessions
    /\ running \in BOOLEAN /\ shared \in BOOLEAN /\ moved \in BOOLEAN
    /\ reg = "first" \/ cli = "first" => copy # <<>>
    /\ reg = "count" => cnt < CliMax
    /\ reg = "shift" => slot < cnt
    /\ cli = "call" => i < CliMax

\* The table never overflows, however often the network comes and goes: a session's
\* registrations replace those of the one before.  Once the two tasks have been in
\* the tokenizer at once nothing is claimed: a registration that read tokens of a line
\* replaces nothing, and enough of them overflow the table.
TableFits == ~shared => reg # "overflow"

\* "clean up if the same command has been registered before" (task_cli.c:214): when a
\* session's registrations are through, and while it lasts, every command is in the
\* table and is so once, whatever lines were looked up and called meanwhile.  It holds
\* as long as the tasks have not been in the tokenizer at once, and not beyond.
TableComplete ==
    ~shared /\ running /\ reg = "idle" =>
        /\ cnt = Len(Commands)
        /\ \A n \in DOMAIN Commands : \E k \in 0 .. (cnt - 1) :
              table[k].cb = Commands[n].cb /\ Tokens(table[k]) = Commands[n].ppTok

\* The tokens of a line that the CLI task reads.
Read(typed) == SubSeq(typed, 1, IF Len(typed) < TOK_ARR_LEN THEN Len(typed) ELSE TOK_ARR_LEN)

\* A callback that runs was typed, and gets the arguments behind its tokens ("lookup
\* command", task_cli.c:125), also when commands are registered under the lookup: it
\* takes entries that move, or the shared tokenizer, to call another one.
CalledIsTyped ==
    [][ ~shared /\ ~moved /\ answer' # answer
          => \A n \in DOMAIN Commands :
                answer'.cb = Commands[n].cb =>
                    /\ IsPrefix(Commands[n].ppTok, line)
                    /\ answer'.argc = Len(Read(line)) - Commands[n].tokCnt ]_cliVars

\* The entry called is the one the lookup found: the command whose callback runs has
\* its tokens on the line still ("lookup command ... call command callback function",
\* task_cli.c:125 and 148).
FoundIsCalled == [][cli = "call" /\ cli' = "gets" => Matches(table[i])]_cliVars

\* The commands in the table: those registered so far, in a later session all of them.
Registered == IF sessions > 1 \/ reg = "idle" THEN DOMAIN Commands ELSE 1 .. (idx - 1)

\* While a session runs, a line is unknown only if it does not begin with a registered
\* command: after any number of sessions, each of which moves the entries, and with
\* a registration under way, the search misses none that does not move under it.
KnownIsFound ==
    [][ ~shared /\ ~moved /\ running /\ answer' # answer /\ answer'.cb = "unknown"
          => \A n \in Registered : ~IsPrefix(Commands[n].ppTok, line) ]_cliVars

-----------------------------------------------------------------------------
(***************************************************************************)
(* The inductive strengthening, for a table that has room for one command  *)
(* more.                                                                   *)
(***************************************************************************)
\* The history does not miss an overlap.
TakeTurns == ~(InTokenizer(reg) /\ InTokenizer(cli))

\* What has been read of the line of help of a command, and of the line typed.
TokensRead ==
    /\ reg \in {"first", "more"} => copy = HelpLine(idx)
    /\ reg = "more" => /\ next \in 2 .. (Commands[idx].tokCnt + 1)
                       /\ regTok = SubSeq(copy, 1, next - 1)
    /\ cli # "gets" => line \in Lines
    /\ cli \in {"first", "more"} => copy = line
    /\ cli = "more" => /\ next \in 2 .. (Len(Read(line)) + 1)
                       /\ tok = SubSeq(line, 1, next - 1)
    /\ cli \in {"lookup", "call"} => tok = Read(line)

\* The entry e is the n-th command.
Is(e, n) ==
    /\ e.cb = Commands[n].cb /\ e.min = Commands[n].min
    /\ e.tokCnt = Commands[n].tokCnt /\ e.tokCnt <= Len(e.ppTok)
    /\ Tokens(e) = Commands[n].ppTok

\* The order of registration starts over with each session.
Place(n) == IF n > Len(Commands) THEN n - Len(Commands) ELSE n

\* In the first session the table fills up; later on the command to be registered is
\* always the oldest, at the front: it is added behind the last, found at the front,
\* and the others move up.
TableFills ==
    sessions = 1 /\ reg # "idle" =>
        /\ reg # "shift"
        /\ cnt = IF reg = "done" THEN idx ELSE idx - 1
        /\ \A k \in 0 .. (cnt - 1) : Is(table[k], k + 1)

TableTurns ==
    sessions > 1 \/ (sessions = 1 /\ reg = "idle") =>
        LET up(k) == reg = "done" \/ (reg = "shift" /\ k < slot)
        IN  /\ cnt = IF reg = "shift" THEN Len(Commands) + 1 ELSE Len(Commands)
            /\ reg = "shift" => slot < cnt
            /\ \A k \in 0 .. (cnt - 1) :
                  Is(table[k], Place(idx + k + (IF up(k) THEN 1 ELSE 0)))

TableShape ==
    /\ reg # "overflow"
    /\ reg = "idle" => idx = 1
    /\ running \/ reg # "idle" => sessions > 0
    /\ sessions = 0 => cnt = 0
    /\ TableFills /\ TableTurns
    /\ reg = "count" => Is(table[cnt], idx)

\* The lookup has missed nothing so far, and its find stands.  It may be ahead of a
\* table that has just become shorter.
LookupShape ==
    /\ cli \in {"lookup", "call"} => \A k \in 0 .. (i - 1) : k < cnt => ~Matches(table[k])
    /\ cli = "lookup" /\ i > cnt => sessions > 1
    /\ cli = "call" => i < cnt /\ Matches(table[i])

\* TLC checks it, CliProofs proves it.
CliInv ==
    /\ TypeOK
    /\ ~shared => TakeTurns /\ TokensRead /\ TableShape
    /\ ~shared /\ ~moved => LookupShape
=============================================================================
