----------------------------- MODULE CliProofs -----------------------------
(***************************************************************************)
(* The table of commands stays complete and within its bounds, and every   *)
(* line calls what was typed, proved for any number of sessions, any lines *)
(* and any size of the table that has room for one command more than there *)
(* are, with the two tasks interleaving freely.  The only thing that is    *)
(* taken as it comes, and makes the claims void where it happens, is what  *)
(* the histories tell: both tasks in the tokenizer at once, and entries    *)
(* that move under a lookup.                                               *)
(***************************************************************************)
EXTENDS Cli, SequenceTheorems, TLAPS

USE CliAssumption
USE DEF strtok, tableVars, regVars, lineVars, histVars

RoomForOneMore == Len(Commands) < CliMax

-----------------------------------------------------------------------------
(***************************************************************************)
(* Sequences of tokens.                                                    *)
(***************************************************************************)
LEMMA SubSeqFacts ==
    ASSUME NEW S, NEW q \in Seq(S), NEW n \in 0 .. Len(q)
    PROVE  /\ SubSeq(q, 1, n) \in Seq(S) /\ Len(SubSeq(q, 1, n)) = n
           /\ \A k \in 1 .. n : SubSeq(q, 1, n)[k] = q[k]
BY SubSeqProperties

\* One more token is a longer prefix.
LEMMA PrefixGrows ==
    ASSUME NEW S, NEW q \in Seq(S), NEW n \in 0 .. (Len(q) - 1)
    PROVE  Append(SubSeq(q, 1, n), q[n + 1]) = SubSeq(q, 1, n + 1)
<1> DEFINE a == Append(SubSeq(q, 1, n), q[n + 1])
           b == SubSeq(q, 1, n + 1)
<1>0. q[n + 1] \in S
  OBVIOUS
<1>1. /\ SubSeq(q, 1, n) \in Seq(S) /\ Len(SubSeq(q, 1, n)) = n
      /\ \A k \in 1 .. n : SubSeq(q, 1, n)[k] = q[k]
  BY SubSeqFacts
<1>2. a \in Seq(S) /\ Len(a) = n + 1 /\ \A k \in 1 .. (n + 1) : a[k] = q[k]
  BY <1>0, <1>1, AppendProperties
<1>3. b \in Seq(S) /\ Len(b) = n + 1 /\ \A k \in 1 .. (n + 1) : b[k] = q[k]
  BY SubSeqFacts
<1> HIDE DEF a, b
<1>4. a = b
  BY <1>2, <1>3, SeqEqual
<1> QED BY <1>4 DEF a, b

\* A prefix is found by comparing its elements.
LEMMA PrefixElements ==
    ASSUME NEW S, NEW s \in Seq(S), NEW t \in Seq(S)
    PROVE  IsPrefix(s, t) <=> Len(s) <= Len(t) /\ \A k \in 1 .. Len(s) : s[k] = t[k]
<1>1. ASSUME Len(s) <= Len(t)
      PROVE  SubSeq(s, 1, Len(s)) = SubSeq(t, 1, Len(s))
                <=> \A k \in 1 .. Len(s) : s[k] = t[k]
  <2> DEFINE a == SubSeq(s, 1, Len(s))
             b == SubSeq(t, 1, Len(s))
  <2>1. /\ a \in Seq(S) /\ Len(a) = Len(s) /\ \A k \in 1 .. Len(s) : a[k] = s[k]
        /\ b \in Seq(S) /\ Len(b) = Len(s) /\ \A k \in 1 .. Len(s) : b[k] = t[k]
    BY <1>1, SubSeqFacts
  <2> HIDE DEF a, b
  <2>2. a = b <=> \A k \in 1 .. Len(s) : a[k] = b[k]
    BY <2>1, SeqEqual
  <2> QED BY <2>1, <2>2 DEF a, b
<1> QED BY <1>1 DEF IsPrefix

\* What is read of a line begins with the same commands as the line.
LEMMA ReadFacts ==
    ASSUME NEW typed \in Seq(Words)
    PROVE  /\ Read(typed) \in Seq(Words)
           /\ Len(Read(typed)) = IF Len(typed) < 16 THEN Len(typed) ELSE 16
           /\ \A k \in 1 .. Len(Read(typed)) : Read(typed)[k] = typed[k]
BY SubSeqFacts DEF Read, TOK_ARR_LEN

LEMMA ReadPrefix ==
    ASSUME NEW typed \in Seq(Words), NEW s \in Seq(Words), Len(s) <= 16
    PROVE  IsPrefix(s, Read(typed)) <=> IsPrefix(s, typed)
<1>1. /\ Read(typed) \in Seq(Words)
      /\ Len(Read(typed)) = IF Len(typed) < 16 THEN Len(typed) ELSE 16
      /\ \A k \in 1 .. Len(Read(typed)) : Read(typed)[k] = typed[k]
  BY ReadFacts
<1>2. IsPrefix(s, Read(typed))
        <=> Len(s) <= Len(Read(typed)) /\ \A k \in 1 .. Len(s) : s[k] = Read(typed)[k]
  BY <1>1, PrefixElements
<1>3. IsPrefix(s, typed) <=> Len(s) <= Len(typed) /\ \A k \in 1 .. Len(s) : s[k] = typed[k]
  BY PrefixElements
<1>4. Len(s) \in Nat /\ Len(typed) \in Nat
  OBVIOUS
<1>5. Len(s) <= Len(Read(typed)) <=> Len(s) <= Len(typed)
  BY <1>1, <1>4
<1>6. ASSUME Len(s) <= Len(typed)
      PROVE  \A k \in 1 .. Len(s) : Read(typed)[k] = typed[k]
  BY <1>1, <1>4, <1>6
<1> QED BY <1>2, <1>3, <1>5, <1>6

\* The tokens written over an entry are the entry's.
LEMMA OverwriteFacts ==
    ASSUME NEW old \in Seq(Words), NEW new \in Seq(Words)
    PROVE  /\ Overwrite(old, new) \in Seq(Words)
           /\ Len(new) <= Len(Overwrite(old, new))
           /\ SubSeq(Overwrite(old, new), 1, Len(new)) = new
<1> DEFINE rest == SubSeq(old, Len(new) + 1, Len(old))
           o    == new \o rest
           p    == SubSeq(o, 1, Len(new))
<1>1. rest \in Seq(Words)
  BY SubSeqProperties
<1> HIDE DEF rest
<1>2. /\ o \in Seq(Words) /\ Len(o) = Len(new) + Len(rest)
      /\ \A k \in 1 .. Len(new) : o[k] = new[k]
  BY <1>1, ConcatProperties
<1>3. Len(rest) \in Nat /\ Len(new) \in 0 .. Len(o)
  BY <1>1, <1>2
<1> HIDE DEF o
<1>4. p \in Seq(Words) /\ Len(p) = Len(new) /\ \A k \in 1 .. Len(new) : p[k] = o[k]
  BY <1>2, <1>3, SubSeqFacts
<1> HIDE DEF p
<1>5. p = new
  BY <1>2, <1>4, SeqEqual
<1> QED BY <1>2, <1>3, <1>5 DEF p, o, rest, Overwrite

-----------------------------------------------------------------------------
(***************************************************************************)
(* The four commands.                                                      *)
(***************************************************************************)
LEMMA CommandFacts ==
    /\ Len(Commands) = 4 /\ DOMAIN Commands = 1 .. 4
    /\ \A n \in 1 .. 4 :
          /\ Commands[n].ppTok \in Seq(Words)
          /\ Commands[n].tokCnt \in 2 .. 3 /\ Len(Commands[n].ppTok) = Commands[n].tokCnt
          /\ Commands[n].min \in 0 .. 2
          /\ Commands[n].cb \in {"params", "reset", "offset", "log"}
<1>1. Len(Commands) = 4 /\ DOMAIN Commands = 1 .. 4
  BY DEF Commands
<1>2. /\ {"ptp", "servo", "params", "reset", "offset", "log"} \subseteq Words
      /\ \A s, t, u \in Words : <<s, t>> \in Seq(Words) /\ <<s, t, u>> \in Seq(Words)
  OBVIOUS
<1>3. /\ <<"ptp", "servo", "params">> \in Seq(Words) /\ <<"ptp", "reset">> \in Seq(Words)
      /\ <<"ptp", "servo", "offset">> \in Seq(Words) /\ <<"ptp", "log">> \in Seq(Words)
  BY <1>2
<1>4. ASSUME NEW n \in 1 .. 4 PROVE /\ Commands[n].ppTok \in Seq(Words)
                                    /\ Len(Commands[n].ppTok) = Commands[n].tokCnt
  <2>1. CASE n = 1
    BY <1>3, <2>1 DEF Commands
  <2>2. CASE n = 2
    BY <1>3, <2>2 DEF Commands
  <2>3. CASE n = 3
    BY <1>3, <2>3 DEF Commands
  <2>4. CASE n = 4
    BY <1>3, <2>4 DEF Commands
  <2> QED BY <2>1, <2>2, <2>3, <2>4
<1>5. ASSUME NEW n \in 1 .. 4
      PROVE  Commands[n].tokCnt \in 2 .. 3
  BY DEF Commands
<1>6. ASSUME NEW n \in 1 .. 4
      PROVE  /\ Commands[n].min \in 0 .. 2
             /\ Commands[n].cb \in {"params", "reset", "offset", "log"}
  BY DEF Commands
<1> QED BY <1>1, <1>4, <1>5, <1>6

LEMMA CommandsDiffer ==
    ASSUME NEW m \in 1 .. 4, NEW n \in 1 .. 4,
           Commands[m].tokCnt = Commands[n].tokCnt,
           Commands[m].ppTok = Commands[n].ppTok
    PROVE  m = n
BY DEF Commands

LEMMA CallbacksDiffer ==
    ASSUME NEW m \in 1 .. 4, NEW n \in 1 .. 4, Commands[m].cb = Commands[n].cb
    PROVE  m = n
BY DEF Commands

LEMMA CommandRecord ==
    \A n \in 1 .. 4 : Commands[n] = [cb |-> Commands[n].cb, ppTok |-> Commands[n].ppTok,
                                     tokCnt |-> Commands[n].tokCnt, min |-> Commands[n].min]
BY DEF Commands

LEMMA HelpLineFacts ==
    ASSUME NEW n \in 1 .. 4
    PROVE  /\ HelpLine(n) \in Seq(Words) /\ Len(HelpLine(n)) = Commands[n].tokCnt + 1
           /\ SubSeq(HelpLine(n), 1, Commands[n].tokCnt) = Commands[n].ppTok
<1> DEFINE c == Commands[n].ppTok
           h == HelpLine(n)
           s == SubSeq(h, 1, Len(c))
<1>1. c \in Seq(Words) /\ "help" \in Words /\ Len(c) = Commands[n].tokCnt
  BY CommandFacts
<1>2. /\ h \in Seq(Words) /\ Len(h) = Len(c) + 1
      /\ \A k \in 1 .. Len(c) : h[k] = c[k]
  BY <1>1, AppendProperties DEF HelpLine
<1>3. Len(c) \in 0 .. Len(h)
  BY <1>1, <1>2
<1> HIDE DEF c, h
<1>4. s \in Seq(Words) /\ Len(s) = Len(c) /\ \A k \in 1 .. Len(c) : s[k] = h[k]
  BY <1>2, <1>3, SubSeqFacts
<1> HIDE DEF s
<1>5. s = c
  BY <1>1, <1>2, <1>4, SeqEqual
<1> QED BY <1>1, <1>2, <1>5 DEF s, c, h

LEMMA RecordFields ==
    ASSUME NEW a, NEW b, NEW c, NEW d, NEW e,
           e = [cb |-> a, ppTok |-> b, tokCnt |-> c, min |-> d]
    PROVE  e.cb = a /\ e.ppTok = b /\ e.tokCnt = c /\ e.min = d
OBVIOUS

\* What RegFill() writes is the command.
LEMMA FilledEntry ==
    ASSUME NEW n \in 1 .. 4, NEW old \in Seq(Words), NEW new, new = Commands[n].ppTok,
           NEW e, e = [Commands[n] EXCEPT !.ppTok = Overwrite(old, new),
                                          !.tokCnt = Len(new)]
    PROVE  e \in Entry /\ Is(e, n)
<1>1. /\ Commands[n] = [cb |-> Commands[n].cb, ppTok |-> Commands[n].ppTok,
                        tokCnt |-> Commands[n].tokCnt, min |-> Commands[n].min]
      /\ new \in Seq(Words) /\ Len(new) = Commands[n].tokCnt
      /\ Commands[n].tokCnt \in 2 .. 3 /\ Commands[n].min \in 0 .. 2
  BY CommandRecord, CommandFacts
<1>2. e = [cb |-> Commands[n].cb, ppTok |-> Overwrite(old, new),
           tokCnt |-> Commands[n].tokCnt, min |-> Commands[n].min]
  BY <1>1
<1>3. /\ Overwrite(old, new) \in Seq(Words)
      /\ Commands[n].tokCnt <= Len(Overwrite(old, new))
      /\ SubSeq(Overwrite(old, new), 1, Commands[n].tokCnt) = new
  BY <1>1, OverwriteFacts
<1>4. n \in DOMAIN Commands
  BY CommandFacts
<1>5. e \in Entry
  BY <1>1, <1>2, <1>3, <1>4 DEF Entry
<1>6. /\ e.cb = Commands[n].cb /\ e.min = Commands[n].min
      /\ e.tokCnt = Commands[n].tokCnt /\ e.ppTok = Overwrite(old, new)
  BY ONLY <1>2, RecordFields
<1>7. Is(e, n)
  BY <1>3, <1>6 DEF Is, Tokens
<1> QED BY <1>5, <1>7

-----------------------------------------------------------------------------
(***************************************************************************)
(* The tokenizer.                                                          *)
(***************************************************************************)
\* What has been shared remains so, and before that the tasks take turns.
LEMMA SharedStep ==
    ASSUME TypeOK, [Next]_cliVars
    PROVE  ~shared' => ~shared
BY DEF TypeOK, Next, Register, RegStart, RegCopy, RegFirst, RegMore, RegFill, RegCount,
   RegShift, RegRemoved, RegNext, SessionEnd, ProcessLine, Gets, CliFirst, CliMore,
   Tokenized, LookNext, Found, Unknown, Answer, Call, cliVars

LEMMA TakeTurnsStep ==
    ASSUME TakeTurns, [Next]_cliVars, ~shared'
    PROVE  TakeTurns'
<1> USE DEF TakeTurns, InTokenizer, RegGoto, CliGoto
<1>1. CASE RegCopy
  BY <1>1 DEF RegCopy
<1>2. ASSUME NEW typed \in Lines, Gets(typed) PROVE TakeTurns'
  BY <1>2 DEF Gets
<1>3. CASE RegStart \/ RegFirst \/ RegMore \/ RegFill \/ RegCount \/ RegShift \/ RegRemoved
           \/ RegNext \/ SessionEnd
  BY <1>3 DEF RegStart, RegFirst, RegMore, RegFill, RegCount, RegShift, RegRemoved,
     RegNext, SessionEnd
<1>4. CASE CliFirst \/ CliMore \/ Tokenized \/ LookNext \/ Found \/ Unknown \/ Call
  BY <1>4 DEF CliFirst, CliMore, Tokenized, LookNext, Found, Unknown, Answer, Call
<1>5. CASE UNCHANGED cliVars
  BY <1>5 DEF cliVars
<1> QED BY <1>1, <1>2, <1>3, <1>4, <1>5 DEF Next, Register, ProcessLine

\* The tokens read are the first of the line, and no more than asked for.
LEMMA TokensReadStep ==
    ASSUME TypeOK, TakeTurns, TokensRead, [Next]_cliVars, ~shared'
    PROVE  TokensRead'
<1> USE DEF TokensRead, TakeTurns, InTokenizer, RegGoto, CliGoto
<1>0. /\ idx \in 1 .. 4 /\ copy \in Seq(Words) /\ Len(copy) \in Nat
      /\ Commands[idx].tokCnt \in 2 .. 3
  BY CommandFacts DEF TypeOK
<1>1. CASE RegStart
  BY <1>1 DEF RegStart, Read
<1>2. CASE RegCopy
  <2>1. ~(cli \in {"first", "more"})
    BY <1>2 DEF RegCopy
  <2> QED BY <1>2, <2>1 DEF RegCopy, HelpLine, Read
<1>3. CASE RegFirst
  <2>1. /\ copy = HelpLine(idx) /\ Len(copy) = Commands[idx].tokCnt + 1
        /\ copy' = copy /\ idx' = idx /\ next' = 2 /\ regTok' = <<copy[1]>>
        /\ reg' = "more" /\ cli \notin {"first", "more"}
        /\ UNCHANGED <<cli, line, tok>>
    BY <1>0, <1>3, HelpLineFacts DEF RegFirst, FirstToken
  <2>2. <<copy[1]>> = SubSeq(copy, 1, 1)
    BY <1>0, <2>1
  <2>3. HelpLine(idx)' = HelpLine(idx) /\ Read(line)' = Read(line)
    BY <2>1 DEF HelpLine, Read
  <2> QED BY <1>0, <2>1, <2>2, <2>3
<1>4. CASE RegMore
  <2>1. /\ copy = HelpLine(idx) /\ Len(copy) = Commands[idx].tokCnt + 1
        /\ copy' = copy /\ idx' = idx /\ next' = next + 1
        /\ regTok' = Append(regTok, copy[next])
        /\ reg' = "more" /\ cli \notin {"first", "more"}
        /\ UNCHANGED <<cli, line, tok>>
        /\ regTok = SubSeq(copy, 1, next - 1) /\ next \in 2 .. (Commands[idx].tokCnt + 1)
        /\ Len(regTok) < Commands[idx].tokCnt
    BY <1>0, <1>4, HelpLineFacts DEF RegMore, NextToken, MoreTokens
  <2>2. Len(regTok) = next - 1
    BY <1>0, <2>1, SubSeqFacts
  <2>3. Append(SubSeq(copy, 1, next - 1), copy[(next - 1) + 1]) = SubSeq(copy, 1, (next - 1) + 1)
    BY <1>0, <2>1, <2>2, PrefixGrows
  <2>4. HelpLine(idx)' = HelpLine(idx) /\ Read(line)' = Read(line)
    BY <2>1 DEF HelpLine, Read
  <2> QED BY <1>0, <2>1, <2>2, <2>3, <2>4
<1>5. CASE RegFill \/ RegCount \/ RegShift \/ RegRemoved \/ RegNext \/ SessionEnd
  <2>1. /\ reg' \notin {"first", "more"}
        /\ UNCHANGED <<copy, next, cli, line, tok>>
    BY <1>5 DEF RegFill, RegCount, RegShift, RegRemoved, RegNext, SessionEnd
  <2>2. Read(line)' = Read(line)
    BY <2>1 DEF Read
  <2> QED BY <2>1, <2>2
<1>7. ASSUME NEW typed \in Lines, Gets(typed) PROVE TokensRead'
  BY <1>7 DEF Gets
<1>8. CASE CliFirst
  <2>1. /\ copy = line /\ line \in Lines /\ line \in Seq(Words) /\ line # <<>>
        /\ copy' = copy /\ line' = line /\ next' = 2 /\ tok' = <<copy[1]>>
        /\ cli' = "more" /\ reg' \notin {"first", "more"}
    BY <1>8 DEF CliFirst, FirstToken
  <2>2. <<copy[1]>> = SubSeq(copy, 1, 1)
    BY <1>0, <2>1
  <2>3. 2 \in 2 .. (Len(Read(line)) + 1) /\ Read(line)' = Read(line)
    BY <2>1, ReadFacts DEF Read
  <2> QED BY <2>1, <2>2, <2>3
<1>9. CASE CliMore
  <2>1. /\ copy = line /\ line \in Lines /\ line \in Seq(Words)
        /\ copy' = copy /\ line' = line /\ next' = next + 1 /\ tok' = Append(tok, copy[next])
        /\ cli' = "more" /\ reg' \notin {"first", "more"}
        /\ tok = SubSeq(line, 1, next - 1) /\ next \in 2 .. (Len(Read(line)) + 1)
        /\ Len(tok) < 16 /\ next <= Len(line)
    BY <1>9 DEF CliMore, NextToken, MoreTokens, TOK_ARR_LEN
  <2>2. Len(Read(line)) = IF Len(line) < 16 THEN Len(line) ELSE 16
    BY <2>1, ReadFacts
  <2>3. Len(tok) = next - 1
    BY <2>1, <2>2, SubSeqFacts
  <2>4. Append(SubSeq(line, 1, next - 1), line[(next - 1) + 1]) = SubSeq(line, 1, (next - 1) + 1)
    BY <2>1, <2>2, PrefixGrows
  <2>5. Read(line)' = Read(line)
    BY <2>1 DEF Read
  <2>6. next' \in 2 .. (Len(Read(line)) + 1)
    BY <2>1, <2>2, <2>3
  <2>7. tok' = SubSeq(line, 1, next' - 1)
    BY <2>1, <2>2, <2>4
  <2> QED BY <2>1, <2>5, <2>6, <2>7
<1>10. CASE Tokenized
  <2>1. /\ copy = line /\ line \in Lines /\ line \in Seq(Words)
        /\ line' = line /\ tok' = tok /\ cli' = "lookup" /\ reg' \notin {"first", "more"}
        /\ tok = SubSeq(line, 1, next - 1) /\ next \in 2 .. (Len(Read(line)) + 1)
        /\ ~(Len(tok) < 16 /\ next <= Len(line))
    BY <1>10 DEF Tokenized, MoreTokens, TOK_ARR_LEN
  <2>2. Len(Read(line)) = IF Len(line) < 16 THEN Len(line) ELSE 16
    BY <2>1, ReadFacts
  <2>3. Len(tok) = next - 1
    BY <2>1, <2>2, SubSeqFacts
  <2>4. next - 1 = IF Len(line) < 16 THEN Len(line) ELSE 16
    BY <2>1, <2>2, <2>3
  <2>5. tok = Read(line) /\ Read(line)' = Read(line)
    BY <2>1, <2>4 DEF Read, TOK_ARR_LEN
  <2> QED BY <2>1, <2>5
<1>11. CASE LookNext \/ Found
  BY <1>11 DEF LookNext, Found, Read, HelpLine
<1>12. CASE Unknown \/ Call
  BY <1>12 DEF Unknown, Call, Answer, HelpLine
<1>13. CASE UNCHANGED cliVars
  BY <1>13 DEF cliVars, Read, HelpLine
<1> QED BY <1>1, <1>2, <1>3, <1>4, <1>5, <1>7, <1>8, <1>9, <1>10, <1>11, <1>12,
           <1>13 DEF Next, Register, ProcessLine

-----------------------------------------------------------------------------
(***************************************************************************)
(* Registration.                                                           *)
(***************************************************************************)
\* When the tokens are all read they are those of the command.
LEMMA RegRead ==
    ASSUME TypeOK, TokensRead, RegFill
    PROVE  regTok = Commands[idx].ppTok
<1>1. /\ idx \in 1 .. 4 /\ copy = HelpLine(idx) /\ copy \in Seq(Words)
      /\ regTok = SubSeq(copy, 1, next - 1) /\ next \in 2 .. (Commands[idx].tokCnt + 1)
      /\ ~(Len(regTok) < Commands[idx].tokCnt /\ next <= Len(copy))
      /\ Commands[idx].tokCnt \in 2 .. 3
  BY CommandFacts DEF TypeOK, TokensRead, RegFill, RegGoto, MoreTokens
<1>2. /\ Len(copy) = Commands[idx].tokCnt + 1
      /\ SubSeq(copy, 1, Commands[idx].tokCnt) = Commands[idx].ppTok
  BY <1>1, HelpLineFacts
<1>3. Len(regTok) = next - 1
  BY <1>1, <1>2, SubSeqFacts
<1>4. next - 1 = Commands[idx].tokCnt
  BY <1>1, <1>2, <1>3
<1> QED BY <1>1, <1>2, <1>4

\* Two entries are taken for the same command if they are.
LEMMA SameIsSame ==
    ASSUME NEW k, NEW n \in 1 .. 4, idx \in 1 .. 4, Is(table[k], n), Is(table[cnt], idx),
           table[k].ppTok \in Seq(Words), table[cnt].ppTok \in Seq(Words)
    PROVE  SameCommand(k) <=> n = idx
<1>1. /\ Commands[n].ppTok \in Seq(Words) /\ Commands[idx].ppTok \in Seq(Words)
      /\ Len(Commands[n].ppTok) = Commands[n].tokCnt /\ Commands[n].tokCnt \in 2 .. 3
      /\ Len(Commands[idx].ppTok) = Commands[idx].tokCnt /\ Commands[idx].tokCnt \in 2 .. 3
  BY CommandFacts
<1>2. /\ table[k].tokCnt = Commands[n].tokCnt /\ Tokens(table[k]) = Commands[n].ppTok
      /\ Commands[idx].tokCnt <= Len(table[cnt].ppTok)
      /\ SubSeq(table[cnt].ppTok, 1, Commands[idx].tokCnt) = Commands[idx].ppTok
  BY DEF Is, Tokens
<1>3. SubSeq(Commands[n].ppTok, 1, Len(Commands[n].ppTok)) = Commands[n].ppTok
  BY <1>1, SubSeqFull
<1>4. SameCommand(k) <=> /\ Commands[n].tokCnt = Commands[idx].tokCnt
                         /\ Commands[n].ppTok = Commands[idx].ppTok
  BY <1>1, <1>2, <1>3 DEF SameCommand, IsPrefix
<1> QED BY <1>4, CommandsDiffer

LEMMA PlaceFacts ==
    /\ \A n \in 1 .. 8 : Place(n) \in 1 .. 4
    /\ \A n \in 1 .. 4 : Place(n) = n /\ Place(n + 4) = n
    /\ \A n \in 1 .. 4 : \A k \in 1 .. 3 : Place(n + k) # n
BY CommandFacts DEF Place

\* In the first session no command is there already; later on it is the first.
LEMMA CountPlace ==
    ASSUME RoomForOneMore, TypeOK, TableShape, reg = "count"
    PROVE  /\ sessions = 1 => Duplicates = {}
           /\ sessions > 1 =>
                /\ Duplicates # {}
                /\ \A k \in Duplicates : (\A d \in Duplicates : k <= d) => k = 0
           /\ cnt + 1 <= CliMax /\ sessions # 0
<1>0. /\ idx \in 1 .. 4 /\ CliMax \in Nat /\ CliMax > 4 /\ sessions \in Nat
      /\ table \in [0 .. (CliMax - 1) -> Entry] /\ cnt \in Nat /\ Len(Commands) = 4
  BY CommandFacts DEF RoomForOneMore, TypeOK
<1>1. \A k \in 0 .. (CliMax - 1) : table[k].ppTok \in Seq(Words)
  BY <1>0 DEF Entry
<1>2. sessions # 0 /\ Is(table[cnt], idx)
  BY DEF TableShape
<1>3. CASE sessions = 1
  <2>1. cnt = idx - 1 /\ \A k \in 0 .. (cnt - 1) : Is(table[k], k + 1)
    BY <1>3 DEF TableShape, TableFills
  <2>2. \A k \in 0 .. (cnt - 1) : ~SameCommand(k)
    <3>1. SUFFICES ASSUME NEW k \in 0 .. (cnt - 1) PROVE ~SameCommand(k)
      OBVIOUS
    <3>2. k + 1 \in 1 .. 4 /\ k + 1 # idx /\ Is(table[k], k + 1)
      BY <1>0, <2>1
    <3>3. table[k].ppTok \in Seq(Words) /\ table[cnt].ppTok \in Seq(Words)
      BY <1>0, <1>1, <2>1
    <3> QED BY <1>0, <1>2, <3>2, <3>3, SameIsSame
  <2> QED BY <1>0, <1>2, <1>3, <2>1, <2>2 DEF Duplicates
<1>4. CASE sessions > 1
  <2>1. cnt = 4 /\ \A k \in 0 .. 3 : Is(table[k], Place(idx + k))
    BY <1>0, <1>4 DEF TableShape, TableTurns
  <2>2. Is(table[0], idx)
    BY <1>0, <2>1, PlaceFacts
  <2>3. table[0].ppTok \in Seq(Words) /\ table[cnt].ppTok \in Seq(Words)
    BY <1>0, <1>1, <2>1
  <2>4. SameCommand(0)
    BY <1>0, <1>2, <2>2, <2>3, SameIsSame
  <2>5. 0 \in Duplicates /\ Duplicates \subseteq 0 .. 3
    BY <2>1, <2>4 DEF Duplicates
  <2>6. \A d \in Duplicates : 0 <= d
    BY <2>5
  <2>7. \A k \in Duplicates : (\A d \in Duplicates : k <= d) => k = 0
    BY <2>5
  <2> QED BY <1>0, <1>2, <1>4, <2>1, <2>5, <2>7
<1> QED BY <1>0, <1>2, <1>3, <1>4

-----------------------------------------------------------------------------
(***************************************************************************)
(* Types.                                                                  *)
(***************************************************************************)
LEMMA ShortLength ==
    ASSUME NEW q \in Seq(Words), Len(q) <= 3
    PROVE  Len(q) \in 0 .. 3
<1> DEFINE l == Len(q)
<1>1. l \in Nat /\ l <= 3
  BY LenProperties
<1> HIDE DEF l
<1>2. l \in 0 .. 3
  BY <1>1
<1> QED BY <1>2 DEF l

\* What is filled in is an entry, whatever has been read.
LEMMA FilledType ==
    ASSUME NEW n \in 1 .. 4, NEW old \in Seq(Words), NEW new \in Seq(Words), Len(new) <= 3,
           NEW e, e = [Commands[n] EXCEPT !.ppTok = Overwrite(old, new),
                                          !.tokCnt = Len(new)]
    PROVE  e \in Entry
<1>1. /\ Commands[n] = [cb |-> Commands[n].cb, ppTok |-> Commands[n].ppTok,
                        tokCnt |-> Commands[n].tokCnt, min |-> Commands[n].min]
      /\ Commands[n].min \in 0 .. 2 /\ n \in DOMAIN Commands
  BY CommandRecord, CommandFacts
<1>2. e = [cb |-> Commands[n].cb, ppTok |-> Overwrite(old, new), tokCnt |-> Len(new),
           min |-> Commands[n].min]
  BY <1>1
<1>3. Overwrite(old, new) \in Seq(Words)
  BY OverwriteFacts
<1>4. Len(new) \in 0 .. 3
  BY ShortLength
<1> QED BY <1>1, <1>2, <1>3, <1>4 DEF Entry

LEMMA TypeStep ==
    ASSUME TypeOK, [Next]_cliVars
    PROVE  TypeOK'
<1> USE DEF TypeOK, RegGoto, CliGoto
<1>0. /\ idx \in 1 .. 4 /\ copy \in Seq(Words) /\ Len(copy) \in Nat
      /\ Commands[idx].tokCnt \in 2 .. 3 /\ DOMAIN Commands = 1 .. 4
      /\ CliMax \in Nat \ {0} /\ Len(regTok) \in Nat
  BY CommandFacts
<1>19. ASSUME UNCHANGED <<copy, next, table, cnt, reg, idx, regTok, slot, sessions, running, shared>>,
              tok' \in Seq(Words), line' \in Lines \cup {<<>>}, i' \in 0 .. CliMax,
              moved' \in BOOLEAN, cli' \in {"gets", "more", "lookup", "call"},
              cli' = "call" => i' < CliMax
       PROVE  TypeOK'
  BY <1>19
<1>1. CASE RegStart
  BY <1>0, <1>1 DEF RegStart
<1>2. CASE RegCopy
  <2>1. HelpLine(idx) \in Seq(Words) /\ Len(HelpLine(idx)) = Commands[idx].tokCnt + 1
    BY <1>0, HelpLineFacts
  <2> HIDE DEF TypeOK
  <2>2. HelpLine(idx) # <<>>
    BY <1>0, <2>1
  <2> USE DEF TypeOK
  <2> QED BY <1>0, <1>2, <2>1, <2>2 DEF RegCopy
<1>3. CASE RegFirst
  <2>1. copy # <<>>
    BY <1>3 DEF RegFirst
  <2>2. <<copy[1]>> \in Seq(Words) /\ Len(<<copy[1]>>) <= 3
    BY <1>0, <2>1
  <2> QED BY <1>3, <2>1, <2>2 DEF RegFirst, FirstToken
<1>4. CASE RegMore
  <2>1. next \in 1 .. Len(copy) /\ Len(regTok) < Commands[idx].tokCnt
    BY <1>0, <1>4 DEF RegMore, MoreTokens
  <2>2. Append(regTok, copy[next]) \in Seq(Words) /\ Len(Append(regTok, copy[next])) <= 3
    BY <1>0, <2>1, AppendProperties
  <2> QED BY <1>4, <2>2 DEF RegMore, NextToken
<1>5. CASE RegFill
  <2>1. ASSUME NEW k \in DOMAIN table
        PROVE  [Commands[idx] EXCEPT !.ppTok = Overwrite(table[k].ppTok, regTok),
                                     !.tokCnt = Len(regTok)] \in Entry
    <3>1. table[k].ppTok \in Seq(Words)
      BY DEF Entry
    <3> QED BY <1>0, <3>1, FilledType
  <2>2. table' \in [0 .. (CliMax - 1) -> Entry]
    BY <1>5, <2>1 DEF RegFill
  <2>3. <<>> \in Seq(Words) /\ Len(<<>>) <= 3
    OBVIOUS
  <2>4. reg' \in {"count", "overflow"} /\ (reg' = "count" => cnt < CliMax)
    BY <1>5 DEF RegFill
  <2>5. regTok' = <<>> /\ UNCHANGED <<strtok, cnt, idx, slot, sessions, running, lineVars, histVars>>
    BY <1>5 DEF RegFill
  <2> QED BY <1>0, <2>2, <2>3, <2>4, <2>5
<1>6. CASE RegCount
  <2>1. /\ cnt < CliMax /\ cnt' = cnt + 1
        /\ UNCHANGED <<strtok, table, idx, regTok, sessions, running, lineVars, histVars>>
    BY <1>6 DEF RegCount
  <2>2. CASE Duplicates = {}
    <3>1. reg' = "done" /\ slot' = 0
      BY <1>6, <2>2 DEF RegCount
    <3> QED BY <1>0, <2>1, <3>1
  <2>3. CASE Duplicates # {}
    <3>1. Duplicates \subseteq 0 .. (cnt - 1) /\ Duplicates \in SUBSET Nat
      BY DEF Duplicates
    <3>2. reg' = "shift" /\ slot' \in Duplicates
      BY <1>6, <2>3, <3>1 DEF RegCount
    <3>3. slot' \in 0 .. (cnt - 1)
      BY <3>1, <3>2
    <3> HIDE DEF Duplicates
    <3> QED BY <1>0, <2>1, <3>2, <3>3
  <2> QED BY <2>2, <2>3
<1>7. CASE RegShift
  <2>1. slot \in Nat /\ slot + 1 < cnt /\ slot + 1 \in 0 .. (CliMax - 1)
    BY <1>0, <1>7 DEF RegShift
  <2>2. table' \in [0 .. (CliMax - 1) -> Entry]
    BY <1>7, <2>1 DEF RegShift
  <2>3. /\ slot' = slot + 1 /\ moved' \in BOOLEAN
        /\ UNCHANGED <<strtok, cnt, reg, idx, regTok, sessions, running, lineVars, shared>>
    BY <1>7 DEF RegShift
  <2> QED BY <1>0, <2>1, <2>2, <2>3
<1>8. CASE RegRemoved
  BY <1>0, <1>8 DEF RegRemoved
<1>9. CASE RegNext
  BY <1>0, <1>9, CommandFacts DEF RegNext
<1>18. CASE SessionEnd
  BY <1>18 DEF SessionEnd
<1>10. ASSUME NEW typed \in Lines, Gets(typed) PROVE TypeOK'
  BY <1>10 DEF Gets
<1>11. CASE CliFirst
  <2>1. copy \in Seq(Words) /\ copy # <<>>
    BY <1>11 DEF CliFirst
  <2>2. <<copy[1]>> \in Seq(Words)
    BY <2>1
  <2> QED BY <1>11, <2>2 DEF CliFirst, FirstToken
<1>12. CASE CliMore
  <2>1. next \in 1 .. Len(copy)
    BY <1>0, <1>12 DEF CliMore, MoreTokens
  <2>2. Append(tok, copy[next]) \in Seq(Words)
    BY <1>0, <2>1, AppendProperties
  <2> QED BY <1>12, <2>2 DEF CliMore, NextToken
<1>13. CASE Tokenized
  <2>1. /\ cli' = "lookup" /\ i' = 0 /\ moved' = FALSE
        /\ UNCHANGED <<strtok, tableVars, regVars, tok, line, shared>>
    BY <1>13 DEF Tokenized
  <2>2. 0 \in 0 .. CliMax
    BY <1>0
  <2> QED BY <1>19, <2>1, <2>2
<1>14. CASE LookNext
  BY <1>0, <1>14 DEF LookNext
<1>15. CASE Found
  <2>1. i < cnt /\ cli' = "call"
        /\ UNCHANGED <<strtok, tableVars, regVars, tok, line, i, answer, histVars>>
    BY <1>15 DEF Found
  <2>2. i < CliMax
    BY <1>0, <2>1
  <2> QED BY <1>19, <2>1, <2>2
<1>16. CASE Unknown \/ Call
  <2>1. <<>> \in Seq(Words)
    OBVIOUS
  <2>2. /\ cli' = "gets" /\ line' = <<>> /\ tok' = <<>> /\ i' = 0 /\ moved' = FALSE
        /\ UNCHANGED <<strtok, tableVars, regVars, shared>>
    <3>1. CASE Unknown
      BY <3>1 DEF Unknown, Answer
    <3>2. CASE Call
      BY <3>2 DEF Call, Answer
    <3> QED BY <1>16, <3>1, <3>2
  <2>3. 0 \in 0 .. CliMax
    BY <1>0
  <2> QED BY <1>19, <2>1, <2>2, <2>3
<1>17. CASE UNCHANGED cliVars
  BY <1>17 DEF cliVars
<1> QED BY <1>1, <1>2, <1>3, <1>4, <1>5, <1>6, <1>7, <1>8, <1>9, <1>18, <1>10, <1>11,
           <1>12, <1>13, <1>14, <1>15, <1>16, <1>17 DEF Next, Register, ProcessLine

-----------------------------------------------------------------------------
(***************************************************************************)
(* The table.                                                              *)
(***************************************************************************)
\* Only the registration touches the table.
LEMMA TableFrame ==
    ASSUME TableShape, UNCHANGED <<table, cnt, reg, idx, slot, sessions, running>>
    PROVE  TableShape'
BY DEF TableShape, TableFills, TableTurns, Is, Tokens, Place

LEMMA TableShapeStep ==
    ASSUME RoomForOneMore, TypeOK, TokensRead, TableShape, [Next]_cliVars
    PROVE  TableShape'
<1> USE DEF RegGoto
<1>0. /\ idx \in 1 .. 4 /\ Len(Commands) = 4 /\ sessions \in Nat /\ cnt \in Nat
      /\ CliMax \in Nat /\ CliMax > 4 /\ slot \in Nat
      /\ table \in [0 .. (CliMax - 1) -> Entry]
  BY CommandFacts DEF RoomForOneMore, TypeOK
<1>1. CASE RegStart
  <2>1. /\ reg = "idle" /\ reg' = "copy" /\ idx = 1 /\ idx' = 1
        /\ sessions' = sessions + 1 /\ table' = table /\ cnt' = cnt
    BY <1>1 DEF RegStart, TableShape
  <2>2. CASE sessions = 0
    BY <1>0, <2>1, <2>2 DEF TableShape, TableFills, TableTurns
  <2>3. CASE sessions > 0
    <3>1. cnt = 4 /\ \A k \in 0 .. 3 : Is(table[k], Place(1 + k + 0))
      BY <1>0, <2>1, <2>3 DEF TableShape, TableTurns
    <3>2. TableTurns'
      BY <1>0, <2>1, <3>1 DEF TableTurns
    <3> QED BY <1>0, <2>1, <2>3, <3>2 DEF TableShape, TableFills
  <2> QED BY <1>0, <2>2, <2>3
<1>2. CASE RegCopy \/ RegFirst \/ RegMore
  <2>1. /\ UNCHANGED <<table, cnt, idx, sessions>>
        /\ reg \in {"copy", "first", "more"} /\ reg' \in {"first", "more"}
    BY <1>2 DEF RegCopy, RegFirst, RegMore
  <2>2. TableFills'
    BY <2>1 DEF TableShape, TableFills
  <2>3. TableTurns'
    BY <2>1 DEF TableShape, TableTurns
  <2> QED BY <2>1, <2>2, <2>3 DEF TableShape
<1>3. CASE RegFill
  <2>1. /\ cnt < 5 /\ cnt \in 0 .. (CliMax - 1) /\ reg = "more" /\ sessions # 0
        /\ regTok = Commands[idx].ppTok
    <3>1. reg = "more"
      BY <1>3 DEF RegFill
    <3>2. sessions # 0
      BY <3>1 DEF TableShape
    <3>3. cnt < 5
      BY <1>0, <3>1, <3>2 DEF TableShape, TableFills, TableTurns
    <3> QED BY <1>0, <1>3, <3>1, <3>2, <3>3, RegRead
  <2>2. /\ reg' = "count" /\ UNCHANGED <<cnt, idx, slot, sessions>>
        /\ \A k \in 0 .. (CliMax - 1) : k # cnt => table'[k] = table[k]
        /\ table'[cnt] = [Commands[idx] EXCEPT !.ppTok = Overwrite(table[cnt].ppTok, regTok),
                                               !.tokCnt = Len(regTok)]
    <3> DEFINE Filled(k) == [Commands[idx] EXCEPT !.ppTok = Overwrite(table[k].ppTok, regTok),
                                                  !.tokCnt = Len(regTok)]
    <3>1. table' = [k \in DOMAIN table |-> IF k = cnt THEN Filled(k) ELSE table[k]]
      BY <1>3 DEF RegFill
    <3>2. reg' = "count" /\ UNCHANGED <<cnt, idx, slot, sessions>>
      <4>1. cnt < CliMax
        BY <1>0, <2>1
      <4>2. reg' = IF cnt < CliMax THEN "count" ELSE "overflow"
        BY <1>3 DEF RegFill
      <4>3. UNCHANGED <<cnt, idx, slot, sessions>>
        BY <1>3 DEF RegFill
      <4> QED BY <4>1, <4>2, <4>3
    <3> HIDE DEF Filled
    <3>3. /\ \A k \in 0 .. (CliMax - 1) : k # cnt => table'[k] = table[k]
          /\ table'[cnt] = Filled(cnt)
      BY <1>0, <2>1, <3>1
    <3> QED BY <3>2, <3>3 DEF Filled
  <2>3. Is(table'[cnt], idx)
    <3>1. table[cnt].ppTok \in Seq(Words)
      BY <1>0, <2>1 DEF Entry
    <3> QED BY <1>0, <2>1, <2>2, <3>1, FilledEntry
  <2>4. \A k \in 0 .. (cnt - 1) : table'[k] = table[k]
    BY <1>0, <2>1, <2>2
  <2>5. TableFills'
    BY <2>1, <2>2, <2>4 DEF TableShape, TableFills
  <2>6. TableTurns'
    BY <2>1, <2>2, <2>4 DEF TableShape, TableTurns
  <2> QED BY <2>1, <2>2, <2>3, <2>5, <2>6 DEF TableShape
<1>4. CASE RegCount
  <2>1. /\ reg = "count" /\ sessions # 0 /\ Is(table[cnt], idx)
        /\ cnt' = cnt + 1 /\ UNCHANGED <<table, idx, sessions>>
    BY <1>4 DEF RegCount, TableShape
  <2>2. CASE sessions = 1
    <3>1. reg' = "done"
      BY <1>4, <2>1, <2>2, CountPlace DEF RegCount
    <3>2. cnt = idx - 1 /\ \A k \in 0 .. (cnt - 1) : Is(table[k], k + 1)
      BY <2>1, <2>2 DEF TableShape, TableFills
    <3>3. TableFills'
      BY <1>0, <2>1, <3>1, <3>2 DEF TableFills
    <3> QED BY <2>1, <2>2, <3>1, <3>3 DEF TableShape, TableTurns
  <2>3. CASE sessions > 1
    <3>1. reg' = "shift" /\ slot' = 0
      BY <1>4, <2>1, <2>3, CountPlace DEF RegCount
    <3>2. cnt = 4 /\ \A k \in 0 .. 3 : Is(table[k], Place(idx + k + 0))
      BY <1>0, <2>1, <2>3 DEF TableShape, TableTurns
    <3>3. Place(idx + 4 + 0) = idx
      BY <1>0, PlaceFacts
    <3>4. \A k \in 0 .. 4 : Is(table[k], Place(idx + k + 0))
      BY <2>1, <3>2, <3>3
    <3>5. TableTurns'
      BY <1>0, <2>1, <3>1, <3>2, <3>4 DEF TableTurns
    <3> QED BY <1>0, <2>1, <2>3, <3>1, <3>5 DEF TableShape, TableFills
  <2> QED BY <1>0, <2>1, <2>2, <2>3
<1>5. CASE RegShift
  <2>1. /\ reg = "shift" /\ slot < cnt - 1 /\ reg' = reg /\ slot' = slot + 1
        /\ table' = [table EXCEPT ![slot] = table[slot + 1]]
        /\ UNCHANGED <<cnt, idx, sessions>>
    BY <1>5 DEF RegShift
  <2>2. /\ cnt = 5 /\ sessions > 1
        /\ \A k \in 0 .. 4 : Is(table[k], Place(idx + k + (IF k < slot THEN 1 ELSE 0)))
    BY <1>0, <2>1 DEF TableShape, TableFills, TableTurns
  <2>3. \A k \in 0 .. 4 : table'[k] = IF k = slot THEN table[slot + 1] ELSE table[k]
    BY <1>0, <2>1, <2>2
  <2>4. Is(table[slot + 1], Place(idx + slot + 1))
    <3>1. slot + 1 \in 0 .. 4 /\ ~(slot + 1 < slot) /\ idx + (slot + 1) + 0 = idx + slot + 1
      BY <1>0, <2>1, <2>2
    <3> QED BY <2>2, <3>1
  <2>5. \A k \in 0 .. 4 : Is(table'[k], Place(idx + k + (IF k < slot' THEN 1 ELSE 0)))
    <3>1. SUFFICES ASSUME NEW k \in 0 .. 4
                   PROVE  Is(table'[k], Place(idx + k + (IF k < slot' THEN 1 ELSE 0)))
      OBVIOUS
    <3>2. CASE k = slot
      BY <1>0, <2>1, <2>3, <2>4, <3>2
    <3>3. CASE k # slot
      <4>1. table'[k] = table[k] /\ (k < slot' <=> k < slot)
        BY <1>0, <2>1, <2>3, <3>3
      <4> QED BY <2>2, <4>1
    <3> QED BY <3>2, <3>3
  <2>6. TableTurns'
    BY <1>0, <2>1, <2>2, <2>5 DEF TableTurns
  <2> QED BY <2>1, <2>2, <2>6 DEF TableShape, TableFills
<1>6. CASE RegRemoved
  <2>1. /\ reg = "shift" /\ slot = cnt - 1 /\ reg' = "done" /\ cnt' = cnt - 1
        /\ UNCHANGED <<table, idx, sessions>>
    BY <1>6 DEF RegRemoved
  <2>2. /\ cnt = 5 /\ sessions > 1
        /\ \A k \in 0 .. 4 : Is(table[k], Place(idx + k + (IF k < slot THEN 1 ELSE 0)))
    BY <1>0, <2>1 DEF TableShape, TableFills, TableTurns
  <2>3. \A k \in 0 .. 3 : Is(table[k], Place(idx + k + 1))
    BY <1>0, <2>1, <2>2
  <2>4. TableTurns'
    BY <1>0, <2>1, <2>2, <2>3 DEF TableTurns
  <2> QED BY <2>1, <2>2, <2>4 DEF TableShape, TableFills
<1>7. CASE RegNext
  <2>1. /\ reg = "done" /\ UNCHANGED <<table, cnt, sessions>> /\ sessions # 0
        /\ IF idx < 4 THEN reg' = "copy" /\ idx' = idx + 1 ELSE reg' = "idle" /\ idx' = 1
    BY <1>0, <1>7 DEF RegNext, TableShape
  <2>2. CASE sessions = 1
    <3>1. cnt = idx /\ \A k \in 0 .. (cnt - 1) : Is(table[k], k + 1)
      BY <2>1, <2>2 DEF TableShape, TableFills
    <3>2. CASE idx < 4
      <4>1. TableFills'
        BY <1>0, <2>1, <3>1, <3>2 DEF TableFills
      <4> QED BY <2>1, <2>2, <3>2, <4>1 DEF TableShape, TableTurns
    <3>3. CASE idx = 4
      <4>1. \A k \in 0 .. 3 : Place(1 + k + 0) = k + 1
        BY PlaceFacts
      <4>2. TableTurns'
        BY <1>0, <2>1, <3>1, <3>3, <4>1 DEF TableTurns
      <4> QED BY <2>1, <2>2, <3>3, <4>2 DEF TableShape, TableFills
    <3> QED BY <1>0, <3>2, <3>3
  <2>3. CASE sessions > 1
    <3>1. cnt = 4 /\ \A k \in 0 .. 3 : Is(table[k], Place(idx + k + 1))
      BY <1>0, <2>1, <2>3 DEF TableShape, TableTurns
    <3>2. \A k \in 0 .. 3 : Place(idx' + k + 0) = Place(idx + k + 1)
      BY <1>0, <2>1 DEF Place
    <3>3. \A k \in 0 .. 3 : Is(table[k], Place(idx' + k + 0))
      BY <3>1, <3>2
    <3>4. TableTurns'
      BY <1>0, <2>1, <3>1, <3>3 DEF TableTurns
    <3> QED BY <1>0, <2>1, <2>3, <3>4 DEF TableShape, TableFills
  <2> QED BY <1>0, <2>1, <2>2, <2>3
<1>8. CASE SessionEnd
  <2>1. /\ UNCHANGED <<table, cnt, reg, idx, slot, sessions>> /\ running /\ ~running'
    BY <1>8 DEF SessionEnd
  <2>2. sessions > 0 /\ TableFills' /\ TableTurns'
    BY <2>1 DEF TableShape, TableFills, TableTurns
  <2> QED BY <2>1, <2>2 DEF TableShape
<1>9. CASE ProcessLine \/ UNCHANGED cliVars
  <2>1. UNCHANGED <<table, cnt, reg, idx, slot, sessions, running>>
    BY <1>9 DEF ProcessLine, Gets, CliFirst, CliMore, Tokenized, LookNext, Found, Unknown,
       Answer, Call, cliVars
  <2> QED BY <2>1, TableFrame
<1> QED BY <1>1, <1>2, <1>3, <1>4, <1>5, <1>6, <1>7, <1>8, <1>9 DEF Next, Register

\* When the registrations are through the table holds each command, in its place.
LEMMA TableWhenIdle ==
    ASSUME TableShape, reg = "idle", sessions \in Nat, sessions # 0
    PROVE  cnt = 4 /\ \A k \in 0 .. 3 : Is(table[k], k + 1)
<1>1. idx = 1 /\ Len(Commands) = 4
  BY CommandFacts DEF TableShape
<1>2. cnt = 4 /\ \A k \in 0 .. 3 : Is(table[k], Place(1 + k + 0))
  BY <1>1 DEF TableShape, TableTurns
<1>3. \A k \in 0 .. 3 : Place(1 + k + 0) = k + 1
  BY PlaceFacts
<1> QED BY <1>2, <1>3

\* At any time every entry of the table is a command.
LEMMA EntriesAreCommands ==
    ASSUME TypeOK, TableShape, NEW k \in 0 .. (cnt - 1)
    PROVE  \E n \in 1 .. 4 : Is(table[k], n)
<1>0. idx \in 1 .. 4 /\ Len(Commands) = 4 /\ sessions \in Nat /\ cnt \in Nat /\ sessions # 0
  BY CommandFacts DEF TypeOK, TableShape
<1>1. CASE sessions = 1 /\ reg # "idle"
  <2>1. cnt <= idx /\ Is(table[k], k + 1)
    BY <1>0, <1>1 DEF TableShape, TableFills
  <2>2. k + 1 \in 1 .. 4
    BY <1>0, <2>1
  <2> QED BY <2>1, <2>2
<1>2. CASE ~(sessions = 1 /\ reg # "idle")
  <2> DEFINE up == reg = "done" \/ (reg = "shift" /\ k < slot)
             m  == idx + k + (IF up THEN 1 ELSE 0)
  <2>1. /\ cnt = IF reg = "shift" THEN 5 ELSE 4
        /\ reg = "shift" => slot < cnt
        /\ Is(table[k], Place(m))
    BY <1>0, <1>2 DEF TableShape, TableTurns
  <2>2. m \in 1 .. 8
    <3>1. k \in 0 .. 4 /\ (up => k \in 0 .. 3)
      BY <1>0, <2>1 DEF TypeOK
    <3> HIDE DEF up
    <3> QED BY <1>0, <3>1
  <2> HIDE DEF m
  <2> QED BY <2>1, <2>2, PlaceFacts
<1> QED BY <1>1, <1>2

\* While a session runs each command registered so far is somewhere in the table.
LEMMA RegisteredAreThere ==
    ASSUME TypeOK, TableShape, running, NEW n \in Registered
    PROVE  n \in 1 .. 4 /\ \E k \in 0 .. (cnt - 1) : Is(table[k], n)
<1>0. idx \in 1 .. 4 /\ Len(Commands) = 4 /\ sessions \in Nat /\ cnt \in Nat /\ sessions # 0
  BY CommandFacts DEF TypeOK, TableShape
<1>1. n \in 1 .. 4
  BY <1>0, CommandFacts DEF Registered
<1>2. CASE sessions = 1 /\ reg # "idle"
  <2>1. n \in 1 .. (idx - 1) /\ cnt >= idx - 1
    BY <1>0, <1>2 DEF Registered, TableShape, TableFills
  <2>2. n - 1 \in 0 .. (cnt - 1) /\ (n - 1) + 1 = n
    BY <1>0, <2>1
  <2>3. \A k \in 0 .. (cnt - 1) : Is(table[k], k + 1)
    BY <1>2 DEF TableShape, TableFills
  <2>4. Is(table[n - 1], n)
    BY <2>2, <2>3
  <2> QED BY <1>1, <2>2, <2>4
<1>3. CASE ~(sessions = 1 /\ reg # "idle")
  <2> DEFINE up(k) == reg = "done" \/ (reg = "shift" /\ k < slot)
             m(k)  == idx + k + (IF up(k) THEN 1 ELSE 0)
  <2>1. /\ cnt = IF reg = "shift" THEN 5 ELSE 4
        /\ reg = "shift" => slot < cnt
        /\ \A k \in 0 .. (cnt - 1) : Is(table[k], Place(m(k)))
    BY <1>0, <1>3 DEF TableShape, TableTurns
  <2>2. \E k \in 0 .. (cnt - 1) : Place(m(k)) = n
    <3> DEFINE r == IF n >= idx THEN n - idx ELSE n - idx + 4
    <3>1. r \in 0 .. 3 /\ slot \in Nat
      BY <1>0, <1>1 DEF TypeOK
    <3>2. Place(idx + r) = n /\ Place(idx + r + 0) = n /\ (r = 0 => Place(idx + 4) = n)
      BY <1>0, <1>1 DEF Place
    <3> HIDE DEF r
    <3>3. CASE ~up(r)
      <4>1. m(r) = idx + r /\ r \in 0 .. (cnt - 1)
        BY <1>0, <2>1, <3>1, <3>3
      <4> QED BY <3>2, <4>1
    <3>4. CASE up(r) /\ r # 0
      <4>1. r - 1 \in 0 .. (cnt - 1) /\ up(r - 1)
        BY <2>1, <3>1, <3>4
      <4>2. m(r - 1) = idx + r
        BY <1>0, <3>1, <4>1
      <4> QED BY <3>2, <4>1, <4>2
    <3>5. CASE up(r) /\ r = 0 /\ reg = "done"
      <4>1. 3 \in 0 .. (cnt - 1) /\ up(3) /\ m(3) = idx + 4
        BY <1>0, <2>1, <3>5
      <4> QED BY <3>2, <3>5, <4>1
    <3>6. CASE up(r) /\ r = 0 /\ reg = "shift"
      <4>1. 4 \in 0 .. (cnt - 1) /\ ~up(4) /\ m(4) = idx + 4
        BY <1>0, <2>1, <3>1, <3>6
      <4> QED BY <3>2, <3>6, <4>1
    <3> QED BY <3>3, <3>4, <3>5, <3>6
  <2> HIDE DEF m
  <2> QED BY <1>1, <2>1, <2>2
<1> QED BY <1>2, <1>3

\* An entry matches a line that begins with its command.
LEMMA MatchesFacts ==
    ASSUME NEW n \in 1 .. 4, NEW e, Is(e, n)
    PROVE  Matches(e) <=> IsPrefix(Commands[n].ppTok, tok)
<1>1. e.tokCnt > 0 /\ Tokens(e) = Commands[n].ppTok
  BY CommandFacts DEF Is
<1> QED BY <1>1 DEF Matches

-----------------------------------------------------------------------------
(***************************************************************************)
(* The lookup.                                                             *)
(***************************************************************************)
LEMMA LookupShapeStep ==
    ASSUME TypeOK, TableShape, ~moved => LookupShape, [Next]_cliVars, ~moved'
    PROVE  LookupShape'
<1> USE DEF CliGoto, RegGoto
<1>0. /\ i \in Nat /\ cnt \in Nat /\ sessions \in Nat /\ CliMax \in Nat /\ slot \in Nat
      /\ table \in [0 .. (CliMax - 1) -> Entry] /\ cnt <= CliMax /\ idx \in 1 .. 4
  BY CommandFacts DEF TypeOK
<1>1. CASE cli' \notin {"lookup", "call"}
  BY <1>1 DEF LookupShape
<1>2. CASE RegStart \/ RegCopy \/ RegFirst \/ RegMore \/ RegNext \/ SessionEnd
  <2>1. /\ UNCHANGED <<table, cnt, cli, i, tok, moved>>
        /\ sessions > 1 => sessions' > 1
    BY <1>0, <1>2 DEF RegStart, RegCopy, RegFirst, RegMore, RegNext, SessionEnd
  <2> QED BY <2>1 DEF LookupShape, Matches
<1>3. CASE RegFill /\ cli' \in {"lookup", "call"}
  <2>1. /\ UNCHANGED <<cnt, cli, i, tok, moved, sessions>>
        /\ \A k \in 0 .. (CliMax - 1) : k # cnt => table'[k] = table[k]
    BY <1>0, <1>3 DEF RegFill
  <2>2. LookupShape
    BY <2>1
  <2>3. \A k \in 0 .. (cnt - 1) : Matches(table[k])' <=> Matches(table[k])
    <3>1. \A k \in 0 .. (cnt - 1) : table'[k] = table[k]
      BY <1>0, <2>1
    <3> QED BY <2>1, <3>1 DEF Matches
  <2>4. \A k \in 0 .. (i - 1) : k < cnt => ~Matches(table[k])'
    BY <1>0, <1>3, <2>1, <2>2, <2>3 DEF LookupShape
  <2>5. cli = "call" => i < cnt /\ Matches(table[i])'
    BY <1>0, <2>2, <2>3 DEF LookupShape
  <2> QED BY <2>1, <2>2, <2>4, <2>5 DEF LookupShape
<1>4. CASE RegCount /\ cli' \in {"lookup", "call"}
  <2>1. /\ cnt' = cnt + 1 /\ UNCHANGED <<table, cli, i, tok, moved, sessions>>
        /\ reg = "count" /\ Is(table[cnt], idx)
    BY <1>4 DEF RegCount, TableShape
  <2>2. LookupShape
    BY <2>1
  <2>3. ASSUME i > cnt PROVE ~Matches(table[cnt])
    <3>1. cli = "lookup" /\ sessions > 1
      BY <1>0, <1>4, <2>1, <2>2, <2>3 DEF LookupShape
    <3>2. cnt = 4 /\ Is(table[0], Place(idx + 0 + 0))
      BY <1>0, <2>1, <3>1, CommandFacts DEF TableShape, TableTurns
    <3>3. Is(table[0], idx)
      BY <1>0, <3>2, PlaceFacts
    <3>4. ~Matches(table[0])
      BY <1>0, <2>2, <2>3, <3>1, <3>2 DEF LookupShape
    <3> QED BY <1>0, <2>1, <3>3, <3>4, MatchesFacts
  <2>4. \A k \in 0 .. (i - 1) : k < cnt' => ~Matches(table[k])
    <3>1. SUFFICES ASSUME NEW k \in 0 .. (i - 1), k < cnt + 1 PROVE ~Matches(table[k])
      BY <2>1
    <3>2. CASE k < cnt
      BY <1>4, <2>1, <2>2, <3>2 DEF LookupShape
    <3>3. CASE k = cnt
      BY <1>0, <2>3, <3>3
    <3> QED BY <1>0, <3>1, <3>2, <3>3
  <2>5. cli = "lookup" /\ i > cnt' => sessions > 1
    BY <1>0, <2>1, <2>2 DEF LookupShape
  <2>6. cli = "call" => i < cnt' /\ Matches(table[i])
    BY <1>0, <2>1, <2>2 DEF LookupShape
  <2> QED BY <2>1, <2>4, <2>5, <2>6 DEF LookupShape, Matches
<1>5. CASE RegShift /\ cli' \in {"lookup", "call"}
  BY <1>5 DEF RegShift
<1>6. CASE RegRemoved /\ cli' \in {"lookup", "call"}
  <2>1. /\ cnt' = cnt - 1 /\ UNCHANGED <<table, cli, i, tok, moved, sessions>>
        /\ reg = "shift" /\ slot = cnt - 1
    BY <1>6 DEF RegRemoved
  <2>2. LookupShape
    BY <2>1
  <2>3. sessions > 1 /\ cnt = 5
    BY <1>0, <2>1, CommandFacts DEF TableShape, TableFills, TableTurns
  <2>4. Is(table[3], Place(idx + 4)) /\ Is(table[4], Place(idx + 4))
    <3>1. \A k \in 0 .. 4 : Is(table[k], Place(idx + k + (IF k < slot THEN 1 ELSE 0)))
      BY <1>0, <2>1, <2>3 DEF TableShape, TableTurns
    <3>2. Is(table[3], Place(idx + 3 + 1)) /\ Is(table[4], Place(idx + 4 + 0))
      BY <2>1, <2>3, <3>1
    <3>3. idx + 3 + 1 = idx + 4 /\ idx + 4 + 0 = idx + 4
      BY <1>0
    <3> QED BY <3>2, <3>3
  <2>5. Matches(table[3]) <=> Matches(table[4])
    <3>1. Place(idx + 4) \in 1 .. 4
      BY <1>0, PlaceFacts
    <3> QED BY <2>4, <3>1, MatchesFacts
  <2>6. cli = "call" => i < cnt' /\ Matches(table[i])
    <3>1. SUFFICES ASSUME cli = "call" PROVE i < cnt' /\ Matches(table[i])
      OBVIOUS
    <3>2. /\ i < 5 /\ Matches(table[i])
          /\ \A k \in 0 .. (i - 1) : k < 5 => ~Matches(table[k])
      BY <2>2, <2>3, <3>1 DEF LookupShape
    <3>3. i # 4
      <4>1. SUFFICES ASSUME i = 4 PROVE FALSE
        OBVIOUS
      <4>2. ~Matches(table[3]) /\ Matches(table[4])
        BY <3>2, <4>1
      <4> QED BY <2>5, <4>2
    <3> QED BY <1>0, <2>1, <2>3, <3>2, <3>3
  <2>7. \A k \in 0 .. (i - 1) : k < cnt' => ~Matches(table[k])
    BY <1>0, <1>6, <2>1, <2>2 DEF LookupShape
  <2> QED BY <2>1, <2>3, <2>6, <2>7 DEF LookupShape, Matches
<1>7. CASE Tokenized
  BY <1>0, <1>7 DEF Tokenized, LookupShape
<1>8. CASE LookNext
  <2>1. /\ cli = "lookup" /\ cli' = "lookup" /\ i' = i + 1
        /\ UNCHANGED <<table, cnt, tok, moved, sessions>>
        /\ ~Matches(table[i]) /\ i < cnt
    BY <1>8 DEF LookNext
  <2>2. LookupShape
    BY <2>1
  <2>3. \A k \in 0 .. (i' - 1) : k < cnt => ~Matches(table[k])
    BY <1>0, <2>1, <2>2 DEF LookupShape
  <2> QED BY <1>0, <2>1, <2>3 DEF LookupShape, Matches
<1>9. CASE Found
  BY <1>9 DEF Found, LookupShape, Matches
<1>10. CASE (\E typed \in Lines : Gets(typed)) \/ CliFirst \/ CliMore \/ Unknown \/ Call
  <2>1. cli' \notin {"lookup", "call"}
    BY <1>10 DEF Gets, CliFirst, CliMore, Unknown, Call
  <2> QED BY <1>1, <2>1
<1>11. CASE UNCHANGED cliVars
  BY <1>11 DEF cliVars, LookupShape, Matches
<1> QED BY <1>1, <1>2, <1>3, <1>4, <1>5, <1>6, <1>7, <1>8, <1>9, <1>10, <1>11
        DEF Next, Register, ProcessLine

-----------------------------------------------------------------------------
(***************************************************************************)
(* The theorems.                                                           *)
(***************************************************************************)
\* The inductive invariant of the command line.
THEOREM CliInvariant ==
    ASSUME RoomForOneMore
    PROVE  Spec => []CliInv
<1>1. Init => CliInv
  <2> SUFFICES ASSUME Init PROVE CliInv
    OBVIOUS
  <2> USE DEF Init
  <2>1. TypeOK
    <3>1. <<>> \in Seq(Words) /\ Len(<<>>) <= 3
      OBVIOUS
    <3>2. Empty \in Entry
      BY <3>1 DEF Empty, Entry
    <3>3. table \in [0 .. (CliMax - 1) -> Entry] /\ idx \in DOMAIN Commands
      BY <3>2, CommandFacts
    <3> QED BY <3>1, <3>3 DEF TypeOK
  <2>2. TakeTurns /\ TokensRead /\ LookupShape
    BY DEF TakeTurns, InTokenizer, TokensRead, LookupShape
  <2>3. TableShape
    BY DEF TableShape, TableFills, TableTurns
  <2> QED BY <2>1, <2>2, <2>3 DEF CliInv
<1>2. CliInv /\ [Next]_cliVars => CliInv'
  <2> SUFFICES ASSUME CliInv, [Next]_cliVars PROVE CliInv'
    OBVIOUS
  <2>1. TypeOK /\ TypeOK'
    BY TypeStep DEF CliInv
  <2>2. ASSUME ~shared'
        PROVE  /\ (TakeTurns /\ TokensRead /\ TableShape)'
               /\ ~moved' => LookupShape'
    <3>1. ~shared /\ TakeTurns /\ TokensRead /\ TableShape /\ (~moved => LookupShape)
      BY <2>1, <2>2, SharedStep DEF CliInv
    <3> QED BY <2>1, <2>2, <3>1, TakeTurnsStep, TokensReadStep, TableShapeStep,
            LookupShapeStep
  <2> QED BY <2>1, <2>2 DEF CliInv
<1> QED BY <1>1, <1>2, PTL DEF Spec

\* The table never overflows, unless the tokenizer has been shared: there is always
\* room for the command that replaces one.
THEOREM TableBounded ==
    ASSUME RoomForOneMore
    PROVE  Spec => []TableFits
<1>1. CliInv => TableFits
  BY DEF CliInv, TableShape, TableFits
<1> QED BY <1>1, CliInvariant, PTL

\* While a session lasts every command is in the table, once, unless the tokenizer has
\* been shared.
THEOREM TableHoldsAll ==
    ASSUME RoomForOneMore
    PROVE  Spec => []TableComplete
<1>1. CliInv => TableComplete
  <2> SUFFICES ASSUME CliInv, ~shared, running, reg = "idle"
               PROVE  /\ cnt = Len(Commands)
                      /\ \A n \in DOMAIN Commands : \E k \in 0 .. (cnt - 1) :
                           table[k].cb = Commands[n].cb /\ Tokens(table[k]) = Commands[n].ppTok
    BY DEF TableComplete
  <2>1. cnt = 4 /\ \A k \in 0 .. 3 : Is(table[k], k + 1)
    <3>1. sessions \in Nat /\ sessions # 0 /\ TableShape
      BY DEF CliInv, TypeOK, TableShape
    <3> QED BY <3>1, TableWhenIdle
  <2>2. ASSUME NEW n \in 1 .. 4
        PROVE  /\ n - 1 \in 0 .. 3
               /\ table[n - 1].cb = Commands[n].cb
               /\ Tokens(table[n - 1]) = Commands[n].ppTok
    <3>1. n - 1 \in 0 .. 3 /\ (n - 1) + 1 = n
      OBVIOUS
    <3> QED BY <2>1, <3>1 DEF Is
  <2> QED BY <2>1, <2>2, CommandFacts
<1> QED BY <1>1, CliInvariant, PTL

\* What a line does when it is answered.
LEMMA AnswerStep ==
    ASSUME [Next]_cliVars, answer' # answer, answer'.cb # "none"
    PROVE  Unknown \/ Call
<1>1. ASSUME NEW typed \in Lines, Gets(typed) PROVE FALSE
  <2>1. answer' = [cb |-> "none", argc |-> 0]
    BY <1>1 DEF Gets, NoAnswer
  <2>2. answer'.cb = "none"
    BY <2>1
  <2> QED BY <2>2
<1>2. ~(CliFirst \/ CliMore \/ Tokenized \/ LookNext \/ Found)
  BY DEF CliFirst, CliMore, Tokenized, LookNext, Found
<1>3. ~(Register \/ UNCHANGED cliVars)
  BY DEF Register, RegStart, RegCopy, RegFirst, RegMore, RegFill, RegCount, RegShift,
     RegRemoved, RegNext, SessionEnd, cliVars
<1> QED BY <1>1, <1>2, <1>3 DEF Next, ProcessLine

LEMMA CallsCommand ==
    ASSUME CliInv, ~shared, ~moved, Call
    PROVE  \E n \in 1 .. 4 : Is(table[i], n) /\ Matches(table[i])
<1>1. TypeOK /\ TableShape /\ i \in 0 .. (cnt - 1) /\ Matches(table[i])
  BY DEF CliInv, TypeOK, LookupShape, Call, CliGoto
<1> QED BY <1>1, EntriesAreCommands

\* A callback runs for a line that begins with its command, with the arguments behind,
\* unless the tokenizer has been shared or entries have moved under the lookup.
THEOREM CallIsTyped ==
    ASSUME RoomForOneMore
    PROVE  Spec => CalledIsTyped
<1> DEFINE Typed == \A n \in DOMAIN Commands :
                       answer'.cb = Commands[n].cb =>
                           /\ IsPrefix(Commands[n].ppTok, line)
                           /\ answer'.argc = Len(Read(line)) - Commands[n].tokCnt
<1>1. ASSUME CliInv, [Next]_cliVars, ~shared, ~moved, answer' # answer
      PROVE  Typed
  <2>1. CASE answer'.cb \notin {Commands[n].cb : n \in DOMAIN Commands}
    BY <2>1
  <2>2. CASE Call /\ ~(Argc < table[i].min)
    <3>1. PICK m \in 1 .. 4 : Is(table[i], m) /\ Matches(table[i])
      BY <1>1, <2>2, CallsCommand
    <3>2. tok = Read(line) /\ line \in Seq(Words)
      BY <1>1, <2>2 DEF CliInv, TokensRead, Call, CliGoto
    <3>3. /\ table[i].cb = Commands[m].cb /\ table[i].tokCnt = Commands[m].tokCnt
          /\ table[i].tokCnt \in 2 .. 3 /\ Commands[m].ppTok \in Seq(Words)
          /\ Len(Commands[m].ppTok) = table[i].tokCnt
      BY <3>1, CommandFacts DEF Is
    <3>4. IsPrefix(Commands[m].ppTok, tok)
      BY <3>1, MatchesFacts
    <3>5. IsPrefix(Commands[m].ppTok, line)
      BY <3>2, <3>3, <3>4, ReadPrefix
    <3>6. table[i].tokCnt <= Len(tok) /\ Len(tok) \in 0 .. 16
      <4>1. Len(Commands[m].ppTok) <= Len(tok)
        BY <3>4 DEF IsPrefix
      <4>2. Len(tok) = (IF Len(line) < 16 THEN Len(line) ELSE 16) /\ Len(line) \in Nat
        BY <3>2, ReadFacts
      <4>3. \A l \in Nat : (IF l < 16 THEN l ELSE 16) \in 0 .. 16
        OBVIOUS
      <4>4. Len(tok) \in 0 .. 16
        BY <4>2, <4>3
      <4> QED BY <3>3, <4>1, <4>4
    <3>7. Argc = Len(tok) - table[i].tokCnt
      <4>1. \A a \in 0 .. 255 : a % 256 = a
        OBVIOUS
      <4>2. \A a \in 0 .. 16, b \in 2 .. 3 : b <= a => a - b \in 0 .. 255
        OBVIOUS
      <4>3. Len(tok) - table[i].tokCnt \in 0 .. 255
        BY <3>3, <3>6, <4>2
      <4> QED BY <4>1, <4>3 DEF Argc
    <3>8. answer'.cb = table[i].cb /\ answer'.argc = Argc
      <4>1. answer' = [cb |-> table[i].cb, argc |-> Argc]
        BY <2>2 DEF Call, Answer
      <4> QED BY <4>1
    <3>9. \A n \in DOMAIN Commands : answer'.cb = Commands[n].cb => n = m
      BY <3>1, <3>3, <3>8, CommandFacts, CallbacksDiffer
    <3>10. answer'.argc = Len(Read(line)) - Commands[m].tokCnt
      BY <3>2, <3>3, <3>7, <3>8
    <3> QED BY <3>5, <3>9, <3>10
  <2>3. CASE Unknown
    <3>1. answer'.cb = "unknown"
      BY <2>3 DEF Unknown, Answer
    <3> QED BY <2>1, <3>1, CommandFacts
  <2>4. CASE Call /\ Argc < table[i].min
    <3>1. answer'.cb = "insufficient"
      BY <2>4 DEF Call, Answer
    <3> QED BY <2>1, <3>1, CommandFacts
  <2>5. CASE answer'.cb = "none"
    BY <2>1, <2>5, CommandFacts
  <2> QED BY <1>1, <2>2, <2>3, <2>4, <2>5, AnswerStep
<1>2. CliInv /\ [Next]_cliVars => [~shared /\ ~moved /\ answer' # answer => Typed]_cliVars
  BY <1>1
<1> QED BY <1>2, CliInvariant, PTL DEF Spec, CalledIsTyped

\* While a session runs, a line that begins with a registered command is never unknown,
\* unless the tokenizer has been shared or entries have moved under the lookup.
THEOREM CommandsAreFound ==
    ASSUME RoomForOneMore
    PROVE  Spec => KnownIsFound
<1>1. ASSUME CliInv, [Next]_cliVars, ~shared, ~moved, running, answer' # answer,
             answer'.cb = "unknown", NEW n \in Registered
      PROVE  ~IsPrefix(Commands[n].ppTok, line)
  <2>1. ~Call
    <3> SUFFICES ASSUME Call PROVE FALSE
      OBVIOUS
    <3>1. PICK m \in 1 .. 4 : Is(table[i], m)
      BY <1>1, CallsCommand
    <3>2. table[i].cb # "unknown"
      BY <3>1, CommandFacts DEF Is
    <3>3. answer' = [cb |-> "insufficient", argc |-> Argc]
            \/ answer' = [cb |-> table[i].cb, argc |-> Argc]
      BY DEF Call, Answer
    <3>4. answer'.cb = "insufficient" \/ answer'.cb = table[i].cb
      BY <3>3
    <3> QED BY <1>1, <3>2, <3>4
  <2>2. Unknown
    BY <1>1, <2>1, AnswerStep
  <2>3. /\ TypeOK /\ TableShape /\ i >= cnt /\ i \in Nat /\ cnt \in Nat /\ tok = Read(line)
        /\ line \in Seq(Words) /\ \A k \in 0 .. (i - 1) : k < cnt => ~Matches(table[k])
    BY <1>1, <2>2 DEF Unknown, CliGoto, CliInv, TypeOK, LookupShape, TokensRead
  <2>4. n \in 1 .. 4 /\ \E k \in 0 .. (cnt - 1) : Is(table[k], n)
    BY <1>1, <2>3, RegisteredAreThere
  <2>5. PICK k \in 0 .. (cnt - 1) : Is(table[k], n)
    BY <2>4
  <2>6. ~Matches(table[k])
    BY <2>3, <2>5
  <2>7. ~IsPrefix(Commands[n].ppTok, Read(line))
    BY <2>3, <2>4, <2>5, <2>6, MatchesFacts
  <2> QED BY <2>3, <2>4, <2>7, ReadPrefix, CommandFacts
<1>2. CliInv /\ [Next]_cliVars
      => [ ~shared /\ ~moved /\ running /\ answer' # answer /\ answer'.cb = "unknown"
             => \A n \in Registered : ~IsPrefix(Commands[n].ppTok, line) ]_cliVars
  BY <1>1
<1> QED BY <1>2, CliInvariant, PTL DEF Spec, KnownIsFound
=============================================================================
