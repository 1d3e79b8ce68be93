------------------------------ MODULE Splitter ------------------------------
(***************************************************************************)
(* Splitter.Run (splitter.go): the lexer reads a dump in chunks of the     *)
(* sizes the reader happens to return and hands statements to a callback.  *)
(* No look-ahead of the lexer reaches past the chunk it is in.             *)
(***************************************************************************)
EXTENDS Lexer

CONSTANTS
  Inputs,      \* sets of dumps, each with the sizes a read may return
  MaxFaults    \* bound on failing reads, 0 or 1: the first ends the run

ASSUME InputsAssumption ==
  /\ \A in \in Inputs : /\ \A d \in in.dumps : d \in Seq(Range(d))
                        /\ in.sizes \subseteq Nat \ {0} /\ in.sizes # {}
  /\ MaxFaults \in {0, 1}

VARIABLES
  data,   \* the dump
  sizes,  \* how much a read may return when there is more
  l,      \* the lexer
  upto,   \* the end of the chunk it is in
  ended   \* "no", "eof", or "error": what Run returned

vars == <<data, sizes, l, upto, ended>>

(* What a statement or a delimiter may consist of. *)
Symbols == Range(data) \cup {";"}

Init ==
  /\ \E in \in Inputs : data \in in.dumps /\ sizes = in.sizes
  /\ l = NewLexer(1, DefaultSplitterConfig)
  /\ upto = 0
  /\ ended = "no"

ChunkConsumed == l.i > upto
Running == ended = "no"

(* reader.Read returns n > 0 bytes. *)
Read ==
  /\ Running /\ ChunkConsumed /\ upto < Len(data)
  /\ \E n \in sizes :
       upto' = IF upto + n < Len(data) THEN upto + n ELSE Len(data)
  /\ UNCHANGED <<data, sizes, l, ended>>

(* One round of feed's loop in state st. *)
FeedIn(st) ==
  /\ Running /\ ~ChunkConsumed
  /\ l.st = st
  /\ l' = Feed(data, l, upto)
  /\ UNCHANGED <<data, sizes, upto, ended>>

(* io.EOF: what is left is a last statement. *)
Eof ==
  /\ Running /\ ChunkConsumed /\ upto = Len(data)
  /\ l' = AtEOF(l)
  /\ ended' = "eof"
  /\ UNCHANGED <<data, sizes, upto>>

(* Any other error: what is left is dropped. *)
ReadFails ==
  /\ Running /\ ChunkConsumed
  /\ MaxFaults = 1
  /\ ended' = "error"
  /\ UNCHANGED <<data, sizes, l, upto>>

Next == Read \/ (\E st \in LexStates : FeedIn(st)) \/ Eof \/ ReadFails
Spec == Init /\ [][Next]_vars
------------------------------------------------------------------------------
(* A reference definition of where statements end, from the grammar of the *)
(* tokens instead of the lexer's states.                                   *)

(* t is a string or an identifier quoted by q: between the quotes stand    *)
(* plain symbols, doubled quotes and, if esc, escaped symbols.             *)
Quoted(t, q, esc) ==
  LET n == Len(t)
      units[k \in 1..n] ==
        \/ k = 1
        \/ /\ t[k] # q /\ (t[k] # "\\" \/ ~esc)
           /\ units[k - 1]
        \/ /\ k > 2
           /\ (t[k - 1] = q /\ t[k] = q) \/ (t[k - 1] = "\\" /\ esc)
           /\ units[k - 2]
  IN  n > 1 /\ t[1] = q /\ t[n] = q /\ units[n - 1]

LineCommentToken(t) ==
  /\ IsComment(t) /\ t[Len(t)] = "\n"
  /\ \A k \in 1..(Len(t) - 1) : t[k] # "\n"

(* As in the code, one "*" may both open and close a comment. *)
BlockCommentToken(t) ==
  LET closes(k) == t[k - 1] = "*" /\ t[k] = "/"
  IN  /\ Len(t) > 2 /\ t[1] = "/" /\ t[2] = "*"
      /\ \A k \in 3..Len(t) : closes(k) <=> k = Len(t)

(* The symbol at k opens nothing. *)
PlainToken(s, k) ==
  LET next == IF k < Len(s) THEN s[k + 1] ELSE "none"
  IN  /\ s[k] \notin {"'", "\"", "bq", "#"}
      /\ ~(s[k] = "-" /\ next = "-")
      /\ ~(s[k] = "/" /\ next = "*")

Token(s, j, k, m) ==
  LET t == SubSeq(s, j + 1, k)
  IN  \/ Quoted(t, "'", ~m.nobs)
      \/ Quoted(t, "\"", ~m.nobs /\ ~m.ansi)
      \/ Quoted(t, "bq", FALSE)
      \/ LineCommentToken(t) \/ BlockCommentToken(t)
      \/ k = j + 1 /\ PlainToken(s, k)

(* After s[1..k] one is between two tokens. *)
BetweenTokens(s, m) ==
  LET between[k \in 0..Len(s)] ==
        k = 0 \/ \E j \in 0..(k - 1) : between[j] /\ Token(s, j, k, m)
  IN  {k \in 0..Len(s) : between[k]}

(* The positions in the dump of the text of lexer x's k-th statement, and  *)
(* of its buffer.                                                          *)
TextEnd(x, k) == x.out[k].next - Len(x.out[k].delim) - 1
TextStart(x, k) == TextEnd(x, k) - Len(x.out[k].text) + 1
BufStart(x) == x.i - Len(x.buf)

(* Where a dump read from position from goes on after the first k          *)
(* statements, and what may lie between there and the next text: nothing,  *)
(* or a DELIMITER command.                                                 *)
After(from, x, k) == IF k = 0 THEN from ELSE x.out[k].next
Skipped(d, a, b) ==
  /\ a <= b
  /\ a < b => \E j \in a..(b - 1) : d[j] = "DELIMITER"

(* What x holds and has handed on are slices of d, one after the other.    *)
StatementSliced(d, from, x, k) ==
  /\ x.out[k].text = SubSeq(d, TextStart(x, k), TextEnd(x, k))
  /\ x.out[k].delim = SubSeq(d, TextEnd(x, k) + 1, x.out[k].next - 1)
  /\ Skipped(d, After(from, x, k - 1), TextStart(x, k))
  /\ After(from, x, k - 1) < x.out[k].next
  /\ x.out[k].next <= x.i
Sliced(d, from, x) ==
  /\ x.buf = SubSeq(d, BufStart(x), x.i - 1)
  /\ Skipped(d, After(from, x, Len(x.out)), BufStart(x))
  /\ \A k \in DOMAIN x.out : StatementSliced(d, from, x, k)

(* The mode in which the k-th statement of out was read, and whether that  *)
(* statement ends at the first delimiter between two tokens.               *)
ModeBefore(out, k) == IF k = 1 THEN DefaultSplitterConfig ELSE out[k - 1].mode
EndsAtFirst(out, k) ==
  LET o == out[k]
      s == o.text \o o.delim
      between == BetweenTokens(s, ModeBefore(out, k))
  IN  o.delim # <<>> =>
        /\ Len(o.text) \in between
        /\ \A p \in between :
             p < Len(o.text) => ~IsPrefix(o.delim, SubSeq(s, p + 1, Len(s)))
------------------------------------------------------------------------------
(* Properties *)

(* The lexer and its driver have their types: the lexer makes up no symbol, *)
(* a delimiter is never empty, and nothing is read past the chunk.         *)
TypeOK ==
  /\ data \in Seq(Symbols)
  /\ sizes \subseteq Nat \ {0} /\ sizes # {}
  /\ l \in Lexers(Symbols)
  /\ l.i \in 1..(upto + 1) /\ upto \in 0..Len(data)
  /\ ended \in {"no", "eof", "error"}

(* Nothing is lost, invented or reordered on the way to the callback: the  *)
(* texts, and at last the buffer, are slices of the dump, one after the    *)
(* other, each takes the splitter forward, and what lies between two of    *)
(* them is delimiters and DELIMITER commands.  A text is sliced without    *)
(* its delimiter: that is what the code does on every path, although the   *)
(* comment at Statement.Text says "including the delimiter" (README,       *)
(* section 5; Replayed shows what the engine makes of it).                 *)
SlicesOfDump == Sliced(data, 1, l)

(* A statement ends at the first delimiter that stands between two tokens, *)
(* never inside a string, an identifier or a comment: cut anywhere else,   *)
(* the server gets two fragments.  What was emitted stays in out, so it is *)
(* enough to look at the end of a run.                                     *)
TrueBoundaries == ended # "no" => \A k \in DOMAIN l.out : EndsAtFirst(l.out, k)

(* Where the chunks end makes no difference to the statements...           *)
ChunkIndependent ==
  ended = "eof" => l.out = Split(data, 1, DefaultSplitterConfig)

(* ... unless one ends where the lexer would have looked ahead: after the  *)
(* first symbol of a comment's "--", "/*" or "*/", after a backslash, or   *)
(* inside the delimiter.                                                   *)
Harmless(d, e, delim) ==
  e \in 1..(Len(d) - 1) =>
    /\ d[e] \notin {"-", "/", "*", "\\"}
    /\ \A n \in 1..(Len(delim) - 1) :
         n <= e => SubSeq(d, e - n + 1, e) # SubSeq(delim, 1, n)
HarmlessChunks == Harmless(data, upto, l.mode.delim)

(* Where the lexer's tokens are the grammar's: no ANSI_QUOTES, under which *)
(* a double quote opens what only a backtick closes, and a delimiter that  *)
(* a token could not begin with.                                           *)
OpensNothing(delim) ==
  /\ delim[1] \notin {"'", "\"", "bq", "#"}
  /\ \A c \in {<<"-", "-">>, <<"/", "*">>} : ~IsPrefix(c, delim) /\ ~IsPrefix(delim, c)
TokensAsRead == ~l.mode.ansi /\ OpensNothing(l.mode.delim)

(* Symbols i..e are a comment line with its newline: blanks, if anything,  *)
(* stand before the "--" or "#" on its line.                               *)
Hashes(s, i) == s[i] = "#"
Dashes(s, i) == i < Len(s) /\ s[i] = "-" /\ s[i + 1] = "-"
CommentLine(s, i, e) ==
  /\ Hashes(s, i) \/ Dashes(s, i)
  /\ i < e /\ s[e] = "\n" /\ \A k \in i..(e - 1) : s[k] # "\n"
  /\ \A k \in 1..(i - 1) : s[k] \in Space \/ \E n \in k..(i - 1) : s[n] = "\n"

(* What comes before a command: the first n symbols are blanks, newlines   *)
(* and comment lines.                                                      *)
Opens(s, n) ==
  \A k \in 1..n :
    s[k] \in Space \/ \E i \in 1..k, e \in k..n : CommentLine(s, i, e)

(* Symbols j..e are a DELIMITER command with its newline: it has an        *)
(* argument, and no token opens in it.                                     *)
CommandStands(s, j, e) ==
  /\ j + 2 < e /\ Opens(s, j - 1)
  /\ s[j] = "DELIMITER" /\ s[j + 1] = " " /\ s[e] = "\n"
  /\ \E k \in (j + 2)..(e - 1) : s[k] # " "
  /\ \A k \in j..(e - 1) : s[k] # "\n" /\ PlainToken(s, k)
HasCommand(s) == \E j, e \in DOMAIN s : CommandStands(s, j, e)

(* The DELIMITER command is the client's: it is "consumed" and not sent    *)
(* (CONTEXT.md, Statement Splitter).  No text that is emitted begins with  *)
(* a command on a line of its own behind blank lines and lines that begin  *)
(* with "--" or "#", wherever the lexer was when it read them.  Nothing is *)
(* said of a command behind a line with a block comment, which             *)
(* extractDelimiterLine takes for SQL, or of one whose line the current    *)
(* delimiter cuts, "DELIMITER ;;" first of all: both are sent.             *)
DelimiterConsumed == \A k \in DOMAIN l.out : ~HasCommand(l.out[k].text)
=============================================================================
