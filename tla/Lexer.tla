------------------------------- MODULE Lexer -------------------------------
(***************************************************************************)
(* The statement splitter's lexer as operators (splitter.go,               *)
(* splitter_feed.go, splitter_cmd.go).                                     *)
(*                                                                         *)
(* A dump is a sequence of symbols.  Every byte the lexer looks at is a    *)
(* symbol of its own; a word it only ever compares as a whole              *)
(* ("DELIMITER", "SET", the names in sql_mode) is one symbol.  The lexer   *)
(* never decides anything inside such a word, so where a chunk cuts it     *)
(* makes no difference.  A backtick is written "bq".                      *)
(*                                                                         *)
(* A lexer is a record: i, the next symbol; st, the LexState; buf, the     *)
(* symbols of the statement so far; mode, the SplitterConfig; out, the     *)
(* statements handed to the callback, each with the position after its     *)
(* delimiter and the mode that was in force.                               *)
(***************************************************************************)
EXTENDS Integers, Sequences, SequencesExt

Default == "default"
SingleQuote == "single"
DoubleQuote == "double"
Backtick == "backtick"
LineComment == "line"
HashComment == "hash"
BlockComment == "block"
ExecComment == "exec"

LexStates == {Default, SingleQuote, DoubleQuote, Backtick,
              LineComment, HashComment, BlockComment, ExecComment}

(* SplitterConfig, a statement handed to the callback, and the lexer, over *)
(* the symbols in S.                                                       *)
SplitterConfigs(S) == [delim : Seq(S) \ {<<>>}, nobs : BOOLEAN, ansi : BOOLEAN]
Statements(S) ==
  [text : Seq(S), next : Nat \ {0}, delim : Seq(S), mode : SplitterConfigs(S)]
Lexers(S) ==
  [i : Nat, st : LexStates, buf : Seq(S), mode : SplitterConfigs(S),
   out : Seq(Statements(S))]

(* Delimiter ";", backslash escapes on, double quotes delimit a string.   *)
DefaultSplitterConfig == [delim |-> <<";">>, nobs |-> FALSE, ansi |-> FALSE]

(* NewSplitter over data[from..]: the lexer always begins in Default.      *)
NewLexer(from, mode) ==
  [i |-> from, st |-> Default, buf |-> <<>>, mode |-> mode, out |-> <<>>]

Space == {" ", "\n"}

Least(S) == CHOOSE k \in S : \A j \in S : k <= j
Greatest(S) == CHOOSE k \in S : \A j \in S : k >= j

(* strings.Trim: drop the symbols of S from both ends. *)
Trim(s, S) ==
  LET solid == {k \in DOMAIN s : s[k] \notin S}
  IN  IF solid = {} THEN <<>> ELSE SubSeq(s, Least(solid), Greatest(solid))
TrimSpace(s) == Trim(s, Space)

(* The first of a string's words (bytes.Fields), the string being trimmed. *)
FirstWord(s) ==
  LET ends == {k \in DOMAIN s : s[k] \in Space}
  IN  IF ends = {} THEN s ELSE SubSeq(s, 1, Least(ends) - 1)

(* bytes.Split at a one-byte separator: where the parts begin, and the one *)
(* that begins at a.                                                       *)
PartStarts(s, sep) == {1} \cup {k + 1 : k \in {j \in DOMAIN s : s[j] = sep}}
PartAt(s, sep, a) ==
  SubSeq(s, a, Least({k \in a..Len(s) : s[k] = sep} \cup {Len(s) + 1}) - 1)

(* Trim first, then ask for the trailing space: a bare "DELIMITER " whose  *)
(* argument was cut off by the current delimiter is not recognised.        *)
IsDelimiterCommand(s) == IsPrefix(<<"DELIMITER", " ">>, TrimSpace(s))
IsSetStatement(s) == IsPrefix(<<"SET", " ">>, TrimSpace(s))

(* The second word of the command, if there is one. *)
HandleDelimiterCommand(mode, s) ==
  LET word == FirstWord(TrimSpace(Tail(TrimSpace(s))))
  IN  IF word = <<>> THEN mode ELSE [mode EXCEPT !.delim = word]

(* observeSet: a statement that names the client charset is not looked at  *)
(* for sql_mode; parseSQLMode: the listed modes replace every lexer bit.   *)
ObserveSet(mode, s) ==
  LET eq    == {k \in DOMAIN s : s[k] = "="}
      val   == Trim(TrimSpace(SubSeq(s, Least(eq) + 1, Len(s))), {"'", "\""})
      modes == {TrimSpace(PartAt(val, ",", a)) : a \in PartStarts(val, ",")}
  IN  IF Contains(s, "NAMES") \/ ~Contains(s, "sql_mode") \/ eq = {} THEN mode
      ELSE [mode EXCEPT
              !.nobs = modes \cap {<<"NO_BACKSLASH_ESCAPES">>, <<"ORACLE">>} # {},
              !.ansi = modes \cap {<<"ANSI_QUOTES">>, <<"ORACLE">>} # {}]

IsComment(line) == IsPrefix(<<"-", "-">>, line) \/ IsPrefix(<<"#">>, line)

(* extractDelimiterLine: the first line that is neither blank nor comment, *)
(* when it is a DELIMITER command; <<>> stands for nil.                    *)
DelimiterLine(s) ==
  LET Line(a) == TrimSpace(PartAt(s, "\n", a))
      solid == {a \in PartStarts(s, "\n") : Line(a) # <<>> /\ ~IsComment(Line(a))}
  IN  IF solid # {} /\ IsDelimiterCommand(Line(Least(solid)))
      THEN Line(Least(solid)) ELSE <<>>

(***************************************************************************)
(* One call of feed's loop body.  data[l.i] is the byte b; e is the last   *)
(* index of the chunk being fed: no look-ahead reaches past it.            *)
(***************************************************************************)
Next1(data, l, e) == IF l.i + 1 <= e THEN data[l.i + 1] ELSE "none"
Next2(data, l, e) == IF l.i + 2 <= e THEN data[l.i + 2] ELSE "none"
Next3(data, l, e) == IF l.i + 3 <= e THEN data[l.i + 3] ELSE "none"

(* Append the byte at i and move past it. *)
Take(data, l) == [l EXCEPT !.buf = Append(@, data[l.i]), !.i = @ + 1]
(* Mutant: only the second of two bytes is kept. *)
Take2KeepsOne(data, l) ==
  [l EXCEPT !.buf = Append(@, data[l.i + 1]), !.i = @ + 2]

(* Append the byte at i and the one after it. *)
Take2(data, l) ==
  [l EXCEPT !.buf = @ \o <<data[l.i], data[l.i + 1]>>, !.i = @ + 2]

(* Mutant: the buffer survives a DELIMITER line. *)
AtNewlineKeeps(l) ==
  LET line == DelimiterLine(l.buf)
  IN  IF line = <<>> THEN l ELSE [l EXCEPT !.mode = HandleDelimiterCommand(@, line)]

(* maybeHandleDelimiter at a newline.  Its second half, a buffer that ends *)
(* with the delimiter, never applies: the buffer ends with the newline.    *)
AtNewline(l) ==
  LET line == DelimiterLine(l.buf)
  IN  IF line = <<>> THEN l
      ELSE [l EXCEPT !.mode = HandleDelimiterCommand(@, line), !.buf = <<>>]

(* The current delimiter was matched at i: the bytes before it are a       *)
(* DELIMITER command to consume, or a statement to emit.                   *)
AtDelimiter(l) ==
  LET after == [l EXCEPT !.i = @ + Len(l.mode.delim), !.buf = <<>>]
      mode  == IF IsSetStatement(l.buf) THEN ObserveSet(l.mode, l.buf) ELSE l.mode
  IN  IF IsDelimiterCommand(l.buf)
      THEN [after EXCEPT !.mode = HandleDelimiterCommand(@, l.buf)]
      ELSE [after EXCEPT !.mode = mode,
              !.out = Append(@, [text |-> l.buf, next |-> after.i,
                                 delim |-> l.mode.delim, mode |-> mode])]

DelimiterMatch(data, l, e) ==
  LET last == l.i + Len(l.mode.delim) - 1
  IN  last <= e /\ SubSeq(data, l.i, last) = l.mode.delim

FeedDefault(data, l, e) ==
  LET b == data[l.i]
      Enter(state) == [Take(data, l) EXCEPT !.st = state]
  IN  CASE b = "'" -> Enter(SingleQuote)
        [] b = "\"" -> Enter(IF l.mode.ansi THEN Backtick ELSE DoubleQuote)
        [] b = "bq" -> Enter(Backtick)
        [] b = "-" /\ Next1(data, l, e) = "-" -> Enter(LineComment)
        [] b = "#" -> Enter(HashComment)
        [] b = "/" /\ Next1(data, l, e) = "*" ->
             Enter(IF \/ Next2(data, l, e) = "!"
                      \/ Next2(data, l, e) = "M" /\ Next3(data, l, e) = "!"
                   THEN ExecComment ELSE BlockComment)
        [] b = "\n" -> AtNewline(Take(data, l))
        [] OTHER -> IF DelimiterMatch(data, l, e) THEN AtDelimiter(l)
                    ELSE Take(data, l)

(* Mutants: an escape drops the byte it escapes; the SQL mode does not      *)
(* matter; the last byte of a chunk never closes.                          *)
QuotedSkipsTwo(data, l, e, q, escapes) ==
  IF data[l.i] = "\\" /\ escapes /\ ~l.mode.nobs THEN [Take(data, l) EXCEPT !.i = l.i + 2]
  ELSE IF data[l.i] # q THEN Take(data, l)
  ELSE IF Next1(data, l, e) = q THEN Take2(data, l)
  ELSE [Take(data, l) EXCEPT !.st = Default]
QuotedWith(data, l, e, q, escapes) ==
  IF data[l.i] = "\\" /\ escapes
  THEN IF l.i + 1 <= e THEN Take2(data, l) ELSE Take(data, l)
  ELSE IF data[l.i] # q THEN Take(data, l)
  ELSE IF Next1(data, l, e) = q THEN Take2(data, l)
  ELSE [Take(data, l) EXCEPT !.st = Default]
QuotedIgnoresSqlMode(data, l, e, q, escapes) == QuotedWith(data, l, e, q, escapes)
QuotedNeedsNext(data, l, e, q, escapes) ==
  IF data[l.i] = q /\ l.i = e THEN Take(data, l)
  ELSE QuotedWith(data, l, e, q, escapes /\ ~l.mode.nobs)

(* A quoted region closed by q: the escape rule (strings only), then the   *)
(* doubled quote, then the end of the region.                              *)
FeedQuoted(data, l, e, q, escapes) ==
  LET b == data[l.i]
  IN  IF b = "\\" /\ escapes /\ ~l.mode.nobs
      THEN IF l.i + 1 <= e THEN Take2(data, l) ELSE Take(data, l)
      ELSE IF b # q THEN Take(data, l)
      ELSE IF Next1(data, l, e) = q THEN Take2(data, l)
      ELSE [Take(data, l) EXCEPT !.st = Default]

FeedBlockComment(data, l, e) ==
  IF data[l.i] = "*" /\ Next1(data, l, e) = "/"
  THEN [Take2(data, l) EXCEPT !.st = Default]
  ELSE Take(data, l)

FeedLineComment(data, l) ==
  [Take(data, l) EXCEPT !.st = IF data[l.i] = "\n" THEN Default ELSE @]

Feed(data, l, e) ==
  CASE l.st = Default -> FeedDefault(data, l, e)
    [] l.st = SingleQuote -> FeedQuoted(data, l, e, "'", TRUE)
    [] l.st = DoubleQuote -> FeedQuoted(data, l, e, "\"", TRUE)
    [] l.st = Backtick -> FeedQuoted(data, l, e, "bq", FALSE)
    [] l.st \in {LineComment, HashComment} -> FeedLineComment(data, l)
    [] l.st \in {BlockComment, ExecComment} -> FeedBlockComment(data, l, e)

(* Run at EOF: what is left in the buffer is a last statement, whatever    *)
(* the state.                                                              *)
AtEOF(l) ==
  IF l.buf = <<>> THEN l
  ELSE [l EXCEPT !.buf = <<>>,
          !.out = Append(@, [text |-> l.buf, next |-> l.i,
                             delim |-> <<>>, mode |-> l.mode])]

(* Run over data[from..] read as one chunk.  Fed[k] holds the lexer after  *)
(* k rounds of the loop, which are enough when k is the length of data.    *)
FeedOn(data, l, e) == IF l.i > e THEN l ELSE Feed(data, l, e)
Fed(data, from, mode) ==
  LET fed[k \in 0..Len(data)] ==
        IF k = 0 THEN {NewLexer(from, mode)}
        ELSE {FeedOn(data, l, Len(data)) : l \in fed[k - 1]}
  IN  fed
Split(data, from, mode) ==
  AtEOF(CHOOSE l \in Fed(data, from, mode)[Len(data)] : TRUE).out

(* The first statement of data from byte p on, as a restore sees it that   *)
(* resumes there: byte offsets, and the configuration it leaves behind.    *)
FirstStatement(data, p, mode) ==
  LET out == Split(data, p + 1, mode)
  IN  IF out = <<>> THEN {}
      ELSE {[next |-> out[1].next - 1, len |-> Len(out[1].text),
             text |-> out[1].text, mode |-> out[1].mode]}
=============================================================================
