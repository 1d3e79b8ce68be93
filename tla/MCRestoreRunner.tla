--------------------------- MODULE MCRestoreRunner ---------------------------
(***************************************************************************)
(* RestoreRunner over small concrete dumps, cut into statements by the     *)
(* Lexer module: the composition of the runner with the splitter.          *)
(***************************************************************************)
EXTENDS RestoreRefinements

L == INSTANCE Lexer

MCDefaultMode == L!DefaultSplitterConfig
MCModes == {L!DefaultSplitterConfig, [L!DefaultSplitterConfig EXCEPT !.delim = <<"$">>]}

(* The dumps.  The first symbol of a statement is its kind; "x" is any     *)
(* other text.                                                             *)
(*   table   one table and two INSERTs, then the closing comment           *)
(*   load    data only, as --no-create-info writes it                      *)
(*   locked  the same with --no-autocommit: INSERTs between LOCK TABLES    *)
(*           and UNLOCK TABLES, and between SET autocommit=0 and COMMIT    *)
(*   proc    stored programs between two DELIMITER commands                *)
Data == [
  table  |-> <<"drop", "x", ";", "insert", "x", ";", "insert", ";", "#", "\n">>,
  load   |-> <<"insert", "x", ";", "stmt", "x", ";", "insert", ";">>,
  locked |-> <<"drop", ";", "lock", ";", "begin", ";", "insert", "x", ";",
               "unlock", ";", "commit", ";">>,
  proc   |-> <<"stmt", ";", "\n", "DELIMITER", " ", "$", "\n",
               "stmt", ";", "x", ";", "$", "\n", "stmt", ";", "x", ";", "$", "\n",
               "DELIMITER", " ", ";", "\n", "stmt", ";">>]

MCSize == [d \in Dumps |-> Len(Data[d])]
MCIdent == [d \in Dumps |-> d]

KindOf(text) ==
  LET body == L!TrimSpace(text)
  IN  CASE body = <<>> -> "bad"
        [] body[1] = "#" -> "stmt"
        [] body[1] \in Kinds -> body[1]
        [] OTHER -> "bad"

(* The first statement of data from position p. *)
FirstCut(data, p, m) ==
  {[next |-> c.next, len |-> c.len, kind |-> KindOf(c.text), mode |-> c.mode] :
     c \in L!FirstStatement(data, p, m)}

MCCuts == [d \in Dumps |-> [p \in 0..MCSize[d] |->
            [m \in MCModes |-> FirstCut(Data[d], p, m)]]]

(* The same cuts of a dump without quotes, comments that hide a delimiter, *)
(* or DELIMITER commands: up to the next ";".  TLC evaluates ENABLED       *)
(* afresh in every state, so the liveness runs take this cheaper table.    *)
PlainCut(data, p, m) ==
  LET ends == {k \in (p + 1)..Len(data) : data[k] = ";"}
      last == IF ends = {} THEN Len(data) + 1 ELSE CHOOSE k \in ends : \A j \in ends : k <= j
  IN  IF p = Len(data) THEN {}
      ELSE {[next |-> IF ends = {} THEN Len(data) ELSE last, len |-> last - 1 - p,
             kind |-> IF data[p + 1] = "#" THEN "stmt"
                      ELSE IF data[p + 1] \in Kinds THEN data[p + 1] ELSE "bad",
             mode |-> m]}

PlainCuts == [d \in Dumps |-> [p \in 0..MCSize[d] |->
               [m \in {MCDefaultMode} |-> PlainCut(Data[d], p, m)]]]
PlainModes == {MCDefaultMode}

ASSUME PlainCutsAgree ==
  \A d \in Dumps \ {"proc"}, p \in 0..14 :
    p <= Len(Data[d]) =>
      PlainCut(Data[d], p, MCDefaultMode) = FirstCut(Data[d], p, MCDefaultMode)
==============================================================================
