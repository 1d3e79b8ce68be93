----------------------------- MODULE MCSplitter -----------------------------
(* Splitter over every short dump of a few alphabets. *)
EXTENDS Splitter

UpTo(S, n) == UNION {[1..k -> S] : k \in 0..n}
InChunks(dumps, S) == [dumps |-> dumps, sizes |-> S]
OneChunk == {64}

(* Strings, identifiers and escapes. *)
Strings == UpTo({"'", "\"", "bq", "\\", ";"}, 5)
(* Comments that hide quotes and delimiters. *)
Comments == UpTo({"-", "#", "\n", "'", ";"}, 5) \cup UpTo({"/", "*", "!", "'", ";"}, 5)
(* Quotes and one-symbol comments: nothing of two symbols changes state.   *)
NoPairs == UpTo({"'", "bq", "#", "\n", ";"}, 5)
(* sql_mode statements, before strings. *)
SqlModes ==
  {<<"SET", " ", "sql_mode", "=", "'">> \o ms \o <<"'", ";">> \o s :
     ms \in {<<"NO_BACKSLASH_ESCAPES">>, <<"ANSI_QUOTES">>, <<"x">>,
             <<"x", ",", "NO_BACKSLASH_ESCAPES">>},
     s \in UpTo({"'", "\\", ";", "x"}, 5)}
(* DELIMITER commands on lines of their own, after statements, strings,    *)
(* blank lines and comments of each kind; the new delimiter is another one *)
(* or begins with the old one, as mariadb-dump's does.                     *)
Delimiters ==
  {s \o <<"DELIMITER", " ">> \o new \o <<"\n">> \o t \o <<"$", "\n">> \o u :
     s \in {<<>>, <<"\n">>, <<"x", ";">>, <<"#", ";", "\n">>, <<"-", "-", ";", "\n">>,
           <<"/", "*", ";", "*", "/", "\n">>, <<"'", "\n", "'", ";", "\n">>},
     new \in {<<"$">>, <<";", ";">>},
     t \in UpTo({"x", ";", "$", "\n"}, 3),
     u \in {<<>>, <<"DELIMITER", " ", ";", "\n", "x", ";">>}}
(* The word anywhere. *)
Commands == UpTo({"DELIMITER", " ", "x", "#", "\n", ";"}, 5)

Dumps == {InChunks(Strings, OneChunk), InChunks(Comments, OneChunk),
          InChunks(SqlModes, OneChunk), InChunks(Commands, OneChunk),
          InChunks(NoPairs, {1, 2, 3}), InChunks(Delimiters, {3, 64})}
=============================================================================
