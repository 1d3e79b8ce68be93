# A TLA+ model of mariadb-restorer

mariadb-restorer streams a `.sql` dump into a MariaDB server, keeps a checkpoint
in SQLite so that an interrupted restore can be resumed, keeps connection profiles
with sealed passwords beside it, and drives all this from a terminal UI. This directory
models the restore engine, the profiles and the terminal UI, checks them with TLC and
proves the central properties of all three with TLAPS.

Paths below are relative to the repository; `E/` is `internal/restore-engine/`,
`T/` is `internal/tui/`, `V/` is `internal/credential-vault/`.

## 1. Inventory

| Component | Source | State | Operations | Modelled |
|---|---|---|---|---|
| Statement splitter | `E/splitter.go`, `splitter_feed.go`, `splitter_cmd.go` | lexer state, statement buffer, delimiter and sql_mode bits | read a chunk, feed a byte, EOF, read error | yes |
| Checkpoint store | `E/checkpoint_store.go` | one row per dump identity | Get, Upsert, Delete, ListAll | yes |
| Restore runner | `E/runner.go` | goroutine locals, event channel | RunRestoreAsync, runWithProgress and the statement callback | yes |
| Executor | `E/executor.go` | pinned connection, byte offset | Connect, Exec and its DROP guard, ResumeFromCheckpoint, Close | yes |
| Dump identity | `E/dump_identity.go` | none | hash of the head and the size | as a constant function |
| Table verification | `E/verify.go` | none | one read-only pass | as one step and its outcome |
| Router and navigation | `T/router.go`, `T/base/` | stack of screens, fatal error | push, pop, keys, completion | yes |
| Progress screen | `T/screens/progress/` | channel it reads | one read command at a time | yes |
| Home screen | `T/screens/home/` | loaded rows, cursor | load, move, open, delete | yes |
| Profile list | `T/screens/profiles/list.go`, `list_view.go` | loaded profiles, cursor, search | load, move, search, open the editor | yes |
| Profile editor | `T/screens/profiles/editor*.go` | fields, original name, whether a password is vaulted or to be cleared | edit, clear the password, save | yes |
| Launcher wizard | `T/screens/launcher/wizard.go` | step, profiles, cursor, what was typed | load, choose, launch | yes, but for the text fields |
| Report, Help, Glossary, Onboarding | `T/screens/` | exit code | keys and the commands they return | navigation, resume |
| Vault, profile store | `V/vault.go`, `V/profile.go`, `T/base/sqlite.go` | one row per profile, with its sealed password | save, seal, unseal, delete, list | yes |
| Credential resolver | `V/resolver.go` | none | precedence chain | no: nothing calls it |
| Command line, demo mode, rendering | `cmd/`, `T/demo/`, `T/footer.go`, ... | none | stubs and layout | no |

**How they interact.** The runner is a goroutine. It owns an executor, an open
file and a splitter that calls it back with each statement; the callback executes
the statement on the pinned connection and, when a batch is full, writes a
checkpoint. It talks to the UI only through a buffered channel of events. In the UI,
screens answer keys with *commands*; Bubble Tea runs every command in a goroutine
of its own and delivers the message it returns to `Router.Update`, in whatever
order commands happen to end. The progress screen has a command that reads one
event from the channel. Store and server are shared: by the runs of one process,
and by processes.

**What is hard.** A crash between the server's commit and the checkpoint; a
resumed run that repeats statements; offsets that count something else than file
positions; failing calls at each point of the run and an error reported twice;
a full channel; two instances of the program; messages of commands delivered
late, to a screen they were not meant for; a closed channel; keys pressed before
the last one took effect. Saving a profile is up to four statements, any of which may
fail or be the last one before a crash, and between which another instance may write. A list is a
copy, and the cursor on it is an index: the table changes behind both.

**What correctness means.**

- *Splitter*: the statements are slices of the dump in order, cut exactly at
  delimiters between tokens, wherever reads happen to end.
- *Store and runner*: nothing before a resume point is missing on the server; a
  success event means the whole dump is there; a run's events agree; resume points
  do not move back; every run ends; an operator who retries gets the dump restored.
- *Profiles*: a sealed password is bound to the profile it is in and opens there; saving
  does what was asked and nothing else; a launch sends what was sealed, or nothing.
- *DROP guard*: a stored program that a resumed restore defines again is not refused,
  and no other program is dropped.
- *Lists*: what is opened, deleted or started is what the cursor was on.
- *UI*: the report says how the run ended; each run has exactly one reader; no two
  runs write at once; a row is not deleted under its run; every run is reported.

`PROJECT.json` lists the hazards at their source lines with the properties that
cover them.

## 2. Modules

| Module | Models | Built on |
|---|---|---|
| `Lexer` | the lexer as operators over symbols | SequencesExt |
| `Splitter` | `Run`: chunks, EOF, read errors; a reference grammar; the splitter's properties | `Lexer` |
| `MCSplitter` | the sets of dumps TLC feeds it | `Splitter` |
| `Splitter_proofs` | theorems and proofs: lemmas about trimming, words and slices; types, slices, chunks, DELIMITER commands | `Splitter` |
| `Boundaries_proofs` | where statements end: the lexer against the grammar | `Splitter_proofs` |
| `CheckpointStore` | the SQL statements as operators on a table | |
| `RestoreRunner` | runner, executor, store, server, crashes and failures; its properties | `CheckpointStore` |
| `RestoreInvariants` | the inductive invariants: `Bounds`, `InOrder` (`AllAhead`, `Covered`, `Vouched`), `Verdicts`, `Recorded`; the uses the theorems are about | `RestoreRunner` |
| `AbstractRestore` | what a restore promises, without any of how | |
| `EventSource` | what a run promises to the reader of its channel | |
| `RestoreRefinements` | the two refinement mappings from `RestoreRunner` | `RestoreInvariants`, `AbstractRestore`, `EventSource` |
| `MCRestoreRunner` | concrete dumps, cut by `Lexer`: runner and splitter composed | `RestoreRefinements`, `Lexer` |
| `RestoreRunner_proofs` | theorems and proofs: types, offsets, resume points | `RestoreInvariants` |
| `Records_proofs` | what a run tells its reader, what its success is worth, and what becomes of a row | `RestoreRunner_proofs` |
| `Refinements_proofs` | both refinements; what the UI owes the engine | `Records_proofs`, `RestoreRefinements` |
| `TuiRestore` | router, screens, commands, messages, composed with runs that follow `EventSource` | `EventSource` |
| `TuiInvariants` | the inductive invariants of the UI under a patient operator | `TuiRestore` |
| `TuiRestore_proofs` | theorems and proofs | `TuiInvariants` |
| `CredentialVault` | sealing, and the statements on the table of profiles, as operators | |
| `Profiles` | list, editor, save statement by statement, launch; other instances | `CredentialVault` |
| `Profiles_proofs` | theorems and proofs | `Profiles` |
| `ListScreens` | Home, profile list and launcher: a list, a cursor, and commands | SequencesExt, Bags |
| `ListScreens_proofs` | theorems and proofs | `ListScreens` |
| `DropGuard` | the guard's text handling, and `Exec` of a guarded statement | SequencesExt |

So the chain is: `Lexer` cuts the dumps that `RestoreRunner` restores;
`RestoreRunner` implements `EventSource`; `TuiRestore` is checked, and proved, against
`EventSource` instead of the whole engine. The other three stand for themselves: what
`DropGuard` shows is why `RestoreRunner` may take a stored program for a statement that can be
repeated; `ListScreens` and `Profiles` look closer at screens that are only places on `TuiRestore`'s stack.

## 3. How the models correspond to the code

**Lexer.** A byte the lexer looks at is a symbol; a word it only compares as a whole
(`DELIMITER`, `SET`, a mode name) is one symbol. A lexer value is a record
`[i, st, buf, mode, out]` and `Feed` is one round of `feed`'s loop; no look-ahead
passes the chunk's last index, as `i+1 < len(data)` in the code. The code's own
reading of SQL is kept where it differs from the server's: `/*/` closes a comment it
opened, and `--` needs no space after it.

**RestoreRunner.** `pc[r]` names the call the goroutine is about to make:

    open -> connect -> resume -> tellResume -> seek -> initial -> split
    split -> exec -> split                        a statement
    split -> exec -> checkpoint -> tellBatch -> split    one that fills the batch
    exec, split -> tellError -> fail              the callback reports an error
    split -> final -> verify -> tellDone -> ended
    anywhere -> fail -> ended                     any other call fails

A step is one call that another process, the server, the disk or a crash can
observe. Offsets count bytes, 0 to `Size[d]`. `byteOff` is `executor.byteOff`, which
grows by `len(stmt.Text)`; `pos` is where the splitter really is. The difference
between the two is the subject of half of the findings. After the callback's own
error event the splitter reads on to the end of the file while the callback
returns at once; that changes nothing anybody sees, so `TellError` leads straight to
`fail`, where `RunRestoreAsync` reports the error a second time.

The server is external and modelled by what the runner depends on: the prefix of
each dump that a target holds (`applied`), and per session whether autocommit is on and
whether it holds table locks. Statements are of eight kinds (`Kinds`); a `drop` is
mariadb-dump's `DROP TABLE IF EXISTS` and `CREATE TABLE` in one statement, and an `insert` has unique
keys, so that repeating it without starting its table over is refused. A lost
connection may or may not have executed the statement in flight. `Finish` leaves the
session in `leaked` because `Close` hands it back to the pool of a `sql.DB` nobody closes.

A crash ends one process: its goroutines, channels and sessions vanish; `store` and
`applied` stay. A checkpoint written is durable (`synchronous=FULL`).

**TuiRestore.** `pending` is the bag of commands not yet performed and messages not yet
delivered. Performing a command and delivering a message are separate steps, each message in any
order, and the runs move in between. The history has one row, that of the one
dump being restored. A slot of `Runs` that neither a screen nor a message
mentions can stand for a new run, so two slots are enough for any number of restores.
The launcher's inputs (path, profile, password, verify) become the free outcome of
`launch`: a run with or without verification, or a complaint on the screen.

The constant `Hasty` says whether the operator presses a key while the answer to an
earlier one is still on its way. Without haste all promises hold (`Patient`);
with it, false success (`FalseSuccess`) and orphaned runs appear. `ctrl+c` and `ctrl+q` are not
bound by it.

**Profiles.** A step is one statement on the table; `pc` is where `save()` is. The instance does nothing
else meanwhile, since `save()` runs inside `Update`, but any number of other instances may: `Elsewhere` changes
the table by any one statement that a save may issue, and `OneStatementAtATime`, which is proved, says that
an instance does no more than that. So the model is of each of any number of instances. A sealed
password is what sealing binds: password, passphrase and name; it opens with the last two. `alone`
remembers whether another instance wrote since the save began, `job.want` the seal the save was asked to
leave. Settings are one value; the checks of the name and the port come before any statement and are left out.

**ListScreens.** One screen of the three kinds (`kind`), with the table it lists, other screens on top of it, and
the commands in flight. Home and the launcher act in a command, which looks at the cursor
when it runs, the profile list at once, so keys and commands interleave. Each key remembers the item shown
under the cursor (`meant`), each action the item it hit (`acted`). `happened` records what the properties
exclude: a key pressed before the last one took effect, a row taken away behind the screen's back (also by a deletion whose
listing then failed), and the demo list deleted down to nothing.

**DropGuard.** A text is a sequence of the words and characters the guard looks at. `Text` writes each
statement in the forms dumps have: plain, with a definer, in version comments, behind a comment, and guarded by itself; with
names that need quoting, doubled backticks, and bodies and data that contain the guard's words. Executing
one changes the programs of a schema that may hold any others. `Misleads` says for which statements
the guard reads the wrong words; the properties are about all others.

## 4. Runs that pass

| Run | Question | Instance |
|---|---|---|
| `OneRunner` | Does the engine (splitter, runner, store and server) implement `AbstractRestore` over crashes, failures and cancellation: resume points covered and never moving back, success true? Are verdicts and the row's DSN consistent and offsets in range? Also checks `InOrder` of the proofs. | two dumps (a table, stored programs), 1 crash, 2 faults |
| `Contract` | Does the runner implement `EventSource`, with dry runs and deleted rows too, and is no channel closed without a verdict? | a table, and a dump that locks it and turns autocommit off, with and without a DSN, 1 crash, 1 fault |
| `TwoRunners` | Two processes restore one data-only dump at once: is anything lost or wrongly reported, and does every run end? | channel of one event, 1 fault, fair |
| `Restored` | Does an operator who retries get the dump restored? | 2 crashes, 2 faults, no batch checkpoint, fair |
| `ShortDumps` | Are statements slices of the dump, cut where the reference grammar says, wherever chunks end; are DELIMITER commands consumed? | every dump of up to five symbols over four alphabets in one chunk, one of them with the word DELIMITER; such dumps after four SQL modes; DELIMITER lines, `DELIMITER ;;` among them, behind blank lines and comments of each kind; one alphabet without two-symbol tokens in chunks of 1 to 3 |
| `Patient` | For an operator who waits for each key to take effect: are reports true, does one run write at a time, each with one reader, rows not deleted under a run, every run reported and every channel closed? | any number of restores, two slots, channel of two events, fair |
| `Profiles` | Do sealed passwords stay bound to their rows, does a save do what was asked and keep what was not, does a launch send only what was sealed? | two names, two settings, one password and passphrase, 1 fault or crash, any number of other instances |
| `Lists` | Is what is opened, deleted or launched what was shown, does the cursor stay on the list, is a settled list fresh? | three items, two commands in flight, 1 failing call, rows that come and go |
| `DropGuard` | Can every definition of a stored program be executed again, without dropping another program? | four kinds, seven forms, two names, every schema, 2 refused statements |

**Bounds and why they are enough.** A batch is full after 2 statements or 3 bytes instead of
1000 and 64 MB, so that both thresholds are met, in the middle of a dump and at its end.
Dumps have 8 to 26 symbols: several batches, a table started over, text after the last
delimiter, a delimiter change. The channel holds 1 or 2 events instead of 100, so that it does
fill up. Crashes and faults are bounded by `MaxCrashes` and `MaxFaults`; one crash and
two faults already allow a failed run, a resumed one that fails again or dies, and a third.
The starts are not bounded. `MaxStack` and `MaxPending` only bind keys: no message or command of the program is
ever held back. Strings of five symbols hold any open, escape, doubled quote, close and delimiter in
any order; the splitter keeps no more memory than its state, buffer and mode. Two profile
names are what a rename needs, or a rename onto the name of another profile; the proofs lift the bound. Three items let a
cursor be at the top, in the middle and at the end, before and after a row goes. The guard reads at most two
kinds in a statement, its own and a misleading one.

**Fairness.** For the engine: the Go scheduler runs a goroutine that can run, a server
answers a statement that waits for no lock, and the reader reads (`Fairness`).
`PersistentSpec` adds an operator who starts again. For the UI: Bubble Tea performs each command
and delivers each message, a dump is finite and a run advances (`RunAdvances`, not
the batches in between). Nothing is assumed of the operator, and nothing of what may fail.

The engine's liveness runs cut their dump with `PlainCuts`, which the assumption `PlainCutsAgree` compares
with the lexer.

`CHECK_DEADLOCK FALSE` is set where the system stops: the splitter after a dump, the UI after
quitting, a list screen after a panic, and a run of `Contract` that waits for table locks that an
earlier run left behind, for ever.

## 5. Where the code does something else than it says

Each of these runs checks a sentence of the repository and ends in a counterexample.
`PROJECT.json` quotes the sentences and gives the lines.

| Run | The sentence | The code |
|---|---|---|
| `Replayed` | a crashed restore can be resumed | `byteOff` leaves out the delimiters, so a run resumes inside a statement and fails, every time |
| `Renamed` | a rename is atomic: if it fails, the profile remains unchanged | the old row, with its sealed password, is deleted first; incomplete password fields are then refused |
| `FalseSuccess` | the report says how the run ended | a second reader takes the closed channel for success |

The passing runs avoid these, and the first divergences below: one target, autocommit on, no LOCK TABLES, no concurrent restore of a dump
that drops tables, no batch checkpoint where resumption must succeed, an operator who waits. Each such restriction is in the cfg of the run.

Other divergences that the same models show, for which no run is kept:

- `E/executor.go:226`: the row is kept per dump, not per target, and completed rows stay: restoring a dump to a second
  target skips everything and reports success (`SuccessMeansRestored` with two DSNs).
- `E/runner.go:192`: no COMMIT is sent before a checkpoint; in a dump that turns autocommit off it counts statements the
  server rolls back (`ResumePointCovered` with the dump `locked`), though `src/restore-engine/CONTEXT.md` says "Written only *after*
  MariaDB confirms the COMMIT".
- `E/executor.go:68`: "Close closes the pinned database connection", but the session goes back to a pool with its table locks, and
  the next run waits for them for ever (`RunEnds` with the dump `locked`).
- `E/splitter.go:41`: `Text` is "the raw SQL text, including the delimiter"; the text that every path emits excludes it
  (`StatementSliced` in `SlicesOfDump`), and `E/runner.go:184` counts it as if it were included (`Replayed`).
- `E/splitter_feed.go:53`: `DELIMITER ;;`, which mariadb-dump writes, is cut at its first `;` and sent to the server.
  `ShortDumps` has such dumps; `DelimiterConsumed` says nothing of the command, whose line no text holds in one piece.
- `E/splitter_feed.go:191`: a DELIMITER command behind a line with a block comment is sent to the server, since only blank lines
  and lines that begin with `--` or `#` are passed over; the comments at lines 164 and 188 speak of whitespace and comments.
  `ShortDumps` has such dumps, and `DelimiterConsumed`, with `CommandLine` in `Splitter` for what may precede a command, leaves
  them out.
- `E/executor.go:218`: the lexer state of a checkpoint is read into a local that is dropped; a resumed run
  parses with `;` and the default SQL mode (`src/restore-engine/CONTEXT.md` says it is restored).
- `E/runner.go:103`: a run without a DSN completes the row, so that the real run that follows does nothing.
- `E/runner.go:166`: a cancelled run ends without a checkpoint; the report says "Current batch drained".
- `E/runner.go:192`: a row deleted under its run comes back without a DSN and cannot be resumed from the history.
- `E/checkpoint_store.go:136`: `ListAll` returns completed restores too, its comment says unfinished ones.
- `E/executor.go:104`: duplicate rows end a resumed run; the glossary says they are tolerated.
- `E/splitter_feed.go:27`: under ANSI_QUOTES a double quote is closed by a backtick only.
- `E/splitter_feed.go:84`: a backslash that is the last byte of a chunk does not escape the next one. `ShortDumps`
  therefore varies the chunks only over an alphabet without escapes.
- `T/router.go:128`: Ctrl-C quits the program before the progress screen can interrupt the restore.
- `T/screens/launcher/wizard.go:253`, `T/screens/report/report.go:124`: the key that starts or resumes a restore is accepted again until the
  command behind it has ended: two runs of one dump (`OneWriter` with haste and two slots).
- `T/screens/progress/channel.go:49`: a progress event that reaches another screen ends the reading; the run then
  blocks on its full channel. `Patient` rules this out only for an operator who waits.
- `T/screens/home/home.go:130`: the history reports success for a restore that ended with verify findings.
- `E/executor.go:112`: the guard "returns nil for all other statements", but data that contains a word with CREATE in it and a kind
  gets one, and so does a procedure of an earlier kind in the body of another program: an innocent program is dropped.
  A body with IF NOT EXISTS or OR REPLACE keeps its statement from being guarded. A guard whose statement is then
  refused has dropped the program (`Misleads`, `ExecRefused` in `DropGuard`).
- `T/screens/profiles/editor_save.go:46`: a rename loses the vaulted password unless it is typed again; nothing is sealed again, as
  `src/credential-vault/CONTEXT.md` and the PRD (story 17) want. A rename, or a new profile, that takes the name of an existing
  one overwrites its settings and keeps its password.
- `T/screens/profiles/editor.go:63`: the editor shows the list's copy of a profile, not the table's, and a save overwrites what another
  instance saved since; only the sealed password is safe from that (`SettingsKeepSeal`).
- `T/screens/profiles/list.go:114`: the cursor is not adjusted when the list is loaded again; after a profile has vanished (another instance,
  or a rename onto another name) Enter panics. Under a search Enter opens the editor of a row that is not shown.
- `T/screens/home/home.go:151`: the deletion looks at the cursor when the command runs: after `d` and a quick arrow key
  another row is deleted. If listing the rest fails (line 165) the cursor stays where it was.
- `T/screens/home/home.go:103`: in demo mode, deleting every row leaves the cursor at -1; coming back to the screen and pressing `d` panics.
- `T/screens/home/home.go:86`, `T/screens/profiles/list.go:90`: an error hides the list, and nothing clears it; the keys act on the hidden list.
- The PRD has completed restores vanish from the history, and profiles deleted from their list after a confirmation
  (story 18). Completed rows stay, and no key deletes a profile.
- `V/profile.go:103`: "List returns all profiles without sealed passwords"; it returns them with it, and the launcher depends on that.
- `T/screens/launcher/views.go:92`, `:114`: an empty password is said to mean MYSQL_PWD; the launcher never reads it. Line 111 says "unsealed from vault" of
  whatever was typed; a wrong passphrase sends an empty password.
- Two instances that restore a dump that drops its tables: one drops what the other's checkpoint counts on.

## 6. What is proved

**The engine.** `RestoreRunner_proofs`, for every value of the constants: any dumps, any splitter that stays inside
its file, any batch limits, channel capacity, number of runs, crashes and faults.

| Theorem | Says |
|---|---|
| `Typed` | `Spec => []TypeOK` |
| `OffsetsStayBounded` | `Spec => []OffsetsBounded`: for any number of concurrent runs |
| `OffsetsNeverMoveBack` | `Spec /\ []RunsApart => OffsetMonotone` |
| `ResumePointIsSafe` | for a plain dump `d` and a target `t`: while `[]SoleRuns(d, t)`, the row of `d` claims nothing that `t` does not hold |
| `ResumePointIsCovered` | `OneServer` proves `Spec /\ []RunsApart => []ResumePointCovered` |
| `SuccessIsWorthIt` | for a plain dump `d`, a target `t` and `RowStays(d)`: while `[]SoleRuns(d, t)`, a reported success of `d` means that `t` holds all of it |
| `SuccessIsRestored` | `OneServer` and `RowStays` prove `Spec /\ []RunsApart => []SuccessMeansRestored` |
| `RunsStayOrdered` | the same prove `Spec /\ []RunsApart => []InOrder`: the invariant behind the others |

The last three are in `Records_proofs`, which needs `Verdicts` for them.

`OffsetsBounded` is not inductive: that `byteOff` stays inside the dump needs that it never
passes the splitter's position, less the statement in flight. `Bounds` says so for each
label of the goroutine. It rests on `CutsAssumption`: the splitter moves forward,
stays in the file and passes no more bytes to the callback than it moved over. That is what the module needs to know of
the splitter, and `LexerCuts` proves it of the lexer.

The other theorems are about any number of runs at a time, in any number of processes. What they ask of them:

| Name | The use |
|---|---|
| `RunsApart` | no two runs that may still write restore the same identity; a run that has failed may still have its error to send (`Live`) |
| `SoleRuns(d, t)` | the runs of `d` do not overlap (`AloneOn`) and all go to `t` (`SentTo`); nothing is asked of other dumps |
| `PlainDump(d)` | no other dump is taken for `d`, and `d` leaves autocommit on |
| `OneServer` | all runs go to one server, none is dry, all dumps are plain |
| `RowStays(d)` | the row of `d` may not be deleted, or there is one slot, in which a success is forgotten when the next run starts |

`RunsApart` is about the engine's labels. What a reader of the channels can see of it is `OneWriter`, which `EventSource` states
over the phases of a run, and `WritersAreApart` (`Refinements_proofs`) proves `[]Source!OneWriter => []RunsApart`. `RunsTakeTurns`, below,
proves that same `OneWriter` of one instance of the terminal UI with a patient operator. Such an operator may resume after the first
error event while the old run still sends its second one: that run writes no more, so neither formula counts it. With one slot `RunsApart`
is true whatever happens (`OneSlotIsApart`), which is the instance that `OneRunner` checks. Runs may
follow each other without end, each ended by a crash, failure or cancellation. Section 5 shows that the other
assumptions cannot be dropped: the second target, autocommit, the dry run and the two instances.

The invariants come in layers.

- `Ahead`: `row.off <= byteOff` while a run streams, and `byteOff` is the size once the dump is finished. So what a run is about to
  write is never behind the row. Neither servers nor the contents of dumps matter for this.
- `Ordered` and `CoveredOn`: with the server,

      row.off <= byteOff <= committed <= pos      committed <= applied

  while a run streams, `committed = pos` between statements, and `applied = Size` once the dump is finished. That
  `byteOff` counts too little is what keeps it true: a resumed run starts too early, never too late. Rows may be
  deleted, since a run without a row starts at 0.
- `VouchedOn`: the row of a success says the whole dump, so whoever starts the dump again resumes at its end, drops no
  table and executes nothing. That is why a success stays true after the next run has begun.

Each layer is proved for one identity, or one dump and its target: a step of one of its runs has one lemma per label (`OwnAhead`,
`OwnStep`), and a step of anybody else leaves its row, its server's prefix and its runs alone
(`Bystanders`, `OtherDumps`). With `OneServer` the theorems about all dumps follow, since then runs that are apart are each
dump's only ones (`ApartAreSole`).

TLC checks `InOrder` as well (`OneRunner`).

**The splitter.** `Splitter_proofs`, and `Boundaries_proofs` for `StatementsEndWell`, for any dumps over any symbols and reads of any sizes:

| Theorem | Says |
|---|---|
| `LexerTyped` | `Spec => []TypeOK` |
| `NothingIsLost` | `Spec => []SlicesOfDump` |
| `ChunksMakeNoDifference` | `Spec /\ []HarmlessChunks => []ChunkIndependent` |
| `LexerCuts` | the first statement from any position, in any mode: the splitter moves forward, stays in the dump, and passes on no more than it moved over |
| `CommandsAreConsumed` | `Spec /\ []HarmlessChunks => []DelimiterConsumed` |
| `StatementsEndWell` | `Spec /\ []HarmlessChunks /\ []TokensAsRead => []TrueBoundaries` |

The dumps have to be sequences over the symbols they contain (`InputsAssumption`), nothing else is asked of them. `NothingIsLost` is
one lemma per branch of the lexer: a round moves one, two or a delimiter's length forward and the buffer with it (`Round`).
That a skipped piece of the dump contains a DELIMITER command needs what trimming, cutting at newlines and taking
the first word leave of a text: `From` says whose symbols a text has, and is transitive.
`ChunksMakeNoDifference` runs a second lexer over the whole dump next to the one in chunks: while no
chunk ends inside a token of two symbols (`HarmlessChunks`, what section 5 says of the last byte of a chunk), the two are the same (`Agree`) or
the second is one symbol ahead, on the second quote of a doubled one (`Half`), and come together again. The hypothesis
cannot be dropped: TLC finds `ChunkIndependent` violated for the chunks that `MCSplitter` leaves out. `LexerCuts` follows a run
from any position; that the recursive function `Fed` exists is shown by induction, stated with a set instead of a
predicate so that the prover can use it.

`CommandsAreConsumed` asks nothing of the dump. `DelimiterConsumed` says of each text what it is not: it does not begin with blank lines and
lines that begin with `--` or `#` (`Opens`), then a DELIMITER command with an argument, on a line on which no token opens, up to its newline
(`CommandStands`). The lexer decides this at the newline, and only if it is then outside of all tokens. That it is cannot
be asked of the buffer's end alone, since the comment lines before the command may contain anything. So the invariant
`Consuming` holds what the buffer says of the lexer's state (`Watchful`): as long as the buffer is such a beginning and then symbols that open nothing (`Beginning`), the
lexer is in its default state, or has just entered a comment of which only the first symbol is in the buffer; in a comment line (`InComment`) it is
in a comment's. A buffer that has once lost this form never gets it back (`Shut`), so quotes and block comments need no more than that. At
the newline `CommandSeen` says that the code then finds the command: the line's trimmed text is the first that is neither empty nor a comment,
and begins with the word. `HarmlessChunks` is needed for a chunk that ends between the two symbols of `--`. Two commands are outside of the
property, and section 5 says what becomes of them: one behind a block comment, and `DELIMITER ;;` under `;`.

`StatementsEndWell` compares the lexer with a grammar that knows nothing of it: `Token` says what a string, an identifier and a
comment are, `BetweenTokens` which positions of a statement lie between two of them, recursively from its start. The lexer
knows its current state only, and in the buffer nothing of it is left. So the proof keeps a *reading* of the buffer (`Reading`): where each
of its positions lies, as the lexer saw it. `BetweenIsFree` and `FreeIsBetween` say that a reading and the grammar agree: what is
between two tokens is outside of all of them for the lexer, or in the middle of a doubled quote, where the grammar may also see two strings
side by side, and what is outside for the lexer is between two tokens. Both need what the two recursive functions of the grammar
compute (`BetweenIs`, `QuotedIs`), by induction along the text. The invariant `Traced` says that the buffer has a reading which ends where
the lexer is and passes no delimiter outside of all tokens; each branch of `Feed` extends it by one position or by two (`FeedOnward`).
When a statement is emitted, its reading gives both halves of the property (`EndsHere`). All this is proved of the lexer that
reads the whole dump; `Run` follows it (`Follows`), which is where `HarmlessChunks` comes in. `TokensAsRead` states the other two
limits: under ANSI_QUOTES the lexer leaves the grammar (section 5), and with a delimiter like `#` or `-` the lexer sees the comment before
it sees the delimiter. A dump that sets no ANSI_QUOTES and delimits by `;`, `;;`, `$$` or `//` satisfies it. TLC checks the
property after `SET sql_mode='ANSI_QUOTES'` too, for what follows without double quotes.

**What the engine tells and records.** From the same invariants:

| Theorem | In | Assumes | Says |
|---|---|---|---|
| `VerdictsAlwaysAgree` | `Records_proofs` | | `Spec => []VerdictsAgree` |
| `NoRunEndsSilently` | `Records_proofs` | | `Spec => []NoSilentClose` |
| `RowsKeepTheirDsn` | `Records_proofs` | `DsnsAreKept` | `Spec => []RowKeepsDsn` |
| `EngineRestores` | `Refinements_proofs` | the dump is plain, its row is not deleted | `Spec /\ []SoleRuns(TheDump, TheTarget) => ImplementsAbstractRestore` |
| `RunsAreEventSources` | `Refinements_proofs` | | `Spec => ImplementsEventSource` |
| `WritersAreApart` | `Refinements_proofs` | | `[]Source!OneWriter => []RunsApart` |

`Verdict` says which labels a run can be at after which verdict, whether that is still in the channel or
was heard. `Recorded` says that a run past its initial save has its row, which is why a batch
checkpoint, which carries no DSN, never inserts one; it fails when rows may be deleted, or a run has no DSN, so `DsnsAreKept`
excludes both. `EngineRestores` is about one dump and one target among any number of runs: it maps the row's offset to `mark`, the prefix on
the server to `done`, and a success told to `told`. Each step of the dump's runs moves one of
them, in the order that `Ordered` gives, or none; a success is told with `mark` at the size; steps of other runs are stutters. A deleted row moves
the mark back, which the abstract restore does not do. `RunsAreEventSources` maps the 17 labels to the six phases; every step but those that start a run, send or receive
an event, save the first or last checkpoint, fail, crash or end the run is a stutter.

**The UI.** `TuiRestore_proofs`, for any number of runs and any capacity of channels, with an operator who waits for
each key to take effect (`Hasty = FALSE`):

| Theorem | Says |
|---|---|
| `TypesHold` | `Spec => []TypeOK` |
| `ReportsTellTheTruth` | `Spec => []ReportsTruthful` |
| `RunsTakeTurns` | `Spec => []OneWriter` |
| `ReadByOne` | `Spec => []OneReader` |
| `RowsOfRunsStay` | `Spec => NoDeleteUnderARun` |

None of these is inductive. `Patience` is what the operator's waiting comes to: one command or message at most is in
flight, and the active screen is a progress screen exactly as long as that one is about its run. Then a step of the program is one of
twelve (`PatientSteps`). `Followed` says that a run that has not reported is awaited, and that its channel holds its
verdict until its reader took it; so `nextEventCmd` never meets a closed channel, and whoever reads learns the verdict. Since only
one message is in flight, only one run is awaited: one writer, one reader, and no deletion while there is one. `OneWriter` is
`EventSource`'s, so `WritersAreApart` takes it up on the engine's side. `Told` carries
the verdict from the message to the report. With haste all of this is false (`FalseSuccess`).

**The profiles.** `Profiles_proofs`, for any names, settings, passwords and passphrases, any faults and any number
of other instances:

| Theorem | Says |
|---|---|
| `SavesStayOnTrack` | `Spec => [](TypeOK /\ SaveOnTrack)` |
| `SavesAreAsAsked` | `Spec => []SavedAsAsked` |
| `SealsStayBound` | `Spec => []SealsOpen` |
| `LaunchesUnlock` | `Spec => []LaunchUnlocks` |
| `InstancesAreAlike` | `Spec => OneStatementAtATime` |
| `SettingsKeepSeals` | `Spec => SettingsKeepSeal` |

`SavedAsAsked` speaks of the end of a save and is not inductive. `SaveOnTrack` says, before each statement, that the
seal the save is to leave is still the one that its fields ask of the table *as it is now*: deleting the old
row does not touch the new name's, the UPDATE keeps the seal, the INSERT finds no row, so what it
leaves to keep is none. `SealsOpen` and `LaunchUnlocks` follow from the shape of the statements (`BoundStatement`): none of them
puts a seal into a row of another name, and a copy was once the table. The rely on the other instances is
discharged by `InstancesAreAlike`. `ProfilesTyped` is `Spec => []TypeOK`.

**The list screens.** `ListScreens_proofs`, for any finite set of items, number of commands and failing calls:

| Theorem | Says |
|---|---|
| `ListScreensTyped` | `Spec => []TypeOK` |
| `KeysActOnShown` | `Spec => []ActsOnShown` |
| `SettledListIsFresh` | `Spec => []FreshWhenSettled` |
| `CursorStaysOnList` | `Spec => []CursorOnList` |

None of the last three is inductive, since a listing is looked at when it arrives and was taken earlier. `Settling` says that an operator who
waits has one command or message in flight at most, and that a command that acts still finds the item it was meant for under the
cursor. `FreshOnTheWay` follows a listing: the one in flight is the table's, unless the table was changed since. `Kept` says that
the next listing is long enough for the cursor: rows only came, except by the deletion that also moved the
cursor. TLC checked the three before they were proved.

Only model-checked:

- liveness (`RunEnds`, `EventuallyRestored`, `EveryRunReported`, `ProducersEnd`): the prover has no fairness, nor `ENABLED`;
- the guard's reading of its forms: `DropGuard` has one finite set of texts and no constants, so that TLC sees
  every case there is.

## 7. Not modelled

- The charset that `observeSet` records, statement counts, batch counts, elapsed times: nothing
  depends on them.
- CHECK TABLE's rows and the identity's hash. The key derivation and encryption of the vault: a seal is taken to open with its
  passphrase and its name and with nothing else, which is what Argon2id and AES-GCM are there for.
- The credential resolver: no code calls it.
- Schema-qualified names in stored programs, which `E/executor.go:92` gives up on.
- SQLite's own locking: a statement on the store is one step, and may fail.
- Rendering, the footer, themes, the demo mode, terminal detection.
- Commands of the CLI other than `tui`: they print and exit.
- Deferred objects and their replay: no code defers one.
- Half-written fields: the launcher's load command writes its screen's list in a goroutine of its own while `Update` reads it.
  `ListScreens` has the command and the keys in every order, each as one step.

## 8. Plan

Done, in this order: the lexer; store and runner with its abstract specification; the UI
against the event source; the first theorems; the profiles with their proofs; the list screens; the DROP guard; verdicts and rows;
both refinements; the UI's safety for a patient operator; the splitter's and the list screens' proofs; where statements end; the engine's
theorems for any number of runs at a time; DELIMITER commands.

What could follow depends on the code: `EventuallyRestored` with batch checkpoints, once a resumed run starts where a statement
does (`Replayed`); a model of the credential resolver, once something calls it.

## 9. Running

    tlc -config OneRunner.cfg MCRestoreRunner.tla
    tlc -config ShortDumps.cfg MCSplitter.tla
    tlc -config Patient.cfg TuiRestore.tla
    tlc -config Profiles.cfg Profiles.tla
    tlc -config Lists.cfg ListScreens.tla
    tlc -config DropGuard.cfg DropGuard.tla
    tlapm RestoreRunner_proofs.tla
    tlapm Records_proofs.tla
    tlapm Refinements_proofs.tla
    tlapm TuiRestore_proofs.tla
    tlapm Profiles_proofs.tla
    tlapm Splitter_proofs.tla
    tlapm Boundaries_proofs.tla
    tlapm ListScreens_proofs.tla
