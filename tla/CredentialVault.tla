--------------------------- MODULE CredentialVault ---------------------------
(***************************************************************************)
(* The vault's sealed passwords (vault.go) and the SQLite table `profiles` *)
(* (profile.go).  A statement on the table is durable and atomic when it   *)
(* returns; an operation of the store that takes two statements is two     *)
(* operators here.                                                         *)
(***************************************************************************)

(* Sealing binds the name of the profile as additional data, and derives   *)
(* the key from the passphrase: opening needs both again.                  *)
NoSeal == [vaulted |-> FALSE]
SealSwapped(pwd, passphrase, name) ==  \* a mutant
  [pwd |-> passphrase, passphrase |-> pwd, aad |-> name]
Seal(pwd, passphrase, name) ==
  [pwd |-> pwd, passphrase |-> passphrase, aad |-> name]
Seals(Names, Passwords, Phrases) ==
  {NoSeal} \cup [pwd : Passwords, passphrase : Phrases, aad : Names]

Opens(seal, passphrase, name) ==
  seal # NoSeal /\ seal.passphrase = passphrase /\ seal.aad = name

(* "" stands for the error: no sealed password is empty. *)
UnsealPassword(seal, passphrase, name) ==
  IF Opens(seal, passphrase, name) THEN seal.pwd ELSE ""

(* No row: Get returns nil. *)
NoProfile == [saved |-> FALSE]
Profile(settings, seal) == [settings |-> settings, seal |-> seal]
EmptyTable(Names) == [n \in Names |-> NoProfile]
Has(table, name) == table[name] # NoProfile
Vaulted(table, name) == Has(table, name) /\ table[name].seal # NoSeal

(* Save, first statement: UPDATE of the settings, which reports whether it *)
(* found the row.  Mutant: INSERT OR REPLACE, which empties the other      *)
(* column.                                                                 *)
ReplaceSettings(table, name, settings) ==
  IF Has(table, name) THEN [table EXCEPT ![name] = Profile(settings, NoSeal)]
  ELSE table
UpdateSettings(table, name, settings) ==
  IF Has(table, name) THEN [table EXCEPT ![name].settings = settings] ELSE table

(* Save, second statement, if the first found nothing: INSERT, which the   *)
(* primary key refuses if the row has come into being since.               *)
Insert(table, name, settings) ==
  [table EXCEPT ![name] = Profile(settings, NoSeal)]

(* UPDATE of the sealed password of a row that is there. *)
SetPassword(table, name, seal) == [table EXCEPT ![name].seal = seal]

Delete(table, name) == [table EXCEPT ![name] = NoProfile]
==============================================================================
