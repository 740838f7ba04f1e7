------------------------------- MODULE Keyspace -------------------------------
(***************************************************************************)
(* How a session's data is named and found again: the storage keys         *)
(* (src/src/storage/namespace.ts), the place each adapter gives a key, and *)
(* which keys it reports or clears under a prefix.  A name is a sequence   *)
(* of characters; a word that is never taken apart counts as one.           *)
(***************************************************************************)
EXTENDS Integers, Sequences, SequencesExt

CONSTANTS MaxName,   \* the longest encoded file name, 200 in the code
          Char       \* the characters, and the words that count as one

Namespace == <<"whatsmulti">>
Creds == <<"creds">>
Meta == <<"meta">>
SignalType == {<<"pre", "-", "key">>, <<"session">>, <<"sender", "-", "key">>}

\* The code's words, what an encoding is made of, and what it replaces.
ASSUME CharAssumption ==
  {"whatsmulti", "creds", "meta", "pre", "key", "session", "sender", "-",
   "%", ":", "/", "@", "0", "2", "3", "4", "5", "A", "F"} \subseteq Char
ASSUME MaxNameAssumption == MaxName \in Nat

\* Percent-encoding of the characters in C.
Hex == [c \in {"%", ":", "/", "@"} |->
          CASE c = "%" -> <<"%", "2", "5">> [] c = ":" -> <<"%", "3", "A">>
            [] c = "/" -> <<"%", "2", "F">> [] c = "@" -> <<"%", "4", "0">>]
Encoded(name, C) ==
  FlattenSeq([i \in DOMAIN name |-> IF name[i] \in C THEN Hex[name[i]] ELSE <<name[i]>>])

Decoded(name) ==
  LET rest[i \in 1..(Len(name) + 1)] ==
        IF i > Len(name) THEN <<>>
        ELSE LET cs == {c \in DOMAIN Hex : i + 2 <= Len(name) /\ Hex[c] = SubSeq(name, i, i + 2)}
             IN IF cs = {} THEN <<name[i]>> \o rest[i + 1]
                ELSE <<CHOOSE c \in cs : TRUE>> \o rest[i + 3]
  IN rest[1]

EncodeKey(key) == Encoded(key, {"%", ":", "/"})

NamespacePrefix == Namespace \o <<":">>

\* Mutant of SessionPrefix: the prefix stops at the id.
SessionPrefixOpen(id) == NamespacePrefix \o id

SessionPrefix(id) == NamespacePrefix \o id \o <<":">>
StorageKey(id, key) == SessionPrefix(id) \o EncodeKey(key)

\* sessionLockKey: what a lock provider is asked for.
LockKey(id) == <<"session", ":">> \o id

\* The part of s after its first n characters, and where its first ":" is.
After(s, n) == SubSeq(s, n + 1, Len(s))
Colon(s) == IF Contains(s, ":") THEN CHOOSE i \in DOMAIN s : s[i] = ":" /\ ~Contains(SubSeq(s, 1, i - 1), ":")
            ELSE 0

\* The session and the encoded key of a full key of the namespace.
Split(full) ==
  LET rest == After(full, Len(NamespacePrefix))
  IN [id |-> SubSeq(rest, 1, Colon(rest) - 1), tail |-> After(rest, Colon(rest))]

ParseStorageKey(full) == [id |-> Split(full).id, key |-> Decoded(Split(full).tail)]

\* parseSignalKey: a name of ours, or without a type in front, is none.
IsSignalKey(key) ==
  key \notin {Creds, Meta} /\ \E t \in SignalType : IsStrictPrefix(Append(t, "-"), key)

-----------------------------------------------------------------------------
(* Places                                                                    *)

\* A file: the name when it is short, or else its digest, which stands for it.
FileName(key) ==
  LET stem == Encoded(key, DOMAIN Hex)
  IN IF Len(stem) <= MaxName THEN [stem |-> stem, digest |-> <<>>]
     ELSE [stem |-> <<>>, digest |-> key]

\* Back from the name, or from the envelope inside.
KeyOfFile(file) == IF file.digest = <<>> THEN Decoded(file.stem) ELSE file.digest

\* Where the adapter keeps a full key: a file, a row, or the key itself.
Place(adapter, full) ==
  CASE adapter = "file" -> [dir |-> ParseStorageKey(full).id, file |-> FileName(ParseStorageKey(full).key)]
    [] adapter = "sql" -> Split(full)
    [] OTHER -> full

-----------------------------------------------------------------------------
(* Prefixes                                                                  *)

\* Rows split in two, so a prefix that reaches into the key is taken apart too.
InScope(row, prefix) ==
  LET rest == After(prefix, Len(NamespacePrefix))
  IN \/ IsPrefix(prefix, NamespacePrefix)
     \/ /\ IsPrefix(NamespacePrefix, prefix)
        /\ IF Colon(rest) = 0 THEN IsPrefix(rest, row.id)
           ELSE /\ row.id = SubSeq(rest, 1, Colon(rest) - 1)
                /\ IsPrefix(After(rest, Colon(rest)), row.tail)

\* The session's directory is within the prefix, or the prefix within it.
InDirectory(place, prefix) ==
  LET dir == SessionPrefix(place.dir)
  IN \/ IsPrefix(prefix, dir)
     \/ IsPrefix(dir, prefix) /\ IsPrefix(prefix, dir \o EncodeKey(KeyOfFile(place.file)))

\* Whether keys(prefix) and clear(prefix) find a full key.
Selects(adapter, prefix, full) ==
  CASE adapter = "file" -> InDirectory(Place(adapter, full), prefix)
    [] adapter = "sql" -> InScope(Split(full), prefix)
    [] OTHER -> IsPrefix(prefix, full)

\* The full key that keys() reports for a place.
Reported(adapter, full) ==
  CASE adapter = "file" ->
         StorageKey(Place(adapter, full).dir, KeyOfFile(Place(adapter, full).file))
    [] adapter = "sql" -> SessionPrefix(Split(full).id) \o Split(full).tail
    [] OTHER -> full
=============================================================================
