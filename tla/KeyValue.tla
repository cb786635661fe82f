------------------------------ MODULE KeyValue ------------------------------
(***************************************************************************)
(* borink-kv (borink-core/borink-kv/src/lib.rs): one table of SQLite, with *)
(* a row of metadata and value for each key, behind prepared statements.   *)
(* Metadata are bytes: a prefix of three, the length of the bytes to       *)
(* search on as two, those bytes, and the rest; a prefix picks a kind of   *)
(* rows by a range of metadata.  Keys and values are whatever the users of *)
(* the table put there.  update_if_meta is called by nobody and left out.  *)
(***************************************************************************)
EXTENDS Integers, SequencesExt

Byte == 256
U16Max == Byte * Byte - 1

\* Option::None, the Err of read_meta, and a panic.
Nothing == [nothing |-> TRUE]

\* create_conn: the table of a database that has none yet.
Created == [key \in {} |-> Nothing]

Row(meta, value) == [meta |-> meta, value |-> value]

\* "INSERT OR REPLACE INTO key_value (key, meta, value)".
Insert(table, key, row) ==
    [k \in DOMAIN table \cup {key} |-> IF k = key THEN row ELSE table[k]]

\* "SELECT value, meta FROM key_value WHERE key = ?".
Get(table, key) == IF key \in DOMAIN table THEN table[key] ELSE Nothing

\* The order of blobs: a prefix is less than what it is a prefix of.
Less(a, b) ==
    \E n \in 0 .. Len(a) :
        /\ n < Len(b)
        /\ SubSeq(a, 1, n) = SubSeq(b, 1, n)
        /\ n < Len(a) => a[n + 1] < b[n + 1]

\* "SELECT meta, key FROM key_value WHERE meta >= ? AND meta < ?": the keys.
Metas(table, start, end) ==
    {k \in DOMAIN table :
        ~Less(table[k].meta, start) /\ Less(table[k].meta, end)}

\* Mutant of JoinPrefixWithMeta: leaves out the length of no search bytes.
JoinUnlessEmpty(prefix, search, meta) ==
    IF search = <<>> THEN prefix \o meta
    ELSE prefix \o <<Len(search) % Byte, Len(search) \div Byte>> \o search \o meta

\* join_prefix_with_meta.  Nothing is its panic.
JoinPrefixWithMeta(prefix, search, meta) ==
    LET length == <<Len(search) % Byte, Len(search) \div Byte>>
    IN  IF Len(search) > U16Max THEN Nothing
        ELSE prefix \o length \o search \o meta

\* read_meta.
ReadMeta(meta) ==
    IF Len(meta) < 5 THEN Nothing
    ELSE LET searched == 5 + meta[4] + meta[5] * Byte
         IN  IF Len(meta) < searched THEN Nothing
             ELSE [prefix |-> SubSeq(meta, 1, 3),
                   search |-> SubSeq(meta, 6, searched),
                   meta   |-> SubSeq(meta, searched + 1, Len(meta))]

\* prefix_range: what follows every blob with the prefix start.  Nothing is
\* its panic when all bytes are 255.
PrefixRange(start) ==
    LET carried == {i \in DOMAIN start :
                       start[i] < Byte - 1
                       /\ \A j \in i + 1 .. Len(start) : start[j] = Byte - 1}
        i == CHOOSE c \in carried : TRUE
    IN  IF carried = {} THEN Nothing
        ELSE [j \in DOMAIN start |-> IF j < i THEN start[j]
                                     ELSE IF j = i THEN start[j] + 1 ELSE 0]

=============================================================================
