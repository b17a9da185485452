---------------------------- MODULE MCOpenArchive ----------------------------
(* Small instances of OpenArchive: headers have their real sizes, 32-bit       *)
(* fields reach 120, so that archives of two entries cross the boundary.       *)
EXTENDS OpenArchive

Raw(text, kind, len) == [text |-> text, kind |-> kind, len |-> len]
Ascii(text)          == StringNew(Raw(text, "ascii", 1), "unknown")

Data(size) == [size |-> size, at |-> IF size = 0 THEN <<>> ELSE 0 :> [magic |-> "data"]]

\* The archive without entries, as another program writes it.
EmptyArchive ==
    [size |-> EOCDLEN,
     at |-> 0 :> [magic |-> "EOCD", thisDisk |-> 0, cdirDisk |-> 0, diskEntries |-> 0,
                  entries |-> 0, size |-> 0, offset |-> 0, commentLen |-> 0]]

Addition(name, comment, content, known, method, encr) ==
    [name |-> name, comment |-> comment, content |-> content, known |-> known,
     method |-> method, encr |-> encr, crc |-> 7, time |-> 5]

MCAdditions == {
    Addition(StringNew(Raw("u", "utf8", 2), "utf8_known"), StringNew(Raw("c", "cp437", 1), "cp437"),
             Data(5), TRUE, "deflate", "none"),
    Addition(StringNew(Raw("g", "utf8", 2), "cp437"), NoString, Data(0), FALSE, "deflate", "aes"),
    Addition(StringNew(Raw("k", "utf8", 2), "utf8_known"), Ascii("x"), Data(30), TRUE, "store", "pkware"),
    Addition(Ascii("z"), NoString, EmptyArchive, TRUE, "store", "none"),
    Addition(Ascii("m"), NoString, Data(119), FALSE, "store", "none"),
    Addition(Ascii("l"), NoString, Data(121), TRUE, "store", "none")}

MCFields == {[id |-> 7, len |-> 1, data |-> "a"], [id |-> 8, len |-> 3, data |-> "b"]}
MCTimes == {-1, 9}
MCComments == {EmptyFile, EmptyArchive}
MCPrefixes == {1, 40}
MCNumbers == {"method", "time", "crc", "comp", "uncomp", "offset", "entries", "diskEntries", "size"}

\* Deflate makes long data shorter and short data longer.
MCDeflated(n)    == IF n = 0 THEN 2 ELSE n - n \div 2 + 3
MCMaxDeflated(n) == n + 6
=============================================================================
