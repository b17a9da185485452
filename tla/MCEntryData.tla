---------------------------- MODULE MCEntryData ----------------------------
EXTENDS EntryData, TLC

MCContents == {<<>>, <<"a", "b">>, <<"a", "a", "b">>}

De(method, em, changed, mtime, password) ==
    [method |-> method, em |-> em, changed |-> changed, mtime |-> mtime, password |-> password]

\* A request for archive 1, and the source it comes from.
AddAs(method, em) ==
    [de |-> De(method, em, {}, "old", IF em = "none" THEN NoPassword ELSE Password),
     known |-> {"size"}, supports |-> {}, chunk |-> 2, failAt |-> Unlimited]

Failing(method, known) == [AddAs(method, "none") EXCEPT !.known = known, !.chunk = 1, !.failAt = 1]

Copy(flags, de) ==
    [flags |-> flags, de |-> de, password |-> Password, garbage |-> {"anything"}]

Way(flags, start, len, password) ==
    [flags |-> flags, start |-> start, len |-> len, password |-> password, request |-> {}]

Whole == Way({}, 0, -1, Password)

\* A request whose source can be read more than once.
Rereadable(method, em, known) ==
    [AddAs(method, em) EXCEPT !.known = known, !.supports = {"SEEK", "REOPEN"}]

Program(adds, copies, opens1, opens2, seeks) ==
    [adds |-> adds, copies |-> copies, opens |-> [r \in Readers |-> IF r = "r1" THEN opens1 ELSE opens2],
     changed |-> [r \in Readers |-> {}],
     seeks |-> [r \in Readers |-> seeks]]

\* Reading what was added before it is stored.
Reading(requests, ways) ==
    [Program({}, {}, ways, {}, 1) EXCEPT !.changed = [r \in Readers |-> requests]]

\* Every way to add an entry, and every way to open it; two files open at
\* once on one archive; copies into a second archive.
MCPrograms ==
    {Program({AddAs("store", em) : em \in {"none", "trad", "aes"}}
               \cup {AddAs("default", "none"), AddAs("default", "trad"), AddAs("zstd", "aes"),
                     Failing("default", {}), Failing("store", {"size", "crc", "mtime"})},
             {}, {Way({}, 0, -1, p) : p \in {Password, "wrong", NoPassword}}
                 \cup {Way({}, 1, 1, Password), Way({}, 0, 2, "wrong"),
                       Way({"COMPRESSED"}, 0, -1, Password), Way({"ENCRYPTED"}, 0, -1, NoPassword)},
             {}, 1),
     Program({AddAs("store", "none"), AddAs("deflate", "none"), AddAs("default", "trad"),
              AddAs("store", "aes"), AddAs("zstd", "aes")}, {},
             {Whole, Way({}, 1, 1, Password)}, {Whole}, 1),
     Program({AddAs("store", "none"), AddAs("default", "trad"), AddAs("store", "aes"), AddAs("zstd", "aes")},
             {Copy({}, De("default", "none", {"mtime"}, "new", NoPassword)),
              Copy({}, De("zstd", "trad", {"method", "mtime", "password"}, "new", Password)),
              Copy({"COMPRESSED"}, De("default", "trad", {}, "new", NoPassword)),
              Copy({"ENCRYPTED"}, De("default", "aes", {}, "new", NoPassword))},
             {Whole}, {}, 0),
     Reading({Rereadable("default", "none", {"size"}), Rereadable("store", "trad", {"size", "comp"}),
              Rereadable("zstd", "none", {"size"}), Rereadable("store", "none", {})},
             {Whole, Way({}, 1, 1, Password), Way({"COMPRESSED"}, 0, -1, Password)})}

=============================================================================
