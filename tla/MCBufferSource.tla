--------------------------- MODULE MCBufferSource ---------------------------
(***************************************************************************)
(* A source in memory of up to two fragments, and a writer that passes one *)
(* byte or more than a fragment holds; and a source with holes, with or    *)
(* without a file whose fragments have another size.  They share no state: *)
(* each behaviour is one of the one or of the other.                       *)
(***************************************************************************)
EXTENDS BufferSource

CONSTANTS NONE, DAMAGED

VARIABLES part, file, hole_in, hole_out, hole_data, hole_open_count, hole_write_state, fault

MCUserFragments == {<<>>, << <<1>>, <<>>, <<2, 3>> >>, << <<1>>, NULL >>}

MCWritten == {<<4>>, <<4, 5>>}

MCSeeks == {<<n, "SET">> : n \in 0 .. 2} \cup {<<-1, "CUR">>, <<0, "END">>, <<-1, "END">>, <<1, "END">>}

\* A hole of one fragment, a fragment, and the beginning of another hole.
HoleFile ==
    [fragment_size |-> 1, size |-> 3,
     chunks |-> <<[kind |-> "nul", bytes |-> <<>>, n |-> 1], [kind |-> "data", bytes |-> <<7>>, n |-> 1],
                  [kind |-> "nul", bytes |-> <<>>, n |-> 1]>>]

Hole == INSTANCE HoleSource WITH
    InitialFiles <- {NONE, HoleFile},
    Written <- {<<0>>, <<0, 5>>},
    Seeks <- {<<0, "SET">>, <<-1, "END">>},
    MaxSize <- 3, MaxOpens <- 1,
    in <- hole_in, out <- hole_out, data <- hole_data,
    open_count <- hole_open_count, write_state <- hole_write_state

holeVars == <<file, hole_in, hole_out, hole_data, hole_open_count, hole_write_state, fault>>

MCInit == part \in {"buffer", "hole"} /\ Init /\ Hole!Init /\ (part = "buffer" => file = NONE)

MCNext ==
    \/ part = "buffer" /\ Next /\ UNCHANGED <<holeVars, part>>
    \/ part = "hole" /\ Hole!Next /\ UNCHANGED <<vars, part>>

MCSpec == MCInit /\ [][MCNext]_<<vars, holeVars, part>>

\* The source with holes gives back what was written to it, now and after it was
\* made again from its file: HoleSource implements ByteFile.
HoleKeepsBytes == Hole!HoleKeepsBytes

=============================================================================
