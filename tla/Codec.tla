------------------------------- MODULE Codec -------------------------------
(***************************************************************************)
(* Data of an entry, and what the compression and encryption libraries do  *)
(* with it.  Data is a sequence of cells.  A cell stands for as much data  *)
(* as the properties tell apart: a byte of the user's file, a run of equal *)
(* bytes in a compressed stream, the header a cipher writes in front of    *)
(* the data, the code an authenticated cipher writes behind it.            *)
(*                                                                         *)
(* The libraries (zlib, libbz2, liblzma, libzstd, the block cipher) are    *)
(* not part of the repository: CompressLib, DecompressLib, Encrypt and     *)
(* Decrypt say what the wrappers rely on.  The wrappers, one `process'     *)
(* function for each library, are translated from lib/zip_algorithm_*.c.   *)
(***************************************************************************)
EXTENDS Integers, Sequences, SequencesExt

Cell(kind, value, count) ==
    [kind |-> kind, v |-> value, n |-> count, key |-> "", at |-> <<>>]

Byte(b) == Cell("byte", b, 1)
Run(c, n) == Cell("run", c.v, n)
EndMark == Cell("end", "", 0)          \* end of a compressed stream
LzmaHeader == Cell("lzma", "", 0)      \* magic, version and parameters
Junk == Cell("junk", "", 0)            \* what decrypting with a wrong key gives

Take(s, n) == SubSeq(s, 1, IF n < Len(s) THEN n ELSE Len(s))
Drop(s, n) == SubSeq(s, n + 1, Len(s))

(***************************************************************************)
(* The stream object of a library: input not consumed yet, the run being   *)
(* collected, output not delivered yet, whether the stream has ended or    *)
(* was found damaged; and, for lzma, whether its header was dealt with.    *)
(***************************************************************************)
NewStream ==
    [in |-> <<>>, run |-> <<>>, out |-> <<>>, ended |-> FALSE, bad |-> FALSE, header |-> FALSE]

Absorb(z, c) ==
    IF z.run # <<>> /\ z.run[1].v = c.v
    THEN [z EXCEPT !.run = <<Run(c, z.run[1].n + 1)>>]
    ELSE [z EXCEPT !.out = @ \o z.run, !.run = <<Run(c, 1)>>]

\* Compress the input; with "finish", end the stream.  At most n cells leave.
Deliver(z, n) == [z |-> [z EXCEPT !.out = Drop(@, n)], data |-> Take(z.out, n)]

CompressLib(z, n, finish) ==
    LET Fed(y) == IF finish /\ ~z.ended
                  THEN [y EXCEPT !.in = <<>>, !.out = @ \o y.run \o <<EndMark>>, !.run = <<>>,
                                 !.ended = TRUE]
                  ELSE [y EXCEPT !.in = <<>>]
    IN  Deliver(Fed(FoldLeft(Absorb, z, z.in)), n)

Expand(z, c) ==
    IF z.ended \/ z.bad THEN [z EXCEPT !.in = Append(@, c)]
    ELSE IF c.kind = "run" /\ c.key = ""
         THEN [z EXCEPT !.out = @ \o [i \in 1 .. c.n |-> Byte(c.v)]]
    ELSE IF c = EndMark THEN [z EXCEPT !.ended = TRUE]
    ELSE [z EXCEPT !.bad = TRUE]

\* A library that works on demand (zlib) stops when its output is full.
RECURSIVE FeedSome(_, _)
FeedSome(z, n) ==
    IF z.in = <<>> \/ z.ended \/ z.bad \/ Len(z.out) >= n THEN z
    ELSE FeedSome([Expand([z EXCEPT !.in = <<>>], Head(z.in)) EXCEPT !.in = Tail(z.in)], n)

\* Decompress the input up to the end of the stream; what follows it stays.
DecompressLib(z, n, onDemand) ==
    Deliver(IF onDemand THEN FeedSome(z, n) ELSE FoldLeft(Expand, [z EXCEPT !.in = <<>>], z.in), n)

(***************************************************************************)
(* The wrappers.  `process' is given room for n cells and returns the      *)
(* stream, the data, and what compress_read is to do next.  `fin' is the   *)
(* wrapper's end_of_input.                                                 *)
(***************************************************************************)
Step(r, status) == [z |-> r.z, data |-> r.data, status |-> status]
NeedData(z) == [z |-> z, data |-> <<>>, status |-> "NEED_DATA"]

Finished(z) == z.ended /\ z.out = <<>>
Progress(z, r) == r.data # <<>> \/ r.z # z

\* deflate: Z_BUF_ERROR (no progress) asks for data, or is an error.
process_deflate(compress, z, n, fin) ==
    LET Ran(r) == Step(r, CASE r.z.bad        -> "ERROR"
                            [] Finished(r.z)  -> "END"
                            [] Progress(z, r) -> "OK"
                            [] OTHER          -> IF z.in = <<>> THEN "NEED_DATA" ELSE "ERROR")
    IN  Ran(IF compress THEN CompressLib(z, n, fin) ELSE DecompressLib(z, n, TRUE))

\* bzip2 asks for data before calling the library, and again when the
\* library used up its input.
process_bzip2(compress, z, n, fin) ==
    LET Ran(r) == Step(r, CASE r.z.bad         -> "ERROR"
                            [] Finished(r.z)   -> "END"
                            [] compress /\ fin -> "OK"
                            [] OTHER           -> IF r.z.in = <<>> THEN "NEED_DATA" ELSE "OK")
    IN  IF z.in = <<>> /\ ~fin THEN NeedData(z)
        ELSE Ran(IF compress THEN CompressLib(z, n, fin) ELSE DecompressLib(z, n, FALSE))

\* zstd never reports the end of a stream it decompresses: compress_read
\* learns of it from the end of the input.
process_zstd(compress, z, n, fin) ==
    LET ending == compress /\ z.in = <<>> /\ fin
        Ran(r) == Step(r, CASE r.z.bad                 -> "ERROR"
                            [] ending /\ Finished(r.z) -> "END"
                            [] OTHER                   -> IF r.z.in = <<>> THEN "NEED_DATA" ELSE "OK")
    IN  IF z.in = <<>> /\ ~fin THEN NeedData(z)
        ELSE Ran(IF compress THEN CompressLib(z, n, ending) ELSE DecompressLib(z, n, FALSE))

\* xz and lzma behave like deflate; lzma puts a header of its own in front.
process_xz(compress, z, n, fin) == process_deflate(compress, z, n, fin)

process_lzma(compress, z, n, fin) ==
    IF compress /\ ~z.header
    THEN [z |-> [z EXCEPT !.header = TRUE], data |-> <<LzmaHeader>>, status |-> "OK"]
    ELSE process_xz(compress, z, n, fin)

Process(method, compress, z, n, fin) ==
    CASE method = "deflate" -> process_deflate(compress, z, n, fin)
      [] method = "bzip2"   -> process_bzip2(compress, z, n, fin)
      [] method = "zstd"    -> process_zstd(compress, z, n, fin)
      [] method = "xz"      -> process_xz(compress, z, n, fin)
      [] method = "lzma"    -> process_lzma(compress, z, n, fin)

\* `input': hand over a buffer.  Refused while the last one is not used up;
\* lzma first takes its header from it.
Input(method, compress, z, data) ==
    CASE z.in # <<>>
           -> [z |-> z, ok |-> FALSE]
      [] method = "lzma" /\ ~compress /\ ~z.header
           -> [z  |-> [z EXCEPT !.header = (data[1] = LzmaHeader),
                                !.in = IF data[1] = LzmaHeader THEN Tail(data) ELSE <<>>],
               ok |-> data[1] = LzmaHeader]
      [] OTHER
           -> [z |-> [z EXCEPT !.in = data], ok |-> TRUE]

(***************************************************************************)
(* Ciphers.  PKWARE's key stream depends on the plain data before, AES's   *)
(* on the position only.                                                   *)
(***************************************************************************)
KeyState(em, plainBefore) ==
    IF em = "trad" THEN plainBefore ELSE [i \in DOMAIN plainBefore |-> Junk]

RECURSIVE Encrypt(_, _, _, _)
Encrypt(em, key, before, data) ==
    IF data = <<>> THEN <<>>
    ELSE <<[Head(data) EXCEPT !.key = key, !.at = KeyState(em, before)]>>
         \o Encrypt(em, key, Append(before, Head(data)), Tail(data))

RECURSIVE Decrypt(_, _, _, _)
Decrypt(em, key, before, data) ==
    IF data = <<>> THEN <<>>
    ELSE LET c == Head(data)
             p == IF c.key = key /\ c.at = KeyState(em, before)
                  THEN [c EXCEPT !.key = "", !.at = <<>>] ELSE Junk
         IN  <<p>> \o Decrypt(em, key, Append(before, p), Tail(data))

\* The authentication code over the encrypted data.
Mac(key, encrypted) == [Cell("mac", "", 0) EXCEPT !.key = key, !.at = encrypted]
=============================================================================
