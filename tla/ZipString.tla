------------------------------ MODULE ZipString ------------------------------
(* Names and comments (zip_string.c, zip_utf-8.c).  The bytes of a string are  *)
(* a record: a text standing for them, their length, and the kind of bytes     *)
(* they are, which is all that _zip_guess_encoding looks at:                   *)
(*   ascii    only 0x20-0x7f and line breaks                                   *)
(*   control  below 0x80, with other control characters                        *)
(*   nul      as control, one of them 0                                        *)
(*   utf8     valid UTF-8 with bytes above 0x7f                                *)
(*   cp437    bytes above 0x7f that are not valid UTF-8                        *)
(* A zip_string_t is such bytes with an encoding; the string of no bytes is    *)
(* the null pointer of the code.                                               *)
EXTENDS Naturals

NoBytes == [text |-> "", kind |-> "ascii", len |-> 0]

EncodingFor(kind, expected) ==
    CASE expected = "utf8_known" ->
            IF kind = "cp437" THEN "error" ELSE "utf8_known"
      [] expected = "cp437" -> "cp437"
      [] expected = "unknown" ->
            CASE kind = "ascii" -> "ascii"
              [] kind = "utf8"  -> "utf8_guessed"
              [] OTHER          -> "cp437"

\* _zip_guess_encoding: an encoding once found is never reconsidered.
GuessEncoding(s, expected) ==
    CASE s.raw.len = 0      -> "ascii"
      [] s.enc # "unknown"  -> s.enc
      [] OTHER              -> EncodingFor(s.raw.kind, expected)

\* _zip_string_new: bytes read from a file are looked at only when needed.
StringNew(raw, expected) ==
    [raw |-> raw,
     enc |-> IF expected = "unknown" THEN "unknown" ELSE EncodingFor(raw.kind, expected)]

NoString == StringNew(NoBytes, "unknown")

\* What _zip_string_get shows: the bytes, or their conversion to UTF-8.
Shown(s) == [text |-> s.raw.text,
             converted |-> s.raw.kind # "ascii" /\ GuessEncoding(s, "unknown") = "cp437"]

IsAscii(raw) == raw.kind \in {"ascii", "control", "nul"}
=============================================================================
