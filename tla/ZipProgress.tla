----------------------------- MODULE ZipProgress ----------------------------
(***************************************************************************)
(* The progress object of an archive: zip_close reports how much of its    *)
(* work is done, and asks whether it is to go on.  What is done is counted *)
(* in Whole parts.  shown is what the progress callback has been called    *)
(* with; the cancel callback of the program stops when the last of these   *)
(* has reached its limit.  The limits of the current section and the last  *)
(* report are not set when the object is made.                             *)
(***************************************************************************)
EXTENDS Integers, Sequences

Whole == 12

\* What a variable may hold that nobody has set.
Unset == -1

\* zip_register_progress_callback_with_state and ..._cancel_callback_...
NewProgress == [shown |-> <<>>, limit |-> Whole + 1, last |-> Unset, start |-> Unset, end |-> Unset]

Reported(pr) == IF pr.shown = <<>> THEN 0 ELSE pr.shown[Len(pr.shown)]

\* The answer of the cancel callback.
Cancels(pr) == Reported(pr) >= pr.limit

Show(pr, current) == [pr EXCEPT !.shown = Append(@, current), !.last = current]

\* _zip_progress_start
Start(pr) == Show(pr, 0)

\* Faulty variant: every update is reported.
UpdateAlways(pr, part, of) ==
    Show(pr, pr.start + ((IF part > of THEN of ELSE part) * (pr.end - pr.start)) \div of)

\* _zip_progress_update of part / of, at most 1, with the precision of ziptool,
\* which is less than any difference there is.
Update(pr, part, of) ==
    LET current == pr.start + ((IF part > of THEN of ELSE part) * (pr.end - pr.start)) \div of
    IN IF current > pr.last \/ (pr.last < Whole /\ current = Whole) THEN Show(pr, current)
       ELSE pr

\* _zip_progress_subrange for the j-th of n sections, counted from 0.
Subrange(pr, j, n) ==
    Update([pr EXCEPT !.start = (j * Whole) \div n, !.end = ((j + 1) * Whole) \div n], 0, 1)

\* _zip_progress_end; without any section before, the limits it computes with
\* are whatever the memory held.
End(pr) == IF pr.end = Unset THEN {pr, Show(pr, Unset)} ELSE {Update(pr, 1, 1)}
=============================================================================
