--------------------------- MODULE MCTranscript ---------------------------
(* Small instances of Transcript: responses of up to six bytes.             *)
EXTENDS Transcript, TLC

Tokens(p, c, t) == [prompt |-> p, completion |-> c, total |-> t]
Line(from, to, u) == [from |-> from, to |-> to, usage |-> u]
Of(length, usages) == [length |-> length, usages |-> usages]

MCResponses == {
    \* not streamed, with and without tokens
    Of(2, {Line(1, 2, Tokens(1, 1, 0))}), Of(4, {Line(1, 4, Tokens(1, 2, 3))}),
    Of(6, {Line(1, 6, Tokens(1, 1, 2))}), Of(4, {Line(1, 4, Tokens(0, 0, 0))}),
    \* streamed: usage in the last line, in several, early, with zeros at last
    Of(6, {Line(5, 6, Tokens(1, 1, 2))}),
    Of(6, {Line(1, 2, Tokens(0, 1, 0)), Line(3, 4, Tokens(0, 2, 0)), Line(5, 6, Tokens(1, 2, 3))}),
    Of(6, {Line(1, 1, Tokens(1, 1, 2)), Line(3, 4, Tokens(1, 2, 3))}),
    Of(6, {Line(2, 3, Tokens(1, 1, 2)), Line(4, 4, Tokens(0, 0, 0))})}
Symmetry == Permutations(Requests \ {Observed})
=============================================================================
