------------------------------ MODULE Capture ------------------------------
(***************************************************************************)
(* internal/transcript: Capture, the bounded buffer a response body is     *)
(* copied into while it is passed on.  It keeps the first limit bytes for  *)
(* the record and a sliding window of the last Window bytes, where the     *)
(* usage of a streamed response is found.                                  *)
(*                                                                         *)
(* The n-th byte of the response is the number n, so that a buffer shows   *)
(* which part of the response it holds.                                    *)
(***************************************************************************)
EXTENDS Naturals, Sequences

CONSTANTS
    MaxLimit,    \* bound on the configured max_body_bytes
    DefaultMaxBodyBytes,
    Window,      \* tailWindowBytes
    MaxWrite,    \* bound on the bytes of one Write
    MaxTotal     \* bound on the bytes of a response

ASSUME CaptureAssumption ==
    /\ MaxLimit \in Nat /\ DefaultMaxBodyBytes \in Nat \ {0} /\ Window \in Nat \ {0}
    /\ MaxWrite \in Nat /\ MaxTotal \in Nat

VARIABLES
    limit,       \* c.limit
    head,        \* c.head
    tail,        \* c.tail
    total        \* c.total

vars == <<limit, head, tail, total>>

Smaller(m, n) == IF m < n THEN m ELSE n
Bytes(from, to) == [i \in 1..(to + 1 - from) |-> from - 1 + i]

\* Type invariant: the buffers never outgrow the limit and the window.
TypeOK ==
    /\ limit \in Nat \ {0} /\ total \in Nat
    /\ head \in Seq(Nat) /\ Len(head) <= limit
    /\ tail \in Seq(Nat) /\ Len(tail) <= Window

\* NewCapture, for any configured max_body_bytes that validation lets through
Init ==
    /\ \E configured \in 0..MaxLimit :
          limit = IF configured = 0 THEN DefaultMaxBodyBytes ELSE configured
    /\ head = <<>> /\ tail = <<>> /\ total = 0

\* The part of a buffer that fits the window.
LastOf(buffer) ==
    IF Len(buffer) > Window THEN SubSeq(buffer, Len(buffer) - Window + 1, Len(buffer))
    ELSE buffer

\* What of a write of n bytes still fits the head.
\* (Mutant: one byte too few.)
RoomShort(n) == IF Len(head) < limit THEN Smaller(limit - Len(head) - 1, n) ELSE 0
Room(n) == IF Len(head) < limit THEN Smaller(limit - Len(head), n) ELSE 0

Write(n) ==
    /\ total + n <= MaxTotal
    /\ head' = head \o Bytes(total + 1, total + Room(n))
    /\ tail' = LastOf(tail \o Bytes(total + 1, total + n))
    /\ total' = total + n
    /\ UNCHANGED limit

Next == \E n \in 0..MaxWrite : Write(n)

Spec == Init /\ [][Next]_vars

\* Body
Truncated == total > Len(head)

\* ScanText.  (Mutant: it is always the window.)
ScanTail == tail
ScanText == IF Truncated THEN tail ELSE head

-----------------------------------------------------------------------------
(* Properties *)

\* The body a record shows is the beginning of the response, as long as the
\* limit allows, and is marked truncated exactly when bytes are missing.
HeadIsPrefix ==
    /\ head = Bytes(1, Smaller(limit, total))
    /\ Truncated <=> total > limit

\* However the response was cut into writes, its last bytes, up to the size of
\* the window, are in the text that is searched for the usage.
EndIsScanned ==
    \A k \in 1..Smaller(total, Window) :
        /\ Len(ScanText) >= k
        /\ ScanText[Len(ScanText) - k + 1] = total - k + 1
=============================================================================
