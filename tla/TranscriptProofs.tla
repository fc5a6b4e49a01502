-------------------------- MODULE TranscriptProofs --------------------------
(***************************************************************************)
(* Proofs about Capture and Transcript, for any limit, window, response    *)
(* and number of requests: the record shows the beginning of the response  *)
(* and the last usage in it, the end of the response is always searched,   *)
(* and what failures and restarts do to the file stays local.              *)
(***************************************************************************)
EXTENDS Transcript, TLAPS, SequenceTheorems, WellFoundedInduction

\* Each buffer holds one stretch of the response.
Stretches ==
    /\ head = Bytes(1, Smaller(limit, total))
    /\ tail = Bytes(total + 1 - Smaller(Window, total), total)

BInv == TypeOK /\ Stretches

\* A stretch is a sequence of as many numbers.
LEMMA BytesType ==
    ASSUME NEW a \in Nat, NEW b \in Nat, a <= b + 1
    PROVE  /\ Bytes(a, b) \in Seq(Nat)
           /\ Len(Bytes(a, b)) = b + 1 - a
           /\ \A i \in 1..(b + 1 - a) : Bytes(a, b)[i] = a - 1 + i
  <1>1. b + 1 - a \in Nat  OBVIOUS
  <1>2. \A i \in 1..(b + 1 - a) : a - 1 + i \in Nat  OBVIOUS
  <1> QED  BY <1>1, <1>2 DEF Bytes

\* Adjacent stretches join.
LEMMA BytesJoin ==
    ASSUME NEW a \in Nat, NEW b \in Nat, NEW c \in Nat, a <= b + 1, b <= c
    PROVE  Bytes(a, b) \o Bytes(b + 1, c) = Bytes(a, c)
  <1> DEFINE l == Bytes(a, b)
             r == Bytes(b + 1, c)
             w == Bytes(a, c)
  <1>1. l \in Seq(Nat) /\ Len(l) = b + 1 - a /\ \A i \in 1..(b + 1 - a) : l[i] = a - 1 + i
    BY BytesType
  <1>2. r \in Seq(Nat) /\ Len(r) = c - b /\ \A i \in 1..(c - b) : r[i] = b + i
    <2>1. b + 1 \in Nat /\ b + 1 <= c + 1  OBVIOUS
    <2>2. /\ r \in Seq(Nat) /\ Len(r) = c + 1 - (b + 1)
          /\ \A i \in 1..(c + 1 - (b + 1)) : r[i] = b + 1 - 1 + i
      BY <2>1, BytesType
    <2>3. c + 1 - (b + 1) = c - b /\ b + 1 - 1 = b  OBVIOUS
    <2> HIDE DEF r
    <2> QED  BY <2>2, <2>3
  <1>3. w \in Seq(Nat) /\ Len(w) = c + 1 - a /\ \A i \in 1..(c + 1 - a) : w[i] = a - 1 + i
    <2>1. a <= c + 1  OBVIOUS
    <2> QED  BY <2>1, BytesType
  <1> HIDE DEF l, r, w
  <1>4. /\ l \o r \in Seq(Nat) /\ Len(l \o r) = Len(l) + Len(r)
        /\ \A i \in 1..(Len(l) + Len(r)) : (l \o r)[i] = IF i <= Len(l) THEN l[i] ELSE r[i - Len(l)]
    BY <1>1, <1>2, ConcatProperties
  <1>5. Len(l \o r) = Len(w) /\ Len(w) = Len(l) + Len(r)  BY <1>1, <1>2, <1>3, <1>4
  <1>6. ASSUME NEW i \in 1..Len(w) PROVE (l \o r)[i] = w[i]
    <2>1. CASE i <= Len(l)
      <3>1. i \in 1..(b + 1 - a)  BY <2>1, <1>1
      <3>2. i \in 1..(c + 1 - a)  BY <1>3
      <3> QED  BY <2>1, <3>1, <3>2, <1>1, <1>3, <1>4, <1>5
    <2>2. CASE ~(i <= Len(l))
      <3>1. i - Len(l) \in 1..(c - b) /\ b + (i - Len(l)) = a - 1 + i  BY <2>2, <1>1, <1>3
      <3>2. i \in 1..(c + 1 - a)  BY <1>3
      <3>3. r[i - Len(l)] = a - 1 + i  BY <3>1, <1>2
      <3> QED  BY <2>2, <3>2, <3>3, <1>3, <1>4, <1>5
    <2> QED  BY <2>1, <2>2
  <1>7. l \o r = w  BY <1>3, <1>4, <1>5, <1>6, SeqEqual
  <1> QED  BY <1>7 DEF l, r, w

\* The end of a stretch is a stretch.
LEMMA BytesEnd ==
    ASSUME NEW a \in Nat, NEW c \in Nat, NEW k \in Nat, a <= c + 1, k <= c + 1 - a
    PROVE  SubSeq(Bytes(a, c), c + 1 - a - k + 1, c + 1 - a) = Bytes(c + 1 - k, c)
  <1> DEFINE w == Bytes(a, c)
             n == c + 1 - a
             s == SubSeq(w, n - k + 1, n)
             e == Bytes(c + 1 - k, c)
  <1>1. w \in Seq(Nat) /\ Len(w) = n /\ \A i \in 1..n : w[i] = a - 1 + i  BY BytesType
  <1>2. e \in Seq(Nat) /\ Len(e) = k /\ \A i \in 1..k : e[i] = c - k + i
    <2>1. c + 1 - k \in Nat /\ c + 1 - k <= c + 1  OBVIOUS
    <2> QED  BY <2>1, BytesType
  <1>3. n \in Nat /\ n - k + 1 \in Int  OBVIOUS
  <1>4. \A i \in (n - k + 1)..n : w[i] \in Nat  BY <1>1, <1>3
  <1> HIDE DEF w, e
  <1>5. /\ s \in Seq(Nat) /\ Len(s) = k
        /\ \A i \in 1..k : s[i] = w[n - k + 1 + i - 1]
    <2>1. /\ s \in Seq(Nat)
          /\ Len(s) = IF n - k + 1 <= n THEN n - (n - k + 1) + 1 ELSE 0
          /\ \A i \in 1..(n - (n - k + 1) + 1) : s[i] = w[n - k + 1 + i - 1]
      BY <1>3, <1>4, SubSeqProperties
    <2> QED  BY <2>1, <1>3
  <1>6. \A i \in 1..k : s[i] = e[i]  BY <1>1, <1>2, <1>3, <1>5
  <1>7. s = e  BY <1>2, <1>5, <1>6, SeqEqual
  <1> QED  BY <1>7 DEF w, e

\* The lengths of the buffers, and what they hold, number by number.
LEMMA Contents ==
    ASSUME BInv
    PROVE  /\ Len(head) = Smaller(limit, total)
           /\ \A i \in 1..Len(head) : head[i] = i
           /\ Len(tail) = Smaller(Window, total)
           /\ \A i \in 1..Len(tail) : tail[i] = total - Smaller(Window, total) + i
  <1> USE CaptureAssumption DEF BInv, TypeOK
  <1> DEFINE h == Smaller(limit, total)
             w == Smaller(Window, total)
  <1>1. h \in Nat /\ w \in Nat /\ w <= total  BY DEF Smaller
  <1> HIDE DEF h, w
  <1>2. head = Bytes(1, h) /\ tail = Bytes(total + 1 - w, total)
    BY DEF Stretches, h, w
  <1>3. /\ 1 <= h + 1 /\ h + 1 - 1 = h
        /\ total + 1 - w \in Nat /\ total + 1 - w <= total + 1
        /\ total + 1 - (total + 1 - w) = w /\ total + 1 - w - 1 = total - w
    BY <1>1
  <1> DEFINE front == Bytes(1, h)
             from == total + 1 - w
             back == Bytes(from, total)
  <1>4. Len(front) = h + 1 - 1 /\ \A i \in 1..(h + 1 - 1) : front[i] = 1 - 1 + i
    <2>1. 1 \in Nat /\ h \in Nat /\ 1 <= h + 1  BY <1>1
    <2> QED  BY <2>1, BytesType
  <1>5. Len(back) = total + 1 - from /\ \A i \in 1..(total + 1 - from) : back[i] = from - 1 + i
    <2>1. from \in Nat /\ total \in Nat /\ from <= total + 1  BY <1>3
    <2> HIDE DEF from
    <2> QED  BY <2>1, BytesType
  <1>8. head = front /\ tail = back  BY <1>2
  <1>9. total + 1 - from = w /\ from - 1 = total - w  BY <1>1
  <1> HIDE DEF front, back, from
  <1>6. Len(head) = h /\ \A i \in 1..h : head[i] = i
    BY <1>1, <1>3, <1>4, <1>8
  <1>7. Len(tail) = w /\ \A i \in 1..w : tail[i] = total - w + i
    BY <1>1, <1>5, <1>8, <1>9
  <1> QED  BY <1>6, <1>7 DEF h, w

\* A write lengthens both stretches.
LEMMA WriteKeeps ==
    ASSUME BInv, NEW n \in Nat, Write(n)
    PROVE  BInv'
  <1> USE CaptureAssumption DEF BInv, TypeOK
  <1> DEFINE t == total + n
             old == Smaller(Window, total)
             kept == Smaller(Window, t)
  <1>1. t \in Nat /\ total' = t /\ limit' = limit  BY DEF Write
  <1>2. head' = Bytes(1, Smaller(limit, t))
    <2> DEFINE h == Smaller(limit, total)
    <2>1. h \in Nat  BY DEF Smaller
    <2>4. Len(head) = h  BY Contents
    <2>2. CASE h < limit
      <3>1. h = total /\ total + Room(n) = Smaller(limit, t)
            /\ Smaller(limit, t) \in Nat /\ total <= Smaller(limit, t)
        BY <2>1, <2>2, <2>4 DEF Room, Smaller
      <3>2. head' = Bytes(1, total) \o Bytes(total + 1, Smaller(limit, t))
        BY <3>1 DEF Write, Stretches
      <3> DEFINE m == Smaller(limit, t)
      <3>3. m \in Nat /\ total <= m /\ 1 \in Nat /\ 1 <= total + 1  BY <3>1
      <3> HIDE DEF m
      <3>4. Bytes(1, total) \o Bytes(total + 1, m) = Bytes(1, m)  BY <3>3, BytesJoin
      <3> QED  BY <3>2, <3>4 DEF m
    <2>3. CASE h >= limit
      <3>1. h = limit /\ Smaller(limit, t) = limit /\ Room(n) = 0
        BY <2>1, <2>3, <2>4 DEF Room, Smaller
      <3>2. Bytes(total + 1, total + 0) = <<>>
        <4>1. total + 1 \in Nat /\ total + 1 <= total + 1 /\ total + 1 - (total + 1) = 0
          OBVIOUS
        <4>2. Bytes(total + 1, total) \in Seq(Nat)
              /\ Len(Bytes(total + 1, total)) = total + 1 - (total + 1)
          BY <4>1, BytesType
        <4> QED  BY <4>1, <4>2, EmptySeq
      <3>3. head \o <<>> = head  BY ConcatEmptySeq
      <3> QED  BY <3>1, <3>2, <3>3 DEF Write, Stretches
    <2> QED  BY <2>1, <2>2, <2>3
  <1>3. tail' = Bytes(t + 1 - kept, t)
    <2> DEFINE a == total + 1 - old
               buffer == tail \o Bytes(total + 1, t)
    <2>1. a \in Nat /\ old \in Nat /\ kept \in Nat /\ a <= total + 1 /\ total <= t
      BY DEF Smaller
    <2>2. buffer = Bytes(a, t)
      <3>1. tail = Bytes(a, total)  BY DEF Stretches
      <3> QED  BY <2>1, <3>1, <1>1, BytesJoin
    <2>3. Len(buffer) = t + 1 - a
      <3>1. a <= t + 1  BY <2>1, <1>1
      <3> QED  BY <2>1, <2>2, <3>1, <1>1, BytesType
    <2>4. tail' = LastOf(buffer)  BY DEF Write
    <2> HIDE DEF buffer
    <2>5. CASE Len(buffer) > Window
      <3>1. kept = Window /\ Window <= t + 1 - a  BY <2>3, <2>5, <1>1 DEF Smaller
      <3>2. SubSeq(buffer, t + 1 - a - Window + 1, t + 1 - a) = Bytes(t + 1 - Window, t)
        <4>1. a <= t + 1 /\ Window \in Nat  BY <2>1, <1>1
        <4> QED  BY <2>1, <2>2, <3>1, <4>1, <1>1, BytesEnd
      <3>3. tail' = SubSeq(buffer, Len(buffer) - Window + 1, Len(buffer))
        BY <2>4, <2>5 DEF LastOf
      <3> HIDE DEF a, t
      <3>4. tail' = Bytes(t + 1 - Window, t)  BY <1>1, <2>1, <2>3, <3>2, <3>3
      <3> QED  BY <3>1, <3>4
    <2>6. CASE Len(buffer) <= Window
      <3>1. a = t + 1 - kept  BY <2>3, <2>6, <1>1 DEF Smaller
      <3>2. ~(Len(buffer) > Window)  BY <2>1, <2>3, <2>6, <1>1
      <3>3. tail' = buffer  BY <2>4, <3>2 DEF LastOf
      <3> QED  BY <2>2, <3>1, <3>3
    <2> QED  BY <2>1, <2>3, <2>5, <2>6, <1>1
  <1>4. Stretches'  BY <1>1, <1>2, <1>3 DEF Stretches
  <1>5. TypeOK'
    <2>1. Smaller(limit, t) \in Nat /\ Smaller(limit, t) <= limit
          /\ kept \in Nat /\ kept <= Window /\ kept <= t
      BY <1>1 DEF Smaller
    <2>2. head' \in Seq(Nat) /\ Len(head') <= limit
      <3> DEFINE h == Smaller(limit, t)
      <3>1. h \in Nat /\ h <= limit  BY <2>1
      <3> HIDE DEF h
      <3>2. 1 <= h + 1 /\ h + 1 - 1 = h  BY <3>1
      <3>3. Bytes(1, h) \in Seq(Nat) /\ Len(Bytes(1, h)) = h + 1 - 1  BY <3>1, <3>2, BytesType
      <3> QED  BY <1>2, <3>1, <3>2, <3>3 DEF h
    <2>3. t + 1 - kept \in Nat /\ t + 1 - kept <= t + 1  BY <1>1, <2>1
    <2>4. tail' \in Seq(Nat) /\ Len(tail') = kept
      <3> HIDE DEF t, kept
      <3>1. Bytes(t + 1 - kept, t) \in Seq(Nat)
            /\ Len(Bytes(t + 1 - kept, t)) = t + 1 - (t + 1 - kept)
        BY <1>1, <2>3, BytesType
      <3>2. t + 1 - (t + 1 - kept) = kept  BY <1>1, <2>1
      <3> QED  BY <1>3, <3>1, <3>2
    <2> QED  BY <1>1, <2>1, <2>2, <2>4
  <1> QED  BY <1>4, <1>5

\* The buffers hold what they should after every write.
THEOREM CaptureInvariant == Spec => []BInv
  <1> USE CaptureAssumption
  <1>1. Init => BInv
    <2> SUFFICES ASSUME Init PROVE BInv  OBVIOUS
    <2>1. limit \in Nat \ {0}  BY DEF Init
    <2>2. Bytes(1, 0) = <<>>
      <3>1. Bytes(1, 0) \in Seq(Nat) /\ Len(Bytes(1, 0)) = 0  BY BytesType
      <3> QED  BY <3>1, EmptySeq
    <2>3. Smaller(limit, 0) = 0 /\ Smaller(Window, 0) = 0  BY <2>1 DEF Smaller
    <2> QED  BY <2>1, <2>2, <2>3, EmptySeq DEF Init, BInv, TypeOK, Stretches
  <1>2. BInv /\ [Next]_vars => BInv'
    <2>1. BInv /\ UNCHANGED vars => BInv'  BY DEF vars, BInv, TypeOK, Stretches
    <2>2. 0..MaxWrite \subseteq Nat  OBVIOUS
    <2> QED  BY <2>1, <2>2, WriteKeeps DEF Next
  <1> QED  BY <1>1, <1>2, PTL DEF Spec

\* A record's body is the beginning of the response.
THEOREM BodyIsPrefix == Spec => []HeadIsPrefix
  <1>1. BInv => HeadIsPrefix
    <2> SUFFICES ASSUME BInv PROVE HeadIsPrefix  OBVIOUS
    <2>1. Len(head) = Smaller(limit, total)  BY Contents
    <2> QED  BY <2>1 DEF BInv, TypeOK, Stretches, HeadIsPrefix, Truncated, Smaller
  <1> QED  BY <1>1, CaptureInvariant, PTL

\* The end of a response is searched for the usage, whatever its length.
THEOREM UsageWindow == Spec => []EndIsScanned
  <1>1. BInv => EndIsScanned
    <2> SUFFICES ASSUME BInv, NEW k \in 1..Smaller(total, Window)
                 PROVE  /\ Len(ScanText) >= k
                        /\ ScanText[Len(ScanText) - k + 1] = total - k + 1
      BY DEF EndIsScanned
    <2> USE CaptureAssumption DEF BInv, TypeOK, Smaller
    <2>1. k \in Nat /\ 1 <= k /\ k <= total /\ k <= Window  OBVIOUS
    <2>2. CASE Truncated
      <3>1. Len(tail) = Smaller(Window, total)
            /\ \A i \in 1..Len(tail) : tail[i] = total - Smaller(Window, total) + i
        BY Contents
      <3>2. tail[Len(tail) - k + 1] = total - k + 1
        <4>1. Len(tail) \in Nat /\ k <= Len(tail)  BY <2>1, <3>1
        <4>2. Len(tail) - k + 1 \in 1..Len(tail)  BY <2>1, <4>1
        <4> QED  BY <2>1, <3>1, <4>1, <4>2
      <3> QED  BY <2>1, <2>2, <3>1, <3>2 DEF ScanText
    <2>3. CASE ~Truncated
      <3>1. Len(head) = Smaller(limit, total)
            /\ \A i \in 1..Len(head) : head[i] = i
        BY Contents
      <3>2. Len(head) = total  BY <2>3, <3>1 DEF Truncated
      <3> QED  BY <2>1, <2>3, <3>1, <3>2 DEF ScanText
    <2> QED  BY <2>2, <2>3
  <1> QED  BY <1>1, CaptureInvariant, PTL

-----------------------------------------------------------------------------
(* From the response to the usage *)

\* What Transcript does to the buffers is what Capture does.
LEMMA CaptureSteps == ASSUME [TNext]_transcript PROVE [Next]_vars
  <1>1. CASE \E n \in 0..MaxWrite : Receive(n)  BY <1>1 DEF Receive, Next
  <1>2. CASE UNCHANGED transcript  BY <1>2 DEF transcript
  <1>3. CASE ~(\E n \in 0..MaxWrite : Receive(n)) /\ TNext
    BY <1>3 DEF TNext, Finish, Record, WriteParts, FailWrite, Close, End, Start
  <1> QED  BY <1>1, <1>2, <1>3

\* Transcript implements Capture.
THEOREM TranscriptImplementsCapture == TSpec => Spec
  <1>1. TInit => Init  BY DEF TInit
  <1>2. [TNext]_transcript => [Next]_vars  BY CaptureSteps
  <1> QED  BY <1>1, <1>2, PTL DEF TSpec, Spec

\* A nonempty set of naturals has a least element.
LEMMA LeastNat ==
    ASSUME NEW S, S \subseteq Nat, S # {}
    PROVE  \E m \in S : \A n \in S : m <= n
  <1> DEFINE R == {ss \in Nat \X Nat : ss[1] < ss[2]}
  <1>1. IsWellFoundedOn(R, Nat)  BY NatLessThanWellFounded DEF OpToRel
  <1>2. \E x \in S : \A y \in S : ~(<<y, x>> \in R)
    <2> HIDE DEF R
    <2> QED  BY <1>1, WFMin
  <1>3. PICK x \in S : \A y \in S : ~(<<y, x>> \in R)  BY <1>2
  <1>4. ASSUME NEW y \in S PROVE x <= y
    <2>1. x \in Nat /\ y \in Nat  OBVIOUS
    <2>2. y < x => <<y, x>> \in R  BY <2>1
    <2> QED  BY <1>3, <2>1, <2>2
  <1> QED  BY <1>4

\* The text that is searched is the end of the response, from some byte on that
\* leaves out nothing of the window, and nothing at all within the limit.
LEMMA Scanned ==
    ASSUME BInv
    PROVE  \E a \in Nat :
              /\ 1 <= a /\ a <= total + 1 /\ (total <= limit => a = 1)
              /\ \A n \in Nat : n > total - Window /\ 1 <= n => a <= n
              /\ \A n \in Nat : (\E i \in DOMAIN ScanText : ScanText[i] = n) <=> n \in a..total
  <1> USE CaptureAssumption DEF BInv, TypeOK
  <1> DEFINE From(a) ==
                /\ 1 <= a /\ a <= total + 1 /\ (total <= limit => a = 1)
                /\ \A n \in Nat : n > total - Window /\ 1 <= n => a <= n
                /\ \A n \in Nat : (\E i \in DOMAIN ScanText : ScanText[i] = n) <=> n \in a..total
  <1> SUFFICES \E a \in Nat : From(a)  OBVIOUS
  <1>0. /\ Len(head) = Smaller(limit, total) /\ \A i \in 1..Len(head) : head[i] = i
        /\ Len(tail) = Smaller(Window, total)
        /\ \A i \in 1..Len(tail) : tail[i] = total - Smaller(Window, total) + i
        /\ DOMAIN head = 1..Len(head) /\ DOMAIN tail = 1..Len(tail)
    BY Contents
  <1>1. CASE Truncated
    <2> DEFINE w == Smaller(Window, total)
               a == total + 1 - w
    <2>1. w \in Nat /\ w <= total /\ w <= Window /\ (w = total \/ w = Window)  BY DEF Smaller
    <2>2. total > limit  BY <1>0, <1>1 DEF Truncated, Smaller
    <2>3. ScanText = tail /\ DOMAIN tail = 1..w /\ \A i \in 1..w : tail[i] = total - w + i
      BY <1>0, <1>1 DEF ScanText
    <2> HIDE DEF w
    <2>4. a \in Nat /\ 1 <= a /\ a <= total + 1  BY <2>1
    <2>5. \A n \in Nat : n > total - Window /\ 1 <= n => a <= n  BY <2>1
    <2>6. ASSUME NEW n \in Nat
          PROVE  (\E i \in DOMAIN ScanText : ScanText[i] = n) <=> n \in a..total
      <3>1. ASSUME NEW i \in 1..w, tail[i] = n PROVE n \in a..total  BY <2>1, <2>3, <3>1
      <3>2. ASSUME n \in a..total PROVE \E i \in 1..w : tail[i] = n
        <4> DEFINE i == n - (total - w)
        <4>1. i \in 1..w /\ total - w + i = n  BY <2>1, <3>2
        <4> HIDE DEF i
        <4>2. tail[i] = n  BY <2>3, <4>1
        <4> QED  BY <4>1, <4>2
      <3> HIDE DEF a
      <3> QED  BY <2>3, <3>1, <3>2
    <2>7. From(a)  BY <2>2, <2>4, <2>5, <2>6
    <2> HIDE DEF From
    <2> QED  BY <2>4, <2>7
  <1>2. CASE ~Truncated
    <2>1. Len(head) = total /\ ScanText = head
      BY <1>0, <1>2 DEF Truncated, Smaller, ScanText
    <2>2. ScanText = head /\ DOMAIN head = 1..total /\ \A i \in 1..total : head[i] = i
      BY <1>0, <2>1
    <2>3. ASSUME NEW n \in Nat
          PROVE  (\E i \in DOMAIN ScanText : ScanText[i] = n) <=> n \in 1..total
      <3>1. ASSUME n \in 1..total PROVE \E i \in DOMAIN ScanText : ScanText[i] = n
        BY <2>2, <3>1
      <3>2. ASSUME NEW i \in DOMAIN ScanText, ScanText[i] = n PROVE n \in 1..total
        BY <2>2, <3>2
      <3> QED  BY <3>1, <3>2
    <2>4. 1 \in Nat /\ 1 <= total + 1 /\ \A n \in Nat : 1 <= n => 1 <= n  OBVIOUS
    <2>5. From(1)  BY <2>3, <2>4
    <2> HIDE DEF From
    <2> QED  BY <2>5
  <1> QED  BY <1>1, <1>2

\* ExtractUsage finds the last line with usage if that is still there as a
\* whole, and nothing if it is not.
LEMMA Extracted ==
    ASSUME BInv, response \in Responses
    PROVE  /\ \/ ExtractUsage(ScanText) = None
              \/ \E l \in Received : IsLast(l) /\ ExtractUsage(ScanText) = Normalised(l.usage)
           /\ \A l \in Received :
                 IsLast(l) /\ (total <= limit \/ l.from > total - Window) =>
                    ExtractUsage(ScanText) # None
  <1> USE CaptureAssumption DEF BInv, TypeOK
  <1>1. PICK a \in Nat :
              /\ 1 <= a /\ a <= total + 1 /\ (total <= limit => a = 1)
              /\ \A n \in Nat : n > total - Window /\ 1 <= n => a <= n
              /\ \A n \in Nat : (\E i \in DOMAIN ScanText : ScanText[i] = n) <=> n \in a..total
    BY Scanned
  <1> DEFINE U == response.usages
             F == WithUsage({l \in U : Whole(l, ScanText)})
  <1>2. \A l \in U : l.from \in Nat /\ l.to \in Nat /\ 1 <= l.from /\ l.from <= l.to
    BY ResponsesAssumption
  <1>3. ASSUME NEW l \in U PROVE Whole(l, ScanText) <=> a <= l.from /\ l.to <= total
    <2>1. \A n \in l.from..l.to : n \in Nat  BY <1>2
    <2>2. Whole(l, ScanText) <=> \A n \in l.from..l.to : n \in a..total
      BY <1>1, <2>1 DEF Whole
    <2>3. l.from \in l.from..l.to /\ l.to \in l.from..l.to  BY <1>2
    <2> QED  BY <1>2, <2>2, <2>3
  <1>4. /\ \A l : l \in F <=> l \in U /\ a <= l.from /\ l.to <= total /\ Normalised(l.usage) # None
        /\ \A l : l \in Received <=> l \in U /\ l.to <= total /\ Normalised(l.usage) # None
    BY <1>3 DEF WithUsage, Received
  <1>5. \A l, m \in U : l.from = m.from => l = m
    <2>1. \A l, m \in U : l = m \/ l.to < m.from \/ m.to < l.from  BY ResponsesAssumption
    <2> QED  BY <1>2, <2>1
  <1> HIDE DEF F
  <1>6. CASE F = {}
    <2>1. ExtractUsage(ScanText) = None  BY <1>6 DEF ExtractUsage, F
    <2>2. ASSUME NEW l \in Received, total <= limit \/ l.from > total - Window PROVE FALSE
      <3>1. l \in U /\ l.from \in Nat /\ 1 <= l.from  BY <1>2, <1>4
      <3>2. a <= l.from  BY <1>1, <2>2, <3>1
      <3> QED  BY <1>4, <1>6, <3>1, <3>2
    <2> QED  BY <2>1, <2>2
  <1>7. CASE F # {}
    <2> DEFINE S == {total - l.from : l \in F}
    <2>1. S \subseteq Nat
      <3>1. ASSUME NEW l \in F PROVE total - l.from \in Nat
        <4>1. l.from \in Nat /\ l.to \in Nat /\ l.from <= l.to /\ l.to <= total
          BY <1>2, <1>4
        <4> QED  BY <4>1
      <3> QED  BY <3>1
    <2>a. S # {}  BY <1>7
    <2>b. \A n : n \in S <=> \E l \in F : n = total - l.from  OBVIOUS
    <2> HIDE DEF S
    <2>2. PICK m \in S : \A n \in S : m <= n  BY <2>1, <2>a, LeastNat
    <2>3. PICK k \in F : m = total - k.from  BY <2>2, <2>b
    <2>4. ASSUME NEW l \in F PROVE l.from <= k.from
      <3>1. total - k.from <= total - l.from  BY <2>2, <2>3, <2>b
      <3>2. l.from \in Nat /\ k.from \in Nat  BY <1>2, <1>4
      <3> QED  BY <3>1, <3>2
    <2> DEFINE last == CHOOSE l \in F : \A n \in F : n.from <= l.from
    <2>5. last \in F /\ \A n \in F : n.from <= last.from  BY <2>4
    <2>6. ExtractUsage(ScanText) = Normalised(last.usage)  BY <1>7 DEF ExtractUsage, F
    <2> HIDE DEF last
    <2>7. ASSUME NEW l \in Received PROVE l.from <= last.from
      <3>1. l \in U /\ last \in U /\ l.from \in Nat /\ last.from \in Nat  BY <1>2, <1>4, <2>5
      <3>2. CASE a <= l.from  BY <1>4, <2>5, <3>1, <3>2
      <3>3. CASE l.from < a
        <4>1. a <= last.from  BY <1>4, <2>5
        <4> QED  BY <3>1, <3>3, <4>1
      <3> QED  BY <3>1, <3>2, <3>3
    <2>8. last \in Received /\ Normalised(last.usage) # None  BY <1>4, <2>5
    <2>9. IsLast(last)  BY <2>7, <2>8 DEF IsLast
    <2> QED  BY <2>6, <2>8, <2>9
  <1> QED  BY <1>6, <1>7

-----------------------------------------------------------------------------
(* The file *)

Pieces == Requests \X (1..Newline)

\* The first k parts of a request's line are in a file from i on.
LineIn(f, w, i, k) ==
    i \in Nat \ {0} /\ \A j \in 1..k : i + j - 1 \in DOMAIN f /\ f[i + j - 1] = <<w, j>>

\* What the phase of a request says of its line and of the mutex.
PhaseOK ==
    \A w \in Requests :
        /\ phase[w] \in {"new", "ready", "dropped"} => written[w] = 0
        /\ phase[w] \in {"writing", "failed", "lost"} => written[w] < Newline
        /\ phase[w] = "done" => written[w] = Newline
        /\ phase[w] = "writing" => lock = w

\* The parts written of a line lie together; those of the line being written
\* are the last of the file.
LinesOK ==
    /\ \A j \in DOMAIN file : file[j][2] <= written[file[j][1]]
    /\ \A w \in Requests : written[w] > 0 => \E i \in Nat : LineIn(file, w, i, written[w])
    /\ \A w \in Requests :
          phase[w] = "writing" /\ written[w] > 0 =>
              LineIn(file, w, Len(file) + 1 - written[w], written[w])

\* Each part but a newline is followed by the next one, unless its line was cut
\* short.
CutShort(t) == phase[t] \in {"failed", "lost"}
OrderOK ==
    \A j \in DOMAIN file :
        \/ file[j][2] = Newline
        \/ CutShort(file[j][1])
        \/ IF j = Len(file)
           THEN phase[file[j][1]] = "writing" /\ file[j][2] = written[file[j][1]]
           ELSE file[j + 1] = <<file[j][1], file[j][2] + 1>>

FInv == TTypeOK /\ PhaseOK /\ LinesOK /\ OrderOK

\* The parts of a line, one by one.
LEMMA PartsType ==
    ASSUME NEW w \in Requests, NEW a \in 1..Newline, NEW b \in 1..Newline, a <= b
    PROVE  /\ Parts(w, a, b) \in Seq(Pieces)
           /\ Len(Parts(w, a, b)) = b + 1 - a
           /\ \A i \in 1..(b + 1 - a) : Parts(w, a, b)[i] = <<w, a - 1 + i>>
  <1>1. b + 1 - a \in Nat  BY DEF Newline
  <1>2. \A i \in 1..(b + 1 - a) : <<w, a - 1 + i>> \in Pieces  BY DEF Pieces, Newline
  <1> QED  BY <1>1, <1>2 DEF Parts

\* A write adds to the end of the file and changes nothing before it.
LEMMA Appended ==
    ASSUME TTypeOK, NEW w \in Requests, NEW to \in 1..Newline, written[w] < to,
           file' = file \o Parts(w, written[w] + 1, to)
    PROVE  /\ file' \in Seq(Pieces) /\ Len(file') = Len(file) + (to - written[w])
           /\ \A i \in 1..Len(file) : file'[i] = file[i]
           /\ \A i \in 1..(to - written[w]) : file'[Len(file) + i] = <<w, written[w] + i>>
  <1> DEFINE p == Parts(w, written[w] + 1, to)
             n == to - written[w]
  <1>1. file \in Seq(Pieces) /\ Len(file) \in Nat /\ written[w] \in 0..Newline
    BY DEF TTypeOK, Pieces
  <1>2. n \in Nat \ {0} /\ n = to + 1 - (written[w] + 1)  BY <1>1 DEF Newline
  <1>3. p \in Seq(Pieces) /\ Len(p) = n /\ \A i \in 1..n : p[i] = <<w, written[w] + i>>
    <2> DEFINE a == written[w] + 1
    <2>1. a \in 1..Newline /\ a <= to  BY <1>1 DEF Newline
    <2>2. p = Parts(w, a, to)  OBVIOUS
    <2>3. to + 1 - a = n /\ \A i \in 1..n : a - 1 + i = written[w] + i  BY <1>1, <1>2
    <2> HIDE DEF a, p, n
    <2>4. /\ Parts(w, a, to) \in Seq(Pieces) /\ Len(Parts(w, a, to)) = to + 1 - a
          /\ \A i \in 1..(to + 1 - a) : Parts(w, a, to)[i] = <<w, a - 1 + i>>
      BY <2>1, PartsType
    <2> QED  BY <2>2, <2>3, <2>4
  <1> HIDE DEF p, n
  <1>4. /\ file \o p \in Seq(Pieces) /\ Len(file \o p) = Len(file) + Len(p)
        /\ \A i \in 1..(Len(file) + Len(p)) :
              (file \o p)[i] = IF i <= Len(file) THEN file[i] ELSE p[i - Len(file)]
    BY <1>1, <1>3, ConcatProperties
  <1>5. file' = file \o p  BY DEF p
  <1>6. \A i \in 1..Len(file) : file'[i] = file[i]  BY <1>1, <1>2, <1>3, <1>4, <1>5
  <1>7. ASSUME NEW i \in 1..n PROVE file'[Len(file) + i] = <<w, written[w] + i>>
    <2>1. Len(file) + i \in 1..(Len(file) + n) /\ ~(Len(file) + i <= Len(file))
          /\ Len(file) + i - Len(file) = i
      BY <1>1, <1>2
    <2> QED  BY <1>3, <1>4, <1>5, <2>1
  <1> QED  BY <1>3, <1>4, <1>5, <1>6, <1>7 DEF n

\* The types and the phases.
LEMMA PhasesKept == ASSUME FInv, [TNext]_transcript PROVE TTypeOK' /\ PhaseOK'
  <1> USE ObservedAssumption DEF FInv, TTypeOK, PhaseOK, Newline
  <1>1. CASE \E n \in 0..MaxWrite : Receive(n)
    BY <1>1 DEF Receive, recorder
  <1>2. ASSUME NEW w \in Requests, Finish(w) PROVE TTypeOK' /\ PhaseOK'
    BY <1>2 DEF Finish
  <1>3. ASSUME NEW w \in Requests, Record(w) PROVE TTypeOK' /\ PhaseOK'
    BY <1>3 DEF Record
  <1>4. ASSUME NEW w \in Requests, FailWrite(w) PROVE TTypeOK' /\ PhaseOK'
    BY <1>4 DEF FailWrite
  <1>5. ASSUME NEW w \in Requests, NEW to \in 1..Newline, WriteParts(w, to)
        PROVE  TTypeOK' /\ PhaseOK'
    <2>1. file' \in Seq(Requests \X (1..Newline))
      BY <1>5, Appended DEF WriteParts, Pieces
    <2>2. CASE to = Newline
      <3>1. phase' = [phase EXCEPT ![w] = "done"] /\ lock' = None
            /\ written' = [written EXCEPT ![w] = Newline]
            /\ UNCHANGED <<response, open, up, faults>>
        BY <1>5, <2>2 DEF WriteParts
      <3>2. TTypeOK'  BY <2>1, <3>1
      <3>3. PhaseOK'  BY <1>5, <3>1 DEF WriteParts
      <3> QED  BY <3>2, <3>3
    <2>3. CASE to # Newline
      <3>1. UNCHANGED <<phase, lock, response, open, up, faults>>
            /\ written' = [written EXCEPT ![w] = to]
        BY <1>5, <2>3 DEF WriteParts
      <3>2. TTypeOK'  BY <2>1, <3>1
      <3>3. PhaseOK'  BY <1>5, <2>3, <3>1 DEF WriteParts
      <3> QED  BY <3>2, <3>3
    <2> QED  BY <2>2, <2>3
  <1>6. CASE Close  BY <1>6 DEF Close
  <1>7. CASE End
    <2>1. /\ lock' = None /\ up' = FALSE /\ open' = FALSE /\ faults' = faults + 1
          /\ UNCHANGED <<response, written, file>>
          /\ phase' = [w \in Requests |-> IF Busy(w) THEN "lost" ELSE phase[w]]
      BY <1>7 DEF End
    <2>2. TTypeOK'
      <3>1. phase' \in [Requests -> {"new", "ready", "writing", "done", "failed", "dropped", "lost"}]
        BY <2>1
      <3>2. lock' \in Requests \cup {None} /\ faults' \in Nat  BY <2>1
      <3>3. up' \in BOOLEAN /\ open' \in BOOLEAN
        <4>1. up' = FALSE /\ open' = FALSE  BY <2>1
        <4> QED  BY <4>1
      <3> QED  BY <2>1, <3>1, <3>2, <3>3
    <2>3. ASSUME NEW w \in Requests
          PROVE  /\ phase'[w] \in {"new", "ready", "dropped"} => written[w] = 0
                 /\ phase'[w] \in {"writing", "failed", "lost"} => written[w] < Newline
                 /\ phase'[w] = "done" => written[w] = Newline
                 /\ phase'[w] # "writing"
      <3>1. CASE Busy(w)
        <4>1. phase'[w] = "lost"  BY <2>1, <3>1
        <4>2. phase[w] \in {"new", "ready", "writing"}  BY <3>1 DEF Busy
        <4> QED  BY <4>1, <4>2
      <3>2. CASE ~Busy(w)
        <4>1. phase'[w] = phase[w] /\ phase[w] # "writing"  BY <2>1, <3>2 DEF Busy
        <4> QED  BY <4>1
      <3> QED  BY <3>1, <3>2
    <2> QED  BY <2>1, <2>2, <2>3
  <1>8. CASE Start  BY <1>8 DEF Start
  <1>9. CASE UNCHANGED transcript  BY <1>9 DEF transcript, recorder
  <1> QED
    BY <1>1, <1>2, <1>3, <1>4, <1>5, <1>6, <1>7, <1>8, <1>9 DEF TNext

\* The phases and the written parts of requests are as before but for w, and
\* failed and lost requests stay so.
LEMMA PhaseSteps ==
    ASSUME FInv, [TNext]_transcript, file' = file
    PROVE  /\ written' = written
           /\ \A w \in Requests : CutShort(w) => CutShort(w)'
           /\ \A w \in Requests : phase[w] = "writing" => phase'[w] = "writing" \/ CutShort(w)'
           /\ \A w \in Requests : phase'[w] = "writing" => phase[w] = "writing" \/ written[w] = 0
  <1> USE DEF FInv, TTypeOK, PhaseOK, Newline, CutShort
  <1>1. CASE \E n \in 0..MaxWrite : Receive(n)
    BY <1>1 DEF Receive, recorder
  <1>2. ASSUME NEW w \in Requests, Finish(w) \/ Record(w) \/ FailWrite(w)
        PROVE  /\ written' = written
               /\ \A v \in Requests : CutShort(v) => CutShort(v)'
               /\ \A v \in Requests : phase[v] = "writing" => phase'[v] = "writing" \/ CutShort(v)'
               /\ \A v \in Requests : phase'[v] = "writing" => phase[v] = "writing" \/ written[v] = 0
    BY <1>2 DEF Finish, Record, FailWrite
  <1>3. ASSUME NEW w \in Requests, NEW to \in 1..Newline, WriteParts(w, to) PROVE FALSE
    <2>1. Len(file') = Len(file) + (to - written[w]) /\ written[w] < to
      BY <1>3, Appended DEF WriteParts
    <2>2. Len(file) \in Nat /\ written[w] \in 0..3 /\ Len(file') = Len(file)  OBVIOUS
    <2> QED  BY <2>1, <2>2
  <1>4. CASE Close \/ Start  BY <1>4 DEF Close, Start
  <1>5. CASE End
    <2>1. written' = written /\ phase' = [w \in Requests |-> IF Busy(w) THEN "lost" ELSE phase[w]]
      BY <1>5 DEF End
    <2>2. \A w \in Requests : phase'[w] = IF Busy(w) THEN "lost" ELSE phase[w]  BY <2>1
    <2>3. \A w \in Requests : phase[w] = "writing" => phase'[w] = "lost"  BY <2>2 DEF Busy
    <2>4. \A w \in Requests : phase'[w] # "writing"  BY <2>2 DEF Busy
    <2> QED  BY <2>1, <2>2, <2>3, <2>4
  <1>6. CASE UNCHANGED transcript  BY <1>6 DEF transcript, recorder
  <1> QED  BY <1>1, <1>2, <1>3, <1>4, <1>5, <1>6 DEF TNext

\* A step that leaves the file alone keeps its lines and their order.
LEMMA FileKept ==
    ASSUME FInv, [TNext]_transcript, file' = file
    PROVE  LinesOK' /\ OrderOK'
  <1>1. /\ written' = written
        /\ \A w \in Requests : CutShort(w) => CutShort(w)'
        /\ \A w \in Requests : phase[w] = "writing" => phase'[w] = "writing" \/ CutShort(w)'
        /\ \A w \in Requests : phase'[w] = "writing" => phase[w] = "writing" \/ written[w] = 0
    BY PhaseSteps
  <1>2. /\ \A w \in Requests : written[w] \in Nat
        /\ \A j \in DOMAIN file : file[j][1] \in Requests
    BY DEF FInv, TTypeOK, Newline
  <1>3. LinesOK'
    <2>1. \A j \in DOMAIN file' : file'[j][2] <= written'[file'[j][1]]
      BY <1>1 DEF FInv, LinesOK
    <2>3. \A w \in Requests : written'[w] > 0 => \E i \in Nat : LineIn(file', w, i, written'[w])
      BY <1>1 DEF FInv, LinesOK
    <2>4. ASSUME NEW w \in Requests, phase'[w] = "writing", written'[w] > 0
          PROVE  LineIn(file', w, Len(file') + 1 - written'[w], written'[w])
      <3>1. phase[w] = "writing" /\ written[w] > 0  BY <1>1, <1>2, <2>4
      <3>2. LineIn(file, w, Len(file) + 1 - written[w], written[w])  BY <3>1 DEF FInv, LinesOK
      <3> QED  BY <1>1, <3>2
    <2> QED  BY <2>1, <2>3, <2>4 DEF LinesOK
  <1>4. OrderOK'  BY <1>1, <1>2 DEF FInv, OrderOK
  <1> QED  BY <1>3, <1>4

\* A write continues the line that is the last of the file.
LEMMA FileGrows ==
    ASSUME FInv, NEW w \in Requests, NEW to \in 1..Newline, WriteParts(w, to)
    PROVE  LinesOK' /\ OrderOK'
  <1> DEFINE n == Len(file)
             k == written[w]
  <1>1. /\ file' \in Seq(Pieces) /\ Len(file') = n + (to - k)
        /\ \A i \in 1..n : file'[i] = file[i]
        /\ \A i \in 1..(to - k) : file'[n + i] = <<w, k + i>>
    BY Appended DEF FInv, WriteParts
  <1>2. /\ phase[w] = "writing" /\ k < to /\ written' = [written EXCEPT ![w] = to]
        /\ IF to = Newline THEN phase' = [phase EXCEPT ![w] = "done"] ELSE phase' = phase
    BY DEF WriteParts
  <1>3. /\ n \in Nat /\ k \in 0..2 /\ to \in 1..3 /\ DOMAIN file = 1..n
        /\ \A j \in 1..n : file[j][1] \in Requests /\ file[j][2] \in 1..3
    BY <1>2 DEF FInv, TTypeOK, Newline
  <1>4. DOMAIN file' = 1..(n + (to - k)) /\ Len(file') = n + (to - k)
    BY <1>1
  <1>5. /\ written'[w] = to /\ \A v \in Requests \ {w} : written'[v] = written[v]
        /\ \A v \in Requests : written[v] \in 0..3
    BY <1>2 DEF FInv, TTypeOK, Newline
  <1>6. /\ \A v \in Requests \ {w} : phase'[v] = phase[v] /\ phase[v] # "writing"
        /\ to < 3 => phase'[w] = "writing"
        /\ ~CutShort(w)
        /\ \A v \in Requests : CutShort(v) => CutShort(v)'
    <2>1. lock = w /\ \A v \in Requests : phase[v] = "writing" => lock = v
      BY <1>2 DEF FInv, PhaseOK
    <2>2. phase \in [Requests -> {"new", "ready", "writing", "done", "failed", "dropped", "lost"}]
      BY DEF FInv, TTypeOK
    <2> QED  BY <1>2, <2>1, <2>2 DEF CutShort, Newline
  <1>7. k > 0 => LineIn(file, w, n + 1 - k, k)  BY <1>2, <1>3 DEF FInv, LinesOK
  <1> HIDE DEF n, k
  \* Every index of the new file is one of the old file or of the parts written.
  <1>8. \A j \in DOMAIN file' : j \in 1..n \/ \E i \in 1..(to - k) : j = n + i
    <2>1. ASSUME NEW j \in 1..(n + (to - k)), ~(j \in 1..n) PROVE \E i \in 1..(to - k) : j = n + i
      <3>1. j - n \in 1..(to - k) /\ j = n + (j - n)  BY <1>3, <2>1
      <3> QED  BY <3>1
    <2> QED  BY <1>4, <2>1
  \* The line of w is the last of the new file.
  <1>9. LineIn(file', w, n + 1 - k, to)
    <2>1. n + 1 - k \in Nat \ {0}
      <3>1. CASE k = 0  BY <1>3, <3>1
      <3>2. CASE k > 0  BY <1>3, <1>7, <3>2 DEF LineIn
      <3> QED  BY <1>3, <3>1, <3>2
    <2>2. ASSUME NEW j \in 1..to
          PROVE  n + 1 - k + j - 1 \in DOMAIN file' /\ file'[n + 1 - k + j - 1] = <<w, j>>
      <3>1. CASE j <= k
        <4>1. LineIn(file, w, n + 1 - k, k) /\ j \in 1..k  BY <1>3, <1>7, <3>1
        <4>2. n + 1 - k + j - 1 \in 1..n /\ file[n + 1 - k + j - 1] = <<w, j>>
          BY <1>3, <4>1 DEF LineIn
        <4> QED  BY <1>1, <1>2, <1>3, <1>4, <4>2
      <3>2. CASE ~(j <= k)
        <4>1. j - k \in 1..(to - k) /\ n + (j - k) = n + 1 - k + j - 1 /\ k + (j - k) = j
          BY <1>3, <3>2
        <4>2. n + (j - k) \in 1..(n + (to - k))  BY <1>3, <4>1
        <4> QED  BY <1>1, <1>4, <4>1, <4>2
      <3> QED  BY <3>1, <3>2
    <2> QED  BY <2>1, <2>2 DEF LineIn
  <1>10. \A v, i, m : LineIn(file, v, i, m) => LineIn(file', v, i, m)
    <2>1. \A j \in DOMAIN file : j \in DOMAIN file' /\ file'[j] = file[j]
      BY <1>1, <1>2, <1>3, <1>4
    <2> QED  BY <2>1 DEF LineIn
  <1>11. LinesOK'
    <2>1. ASSUME NEW j \in DOMAIN file' PROVE file'[j][2] <= written'[file'[j][1]]
      <3>1. CASE j \in 1..n
        <4>1. file'[j] = file[j] /\ file[j][2] <= written[file[j][1]]
          BY <1>1, <1>3, <3>1 DEF FInv, LinesOK
        <4>2. file[j][1] = w => written[file[j][1]] = k  BY DEF k
        <4> QED  BY <1>2, <1>3, <1>5, <3>1, <4>1, <4>2
      <3>2. ASSUME NEW i \in 1..(to - k), j = n + i PROVE file'[j][2] <= written'[file'[j][1]]
        <4>1. file'[j] = <<w, k + i>>  BY <1>1, <3>2
        <4> QED  BY <1>3, <1>5, <4>1
      <3> QED  BY <1>8, <3>1, <3>2
    <2>2. ASSUME NEW v \in Requests, written'[v] > 0
          PROVE  \E i \in Nat : LineIn(file', v, i, written'[v])
      <3>1. CASE v = w
        <4>1. n + 1 - k \in Nat  BY <1>9 DEF LineIn
        <4> QED  BY <1>5, <1>9, <3>1, <4>1
      <3>2. CASE v # w
        <4>1. PICK i \in Nat : LineIn(file, v, i, written[v])
          BY <1>5, <2>2, <3>2 DEF FInv, LinesOK
        <4>2. LineIn(file', v, i, written[v])  BY <1>10, <4>1
        <4> QED  BY <1>5, <3>2, <4>1, <4>2
      <3> QED  BY <3>1, <3>2
    <2>3. ASSUME NEW v \in Requests, phase'[v] = "writing", written'[v] > 0
          PROVE  LineIn(file', v, Len(file') + 1 - written'[v], written'[v])
      <3>1. v = w  BY <1>6, <2>3
      <3>2. Len(file') + 1 - written'[v] = n + 1 - k /\ written'[v] = to
        BY <1>3, <1>4, <1>5, <3>1
      <3> QED  BY <1>9, <3>1, <3>2
    <2> QED  BY <2>1, <2>2, <2>3 DEF LinesOK
  <1>12. OrderOK'
    <2> SUFFICES ASSUME NEW j \in DOMAIN file', file'[j][2] # Newline,
                        phase'[file'[j][1]] \notin {"failed", "lost"}
                 PROVE  IF j = Len(file')
                        THEN phase'[file'[j][1]] = "writing" /\ file'[j][2] = written'[file'[j][1]]
                        ELSE file'[j + 1] = <<file'[j][1], file'[j][2] + 1>>
      BY DEF OrderOK, CutShort
    <2>1. CASE j \in 1..n
      <3>1. file'[j] = file[j] /\ file[j][2] # Newline /\ ~CutShort(file[j][1]) /\ j # Len(file')
        BY <1>1, <1>2, <1>3, <1>4, <1>6, <2>1 DEF CutShort
      <3>2. CASE j = n
        <4>1. phase[file[j][1]] = "writing" /\ file[j][2] = written[file[j][1]]
          BY <1>3, <2>1, <3>1, <3>2 DEF FInv, OrderOK, n
        <4>2. file[j][1] = w /\ file[j][2] = k  BY <1>3, <1>6, <2>1, <4>1 DEF k
        <4>3. file'[j + 1] = <<w, k + 1>>
          <5>1. 1 \in 1..(to - k)  BY <1>2, <1>3
          <5> QED  BY <1>1, <3>2, <5>1
        <4> QED  BY <3>1, <4>2, <4>3
      <3>3. CASE j # n
        <4>1. file[j + 1] = <<file[j][1], file[j][2] + 1>>
          BY <1>3, <2>1, <3>1, <3>3 DEF FInv, OrderOK, n
        <4>2. j + 1 \in 1..n  BY <1>3, <2>1, <3>3
        <4> QED  BY <1>1, <3>1, <4>1, <4>2
      <3> QED  BY <3>2, <3>3
    <2>2. ASSUME NEW i \in 1..(to - k), j = n + i
          PROVE  IF j = Len(file')
                 THEN phase'[file'[j][1]] = "writing" /\ file'[j][2] = written'[file'[j][1]]
                 ELSE file'[j + 1] = <<file'[j][1], file'[j][2] + 1>>
      <3>1. file'[j] = <<w, k + i>>  BY <1>1, <2>2
      <3>2. CASE j = Len(file')
        <4>1. k + i = to  BY <1>3, <1>4, <2>2, <3>2
        <4>2. to < 3  BY <1>3, <3>1, <4>1 DEF Newline
        <4> QED  BY <1>5, <1>6, <3>1, <3>2, <4>1, <4>2
      <3>3. CASE j # Len(file')
        <4>1. i + 1 \in 1..(to - k) /\ n + (i + 1) = j + 1 /\ k + (i + 1) = k + i + 1
          BY <1>3, <1>4, <2>2, <3>3
        <4>2. file'[j + 1] = <<w, k + i + 1>>  BY <1>1, <4>1
        <4> QED  BY <3>1, <3>3, <4>2
      <3> QED  BY <3>2, <3>3
    <2> QED  BY <1>8, <2>1, <2>2
  <1> QED  BY <1>11, <1>12

\* A step writes to the end of the file or leaves it alone.
LEMMA FileSteps ==
    ASSUME [TNext]_transcript
    PROVE  file' = file \/ \E w \in Requests : \E to \in 1..Newline : WriteParts(w, to)
  BY DEF TNext, Receive, Finish, Record, FailWrite, Close, End, Start, transcript, recorder
\* What was handed to the recorder is what ExtractUsage found.
UsageOK ==
    phase[Observed] \in {"ready", "writing", "done"} => usage = ExtractUsage(ScanText)

\* A request observes nothing more once it has a record.
LEMMA UsageStays == ASSUME TTypeOK, UsageOK, [TNext]_transcript PROVE UsageOK'
  <1> USE ObservedAssumption DEF TTypeOK
  <1>1. CASE \E n \in 0..MaxWrite : Receive(n)
    BY <1>1 DEF Receive, UsageOK, recorder
  <1>2. ASSUME NEW w \in Requests, Finish(w) PROVE UsageOK'
    <2>1. UNCHANGED <<vars, response>>  BY <1>2 DEF Finish
    <2>2. ExtractUsage(ScanText)' = ExtractUsage(ScanText)
      BY <2>1 DEF vars, ExtractUsage, ScanText, Truncated, Whole
    <2>3. CASE w = Observed  BY <1>2, <2>2, <2>3 DEF Finish, UsageOK
    <2>4. CASE w # Observed
      <3>1. usage' = usage /\ phase'[Observed] = phase[Observed]  BY <1>2, <2>4 DEF Finish
      <3> QED  BY <2>2, <3>1 DEF UsageOK
    <2> QED  BY <2>3, <2>4
  <1>3. CASE /\ UNCHANGED <<vars, response, usage>>
             /\ phase'[Observed] \in {"ready", "writing", "done"} =>
                   phase[Observed] \in {"ready", "writing", "done"}
    <2>1. ExtractUsage(ScanText)' = ExtractUsage(ScanText)
      BY <1>3 DEF vars, ExtractUsage, ScanText, Truncated, Whole
    <2> QED  BY <1>3, <2>1 DEF UsageOK
  <1>4. ASSUME NEW w \in Requests, Record(w) \/ FailWrite(w) PROVE UsageOK'
    <2>1. UNCHANGED <<vars, response, usage>>  BY <1>4 DEF Record, FailWrite
    <2>2. phase'[Observed] \in {"ready", "writing", "done"} =>
             phase[Observed] \in {"ready", "writing", "done"}
      BY <1>4 DEF Record, FailWrite
    <2> QED  BY <1>3, <2>1, <2>2
  <1>5. ASSUME NEW w \in Requests, NEW to \in 1..Newline, WriteParts(w, to) PROVE UsageOK'
    <2>1. UNCHANGED <<vars, response, usage>>  BY <1>5 DEF WriteParts
    <2>2. phase' = phase \/ (phase[w] = "writing" /\ phase' = [phase EXCEPT ![w] = "done"])
      BY <1>5 DEF WriteParts
    <2>3. phase'[Observed] \in {"ready", "writing", "done"} =>
             phase[Observed] \in {"ready", "writing", "done"}
      BY <2>2
    <2> QED  BY <1>3, <2>1, <2>3
  <1>6. CASE End
    <2>1. UNCHANGED <<vars, response, usage>>
          /\ phase' = [w \in Requests |-> IF Busy(w) THEN "lost" ELSE phase[w]]
      BY <1>6 DEF End
    <2>2. phase'[Observed] = "lost" \/ phase'[Observed] = phase[Observed]  BY <2>1
    <2> QED  BY <1>3, <2>1, <2>2
  <1>7. CASE Close \/ Start \/ UNCHANGED transcript
    <2>1. UNCHANGED <<vars, response, usage, phase>>
      BY <1>7 DEF Close, Start, transcript, recorder
    <2> QED  BY <1>3, <2>1
  <1> QED  BY <1>1, <1>2, <1>4, <1>5, <1>6, <1>7 DEF TNext

\* The inductive invariant of the recorder.
RInv == FInv /\ UsageOK

\* It holds for any limit, window, responses and requests.
THEOREM TranscriptInvariant == TSpec => []RInv
  <1>1. TInit => RInv
    <2> SUFFICES ASSUME TInit PROVE RInv  OBVIOUS
    <2> USE ObservedAssumption DEF TInit
    <2>1. TTypeOK  BY EmptySeq DEF TTypeOK, Newline
    <2>2. PhaseOK /\ UsageOK  BY DEF PhaseOK, UsageOK
    <2>3. DOMAIN file = {}  OBVIOUS
    <2>4. LinesOK /\ OrderOK  BY <2>3 DEF LinesOK, OrderOK
    <2> QED  BY <2>1, <2>2, <2>4 DEF RInv, FInv
  <1>2. RInv /\ [TNext]_transcript => RInv'
    <2> SUFFICES ASSUME RInv, [TNext]_transcript PROVE RInv'  OBVIOUS
    <2>1. TTypeOK' /\ PhaseOK'  BY PhasesKept DEF RInv
    <2>2. CASE file' = file
      <3>1. LinesOK' /\ OrderOK'  BY <2>2, FileKept DEF RInv
      <3> QED  BY <2>1, <3>1, UsageStays DEF RInv, FInv
    <2>3. CASE \E w \in Requests : \E to \in 1..Newline : WriteParts(w, to)
      <3>1. LinesOK' /\ OrderOK'  BY <2>3, FileGrows DEF RInv
      <3> QED  BY <2>1, <3>1, UsageStays DEF RInv, FInv
    <2> QED  BY <2>2, <2>3, FileSteps
  <1> QED  BY <1>1, <1>2, PTL DEF TSpec

\* The body of a record is the beginning of the response, and is marked
\* truncated exactly when bytes are missing.
THEOREM RecordedBody == TSpec => []HeadIsPrefix
  BY TranscriptImplementsCapture, BodyIsPrefix, PTL

\* The end of every response is searched for the usage.
THEOREM EndSearched == TSpec => []EndIsScanned
  BY TranscriptImplementsCapture, UsageWindow, PTL

\* The recorded usage is that of the last line received with any.
THEOREM LastUsage == TSpec => []UsageIsLast
  <1>1. BInv /\ RInv => UsageIsLast
    <2> SUFFICES ASSUME BInv, RInv, phase[Observed] \in {"ready", "writing", "done"}
                 PROVE  usage = None \/ \E l \in Received : IsLast(l) /\ usage = Normalised(l.usage)
      BY DEF UsageIsLast
    <2>1. usage = ExtractUsage(ScanText) /\ response \in Responses
      BY DEF RInv, FInv, TTypeOK, UsageOK
    <2> QED  BY <2>1, Extracted
  <1> QED  BY <1>1, TranscriptImplementsCapture, CaptureInvariant, TranscriptInvariant, PTL

\* Usage that lies within the limit or the window is never lost.
THEOREM UsageNotLost == TSpec => []UsageFound
  <1>1. BInv /\ RInv => UsageFound
    <2> SUFFICES ASSUME BInv, RInv, phase[Observed] \in {"ready", "writing", "done"}
                 PROVE  \A l \in Received :
                           IsLast(l) /\ (total <= limit \/ l.from > total - Window) => usage # None
      BY DEF UsageFound
    <2>1. usage = ExtractUsage(ScanText) /\ response \in Responses
      BY DEF RInv, FInv, TTypeOK, UsageOK
    <2> QED  BY <2>1, Extracted
  <1> QED  BY <1>1, TranscriptImplementsCapture, CaptureInvariant, TranscriptInvariant, PTL

\* A request can be read back where its three parts follow on the end of a line.
LEMMA RecordRead ==
    ASSUME NEW f \in Seq(Pieces), NEW w \in Requests, NEW i \in 1..(Len(f) - 2)
    PROVE  SubSeq(f, i, i + 2) = Parts(w, 1, Newline)
              <=> f[i] = <<w, 1>> /\ f[i + 1] = <<w, 2>> /\ f[i + 2] = <<w, 3>>
  <1> DEFINE s == SubSeq(f, i, i + 2)
             p == Parts(w, 1, Newline)
  <1>1. Len(f) \in Nat /\ i \in Nat /\ DOMAIN f = 1..Len(f)  OBVIOUS
  <1>2. p \in Seq(Pieces) /\ Len(p) = 3 /\ p[1] = <<w, 1>> /\ p[2] = <<w, 2>> /\ p[3] = <<w, 3>>
    <2>1. /\ p \in Seq(Pieces) /\ Len(p) = Newline + 1 - 1
          /\ \A j \in 1..(Newline + 1 - 1) : p[j] = <<w, 1 - 1 + j>>
      <3>1. 1 \in 1..Newline /\ Newline \in 1..Newline /\ 1 <= Newline  BY DEF Newline
      <3> QED  BY <3>1, PartsType
    <2> HIDE DEF p
    <2> QED  BY <2>1 DEF Newline
  <1>3. /\ s \in Seq(Pieces) /\ Len(s) = i + 2 - i + 1
        /\ \A j \in 1..(i + 2 - i + 1) : s[j] = f[i + j - 1]
    <2>1. i + 2 \in Int /\ i <= i + 2 /\ \A j \in i..(i + 2) : f[j] \in Pieces  BY <1>1
    <2> QED  BY <1>1, <2>1, SubSeqProperties
  <1> HIDE DEF s, p
  <1>4. Len(s) = 3 /\ s[1] = f[i] /\ s[2] = f[i + 1] /\ s[3] = f[i + 2]
    <2>1. i + 2 - i + 1 = 3 /\ i + 1 - 1 = i /\ i + 2 - 1 = i + 1 /\ i + 3 - 1 = i + 2  BY <1>1
    <2> QED  BY <1>3, <2>1
  <1>5. s = p <=> s[1] = p[1] /\ s[2] = p[2] /\ s[3] = p[3]
    <2>1. ASSUME s[1] = p[1], s[2] = p[2], s[3] = p[3] PROVE s = p
      <3>1. \A j \in 1..Len(s) : s[j] = p[j]  BY <1>4, <2>1
      <3> QED  BY <1>2, <1>3, <1>4, <3>1, SeqEqual
    <2> QED  BY <2>1
  <1> QED  BY <1>2, <1>4, <1>5 DEF s, p

\* A record that is in the file and cannot be read follows directly on a line
\* cut short, and only failures cut lines short.
THEOREM DamageLocal == TSpec => []DamageIsLocal
  <1>1. FInv => DamageIsLocal
    <2> SUFFICES ASSUME FInv PROVE DamageIsLocal  OBVIOUS
    <2> DEFINE n == Len(file)
    <2>1. /\ n \in Nat /\ DOMAIN file = 1..n /\ file \in Seq(Pieces)
          /\ \A j \in 1..n : /\ file[j][1] \in Requests /\ file[j][2] \in 1..3
                             /\ file[j] = <<file[j][1], file[j][2]>>
          /\ \A w \in Requests : written[w] \in 0..3
      BY DEF FInv, TTypeOK, Newline, Pieces
    <2>2. \A w \in Requests : \A k \in 1..3 : w \in InFile(k) <=> k <= written[w]
      <3> SUFFICES ASSUME NEW w \in Requests, NEW k \in 1..3
                   PROVE  w \in InFile(k) <=> k <= written[w]
        OBVIOUS
      <3>1. ASSUME w \in InFile(k) PROVE k <= written[w]
        <4>1. PICK j \in DOMAIN file : file[j] = <<w, k>>  BY <3>1 DEF InFile
        <4> QED  BY <4>1 DEF FInv, LinesOK
      <3>2. ASSUME k <= written[w] PROVE w \in InFile(k)
        <4>1. written[w] > 0 /\ k \in 1..written[w]  BY <2>1, <3>2
        <4>2. PICK i \in Nat : LineIn(file, w, i, written[w])  BY <4>1 DEF FInv, LinesOK
        <4>3. i + k - 1 \in DOMAIN file /\ file[i + k - 1] = <<w, k>>  BY <4>1, <4>2 DEF LineIn
        <4> QED  BY <4>3 DEF InFile
      <3> QED  BY <3>1, <3>2
    <2>3. ASSUME NEW w \in InFile(Newline) \ Readable
          PROVE  \E i \in 1..(Len(file) - 1) : file[i + 1] = <<w, 1>> /\ file[i][1] \in Torn
      <3>1. w \in Requests /\ written[w] = 3
        <4>1. w \in Requests  BY DEF InFile
        <4> QED  BY <2>1, <2>2, <4>1 DEF Newline
      <3>2. PICK i \in Nat : LineIn(file, w, i, 3)  BY <3>1 DEF FInv, LinesOK
      <3>3. /\ i \in 1..(n - 2) /\ i \in 1..n
            /\ file[i] = <<w, 1>> /\ file[i + 1] = <<w, 2>> /\ file[i + 2] = <<w, 3>>
        <4>1. \A j \in 1..3 : i + j - 1 \in 1..n /\ file[i + j - 1] = <<w, j>>
          BY <2>1, <3>2 DEF LineIn
        <4>2. i + 1 - 1 = i /\ i + 2 - 1 = i + 1 /\ i + 3 - 1 = i + 2 /\ i # 0
          BY <3>2 DEF LineIn
        <4>3. 1 \in 1..3 /\ 2 \in 1..3 /\ 3 \in 1..3  OBVIOUS
        <4>4. i \in 1..n /\ i + 1 \in 1..n /\ i + 2 \in 1..n  BY <4>1, <4>2, <4>3
        <4>5. i \in 1..(n - 2)  BY <2>1, <4>4
        <4> QED  BY <4>1, <4>2, <4>3, <4>4, <4>5
      <3>4. ~EndsLine(i - 1)
        <4>1. SubSeq(file, i, i + 2) = Parts(w, 1, Newline)
          BY <2>1, <3>1, <3>3, RecordRead
        <4>2. ~RecordAt(w, i)  BY <3>1, <3>3 DEF Readable
        <4> QED  BY <4>1, <4>2 DEF RecordAt
      <3>5. /\ i - 1 \in 1..n /\ i - 1 \in 1..(n - 1) /\ i - 1 + 1 = i /\ i - 1 # n
            /\ file[i - 1][2] # Newline
        BY <2>1, <3>3, <3>4 DEF EndsLine
      <3> DEFINE j == i - 1
                 t == file[j][1]
      <3>6. CutShort(t)
        <4>1. j + 1 = i /\ file[j + 1] = <<w, 1>> /\ file[j][2] + 1 # 1  BY <2>1, <3>3, <3>5
        <4>2. file[j + 1] # <<file[j][1], file[j][2] + 1>>  BY <4>1
        <4> HIDE DEF j
        <4>3. j \in DOMAIN file /\ j # Len(file) /\ file[j][2] # Newline  BY <2>1, <3>5 DEF j
        <4> QED  BY <4>2, <4>3 DEF FInv, OrderOK
      <3>7. t \in Torn
        <4>1. t \in Requests /\ written[t] < 3
          BY <2>1, <3>5, <3>6 DEF FInv, PhaseOK, CutShort, Newline
        <4>2. file[j][2] <= written[t] /\ file[j][2] \in 1..3  BY <2>1, <3>5 DEF FInv, LinesOK
        <4>3. 1 <= written[t]  BY <2>1, <4>1, <4>2
        <4>4. t \in InFile(1) /\ t \notin InFile(3)  BY <2>1, <2>2, <4>1, <4>3
        <4> QED  BY <4>4 DEF Torn, Newline
      <3> QED  BY <3>3, <3>5, <3>7
    <2>4. ASSUME NEW w \in Torn PROVE phase[w] \in {"writing", "failed", "lost"}
      <3>1. w \in Requests /\ 1 <= written[w] /\ ~(3 <= written[w])
        <4>1. w \in Requests  BY DEF Torn, InFile
        <4> QED  BY <2>2, <4>1 DEF Torn, Newline
      <3>2. phase[w] \notin {"new", "ready", "dropped", "done"}
        BY <2>1, <3>1 DEF FInv, PhaseOK, Newline
      <3>3. phase[w] \in {"new", "ready", "writing", "done", "failed", "dropped", "lost"}
        BY <3>1 DEF FInv, TTypeOK
      <3> QED  BY <3>2, <3>3
    <2> QED  BY <2>3, <2>4 DEF DamageIsLocal
  <1>2. RInv => FInv  BY DEF RInv
  <1> QED  BY <1>1, <1>2, TranscriptInvariant, PTL

\* What could be read back can be read back after any step, failures and
\* restarts included.
THEOREM HistoryStays == TSpec => HistoryKept
  <1>1. FInv /\ FInv' /\ [TNext]_transcript => [Readable \subseteq Readable']_transcript
    <2> SUFFICES ASSUME FInv, FInv', [TNext]_transcript, NEW w \in Readable PROVE w \in Readable'
      OBVIOUS
    <2>1. file \in Seq(Pieces) /\ file' \in Seq(Pieces) /\ Len(file) \in Nat /\ Len(file') \in Nat
      BY DEF FInv, TTypeOK, Pieces
    <2>2. Len(file) <= Len(file') /\ \A j \in 1..Len(file) : file'[j] = file[j]
      <3>1. CASE file' = file  BY <2>1, <3>1
      <3>2. ASSUME NEW v \in Requests, NEW to \in 1..Newline, WriteParts(v, to)
            PROVE  Len(file) <= Len(file') /\ \A j \in 1..Len(file) : file'[j] = file[j]
        <4>1. written[v] \in Nat /\ to \in Nat /\ written[v] < to
          BY <3>2 DEF WriteParts, FInv, TTypeOK, Newline
        <4>2. /\ Len(file') = Len(file) + (to - written[v])
              /\ \A j \in 1..Len(file) : file'[j] = file[j]
          BY <3>2, Appended DEF WriteParts, FInv
        <4> QED  BY <2>1, <4>1, <4>2
      <3> QED  BY <3>1, <3>2, FileSteps
    <2>3. PICK i \in 1..(Len(file) - 2) : w \in Requests /\ RecordAt(w, i)  BY DEF Readable
    <2>4. file[i] = <<w, 1>> /\ file[i + 1] = <<w, 2>> /\ file[i + 2] = <<w, 3>>
      BY <2>1, <2>3, RecordRead DEF RecordAt
    <2>5. /\ i \in 1..Len(file) /\ i + 1 \in 1..Len(file) /\ i + 2 \in 1..Len(file)
          /\ i \in 1..(Len(file') - 2) /\ (i - 1 = 0 \/ i - 1 \in 1..Len(file))
      BY <2>1, <2>2
    <2>6. SubSeq(file', i, i + 2) = Parts(w, 1, Newline)
      <3>1. file'[i] = <<w, 1>> /\ file'[i + 1] = <<w, 2>> /\ file'[i + 2] = <<w, 3>>
        BY <2>2, <2>4, <2>5
      <3> QED  BY <2>1, <2>3, <2>5, <3>1, RecordRead
    <2>7. i - 1 = 0 \/ file'[i - 1][2] = Newline
      BY <2>2, <2>3, <2>5 DEF RecordAt, EndsLine
    <2> QED  BY <2>3, <2>5, <2>6, <2>7 DEF Readable, RecordAt, EndsLine
  <1>2. RInv => FInv  BY DEF RInv
  <1> QED  BY <1>1, <1>2, TranscriptInvariant, PTL DEF TSpec, HistoryKept
=============================================================================
