----------------------- MODULE RequestPipelineProofs -----------------------
(***************************************************************************)
(* Proofs about RequestPipeline, for any number of chunks and any limit:   *)
(* what the client got, what the upstream was asked for and what the       *)
(* transcript says agree on every way through Execute.                     *)
(***************************************************************************)
EXTENDS RequestPipeline, TLAPS, FiniteSetTheorems

Before == {"transform", "prepare"}
Deciding == Before \cup {"protect", "acquire", "build"}
Answered == {"head", "reading", "passing", "buffered", "finish"}

\* A body is null only if the client sent null, and until it is shaped the
\* document's own wish decides about streaming.
DocumentOK ==
    /\ pc \in Before /\ doc.kind = "null" => request.body = "null"
    /\ pc = "prepare" => doc.wants = ClientWantsStream(doc.kind)

\* The upstream is asked, from Prepare on, for nothing that streams where it must not.
AskedOK ==
    pc \in {"protect", "acquire", "build", "awaiting"} \/ contacted =>
        /\ plan.ntos => doc.kind # "stream"
        /\ plan.protect => IF plan.format = "gemini" THEN ~request.tailStream
                                                     ELSE doc.kind # "stream"

\* Which path the request is on.
PathOK ==
    /\ pc \in Deciding => ~contacted
    /\ pc = "protect" => plan.protect
    /\ pc \in {"acquire", "build", "awaiting"} => ~plan.protect
    /\ pc \in {"head", "passing"} => ~Buffered
    /\ pc = "buffered" => Buffered
    /\ pc \in Answered => status \in Replies

\* What the client has got so far.
WireOK ==
    /\ pc \in Deciding \cup {"awaiting", "head"} => wire.head = None
    /\ pc \in Deciding \cup {"awaiting", "head"} => read = 0 /\ wire.sent = 0
    /\ pc \in {"reading", "buffered"} /\ Buffered => wire.head = None
    /\ pc \in {"reading", "passing"} /\ ~Buffered =>
          /\ wire.head = status
          /\ read = IF pc = "passing" THEN wire.sent + 1 ELSE wire.sent
    /\ pc = "finish" =>
          \/ wire.head \in Errors
          \/ wire.head = status /\ wire.sent <= read
    /\ pc \in {"close", "release"} => wire.head # None
    /\ pc = "done" => wire.head # None \/ request.body = "null"

\* A buffer that is passed on is complete.
BufferOK ==
    /\ pc = "buffered" => end = "eof" \/ Incomplete
    /\ BufferedIsWhole

\* Records are written once, when the outcome is known.
RecordsOK ==
    /\ pc \in Deciding \cup Answered \cup {"awaiting"} => records = {}
    /\ pc \in {"close", "release", "done"} /\ sink /\ contacted =>
          \E r \in records : records = {r}
    /\ \A r \in records :
          /\ wire.head \in Replies => r.status = wire.head /\ wire.sent <= r.bytes
          /\ r.number = 0

\* The body and the client are held exactly as long as a deferred call is due.
ResourcesOK ==
    /\ pc \in {"transform", "prepare", "protect", "acquire", "done"} => ~held /\ ~bodyOpen
    /\ pc \in {"build", "awaiting", "release"} => ~bodyOpen

NInv == /\ TypeOK /\ DocumentOK /\ AskedOK /\ PathOK /\ WireOK /\ BufferOK
        /\ RecordsOK /\ ResourcesOK

LEMMA NInit == Init => NInv
  <1> SUFFICES ASSUME Init PROVE NInv  OBVIOUS
  <1> USE BoundAssumption DEF Init, None
  <1>1. TypeOK
    <2>1. gone \in BOOLEAN /\ contacted \in BOOLEAN /\ bodyOpen \in BOOLEAN /\ held \in BOOLEAN
          /\ failure \in BOOLEAN
      BY Zenon
    <2>2. doc \in [kind : Bodies, wants : BOOLEAN]  OBVIOUS
    <2>3. wire \in [head : Replies \cup Errors \cup {None}, sent : 0..MaxChunks, sse : BOOLEAN]
      OBVIOUS
    <2>4. read \in 0..MaxChunks  OBVIOUS
    <2> QED  BY <2>1, <2>2, <2>3, <2>4 DEF TypeOK
  <1>2. DocumentOK /\ AskedOK /\ PathOK
    BY DEF DocumentOK, AskedOK, PathOK, Before, Deciding, Answered
  <1>3. WireOK /\ RecordsOK /\ ResourcesOK
    BY DEF WireOK, RecordsOK, ResourcesOK, Before, Deciding, Answered
  <1>4. BufferOK  BY DEF BufferOK, BufferedIsWhole, Replies
  <1> QED  BY <1>1, <1>2, <1>3, <1>4 DEF NInv

\* The record that is written is the first one.
LEMMA FirstRecord ==
    ASSUME TypeOK, records = {}, NEW s \in Replies \cup {None}, NEW err \in BOOLEAN,
           Record(s, err)
    PROVE  /\ sink => \E r \in records' : records' = {r}
           /\ \A r \in records' :
                 /\ r \in [status : Replies \cup {None}, error : BOOLEAN, bytes : Nat, number : Nat]
                 /\ r.status = s /\ r.error = err /\ r.bytes = read /\ r.number = 0
  <1> DEFINE r == [status |-> s, error |-> err, bytes |-> read, number |-> 0]
  <1>1. Cardinality({}) = 0  BY FS_EmptySet
  <1>2. records' = IF sink THEN {r} ELSE {}  BY <1>1 DEF Record
  <1>3. read \in Nat  BY BoundAssumption DEF TypeOK
  <1>4. r \in [status : Replies \cup {None}, error : BOOLEAN, bytes : Nat, number : Nat]
    BY <1>3
  <1>5. r.status = s /\ r.error = err /\ r.bytes = read /\ r.number = 0  OBVIOUS
  <1> HIDE DEF r
  <1> QED  BY <1>2, <1>4, <1>5

\* The body rules: a failure is answered, a panic is not.
LEMMA RulesKeep ==
    ASSUME NInv,
           \/ TransformPanics
           \/ TransformFails
           \/ Transform
    PROVE  NInv'
  <1> USE BoundAssumption DEF NInv, inputs, resources, upstream, None
  <1>1. CASE TransformPanics
    <2> USE <1>1 DEF TransformPanics, Panic
    <2>1. TypeOK'
      BY DEF TypeOK
    <2>2. DocumentOK'
      BY DEF TypeOK, DocumentOK, Before
    <2>3. AskedOK'
      BY DEF TypeOK, AskedOK, PathOK, Before, Deciding
    <2>4. PathOK'
      BY DEF TypeOK, PathOK, Before, Deciding, Answered
    <2>5. WireOK'
      BY DEF TypeOK, PathOK, WireOK, Before, Deciding, Answered, DocumentOK,
          Panics
    <2>6. BufferOK'
      BY DEF TypeOK, PathOK, WireOK, BufferOK, BufferedIsWhole, Deciding,
          Answered, Incomplete, Overrun, Fake, Buffered, Replies
    <2>7. RecordsOK'
      BY DEF TypeOK, PathOK, RecordsOK, Before, Deciding, Answered
    <2>8. ResourcesOK'
      BY DEF TypeOK, PathOK, ResourcesOK, Before, Deciding, Answered
    <2> QED  BY <2>1, <2>2, <2>3, <2>4, <2>5, <2>6, <2>7, <2>8
  <1>2. CASE TransformFails
    <2> USE <1>2 DEF TransformFails, WriteError
    <2>0. /\ sink => \E r \in records' : records' = {r}
          /\ \A r \in records' :
                /\ r \in [status : Replies \cup {None}, error : BOOLEAN, bytes : Nat, number : Nat]
                /\ r.status = None /\ r.error = TRUE /\ r.bytes = read /\ r.number = 0
      <3>1. records = {}  BY DEF RecordsOK, Deciding, Answered, Before
      <3>2. None \in Replies \cup {None} /\ TRUE \in BOOLEAN /\ Record(None, TRUE)
        BY DEF TypeOK
      <3> HIDE DEF None
      <3> QED  BY <3>1, <3>2, FirstRecord
    <2>1. TypeOK'
      <3>1. wire' \in [head : Replies \cup Errors \cup {None}, sent : 0..MaxChunks, sse : BOOLEAN]
        BY DEF TypeOK, Errors
      <3>2. \A r \in records' : r \in [status : Replies \cup {None}, error : BOOLEAN,
                                     bytes : Nat, number : Nat]
        BY <2>0 DEF TypeOK
      <3>3. contacted' \in BOOLEAN  BY DEF TypeOK
      <3> QED  BY <3>1, <3>2, <3>3 DEF TypeOK
    <2>2. DocumentOK'
      BY DEF TypeOK, DocumentOK, Before
    <2>3. AskedOK'
      BY DEF TypeOK, AskedOK, PathOK, Before, Deciding
    <2>4. PathOK'
      BY DEF TypeOK, PathOK, Before, Deciding, Answered
    <2>5. WireOK'
      BY DEF TypeOK, PathOK, WireOK, Before, Deciding, Answered
    <2>6. BufferOK'
      BY DEF TypeOK, PathOK, WireOK, BufferOK, BufferedIsWhole, Deciding,
          Answered, Incomplete, Overrun, Fake, Buffered, Replies, Errors
    <2>7. RecordsOK'
      <3>1. wire'.head \notin Replies
        BY DEF TypeOK, WireOK, Replies, Before, Deciding
      <3> QED  BY <2>0, <3>1 DEF TypeOK, PathOK, RecordsOK, Before, Deciding, Answered
    <2>8. ResourcesOK'
      BY DEF TypeOK, PathOK, ResourcesOK, Before, Deciding, Answered
    <2> QED  BY <2>1, <2>2, <2>3, <2>4, <2>5, <2>6, <2>7, <2>8
  <1>3. CASE Transform
    <2> USE <1>3 DEF Transform
    <2>1. TypeOK'
      <3>1. \A k \in Bodies : ClientWantsStream(k) \in BOOLEAN
        BY Zenon DEF ClientWantsStream, TypeOK
      <3>2. Transformed(doc.kind) \in Bodies  BY DEF Transformed, TypeOK, Bodies
      <3>3. doc' \in [kind : Bodies, wants : BOOLEAN]  BY <3>1, <3>2
      <3> QED  BY <3>3 DEF TypeOK
    <2>2. DocumentOK'
      BY DEF TypeOK, DocumentOK, Before, Transformed, Transformable,
          ClientWantsStream, Panics
    <2>3. AskedOK'
      BY DEF TypeOK, AskedOK, PathOK, Before, Deciding
    <2>4. PathOK'
      BY DEF TypeOK, PathOK, Before, Deciding, Answered
    <2>5. WireOK'
      BY DEF TypeOK, PathOK, WireOK, Before, Deciding, Answered
    <2>6. BufferOK'
      <3>1. wire'.head = None /\ pc' = "prepare"  BY DEF WireOK, Deciding, Before
      <3> QED  BY <3>1 DEF BufferOK, BufferedIsWhole, Replies
    <2>7. RecordsOK'
      BY DEF TypeOK, PathOK, RecordsOK, Before, Deciding, Answered
    <2>8. ResourcesOK'
      BY DEF TypeOK, PathOK, ResourcesOK, Before, Deciding, Answered
    <2> QED  BY <2>1, <2>2, <2>3, <2>4, <2>5, <2>6, <2>7, <2>8
  <1> QED  BY <1>1, <1>2, <1>3

\* The streaming decision.
LEMMA PrepareKeeps ==
    ASSUME NInv,
           \/ ShapePanics
           \/ PrepareFails
           \/ PrepareConflicts
           \/ Prepare
    PROVE  NInv'
  <1> USE BoundAssumption DEF NInv, inputs, resources, upstream, None
  <1>1. CASE ShapePanics
    <2> USE <1>1 DEF ShapePanics, Panic
    <2>1. TypeOK'
      BY DEF TypeOK
    <2>2. DocumentOK'
      BY DEF TypeOK, DocumentOK, Before
    <2>3. AskedOK'
      BY DEF TypeOK, AskedOK, PathOK, Before, Deciding
    <2>4. PathOK'
      BY DEF TypeOK, PathOK, Before, Deciding, Answered
    <2>5. WireOK'
      BY DEF TypeOK, PathOK, WireOK, Before, Deciding, Answered, DocumentOK
    <2>6. BufferOK'
      BY DEF TypeOK, PathOK, WireOK, BufferOK, BufferedIsWhole, Deciding,
          Answered, Incomplete, Overrun, Fake, Buffered, Replies
    <2>7. RecordsOK'
      BY DEF TypeOK, PathOK, RecordsOK, Before, Deciding, Answered
    <2>8. ResourcesOK'
      BY DEF TypeOK, PathOK, ResourcesOK, Before, Deciding, Answered
    <2> QED  BY <2>1, <2>2, <2>3, <2>4, <2>5, <2>6, <2>7, <2>8
  <1>2. CASE PrepareFails
    <2> USE <1>2 DEF PrepareFails, WriteError
    <2>1. TypeOK'
      BY DEF TypeOK, Errors
    <2>2. DocumentOK'
      BY DEF TypeOK, DocumentOK, Before
    <2>3. AskedOK'
      BY DEF TypeOK, AskedOK, PathOK, Before, Deciding
    <2>4. PathOK'
      BY DEF TypeOK, PathOK, Before, Deciding, Answered
    <2>5. WireOK'
      BY DEF TypeOK, PathOK, WireOK, Before, Deciding, Answered
    <2>6. BufferOK'
      BY DEF TypeOK, PathOK, WireOK, BufferOK, BufferedIsWhole, Deciding,
          Answered, Incomplete, Overrun, Fake, Buffered, Replies
    <2>7. RecordsOK'
      BY DEF TypeOK, PathOK, RecordsOK, Before, Deciding, Answered
    <2>8. ResourcesOK'
      BY DEF TypeOK, PathOK, ResourcesOK, Before, Deciding, Answered
    <2> QED  BY <2>1, <2>2, <2>3, <2>4, <2>5, <2>6, <2>7, <2>8
  <1>3. CASE PrepareConflicts
    <2> USE <1>3 DEF PrepareConflicts, WriteError
    <2>1. TypeOK'
      BY DEF TypeOK, Errors
    <2>2. DocumentOK'
      BY DEF TypeOK, DocumentOK, Before
    <2>3. AskedOK'
      BY DEF TypeOK, AskedOK, PathOK, Before, Deciding
    <2>4. PathOK'
      BY DEF TypeOK, PathOK, Before, Deciding, Answered
    <2>5. WireOK'
      BY DEF TypeOK, PathOK, WireOK, Before, Deciding, Answered
    <2>6. BufferOK'
      BY DEF TypeOK, PathOK, WireOK, BufferOK, BufferedIsWhole, Deciding,
          Answered, Incomplete, Overrun, Fake, Buffered, Replies
    <2>7. RecordsOK'
      BY DEF TypeOK, PathOK, RecordsOK, Before, Deciding, Answered
    <2>8. ResourcesOK'
      BY DEF TypeOK, PathOK, ResourcesOK, Before, Deciding, Answered
    <2> QED  BY <2>1, <2>2, <2>3, <2>4, <2>5, <2>6, <2>7, <2>8
  <1>4. CASE Prepare
    <2> USE <1>4 DEF Prepare
    <2>1. TypeOK'
      BY DEF TypeOK, Shaped, Bodies
    <2>2. DocumentOK'
      BY DEF TypeOK, DocumentOK, Before
    <2>3. AskedOK'
      BY DEF TypeOK, AskedOK, PathOK, Before, Deciding, DocumentOK, Shaped,
          Prepared, Shapeable, Conflict, Fake, ClientWantsStream
    <2>4. PathOK'
      BY DEF TypeOK, PathOK, Before, Deciding, Answered
    <2>5. WireOK'
      BY DEF TypeOK, PathOK, WireOK, Before, Deciding, Answered
    <2>6. BufferOK'
      BY DEF TypeOK, PathOK, WireOK, BufferOK, BufferedIsWhole, Deciding,
          Answered, Incomplete, Overrun, Fake, Buffered, Replies
    <2>7. RecordsOK'
      BY DEF TypeOK, PathOK, RecordsOK, Before, Deciding, Answered
    <2>8. ResourcesOK'
      BY DEF TypeOK, PathOK, ResourcesOK, Before, Deciding, Answered
    <2> QED  BY <2>1, <2>2, <2>3, <2>4, <2>5, <2>6, <2>7, <2>8
  <1> QED  BY <1>1, <1>2, <1>3, <1>4

\* The call, through the processor or directly.
LEMMA CallKeeps ==
    ASSUME NInv,
           \/ ProcessorMissing
           \/ ProcessorFails
           \/ (\E s \in Replies : ProcessorAnswers(s))
           \/ Acquire
           \/ BuildFails
           \/ Send
           \/ SendFails
           \/ (\E s \in Replies : Answer(s))
    PROVE  NInv'
  <1> USE BoundAssumption DEF NInv, inputs, resources, upstream, None
  <1>1. CASE ProcessorMissing
    <2> USE <1>1 DEF ProcessorMissing, WriteError
    <2>1. TypeOK'
      BY DEF TypeOK, Errors
    <2>2. DocumentOK'
      BY DEF TypeOK, DocumentOK, Before
    <2>3. AskedOK'
      BY DEF TypeOK, AskedOK, PathOK, Before, Deciding
    <2>4. PathOK'
      BY DEF TypeOK, PathOK, Before, Deciding, Answered
    <2>5. WireOK'
      BY DEF TypeOK, PathOK, WireOK, Before, Deciding, Answered
    <2>6. BufferOK'
      BY DEF TypeOK, PathOK, WireOK, BufferOK, BufferedIsWhole, Deciding,
          Answered, Incomplete, Overrun, Fake, Buffered, Replies
    <2>7. RecordsOK'
      BY DEF TypeOK, PathOK, RecordsOK, Before, Deciding, Answered
    <2>8. ResourcesOK'
      BY DEF TypeOK, PathOK, ResourcesOK, Before, Deciding, Answered
    <2> QED  BY <2>1, <2>2, <2>3, <2>4, <2>5, <2>6, <2>7, <2>8
  <1>2. CASE ProcessorFails
    <2> USE <1>2 DEF ProcessorFails, WriteError
    <2>0. /\ sink => \E r \in records' : records' = {r}
          /\ \A r \in records' :
                /\ r \in [status : Replies \cup {None}, error : BOOLEAN, bytes : Nat, number : Nat]
                /\ r.status = None /\ r.error = TRUE /\ r.bytes = read /\ r.number = 0
      <3>1. records = {}  BY DEF RecordsOK, Deciding, Answered, Before
      <3>2. None \in Replies \cup {None} /\ TRUE \in BOOLEAN /\ Record(None, TRUE)
        BY DEF TypeOK
      <3> HIDE DEF None
      <3> QED  BY <3>1, <3>2, FirstRecord
    <2>1. TypeOK'
      <3>1. wire' \in [head : Replies \cup Errors \cup {None}, sent : 0..MaxChunks, sse : BOOLEAN]
        BY DEF TypeOK, Errors
      <3>2. \A r \in records' : r \in [status : Replies \cup {None}, error : BOOLEAN,
                                     bytes : Nat, number : Nat]
        BY <2>0 DEF TypeOK
      <3>3. contacted' \in BOOLEAN  BY DEF TypeOK
      <3> QED  BY <3>1, <3>2, <3>3 DEF TypeOK
    <2>2. DocumentOK'
      BY DEF TypeOK, DocumentOK, Before
    <2>3. AskedOK'
      BY DEF TypeOK, AskedOK, PathOK, Before, Deciding
    <2>4. PathOK'
      BY DEF TypeOK, PathOK, Before, Deciding, Answered
    <2>5. WireOK'
      BY DEF TypeOK, PathOK, WireOK, Before, Deciding, Answered
    <2>6. BufferOK'
      BY DEF TypeOK, PathOK, WireOK, BufferOK, BufferedIsWhole, Deciding,
          Answered, Incomplete, Overrun, Fake, Buffered, Replies
    <2>7. RecordsOK'
      <3>1. wire'.head \notin Replies
        BY DEF TypeOK, WireOK, Replies, Before, Deciding
      <3> QED  BY <2>0, <3>1 DEF TypeOK, PathOK, RecordsOK, Before, Deciding, Answered
    <2>8. ResourcesOK'
      BY DEF TypeOK, PathOK, ResourcesOK, Before, Deciding, Answered
    <2> QED  BY <2>1, <2>2, <2>3, <2>4, <2>5, <2>6, <2>7, <2>8
  <1>3. ASSUME NEW s \in Replies, ProcessorAnswers(s) PROVE NInv'
    <2> USE <1>3 DEF ProcessorAnswers
    <2>1. TypeOK'
      BY DEF TypeOK
    <2>2. DocumentOK'
      BY DEF TypeOK, DocumentOK, Before
    <2>3. AskedOK'
      BY DEF TypeOK, AskedOK, PathOK, Before, Deciding
    <2>4. PathOK'
      BY DEF TypeOK, PathOK, Before, Deciding, Answered, Buffered
    <2>5. WireOK'
      BY DEF TypeOK, PathOK, WireOK, Before, Deciding, Answered, Buffered
    <2>6. BufferOK'
      BY DEF TypeOK, PathOK, WireOK, BufferOK, BufferedIsWhole, Deciding,
          Answered, Incomplete, Overrun, Fake, Buffered, Replies
    <2>7. RecordsOK'
      BY DEF TypeOK, PathOK, RecordsOK, Before, Deciding, Answered
    <2>8. ResourcesOK'
      BY DEF TypeOK, PathOK, ResourcesOK, Before, Deciding, Answered
    <2> QED  BY <2>1, <2>2, <2>3, <2>4, <2>5, <2>6, <2>7, <2>8
  <1>4. CASE Acquire
    <2> USE <1>4 DEF Acquire
    <2>1. TypeOK'
      BY DEF TypeOK
    <2>2. DocumentOK'
      BY DEF TypeOK, DocumentOK, Before
    <2>3. AskedOK'
      BY DEF TypeOK, AskedOK, PathOK, Before, Deciding
    <2>4. PathOK'
      BY DEF TypeOK, PathOK, Before, Deciding, Answered
    <2>5. WireOK'
      BY DEF TypeOK, PathOK, WireOK, Before, Deciding, Answered
    <2>6. BufferOK'
      BY DEF TypeOK, PathOK, WireOK, BufferOK, BufferedIsWhole, Deciding,
          Answered, Incomplete, Overrun, Fake, Buffered, Replies
    <2>7. RecordsOK'
      BY DEF TypeOK, PathOK, RecordsOK, Before, Deciding, Answered
    <2>8. ResourcesOK'
      BY DEF TypeOK, PathOK, ResourcesOK, Before, Deciding, Answered
    <2> QED  BY <2>1, <2>2, <2>3, <2>4, <2>5, <2>6, <2>7, <2>8
  <1>5. CASE BuildFails
    <2> USE <1>5 DEF BuildFails, WriteError
    <2>0. /\ sink => \E r \in records' : records' = {r}
          /\ \A r \in records' :
                /\ r \in [status : Replies \cup {None}, error : BOOLEAN, bytes : Nat, number : Nat]
                /\ r.status = None /\ r.error = TRUE /\ r.bytes = read /\ r.number = 0
      <3>1. records = {}  BY DEF RecordsOK, Deciding, Answered, Before
      <3>2. None \in Replies \cup {None} /\ TRUE \in BOOLEAN /\ Record(None, TRUE)
        BY DEF TypeOK
      <3> HIDE DEF None
      <3> QED  BY <3>1, <3>2, FirstRecord
    <2>1. TypeOK'
      <3>1. wire' \in [head : Replies \cup Errors \cup {None}, sent : 0..MaxChunks, sse : BOOLEAN]
        BY DEF TypeOK, Errors
      <3>2. \A r \in records' : r \in [status : Replies \cup {None}, error : BOOLEAN,
                                     bytes : Nat, number : Nat]
        BY <2>0 DEF TypeOK
      <3>3. contacted' \in BOOLEAN  BY DEF TypeOK
      <3> QED  BY <3>1, <3>2, <3>3 DEF TypeOK
    <2>2. DocumentOK'
      BY DEF TypeOK, DocumentOK, Before
    <2>3. AskedOK'
      BY DEF TypeOK, AskedOK, PathOK, Before, Deciding
    <2>4. PathOK'
      BY DEF TypeOK, PathOK, Before, Deciding, Answered
    <2>5. WireOK'
      BY DEF TypeOK, PathOK, WireOK, Before, Deciding, Answered
    <2>6. BufferOK'
      BY DEF TypeOK, PathOK, WireOK, BufferOK, BufferedIsWhole, Deciding,
          Answered, Incomplete, Overrun, Fake, Buffered, Replies
    <2>7. RecordsOK'
      <3>1. wire'.head \notin Replies
        BY DEF TypeOK, WireOK, Replies, Before, Deciding
      <3> QED  BY <2>0, <3>1 DEF TypeOK, PathOK, RecordsOK, Before, Deciding, Answered
    <2>8. ResourcesOK'
      BY DEF TypeOK, PathOK, ResourcesOK, Before, Deciding, Answered
    <2> QED  BY <2>1, <2>2, <2>3, <2>4, <2>5, <2>6, <2>7, <2>8
  <1>6. CASE Send
    <2> USE <1>6 DEF Send
    <2>1. TypeOK'
      BY DEF TypeOK
    <2>2. DocumentOK'
      BY DEF TypeOK, DocumentOK, Before
    <2>3. AskedOK'
      BY DEF TypeOK, AskedOK, PathOK, Before, Deciding
    <2>4. PathOK'
      BY DEF TypeOK, PathOK, Before, Deciding, Answered
    <2>5. WireOK'
      BY DEF TypeOK, PathOK, WireOK, Before, Deciding, Answered
    <2>6. BufferOK'
      BY DEF TypeOK, PathOK, WireOK, BufferOK, BufferedIsWhole, Deciding,
          Answered, Incomplete, Overrun, Fake, Buffered, Replies
    <2>7. RecordsOK'
      BY DEF TypeOK, PathOK, RecordsOK, Before, Deciding, Answered
    <2>8. ResourcesOK'
      BY DEF TypeOK, PathOK, ResourcesOK, Before, Deciding, Answered
    <2> QED  BY <2>1, <2>2, <2>3, <2>4, <2>5, <2>6, <2>7, <2>8
  <1>7. CASE SendFails
    <2> USE <1>7 DEF SendFails, WriteError
    <2>0. /\ sink => \E r \in records' : records' = {r}
          /\ \A r \in records' :
                /\ r \in [status : Replies \cup {None}, error : BOOLEAN, bytes : Nat, number : Nat]
                /\ r.status = None /\ r.error = TRUE /\ r.bytes = read /\ r.number = 0
      <3>1. records = {}  BY DEF RecordsOK, Deciding, Answered, Before
      <3>2. None \in Replies \cup {None} /\ TRUE \in BOOLEAN /\ Record(None, TRUE)
        BY DEF TypeOK
      <3> HIDE DEF None
      <3> QED  BY <3>1, <3>2, FirstRecord
    <2>1. TypeOK'
      <3>1. wire' \in [head : Replies \cup Errors \cup {None}, sent : 0..MaxChunks, sse : BOOLEAN]
        BY DEF TypeOK, Errors, RequestError
      <3>2. \A r \in records' : r \in [status : Replies \cup {None}, error : BOOLEAN,
                                     bytes : Nat, number : Nat]
        BY <2>0 DEF TypeOK
      <3>3. contacted' \in BOOLEAN  BY DEF TypeOK
      <3> QED  BY <3>1, <3>2, <3>3 DEF TypeOK
    <2>2. DocumentOK'
      BY DEF TypeOK, DocumentOK, Before
    <2>3. AskedOK'
      BY DEF TypeOK, AskedOK, PathOK, Before, Deciding
    <2>4. PathOK'
      BY DEF TypeOK, PathOK, Before, Deciding, Answered
    <2>5. WireOK'
      BY DEF TypeOK, PathOK, WireOK, Before, Deciding, Answered, RequestError
    <2>6. BufferOK'
      BY DEF TypeOK, PathOK, WireOK, BufferOK, BufferedIsWhole, Deciding,
          Answered, Incomplete, Overrun, Fake, Buffered, Replies, RequestError
    <2>7. RecordsOK'
      <3>1. wire'.head \notin Replies
        BY DEF TypeOK, WireOK, Replies, Before, Deciding, RequestError
      <3> QED  BY <2>0, <3>1 DEF TypeOK, PathOK, RecordsOK, Before, Deciding, Answered
    <2>8. ResourcesOK'
      BY DEF TypeOK, PathOK, ResourcesOK, Before, Deciding, Answered
    <2> QED  BY <2>1, <2>2, <2>3, <2>4, <2>5, <2>6, <2>7, <2>8
  <1>8. ASSUME NEW s \in Replies, Answer(s) PROVE NInv'
    <2> USE <1>8 DEF Answer
    <2>1. TypeOK'
      BY DEF TypeOK, Fake
    <2>2. DocumentOK'
      BY DEF TypeOK, DocumentOK, Before
    <2>3. AskedOK'
      BY DEF TypeOK, AskedOK, PathOK, Before, Deciding
    <2>4. PathOK'
      BY DEF TypeOK, PathOK, Before, Deciding, Answered, Fake, Buffered
    <2>5. WireOK'
      BY DEF TypeOK, PathOK, WireOK, Before, Deciding, Answered, Fake, Buffered
    <2>6. BufferOK'
      BY DEF TypeOK, PathOK, WireOK, BufferOK, BufferedIsWhole, Deciding,
          Answered, Incomplete, Overrun, Fake, Buffered, Replies
    <2>7. RecordsOK'
      BY DEF TypeOK, PathOK, RecordsOK, Before, Deciding, Answered
    <2>8. ResourcesOK'
      BY DEF TypeOK, PathOK, ResourcesOK, Before, Deciding, Answered
    <2> QED  BY <2>1, <2>2, <2>3, <2>4, <2>5, <2>6, <2>7, <2>8
  <1> QED  BY <1>1, <1>2, <1>3, <1>4, <1>5, <1>6, <1>7, <1>8

\* The reply as it is read and passed on.
LEMMA ReplyKeeps ==
    ASSUME NInv,
           \/ PassHead
           \/ ReadChunk
           \/ PassChunk
           \/ PassFails
           \/ ReadEof
           \/ ReadFails
           \/ ReadTooMuch
    PROVE  NInv'
  <1> USE BoundAssumption DEF NInv, inputs, resources, upstream, None
  <1>1. CASE PassHead
    <2> USE <1>1 DEF PassHead
    <2>1. TypeOK'
      BY DEF TypeOK, Sending, PathOK, Answered
    <2>2. DocumentOK'
      BY DEF TypeOK, DocumentOK, Before
    <2>3. AskedOK'
      BY DEF TypeOK, AskedOK, PathOK, Before, Deciding
    <2>4. PathOK'
      BY DEF TypeOK, PathOK, Before, Deciding, Answered, Buffered, Fake
    <2>5. WireOK'
      BY DEF TypeOK, PathOK, WireOK, Before, Deciding, Answered, Sending,
          Buffered, Fake
    <2>6. BufferOK'
      BY DEF TypeOK, PathOK, WireOK, BufferOK, BufferedIsWhole, Deciding,
          Answered, Incomplete, Overrun, Fake, Buffered, Replies, Sending
    <2>7. RecordsOK'
      BY DEF TypeOK, PathOK, RecordsOK, Before, Deciding, Answered
    <2>8. ResourcesOK'
      BY DEF TypeOK, PathOK, ResourcesOK, Before, Deciding, Answered
    <2> QED  BY <2>1, <2>2, <2>3, <2>4, <2>5, <2>6, <2>7, <2>8
  <1>2. CASE ReadChunk
    <2> USE <1>2 DEF ReadChunk
    <2>1. TypeOK'
      BY DEF TypeOK, Buffered
    <2>2. DocumentOK'
      BY DEF TypeOK, DocumentOK, Before
    <2>3. AskedOK'
      BY DEF TypeOK, AskedOK, PathOK, Before, Deciding
    <2>4. PathOK'
      BY DEF TypeOK, PathOK, Before, Deciding, Answered, Buffered, Fake
    <2>5. WireOK'
      BY DEF TypeOK, PathOK, WireOK, Before, Deciding, Answered, Buffered, Fake
    <2>6. BufferOK'
      BY DEF TypeOK, PathOK, WireOK, BufferOK, BufferedIsWhole, Deciding,
          Answered, Incomplete, Overrun, Fake, Buffered, Replies
    <2>7. RecordsOK'
      BY DEF TypeOK, PathOK, RecordsOK, Before, Deciding, Answered
    <2>8. ResourcesOK'
      BY DEF TypeOK, PathOK, ResourcesOK, Before, Deciding, Answered
    <2> QED  BY <2>1, <2>2, <2>3, <2>4, <2>5, <2>6, <2>7, <2>8
  <1>3. CASE PassChunk
    <2> USE <1>3 DEF PassChunk
    <2>1. TypeOK'
      BY DEF TypeOK, WireOK, PathOK
    <2>2. DocumentOK'
      BY DEF TypeOK, DocumentOK, Before
    <2>3. AskedOK'
      BY DEF TypeOK, AskedOK, PathOK, Before, Deciding
    <2>4. PathOK'
      BY DEF TypeOK, PathOK, Before, Deciding, Answered, Buffered, Fake
    <2>5. WireOK'
      BY DEF TypeOK, PathOK, WireOK, Before, Deciding, Answered, Buffered, Fake
    <2>6. BufferOK'
      BY DEF TypeOK, PathOK, WireOK, BufferOK, BufferedIsWhole, Deciding,
          Answered, Incomplete, Overrun, Fake, Buffered, Replies
    <2>7. RecordsOK'
      BY DEF TypeOK, PathOK, RecordsOK, Before, Deciding, Answered
    <2>8. ResourcesOK'
      BY DEF TypeOK, PathOK, ResourcesOK, Before, Deciding, Answered
    <2> QED  BY <2>1, <2>2, <2>3, <2>4, <2>5, <2>6, <2>7, <2>8
  <1>4. CASE PassFails
    <2> USE <1>4 DEF PassFails
    <2>1. TypeOK'
      <3>1. failure' \in BOOLEAN  BY Zenon
      <3> QED  BY <3>1 DEF TypeOK
    <2>2. DocumentOK'
      BY DEF TypeOK, DocumentOK, Before
    <2>3. AskedOK'
      BY DEF TypeOK, AskedOK, PathOK, Before, Deciding
    <2>4. PathOK'
      BY DEF TypeOK, PathOK, Before, Deciding, Answered
    <2>5. WireOK'
      BY DEF TypeOK, PathOK, WireOK, Before, Deciding, Answered, Buffered, Fake
    <2>6. BufferOK'
      BY DEF TypeOK, PathOK, WireOK, BufferOK, BufferedIsWhole, Deciding,
          Answered, Incomplete, Overrun, Fake, Buffered, Replies
    <2>7. RecordsOK'
      BY DEF TypeOK, PathOK, RecordsOK, Before, Deciding, Answered
    <2>8. ResourcesOK'
      BY DEF TypeOK, PathOK, ResourcesOK, Before, Deciding, Answered
    <2> QED  BY <2>1, <2>2, <2>3, <2>4, <2>5, <2>6, <2>7, <2>8
  <1>5. CASE ReadEof
    <2> USE <1>5 DEF ReadEof
    <2>1. TypeOK'
      BY DEF TypeOK, Buffered
    <2>2. DocumentOK'
      BY DEF TypeOK, DocumentOK, Before
    <2>3. AskedOK'
      BY DEF TypeOK, AskedOK, PathOK, Before, Deciding
    <2>4. PathOK'
      BY DEF TypeOK, PathOK, Before, Deciding, Answered, Buffered, Fake
    <2>5. WireOK'
      BY DEF TypeOK, PathOK, WireOK, Before, Deciding, Answered, Buffered, Fake
    <2>6. BufferOK'
      BY DEF TypeOK, PathOK, WireOK, BufferOK, BufferedIsWhole, Deciding,
          Answered, Incomplete, Overrun, Fake, Buffered, Replies
    <2>7. RecordsOK'
      BY DEF TypeOK, PathOK, RecordsOK, Before, Deciding, Answered
    <2>8. ResourcesOK'
      BY DEF TypeOK, PathOK, ResourcesOK, Before, Deciding, Answered
    <2> QED  BY <2>1, <2>2, <2>3, <2>4, <2>5, <2>6, <2>7, <2>8
  <1>6. CASE ReadFails
    <2> USE <1>6 DEF ReadFails
    <2>1. TypeOK'
      BY DEF TypeOK, Buffered
    <2>2. DocumentOK'
      BY DEF TypeOK, DocumentOK, Before
    <2>3. AskedOK'
      BY DEF TypeOK, AskedOK, PathOK, Before, Deciding
    <2>4. PathOK'
      BY DEF TypeOK, PathOK, Before, Deciding, Answered, Buffered, Fake
    <2>5. WireOK'
      BY DEF TypeOK, PathOK, WireOK, Before, Deciding, Answered, Buffered, Fake
    <2>6. BufferOK'
      BY DEF TypeOK, PathOK, WireOK, BufferOK, BufferedIsWhole, Deciding,
          Answered, Incomplete, Overrun, Fake, Buffered, Replies
    <2>7. RecordsOK'
      BY DEF TypeOK, PathOK, RecordsOK, Before, Deciding, Answered
    <2>8. ResourcesOK'
      BY DEF TypeOK, PathOK, ResourcesOK, Before, Deciding, Answered
    <2> QED  BY <2>1, <2>2, <2>3, <2>4, <2>5, <2>6, <2>7, <2>8
  <1>7. CASE ReadTooMuch
    <2> USE <1>7 DEF ReadTooMuch
    <2>1. TypeOK'
      BY DEF TypeOK
    <2>2. DocumentOK'
      BY DEF TypeOK, DocumentOK, Before
    <2>3. AskedOK'
      BY DEF TypeOK, AskedOK, PathOK, Before, Deciding
    <2>4. PathOK'
      BY DEF TypeOK, PathOK, Before, Deciding, Answered, Buffered, Fake,
          Overrun
    <2>5. WireOK'
      BY DEF TypeOK, PathOK, WireOK, Before, Deciding, Answered, Buffered,
          Fake, Overrun
    <2>6. BufferOK'
      BY DEF TypeOK, PathOK, WireOK, BufferOK, BufferedIsWhole, Deciding,
          Answered, Incomplete, Overrun, Fake, Buffered, Replies
    <2>7. RecordsOK'
      BY DEF TypeOK, PathOK, RecordsOK, Before, Deciding, Answered
    <2>8. ResourcesOK'
      BY DEF TypeOK, PathOK, ResourcesOK, Before, Deciding, Answered
    <2> QED  BY <2>1, <2>2, <2>3, <2>4, <2>5, <2>6, <2>7, <2>8
  <1> QED  BY <1>1, <1>2, <1>3, <1>4, <1>5, <1>6, <1>7

\* The buffered reply.
LEMMA BufferKeeps ==
    ASSUME NInv,
           \/ BufferRefused
           \/ PassBuffer
           \/ ConvertBuffer
           \/ ConvertFails
    PROVE  NInv'
  <1> USE BoundAssumption DEF NInv, inputs, resources, upstream, None
  <1>1. CASE BufferRefused
    <2> USE <1>1 DEF BufferRefused, WriteError
    <2>1. TypeOK'
      BY DEF TypeOK, Errors
    <2>2. DocumentOK'
      BY DEF TypeOK, DocumentOK, Before
    <2>3. AskedOK'
      BY DEF TypeOK, AskedOK, PathOK, Before, Deciding
    <2>4. PathOK'
      BY DEF TypeOK, PathOK, Before, Deciding, Answered
    <2>5. WireOK'
      BY DEF TypeOK, PathOK, WireOK, Before, Deciding, Answered, Errors
    <2>6. BufferOK'
      BY DEF TypeOK, PathOK, WireOK, BufferOK, BufferedIsWhole, Deciding,
          Answered, Incomplete, Overrun, Fake, Buffered, Replies, Errors
    <2>7. RecordsOK'
      BY DEF TypeOK, PathOK, RecordsOK, Before, Deciding, Answered
    <2>8. ResourcesOK'
      BY DEF TypeOK, PathOK, ResourcesOK, Before, Deciding, Answered
    <2> QED  BY <2>1, <2>2, <2>3, <2>4, <2>5, <2>6, <2>7, <2>8
  <1>2. CASE PassBuffer
    <2> USE <1>2 DEF PassBuffer
    <2>1. TypeOK'
      BY DEF TypeOK, PathOK, Answered
    <2>2. DocumentOK'
      BY DEF TypeOK, DocumentOK, Before
    <2>3. AskedOK'
      BY DEF TypeOK, AskedOK, PathOK, Before, Deciding
    <2>4. PathOK'
      BY DEF TypeOK, PathOK, Before, Deciding, Answered
    <2>5. WireOK'
      BY DEF TypeOK, PathOK, WireOK, Before, Deciding, Answered
    <2>6. BufferOK'
      BY DEF TypeOK, PathOK, WireOK, BufferOK, BufferedIsWhole, Deciding,
          Answered, Incomplete, Overrun, Fake, Buffered, Replies
    <2>7. RecordsOK'
      BY DEF TypeOK, PathOK, RecordsOK, Before, Deciding, Answered
    <2>8. ResourcesOK'
      BY DEF TypeOK, PathOK, ResourcesOK, Before, Deciding, Answered
    <2> QED  BY <2>1, <2>2, <2>3, <2>4, <2>5, <2>6, <2>7, <2>8
  <1>3. CASE ConvertBuffer
    <2> USE <1>3 DEF ConvertBuffer
    <2>1. TypeOK'
      BY DEF TypeOK, PathOK, Answered
    <2>2. DocumentOK'
      BY DEF TypeOK, DocumentOK, Before
    <2>3. AskedOK'
      BY DEF TypeOK, AskedOK, PathOK, Before, Deciding
    <2>4. PathOK'
      BY DEF TypeOK, PathOK, Before, Deciding, Answered
    <2>5. WireOK'
      BY DEF TypeOK, PathOK, WireOK, Before, Deciding, Answered
    <2>6. BufferOK'
      BY DEF TypeOK, PathOK, WireOK, BufferOK, BufferedIsWhole, Deciding,
          Answered, Incomplete, Overrun, Fake, Buffered, Replies
    <2>7. RecordsOK'
      BY DEF TypeOK, PathOK, RecordsOK, Before, Deciding, Answered
    <2>8. ResourcesOK'
      BY DEF TypeOK, PathOK, ResourcesOK, Before, Deciding, Answered
    <2> QED  BY <2>1, <2>2, <2>3, <2>4, <2>5, <2>6, <2>7, <2>8
  <1>4. CASE ConvertFails
    <2> USE <1>4 DEF ConvertFails, WriteError
    <2>1. TypeOK'
      <3>1. status \in Replies  BY DEF PathOK, Answered
      <3>2. wire' \in [head : Replies \cup Errors \cup {None}, sent : 0..MaxChunks, sse : BOOLEAN]
        <4>1. CASE wire' = [head |-> status, sent |-> 0, sse |-> TRUE]
          BY <3>1, <4>1
        <4>2. CASE wire' = IF wire.head = None THEN [wire EXCEPT !.head = "4003"] ELSE wire
          BY <4>2 DEF TypeOK, Errors
        <4> QED  BY <4>1, <4>2
      <3> QED  BY <3>2 DEF TypeOK
    <2>2. DocumentOK'
      BY DEF TypeOK, DocumentOK, Before
    <2>3. AskedOK'
      BY DEF TypeOK, AskedOK, PathOK, Before, Deciding
    <2>4. PathOK'
      BY DEF TypeOK, PathOK, Before, Deciding, Answered
    <2>5. WireOK'
      BY DEF TypeOK, PathOK, WireOK, Before, Deciding, Answered, Errors
    <2>6. BufferOK'
      BY DEF TypeOK, PathOK, WireOK, BufferOK, BufferedIsWhole, Deciding,
          Answered, Incomplete, Overrun, Fake, Buffered, Replies, Errors
    <2>7. RecordsOK'
      BY DEF TypeOK, PathOK, RecordsOK, Before, Deciding, Answered
    <2>8. ResourcesOK'
      BY DEF TypeOK, PathOK, ResourcesOK, Before, Deciding, Answered
    <2> QED  BY <2>1, <2>2, <2>3, <2>4, <2>5, <2>6, <2>7, <2>8
  <1> QED  BY <1>1, <1>2, <1>3, <1>4

\* The record, the deferred calls and the environment.
LEMMA EndKeeps ==
    ASSUME NInv,
           \/ Finish
           \/ CloseBody
           \/ Release
           \/ TimerFires
           \/ ClientGoes
    PROVE  NInv'
  <1> USE BoundAssumption DEF NInv, inputs, resources, upstream, None
  <1>1. CASE Finish
    <2> USE <1>1 DEF Finish
    <2>0. /\ sink => \E r \in records' : records' = {r}
          /\ \A r \in records' :
                /\ r \in [status : Replies \cup {None}, error : BOOLEAN, bytes : Nat, number : Nat]
                /\ r.status = status /\ r.error = failure /\ r.bytes = read /\ r.number = 0
      <3>1. records = {}  BY DEF RecordsOK, Deciding, Answered, Before
      <3>2. status \in Replies \cup {None} /\ failure \in BOOLEAN /\ Record(status, failure)
        BY DEF PathOK, Answered, TypeOK
      <3> HIDE DEF None
      <3> QED  BY <3>1, <3>2, FirstRecord
    <2>1. TypeOK'
      BY <2>0 DEF TypeOK, PathOK, Answered
    <2>2. DocumentOK'
      BY DEF TypeOK, DocumentOK, Before
    <2>3. AskedOK'
      BY DEF TypeOK, AskedOK, PathOK, Before, Deciding
    <2>4. PathOK'
      BY DEF TypeOK, PathOK, Before, Deciding, Answered
    <2>5. WireOK'
      BY DEF TypeOK, PathOK, WireOK, Before, Deciding, Answered, Replies,
          Errors
    <2>6. BufferOK'
      BY DEF TypeOK, PathOK, WireOK, BufferOK, BufferedIsWhole, Deciding,
          Answered, Incomplete, Overrun, Fake, Buffered, Replies
    <2>7. RecordsOK'
      BY <2>0 DEF TypeOK, PathOK, RecordsOK, Before, Deciding, Answered, WireOK,
          Replies, Errors
    <2>8. ResourcesOK'
      BY DEF TypeOK, PathOK, ResourcesOK, Before, Deciding, Answered
    <2> QED  BY <2>1, <2>2, <2>3, <2>4, <2>5, <2>6, <2>7, <2>8
  <1>2. CASE CloseBody
    <2> USE <1>2 DEF CloseBody
    <2>1. TypeOK'
      <3>1. bodyOpen' \in BOOLEAN  BY Zenon
      <3> QED  BY <3>1 DEF TypeOK
    <2>2. DocumentOK'
      BY DEF TypeOK, DocumentOK, Before
    <2>3. AskedOK'
      BY DEF TypeOK, AskedOK, PathOK, Before, Deciding
    <2>4. PathOK'
      BY DEF TypeOK, PathOK, Before, Deciding, Answered
    <2>5. WireOK'
      BY DEF TypeOK, PathOK, WireOK, Before, Deciding, Answered
    <2>6. BufferOK'
      BY DEF TypeOK, PathOK, WireOK, BufferOK, BufferedIsWhole, Deciding,
          Answered, Incomplete, Overrun, Fake, Buffered, Replies
    <2>7. RecordsOK'
      BY DEF TypeOK, PathOK, RecordsOK, Before, Deciding, Answered
    <2>8. ResourcesOK'
      BY DEF TypeOK, PathOK, ResourcesOK, Before, Deciding, Answered
    <2> QED  BY <2>1, <2>2, <2>3, <2>4, <2>5, <2>6, <2>7, <2>8
  <1>3. CASE Release
    <2> USE <1>3 DEF Release
    <2>1. TypeOK'
      <3>1. held' \in BOOLEAN  BY Zenon
      <3> QED  BY <3>1 DEF TypeOK
    <2>2. DocumentOK'
      BY DEF TypeOK, DocumentOK, Before
    <2>3. AskedOK'
      BY DEF TypeOK, AskedOK, PathOK, Before, Deciding
    <2>4. PathOK'
      BY DEF TypeOK, PathOK, Before, Deciding, Answered
    <2>5. WireOK'
      BY DEF TypeOK, PathOK, WireOK, Before, Deciding, Answered
    <2>6. BufferOK'
      BY DEF TypeOK, PathOK, WireOK, BufferOK, BufferedIsWhole, Deciding,
          Answered, Incomplete, Overrun, Fake, Buffered, Replies
    <2>7. RecordsOK'
      BY DEF TypeOK, PathOK, RecordsOK, Before, Deciding, Answered
    <2>8. ResourcesOK'
      BY DEF TypeOK, PathOK, ResourcesOK, Before, Deciding, Answered
    <2> QED  BY <2>1, <2>2, <2>3, <2>4, <2>5, <2>6, <2>7, <2>8
  <1>4. CASE TimerFires
    <2> USE <1>4 DEF TimerFires
    <2>1. TypeOK'
      BY DEF TypeOK
    <2>2. DocumentOK'
      BY DEF TypeOK, DocumentOK, Before, ClientWantsStream
    <2>3. AskedOK'
      BY DEF TypeOK, AskedOK, PathOK, Before, Deciding
    <2>4. PathOK'
      BY DEF TypeOK, PathOK, Before, Deciding, Answered, Buffered, Fake
    <2>5. WireOK'
      BY DEF TypeOK, PathOK, WireOK, Before, Deciding, Answered, Buffered, Fake
    <2>6. BufferOK'
      BY DEF TypeOK, PathOK, WireOK, BufferOK, BufferedIsWhole, Deciding,
          Answered, Incomplete, Overrun, Fake, Buffered, Replies
    <2>7. RecordsOK'
      BY DEF TypeOK, PathOK, RecordsOK, Before, Deciding, Answered
    <2>8. ResourcesOK'
      BY DEF TypeOK, PathOK, ResourcesOK, Before, Deciding, Answered
    <2> QED  BY <2>1, <2>2, <2>3, <2>4, <2>5, <2>6, <2>7, <2>8
  <1>5. CASE ClientGoes
    <2> USE <1>5 DEF ClientGoes
    <2>1. TypeOK'
      BY DEF TypeOK
    <2>2. DocumentOK'
      BY DEF TypeOK, DocumentOK, Before, ClientWantsStream
    <2>3. AskedOK'
      BY DEF TypeOK, AskedOK, PathOK, Before, Deciding
    <2>4. PathOK'
      BY DEF TypeOK, PathOK, Before, Deciding, Answered, Buffered, Fake
    <2>5. WireOK'
      BY DEF TypeOK, PathOK, WireOK, Before, Deciding, Answered, Buffered, Fake
    <2>6. BufferOK'
      BY DEF TypeOK, PathOK, WireOK, BufferOK, BufferedIsWhole, Deciding,
          Answered, Incomplete, Overrun, Fake, Buffered, Replies
    <2>7. RecordsOK'
      BY DEF TypeOK, PathOK, RecordsOK, Before, Deciding, Answered
    <2>8. ResourcesOK'
      BY DEF TypeOK, PathOK, ResourcesOK, Before, Deciding, Answered
    <2> QED  BY <2>1, <2>2, <2>3, <2>4, <2>5, <2>6, <2>7, <2>8
  <1> QED  BY <1>1, <1>2, <1>3, <1>4, <1>5

\* Every reachable state satisfies the invariant.
THEOREM PipelineInvariant == Spec => []NInv
  <1>1. NInv /\ UNCHANGED vars => NInv'
    <2> SUFFICES ASSUME NInv, UNCHANGED vars PROVE NInv'  OBVIOUS
    <2> USE DEF NInv, vars, inputs, resources, upstream
    <2>1. TypeOK' /\ DocumentOK'  BY DEF TypeOK, DocumentOK, ClientWantsStream
    <2>2. AskedOK' /\ PathOK'  BY DEF AskedOK, PathOK, Buffered, Fake
    <2>3. WireOK' /\ BufferOK'
      BY DEF WireOK, BufferOK, BufferedIsWhole, Buffered, Fake, Incomplete, Overrun
    <2>4. RecordsOK' /\ ResourcesOK'  BY DEF RecordsOK, ResourcesOK
    <2> QED  BY <2>1, <2>2, <2>3, <2>4
  <1>2. NInv /\ Next => NInv'
    BY <1>1, RulesKeep, PrepareKeeps, CallKeeps, ReplyKeeps, BufferKeeps, EndKeeps
    DEF Next, Local, Remote, ReadMemory, Ended
  <1> QED  BY <1>1, <1>2, NInit, PTL DEF Spec, Safety

\* A call that went out leaves exactly one record, whatever became of it.
THEOREM OneRecordPerCall == Spec => []UpstreamCallsRecorded
  <1>1. NInv => UpstreamCallsRecorded
    <2> SUFFICES ASSUME NInv, pc = "done", sink, contacted PROVE Cardinality(records) = 1
      BY DEF UpstreamCallsRecorded
    <2>1. PICK r \in records : records = {r}  BY DEF NInv, RecordsOK
    <2> QED  BY <2>1, FS_Singleton
  <1> QED  BY <1>1, PipelineInvariant, PTL

\* However a request ends, a client that waits has its answer, unless the body
\* was null.
THEOREM ClientsAnswered == Spec => []AnsweredUnlessNull
  <1>1. NInv => AnsweredUnlessNull  BY DEF NInv, WireOK, AnsweredUnlessNull
  <1> QED  BY <1>1, PipelineInvariant, PTL

\* An incomplete buffer is never passed off as the reply.
THEOREM BuffersComplete == Spec => []BufferedIsWhole
  <1>1. NInv => BufferedIsWhole  BY DEF NInv, BufferOK
  <1> QED  BY <1>1, PipelineInvariant, PTL

\* With nonstream_to_stream the upstream is never asked to stream.
THEOREM ShapedStaysPlain == Spec => []ShapedNeverStreams
  <1>1. NInv => ShapedNeverStreams  BY DEF NInv, AskedOK, ShapedNeverStreams
  <1> QED  BY <1>1, PipelineInvariant, PTL

\* Behind the privacy processor nothing streams.
THEOREM ProtectedStaysPlain == Spec => []ProtectedNeverStreams
  <1>1. NInv => ProtectedNeverStreams  BY DEF NInv, AskedOK, ProtectedNeverStreams
  <1> QED  BY <1>1, PipelineInvariant, PTL

-----------------------------------------------------------------------------
(* Replies that break off *)

\* The reading ends once; no error is reported before the reply has ended; and how the
\* reply ended, if it was passed on as it came, goes to finish and from there into the
\* record.
StreamOK ==
    /\ end # "more" => pc \in {"buffered", "finish", "close", "release", "done"}
    /\ pc \in Deciding \cup {"awaiting", "head", "reading", "passing"} => ~failure
    /\ ~Buffered =>
          /\ pc = "finish" => PassedOn(failure, read)
          /\ \A r \in records : wire.head \in Replies => PassedOn(r.error, r.bytes)
          /\ pc \in {"close", "release", "done"} /\ sink /\ end # "more" =>
                \E r \in records : PassedOn(r.error, r.bytes)

\* Before the reply is read there is no record of it.
LEMMA StreamBegins ==
    ASSUME NInv, StreamOK,
           \/ TransformPanics \/ TransformFails \/ Transform
           \/ ShapePanics \/ PrepareFails \/ PrepareConflicts \/ Prepare
           \/ ProcessorMissing \/ ProcessorFails \/ Acquire \/ BuildFails \/ Send
           \/ SendFails
           \/ \E s \in Replies : ProcessorAnswers(s) \/ Answer(s)
    PROVE  StreamOK'
  <1> USE DEF Deciding, Before, TransformPanics, TransformFails, Transform, ShapePanics,
              PrepareFails, PrepareConflicts, Prepare, ProcessorMissing, ProcessorFails, Acquire,
              BuildFails, Send, SendFails, ProcessorAnswers, Answer, Panic, RequestError,
              inputs, upstream, resources
  <1>1. pc \in Deciding \cup {"awaiting"} /\ end = "more" /\ end' = end /\ ~failure
        /\ failure' = failure /\ records = {} /\ wire.head = None
    BY DEF StreamOK, NInv, RecordsOK, Answered, WireOK
  <1>2. pc' \notin {"buffered", "finish", "close"} /\ pc' # "passing"  OBVIOUS
  <1>3. records' = {} \/ wire'.head \notin Replies
    <2>1. CASE \/ TransformFails \/ ProcessorFails \/ BuildFails \/ SendFails
      <3>1. wire'.head \in Errors  BY <1>1, <2>1 DEF WriteError, Errors, NInv, TypeOK
      <3> QED  BY <3>1 DEF Errors, Replies
    <2>2. CASE ~(\/ TransformFails \/ ProcessorFails \/ BuildFails \/ SendFails)
      BY <1>1, <2>2
    <2> QED  BY <2>1, <2>2
  <1> QED  BY <1>1, <1>2, <1>3 DEF StreamOK

LEMMA StreamKept ==
    ASSUME NInv, StreamOK, Next
    PROVE  StreamOK'
  <1> USE DEF Buffered, Fake, inputs, upstream, resources
  <1>1. CASE \/ TransformPanics \/ TransformFails \/ Transform
             \/ ShapePanics \/ PrepareFails \/ PrepareConflicts \/ Prepare
             \/ ProcessorMissing \/ ProcessorFails \/ Acquire \/ BuildFails \/ Send
             \/ SendFails
             \/ \E s \in Replies : ProcessorAnswers(s) \/ Answer(s)
    BY <1>1, StreamBegins
  <1>2. CASE \/ PassHead \/ PassChunk \/ ReadChunk \/ PassFails \/ ReadEof \/ ReadFails
             \/ ReadTooMuch
    <2>1. /\ pc \in {"head", "passing", "reading"} /\ records = {} /\ records' = {}
          /\ end = "more" /\ ~failure
      BY <1>2 DEF PassHead, PassChunk, ReadChunk, PassFails, ReadEof, ReadFails, ReadTooMuch,
         StreamOK, NInv, RecordsOK, Answered
    <2>2. pc = "reading" /\ ~Buffered => wire.sent = read
      BY <1>2 DEF NInv, WireOK
    <2>3. CASE PassHead \/ PassChunk \/ ReadChunk
      BY <2>1, <2>3 DEF PassHead, PassChunk, ReadChunk, StreamOK, Deciding, Before
    <2>4. CASE PassFails
      BY <2>1, <2>4 DEF PassFails, StreamOK, PassedOn, Deciding, Before
    <2>5. CASE ReadEof
      BY <2>1, <2>2, <2>5 DEF ReadEof, StreamOK, PassedOn, Deciding, Before
    <2>6. CASE ReadFails
      BY <2>1, <2>6 DEF ReadFails, StreamOK, PassedOn, Deciding, Before
    <2>7. CASE ReadTooMuch
      BY <2>1, <2>7 DEF ReadTooMuch, Overrun, StreamOK, Deciding, Before
    <2> QED  BY <1>2, <2>3, <2>4, <2>5, <2>6, <2>7
  <1>3. CASE BufferRefused \/ PassBuffer \/ ConvertBuffer \/ ConvertFails
    BY <1>3 DEF BufferRefused, PassBuffer, ConvertBuffer, ConvertFails, NInv, PathOK, StreamOK,
       Deciding, Before
  <1>4. CASE Finish
    <2>1. /\ sink => \E r \in records' : records' = {r}
          /\ \A r \in records' :
                r.status = status /\ r.error = failure /\ r.bytes = read /\ r.number = 0
      <3>1. records = {}  BY <1>4 DEF Finish, NInv, RecordsOK, Deciding, Answered, Before
      <3>2. status \in Replies \cup {None} /\ failure \in BOOLEAN /\ Record(status, failure)
        BY <1>4 DEF Finish, NInv, PathOK, Answered, TypeOK
      <3>3. TypeOK  BY DEF NInv
      <3> HIDE DEF Buffered, Fake, inputs, upstream, resources
      <3> QED  BY <3>1, <3>2, <3>3, FirstRecord
    <2> QED  BY <1>4, <2>1 DEF Finish, StreamOK, PassedOn, Deciding, Before
  <1>5. CASE CloseBody \/ Release
    BY <1>5 DEF CloseBody, Release, StreamOK, PassedOn, Deciding, Before
  <1>6. CASE TimerFires \/ ClientGoes
    BY <1>6 DEF TimerFires, ClientGoes, StreamOK, PassedOn, Deciding, Before
  <1>7. CASE Ended
    BY <1>7 DEF Ended, vars, StreamOK, PassedOn, Deciding, Before
  <1> QED  BY <1>1, <1>2, <1>3, <1>4, <1>5, <1>6, <1>7 DEF Next, Local, Remote, ReadMemory

\* How a reply that is passed on as it comes ends is what its record says.
LEMMA StreamInvariant == Spec => []StreamOK
  <1>1. Init => StreamOK  BY DEF Init, StreamOK, Deciding, Before
  <1>2. NInv /\ StreamOK /\ [Next]_vars => StreamOK'
    <2>1. StreamOK /\ UNCHANGED vars => StreamOK'
      BY DEF StreamOK, PassedOn, Buffered, Fake, vars, inputs, upstream
    <2> QED  BY <2>1, StreamKept
  <1> QED  BY <1>1, <1>2, PipelineInvariant, PTL DEF Spec, Safety

\* A record tells the status the client saw, never fewer bytes than it was sent, and, of
\* a reply that did not go through a buffer, whether the client was sent all of it.
THEOREM RecordsTruthful == Spec => []RecordMatchesWire
  <1>1. NInv /\ StreamOK => RecordMatchesWire
    BY DEF NInv, RecordsOK, StreamOK, RecordMatchesWire
  <1> QED  BY <1>1, StreamInvariant, PipelineInvariant, PTL

\* A reply passed on as it comes that does not reach its end leaves a record with an
\* error, the deadline's included.
BrokenStreamRecorded ==
    pc = "done" /\ sink /\ ~Buffered /\ end \in {"error", "timeout"} =>
        \E r \in records : r.error

\* Only a reply that is buffered can be cut off by the deadline without a record that
\* says so: what TimeoutRecorded misses is a matter of the buffer alone.
THEOREM StreamTimeoutsRecorded == Spec => []BrokenStreamRecorded
  <1>1. StreamOK => BrokenStreamRecorded
    BY DEF StreamOK, PassedOn, BrokenStreamRecorded
  <1> QED  BY <1>1, StreamInvariant, PTL

-----------------------------------------------------------------------------
(* How long a request can take: the steps it has before it at most.  Reading  *)
(* and passing on alternate, chunk by chunk; the deadline is armed once and   *)
(* fires once, and the client leaves once.                                    *)

Ahead ==
    [transform |-> 16, prepare |-> 13, protect |-> 12, acquire |-> 12, build |-> 11,
     awaiting |-> 10, head |-> 9, passing |-> 8, reading |-> 7, buffered |-> 6, finish |-> 5,
     close |-> 4, release |-> 3, done |-> 0]
StepsLeft ==
    Ahead[pc] + 2 * (MaxChunks - read)
        + (IF timer = "armed" THEN 1 ELSE 0) + (IF gone THEN 0 ELSE 1)

\* The steps left are a number, and no step adds any: each of them, the deadline's and
\* the client's included, takes some away.
AlwaysForward == [][StepsLeft' < StepsLeft /\ StepsLeft \in Nat]_vars

\* Execute never goes back: no interleaving of upstream, deadline and client makes a
\* request run for ever.  This is the part of Terminates that needs no fairness.
THEOREM RequestsAreFinite == Spec => AlwaysForward
  <1>1. ASSUME NInv, Next, vars' # vars
        PROVE  StepsLeft' < StepsLeft /\ StepsLeft \in Nat
    <2> USE <1>1, BoundAssumption DEF inputs, upstream, resources
    <2>0. /\ Ahead["transform"] = 16 /\ Ahead["prepare"] = 13 /\ Ahead["protect"] = 12
          /\ Ahead["acquire"] = 12 /\ Ahead["build"] = 11 /\ Ahead["awaiting"] = 10
          /\ Ahead["head"] = 9 /\ Ahead["passing"] = 8 /\ Ahead["reading"] = 7
          /\ Ahead["buffered"] = 6 /\ Ahead["finish"] = 5 /\ Ahead["close"] = 4
          /\ Ahead["release"] = 3 /\ Ahead["done"] = 0
      BY DEF Ahead
    <2>1. /\ pc \in DOMAIN Ahead /\ Ahead[pc] \in 0..16
          /\ read \in 0..MaxChunks /\ timer \in {"off", "armed", "fired"} /\ gone \in BOOLEAN
      BY DEF NInv, TypeOK, Ahead
    <2>2. StepsLeft \in Nat  BY <2>1 DEF StepsLeft
    <2> SUFFICES StepsLeft' < StepsLeft  BY <2>2
    <2>3. ASSUME read' = read, timer' = timer, gone' = gone,
                 Ahead[pc'] \in Nat, Ahead[pc'] < Ahead[pc]
          PROVE  StepsLeft' < StepsLeft
      BY <2>1, <2>3 DEF StepsLeft
    <2>4. CASE TransformPanics \/ TransformFails
      BY <2>0, <2>3, <2>4 DEF TransformPanics, TransformFails, Panic, Record
    <2>5. CASE Transform
      <3>1. Ahead[pc] = 16 /\ Ahead[pc'] = 13 /\ UNCHANGED <<read, gone>>
        BY <2>0, <2>5 DEF Transform
      <3> QED  BY <2>1, <3>1 DEF StepsLeft
    <2>6. CASE ShapePanics \/ PrepareFails \/ PrepareConflicts \/ Prepare
      BY <2>0, <2>3, <2>6 DEF ShapePanics, PrepareFails, PrepareConflicts, Prepare, Panic
    <2>7. CASE ProcessorMissing \/ ProcessorFails \/ \E s \in Replies : ProcessorAnswers(s)
      BY <2>0, <2>3, <2>7 DEF ProcessorMissing, ProcessorFails, ProcessorAnswers, Record
    <2>8. CASE Acquire \/ BuildFails \/ Send
      BY <2>0, <2>3, <2>8 DEF Acquire, BuildFails, Send, Record
    <2>9. CASE SendFails \/ \E s \in Replies : Answer(s)
      BY <2>0, <2>3, <2>9 DEF SendFails, Answer, Record
    <2>10. CASE PassHead \/ PassChunk \/ PassFails
      <3>1. /\ <<pc, pc'>> \in {<<"head", "reading">>, <<"passing", "reading">>,
                                <<"passing", "finish">>}
            /\ UNCHANGED <<read, timer, gone>>
        BY <2>10 DEF PassHead, PassChunk, PassFails
      <3> QED  BY <2>0, <2>3, <3>1
    <2>11. CASE ReadChunk
      <3>1. /\ Ahead[pc] = 7 /\ Ahead[pc'] \in {7, 8} /\ UNCHANGED <<timer, gone>>
            /\ read < MaxChunks /\ read' = read + 1
        BY <2>0, <2>11 DEF ReadChunk
      <3> QED  BY <2>1, <3>1 DEF StepsLeft
    <2>12. CASE ReadEof \/ ReadFails \/ ReadTooMuch
      BY <2>0, <2>3, <2>12 DEF ReadEof, ReadFails, ReadTooMuch
    <2>13. CASE BufferRefused \/ PassBuffer \/ ConvertBuffer \/ ConvertFails
      BY <2>0, <2>3, <2>13 DEF BufferRefused, PassBuffer, ConvertBuffer, ConvertFails
    <2>14. CASE Finish \/ CloseBody \/ Release
      BY <2>0, <2>3, <2>14 DEF Finish, CloseBody, Release
    <2>15. CASE TimerFires \/ ClientGoes
      <3>1. UNCHANGED <<pc, read>>  BY <2>15 DEF TimerFires, ClientGoes
      <3> QED  BY <2>1, <2>15, <3>1 DEF TimerFires, ClientGoes, StepsLeft
    <2> QED  BY <2>4, <2>5, <2>6, <2>7, <2>8, <2>9, <2>10, <2>11, <2>12, <2>13, <2>14, <2>15
             DEF Next, Local, Remote, ReadMemory, Ended
  <1>2. NInv /\ [Next]_vars => [StepsLeft' < StepsLeft /\ StepsLeft \in Nat]_vars
    BY <1>1
  <1> QED  BY <1>2, PipelineInvariant, PTL DEF Spec, Safety, AlwaysForward
=============================================================================
