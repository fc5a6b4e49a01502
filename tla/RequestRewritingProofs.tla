----------------------- MODULE RequestRewritingProofs -----------------------
(***************************************************************************)
(* Proofs about RequestRewriting, for any conversations, documents and     *)
(* rules: what goes upstream is the client's document with the rules       *)
(* applied, the headers follow their rules and the session identifier the  *)
(* conversation, and requests leave the snapshot alone unless a rule goes  *)
(* below another one's object.                                             *)
(***************************************************************************)
EXTENDS RequestRewriting, TLAPS, SequenceTheorems, WellFoundedInduction

\* As long as no rule goes below another one's object, nobody writes to the
\* snapshot.
KeptOK ==
    Disjoint => /\ snapshot = policy.custom /\ ~crashed
                /\ \A c \in Conversations : pc[c] # "writing"

\* A conversation goes on from its opening, and its requests were identified by
\* the first words of its user.
SessionsOK ==
    \A c \in Conversations :
        /\ \A k \in DOMAIN opening[c] : k \in DOMAIN history[c] /\ history[c][k] = opening[c][k]
        /\ \A i \in DOMAIN opening[c] :
              BeginsAt(opening[c], i) => \A s \in sessions[c] : s = <<"seed", opening[c][i][2]>>

\* A request under way has its identifier, and the headers that are out follow
\* the rules.
HeadersOK ==
    /\ \A c \in Conversations :
          pc[c] \in {"custom", "writing", "encoding", "unchanged"} =>
              SessionID(original[c]) \in sessions[c]
    /\ HeadersAsIntended

\* The custom rules a request has applied, and those of them whose objects it
\* has linked to.
Done(c) == DOMAIN policy.custom \ pending[c]
Linked(c) == Objects(policy) \ pending[c]

\* A leaf of the document json.Marshal would find, wherever it is kept, and a
\* leaf the rules applied so far ask for.
Found(c, p, v) ==
    /\ v # Link
    /\ \/ p \in DOMAIN doc[c] /\ doc[c][p] = v
       \/ \E q \in Linked(c) : p \in DOMAIN snapshot[q] /\ snapshot[q][p] = v
Asked(c, p, v) ==
    /\ ~\E r \in Done(c) : IsStrictPrefix(p, r)
    /\ p \in DOMAIN Decided(c, Done(c), p) /\ Decided(c, Done(c), p)[p] = v

\* No rule that is still to be applied writes at, above or below a path.
Settled(c, p) == \A r \in pending[c] : ~IsPrefix(r, p) /\ ~IsPrefix(p, r)

\* What a request has done, as far as it met no other one.
Private(c) == Disjoint \/ ~shared[c]
DocumentOK(c) ==
    /\ DOMAIN doc[c] \subseteq Paths /\ DOMAIN Prepared(policy, original[c]) \subseteq Paths
    \* a linked object holds the leaves below it, except those below an inner one
    /\ \A p \in DOMAIN doc[c] : doc[c][p] # Link => ~\E q \in Linked(c) : IsPrefix(q, p)
    /\ \A q \in Linked(c) : \A p \in DOMAIN snapshot[q] :
          snapshot[q][p] # Link => ~\E o \in Linked(c) : IsStrictPrefix(q, o) /\ IsPrefix(o, p)
    \* no leaf stands in the way of a rule
    /\ \A p \in Paths, r \in Done(c) : IsStrictPrefix(p, r) => ~\E v : Found(c, p, v)
    \* what no rule will change is as it should be
    /\ \A p \in Paths : Settled(c, p) => \A v : Found(c, p, v) <=> Asked(c, p, v)

\* A value of the snapshot stays as it was compiled, but for the leaves some
\* rule below it writes to.
SnapshotOK ==
    /\ DOMAIN snapshot = DOMAIN policy.custom
    /\ \A r \in DOMAIN policy.custom \ Objects(policy) : snapshot[r] = policy.custom[r]
    /\ \A q \in Objects(policy) :
          /\ \A p \in DOMAIN snapshot[q] : p \in Paths /\ IsPrefix(q, p)
          /\ \A p \in Paths :
                (\A r \in DOMAIN policy.custom :
                    IsStrictPrefix(q, r) => ~IsPrefix(r, p) /\ ~IsPrefix(p, r))
                => /\ p \in DOMAIN snapshot[q] <=> p \in DOMAIN policy.custom[q]
                   /\ p \in DOMAIN snapshot[q] => snapshot[q][p] = policy.custom[q][p]

\* The rules are applied from the top, and a request that meets no other one
\* writes alone.
OrderOK ==
    \A c \in Conversations :
        /\ InFlight(c) => \A r \in Done(c), s \in pending[c] : ~IsStrictPrefix(s, r)
        /\ pc[c] = "writing" => /\ MayApply(c, writing[c]) /\ Passed(c, writing[c]) # {}
        /\ pc[c] = "encoding" => pending[c] = {}
        /\ InFlight(c) => ~IsZero(policy)
        /\ pc[c] = "unchanged" => IsZero(policy)
        /\ InFlight(c) /\ ~shared[c] => ~\E d \in Conversations \ {c} : InFlight(d)

DocumentsOK ==
    \A c \in Conversations : InFlight(c) /\ Private(c) => DocumentOK(c)

WInv ==
    /\ TypeOK /\ KeptOK /\ SessionsOK /\ HeadersOK
    /\ OrderOK /\ SnapshotOK /\ DocumentsOK /\ RewrittenAsIntended

-----------------------------------------------------------------------------
(* The session identifier *)

\* What follows the tag of a list are its items.
LEMMA ItemsOfList ==
    ASSUME NEW h \in Seq(Messages)
    PROVE  IsList(<<"list">> \o h) /\ Items(<<"list">> \o h) = h
  <1> DEFINE S == {"list"} \cup Messages
             l == <<"list">>
             s == l \o h
  <1>1. h \in Seq(S) /\ l \in Seq(S) /\ Len(l) = 1 /\ l[1] = "list" /\ Len(h) \in Nat
    OBVIOUS
  <1> HIDE DEF S, l
  <1>2. /\ s \in Seq(S) /\ Len(s) = 1 + Len(h)
        /\ \A i \in 1..(1 + Len(h)) : s[i] = IF i <= 1 THEN l[i] ELSE h[i - 1]
    <2>1. /\ l \o h \in Seq(S) /\ Len(l \o h) = Len(l) + Len(h)
          /\ \A i \in 1..(Len(l) + Len(h)) :
                (l \o h)[i] = IF i <= Len(l) THEN l[i] ELSE h[i - Len(l)]
      BY <1>1, ConcatProperties
    <2> QED  BY <1>1, <2>1
  <1> HIDE DEF s
  <1>3. s # <<>> /\ s[1] = "list"
    <2>1. 1 \in 1..(1 + Len(h)) /\ Len(s) # 0  BY <1>1, <1>2
    <2> QED  BY <1>1, <1>2, <2>1
  <1>4. /\ Tail(s) \in Seq(S) /\ Len(Tail(s)) = Len(s) - 1
        /\ \A i \in 1..Len(Tail(s)) : Tail(s)[i] = s[i + 1]
    BY <1>2, <1>3, HeadTailProperties
  <1>5. Len(Tail(s)) = Len(h)  BY <1>1, <1>2, <1>4
  <1>6. ASSUME NEW i \in 1..Len(h) PROVE Tail(s)[i] = h[i]
    <2>1. i + 1 \in 1..(1 + Len(h)) /\ ~(i + 1 <= 1) /\ i + 1 - 1 = i  BY <1>1
    <2> QED  BY <1>2, <1>4, <1>5, <2>1
  <1>7. Tail(s) = h  BY <1>1, <1>4, <1>5, <1>6, SeqEqual
  <1> QED  BY <1>3, <1>7 DEF IsList, Items, s, l

\* The seed is the first meaningful message, wherever it stands.
LEMMA SeedIsFirst ==
    ASSUME NEW h \in Seq(Messages), NEW i \in DOMAIN h, BeginsAt(h, i)
    PROVE  Seed(h) = <<"seed", h[i][2]>>
  <1> DEFINE fits == {k \in DOMAIN h : Meaningful(h[k])}
             first == CHOOSE k \in fits : \A j \in fits : k <= j
  <1>1. DOMAIN h \subseteq Nat /\ i \in Nat  OBVIOUS
  <1>2. i \in fits /\ \A j \in fits : i <= j  BY <1>1 DEF BeginsAt
  <1>3. first \in fits /\ \A j \in fits : first <= j  BY <1>2
  <1>4. first = i
    <2> HIDE DEF first
    <2>1. first \in Nat /\ first <= i /\ i <= first  BY <1>1, <1>2, <1>3
    <2> QED  BY <1>1, <2>1
  <1>5. Seed(h) = <<"seed", h[first][2]>>  BY <1>2 DEF Seed, FirstAmong
  <1> QED  BY <1>4, <1>5

\* Every body of a conversation gives the identifier of its first words.
LEMMA SessionOfBody ==
    ASSUME NEW e \in Exchanges, NEW h \in Seq(Messages), NEW i \in DOMAIN h,
           BeginsAt(h, i), NEW path, path = MessagesPath(policy)
    PROVE  SessionID(Assign(e.document, path, Leaf(path, <<"list">> \o h)))
              = <<"seed", h[i][2]>>
  <1> DEFINE list == <<"list">> \o h
             body == Assign(e.document, path, Leaf(path, list))
  <1>1. /\ path \in DOMAIN body /\ body[path] = list
        /\ \A p \in DOMAIN body : p # path => p \in DOMAIN e.document
    <2>1. DOMAIN Leaf(path, list) = {path} /\ Leaf(path, list)[path] = list
      BY DEF Leaf
    <2> HIDE DEF list
    <2> QED  BY <2>1 DEF Assign, Clear
  <1>2. IsList(list) /\ Items(list) = h  BY ItemsOfList
  <1> HIDE DEF list, body
  <1>3. SeedAt(body, path) = <<"seed", h[i][2]>>  BY <1>1, <1>2, SeedIsFirst DEF SeedAt
  <1>4. <<"seed", h[i][2]>> # None  BY DEF None
  <1>5. CASE path = <<"messages">>
    BY <1>3, <1>4, <1>5 DEF SessionID, body, list
  <1>6. CASE path = <<"contents">>
    <2>1. <<"messages">> # <<"contents">>  OBVIOUS
    <2>2. <<"messages">> \notin DOMAIN body  BY <1>1, <1>6, <2>1, ExchangesAssumption
    <2>3. SeedAt(body, <<"messages">>) = None  BY <2>2 DEF SeedAt
    <2> QED  BY <1>3, <1>4, <1>6, <2>3 DEF SessionID, body, list
  <1> QED  BY <1>5, <1>6 DEF MessagesPath

-----------------------------------------------------------------------------
(* The headers *)

\* Whatever the order of the rules, what they leave follows them.
LEMMA PlanFollowed ==
    ASSUME NEW from, NEW base, NEW rules, NEW dropped, NEW session,
           DOMAIN base = DOMAIN from \ dropped, \A n \in DOMAIN base : base[n] = from[n],
           NEW to \in ApplyHeaderPlan(base, from, rules, session)
    PROVE  HeadersFollow(from, to, rules, dropped, session)
  <1> DEFINE kept == Without(base, rules.delete)
             names == SetNames(rules)
  <1>1. PICK last \in LastKeys(rules) :
           to = [n \in DOMAIN kept \cup names |->
                    IF n \in names THEN Filled(rules.set[last[n]], Get(from, n), session)
                                   ELSE kept[n]]
    BY DEF ApplyHeaderPlan
  <1>2. DOMAIN kept = DOMAIN base \ rules.delete /\ \A n \in DOMAIN kept : kept[n] = base[n]
    BY DEF Without
  <1> HIDE DEF kept
  <1>3. \A n \in names : last[n] \in DOMAIN rules.set /\ last[n][1] = n  BY DEF LastKeys
  <1>4. ASSUME NEW n, NEW setting, setting = {key \in DOMAIN rules.set : key[1] = n}
        PROVE  setting # {} <=> n \in names
    BY <1>4 DEF SetNames
  <1>5. ASSUME NEW n \in names
        PROVE  n \in DOMAIN to /\ to[n] = Filled(rules.set[last[n]], Get(from, n), session)
    BY <1>1
  <1>6. ASSUME NEW n, n \notin names
        PROVE  /\ n \in dropped \cup rules.delete => n \notin DOMAIN to
               /\ n \in DOMAIN from \ (dropped \cup rules.delete) =>
                     n \in DOMAIN to /\ to[n] = from[n]
               /\ n \in DOMAIN to => n \in DOMAIN from
    BY <1>1, <1>2, <1>6
  <1> HIDE DEF names
  <1>7. SUFFICES ASSUME NEW n \in DOMAIN from \cup DOMAIN to \cup names,
                        NEW setting, setting = {key \in DOMAIN rules.set : key[1] = n}
                 PROVE  IF setting # {}
                        THEN /\ n \in DOMAIN to
                             /\ \E key \in setting :
                                   to[n] = Filled(rules.set[key], Get(from, n), session)
                        ELSE IF n \in dropped \cup rules.delete THEN n \notin DOMAIN to
                        ELSE n \in DOMAIN from /\ n \in DOMAIN to /\ to[n] = from[n]
    BY DEF HeadersFollow, names
  <1>8. CASE n \in names
    <2>1. last[n] \in setting  BY <1>3, <1>7, <1>8
    <2> QED  BY <1>5, <1>8, <2>1
  <1>9. CASE n \notin names
    <2>1. setting = {}  BY <1>4, <1>7, <1>9
    <2> QED  BY <1>6, <1>7, <1>9, <2>1
  <1> QED  BY <1>8, <1>9

LEMMA RequestFollows ==
    ASSUME NEW from, NEW rules, NEW session, NEW to \in RequestHeaders(from, rules, session)
    PROVE  HeadersFollow(from, to, rules, HopByHop, session)
  <1> DEFINE base == Without(from, HopByHop)
  <1>1. DOMAIN base = DOMAIN from \ HopByHop /\ \A n \in DOMAIN base : base[n] = from[n]
    BY DEF Without
  <1>2. to \in ApplyHeaderPlan(base, from, rules, session)  BY DEF RequestHeaders
  <1> HIDE DEF base
  <1> QED  BY <1>1, <1>2, PlanFollowed

LEMMA ReplyFollows ==
    ASSUME NEW from, NEW rules, NEW converted,
           NEW to \in ResponseHeaders(from, rules, converted)
    PROVE  HeadersFollow(from, to, rules, IF converted THEN SkippedForStream ELSE {},
                         <<"text", "">>)
  <1> DEFINE base == IF converted THEN Without(from, SkippedForStream) ELSE from
             dropped == IF converted THEN SkippedForStream ELSE {}
  <1>1. DOMAIN base = DOMAIN from \ dropped /\ \A n \in DOMAIN base : base[n] = from[n]
    BY DEF Without
  <1>2. to \in ApplyHeaderPlan(base, from, rules, <<"text", "">>)  BY DEF ResponseHeaders
  <1> HIDE DEF base, dropped
  <1>3. HeadersFollow(from, to, rules, dropped, <<"text", "">>)  BY <1>1, <1>2, PlanFollowed
  <1> QED  BY <1>3 DEF dropped

-----------------------------------------------------------------------------
(* Paths *)

\* A prefix, name by name.
LEMMA PrefixByNames ==
    ASSUME NEW s \in Paths, NEW t \in Paths
    PROVE  IsPrefix(s, t) <=> Len(s) <= Len(t) /\ \A i \in 1..Len(s) : s[i] = t[i]
  <1>1. Len(s) \in Nat /\ Len(t) \in Nat /\ DOMAIN s = 1..Len(s) /\ DOMAIN t = 1..Len(t)
    BY DEF Paths
  <1>2. SubSeq(s, 1, Len(s)) = [i \in 1..Len(s) |-> s[i]]
    BY <1>1 DEF Paths
  <1>3. CASE Len(s) <= Len(t)
    <2>1. SubSeq(t, 1, Len(s)) = [i \in 1..Len(s) |-> t[i]]
      BY <1>1, <1>3 DEF Paths
    <2>2. ([i \in 1..Len(s) |-> s[i]] = [i \in 1..Len(s) |-> t[i]])
             <=> \A i \in 1..Len(s) : s[i] = t[i]
      OBVIOUS
    <2> QED  BY <1>2, <1>3, <2>1, <2>2 DEF IsPrefix
  <1> QED  BY <1>3 DEF IsPrefix

\* Prefixes order the paths, and those of one path are in line.
LEMMA PrefixOrder ==
    ASSUME NEW s \in Paths, NEW t \in Paths, NEW u \in Paths
    PROVE  /\ IsPrefix(s, s)
           /\ IsPrefix(s, t) /\ IsPrefix(t, u) => IsPrefix(s, u)
           /\ IsPrefix(s, t) /\ IsPrefix(t, s) => s = t
           /\ IsPrefix(s, u) /\ IsPrefix(t, u) => IsPrefix(s, t) \/ IsPrefix(t, s)
  <1>1. Len(s) \in Nat /\ Len(t) \in Nat /\ Len(u) \in Nat  BY DEF Paths
  <1>2. IsPrefix(s, s)  BY <1>1, PrefixByNames
  <1>3. ASSUME IsPrefix(s, t), IsPrefix(t, u) PROVE IsPrefix(s, u)
    <2>1. /\ Len(s) <= Len(t) /\ \A i \in 1..Len(s) : s[i] = t[i]
          /\ Len(t) <= Len(u) /\ \A i \in 1..Len(t) : t[i] = u[i]
      BY <1>3, PrefixByNames
    <2>2. Len(s) <= Len(u) /\ \A i \in 1..Len(s) : i \in 1..Len(t)  BY <1>1, <2>1
    <2>3. \A i \in 1..Len(s) : s[i] = u[i]  BY <2>1, <2>2
    <2> QED  BY <2>2, <2>3, PrefixByNames
  <1>4. ASSUME IsPrefix(s, t), IsPrefix(t, s) PROVE s = t
    <2>1. Len(s) = Len(t) /\ \A i \in 1..Len(s) : s[i] = t[i]
      BY <1>1, <1>4, PrefixByNames
    <2>2. s \in Seq(Names) /\ t \in Seq(Names)  BY DEF Paths
    <2> QED  BY <2>1, <2>2, SeqEqual
  <1>5. ASSUME IsPrefix(s, u), IsPrefix(t, u) PROVE IsPrefix(s, t) \/ IsPrefix(t, s)
    <2>1. /\ Len(s) <= Len(u) /\ \A i \in 1..Len(s) : s[i] = u[i]
          /\ Len(t) <= Len(u) /\ \A i \in 1..Len(t) : t[i] = u[i]
      BY <1>5, PrefixByNames
    <2>2. CASE Len(s) <= Len(t)
      <3>1. \A i \in 1..Len(s) : i \in 1..Len(t)  BY <1>1, <2>2
      <3>2. \A i \in 1..Len(s) : s[i] = t[i]  BY <2>1, <3>1
      <3> QED  BY <2>2, <3>2, PrefixByNames
    <2>3. CASE Len(t) <= Len(s)
      <3>1. \A i \in 1..Len(t) : i \in 1..Len(s)  BY <1>1, <2>3
      <3>2. \A i \in 1..Len(t) : t[i] = s[i]  BY <2>1, <3>1
      <3> QED  BY <2>3, <3>2, PrefixByNames
    <2> QED  BY <1>1, <2>2, <2>3
  <1> QED  BY <1>2, <1>3, <1>4, <1>5

\* A nonempty set of naturals has a least element.
LEMMA LeastGap ==
    ASSUME NEW S, S \subseteq Nat, S # {}
    PROVE  \E m \in S : \A n \in S : m <= n
  <1> DEFINE R == {pair \in Nat \X Nat : pair[1] < pair[2]}
  <1>1. IsWellFoundedOn(R, Nat)  BY NatLessThanWellFounded DEF OpToRel
  <1>2. PICK m \in S : \A n \in S : <<n, m>> \notin R
    <2> HIDE DEF R
    <2> QED  BY <1>1, WFMin
  <1>3. ASSUME NEW n \in S PROVE m <= n
    <2>1. m \in Nat /\ n \in Nat /\ ~(n < m)  BY <1>2
    <2> QED  BY <2>1
  <1> QED  BY <1>3

\* Of the prefixes of a path there is a longest one.
LEMMA LongestPrefix ==
    ASSUME NEW p \in Paths, NEW S, S # {}, \A s \in S : s \in Paths /\ IsPrefix(s, p)
    PROVE  /\ Longest(S) \in S
           /\ \A s \in S : IsPrefix(s, Longest(S))
  <1> DEFINE gaps == {Len(p) - Len(s) : s \in S}
  <1>1. \A s \in S : Len(s) \in Nat /\ Len(p) \in Nat /\ Len(s) <= Len(p)
    BY PrefixByNames DEF Paths
  <1>2. gaps \subseteq Nat /\ gaps # {}  BY <1>1
  <1>3. PICK m \in gaps : \A n \in gaps : m <= n
    <2> HIDE DEF gaps
    <2> QED  BY <1>2, LeastGap
  <1>4. PICK l \in S : m = Len(p) - Len(l)  BY <1>3
  <1>5. ASSUME NEW s \in S PROVE IsPrefix(s, l)
    <2>1. Len(p) - Len(l) <= Len(p) - Len(s)  BY <1>3, <1>4
    <2>2. Len(s) <= Len(l)  BY <1>1, <2>1
    <2>3. \A i \in 1..Len(s) : s[i] = p[i]  BY PrefixByNames
    <2>4. \A i \in 1..Len(l) : l[i] = p[i]  BY PrefixByNames
    <2>5. \A i \in 1..Len(s) : i \in 1..Len(l)  BY <1>1, <2>2
    <2> QED  BY <2>2, <2>3, <2>4, <2>5, PrefixByNames
  <1> QED  BY <1>5 DEF Longest

\* A prefix of all that is one of them is the longest.
LEMMA LongestIs ==
    ASSUME NEW S, NEW l \in S, S \subseteq Paths, \A s \in S : IsPrefix(s, l)
    PROVE  Longest(S) = l
  <1>1. Longest(S) \in S /\ \A s \in S : IsPrefix(s, Longest(S))
    BY DEF Longest
  <1> QED  BY <1>1, PrefixOrder

-----------------------------------------------------------------------------
(* Documents *)

\* What an assignment leaves.
LEMMA AssignLeaves ==
    ASSUME NEW d, NEW path, NEW value, NEW p
    PROVE  /\ p \in DOMAIN Assign(d, path, value) <=>
                 p \in DOMAIN value \/ (p \in DOMAIN d /\ ~IsPrefix(path, p) /\ ~IsPrefix(p, path))
           /\ p \in DOMAIN value => Assign(d, path, value)[p] = value[p]
           /\ p \in DOMAIN Assign(d, path, value) /\ p \notin DOMAIN value =>
                 Assign(d, path, value)[p] = d[p]
  BY DEF Assign, Clear

\* What a rule asks for, and what is stored for it while the snapshot has its
\* value as it was compiled.
LEMMA RuleValues ==
    ASSUME TypeOK, NEW c \in Conversations, NEW r \in DOMAIN policy.custom
    PROVE  /\ r \in Paths
           /\ r \in Objects(policy) =>
                 /\ RuleValue(c, r) = policy.custom[r]
                 /\ Value(c, r) = Leaf(r, Link)
                 /\ \A p \in DOMAIN policy.custom[r] : policy.custom[r][p] # Link
           /\ r \notin Objects(policy) =>
                 /\ DOMAIN policy.custom[r] = {r}
                 /\ DOMAIN RuleValue(c, r) = {r} /\ RuleValue(c, r)[r] # Link
                 /\ snapshot[r] = policy.custom[r] => Value(c, r) = RuleValue(c, r)
  <1>1. policy \in Policies  BY DEF TypeOK
  <1>2. /\ r \in Paths
        /\ r \in DOMAIN policy.custom[r] => DOMAIN policy.custom[r] = {r}
        /\ \A p \in DOMAIN policy.custom[r] : policy.custom[r][p] # Link
    BY <1>1, PoliciesAssumption
  <1>3. ASSUME r \in Objects(policy) PROVE policy.custom[r] # Leaf(r, <<"origin">>)
    <2>1. r \in DOMAIN Leaf(r, <<"origin">>) /\ Leaf(r, <<"origin">>)[r] = <<"origin">>
      BY DEF Leaf
    <2>2. <<"origin">> # EmptyObject  BY DEF EmptyObject
    <2>3. IsObject(policy.custom[r], r)  BY <1>3 DEF Objects
    <2> QED  BY <2>1, <2>2, <2>3 DEF IsObject
  <1>4. OriginText(original[c], r) # Link
    <2>1. /\ \A x : <<"text", x>> # <<"link">> /\ <<"json", x>> # <<"link">>
      OBVIOUS
    <2> QED  BY <2>1 DEF OriginText, Link
  <1>5. ASSUME r \notin Objects(policy) PROVE DOMAIN policy.custom[r] = {r}
    BY <1>2, <1>5 DEF Objects, IsObject
  <1>6. /\ DOMAIN Leaf(r, OriginText(original[c], r)) = {r}
        /\ Leaf(r, OriginText(original[c], r))[r] = OriginText(original[c], r)
    BY DEF Leaf
  <1>7. ASSUME r \notin Objects(policy)
        PROVE  DOMAIN RuleValue(c, r) = {r} /\ RuleValue(c, r)[r] # Link
    <2>1. CASE policy.custom[r] = Leaf(r, <<"origin">>)
      BY <1>4, <1>6, <2>1 DEF RuleValue
    <2>2. CASE policy.custom[r] # Leaf(r, <<"origin">>)
      BY <1>2, <1>5, <1>7, <2>2 DEF RuleValue
    <2> QED  BY <2>1, <2>2
  <1>8. r \in Objects(policy) => RuleValue(c, r) = policy.custom[r]  BY <1>3 DEF RuleValue
  <1>9. r \in Objects(policy) => Value(c, r) = Leaf(r, Link)  BY DEF Value
  <1>10. r \notin Objects(policy) /\ snapshot[r] = policy.custom[r] =>
            Value(c, r) = RuleValue(c, r)
    BY DEF Value, Interpolated, RuleValue
  <1> QED  BY <1>2, <1>5, <1>7, <1>8, <1>9, <1>10

\* ApplyCustom in place, or the write to an object: what it does to a document.
Applies(c, path) ==
    /\ UNCHANGED <<policy, original>>
    /\ pending' = [pending EXCEPT ![c] = @ \ {path}]
    /\ IF Passed(c, path) = {}
       THEN /\ doc' = [doc EXCEPT ![c] = Assign(@, path, Value(c, path))]
            /\ snapshot' = snapshot
       ELSE /\ doc' = doc
            /\ snapshot' = [snapshot EXCEPT ![Longest(Passed(c, path))] =
                               Assign(@, path, Value(c, path))]

\* The rules done and the objects linked while a rule waits for its turn.
LEMMA Turn ==
    ASSUME TypeOK, NEW c \in Conversations, NEW path \in DOMAIN policy.custom,
           MayApply(c, path), \A r \in Done(c), s \in pending[c] : ~IsStrictPrefix(s, r)
    PROVE  /\ path \in Paths /\ Done(c) \subseteq Paths /\ Linked(c) \subseteq Done(c)
           /\ path \in pending[c] /\ path \notin Done(c)
           /\ \A r \in Done(c) : ~IsPrefix(path, r)
           /\ Passed(c, path) = {q \in Linked(c) : IsPrefix(q, path)}
           /\ Passed(c, path) # {} =>
                 /\ Longest(Passed(c, path)) \in Passed(c, path)
                 /\ \A q \in Passed(c, path) : IsPrefix(q, Longest(Passed(c, path)))
  <1>1. policy \in Policies /\ pending[c] \subseteq DOMAIN policy.custom  BY DEF TypeOK
  <1>2. \A r \in DOMAIN policy.custom : r \in Paths  BY <1>1, PoliciesAssumption
  <1>3. path \in pending[c] /\ path \notin Done(c)  BY DEF MayApply, Done
  <1>4. Linked(c) \subseteq Done(c)  BY DEF Linked, Done, Objects
  <1>5. \A r \in Done(c) : r \in Paths  BY <1>2 DEF Done
  <1>6. \A r \in Done(c) : ~IsPrefix(path, r)  BY <1>3 DEF IsStrictPrefix
  <1>7. Passed(c, path) = {q \in Linked(c) : IsPrefix(q, path)}
    BY <1>3, <1>4 DEF Passed, Linked, IsStrictPrefix
  <1>8. ASSUME Passed(c, path) # {}
        PROVE  /\ Longest(Passed(c, path)) \in Passed(c, path)
               /\ \A q \in Passed(c, path) : IsPrefix(q, Longest(Passed(c, path)))
    <2>1. \A q \in Passed(c, path) : q \in Paths /\ IsPrefix(q, path)
      BY <1>4, <1>5, <1>7
    <2> QED  BY <1>2, <1>8, <2>1, LongestPrefix
  <1> QED  BY <1>2, <1>3, <1>4, <1>5, <1>6, <1>7, <1>8

\* A rule that is applied decides the leaves at and below its path, leaves none
\* above it, and no others change, wherever they are kept.
LEMMA FoundAfter ==
    ASSUME TypeOK, SnapshotOK, NEW c \in Conversations, DocumentOK(c),
           NEW path \in DOMAIN policy.custom, MayApply(c, path), Applies(c, path),
           \A r \in Done(c), s \in pending[c] : ~IsStrictPrefix(s, r),
           NEW p \in Paths, NEW v
    PROVE  Found(c, p, v)' <=>
              IF IsPrefix(path, p)
              THEN IF path \in Objects(policy)
                   THEN p \in DOMAIN snapshot[path] /\ snapshot[path][p] = v /\ v # Link
                   ELSE p = path /\ v = RuleValue(c, path)[path]
              ELSE ~IsPrefix(p, path) /\ Found(c, p, v)
  <1> DEFINE L == Linked(c)
             D == Done(c)
             object == Longest(Passed(c, path))
             new == Value(c, path)
  <1>1. /\ path \in Paths /\ D \subseteq Paths /\ L \subseteq D /\ path \notin D
        /\ \A r \in D : ~IsPrefix(path, r)
        /\ Passed(c, path) = {q \in L : IsPrefix(q, path)}
        /\ Passed(c, path) # {} =>
              object \in Passed(c, path) /\ \A q \in Passed(c, path) : IsPrefix(q, object)
    BY Turn
  <1>2. Linked(c)' = IF path \in Objects(policy) THEN L \cup {path} ELSE L
    BY DEF Linked, Applies, Objects, MayApply, TypeOK
  <1>3. /\ path \in Objects(policy) => DOMAIN new = {path} /\ new[path] = Link
        /\ path \notin Objects(policy) =>
              DOMAIN new = {path} /\ new[path] = RuleValue(c, path)[path] /\ new[path] # Link
    <2>1. path \notin Objects(policy) => snapshot[path] = policy.custom[path]
      BY DEF SnapshotOK
    <2>2. DOMAIN Leaf(path, Link) = {path} /\ Leaf(path, Link)[path] = Link  BY DEF Leaf
    <2>3. /\ path \in Objects(policy) => new = Leaf(path, Link)
          /\ path \notin Objects(policy) =>
                new = RuleValue(c, path) /\ DOMAIN RuleValue(c, path) = {path}
                /\ RuleValue(c, path)[path] # Link
      BY <2>1, RuleValues
    <2> HIDE DEF new
    <2> QED  BY <2>2, <2>3
  <1>4. \A q \in L : ~IsPrefix(path, q)  BY <1>1
  <1>5. /\ \A q \in L : IsPrefix(q, p) /\ IsPrefix(path, p) => q \in Passed(c, path)
        /\ \A q \in L : IsPrefix(q, p) /\ IsPrefix(p, path) => q \in Passed(c, path)
    BY <1>1, <1>4, PrefixOrder
  <1>6. \A q \in L : \A x \in DOMAIN snapshot[q] : IsPrefix(q, x)
    BY DEF SnapshotOK, Linked
  <1>7. /\ p \in DOMAIN doc[c] /\ doc[c][p] # Link => ~\E q \in L : IsPrefix(q, p)
        /\ \A q \in L : p \in DOMAIN snapshot[q] /\ snapshot[q][p] # Link =>
              ~\E o \in L : IsStrictPrefix(q, o) /\ IsPrefix(o, p)
        /\ (\E r \in D : IsStrictPrefix(p, r)) => ~Found(c, p, v)
    BY DEF DocumentOK
  <1>8. DOMAIN doc = Conversations /\ DOMAIN snapshot = DOMAIN policy.custom
    BY DEF TypeOK, SnapshotOK
  <1>9. IsPrefix(path, p) /\ IsPrefix(p, path) => p = path  BY <1>1, PrefixOrder
  <1>10. \A q \in L : q # path  BY <1>1
  <1>11. \A x : Link # x <=> x # Link  OBVIOUS
  <1>12. IsPrefix(path, path)  BY <1>1, PrefixOrder
  <1>13. CASE Passed(c, path) = {}
    <2>1. doc'[c] = Assign(doc[c], path, new) /\ snapshot' = snapshot
      BY <1>8, <1>13 DEF Applies
    <2>2. /\ p \in DOMAIN doc'[c] <=>
                p = path \/ (p \in DOMAIN doc[c] /\ ~IsPrefix(path, p) /\ ~IsPrefix(p, path))
          /\ p = path => doc'[c][p] = new[path]
          /\ p \in DOMAIN doc'[c] /\ p # path => doc'[c][p] = doc[c][p]
      BY <1>3, <2>1, AssignLeaves
    <2>3. IsPrefix(path, p) \/ IsPrefix(p, path) =>
             \A q \in L : p \notin DOMAIN snapshot[q]
      BY <1>5, <1>6, <1>13
    <2> DEFINE at(S, q) == p \in DOMAIN S[q] /\ S[q][p] = v
    <2>4. Found(c, p, v)' <=>
             /\ v # Link
             /\ \/ p \in DOMAIN doc'[c] /\ doc'[c][p] = v
                \/ \E q \in L : at(snapshot, q)
                \/ path \in Objects(policy) /\ at(snapshot, path)
      BY <1>2, <2>1 DEF Found
    <2>5. Found(c, p, v) <=> /\ v # Link
                             /\ \/ p \in DOMAIN doc[c] /\ doc[c][p] = v
                                \/ \E q \in L : at(snapshot, q)
      BY DEF Found
    <2>6. path \in Objects(policy) /\ at(snapshot, path) => IsPrefix(path, p)
      BY DEF SnapshotOK
    <2>7. CASE IsPrefix(path, p) \/ IsPrefix(p, path)
      BY <1>3, <1>9, <1>12, <2>2, <2>3, <2>4, <2>6, <2>7
    <2>8. CASE ~IsPrefix(path, p) /\ ~IsPrefix(p, path)
      <3>1. p # path  BY <1>12, <2>8
      <3> QED  BY <2>2, <2>4, <2>5, <2>6, <2>8, <3>1
    <2> QED  BY <2>7, <2>8
  <1>14. CASE Passed(c, path) # {}
    <2>1. doc' = doc /\ object \in L /\ IsPrefix(object, path)
      BY <1>1, <1>14 DEF Applies
    <2>2. /\ snapshot'[object] = Assign(snapshot[object], path, new)
          /\ \A q \in DOMAIN policy.custom \ {object} : snapshot'[q] = snapshot[q]
      BY <1>8, <1>14, <2>1 DEF Applies, Linked, Objects
    <2>3. /\ p \in DOMAIN snapshot'[object] <=>
                \/ p = path
                \/ p \in DOMAIN snapshot[object] /\ ~IsPrefix(path, p) /\ ~IsPrefix(p, path)
          /\ p = path => snapshot'[object][p] = new[path]
          /\ p \in DOMAIN snapshot'[object] /\ p # path => snapshot'[object][p] = snapshot[object][p]
      BY <1>3, <2>2, AssignLeaves
    <2>4. ASSUME IsPrefix(path, p)
          PROVE  /\ ~(p \in DOMAIN doc[c] /\ doc[c][p] # Link)
                 /\ \A q \in L \ {object} : ~(p \in DOMAIN snapshot[q] /\ snapshot[q][p] # Link)
      <3>1. IsPrefix(object, p)  BY <1>1, <2>1, <2>4, PrefixOrder
      <3>2. ASSUME NEW q \in L \ {object}, p \in DOMAIN snapshot[q] PROVE snapshot[q][p] = Link
        <4>1. q \in Passed(c, path)  BY <1>5, <1>6, <2>4, <3>2
        <4>2. IsStrictPrefix(q, object)  BY <1>1, <4>1 DEF IsStrictPrefix
        <4> QED  BY <1>7, <2>1, <3>1, <3>2, <4>2
      <3> QED  BY <1>7, <2>1, <3>1, <3>2
    <2>5. ASSUME IsPrefix(p, path), p # path
          PROVE  /\ ~(p \in DOMAIN doc[c] /\ doc[c][p] = v /\ v # Link)
                 /\ \A q \in L \ {object} :
                       ~(p \in DOMAIN snapshot[q] /\ snapshot[q][p] = v /\ v # Link)
      <3>1. IsPrefix(p, object) \/ IsPrefix(object, p)
        BY <1>1, <2>1, <2>5, PrefixOrder
      <3>2. CASE IsStrictPrefix(p, object)
        BY <1>1, <1>7, <2>1, <3>2 DEF Found, Linked
      <3>3. CASE IsPrefix(object, p)
        <4>1. ASSUME NEW q \in L \ {object}, p \in DOMAIN snapshot[q] PROVE snapshot[q][p] = Link
          <5>1. q \in Passed(c, path)  BY <1>5, <1>6, <2>5, <4>1
          <5>2. IsStrictPrefix(q, object)  BY <1>1, <5>1 DEF IsStrictPrefix
          <5> QED  BY <1>7, <2>1, <3>3, <4>1, <5>2
        <4> QED  BY <1>7, <2>1, <3>3, <4>1
      <3>4. object = p => IsPrefix(object, p)  BY <1>1, <2>1, PrefixOrder
      <3> QED  BY <3>1, <3>2, <3>3, <3>4 DEF IsStrictPrefix
    <2>6. \A q \in L : q \in DOMAIN policy.custom  BY DEF Linked, Objects
    <2> DEFINE at(S, q) == p \in DOMAIN S[q] /\ S[q][p] = v
    <2>7. Found(c, p, v)' <=>
             /\ v # Link
             /\ \/ p \in DOMAIN doc[c] /\ doc[c][p] = v
                \/ \E q \in L \ {object} : at(snapshot, q)
                \/ p \in DOMAIN snapshot'[object] /\ snapshot'[object][p] = v
                \/ path \in Objects(policy) /\ at(snapshot, path)
      BY <1>2, <1>10, <2>1, <2>2, <2>6 DEF Found
    <2>8. CASE IsPrefix(path, p)
      BY <1>3, <1>12, <2>3, <2>4, <2>7, <2>8
    <2>9. CASE ~IsPrefix(path, p) /\ IsPrefix(p, path)
      <3>1. p # path  BY <1>12, <2>9
      <3>2. ~(path \in Objects(policy) /\ at(snapshot, path))
        BY <2>9 DEF SnapshotOK
      <3> QED  BY <2>3, <2>5, <2>7, <2>9, <3>1, <3>2
    <2>10. CASE ~IsPrefix(path, p) /\ ~IsPrefix(p, path)
      <3>1. p # path  BY <1>12, <2>10
      <3>2. ~(path \in Objects(policy) /\ at(snapshot, path))
        BY <2>10 DEF SnapshotOK
      <3>3. p \in DOMAIN snapshot'[object] /\ snapshot'[object][p] = v <=> at(snapshot, object)
        BY <2>3, <2>10, <3>1
      <3>4. Found(c, p, v) <=> /\ v # Link
                               /\ \/ p \in DOMAIN doc[c] /\ doc[c][p] = v
                                  \/ \E q \in L : at(snapshot, q)
        BY DEF Found
      <3> QED  BY <2>1, <2>7, <2>10, <3>2, <3>3, <3>4
    <2> QED  BY <2>8, <2>9, <2>10
  <1> QED  BY <1>13, <1>14

\* A rule that is applied leaves the document in order.
LEMMA DocumentAfter ==
    ASSUME TypeOK, SnapshotOK, NEW c \in Conversations, DocumentOK(c),
           NEW path \in DOMAIN policy.custom, MayApply(c, path), Applies(c, path),
           \A r \in Done(c), s \in pending[c] : ~IsStrictPrefix(s, r)
    PROVE  DocumentOK(c)'
  <1> DEFINE L == Linked(c)
             D == Done(c)
             object == Longest(Passed(c, path))
             new == Value(c, path)
  <1>1. /\ path \in Paths /\ D \subseteq Paths /\ L \subseteq D /\ path \notin D
        /\ path \in pending[c] /\ \A r \in D : ~IsPrefix(path, r)
        /\ Passed(c, path) = {q \in L : IsPrefix(q, path)}
        /\ Passed(c, path) # {} =>
              object \in Passed(c, path) /\ \A q \in Passed(c, path) : IsPrefix(q, object)
    BY Turn
  <1>2. /\ Linked(c)' = IF path \in Objects(policy) THEN L \cup {path} ELSE L
        /\ Done(c)' = D \cup {path}
        /\ pending'[c] = pending[c] \ {path}
    BY <1>1 DEF Linked, Done, Applies, Objects, TypeOK
  <1>3. /\ DOMAIN new = {path}
        /\ path \in Objects(policy) => new[path] = Link
    <2>1. path \notin Objects(policy) => snapshot[path] = policy.custom[path]
      BY DEF SnapshotOK
    <2>2. DOMAIN Leaf(path, Link) = {path} /\ Leaf(path, Link)[path] = Link  BY DEF Leaf
    <2>3. /\ path \in Objects(policy) => new = Leaf(path, Link)
          /\ path \notin Objects(policy) => DOMAIN new = {path}
      BY <2>1, RuleValues
    <2> HIDE DEF new
    <2> QED  BY <2>2, <2>3
  <1>4. DOMAIN doc = Conversations /\ DOMAIN snapshot = DOMAIN policy.custom
    BY DEF TypeOK, SnapshotOK
  <1>5. \A q \in L : /\ q \in DOMAIN policy.custom /\ q \in Paths /\ q # path
                     /\ \A p \in DOMAIN snapshot[q] : p \in Paths /\ IsPrefix(q, p)
    BY <1>1 DEF SnapshotOK, Linked, Objects
  <1>6. /\ DOMAIN doc[c] \subseteq Paths
        /\ \A p \in DOMAIN doc[c] : doc[c][p] # Link => ~\E q \in L : IsPrefix(q, p)
        /\ \A q \in L : \A p \in DOMAIN snapshot[q] :
              snapshot[q][p] # Link => ~\E o \in L : IsStrictPrefix(q, o) /\ IsPrefix(o, p)
    BY DEF DocumentOK
  <1>7. /\ UNCHANGED policy /\ original' = original
        /\ IF Passed(c, path) = {}
           THEN doc'[c] = Assign(doc[c], path, new) /\ snapshot' = snapshot
           ELSE /\ doc' = doc
                /\ snapshot'[object] = Assign(snapshot[object], path, new)
                /\ \A q \in DOMAIN policy.custom \ {object} : snapshot'[q] = snapshot[q]
    BY <1>1, <1>4, <1>5 DEF Applies
  <1>8. \A p \in Paths : \A v : Found(c, p, v)' <=>
              IF IsPrefix(path, p)
              THEN IF path \in Objects(policy)
                   THEN p \in DOMAIN snapshot[path] /\ snapshot[path][p] = v /\ v # Link
                   ELSE p = path /\ v = RuleValue(c, path)[path]
              ELSE ~IsPrefix(p, path) /\ Found(c, p, v)
    BY FoundAfter
  <1>9. ASSUME NEW d, NEW p \in DOMAIN Assign(d, path, new)
        PROVE  /\ p = path => Assign(d, path, new)[p] = new[path]
               /\ p # path => /\ p \in DOMAIN d /\ ~IsPrefix(path, p) /\ ~IsPrefix(p, path)
                              /\ Assign(d, path, new)[p] = d[p]
    <2> HIDE DEF new
    <2> QED  BY <1>3, AssignLeaves
  <1> HIDE DEF new
  <1>10. /\ DOMAIN doc'[c] \subseteq Paths
         /\ DOMAIN Prepared(policy, original[c])' \subseteq Paths
    <2>1. DOMAIN doc'[c] \subseteq Paths  BY <1>1, <1>6, <1>7, <1>9
    <2> QED  BY <1>7, <2>1 DEF DocumentOK
  <1>11. ASSUME NEW p \in DOMAIN doc'[c], doc'[c][p] # Link, NEW q \in Linked(c)', IsPrefix(q, p)
         PROVE  FALSE
    <2>1. CASE Passed(c, path) = {}
      <3>1. p # path => ~IsPrefix(path, p) /\ p \in DOMAIN doc[c] /\ doc'[c][p] = doc[c][p]
        BY <1>7, <1>9, <2>1
      <3>2. p = path => path \notin Objects(policy)  BY <1>3, <1>7, <1>9, <1>11, <2>1
      <3>3. p = path => q \notin L  BY <1>1, <1>11, <2>1
      <3> QED  BY <1>2, <1>6, <1>11, <3>1, <3>2, <3>3
    <2>2. CASE Passed(c, path) # {}
      <3>1. p \in DOMAIN doc[c] /\ doc[c][p] # Link /\ p \in Paths
        BY <1>6, <1>7, <1>11, <2>2
      <3>2. q = path  BY <1>2, <1>6, <1>11, <3>1
      <3>3. IsPrefix(object, p)  BY <1>1, <1>5, <1>11, <2>2, <3>1, <3>2, PrefixOrder
      <3> QED  BY <1>1, <1>6, <2>2, <3>1, <3>3
    <2> QED  BY <2>1, <2>2
  <1>12. ASSUME NEW q \in Linked(c)', NEW p \in DOMAIN snapshot'[q], snapshot'[q][p] # Link,
                NEW o \in Linked(c)', IsStrictPrefix(q, o), IsPrefix(o, p)
         PROVE  FALSE
    <2>1. q \in L
      <3>1. q = path => o \in D  BY <1>1, <1>2, <1>12 DEF IsStrictPrefix
      <3> QED  BY <1>1, <1>2, <1>12, <3>1 DEF IsStrictPrefix
    <2>2. IsPrefix(q, o)  BY <1>12 DEF IsStrictPrefix
    <2>3. CASE snapshot'[q] = snapshot[q]
      <3>1. p \in DOMAIN snapshot[q] /\ snapshot[q][p] # Link /\ p \in Paths
        BY <1>5, <1>12, <2>1, <2>3
      <3>2. o = path  BY <1>2, <1>6, <1>12, <2>1, <3>1
      <3>3. q \in Passed(c, path)  BY <1>1, <2>1, <2>2, <3>2
      <3>4. snapshot' # snapshot => q # object \/ snapshot'[object] = snapshot[object]
        BY <2>3
      <3>5. CASE q = object
        <4>1. snapshot'[q] = Assign(snapshot[q], path, new)  BY <1>7, <3>3, <3>5
        <4>2. p \in DOMAIN Assign(snapshot[q], path, new)  BY <4>1
        <4>3. p # path => ~IsPrefix(path, p)  BY <1>9, <4>2
        <4>4. p = path => snapshot'[q][p] = new[path]  BY <1>9, <4>1, <4>2
        <4> QED  BY <1>1, <1>2, <1>3, <1>12, <3>2, <4>3, <4>4
      <3>6. CASE q # object
        <4>1. object \in L /\ IsPrefix(q, object) /\ IsPrefix(object, path)
          BY <1>1, <3>3
        <4>2. IsPrefix(object, p)  BY <1>1, <1>5, <1>12, <3>1, <3>2, <4>1, PrefixOrder
        <4> QED  BY <1>6, <2>1, <3>1, <3>6, <4>1, <4>2 DEF IsStrictPrefix
      <3> QED  BY <3>5, <3>6
    <2>4. CASE snapshot'[q] # snapshot[q]
      <3>1. Passed(c, path) # {} /\ q = object /\ snapshot'[q] = Assign(snapshot[q], path, new)
        BY <1>5, <1>7, <2>1, <2>4
      <3>2. CASE p = path
        <4>1. path \notin Objects(policy)  BY <1>3, <1>9, <1>12, <3>1, <3>2
        <4>2. o \in Passed(c, path)  BY <1>1, <1>2, <1>12, <3>2, <4>1
        <4>3. IsPrefix(o, q)  BY <1>1, <3>1, <4>2
        <4> QED  BY <1>1, <1>5, <1>12, <2>1, <2>2, <4>2, <4>3, PrefixOrder DEF IsStrictPrefix
      <3>3. CASE p # path
        <4>1. ~IsPrefix(path, p) /\ p \in DOMAIN snapshot[q] /\ snapshot[q][p] = snapshot'[q][p]
          BY <1>9, <1>12, <3>1, <3>3
        <4> QED  BY <1>2, <1>6, <1>12, <2>1, <4>1
      <3> QED  BY <3>2, <3>3
    <2> QED  BY <2>3, <2>4
  <1>13. ASSUME NEW p \in Paths, NEW r \in Done(c)', IsStrictPrefix(p, r), NEW v, Found(c, p, v)'
         PROVE  FALSE
    <2>1. r \in Paths /\ IsPrefix(p, r) /\ p # r  BY <1>1, <1>2, <1>13 DEF IsStrictPrefix
    <2>2. CASE r = path
      <3>1. ~IsPrefix(path, p)  BY <1>1, <2>1, <2>2, PrefixOrder
      <3> QED  BY <1>8, <1>13, <2>1, <2>2, <3>1
    <2>3. CASE r # path
      <3>1. r \in D  BY <1>2, <2>3
      <3>2. ~IsPrefix(path, p)  BY <1>1, <2>1, <3>1, PrefixOrder
      <3>3. Found(c, p, v)  BY <1>8, <1>13, <3>2
      <3> QED  BY <1>13, <3>1, <3>3 DEF DocumentOK
    <2> QED  BY <2>2, <2>3
  <1>14. ASSUME NEW p \in Paths, Settled(c, p)', NEW v
         PROVE  Found(c, p, v)' <=> Asked(c, p, v)'
    <2> DEFINE dec == Decided(c, Done(c), p)'
    <2>1. IsPrefix(path, path) /\ (IsPrefix(p, path) /\ IsPrefix(path, p) => p = path)
      BY <1>1, PrefixOrder
    <2>2. CASE IsPrefix(path, p)
      <3>1. Covering(Done(c)', p) \subseteq Paths /\ path \in Covering(Done(c)', p)
        BY <1>1, <1>2, <2>2 DEF Covering
      <3>2. ASSUME NEW r \in Covering(Done(c)', p) PROVE IsPrefix(r, path)
        <4>1. r \in Done(c)' /\ IsPrefix(r, p) /\ r \in Paths  BY <1>1, <1>2 DEF Covering
        <4>2. IsPrefix(r, path) \/ IsPrefix(path, r)  BY <1>1, <2>2, <4>1, PrefixOrder
        <4> QED  BY <1>1, <1>2, <2>1, <4>1, <4>2
      <3>3. Longest(Covering(Done(c)', p)) = path  BY <3>1, <3>2, LongestIs
      <3>4. Decided(c, Done(c), p)' = RuleValue(c, path)
        <4>1. Decided(c, Done(c), p)' = RuleValue(c, path)'  BY <3>1, <3>3 DEF Decided, Covering, Longest
        <4> QED  BY <1>7, <4>1 DEF RuleValue
      <3>5. ASSUME NEW r \in Done(c)' PROVE ~IsStrictPrefix(p, r)
        <4>1. CASE r = path  BY <2>1, <2>2, <4>1 DEF IsStrictPrefix
        <4>2. CASE r \in D
          <5>1. IsPrefix(p, r) => IsPrefix(path, r)  BY <1>1, <2>2, <4>2, PrefixOrder
          <5> QED  BY <1>1, <4>2, <5>1 DEF IsStrictPrefix
        <4> QED  BY <1>2, <4>1, <4>2
      <3>6. Asked(c, p, v)' <=> p \in DOMAIN RuleValue(c, path) /\ RuleValue(c, path)[p] = v
        BY <3>4, <3>5 DEF Asked
      <3>7. CASE path \notin Objects(policy)
        <4>1. DOMAIN RuleValue(c, path) = {path}  BY <3>7, RuleValues
        <4> QED  BY <1>8, <2>2, <3>6, <3>7, <4>1
      <3>8. CASE path \in Objects(policy)
        <4>1. ASSUME NEW r \in DOMAIN policy.custom, IsStrictPrefix(path, r)
              PROVE  ~IsPrefix(r, p) /\ ~IsPrefix(p, r)
          <5>1. r \notin D /\ r # path  BY <1>1, <4>1 DEF IsStrictPrefix
          <5>2. r \in pending'[c]  BY <1>2, <5>1 DEF Done
          <5> QED  BY <1>14, <5>2 DEF Settled
        <4>2. /\ p \in DOMAIN snapshot[path] <=> p \in DOMAIN policy.custom[path]
              /\ p \in DOMAIN snapshot[path] => snapshot[path][p] = policy.custom[path][p]
          BY <3>8, <4>1 DEF SnapshotOK
        <4>3. /\ RuleValue(c, path) = policy.custom[path]
              /\ \A x \in DOMAIN policy.custom[path] : policy.custom[path][x] # Link
          BY <3>8, RuleValues
        <4> QED  BY <1>8, <2>2, <3>6, <3>8, <4>2, <4>3
      <3> QED  BY <3>7, <3>8
    <2>3. CASE ~IsPrefix(path, p) /\ IsPrefix(p, path)
      <3>1. ~Found(c, p, v)'  BY <1>8, <2>3
      <3>2. path \in Done(c)' /\ IsStrictPrefix(p, path)
        BY <1>2, <2>1, <2>3 DEF IsStrictPrefix
      <3> QED  BY <3>1, <3>2 DEF Asked
    <2>4. CASE ~IsPrefix(path, p) /\ ~IsPrefix(p, path)
      <3>1. Found(c, p, v)' <=> Found(c, p, v)  BY <1>8, <2>4
      <3>2. Settled(c, p)  BY <1>2, <1>14, <2>4 DEF Settled
      <3>3. Covering(Done(c)', p) = Covering(Done(c), p)  BY <1>2, <2>4 DEF Covering
      <3>4. Decided(c, Done(c), p)' = Decided(c, Done(c), p)
        BY <1>7, <3>3 DEF Decided, RuleValue, Covering
      <3>5. Asked(c, p, v)' <=> Asked(c, p, v)
        BY <1>2, <2>4, <3>4 DEF Asked, IsStrictPrefix
      <3> QED  BY <3>1, <3>2, <3>5 DEF DocumentOK
    <2> QED  BY <2>2, <2>3, <2>4
  <1> QED  BY <1>10, <1>11, <1>12, <1>13, <1>14 DEF DocumentOK

\* The rules other than the custom ones make a document of a document.
LEMMA PreparedLeaves ==
    ASSUME NEW r \in Policies, NEW d, \A p \in DOMAIN d : p \in Paths /\ IsLeaf(d[p]),
           ~Refused(r, d)
    PROVE  \A p \in DOMAIN Prepared(r, d) : p \in Paths /\ Prepared(r, d)[p] # Link
  <1> DEFINE Fine(x) == \A p \in DOMAIN x : p \in Paths /\ x[p] # Link
             rewritten == ModelRewritten(r, d)
             prompted == Prompted(r, rewritten)
             limited == Configured(prompted, r, r.tokens, "max_tokens", "maxOutputTokens")
  <1>1. ASSUME NEW x, Fine(x), NEW path \in Paths, NEW leaf, leaf # Link
        PROVE  Fine(Assign(x, path, Leaf(path, leaf)))
    <2>1. DOMAIN Leaf(path, leaf) = {path} /\ Leaf(path, leaf)[path] = leaf  BY DEF Leaf
    <2>2. ASSUME NEW p \in DOMAIN Assign(x, path, Leaf(path, leaf))
          PROVE  p \in Paths /\ Assign(x, path, Leaf(path, leaf))[p] # Link
      BY <1>1, <2>1, AssignLeaves
    <2> QED  BY <2>2
  <1>2. /\ <<"model">> \in Paths /\ <<"messages">> \in Paths /\ <<"system">> \in Paths
        /\ <<"systemInstruction", "parts">> \in Paths
        /\ \A n \in Names : <<n>> \in Paths /\ <<"generationConfig", n>> \in Paths
    <2>1. \A x, y \in Names : <<x>> \in Seq(Names) /\ <<x, y>> \in Seq(Names)
      OBVIOUS
    <2> QED  BY <2>1, NamesAssumption DEF Paths
  <1>3. /\ r.format \in {"openai", "anthropic", "gemini"}
        /\ r.prompt # Link /\ r.tokens # Link /\ r.temperature # Link
        /\ \A m \in DOMAIN r.rewrite : r.rewrite[m] # Link
    BY PoliciesAssumption
  <1>4. Fine(d)  BY DEF IsLeaf
  <1>5. /\ Fine(rewritten)
        /\ \A p \in DOMAIN rewritten : p # <<"model">> => p \in DOMAIN d /\ rewritten[p] = d[p]
    <2>1. CASE ~Rewrites(r, d)  BY <1>4, <2>1 DEF ModelRewritten
    <2>2. CASE Rewrites(r, d)
      <3> DEFINE model == r.rewrite[ModelName(r, d)]
      <3>1. rewritten = Assign(d, <<"model">>, Leaf(<<"model">>, model))
        BY <2>2 DEF ModelRewritten
      <3>2. model # Link  BY <1>3, <2>2 DEF Rewrites
      <3> HIDE DEF model, rewritten
      <3>3. Fine(rewritten)  BY <1>1, <1>2, <1>4, <3>1, <3>2
      <3>4. DOMAIN Leaf(<<"model">>, model) = {<<"model">>}  BY DEF Leaf
      <3> QED  BY <3>1, <3>3, <3>4, AssignLeaves
    <2> QED  BY <2>1, <2>2
  <1>6. Fine(prompted)
    <2> HIDE DEF rewritten
    <2> DEFINE path == PromptPath(r)
               block == Block(r, r.prompt)
               value == IF ~Has(rewritten, path)
                        THEN IF r.format = "anthropic" THEN r.prompt ELSE <<"list", block>>
                        ELSE IF IsList(rewritten[path])
                             THEN <<"list", block>> \o Items(rewritten[path])
                        ELSE <<"list", block, Block(r, rewritten[path])>>
    <2>1. path \in Paths /\ path # <<"model">>
      <3>1. path \in {<<"messages">>, <<"system">>, <<"systemInstruction", "parts">>}
        BY <1>3 DEF PromptPath, Gemini
      <3> QED  BY <1>2, <3>1
    <2>2. \A x, y : <<"list", x>> # Link /\ <<"list", x, y>> # Link  BY DEF Link
    <2>3. ASSUME r.prompt # None, Has(rewritten, path), IsList(rewritten[path])
          PROVE  <<"list", block>> \o Items(rewritten[path]) # Link
      <3>1. path \in DOMAIN rewritten
        BY <2>3 DEF Refused, PromptFits, rewritten
      <3>2. Items(rewritten[path]) \in Seq(Blocks)
        BY <1>5, <2>1, <2>3, <3>1 DEF IsLeaf, IsList, Items
      <3> DEFINE items == Items(rewritten[path])
                 S == {"list", block} \cup Blocks
      <3>3. items \in Seq(S) /\ Len(items) \in Nat  BY <3>2
      <3>4. <<"list", block>> \in Seq(S) /\ Len(<<"list", block>>) = 2
        <4> HIDE DEF block
        <4> QED  OBVIOUS
      <3> DEFINE whole == <<"list", block>> \o items
      <3>5. Len(whole) = 2 + Len(items)
        <4> HIDE DEF items, S, block
        <4> QED  BY <3>3, <3>4, ConcatProperties
      <3>6. Len(Link) = 1  BY DEF Link
      <3>7. whole # Link
        <4> HIDE DEF whole, items
        <4> SUFFICES ASSUME whole = Link PROVE FALSE  OBVIOUS
        <4>1. Len(whole) = 1  BY <3>6, Zenon
        <4>2. 2 + Len(items) = 1  BY <3>5, <4>1, Zenon
        <4> DEFINE n == Len(items)
        <4>3. n \in Nat /\ 2 + n = 1  BY <3>3, <4>2
        <4> HIDE DEF n
        <4> QED  BY <4>3
      <3> QED  BY <3>7
    <2>4. r.prompt # None => value # Link  BY <1>3, <2>2, <2>3
    <2>5. prompted = IF r.prompt = None THEN rewritten ELSE Assign(rewritten, path, Leaf(path, value))
      BY DEF Prompted
    <2> HIDE DEF value, path, prompted
    <2> QED  BY <1>1, <1>5, <2>1, <2>4, <2>5
  <1>7. ASSUME NEW x, Fine(x), NEW leaf, leaf # Link, NEW n \in Names, NEW m \in Names
        PROVE  Fine(Configured(x, r, leaf, n, m))
    BY <1>1, <1>2, <1>7 DEF Configured
  <1>8. Fine(limited)
    <2>1. "max_tokens" \in Names /\ "maxOutputTokens" \in Names  BY NamesAssumption
    <2> HIDE DEF prompted, Fine
    <2> QED  BY <1>3, <1>6, <1>7, <2>1
  <1>9. Prepared(r, d) = Configured(limited, r, r.temperature, "temperature", "temperature")
    BY DEF Prepared
  <1>10. Fine(Prepared(r, d))
    <2>1. "temperature" \in Names  BY NamesAssumption
    <2> HIDE DEF limited, Fine
    <2> QED  BY <1>3, <1>7, <1>8, <1>9, <2>1
  <1> QED  BY <1>10

\* A write to an object stays below the rule it is for.
LEMMA SnapshotAfter ==
    ASSUME TypeOK, SnapshotOK, NEW c \in Conversations,
           NEW path \in DOMAIN policy.custom, MayApply(c, path), Applies(c, path),
           \A r \in Done(c), s \in pending[c] : ~IsStrictPrefix(s, r)
    PROVE  SnapshotOK'
  <1> DEFINE object == Longest(Passed(c, path))
             new == Value(c, path)
  <1>1. UNCHANGED policy /\ Objects(policy)' = Objects(policy)  BY DEF Applies, Objects
  <1>2. CASE Passed(c, path) = {}
    <2>1. snapshot' = snapshot  BY <1>2 DEF Applies
    <2> QED  BY <1>1, <2>1 DEF SnapshotOK
  <1>3. CASE Passed(c, path) # {}
    <2>1. path \in Paths /\ object \in Linked(c) /\ IsPrefix(object, path) /\ object # path
      BY <1>3, Turn
    <2>2. object \in Objects(policy) /\ object \in DOMAIN policy.custom
      BY <2>1 DEF Linked, Objects
    <2>3. DOMAIN snapshot = DOMAIN policy.custom  BY DEF SnapshotOK
    <2>4. snapshot' = [snapshot EXCEPT ![object] = Assign(@, path, new)]
      BY <1>3 DEF Applies
    <2> HIDE DEF object
    <2>5. /\ DOMAIN snapshot' = DOMAIN policy.custom
          /\ \A q \in DOMAIN policy.custom \ {object} : snapshot'[q] = snapshot[q]
          /\ snapshot'[object] = Assign(snapshot[object], path, new)
      BY <2>2, <2>3, <2>4
    <2>6. DOMAIN new = {path}
      <3>1. path \notin Objects(policy) => snapshot[path] = policy.custom[path]
        BY DEF SnapshotOK
      <3>2. DOMAIN Leaf(path, Link) = {path}  BY DEF Leaf
      <3>3. /\ path \in Objects(policy) => new = Leaf(path, Link)
            /\ path \notin Objects(policy) => DOMAIN new = {path}
        BY <3>1, RuleValues
      <3> HIDE DEF new
      <3> QED  BY <3>2, <3>3
    <2> HIDE DEF new
    <2>7. ASSUME NEW p \in DOMAIN snapshot'[object] PROVE p \in Paths /\ IsPrefix(object, p)
      <3>1. p = path \/ p \in DOMAIN snapshot[object]  BY <2>5, <2>6, AssignLeaves
      <3> QED  BY <2>1, <2>2, <3>1 DEF SnapshotOK
    <2>8. ASSUME NEW p \in Paths,
                 \A r \in DOMAIN policy.custom :
                    IsStrictPrefix(object, r) => ~IsPrefix(r, p) /\ ~IsPrefix(p, r)
          PROVE  /\ p \in DOMAIN snapshot'[object] <=> p \in DOMAIN policy.custom[object]
                 /\ p \in DOMAIN snapshot'[object] =>
                       snapshot'[object][p] = policy.custom[object][p]
      <3>1. ~IsPrefix(path, p) /\ ~IsPrefix(p, path)  BY <2>1, <2>8 DEF IsStrictPrefix
      <3>2. p # path  BY <2>1, <3>1, PrefixOrder
      <3>3. /\ p \in DOMAIN snapshot'[object] <=> p \in DOMAIN snapshot[object]
            /\ p \in DOMAIN snapshot'[object] => snapshot'[object][p] = snapshot[object][p]
        BY <2>5, <2>6, <3>1, <3>2, AssignLeaves
      <3>4. /\ p \in DOMAIN snapshot[object] <=> p \in DOMAIN policy.custom[object]
            /\ p \in DOMAIN snapshot[object] => snapshot[object][p] = policy.custom[object][p]
        BY <2>2, <2>8 DEF SnapshotOK
      <3> QED  BY <3>3, <3>4
    <2>9. Objects(policy) \subseteq DOMAIN policy.custom  BY DEF Objects
    <2> QED  BY <1>1, <2>2, <2>5, <2>7, <2>8, <2>9 DEF SnapshotOK
  <1> QED  BY <1>2, <1>3

\* Once all rules are applied, what is encoded is what was intended.
LEMMA ResolvedIntended ==
    ASSUME TypeOK, SnapshotOK, NEW c \in Conversations, DocumentOK(c), pending[c] = {}
    PROVE  Resolved(c) = Intended(c)
  <1> DEFINE rules == DOMAIN policy.custom
             base == Prepared(policy, original[c])
             inDoc(p) == p \in DOMAIN doc[c] /\ doc[c][p] # Link
             inObject(q, p) == p \in DOMAIN snapshot[q] /\ snapshot[q][p] # Link
             from(p) == CHOOSE q \in Objects(policy) : inObject(q, p)
             found == {p \in Paths : inDoc(p) \/ \E q \in Objects(policy) : inObject(q, p)}
             kept == {p \in Paths : /\ ~\E r \in rules : IsStrictPrefix(p, r)
                                    /\ p \in DOMAIN Decided(c, rules, p)}
  <1>1. Done(c) = rules /\ Linked(c) = Objects(policy)  BY DEF Done, Linked
  <1>2. \A p \in Paths : \A v : Found(c, p, v) <=> Asked(c, p, v)
    BY DEF DocumentOK, Settled
  <1>3. DOMAIN doc[c] \subseteq Paths /\ DOMAIN base \subseteq Paths  BY DEF DocumentOK
  <1>4. \A q \in Objects(policy) : \A p \in DOMAIN snapshot[q] : p \in Paths
    BY DEF SnapshotOK
  <1>5. Resolved(c) = [p \in found |-> IF inDoc(p) THEN doc[c][p] ELSE snapshot[from(p)][p]]
    <2> DEFINE shown(d) == {p \in DOMAIN d : d[p] # Link}
               linked == Objects(policy) \ pending[c]
               pick(p) == CHOOSE q \in linked : p \in shown(snapshot[q])
    <2>1. linked = Objects(policy)  OBVIOUS
    <2>2. shown(doc[c]) \cup UNION {shown(snapshot[q]) : q \in linked} = found
      BY <1>3, <1>4, <2>1
    <2>3. \A p : p \in shown(doc[c]) <=> inDoc(p)  OBVIOUS
    <2>4. \A p : pick(p) = from(p)  BY <2>1
    <2>5. Resolved(c) = [p \in shown(doc[c]) \cup UNION {shown(snapshot[q]) : q \in linked} |->
                            IF p \in shown(doc[c]) THEN doc[c][p] ELSE snapshot[pick(p)][p]]
      BY DEF Resolved
    <2> HIDE DEF shown, linked, pick, found, from, inDoc
    <2> QED  BY <2>2, <2>3, <2>4, <2>5
  <1>6. Intended(c) = [p \in kept |-> Decided(c, rules, p)[p]]
    <2> DEFINE leaves == DOMAIN base \cup UNION {DOMAIN RuleValue(c, r) : r \in rules}
    <2>1. ASSUME NEW r \in rules, NEW p \in DOMAIN RuleValue(c, r) PROVE p \in Paths
      <3>1. policy \in Policies  BY DEF TypeOK
      <3>2. CASE r \in Objects(policy)
        <4>1. p \in DOMAIN policy.custom[r]  BY <3>2, RuleValues
        <4> QED  BY <3>1, <4>1, PoliciesAssumption
      <3>3. CASE r \notin Objects(policy)
        <4>1. DOMAIN RuleValue(c, r) = {r} /\ r \in Paths  BY <3>3, RuleValues
        <4> QED  BY <4>1
      <3> QED  BY <3>2, <3>3
    <2>2. leaves \subseteq Paths  BY <1>3, <2>1
    <2>3. ASSUME NEW p \in Paths, p \in DOMAIN Decided(c, rules, p) PROVE p \in leaves
      <3>1. CASE Covering(rules, p) = {}  BY <2>3, <3>1 DEF Decided
      <3>2. CASE Covering(rules, p) # {}
        <4>1. \A r \in Covering(rules, p) : r \in rules /\ r \in Paths /\ IsPrefix(r, p)
          BY RuleValues DEF Covering
        <4>2. Longest(Covering(rules, p)) \in rules  BY <3>2, <4>1, LongestPrefix
        <4>3. p \in DOMAIN RuleValue(c, Longest(Covering(rules, p)))
          BY <2>3, <3>2 DEF Decided
        <4> QED  BY <4>2, <4>3
      <3> QED  BY <3>1, <3>2
    <2>4. kept = {p \in leaves : /\ ~\E r \in rules : IsStrictPrefix(p, r)
                                 /\ p \in DOMAIN Decided(c, rules, p)}
      BY <2>2, <2>3
    <2> HIDE DEF kept, leaves
    <2> QED  BY <2>4 DEF Intended, IntendedBy, leaves
  <1>7. ASSUME NEW p \in Paths, NEW v
        PROVE  Found(c, p, v) <=> /\ v # Link
                                  /\ \/ inDoc(p) /\ doc[c][p] = v
                                     \/ \E q \in Objects(policy) : inObject(q, p) /\ snapshot[q][p] = v
    BY <1>1 DEF Found
  <1>8. ASSUME NEW p \in Paths, NEW v
        PROVE  Asked(c, p, v) <=> p \in kept /\ Decided(c, rules, p)[p] = v
    BY <1>1 DEF Asked
  <1>9. found = kept
    <2>1. ASSUME NEW p \in Paths PROVE p \in found <=> \E v : Found(c, p, v)
      BY <1>7
    <2>2. ASSUME NEW p \in Paths PROVE p \in kept <=> \E v : Asked(c, p, v)
      BY <1>8
    <2>3. found \subseteq Paths /\ kept \subseteq Paths  OBVIOUS
    <2> HIDE DEF found, kept
    <2> QED  BY <1>2, <2>1, <2>2, <2>3
  <1>10. ASSUME NEW p \in found
         PROVE  (IF inDoc(p) THEN doc[c][p] ELSE snapshot[from(p)][p]) = Decided(c, rules, p)[p]
    <2> DEFINE v == IF inDoc(p) THEN doc[c][p] ELSE snapshot[from(p)][p]
    <2>1. p \in Paths  OBVIOUS
    <2>2. ~inDoc(p) => from(p) \in Objects(policy) /\ inObject(from(p), p)
      <3>1. ~inDoc(p) => \E q \in Objects(policy) : inObject(q, p)  OBVIOUS
      <3> QED  BY <3>1
    <2>3. Found(c, p, v)
      <3> HIDE DEF from
      <3> QED  BY <1>7, <2>1, <2>2
    <2> HIDE DEF v, kept
    <2>4. Decided(c, rules, p)[p] = v  BY <1>2, <1>8, <2>1, <2>3
    <2> QED  BY <2>4 DEF v
  <1> HIDE DEF found, kept, from, inDoc, rules
  <1> QED  BY <1>5, <1>6, <1>9, <1>10

-----------------------------------------------------------------------------
(* The invariant *)

\* The answer and the next question are messages.
LEMMA NewMessages == <<<<"assistant", "answer">>, <<"user", "more">>>> \in Seq(Messages)
  <1>1. ASSUME NEW m \in Messages, NEW n \in Messages PROVE <<m, n>> \in Seq(Messages)
    OBVIOUS
  <1>2. <<"assistant", "answer">> \in Messages /\ <<"user", "more">> \in Messages
    BY OpeningsAssumption DEF Messages
  <1> QED  BY <1>1, <1>2

\* A longer conversation begins as it began.
LEMMA HistoryGrows ==
    ASSUME TypeOK, SessionsOK, NEW c \in Conversations, NEW h \in Seq(Messages),
           NEW more \in Seq(Messages), h = history[c] \o more
    PROVE  \A k \in DOMAIN opening[c] : k \in DOMAIN h /\ h[k] = opening[c][k]
  <1> DEFINE g == history[c]
  <1>1. g \in Seq(Messages)  BY DEF TypeOK
  <1>2. \A k \in DOMAIN opening[c] : k \in DOMAIN g /\ g[k] = opening[c][k]  BY DEF SessionsOK
  <1> HIDE DEF g
  <1>3. /\ Len(g \o more) = Len(g) + Len(more)
        /\ \A k \in 1..(Len(g) + Len(more)) :
              (g \o more)[k] = IF k <= Len(g) THEN g[k] ELSE more[k - Len(g)]
    BY <1>1, ConcatProperties
  <1>4. h = g \o more  BY DEF g
  <1>5. ASSUME NEW k \in DOMAIN g PROVE k \in DOMAIN h /\ h[k] = g[k]
    <2>1. Len(g) \in Nat /\ Len(more) \in Nat /\ k \in 1..Len(g)  BY <1>1
    <2>2. k \in 1..(Len(g) + Len(more)) /\ k <= Len(g)  BY <2>1
    <2>3. DOMAIN h = 1..(Len(g) + Len(more))  BY <1>3, <1>4
    <2> QED  BY <1>3, <1>4, <2>2, <2>3
  <1> QED  BY <1>2, <1>5

\* The first words of an opening are those of the conversation so far.
LEMMA BeginsAsOpened ==
    ASSUME TypeOK, SessionsOK, NEW c \in Conversations, NEW i \in DOMAIN opening[c],
           BeginsAt(opening[c], i)
    PROVE  /\ i \in DOMAIN history[c] /\ BeginsAt(history[c], i)
           /\ history[c][i] = opening[c][i]
  <1>1. \A k \in DOMAIN opening[c] : k \in DOMAIN history[c] /\ history[c][k] = opening[c][k]
    BY DEF SessionsOK
  <1>2. opening[c] \in Seq(Messages) /\ history[c] \in Seq(Messages)
    BY OpeningsAssumption DEF TypeOK
  <1>3. \A j \in DOMAIN history[c] : j < i => j \in DOMAIN opening[c]
    <2>1. DOMAIN opening[c] = 1..Len(opening[c]) /\ DOMAIN history[c] = 1..Len(history[c])
          /\ Len(opening[c]) \in Nat
      BY <1>2
    <2> QED  BY <2>1
  <1> QED  BY <1>1, <1>3 DEF BeginsAt

\* The types, step by step.
LEMMA TypesKept == ASSUME TypeOK, NEW c \in Conversations, Step(c) PROVE TypeOK'
  <1> USE DEF TypeOK
  <1>1. ASSUME NEW e \in Exchanges, Receive(c, e) PROVE TypeOK'
    <2>1. pc'[c] \in {"unchanged", "refused", "custom"} /\ \E v : pc' = [pc EXCEPT ![c] = v]
      BY <1>1 DEF Receive
    <2>2. pc' \in [Conversations -> {"idle", "custom", "writing", "encoding", "unchanged", "sent",
                                    "answered", "refused"}]
      BY <2>1
    <2>3. pending' \in [Conversations -> SUBSET DOMAIN policy.custom]  BY <1>1 DEF Receive
    <2>4. /\ DOMAIN sessions' = Conversations /\ turn' \in [Conversations -> Nat]
          /\ DOMAIN original' = Conversations
          /\ DOMAIN exchange' = Conversations /\ DOMAIN headers' = Conversations
      BY <1>1 DEF Receive
    <2>5. UNCHANGED <<policy, opening, history>>  BY <1>1 DEF Receive
    <2>6. /\ DOMAIN doc' = Conversations /\ DOMAIN writing' = Conversations
          /\ shared' \in [Conversations -> BOOLEAN]
      BY <1>1 DEF Receive
    <2> QED  BY <2>2, <2>3, <2>4, <2>5, <2>6
  <1>2. ASSUME NEW path \in DOMAIN policy.custom, ApplyCustom(c, path) PROVE TypeOK'
    <2>1. pc' = pc \/ pc' = [pc EXCEPT ![c] = "writing"]  BY <1>2 DEF ApplyCustom
    <2>2. pending' = pending \/ pending' = [pending EXCEPT ![c] = @ \ {path}]
      BY <1>2 DEF ApplyCustom
    <2>3. UNCHANGED <<policy, opening, history, turn, sessions, original, exchange, headers>>
      BY <1>2 DEF ApplyCustom, conversation
    <2>4. pending' \in [Conversations -> SUBSET DOMAIN policy.custom]
      <3>1. CASE pending' = pending  BY <3>1
      <3>2. CASE pending' = [pending EXCEPT ![c] = @ \ {path}]  BY <3>2
      <3> QED  BY <2>2, <3>1, <3>2
    <2>5. /\ DOMAIN doc' = Conversations /\ DOMAIN writing' = Conversations
          /\ shared' \in [Conversations -> BOOLEAN]
      BY <1>2 DEF ApplyCustom
    <2> QED  BY <2>1, <2>3, <2>4, <2>5
  <1>3. CASE WriteShared(c)  BY <1>3 DEF WriteShared, conversation
  <1>4. CASE Encode(c) \/ Send(c) \/ Reply(c)
    <2>1. \E v \in {"encoding", "sent", "answered"} : pc' = [pc EXCEPT ![c] = v]
      BY <1>4 DEF Encode, Send, Reply
    <2>2. UNCHANGED <<policy, opening, history, turn, sessions, original, exchange, pending>>
      BY <1>4 DEF Encode, Send, Reply, conversation
    <2>3. headers' = headers \/ \E h : headers' = [headers EXCEPT ![c] = h]
      BY <1>4 DEF Encode, Send, Reply
    <2>4. DOMAIN headers' = Conversations  BY <2>3
    <2>5. /\ DOMAIN doc' = Conversations /\ DOMAIN writing' = Conversations
          /\ shared' \in [Conversations -> BOOLEAN]
      BY <1>4 DEF Encode, Send, Reply
    <2> QED  BY <2>1, <2>2, <2>4, <2>5
  <1>5. CASE Continue(c)
    <2> DEFINE more == <<<<"assistant", "answer">>, <<"user", "more">>>>
    <2>1. more \in Seq(Messages)  BY NewMessages
    <2> HIDE DEF more
    <2>2. history[c] \in Seq(Messages)  OBVIOUS
    <2>3. history[c] \o more \in Seq(Messages)  BY <2>1, <2>2, ConcatProperties
    <2>4. history' \in [Conversations -> Seq(Messages)]
      BY <1>5, <2>2, <2>3 DEF Continue, more
    <2> QED  BY <1>5, <2>4 DEF Continue
  <1> QED  BY <1>1, <1>2, <1>3, <1>4, <1>5 DEF Step

\* Nobody gets as far as a write to the snapshot.
LEMMA SnapshotStays == ASSUME TypeOK, KeptOK, NEW c \in Conversations, Step(c) PROVE KeptOK'
  <1> USE DEF TypeOK
  <1>0. UNCHANGED policy
    BY DEF Step, Receive, ApplyCustom, WriteShared, Encode, Send, Reply, Continue
  <1> SUFFICES ASSUME Disjoint
               PROVE  /\ snapshot' = policy.custom /\ ~crashed'
                      /\ \A d \in Conversations : pc'[d] # "writing"
    BY <1>0 DEF KeptOK, Disjoint, Objects
  <1>1. snapshot = policy.custom /\ ~crashed /\ \A d \in Conversations : pc[d] # "writing"
    BY DEF KeptOK
  <1>2. ASSUME NEW e \in Exchanges, Receive(c, e)
        PROVE  UNCHANGED <<snapshot, crashed>> /\ \A d \in Conversations : pc'[d] # "writing"
    BY <1>1, <1>2 DEF Receive
  <1>3. ASSUME NEW path \in DOMAIN policy.custom, ApplyCustom(c, path)
        PROVE  UNCHANGED <<snapshot, crashed, pc>>
    <2>1. Passed(c, path) = {}  BY DEF Passed, Disjoint
    <2> QED  BY <1>3, <2>1 DEF ApplyCustom
  <1>4. CASE WriteShared(c)  BY <1>1, <1>4 DEF WriteShared
  <1>5. CASE Encode(c) \/ Send(c) \/ Reply(c) \/ Continue(c)
    BY <1>1, <1>5 DEF Encode, Send, Reply, Continue
  <1> QED  BY <1>1, <1>2, <1>3, <1>4, <1>5 DEF Step

\* Only Receive identifies a request, and only Continue adds messages.
LEMMA SessionsStay ==
    ASSUME TypeOK, SessionsOK, NEW c \in Conversations, Step(c) PROVE SessionsOK'
  <1>1. ASSUME NEW e \in Exchanges, Receive(c, e) PROVE SessionsOK'
    <2> DEFINE path == MessagesPath(policy)
               body == Assign(e.document, path, Leaf(path, <<"list">> \o history[c]))
    <2>1. sessions' = [sessions EXCEPT ![c] = @ \cup {SessionID(body)}]
          /\ UNCHANGED <<opening, history>>
      BY <1>1 DEF Receive
    <2>2. ASSUME NEW i \in DOMAIN opening[c], BeginsAt(opening[c], i)
          PROVE  SessionID(body) = <<"seed", opening[c][i][2]>>
      <3>1. /\ i \in DOMAIN history[c] /\ BeginsAt(history[c], i)
            /\ history[c][i] = opening[c][i]
        BY <2>2, BeginsAsOpened
      <3>2. history[c] \in Seq(Messages)  BY DEF TypeOK
      <3>3. SessionID(body) = <<"seed", history[c][i][2]>>  BY <3>1, <3>2, SessionOfBody
      <3> QED  BY <3>1, <3>3
    <2> HIDE DEF body
    <2>3. ASSUME NEW d \in Conversations, NEW s \in sessions'[d]
          PROVE  s \in sessions[d] \/ (d = c /\ s = SessionID(body))
      BY <2>1, <2>3 DEF TypeOK
    <2> QED  BY <2>1, <2>2, <2>3 DEF SessionsOK, BeginsAt
  <1>2. CASE Continue(c)
    <2> DEFINE more == <<<<"assistant", "answer">>, <<"user", "more">>>>
    <2>1. more \in Seq(Messages)  BY NewMessages
    <2>2. history[c] \in Seq(Messages)  BY DEF TypeOK
    <2>3. UNCHANGED <<opening, sessions>>
          /\ history' = [history EXCEPT ![c] = IF pc[c] = "answered" THEN @ \o more ELSE @]
      BY <1>2 DEF Continue
    <2> HIDE DEF more
    <2>4. ASSUME NEW d \in Conversations
          PROVE  \A k \in DOMAIN opening[d] :
                    k \in DOMAIN history'[d] /\ history'[d][k] = opening[d][k]
      <3>1. CASE d = c /\ pc[c] = "answered"
        <4>1. history'[d] = history[c] \o more  BY <2>3, <3>1 DEF TypeOK
        <4>2. history[c] \o more \in Seq(Messages)  BY <2>1, <2>2, ConcatProperties
        <4> QED  BY <2>1, <3>1, <4>1, <4>2, HistoryGrows
      <3>2. CASE ~(d = c /\ pc[c] = "answered")
        <4>1. history'[d] = history[d]  BY <2>3, <3>2 DEF TypeOK
        <4> QED  BY <4>1 DEF SessionsOK
      <3> QED  BY <3>1, <3>2
    <2> QED  BY <2>3, <2>4 DEF SessionsOK, BeginsAt
  <1>3. CASE UNCHANGED <<opening, history, sessions>>
    BY <1>3 DEF SessionsOK, BeginsAt
  <1> QED
    BY <1>1, <1>2, <1>3 DEF Step, ApplyCustom, WriteShared, Encode, Send, Reply, conversation

\* Only Send and Reply let headers out.
LEMMA HeadersKept ==
    ASSUME TypeOK, HeadersOK, NEW c \in Conversations, Step(c) PROVE HeadersOK'
  <1> DEFINE identified(d) == pc[d] \in {"custom", "writing", "encoding", "unchanged"} =>
                                 SessionID(original[d]) \in sessions[d]
             asked(d) == pc[d] = "sent" =>
                            \E session \in sessions[d] :
                               HeadersFollow(exchange[d].headers, headers[d],
                                             policy.requestHeaders, HopByHop, session)
             replied(d) == pc[d] = "answered" =>
                              HeadersFollow(exchange[d].reply, headers[d], policy.responseHeaders,
                                            IF exchange[d].converted THEN SkippedForStream ELSE {},
                                            <<"text", "">>)
             all(d) == identified(d) /\ asked(d) /\ replied(d)
  <1>1. \A d \in Conversations : all(d)  BY DEF HeadersOK, HeadersAsIntended
  <1>2. UNCHANGED policy
    BY DEF Step, Receive, ApplyCustom, WriteShared, Encode, Send, Reply, Continue
  <1>3. ASSUME NEW d \in Conversations \ {c}
        PROVE  /\ pc'[d] = pc[d] /\ original'[d] = original[d] /\ sessions'[d] = sessions[d]
               /\ exchange'[d] = exchange[d] /\ headers'[d] = headers[d]
    <2> DEFINE same == /\ pc'[d] = pc[d] /\ original'[d] = original[d] /\ sessions'[d] = sessions[d]
                       /\ exchange'[d] = exchange[d] /\ headers'[d] = headers[d]
    <2>1. ASSUME NEW e \in Exchanges, Receive(c, e) PROVE same
      BY <2>1 DEF TypeOK, Receive
    <2>2. ASSUME NEW path \in DOMAIN policy.custom, ApplyCustom(c, path) PROVE same
      BY <2>2 DEF TypeOK, ApplyCustom, conversation
    <2>3. CASE WriteShared(c) \/ Encode(c) \/ Send(c) \/ Reply(c) \/ Continue(c)
      BY <2>3 DEF TypeOK, WriteShared, Encode, Send, Reply, Continue, conversation
    <2> QED  BY <2>1, <2>2, <2>3 DEF Step
  <1>4. \A d \in Conversations \ {c} : all(d)'  BY <1>1, <1>2, <1>3
  <1>5. all(c)'
    <2>1. ASSUME NEW e \in Exchanges, Receive(c, e) PROVE all(c)'
      <3>1. /\ pc'[c] \in {"unchanged", "refused", "custom"}
            /\ \E body : original'[c] = body /\ sessions'[c] = sessions[c] \cup {SessionID(body)}
        BY <2>1 DEF Receive, TypeOK
      <3> QED  BY <3>1
    <2>2. CASE \/ \E path \in DOMAIN policy.custom : ApplyCustom(c, path)
               \/ WriteShared(c) \/ Encode(c)
      <3>1. /\ pc[c] \in {"custom", "writing"} /\ pc'[c] \in {"custom", "writing", "encoding"}
            /\ UNCHANGED <<original, sessions>>
        BY <2>2 DEF ApplyCustom, WriteShared, Encode, TypeOK, conversation
      <3> QED  BY <1>1, <3>1
    <2>3. CASE Send(c)
      <3>1. /\ pc[c] \in {"encoding", "unchanged"} /\ pc'[c] = "sent"
            /\ UNCHANGED <<sessions, exchange>>
            /\ headers'[c] \in RequestHeaders(exchange[c].headers, policy.requestHeaders,
                                              SessionID(original[c]))
        BY <2>3 DEF Send, TypeOK, conversation
      <3>2. HeadersFollow(exchange[c].headers, headers'[c], policy.requestHeaders, HopByHop,
                          SessionID(original[c]))
        BY <3>1, RequestFollows
      <3>3. SessionID(original[c]) \in sessions[c]  BY <1>1, <3>1
      <3> QED  BY <1>2, <3>1, <3>2, <3>3
    <2>4. CASE Reply(c)
      <3>1. /\ pc'[c] = "answered" /\ UNCHANGED exchange
            /\ headers'[c] \in ResponseHeaders(exchange[c].reply, policy.responseHeaders,
                                               exchange[c].converted)
        BY <2>4 DEF Reply, TypeOK
      <3>2. HeadersFollow(exchange[c].reply, headers'[c], policy.responseHeaders,
                          IF exchange[c].converted THEN SkippedForStream ELSE {}, <<"text", "">>)
        BY <3>1, ReplyFollows
      <3> QED  BY <1>2, <3>1, <3>2
    <2>5. CASE Continue(c)
      <3>1. pc'[c] = "idle"  BY <2>5 DEF Continue, TypeOK
      <3> QED  BY <3>1
    <2> QED  BY <2>1, <2>2, <2>3, <2>4, <2>5 DEF Step
  <1>6. \A d \in Conversations : all(d)'  BY <1>4, <1>5
  <1> QED  BY <1>6 DEF HeadersOK, HeadersAsIntended

\* A step of a request receives it, applies a rule, or leaves documents and
\* snapshot as they are until the document is sent.
LEMMA StepCases ==
    ASSUME TypeOK, OrderOK, NEW c \in Conversations, Step(c)
    PROVE  /\ UNCHANGED policy
           /\ \/ \E e \in Exchanges : Receive(c, e)
              \/ /\ pc[c] \in {"custom", "writing"} /\ pc' = [pc EXCEPT ![c] = "custom"]
                 /\ UNCHANGED shared
                 /\ \E path \in DOMAIN policy.custom :
                       /\ MayApply(c, path) /\ Applies(c, path)
                       /\ Passed(c, path) = {} \/ pc[c] = "writing"
              \/ \E path \in DOMAIN policy.custom :
                    /\ pc[c] = "custom" /\ MayApply(c, path) /\ Passed(c, path) # {}
                    /\ pc' = [pc EXCEPT ![c] = "writing"]
                    /\ writing' = [writing EXCEPT ![c] = path]
                    /\ UNCHANGED <<snapshot, original, doc, pending, shared>>
              \/ /\ pc[c] = "custom" /\ pending[c] = {} /\ pc' = [pc EXCEPT ![c] = "encoding"]
                 /\ UNCHANGED <<snapshot, original, doc, pending, writing, shared>>
              \/ /\ pc[c] \in {"encoding", "unchanged"} /\ pc' = [pc EXCEPT ![c] = "sent"]
                 /\ doc' = [doc EXCEPT ![c] = IF pc[c] = "encoding" THEN Resolved(c) ELSE @]
                 /\ UNCHANGED <<snapshot, original, pending, writing, shared>>
              \/ /\ pc[c] \in {"sent", "answered", "refused"}
                 /\ \E s \in {"answered", "idle"} : pc' = [pc EXCEPT ![c] = s]
                 /\ \A d \in Conversations \ {c} :
                       original'[d] = original[d] /\ doc'[d] = doc[d] /\ shared'[d] = shared[d]
                 /\ UNCHANGED <<snapshot, pending, writing>>
  <1>1. UNCHANGED policy
    BY DEF Step, Receive, ApplyCustom, WriteShared, Encode, Send, Reply, Continue
  <1>2. ASSUME NEW path \in DOMAIN policy.custom, ApplyCustom(c, path), Passed(c, path) = {}
        PROVE  /\ pc[c] = "custom" /\ pc' = [pc EXCEPT ![c] = "custom"]
               /\ MayApply(c, path) /\ Applies(c, path) /\ UNCHANGED shared
    <2>1. pc[c] = "custom" /\ pc' = pc  BY <1>2 DEF ApplyCustom
    <2>2. pc' = [pc EXCEPT ![c] = "custom"]  BY <2>1 DEF TypeOK
    <2>3. Applies(c, path)  BY <1>2 DEF ApplyCustom, Applies
    <2> QED  BY <1>2, <2>1, <2>2, <2>3 DEF ApplyCustom
  <1>3. ASSUME NEW path \in DOMAIN policy.custom, ApplyCustom(c, path), Passed(c, path) # {}
        PROVE  /\ pc[c] = "custom" /\ MayApply(c, path)
               /\ pc' = [pc EXCEPT ![c] = "writing"]
               /\ writing' = [writing EXCEPT ![c] = path]
               /\ UNCHANGED <<snapshot, original, doc, pending, shared>>
    BY <1>3 DEF ApplyCustom
  <1>4. ASSUME WriteShared(c), NEW path, path = writing[c]
        PROVE  /\ pc[c] = "writing" /\ pc' = [pc EXCEPT ![c] = "custom"] /\ UNCHANGED shared
               /\ path \in DOMAIN policy.custom /\ MayApply(c, path) /\ Applies(c, path)
    <2>1. pc[c] = "writing"  BY <1>4 DEF WriteShared
    <2>2. MayApply(c, path) /\ Passed(c, path) # {}  BY <1>4, <2>1 DEF OrderOK
    <2>3. path \in DOMAIN policy.custom  BY <2>2 DEF MayApply, TypeOK
    <2>4. Applies(c, path)  BY <1>4, <2>2 DEF WriteShared, Applies
    <2> QED  BY <1>4, <2>1, <2>2, <2>3, <2>4 DEF WriteShared
  <1>5. ASSUME Reply(c) \/ Continue(c)
        PROVE  /\ pc[c] \in {"sent", "answered", "refused"}
               /\ \E s \in {"answered", "idle"} : pc' = [pc EXCEPT ![c] = s]
               /\ \A d \in Conversations \ {c} :
                     original'[d] = original[d] /\ doc'[d] = doc[d] /\ shared'[d] = shared[d]
               /\ UNCHANGED <<snapshot, pending, writing>>
    BY <1>5 DEF Reply, Continue, TypeOK
  <1>6. CASE Encode(c)  BY <1>1, <1>6 DEF Encode
  <1>7. CASE Send(c)  BY <1>1, <1>7 DEF Send
  <1>8. CASE \E path \in DOMAIN policy.custom : ApplyCustom(c, path)
    BY <1>1, <1>2, <1>3, <1>8
  <1>9. CASE WriteShared(c)  BY <1>1, <1>4, <1>9
  <1> QED  BY <1>1, <1>5, <1>6, <1>7, <1>8, <1>9 DEF Step

\* The order of the rules is kept, and a request knows whether it met another.
LEMMA OrderKept == ASSUME TypeOK, OrderOK, NEW c \in Conversations, Step(c) PROVE OrderOK'
  <1> DEFINE before(d) == InFlight(d) => \A r \in Done(d), s \in pending[d] : ~IsStrictPrefix(s, r)
             waits(d) == pc[d] = "writing" => MayApply(d, writing[d]) /\ Passed(d, writing[d]) # {}
             ends(d) == pc[d] = "encoding" => pending[d] = {}
             rules(d) == (InFlight(d) => ~IsZero(policy)) /\ (pc[d] = "unchanged" => IsZero(policy))
             alone(d) == InFlight(d) /\ ~shared[d] => ~\E o \in Conversations \ {d} : InFlight(o)
  <1>1. \A d \in Conversations : before(d) /\ waits(d) /\ ends(d) /\ rules(d) /\ alone(d)
    BY DEF OrderOK
  <1>2. UNCHANGED policy  BY StepCases
  <1>3. ASSUME NEW d \in Conversations \ {c}
        PROVE  pc'[d] = pc[d] /\ pending'[d] = pending[d] /\ writing'[d] = writing[d]
    <2>1. ASSUME NEW e \in Exchanges, Receive(c, e)
          PROVE  pc'[d] = pc[d] /\ pending'[d] = pending[d] /\ writing'[d] = writing[d]
      BY <2>1 DEF TypeOK, Receive
    <2>2. ASSUME NEW path \in DOMAIN policy.custom, ApplyCustom(c, path)
          PROVE  pc'[d] = pc[d] /\ pending'[d] = pending[d] /\ writing'[d] = writing[d]
      BY <2>2 DEF TypeOK, ApplyCustom
    <2>3. CASE WriteShared(c) \/ Encode(c) \/ Send(c) \/ Reply(c) \/ Continue(c)
      BY <2>3 DEF TypeOK, WriteShared, Encode, Send, Reply, Continue
    <2> QED  BY <2>1, <2>2, <2>3 DEF Step
  <1>4. ASSUME NEW d \in Conversations \ {c}
        PROVE  before(d)' /\ waits(d)' /\ ends(d)' /\ rules(d)'
    BY <1>1, <1>2, <1>3 DEF InFlight, Done, MayApply, Passed, Objects, IsZero
  <1>5. before(c)' /\ waits(c)' /\ ends(c)' /\ rules(c)'
    <2>1. ASSUME NEW e \in Exchanges, Receive(c, e) PROVE before(c)' /\ waits(c)' /\ ends(c)' /\ rules(c)'
      <3>1. /\ pc'[c] \in {"unchanged", "refused", "custom"}
            /\ pc'[c] = "unchanged" <=> IsZero(policy)
            /\ pc'[c] = "custom" => pending'[c] = DOMAIN policy.custom
        BY <2>1 DEF Receive, TypeOK
      <3>2. IsZero(policy)' <=> IsZero(policy)  BY <1>2 DEF IsZero
      <3> QED  BY <1>2, <3>1, <3>2 DEF InFlight, Done
    <2>2. ASSUME pc[c] \in {"custom", "writing"}, pc' = [pc EXCEPT ![c] = "custom"],
                 NEW path \in DOMAIN policy.custom, MayApply(c, path), Applies(c, path)
          PROVE  before(c)' /\ waits(c)' /\ ends(c)' /\ rules(c)'
      <3>1. pc'[c] = "custom" /\ pending'[c] = pending[c] \ {path}
        BY <2>2 DEF Applies, TypeOK
      <3>2. Done(c)' = Done(c) \cup {path}  BY <1>2, <2>2, <3>1 DEF Done, MayApply
      <3>3. InFlight(c)  BY <2>2 DEF InFlight
      <3>4. before(c)'  BY <1>1, <2>2, <3>1, <3>2, <3>3 DEF MayApply
      <3>5. rules(c)'  BY <1>1, <1>2, <3>1, <3>3 DEF IsZero
      <3> QED  BY <3>1, <3>4, <3>5
    <2>3. ASSUME pc[c] \in {"custom", "encoding", "unchanged", "sent", "answered", "refused"},
                 UNCHANGED pending,
                 \/ pc'[c] \in {"sent", "answered", "idle"}
                 \/ pc[c] = "custom" /\ pc'[c] = "encoding" /\ pending[c] = {}
                 \/ pc[c] = "custom" /\ pc'[c] = "writing"
                    /\ MayApply(c, writing'[c]) /\ Passed(c, writing'[c]) # {}
          PROVE  before(c)' /\ waits(c)' /\ ends(c)' /\ rules(c)'
      <3>1. Done(c)' = Done(c) /\ (IsZero(policy)' <=> IsZero(policy))
        BY <1>2, <2>3 DEF Done, IsZero
      <3>2. \A path : /\ MayApply(c, path)' <=> MayApply(c, path)
                      /\ Passed(c, path)' = Passed(c, path)
        BY <1>2, <2>3 DEF MayApply, Passed, Objects
      <3>3. MayApply(c, writing[c])' <=> MayApply(c, writing'[c])
        BY <1>2, <2>3 DEF MayApply
      <3>4. Passed(c, writing[c])' = Passed(c, writing'[c])
        BY <1>2, <2>3 DEF Passed, Objects
      <3>5. CASE pc'[c] \in {"sent", "answered", "idle"}  BY <3>5 DEF InFlight
      <3>6. CASE pc[c] = "custom" /\ pc'[c] = "encoding" /\ pending[c] = {}
        BY <1>1, <2>3, <3>1, <3>6 DEF InFlight
      <3>7. CASE /\ pc[c] = "custom" /\ pc'[c] = "writing"
                 /\ MayApply(c, writing'[c]) /\ Passed(c, writing'[c]) # {}
        BY <1>1, <2>3, <3>1, <3>3, <3>4, <3>7 DEF InFlight
      <3> QED  BY <2>3, <3>5, <3>6, <3>7
    <2>4. pc \in [Conversations -> {"idle", "custom", "writing", "encoding", "unchanged", "sent",
                                    "answered", "refused"}] /\ DOMAIN writing = Conversations
      BY DEF TypeOK
    <2> HIDE DEF before, waits, ends, rules
    <2> QED  BY <2>1, <2>2, <2>3, <2>4, StepCases
  <1>6. ASSUME NEW d \in Conversations PROVE alone(d)'
    <2>1. ASSUME NEW e \in Exchanges, Receive(c, e) PROVE alone(d)'
      <3>1. \A o \in Conversations \ {c} : InFlight(o)' <=> InFlight(o)  BY <1>3 DEF InFlight
      <3>2. /\ shared'[c] = \E o \in Conversations \ {c} : InFlight(o)
            /\ \A o \in Conversations \ {c} : shared'[o] = (shared[o] \/ InFlight(o))
        BY <2>1 DEF Receive
      <3> QED  BY <3>1, <3>2
    <2>2. CASE ~\E e \in Exchanges : Receive(c, e)
      <3>1. \A o \in Conversations : InFlight(o)' => InFlight(o) /\ shared'[o] = shared[o]
        <4>1. InFlight(c)' => InFlight(c) /\ UNCHANGED shared
          BY <2>2, StepCases DEF InFlight, TypeOK
        <4>2. ASSUME NEW o \in Conversations \ {c} PROVE shared'[o] = shared[o]
          BY <2>2, StepCases
        <4> QED  BY <1>3, <4>1, <4>2 DEF InFlight
      <3> QED  BY <1>1, <3>1
    <2> QED  BY <2>1, <2>2
  <1> HIDE DEF before, waits, ends, rules, alone
  <1>7. \A d \in Conversations : before(d)' /\ waits(d)' /\ ends(d)' /\ rules(d)' /\ alone(d)'
    BY <1>4, <1>5, <1>6
  <1> QED  BY <1>7 DEF OrderOK, before, waits, ends, rules, alone

\* The snapshot is changed by the writes to its objects only.
LEMMA SnapshotGood ==
    ASSUME TypeOK, OrderOK, SnapshotOK, NEW c \in Conversations, Step(c)
    PROVE  SnapshotOK'
  <1>1. CASE UNCHANGED <<policy, snapshot>>  BY <1>1 DEF SnapshotOK, Objects
  <1>2. ASSUME pc[c] \in {"custom", "writing"}, NEW path \in DOMAIN policy.custom,
               MayApply(c, path), Applies(c, path)
        PROVE  SnapshotOK'
    <2>1. \A r \in Done(c), s \in pending[c] : ~IsStrictPrefix(s, r)
      BY <1>2 DEF OrderOK, InFlight
    <2> QED  BY <1>2, <2>1, SnapshotAfter
  <1> QED  BY <1>1, <1>2, StepCases DEF Receive

\* A request that is received has a document in order.
LEMMA ReceivedDocument ==
    ASSUME TypeOK, NEW c \in Conversations, NEW e \in Exchanges, Receive(c, e),
           pc'[c] = "custom"
    PROVE  DocumentOK(c)'
  <1> DEFINE path == MessagesPath(policy)
             list == <<"list">> \o history[c]
             body == Assign(e.document, path, Leaf(path, list))
             base == Prepared(policy, body)
  <1>1. /\ original'[c] = body /\ doc'[c] = base /\ pending'[c] = DOMAIN policy.custom
        /\ UNCHANGED policy /\ policy \in Policies /\ ~Refused(policy, body)
    BY DEF Receive, TypeOK
  <1>2. path \in Paths
    <2>1. \A n \in Names : <<n>> \in Seq(Names)  OBVIOUS
    <2> QED  BY <2>1, NamesAssumption DEF MessagesPath, Paths
  <1>3. IsLeaf(list)
    <2>1. history[c] \in Seq(Messages)  BY DEF TypeOK
    <2>2. history[c] \in Seq(Blocks)
      <3>1. Messages \subseteq Blocks  BY DEF Blocks
      <3> HIDE DEF list
      <3> QED  BY <2>1, <3>1
    <2>3. IsList(list) /\ Tail(list) = history[c]  BY <2>1, ItemsOfList DEF Items
    <2>4. list # Link
      <3>1. list[1] = "list" /\ Link[1] = "link"  BY <2>3 DEF IsList, Link
      <3> HIDE DEF list
      <3> QED  BY <3>1
    <2> HIDE DEF list
    <2> QED  BY <2>2, <2>3, <2>4 DEF IsLeaf
  <1> HIDE DEF list
  <1>4. ASSUME NEW p \in DOMAIN body PROVE p \in Paths /\ IsLeaf(body[p])
    <2>1. DOMAIN Leaf(path, list) = {path} /\ Leaf(path, list)[path] = list  BY DEF Leaf
    <2>2. /\ p = path => body[p] = list
          /\ p # path => p \in DOMAIN e.document /\ body[p] = e.document[p]
      BY <2>1, AssignLeaves
    <2> HIDE DEF body, path
    <2> QED  BY <1>2, <1>3, <2>2, ExchangesAssumption
  <1> HIDE DEF body
  <1>5. \A p \in DOMAIN base : p \in Paths /\ base[p] # Link
    BY <1>1, <1>4, PreparedLeaves
  <1> HIDE DEF base
  <1>6. Done(c)' = {} /\ Linked(c)' = {}
    BY <1>1 DEF Done, Linked, Objects
  <1>7. Prepared(policy, original[c])' = base  BY <1>1 DEF base
  <1>8. ASSUME NEW p \in Paths, NEW v PROVE Found(c, p, v)' <=> Asked(c, p, v)'
    <2>1. Covering(Done(c)', p) = {}  BY <1>6 DEF Covering
    <2>2. Decided(c, Done(c), p)' = base  BY <1>7, <2>1 DEF Decided
    <2>3. Asked(c, p, v)' <=> p \in DOMAIN base /\ base[p] = v  BY <1>6, <2>2 DEF Asked
    <2>4. Found(c, p, v)' <=> v # Link /\ p \in DOMAIN base /\ base[p] = v
      BY <1>1, <1>6 DEF Found
    <2> QED  BY <1>5, <2>3, <2>4
  <1>9. DOMAIN doc'[c] \subseteq Paths /\ DOMAIN Prepared(policy, original[c])' \subseteq Paths
    BY <1>1, <1>5, <1>7
  <1> QED  BY <1>6, <1>8, <1>9 DEF DocumentOK

\* What a document depends on.
LEMMA DocumentSame ==
    ASSUME NEW c \in Conversations, DocumentOK(c), UNCHANGED <<policy, snapshot>>,
           original'[c] = original[c], doc'[c] = doc[c], pending'[c] = pending[c]
    PROVE  DocumentOK(c)'
  <1>1. Done(c)' = Done(c) /\ Linked(c)' = Linked(c)  BY DEF Done, Linked, Objects
  <1>2. \A p, v : Found(c, p, v)' <=> Found(c, p, v)  BY <1>1 DEF Found
  <1>3. \A p : Decided(c, Done(c), p)' = Decided(c, Done(c), p)
    BY <1>1 DEF Decided, RuleValue
  <1>4. \A p, v : Asked(c, p, v)' <=> Asked(c, p, v)  BY <1>1, <1>3 DEF Asked
  <1>5. \A p : Settled(c, p)' <=> Settled(c, p)  BY DEF Settled
  <1>6. Prepared(policy, original[c])' = Prepared(policy, original[c])  OBVIOUS
  <1> QED  BY <1>1, <1>2, <1>4, <1>5, <1>6 DEF DocumentOK

LEMMA IntendedSame ==
    ASSUME NEW c \in Conversations, UNCHANGED policy, original'[c] = original[c]
    PROVE  Intended(c)' = Intended(c)
  <1>1. \A r : RuleValue(c, r)' = RuleValue(c, r)  BY DEF RuleValue
  <1>2. Prepared(policy, original[c])' = Prepared(policy, original[c])  OBVIOUS
  <1>3. \A p : Decided(c, DOMAIN policy.custom, p)' = Decided(c, DOMAIN policy.custom, p)
    BY DEF Decided, RuleValue
  <1> QED  BY <1>1, <1>2, <1>3 DEF Intended, IntendedBy

\* A request that meets no other one, or whose rules write into no object, has
\* its document in order until it is sent, and then as intended.
LEMMA DocumentsKept ==
    ASSUME TypeOK, KeptOK, OrderOK, SnapshotOK, DocumentsOK, RewrittenAsIntended,
           NEW c \in Conversations, Step(c)
    PROVE  DocumentsOK' /\ RewrittenAsIntended'
  <1>1. UNCHANGED policy /\ (Disjoint' <=> Disjoint) /\ (IsZero(policy)' <=> IsZero(policy))
    <2>1. UNCHANGED policy  BY StepCases
    <2> QED  BY <2>1 DEF Disjoint, Objects, IsZero
  <1>2. ASSUME NEW d \in Conversations \ {c}
        PROVE  /\ pc'[d] = pc[d] /\ original'[d] = original[d] /\ doc'[d] = doc[d]
               /\ pending'[d] = pending[d] /\ (shared[d] => shared'[d])
    <2>1. ASSUME NEW e \in Exchanges, Receive(c, e)
          PROVE  /\ pc'[d] = pc[d] /\ original'[d] = original[d] /\ doc'[d] = doc[d]
                 /\ pending'[d] = pending[d] /\ (shared[d] => shared'[d])
      BY <2>1 DEF TypeOK, Receive
    <2>2. CASE ~\E e \in Exchanges : Receive(c, e)
      <3>1. shared'[d] = shared[d] /\ original'[d] = original[d]
        BY <2>2, StepCases DEF Applies
      <3>2. pc'[d] = pc[d] /\ doc'[d] = doc[d] /\ pending'[d] = pending[d]
        <4>1. ASSUME NEW path, Applies(c, path)
              PROVE  doc'[d] = doc[d] /\ pending'[d] = pending[d]
          BY <4>1 DEF Applies, TypeOK
        <4>2. ASSUME NEW s, pc' = [pc EXCEPT ![c] = s] PROVE pc'[d] = pc[d]
          BY <4>2 DEF TypeOK
        <4>3. ASSUME NEW s, doc' = [doc EXCEPT ![c] = s] PROVE doc'[d] = doc[d]
          BY <4>3 DEF TypeOK
        <4> QED  BY <2>2, <4>1, <4>2, <4>3, StepCases
      <3> QED  BY <3>1, <3>2
    <2> QED  BY <2>1, <2>2
  <1>3. ASSUME NEW d \in Conversations \ {c}, InFlight(d), Private(d) PROVE snapshot' = snapshot
    <2>1. pc[c] # "writing"
      <3>1. CASE Disjoint  BY <3>1 DEF KeptOK
      <3>2. CASE ~shared[d]  BY <1>3, <3>2 DEF OrderOK, InFlight
      <3> QED  BY <1>3, <3>1, <3>2 DEF Private
    <2> QED  BY <2>1, StepCases DEF Receive, Applies
  <1>4. ASSUME NEW d \in Conversations \ {c}
        PROVE  /\ InFlight(d)' /\ Private(d)' => DocumentOK(d)'
               /\ pc'[d] = "sent" /\ ~IsZero(policy) /\ Private(d)' => doc'[d] = Intended(d)'
    <2>1. Private(d)' => Private(d)  BY <1>1, <1>2 DEF Private
    <2>2. InFlight(d)' /\ Private(d)' => DocumentOK(d)'
      <3> SUFFICES ASSUME InFlight(d)', Private(d)' PROVE DocumentOK(d)'  OBVIOUS
      <3>1. InFlight(d) /\ Private(d)  BY <1>2, <2>1 DEF InFlight
      <3> QED  BY <1>1, <1>2, <1>3, <3>1, DocumentSame DEF DocumentsOK
    <2>3. Intended(d)' = Intended(d)  BY <1>1, <1>2, IntendedSame
    <2> QED  BY <1>2, <2>1, <2>2, <2>3 DEF RewrittenAsIntended, Private
  <1>5. InFlight(c)' /\ Private(c)' => DocumentOK(c)'
    <2> SUFFICES ASSUME InFlight(c)', Private(c)' PROVE DocumentOK(c)'  OBVIOUS
    <2>1. ASSUME NEW e \in Exchanges, Receive(c, e) PROVE DocumentOK(c)'
      <3>1. pc'[c] \in {"unchanged", "refused", "custom"}  BY <2>1 DEF Receive, TypeOK
      <3>2. pc'[c] = "custom"  BY <3>1 DEF InFlight
      <3> QED  BY <2>1, <3>2, ReceivedDocument
    <2>2. CASE ~\E e \in Exchanges : Receive(c, e)
      <3>1. pc'[c] \in {"custom", "writing", "encoding"}  BY DEF InFlight
      <3>2. InFlight(c) /\ UNCHANGED shared  BY <2>2, <3>1, StepCases DEF InFlight, TypeOK
      <3>3. DocumentOK(c)  BY <1>1, <3>2 DEF DocumentsOK, Private
      <3>4. CASE \E path \in DOMAIN policy.custom : MayApply(c, path) /\ Applies(c, path)
        <4>1. \A r \in Done(c), s \in pending[c] : ~IsStrictPrefix(s, r)
          BY <3>2 DEF OrderOK
        <4> QED  BY <3>3, <3>4, <4>1, DocumentAfter
      <3>5. CASE UNCHANGED <<snapshot, original, doc, pending>>
        BY <1>1, <3>3, <3>5, DocumentSame
      <3> QED  BY <2>2, <3>1, <3>4, <3>5, StepCases DEF TypeOK
    <2> QED  BY <2>1, <2>2
  <1>6. pc'[c] = "sent" /\ ~IsZero(policy) /\ Private(c)' => doc'[c] = Intended(c)'
    <2> SUFFICES ASSUME pc'[c] = "sent", ~IsZero(policy), Private(c)'
                 PROVE  doc'[c] = Intended(c)'
      OBVIOUS
    <2>1. ASSUME NEW e \in Exchanges PROVE ~Receive(c, e)  BY DEF Receive, TypeOK
    <2>2. /\ pc[c] \in {"encoding", "unchanged"} /\ UNCHANGED <<original, shared>>
          /\ pc[c] = "encoding" => doc'[c] = Resolved(c)
      BY <2>1, StepCases DEF TypeOK
    <2>3. pc[c] = "encoding" /\ pending[c] = {}  BY <2>2 DEF OrderOK
    <2>4. DocumentOK(c)  BY <1>1, <2>2, <2>3 DEF DocumentsOK, Private, InFlight
    <2>5. Intended(c)' = Intended(c)  BY <1>1, <2>2, IntendedSame
    <2> QED  BY <2>2, <2>3, <2>4, <2>5, ResolvedIntended
  <1>7. \A d \in Conversations :
           /\ InFlight(d)' /\ Private(d)' => DocumentOK(d)'
           /\ pc'[d] = "sent" /\ ~IsZero(policy) /\ Private(d)' => doc'[d] = Intended(d)'
    BY <1>4, <1>5, <1>6
  <1> QED  BY <1>1, <1>7 DEF DocumentsOK, RewrittenAsIntended, Private

\* The invariant holds for any conversations, documents and rules.
THEOREM RewritingInvariant == Spec => []WInv
  <1>1. Init => WInv
    <2> SUFFICES ASSUME Init PROVE WInv  OBVIOUS
    <2>1. TypeOK  BY OpeningsAssumption DEF Init, TypeOK
    <2>2. KeptOK  BY DEF Init, KeptOK
    <2>3. SessionsOK  BY DEF Init, SessionsOK
    <2>4. HeadersOK  BY DEF Init, HeadersOK, HeadersAsIntended
    <2>5. OrderOK  BY DEF Init, OrderOK, InFlight
    <2>6. SnapshotOK
      <3>1. /\ snapshot = policy.custom /\ policy \in Policies
            /\ Objects(policy) \subseteq DOMAIN policy.custom
        BY DEF Init, Objects
      <3>2. \A q \in DOMAIN policy.custom : \A p \in DOMAIN policy.custom[q] :
               p \in Paths /\ IsPrefix(q, p)
        BY <3>1, PoliciesAssumption
      <3> QED  BY <3>1, <3>2 DEF SnapshotOK
    <2>7. DocumentsOK /\ RewrittenAsIntended  BY DEF Init, DocumentsOK, RewrittenAsIntended, InFlight
    <2> QED  BY <2>1, <2>2, <2>3, <2>4, <2>5, <2>6, <2>7 DEF WInv
  <1>2. WInv /\ [Next]_vars => WInv'
    <2> SUFFICES ASSUME WInv, [Next]_vars PROVE WInv'  OBVIOUS
    <2>1. ASSUME NEW c \in Conversations, Step(c) PROVE WInv'
      BY <2>1, TypesKept, SnapshotStays, SessionsStay, HeadersKept, OrderKept, SnapshotGood,
         DocumentsKept
         DEF WInv
    <2>2. CASE UNCHANGED vars
      <3>1. UNCHANGED <<policy, snapshot, opening, history, turn, sessions, pc, pending, original,
                        exchange, headers, doc, writing, shared, crashed>>
        BY <2>2 DEF vars, conversation, request
      <3>2. TypeOK'  BY <3>1 DEF WInv, TypeOK
      <3>3. KeptOK'  BY <3>1 DEF WInv, KeptOK, Disjoint, Objects
      <3>4. SessionsOK'  BY <3>1 DEF WInv, SessionsOK, BeginsAt
      <3>5. HeadersOK'  BY <3>1 DEF WInv, HeadersOK, HeadersAsIntended
      <3>6. OrderOK'
        BY <3>1 DEF WInv, OrderOK, InFlight, Done, MayApply, Passed, Objects, IsZero
      <3>7. SnapshotOK'  BY <3>1 DEF WInv, SnapshotOK, Objects
      <3>8. DocumentsOK'
        BY <3>1, DocumentSame DEF WInv, DocumentsOK, Private, InFlight, Disjoint, Objects
      <3>9. RewrittenAsIntended'
        BY <3>1, IntendedSame DEF WInv, RewrittenAsIntended, Disjoint, Objects, IsZero
      <3> QED  BY <3>2, <3>3, <3>4, <3>5, <3>6, <3>7, <3>8, <3>9 DEF WInv
    <2> QED  BY <2>1, <2>2 DEF Next
  <1> QED  BY <1>1, <1>2, PTL DEF Spec

\* Unless a rule goes below another one's object, requests leave the snapshot
\* as it was compiled.
THEOREM SnapshotUntouched == Spec => []SnapshotKept
  <1>1. WInv => SnapshotKept  BY DEF WInv, KeptOK, SnapshotKept
  <1> QED  BY <1>1, RewritingInvariant, PTL

\* The identifier is that of the first words of the user, for all requests of a
\* conversation and for no other words.
THEOREM SessionsFollow == Spec => []SessionsFollowConversations
  <1>1. WInv => SessionsFollowConversations
    <2> SUFFICES ASSUME WInv, NEW c \in Conversations, NEW d \in Conversations,
                        NEW i \in DOMAIN opening[c], NEW j \in DOMAIN opening[d],
                        BeginsAt(opening[c], i), BeginsAt(opening[d], j),
                        NEW s \in sessions[c], NEW t \in sessions[d]
                 PROVE  s = t <=> opening[c][i][2] = opening[d][j][2]
      BY DEF SessionsFollowConversations
    <2>1. s = <<"seed", opening[c][i][2]>> /\ t = <<"seed", opening[d][j][2]>>
      BY DEF WInv, SessionsOK
    <2> QED  BY <2>1
  <1> QED  BY <1>1, RewritingInvariant, PTL

\* Requests go upstream, and replies to the client, with headers that follow the
\* rules, the session identifier being one of the conversation's.
THEOREM HeadersFollowRules == Spec => []HeadersAsIntended
  <1>1. WInv => HeadersAsIntended  BY DEF WInv, HeadersOK
  <1> QED  BY <1>1, RewritingInvariant, PTL

\* What goes upstream is the client's document with the rules applied, the most
\* specific one deciding, for the requests that meet no other one or whose rules
\* write into no object.
THEOREM RewritingCorrect == Spec => []RewrittenAsIntended
  <1>1. WInv => RewrittenAsIntended  BY DEF WInv
  <1> QED  BY <1>1, RewritingInvariant, PTL
=============================================================================
