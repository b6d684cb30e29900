------------------------------ MODULE SdkProofs ------------------------------
(***************************************************************************)
(* Proofs about Sdk for every server, caller and name.  In this order:     *)
(*   - how a path is read, a body is framed, and the last result of an rpc *)
(*     is found among what else comes in the body;                         *)
(*   - whatever the body, a call returns a value or an error;              *)
(*   - the inductive invariant of a call, CallInv;                         *)
(*   - an error page is no answer;                                         *)
(*   - what the body that is decoded tells of the server, BodyInv, and on  *)
(*     it listings, resolutions, renames and added sources;                *)
(*   - what a stream has told, StreamInv, and on it the answer.            *)
(***************************************************************************)
EXTENDS Sdk, FiniteSetTheorems, WellFoundedInduction, TLAPS

-----------------------------------------------------------------------------
(* Values *)

\* A value is of the one kind that its constructor names.
LEMMA Kinds ==
  ASSUME NEW x
  PROVE  /\ DOMAIN JStr(x) = {"str"} /\ JStr(x).str = x
         /\ DOMAIN JText(x) = {"text"} /\ JText(x).text = x
         /\ DOMAIN JNum(x) = {"num"} /\ JNum(x).num = x
         /\ DOMAIN JBool(x) = {"bool"} /\ JBool(x).bool = x
         /\ DOMAIN JList(x) = {"list"} /\ JList(x).list = x
         /\ DOMAIN Null = {"null"}
         /\ DOMAIN NotJSON = {"malformed"}
         /\ DOMAIN Ok(x) = {"ok"} /\ Ok(x).ok = x
         /\ DOMAIN Drift(x) = {"drift"}
BY DEF JStr, JText, JNum, JBool, JList, Null, NotJSON, Ok, Drift

\* So is what a decoder returns.
LEMMA Outputs ==
  ASSUME NEW x
  PROVE  /\ DOMAIN View(x) = {"val"} /\ View(x).val = x
         /\ DOMAIN Failed(x) = {"err"} /\ Failed(x).err = x
         /\ Is("err", Failed(x)) /\ ~Is("val", Failed(x))
         /\ Is("val", View(x)) /\ ~Is("err", View(x))
<1>1. /\ DOMAIN View(x) = {"val"} /\ View(x).val = x
      /\ DOMAIN Failed(x) = {"err"} /\ Failed(x).err = x
  BY DEF View, Failed
<1>2. Is("err", Failed(x)) /\ ~Is("val", Failed(x))
  BY <1>1 DEF Is
<1>3. Is("val", View(x)) /\ ~Is("err", View(x))
  BY <1>1 DEF Is
<1>4. QED
  BY <1>1, <1>2, <1>3

\* A value is found, a drift is not.
LEMMA Founds == ASSUME NEW x PROVE Found(Ok(x)) /\ ~Found(Drift(x))
BY Kinds DEF Found, Is

\* One position down a list, and what no position leads out of.
LEMMA Descents ==
  ASSUME NEW l, NEW i \in Nat, NEW x, NEW idx
  PROVE  /\ i < Len(l) => Step(Ok(JList(l)), JNum(i)) = Ok(l[i + 1])
         /\ ~(i < Len(l)) => Step(Ok(JList(l)), JNum(i)) = Drift("out_of_range")
         /\ Step(Ok(JStr(x)), idx) = Drift("not_a_list")
         /\ Step(Ok(Null), idx) = Drift("out_of_range")
         /\ Step(Drift(x), idx) = Drift(x)
<1> USE Kinds
<1>1. /\ i < Len(l) => Descend(JList(l), JNum(i)) = Ok(l[i + 1])
      /\ ~(i < Len(l)) => Descend(JList(l), JNum(i)) = Drift("out_of_range")
  BY DEF Descend, Is
<1>2. Descend(JStr(x), idx) = Drift("not_a_list") /\ Descend(Null, idx) = Drift("out_of_range")
  BY DEF Descend, Is
<1>3. Found(Ok(JList(l))) /\ Found(Ok(JStr(x))) /\ Found(Ok(Null)) /\ ~Found(Drift(x))
  BY DEF Found, Is
<1>4. QED
  BY <1>1, <1>2, <1>3 DEF Step

\* A set of numbers that is not empty has a least element.
LEMMA LeastNat == ASSUME NEW S, S \subseteq Nat, S # {} PROVE \E n \in S : \A m \in S : n <= m
<1>1. IsWellFoundedOn(OpToRel(<, Nat), Nat)
  BY NatLessThanWellFounded
<1>2. PICK n \in S : \A m \in S : ~ (<<m, n>> \in OpToRel(<, Nat))
  BY <1>1, WFMin
<1>3. \A m \in S : ~(m < n)
  BY <1>2 DEF OpToRel
<1>4. QED
  BY <1>3

\* Walks of a path exist at any length.
Walks(h, v, path, n) ==
  h = [k \in 0..n |-> IF k = 0 THEN Ok(v) ELSE Step(h[k - 1], path[k])]

\* The recursive function of At exists, for a path of any length.
LEMMA WalkExists == ASSUME NEW v, NEW path, NEW n \in Nat PROVE \E h : Walks(h, v, path, n)
<1> DEFINE Bad == {m \in Nat : ~ \E h : Walks(h, v, path, m)}
<1> SUFFICES ASSUME Bad # {} PROVE FALSE
  OBVIOUS
<1>1. PICK m \in Bad : \A k \in Bad : m <= k
  BY LeastNat
<1>2. m # 0
  <2> DEFINE h == [k \in {0} |-> Ok(v)]
  <2>1. 0..0 = {0}
    OBVIOUS
  <2>2. Walks(h, v, path, 0)
    BY <2>1 DEF Walks
  <2>3. QED
    BY <2>2
<1>3. m - 1 \in Nat /\ m - 1 \notin Bad
  BY <1>1, <1>2
<1>4. PICK h : Walks(h, v, path, m - 1)
  BY <1>3
<1> DEFINE g == [k \in 0..m |-> IF k = m THEN Step(h[m - 1], path[m]) ELSE h[k]]
<1>5. \A k \in 0..(m - 1) : h[k] = IF k = 0 THEN Ok(v) ELSE Step(h[k - 1], path[k])
  BY <1>4 DEF Walks
<1>6. ASSUME NEW k \in 0..m PROVE g[k] = IF k = 0 THEN Ok(v) ELSE Step(g[k - 1], path[k])
  BY <1>2, <1>3, <1>5
<1>7. Walks(g, v, path, m)
  BY <1>6 DEF Walks
<1>8. QED
  BY <1>1, <1>7

\* A path that is longer by a position leads a step further.
LEMMA AtLonger ==
  ASSUME NEW v, NEW p, NEW a, Len(p) \in Nat, NEW q, Len(q) = Len(p) + 1,
         \A i \in 1..Len(p) : q[i] = p[i], q[Len(q)] = a
  PROVE  At(v, q) = Step(At(v, p), a)
<1> DEFINE n == Len(p)
           short == CHOOSE h : Walks(h, v, p, n)
           long  == CHOOSE h : Walks(h, v, q, n + 1)
<1>1. At(v, p) = short[n] /\ At(v, q) = long[n + 1]
  BY DEF At, Walks
<1>2. Walks(short, v, p, n) /\ Walks(long, v, q, n + 1)
  <2>1. (\E h : Walks(h, v, p, n)) /\ \E h : Walks(h, v, q, n + 1)
    <3>1. \E h : Walks(h, v, p, n)
      BY WalkExists
    <3>2. \E h : Walks(h, v, q, n + 1)
      BY WalkExists
    <3>3. QED
      BY <3>1, <3>2
  <2>2. QED
    BY <2>1
<1> HIDE DEF short, long
<1>3. \A k \in 0..n : short[k] = IF k = 0 THEN Ok(v) ELSE Step(short[k - 1], p[k])
  BY <1>2 DEF Walks
<1>4. \A k \in 0..(n + 1) : long[k] = IF k = 0 THEN Ok(v) ELSE Step(long[k - 1], q[k])
  BY <1>2 DEF Walks
<1>5. \A k \in 0..n : short[k] = long[k]
  <2> DEFINE Bad == {k \in 0..n : short[k] # long[k]}
  <2> SUFFICES ASSUME Bad # {} PROVE FALSE
    OBVIOUS
  <2>1. PICK k \in Bad : \A j \in Bad : k <= j
    <3>1. Bad \subseteq Nat
      OBVIOUS
    <3>2. QED
      BY <3>1, LeastNat
  <2>2. k # 0
    BY <1>3, <1>4
  <2>3. k - 1 \in 0..n /\ short[k - 1] = long[k - 1]
    BY <2>1, <2>2
  <2>4. QED
    BY <2>1, <2>2, <2>3, <1>3, <1>4
<1>6. long[n + 1] = Step(long[n], a)
  BY <1>4
<1>7. QED
  BY <1>1, <1>5, <1>6

\* No position: the value itself.
LEMMA PathZero == ASSUME NEW v PROVE At(v, <<>>) = Ok(v)
<1>1. At(v, <<>>) = (CHOOSE h : Walks(h, v, <<>>, 0))[0]
  BY Len(<<>>) = 0 DEF At, Walks
<1>2. \E h : Walks(h, v, <<>>, 0)
  BY WalkExists
<1>3. PICK h : Walks(h, v, <<>>, 0) /\ At(v, <<>>) = h[0]
  BY <1>1, <1>2
<1>4. QED
  BY <1>3 DEF Walks

\* Paths of one to four positions, which are all that the code uses, step by step.
LEMMA PathOne ==
  ASSUME NEW v, NEW a
  PROVE  At(v, <<a>>) = Step(Ok(v), a)
<1> DEFINE p == <<>>
           q == <<a>>
<1>1. Len(p) = 0 /\ Len(q) = 1 /\ q[1] = a
  OBVIOUS
<1> HIDE DEF p, q
<1>2. Len(p) \in Nat /\ Len(q) = Len(p) + 1 /\ q[Len(q)] = a /\ \A i \in 1..Len(p) : q[i] = p[i]
  BY <1>1
<1>3. At(v, q) = Step(At(v, p), a)
  BY <1>2, AtLonger
<1>4. QED
  BY <1>3, PathZero DEF p, q

\* Two positions: the step after PathOne.
LEMMA PathTwo ==
  ASSUME NEW v, NEW a, NEW b
  PROVE  At(v, <<a, b>>) = Step(Step(Ok(v), a), b)
<1> DEFINE p == <<a>>
           q == <<a, b>>
<1>1. Len(p) = 1 /\ Len(q) = 2 /\ q[2] = b /\ p[1] = q[1]
  OBVIOUS
<1> HIDE DEF p, q
<1>2. Len(p) \in Nat /\ Len(q) = Len(p) + 1 /\ q[Len(q)] = b /\ \A i \in 1..Len(p) : q[i] = p[i]
  BY <1>1
<1>3. At(v, q) = Step(At(v, p), b)
  BY <1>2, AtLonger
<1>4. QED
  BY <1>3, PathOne DEF p, q

\* Three positions.
LEMMA PathThree ==
  ASSUME NEW v, NEW a, NEW b, NEW c
  PROVE  At(v, <<a, b, c>>) = Step(Step(Step(Ok(v), a), b), c)
<1> DEFINE p == <<a, b>>
           q == <<a, b, c>>
<1>1. Len(p) = 2 /\ Len(q) = 3 /\ q[3] = c /\ p[1] = q[1] /\ p[2] = q[2]
  OBVIOUS
<1> HIDE DEF p, q
<1>2. Len(p) \in Nat /\ Len(q) = Len(p) + 1 /\ q[Len(q)] = c /\ \A i \in 1..Len(p) : q[i] = p[i]
  BY <1>1
<1>3. At(v, q) = Step(At(v, p), c)
  BY <1>2, AtLonger
<1>4. QED
  BY <1>3, PathTwo DEF p, q

\* Four positions, the longest path of a decoder.
LEMMA PathFour ==
  ASSUME NEW v, NEW a, NEW b, NEW c, NEW d
  PROVE  At(v, <<a, b, c, d>>) = Step(Step(Step(Step(Ok(v), a), b), c), d)
<1> DEFINE p == <<a, b, c>>
           q == <<a, b, c, d>>
<1>1. Len(p) = 3 /\ Len(q) = 4 /\ q[4] = d /\ p[1] = q[1] /\ p[2] = q[2] /\ p[3] = q[3]
  OBVIOUS
<1> HIDE DEF p, q
<1>2. Len(p) \in Nat /\ Len(q) = Len(p) + 1 /\ q[Len(q)] = d /\ \A i \in 1..Len(p) : q[i] = p[i]
  BY <1>1
<1>3. At(v, q) = Step(At(v, p), d)
  BY <1>2, AtLonger
<1>4. QED
  BY <1>3, PathThree DEF p, q

\* What a slot reads that holds a string, a list, or neither.
LEMMA StrReads ==
  ASSUME NEW v, NEW path, NEW x, At(v, path) = Ok(JStr(x))
  PROVE  Found(StrAt(v, path)) /\ StrAt(v, path) = Ok(x) /\ OptStr(v, path) = x
<1>1. Found(At(v, path)) /\ ~Is("text", JStr(x)) /\ Is("str", JStr(x))
  BY Founds, Kinds DEF Is
<1>2. StrAt(v, path) = Ok(x)
  BY <1>1, Kinds DEF StrAt, Typed
<1>3. QED
  BY <1>2, Founds, Kinds DEF OptStr, OrElse

\* Neither a drift nor another kind of value reads as a string.
LEMMA NoStrReads ==
  ASSUME NEW v, NEW path, NEW w,
         \/ At(v, path) = Drift(w)
         \/ At(v, path) = Ok(w) /\ ~Is("text", w) /\ ~Is("str", w)
  PROVE  ~Found(StrAt(v, path)) /\ OptStr(v, path) = ""
<1>1. ~Found(StrAt(v, path))
  <2>1. CASE At(v, path) = Drift(w)
    BY <2>1, Founds DEF StrAt, Typed
  <2>2. CASE At(v, path) = Ok(w) /\ ~Is("text", w) /\ ~Is("str", w)
    <3>1. Found(At(v, path)) /\ At(v, path).ok = w
      BY <2>2, Founds, Kinds
    <3>2. StrAt(v, path) = Drift("not_a_string")
      BY <2>2, <3>1 DEF StrAt, Typed
    <3>3. QED
      BY <3>2, Founds
  <2>3. QED
    BY <2>1, <2>2
<1>2. QED
  BY <1>1 DEF OptStr, OrElse

\* A list at the end of a path reads as that list.
LEMMA ListReads ==
  ASSUME NEW v, NEW path, NEW l, At(v, path) = Ok(JList(l))
  PROVE  Found(ListAt(v, path)) /\ ListAt(v, path) = Ok(l)
<1>1. Found(At(v, path)) /\ ~Is("null", JList(l)) /\ Is("list", JList(l))
  BY Founds, Kinds DEF Is
<1>2. ListAt(v, path) = Ok(l)
  BY <1>1, Kinds DEF ListAt, Typed
<1>3. QED
  BY <1>2, Founds

\* A slot of a list.
LEMMA Slots ==
  ASSUME NEW l, NEW i \in Nat
  PROVE  /\ i < Len(l) => At(JList(l), Slot(i)) = Ok(l[i + 1])
         /\ ~(i < Len(l)) => At(JList(l), Slot(i)) = Drift("out_of_range")
<1>1. At(JList(l), Slot(i)) = Step(Ok(JList(l)), JNum(i))
  BY PathOne DEF Slot
<1>2. QED
  BY <1>1, Descents

-----------------------------------------------------------------------------
(* Bodies *)

\* A header is followed by a payload, and the line after it is no header.
LEMMA LastAwaits ==
  ASSUME NEW b, Len(b) \in Nat \ {0}, ~Is("count", b[Len(b)])
  PROVE  ~Awaits(b)[Len(b)]
<1> DEFINE n == Len(b)
           Reads(h, m) == h = [i \in 0..m |-> i > 0 /\ Is("count", b[i]) /\ ~h[i - 1]]
           Bad == {m \in Nat : ~ \E h : Reads(h, m)}
<1>1. \E h : Reads(h, n)
  <2> SUFFICES ASSUME Bad # {} PROVE FALSE
    OBVIOUS
  <2>1. PICK m \in Bad : \A k \in Bad : m <= k
    BY LeastNat
  <2>2. m # 0
    <3> DEFINE h == [i \in 0..0 |-> FALSE]
    <3>1. \A i \in 0..0 : (i > 0 /\ Is("count", b[i]) /\ ~h[i - 1]) = FALSE
      OBVIOUS
    <3> HIDE DEF h
    <3>2. h = [i \in 0..0 |-> i > 0 /\ Is("count", b[i]) /\ ~h[i - 1]]
      BY <3>1 DEF h
    <3>3. QED
      BY <3>2
  <2>3. m - 1 \in Nat /\ m - 1 \notin Bad
    BY <2>1, <2>2
  <2>4. PICK h : Reads(h, m - 1)
    BY <2>3
  <2> DEFINE g == [i \in 0..m |-> IF i = m THEN Is("count", b[m]) /\ ~h[m - 1] ELSE h[i]]
  <2>5. \A i \in 0..(m - 1) : h[i] = (i > 0 /\ Is("count", b[i]) /\ ~h[i - 1])
    BY <2>4
  <2>6. ASSUME NEW i \in 0..m PROVE g[i] = (i > 0 /\ Is("count", b[i]) /\ ~g[i - 1])
    BY <2>2, <2>3, <2>5
  <2>7. Reads(g, m)
    BY <2>6
  <2>8. QED
    BY <2>1, <2>7
<1>2. Awaits(b) = CHOOSE h : Reads(h, n)
  BY DEF Awaits
<1>3. Reads(Awaits(b), n)
  BY <1>1, <1>2
<1>4. Awaits(b)[n] = (n > 0 /\ Is("count", b[n]) /\ ~Awaits(b)[n - 1])
  BY <1>3
<1>5. QED
  BY <1>4

\* The lines of a body, each of one kind.
Lines(b) ==
  /\ Len(b) \in Nat /\ DOMAIN b = 1..Len(b)
  /\ \A i \in DOMAIN b : Is("json", b[i]) => DOMAIN b[i] = {"json"}

\* Whatever precedes it, a line that is a payload is read as one, and no other is.
LEMMA PayloadsAreRead ==
  ASSUME NEW b, Lines(b)
  PROVE  ParseChunked(b).chunks = [i \in DOMAIN b |-> IF ValidPayload(b[i]) THEN b[i].json.list ELSE <<>>]
<1> DEFINE awaits == Awaits(b)
           records  == {i \in DOMAIN b : ~awaits[i - 1] /\ ~Is("blank", b[i])}
           payloads == {i \in DOMAIN b : awaits[i - 1] \/ (i \in records /\ ~Is("count", b[i]))}
<1>1. \A i \in DOMAIN b : ValidPayload(b[i]) => i \in payloads
  BY DEF Lines, ValidPayload, Is
<1>2. ParseChunked(b).chunks = [i \in DOMAIN b |-> IF i \in payloads /\ ValidPayload(b[i])
                                                   THEN b[i].json.list ELSE <<>>]
  BY DEF ParseChunked
<1>3. QED
  BY <1>1, <1>2

\* A body of fewer than ten lines is never malformed, unless a header ends it.
LEMMA ShortBodiesAreRead ==
  ASSUME NEW b, Lines(b), Len(b) \in 1..9, Is("json", b[Len(b)])
  PROVE  ~ParseChunked(b).failed
<1> DEFINE awaits == Awaits(b)
           records  == {i \in DOMAIN b : ~awaits[i - 1] /\ ~Is("blank", b[i])}
           payloads == {i \in DOMAIN b : awaits[i - 1] \/ (i \in records /\ ~Is("count", b[i]))}
           bad      == {i \in payloads : ~ValidPayload(b[i])}
           Until(S, i) == Cardinality(S \cap 1..i)
<1>1. ~awaits[Len(b)]
  <2>1. ~Is("count", b[Len(b)]) /\ Len(b) \in Nat \ {0}
    BY DEF Lines, Is
  <2>2. QED
    BY <2>1, LastAwaits
<1>2. ASSUME NEW i \in bad PROVE ~Exceeded(Until(records, i), Until(bad, i))
  <2>1. IsFiniteSet(1..9) /\ Cardinality(1..9) = 9
    <3>1. 1 \in Int /\ 9 \in Int /\ ~(1 > 9) /\ 9 - 1 + 1 = 9
      OBVIOUS
    <3>2. QED
      BY <3>1, FS_Interval
  <2>2. records \cap 1..i \subseteq 1..9
    BY DEF Lines
  <2>3. Until(records, i) <= 9 /\ Until(records, i) \in Nat
    BY <2>1, <2>2, FS_Subset, FS_CardinalityType
  <2>4. QED
    BY <2>3 DEF Exceeded
<1>3. ParseChunked(b).failed = (awaits[Len(b)] \/ \E i \in bad : Exceeded(Until(records, i), Until(bad, i)))
  BY DEF ParseChunked
<1>4. QED
  BY <1>1, <1>2, <1>3

\* What is read of frames is read once.
LEMMA Taken ==
  ASSUME NEW b, NEW id, NEW allow, ~ParseChunked(b).failed
  PROVE  LET frames == FramesOf(ParseChunked(b).chunks)
         IN /\ ExtractResult(b, id) = Picked(LastPlace, frames, Results(frames, id))
            /\ DecodeResponse(b, id, allow) =
                 IF Is("panic", Scan(frames, id)) THEN [err |-> "panic"]
                 ELSE Classify(Scan(frames, id), CollectRPCIDs(frames), id, allow)
BY DEF ExtractResult, DecodeResponse, OfFrames, Once

-----------------------------------------------------------------------------
(* Frames *)

\* A frame among frames of another rpc.
Alone(frames, frame) ==
  /\ DOMAIN frames \subseteq Nat \X Nat
  /\ \E p \in DOMAIN frames :
       /\ frames[p] = frame
       /\ \A q \in DOMAIN frames \ {p} : frames[q] = Stranger

\* The same, with poorer results of the rpc before it and nulls anywhere.
Foremost(frames, rpc, frame) ==
  /\ DOMAIN frames \subseteq Nat \X Nat
  /\ \E p \in DOMAIN frames :
       /\ frames[p] = frame
       /\ \A q \in DOMAIN frames \ {p} :
            \/ frames[q] = Stranger
            \/ frames[q] = Result(rpc, JList(<<>>)) /\ Before(q, p)
            \/ frames[q] = Frame(rpc, Null, Null)

\* The places of frames are pairs of numbers.
LEMMA Placing ==
  ASSUME NEW chunks
  PROVE  /\ DOMAIN FramesOf(chunks) = Places(chunks)
         /\ \A i \in DOMAIN chunks : \A j \in DOMAIN chunks[i] :
              /\ <<i, j>> \in DOMAIN FramesOf(chunks)
              /\ FramesOf(chunks)[<<i, j>>] = chunks[i][j]
         /\ \A p \in DOMAIN FramesOf(chunks) :
              \E i \in DOMAIN chunks : \E j \in DOMAIN chunks[i] : p = <<i, j>>
<1>1. DOMAIN FramesOf(chunks) = Places(chunks)
  BY DEF FramesOf
<1>2. ASSUME NEW i \in DOMAIN chunks, NEW j \in DOMAIN chunks[i]
      PROVE  <<i, j>> \in Places(chunks) /\ FramesOf(chunks)[<<i, j>>] = chunks[i][j]
  <2>1. <<i, j>> \in Places(chunks)
    BY DEF Places
  <2>2. QED
    BY <2>1 DEF FramesOf
<1>3. \A p \in Places(chunks) : \E i \in DOMAIN chunks : \E j \in DOMAIN chunks[i] : p = <<i, j>>
  BY DEF Places
<1>4. QED
  BY <1>1, <1>2, <1>3

\* A chunk is a line with a payload.
LEMMA ChunkLines ==
  ASSUME NEW fs, \A i \in DOMAIN fs : Is("list", fs[i])
  PROVE  ValidPayload(Chunk(fs)) /\ Chunk(fs).json.list = fs /\ DOMAIN Chunk(fs) = {"json"}
<1>1. DOMAIN Chunk(fs) = {"json"} /\ Chunk(fs).json = JList(fs)
  BY DEF Chunk, Line
<1>2. QED
  BY <1>1, Kinds DEF ValidPayload, Is

\* The lines of a body that are no JSON are no payload either.
LEMMA OtherLines ==
  ASSUME NEW n
  PROVE  \A l \in {Garbage, Blank, Header(n)} : ~Is("json", l) /\ ~ValidPayload(l)
<1>1. DOMAIN Garbage = {"garbage"} /\ DOMAIN Blank = {"blank"} /\ DOMAIN Header(n) = {"count"}
  BY DEF Garbage, Blank, Header
<1>2. QED
  BY <1>1 DEF ValidPayload, Is

\* The payloads of a body, line by line.
LEMMA ChunksAreRead ==
  ASSUME NEW b, Lines(b), NEW i \in DOMAIN b
  PROVE  /\ DOMAIN ParseChunked(b).chunks = DOMAIN b
         /\ \A fs : ValidPayload(b[i]) /\ b[i].json.list = fs => ParseChunked(b).chunks[i] = fs
         /\ ~ValidPayload(b[i]) => ParseChunked(b).chunks[i] = <<>>
BY PayloadsAreRead

\* Among strangers only, a frame is the one of its rpc.
LEMMA StandsAlone ==
  ASSUME NEW chunks, NEW frame, NEW i \in DOMAIN chunks, NEW j \in DOMAIN chunks[i], chunks[i][j] = frame,
         \A k \in DOMAIN chunks : k \in Nat /\ \A l \in DOMAIN chunks[k] : l \in Nat,
         \A k \in DOMAIN chunks : \A l \in DOMAIN chunks[k] : (k = i /\ l = j) \/ chunks[k][l] = Stranger
  PROVE  Alone(FramesOf(chunks), frame)
<1> DEFINE frames == FramesOf(chunks)
<1>1. <<i, j>> \in DOMAIN frames /\ frames[<<i, j>>] = frame
  BY Placing
<1>2. ASSUME NEW q \in DOMAIN frames \ {<<i, j>>} PROVE frames[q] = Stranger
  <2>1. PICK k \in DOMAIN chunks : \E l \in DOMAIN chunks[k] : q = <<k, l>>
    BY Placing
  <2>2. PICK l \in DOMAIN chunks[k] : q = <<k, l>>
    BY <2>1
  <2>3. frames[q] = chunks[k][l] /\ ~(k = i /\ l = j)
    BY <2>2, Placing
  <2>4. QED
    BY <2>3
<1>3. ASSUME NEW q \in DOMAIN frames PROVE q \in Nat \X Nat
  <2>1. PICK k \in DOMAIN chunks : \E l \in DOMAIN chunks[k] : q = <<k, l>>
    BY Placing
  <2>2. QED
    BY <2>1
<1>4. QED
  BY <1>1, <1>2, <1>3 DEF Alone

\* However it is framed, a frame stands alone.
LEMMA FramingsAreRead ==
  ASSUME NEW frame, Is("list", frame), NEW b \in Framings(frame)
  PROVE  Lines(b) /\ ~ParseChunked(b).failed /\ Alone(FramesOf(ParseChunked(b).chunks), frame)
<1> DEFINE chunks == ParseChunked(b).chunks
<1>s. Is("list", Stranger)
  BY Kinds DEF Stranger, Result, Frame, Is
<1>f. /\ ValidPayload(Chunk(<<frame>>)) /\ Chunk(<<frame>>).json.list = <<frame>>
      /\ DOMAIN Chunk(<<frame>>) = {"json"} /\ Is("json", Chunk(<<frame>>))
  BY ChunkLines DEF Is
<1>r. Lines(b) /\ Len(b) \in 1..9 /\ Is("json", b[Len(b)]) => ~ParseChunked(b).failed
  BY ShortBodiesAreRead
<1>1. CASE b = <<Chunk(<<frame>>)>>
  <2>1. Lines(b) /\ Len(b) \in 1..9 /\ Is("json", b[Len(b)]) /\ DOMAIN b = {1} /\ b[1] = Chunk(<<frame>>)
    BY <1>1, <1>f DEF Lines
  <2>2. DOMAIN chunks = {1} /\ chunks[1] = <<frame>>
    BY <2>1, <1>f, ChunksAreRead
  <2>3. Alone(FramesOf(chunks), frame)
    <3>1. 1 \in DOMAIN chunks /\ DOMAIN chunks[1] = {1} /\ chunks[1][1] = frame
      BY <2>2
    <3>2. \A k \in DOMAIN chunks : k \in Nat /\ \A l \in DOMAIN chunks[k] : l \in Nat
      BY <2>2, <3>1
    <3>3. QED
      BY <2>2, <3>1, <3>2, StandsAlone
  <2>4. QED
    BY <2>1, <2>3, <1>r
<1>2. CASE b = <<Garbage, Blank, Header(1), Chunk(<<frame>>)>>
  <2>1. /\ Len(b) = 4 /\ DOMAIN b = {1, 2, 3, 4}
        /\ b[1] = Garbage /\ b[2] = Blank /\ b[3] = Header(1) /\ b[4] = Chunk(<<frame>>)
    BY <1>2
  <2>2. \A i \in {1, 2, 3} : ~Is("json", b[i]) /\ ~ValidPayload(b[i])
    BY <2>1, OtherLines
  <2>3. Lines(b) /\ Len(b) \in 1..9 /\ Is("json", b[Len(b)])
    BY <1>f, <2>1, <2>2 DEF Lines
  <2>4. DOMAIN chunks = {1, 2, 3, 4}
    BY <2>1, <2>3, ChunksAreRead
  <2>5. chunks[4] = <<frame>> /\ \A i \in {1, 2, 3} : chunks[i] = <<>>
    BY <1>f, <2>1, <2>2, <2>3, ChunksAreRead
  <2>6. Alone(FramesOf(chunks), frame)
    <3>1. 4 \in DOMAIN chunks /\ DOMAIN chunks[4] = {1} /\ chunks[4][1] = frame
      BY <2>4, <2>5
    <3>2. \A k \in DOMAIN chunks : \A l \in DOMAIN chunks[k] : k = 4 /\ l = 1
      BY <2>4, <2>5
    <3>3. \A k \in DOMAIN chunks : k \in Nat /\ \A l \in DOMAIN chunks[k] : l \in Nat
      BY <2>4, <3>2
    <3>4. QED
      BY <3>1, <3>2, <3>3, StandsAlone
  <2>7. QED
    BY <2>3, <2>6, <1>r
<1>3. CASE b = <<Chunk(<<Stranger, frame>>), Chunk(<<Stranger>>)>>
  <2>1. /\ ValidPayload(Chunk(<<Stranger, frame>>)) /\ Chunk(<<Stranger, frame>>).json.list = <<Stranger, frame>>
        /\ DOMAIN Chunk(<<Stranger, frame>>) = {"json"}
    <3>1. \A i \in DOMAIN <<Stranger, frame>> : Is("list", <<Stranger, frame>>[i])
      BY <1>s
    <3>2. QED
      BY <3>1, ChunkLines
  <2>2. /\ ValidPayload(Chunk(<<Stranger>>)) /\ Chunk(<<Stranger>>).json.list = <<Stranger>>
        /\ DOMAIN Chunk(<<Stranger>>) = {"json"} /\ Is("json", Chunk(<<Stranger>>))
    BY <1>s, ChunkLines DEF Is
  <2>3. /\ Len(b) = 2 /\ DOMAIN b = {1, 2}
        /\ b[1] = Chunk(<<Stranger, frame>>) /\ b[2] = Chunk(<<Stranger>>)
    BY <1>3
  <2>4. Lines(b) /\ Len(b) \in 1..9 /\ Is("json", b[Len(b)])
    BY <2>1, <2>2, <2>3 DEF Lines
  <2>5. DOMAIN chunks = {1, 2} /\ chunks[1] = <<Stranger, frame>> /\ chunks[2] = <<Stranger>>
    BY <2>1, <2>2, <2>3, <2>4, ChunksAreRead
  <2>6. Alone(FramesOf(chunks), frame)
    <3>1. /\ 1 \in DOMAIN chunks /\ DOMAIN chunks[1] = {1, 2} /\ chunks[1][2] = frame /\ chunks[1][1] = Stranger
          /\ DOMAIN chunks[2] = {1} /\ chunks[2][1] = Stranger
      BY <2>5
    <3>2. \A k \in DOMAIN chunks : \A l \in DOMAIN chunks[k] : (k = 1 /\ l = 2) \/ chunks[k][l] = Stranger
      BY <2>5, <3>1
    <3>3. \A k \in DOMAIN chunks : k \in Nat /\ \A l \in DOMAIN chunks[k] : l \in Nat
      BY <2>5, <3>1
    <3>4. QED
      BY <3>1, <3>2, <3>3, StandsAlone
  <2>7. QED
    BY <2>4, <2>6, <1>r
<1>4. QED
  BY <1>1, <1>2, <1>3 DEF Framings

\* A result after an empty one and before a null.
LEMMA SandwichesAreRead ==
  ASSUME NEW rpc, NEW frame, Is("list", frame), NEW b,
         b = <<Chunk(<<Result(rpc, JList(<<>>))>>), Chunk(<<frame>>), Chunk(<<Frame(rpc, Null, Null)>>)>>
  PROVE  Lines(b) /\ ~ParseChunked(b).failed /\ Foremost(FramesOf(ParseChunked(b).chunks), rpc, frame)
<1> DEFINE chunks == ParseChunked(b).chunks
           poor   == Result(rpc, JList(<<>>))
           null   == Frame(rpc, Null, Null)
           frames == FramesOf(chunks)
<1>1. Is("list", poor) /\ Is("list", null)
  BY Kinds DEF Result, Frame, Is
<1> HIDE DEF poor, null
<1>2. \A f \in {poor, frame, null} : ValidPayload(Chunk(<<f>>)) /\ Chunk(<<f>>).json.list = <<f>>
                                    /\ DOMAIN Chunk(<<f>>) = {"json"}
  BY <1>1, ChunkLines
<1>3. /\ Len(b) = 3 /\ DOMAIN b = {1, 2, 3}
      /\ b[1] = Chunk(<<poor>>) /\ b[2] = Chunk(<<frame>>) /\ b[3] = Chunk(<<null>>)
  BY DEF poor, null
<1>4. Lines(b) /\ Len(b) \in 1..9 /\ Is("json", b[Len(b)])
  BY <1>2, <1>3 DEF Lines, Is
<1>5. DOMAIN chunks = {1, 2, 3} /\ chunks[1] = <<poor>> /\ chunks[2] = <<frame>> /\ chunks[3] = <<null>>
  <2>1. DOMAIN chunks = {1, 2, 3}
    BY <1>3, <1>4, ChunksAreRead
  <2>2. chunks[1] = <<poor>>
    BY <1>2, <1>3, <1>4, ChunksAreRead
  <2>3. chunks[2] = <<frame>>
    BY <1>2, <1>3, <1>4, ChunksAreRead
  <2>4. chunks[3] = <<null>>
    BY <1>2, <1>3, <1>4, ChunksAreRead
  <2>5. QED
    BY <2>1, <2>2, <2>3, <2>4
<1> HIDE DEF chunks
<1>6. /\ <<1, 1>> \in DOMAIN frames /\ frames[<<1, 1>>] = poor
      /\ <<2, 1>> \in DOMAIN frames /\ frames[<<2, 1>>] = frame
      /\ <<3, 1>> \in DOMAIN frames /\ frames[<<3, 1>>] = null
  BY <1>5, Placing
<1>7. ASSUME NEW q \in DOMAIN frames PROVE q \in {<<1, 1>>, <<2, 1>>, <<3, 1>>}
  <2>1. PICK k \in DOMAIN chunks : \E l \in DOMAIN chunks[k] : q = <<k, l>>
    BY Placing
  <2>2. PICK l \in DOMAIN chunks[k] : q = <<k, l>>
    BY <2>1
  <2>3. QED
    BY <2>2, <1>5
<1>8. Before(<<1, 1>>, <<2, 1>>)
  BY DEF Before
<1>9. Foremost(frames, rpc, frame)
  <2>1. \A q \in DOMAIN frames : q \in Nat \X Nat
    BY <1>7
  <2>2. QED
    BY <2>1, <1>6, <1>7, <1>8 DEF Foremost, poor, null
<1>10. QED
  BY <1>4, <1>9, ShortBodiesAreRead DEF chunks

\* What a frame of batchexecute says in its slots.
LEMMA FrameFields ==
  ASSUME NEW rpc, NEW slot, NEW status
  PROVE  /\ Is("list", Frame(rpc, slot, status))
         /\ Len(Frame(rpc, slot, status).list) = 6
         /\ Frame(rpc, slot, status).list[3] = slot
         /\ Field(Frame(rpc, slot, status), 0) = "wrb.fr"
         /\ Field(Frame(rpc, slot, status), 1) = rpc
         /\ At(Frame(rpc, slot, status), Slot(5)) = Ok(status)
<1> DEFINE l == <<JStr("wrb.fr"), JStr(rpc), slot, Null, Null, status>>
           f == Frame(rpc, slot, status)
<1>1. f = JList(l) /\ Is("list", f) /\ f.list = l
  BY Kinds DEF Frame, Is
<1>2. Len(l) = 6 /\ l[1] = JStr("wrb.fr") /\ l[2] = JStr(rpc) /\ l[3] = slot /\ l[6] = status
  OBVIOUS
<1> HIDE DEF l, f
<1>3. At(f, Slot(0)) = Ok(JStr("wrb.fr")) /\ At(f, Slot(1)) = Ok(JStr(rpc)) /\ At(f, Slot(5)) = Ok(status)
  <2>1. At(JList(l), Slot(0)) = Ok(l[0 + 1]) /\ At(JList(l), Slot(1)) = Ok(l[1 + 1])
        /\ At(JList(l), Slot(5)) = Ok(l[5 + 1])
    <3>1. 0 \in Nat /\ 1 \in Nat /\ 5 \in Nat /\ 0 < Len(l) /\ 1 < Len(l) /\ 5 < Len(l)
      BY <1>2
    <3>2. QED
      BY <3>1, Slots
  <2>2. QED
    BY <1>1, <1>2, <2>1
<1>4. Field(f, 0) = "wrb.fr" /\ Field(f, 1) = rpc
  BY <1>3, StrReads DEF Field
<1>5. QED
  BY <1>1, <1>2, <1>3, <1>4 DEF f

\* A frame answers its own rpc, and names it.
LEMMA FrameAnswers ==
  ASSUME NEW rpc, NEW slot, NEW status, NEW id
  PROVE  /\ IsAnswer(Frame(rpc, slot, status), id) <=> rpc = id
         /\ rpc # "" => Names(Frame(rpc, slot, status))
<1> DEFINE f == Frame(rpc, slot, status)
<1>1. Len(f.list) = 6 /\ Field(f, 0) = "wrb.fr" /\ Field(f, 1) = rpc
  BY FrameFields
<1> HIDE DEF f
<1>2. IsAnswer(f, id) <=> rpc = id
  BY <1>1 DEF IsAnswer
<1>3. Len(f.list) >= 2
  BY <1>1
<1>4. rpc # "" => Names(f)
  BY <1>1, <1>3, Zenon DEF Names
<1>5. QED
  BY <1>2, <1>4 DEF f

\* A result frame has a result for its rpc, and it is the encoded answer.
LEMMA ResultFacts ==
  ASSUME NEW rpc, NEW a, Is("list", a), a = JList(a.list)
  PROVE  LET f == Result(rpc, a)
         IN /\ f = Frame(rpc, JText(a), Null) /\ Is("list", f) /\ Len(f.list) = 6
            /\ HasResult(f, rpc) /\ ResultOf(f) = a /\ ~NoValue(f) /\ ValueOf(f) = a
<1>1. a # Null
  BY Kinds DEF Is
<1>2. Result(rpc, a) = Frame(rpc, JText(a), Null)
  BY <1>1 DEF Result
<1> DEFINE f == Frame(rpc, JText(a), Null)
<1>3. Is("list", f) /\ Len(f.list) = 6 /\ f.list[3] = JText(a)
  BY FrameFields
<1>a. IsAnswer(f, rpc)
  BY FrameAnswers
<1> HIDE DEF f
<1>4. Is("text", JText(a)) /\ ~Is("str", JText(a)) /\ ~Is("null", JText(a)) /\ JText(a).text = a
  BY Kinds DEF Is
<1>5. ~Is("null", a)
  BY Kinds DEF Is
<1>6. IsText(JText(a)) /\ ~IsNullish(JText(a)) /\ Content(JText(a)) = a
  BY <1>4, <1>5 DEF IsText, IsNullish, Content
<1>7. HasResult(f, rpc) /\ ResultOf(f) = a
  BY <1>3, <1>a, <1>6 DEF HasResult, ResultOf
<1>8. ~NoValue(f) /\ ValueOf(f) = a
  BY <1>3, <1>4, <1>6 DEF NoValue, ValueOf
<1>9. QED
  BY <1>2, <1>3, <1>7, <1>8 DEF f

\* A null says something only by its status.
LEMMA NullFacts ==
  ASSUME NEW rpc, NEW status, NEW n
  PROVE  LET f == Frame(rpc, Null, status)
         IN /\ Is("list", f) /\ Len(f.list) = 6 /\ ~HasResult(f, rpc) /\ NoValue(f)
            /\ status = Null => ~HasStatus(f)
            /\ status = JList(<<JNum(n)>>) => HasStatus(f) /\ Captured(f)[1] = <<JNum(n)>>
<1> DEFINE f == Frame(rpc, Null, status)
<1>1. Is("list", f) /\ Len(f.list) = 6 /\ f.list[3] = Null /\ At(f, Slot(5)) = Ok(status)
  BY FrameFields
<1> HIDE DEF f
<1>2. Is("null", Null) /\ ~Is("text", Null) /\ ~Is("str", Null) /\ ~Is("list", Null)
  BY Kinds DEF Is
<1>3. ~HasResult(f, rpc) /\ NoValue(f)
  BY <1>1, <1>2 DEF HasResult, NoValue, IsText
<1>4. Found(At(f, Slot(5))) /\ At(f, Slot(5)).ok = status
  BY <1>1, Founds, Kinds
<1>5. ASSUME status = Null PROVE ~HasStatus(f)
  <2>1. Captured(f) = <<>>
    BY <1>2, <1>4, <1>5 DEF Captured, OrElse
  <2>2. QED
    BY <2>1 DEF HasStatus
<1>6. ASSUME status = JList(<<JNum(n)>>) PROVE HasStatus(f) /\ Captured(f)[1] = <<JNum(n)>>
  <2>1. ~Is("text", status) /\ Is("list", status) /\ status.list = <<JNum(n)>>
    BY <1>6, Kinds DEF Is
  <2>2. Captured(f) = << <<JNum(n)>> >>
    BY <1>4, <2>1 DEF Captured, OrElse
  <2>3. QED
    BY <1>3, <2>2 DEF HasStatus
<1>7. QED
  BY <1>1, <1>3, <1>5, <1>6 DEF f

\* The frame of another rpc answers none of the client's.
LEMMA StrangerFacts ==
  ASSUME NEW rpc, rpc # "Other"
  PROVE  ~IsAnswer(Stranger, rpc) /\ ~HasResult(Stranger, rpc) /\ Len(Stranger.list) = 6
<1>1. Stranger = Frame("Other", JText(JList(<<JList(<<>>)>>)), Null)
  <2>1. Is("list", JList(<<JList(<<>>)>>)) /\ JList(<<JList(<<>>)>>) = JList(JList(<<JList(<<>>)>>).list)
    BY Kinds DEF Is
  <2>2. QED
    BY <2>1, ResultFacts DEF Stranger
<1>2. Len(Stranger.list) = 6
  BY <1>1, FrameFields
<1>3. ~IsAnswer(Stranger, rpc)
  BY <1>1, FrameAnswers
<1>4. QED
  BY <1>2, <1>3 DEF HasResult

\* The last of places that all go before one of them is that one.
LEMMA LastIsLast ==
  ASSUME NEW S, S \subseteq Nat \X Nat, NEW p \in S, \A q \in S : q = p \/ Before(q, p)
  PROVE  LastPlace(S) = p
<1>1. ASSUME NEW r \in S, \A q \in S : q = r \/ Before(q, r)
      PROVE  r = p
  <2>1. p = r \/ Before(p, r)
    BY <1>1
  <2>2. r = p \/ Before(r, p)
    OBVIOUS
  <2>3. ~(Before(p, r) /\ Before(r, p))
    BY DEF Before
  <2>4. QED
    BY <2>1, <2>2, <2>3
<1>2. QED
  BY <1>1 DEF LastPlace

\* Alone, a frame is both the first and the last of its rpc.
LEMMA AloneIsForemost ==
  ASSUME NEW frames, NEW rpc, NEW frame, Alone(frames, frame) PROVE Foremost(frames, rpc, frame)
BY DEF Alone, Foremost

\* The ids of rpcs that a body may be asked for.
Method(rpc) == rpc \notin {"", "Other"}

\* The foremost result is the one that is extracted, and the one that is decoded.
LEMMA ForemostIsRead ==
  ASSUME NEW frames, NEW rpc, Method(rpc), NEW a, Is("list", a), a = JList(a.list),
         Foremost(frames, rpc, Result(rpc, a))
  PROVE  /\ Picked(LastPlace, frames, Results(frames, rpc)) = [val |-> a]
         /\ Scan(frames, rpc) = [raw |-> <<a>>, status |-> <<>>]
         /\ rpc \in CollectRPCIDs(frames)
<1> DEFINE poor == JList(<<>>)
           null == Frame(rpc, Null, Null)
<1>1. PICK p \in DOMAIN frames :
        /\ frames[p] = Result(rpc, a)
        /\ \A q \in DOMAIN frames \ {p} :
             \/ frames[q] = Stranger
             \/ frames[q] = Result(rpc, poor) /\ Before(q, p)
             \/ frames[q] = null
  BY DEF Foremost
<1>2. DOMAIN frames \subseteq Nat \X Nat
  BY DEF Foremost
<1>3. Is("list", poor) /\ poor = JList(poor.list)
  BY Kinds DEF Is
<1>4. /\ Len(frames[p].list) = 6 /\ HasResult(frames[p], rpc) /\ ResultOf(frames[p]) = a
      /\ ~NoValue(frames[p]) /\ ValueOf(frames[p]) = a
  BY <1>1, ResultFacts
<1>5. IsAnswer(frames[p], rpc) /\ Names(frames[p]) /\ Field(frames[p], 1) = rpc
  <2>1. frames[p] = Frame(rpc, JText(a), Null)
    BY <1>1, ResultFacts
  <2>2. rpc # ""
    BY DEF Method
  <2>3. IsAnswer(Frame(rpc, JText(a), Null), rpc)
    BY FrameAnswers
  <2>4. Names(Frame(rpc, JText(a), Null))
    BY <2>2, FrameAnswers
  <2>5. Field(Frame(rpc, JText(a), Null), 1) = rpc
    BY FrameFields
  <2>6. QED
    BY <2>1, <2>3, <2>4, <2>5
<1>6. ASSUME NEW q \in DOMAIN frames \ {p}
      PROVE  /\ IsAnswer(frames[q], rpc) => Len(frames[q].list) = 6
             /\ HasResult(frames[q], rpc) => Before(q, p)
             /\ IsAnswer(frames[q], rpc) /\ ~NoValue(frames[q]) => Before(q, p)
             /\ IsAnswer(frames[q], rpc) => ~HasStatus(frames[q])
  <2>1. CASE frames[q] = Stranger
    BY <2>1, StrangerFacts DEF Method
  <2>2. CASE frames[q] = Result(rpc, poor) /\ Before(q, p)
    BY <2>2, <1>3, ResultFacts DEF HasStatus
  <2>3. CASE frames[q] = null
    BY <2>3, NullFacts
  <2>4. QED
    BY <1>1, <2>1, <2>2, <2>3
<1>7. Picked(LastPlace, frames, Results(frames, rpc)) = [val |-> a]
  <2> DEFINE S == Results(frames, rpc)
  <2>1. p \in S /\ S \subseteq DOMAIN frames /\ \A q \in S : q = p \/ Before(q, p)
    BY <1>4, <1>6 DEF Results
  <2>2. LastPlace(S) = p
    BY <1>2, <2>1, LastIsLast
  <2>3. QED
    BY <1>4, <2>1, <2>2 DEF Picked
<1>8. Scan(frames, rpc) = [raw |-> <<a>>, status |-> <<>>]
  <2> DEFINE mine   == {q \in DOMAIN frames : IsAnswer(frames[q], rpc)}
             values == {q \in mine : ~NoValue(frames[q])}
             nulls  == {q \in mine : HasStatus(frames[q])}
  <2>1. p \in values /\ values \subseteq DOMAIN frames /\ \A q \in values : q = p \/ Before(q, p)
    BY <1>4, <1>5, <1>6
  <2>2. LastPlace(values) = p
    BY <1>2, <2>1, LastIsLast
  <2>3. nulls = {}
    BY <1>4, <1>6 DEF HasStatus
  <2>4. ~ \E q \in mine : Len(frames[q].list) < 3
    <3>1. ASSUME NEW q \in mine PROVE Len(frames[q].list) = 6
      BY <1>4, <1>6
    <3>2. ~(6 < 3)
      OBVIOUS
    <3>3. QED
      BY <3>1, <3>2, Zenon
  <2>5. values # {} /\ ValueOf(frames[LastPlace(values)]) = a
    BY <1>4, <2>1, <2>2
  <2>6. QED
    BY <2>3, <2>4, <2>5 DEF Scan
<1>9. rpc \in CollectRPCIDs(frames)
  BY <1>5 DEF CollectRPCIDs, ToSet
<1>10. QED
  BY <1>7, <1>8, <1>9

\* A null among strangers is no result; its status is what is scanned.
LEMMA NullIsRead ==
  ASSUME NEW frames, NEW rpc, Method(rpc), NEW status, NEW n, status \in {Null, JList(<<JNum(n)>>)},
         Alone(frames, Frame(rpc, Null, status))
  PROVE  /\ Picked(LastPlace, frames, Results(frames, rpc)) = [err |-> "decoding"]
         /\ Scan(frames, rpc) = [raw |-> <<>>, status |-> IF status = Null THEN <<>> ELSE <<JNum(n)>>]
         /\ rpc \in CollectRPCIDs(frames)
<1>1. PICK p \in DOMAIN frames :
        /\ frames[p] = Frame(rpc, Null, status)
        /\ \A q \in DOMAIN frames \ {p} : frames[q] = Stranger
  BY DEF Alone
<1>2. DOMAIN frames \subseteq Nat \X Nat
  BY DEF Alone
<1>3. /\ Len(frames[p].list) = 6 /\ ~HasResult(frames[p], rpc) /\ NoValue(frames[p])
      /\ status = Null => ~HasStatus(frames[p])
      /\ status = JList(<<JNum(n)>>) => HasStatus(frames[p]) /\ Captured(frames[p])[1] = <<JNum(n)>>
  BY <1>1, NullFacts
<1>4. IsAnswer(frames[p], rpc) /\ Names(frames[p]) /\ Field(frames[p], 1) = rpc
  <2>1. rpc # ""
    BY DEF Method
  <2>2. IsAnswer(Frame(rpc, Null, status), rpc)
    BY FrameAnswers
  <2>3. Names(Frame(rpc, Null, status))
    BY <2>1, FrameAnswers
  <2>4. Field(Frame(rpc, Null, status), 1) = rpc
    BY FrameFields
  <2>5. QED
    BY <1>1, <2>2, <2>3, <2>4
<1>5. \A q \in DOMAIN frames \ {p} : ~IsAnswer(frames[q], rpc) /\ ~HasResult(frames[q], rpc)
  BY <1>1, StrangerFacts DEF Method
<1>6. Picked(LastPlace, frames, Results(frames, rpc)) = [err |-> "decoding"]
  <2>1. Results(frames, rpc) = {}
    BY <1>3, <1>5 DEF Results
  <2>2. QED
    BY <2>1 DEF Picked
<1>7. Scan(frames, rpc) = [raw |-> <<>>, status |-> IF status = Null THEN <<>> ELSE <<JNum(n)>>]
  <2> DEFINE mine   == {q \in DOMAIN frames : IsAnswer(frames[q], rpc)}
             values == {q \in mine : ~NoValue(frames[q])}
             nulls  == {q \in mine : HasStatus(frames[q])}
  <2>1. mine = {p}
    BY <1>4, <1>5
  <2>2. values = {} /\ ~ \E q \in mine : Len(frames[q].list) < 3
    BY <1>3, <2>1
  <2>3. CASE status = Null
    <3>1. nulls = {}
      BY <1>3, <2>1, <2>3
    <3>2. QED
      BY <2>2, <2>3, <3>1 DEF Scan
  <2>4. CASE status = JList(<<JNum(n)>>)
    <3>1. status # Null
      BY <2>4, Kinds
    <3>2. nulls = {p}
      BY <1>3, <2>1, <2>4
    <3>3. LastPlace(nulls) = p
      BY <1>2, <3>2, LastIsLast
    <3>4. QED
      BY <1>3, <2>2, <2>4, <3>1, <3>2, <3>3 DEF Scan
  <2>5. QED
    BY <2>3, <2>4
<1>8. rpc \in CollectRPCIDs(frames)
  BY <1>4 DEF CollectRPCIDs, ToSet
<1>9. QED
  BY <1>6, <1>7, <1>8

-----------------------------------------------------------------------------
(* What a body says *)

\* A status that is no success.
LEMMA Statuses ==
  ASSUME NEW rpc, NEW named, rpc \in named, NEW n \in {5, 7}
  PROVE  Is("err", Classify([raw |-> <<>>, status |-> <<JNum(n)>>], named, rpc, FALSE))
<1> DEFINE st == [raw |-> <<>>, status |-> <<JNum(n)>>]
<1>1. st.raw = <<>> /\ st.status = <<JNum(n)>>
  OBVIOUS
<1>2. GrpcStatus(st.status) = n
  <2>1. Is("num", JNum(n)) /\ JNum(n).num = n
    BY Kinds DEF Is
  <2>2. <<JNum(n)>> # <<>> /\ <<JNum(n)>>[1] = JNum(n)
    OBVIOUS
  <2>3. QED
    BY <1>1, <2>1, <2>2 DEF GrpcStatus
<1> HIDE DEF st
<1>3. PICK reason : Classify(st, named, rpc, FALSE) = [err |-> reason]
  BY <1>1 DEF Classify
<1>4. DOMAIN [err |-> reason] = {"err"}
  OBVIOUS
<1>5. QED
  BY <1>3, <1>4 DEF st, Is

\* A body with a frame has a line that is not blank.
LEMMA FramedIsNotBlank ==
  ASSUME NEW b, Lines(b), NEW p \in DOMAIN FramesOf(ParseChunked(b).chunks)
  PROVE  \E i \in DOMAIN b : b[i] # Blank
<1> DEFINE chunks == ParseChunked(b).chunks
<1>1. PICK i \in DOMAIN chunks : \E j \in DOMAIN chunks[i] : p = <<i, j>>
  BY Placing
<1>2. i \in DOMAIN b
  BY PayloadsAreRead
<1>3. ValidPayload(b[i])
  <2>1. SUFFICES ASSUME ~ValidPayload(b[i]) PROVE FALSE
    OBVIOUS
  <2>2. chunks[i] = <<>>
    BY <1>2, <2>1, ChunksAreRead
  <2>3. QED
    BY <1>1, <2>2
<1>4. b[i] # Blank
  BY <1>3, OtherLines
<1>5. QED
  BY <1>2, <1>4

\* An answer of the server that is a list is read whole, whatever comes with it.
LEMMA AnswersAreRead ==
  ASSUME NEW rpc, Method(rpc), rpc # "GetConversationTurns", NEW allow,
         NEW a, Is("list", a), a = JList(a.list), NEW b \in Bodies(rpc, a)
  PROVE  /\ Lines(b) /\ \E i \in DOMAIN b : b[i] # Blank
         /\ ExtractResult(b, rpc) = [val |-> a]
         /\ DecodeResponse(b, rpc, allow) = [val |-> a]
<1> DEFINE frame  == Result(rpc, a)
           frames == FramesOf(ParseChunked(b).chunks)
<1>1. Is("list", frame)
  BY ResultFacts
<1>2. Lines(b) /\ ~ParseChunked(b).failed /\ Foremost(frames, rpc, frame)
  <2>1. CASE b \in Framings(frame)
    BY <1>1, <2>1, FramingsAreRead, AloneIsForemost
  <2>2. CASE b = <<Chunk(<<Result(rpc, JList(<<>>))>>), Chunk(<<frame>>), Chunk(<<Frame(rpc, Null, Null)>>)>>
    BY <1>1, <2>2, SandwichesAreRead
  <2>3. QED
    BY <2>1, <2>2 DEF Bodies
<1>3. /\ Picked(LastPlace, frames, Results(frames, rpc)) = [val |-> a]
      /\ Scan(frames, rpc) = [raw |-> <<a>>, status |-> <<>>]
      /\ rpc \in CollectRPCIDs(frames)
  BY <1>2, ForemostIsRead
<1>4. ExtractResult(b, rpc) = [val |-> a]
  BY <1>2, <1>3, Taken
<1>5. DecodeResponse(b, rpc, allow) = [val |-> a]
  <2>1. ~Is("panic", Scan(frames, rpc))
    BY <1>3 DEF Is
  <2>2. DecodeResponse(b, rpc, allow) = Classify(Scan(frames, rpc), CollectRPCIDs(frames), rpc, allow)
    BY <1>2, <2>1, Taken
  <2>3. Scan(frames, rpc).raw = <<a>> /\ <<a>> # <<>> /\ <<a>>[1] = a
    BY <1>3
  <2>4. QED
    BY <1>3, <2>2, <2>3 DEF Classify
<1>6. \E i \in DOMAIN b : b[i] # Blank
  BY <1>2, FramedIsNotBlank DEF Foremost
<1>7. QED
  BY <1>2, <1>4, <1>5, <1>6

\* The null of a mutation is no result; it is success only where it is allowed.
LEMMA NullsAreRead ==
  ASSUME NEW rpc, Method(rpc), NEW b \in Framings(Result(rpc, Null))
  PROVE  /\ Lines(b) /\ \E i \in DOMAIN b : b[i] # Blank
         /\ ExtractResult(b, rpc) = [err |-> "decoding"]
         /\ DecodeResponse(b, rpc, TRUE) = [val |-> Null]
         /\ Is("err", DecodeResponse(b, rpc, FALSE))
<1> DEFINE frame  == Frame(rpc, Null, Null)
           frames == FramesOf(ParseChunked(b).chunks)
           scan   == [raw |-> <<>>, status |-> <<>>]
<1>1. Result(rpc, Null) = frame /\ Is("list", frame)
  BY NullFacts DEF Result
<1>2. Lines(b) /\ ~ParseChunked(b).failed /\ Alone(frames, frame)
  BY <1>1, FramingsAreRead
<1>3. /\ Picked(LastPlace, frames, Results(frames, rpc)) = [err |-> "decoding"]
      /\ Scan(frames, rpc) = scan
      /\ rpc \in CollectRPCIDs(frames)
  BY <1>2, NullIsRead
<1>4. ExtractResult(b, rpc) = [err |-> "decoding"]
  BY <1>2, <1>3, Taken
<1>5. scan.raw = <<>> /\ scan.status = <<>> /\ ~Is("panic", scan)
  BY DEF Is
<1> HIDE DEF scan
<1>6. \A allow : DecodeResponse(b, rpc, allow) = Classify(scan, CollectRPCIDs(frames), rpc, allow)
  BY <1>2, <1>3, <1>5, Taken
<1>7. Classify(scan, CollectRPCIDs(frames), rpc, TRUE) = [val |-> Null]
  BY <1>3, <1>5 DEF Classify
<1>8. Is("err", Classify(scan, CollectRPCIDs(frames), rpc, FALSE))
  <2>1. PICK reason : Classify(scan, CollectRPCIDs(frames), rpc, FALSE) = [err |-> reason]
    BY <1>3, <1>5 DEF Classify
  <2>2. DOMAIN [err |-> reason] = {"err"}
    OBVIOUS
  <2>3. QED
    BY <2>1, <2>2 DEF Is
<1>9. \E i \in DOMAIN b : b[i] # Blank
  BY <1>2, FramedIsNotBlank DEF Alone
<1>10. QED
  BY <1>2, <1>4, <1>6, <1>7, <1>8, <1>9

\* Nor is a status: it is an error unless nulls are allowed.
LEMMA StatusesAreRead ==
  ASSUME NEW rpc, Method(rpc), NEW n \in {5, 7}, NEW b \in Framings(Status(rpc, n))
  PROVE  /\ Lines(b) /\ \E i \in DOMAIN b : b[i] # Blank
         /\ ExtractResult(b, rpc) = [err |-> "decoding"]
         /\ Is("err", DecodeResponse(b, rpc, FALSE))
<1> DEFINE frame  == Frame(rpc, Null, JList(<<JNum(n)>>))
           frames == FramesOf(ParseChunked(b).chunks)
           scan   == [raw |-> <<>>, status |-> <<JNum(n)>>]
<1>1. Status(rpc, n) = frame /\ Is("list", frame)
  BY NullFacts DEF Status
<1>2. Lines(b) /\ ~ParseChunked(b).failed /\ Alone(frames, frame)
  BY <1>1, FramingsAreRead
<1>3. /\ Picked(LastPlace, frames, Results(frames, rpc)) = [err |-> "decoding"]
      /\ Scan(frames, rpc) = scan
      /\ rpc \in CollectRPCIDs(frames)
  <2>1. JList(<<JNum(n)>>) # Null
    BY Kinds
  <2>2. QED
    BY <1>2, <2>1, NullIsRead
<1>4. ExtractResult(b, rpc) = [err |-> "decoding"]
  BY <1>2, <1>3, Taken
<1>5. ~Is("panic", scan)
  BY DEF Is
<1>6. DecodeResponse(b, rpc, FALSE) = Classify(scan, CollectRPCIDs(frames), rpc, FALSE)
  BY <1>2, <1>3, <1>5, Taken
<1>7. \E i \in DOMAIN b : b[i] # Blank
  BY <1>2, FramedIsNotBlank DEF Alone
<1>8. QED
  BY <1>2, <1>3, <1>4, <1>6, <1>7, Statuses

\* A page of HTML has no frame: it names no rpc and holds no result.
LEMMA PagesAreRead ==
  ASSUME NEW rpc, NEW allow, NEW b \in ErrorPages
  PROVE  /\ Is("err", ExtractResult(b, rpc))
         /\ Is("err", DecodeResponse(b, rpc, allow))
<1> DEFINE frames == FramesOf(ParseChunked(b).chunks)
<1>1. Lines(b) /\ \A i \in DOMAIN b : b[i] = Garbage
  <2>1. Len(b) \in Nat /\ DOMAIN b = 1..Len(b) /\ \A i \in DOMAIN b : b[i] = Garbage
    BY DEF ErrorPages
  <2>2. QED
    BY <2>1, OtherLines DEF Lines
<1>2. \A i \in DOMAIN b : ParseChunked(b).chunks[i] = <<>>
  BY <1>1, ChunksAreRead, OtherLines
<1>3. DOMAIN frames = {}
  <2>1. DOMAIN ParseChunked(b).chunks = DOMAIN b
    BY <1>1, PayloadsAreRead
  <2>2. QED
    BY <1>2, <2>1, Placing
<1>4. CASE ParseChunked(b).failed
  <2>1. ExtractResult(b, rpc) = [err |-> "malformed"] /\ DecodeResponse(b, rpc, allow) = [err |-> "malformed"]
    BY <1>4 DEF ExtractResult, DecodeResponse, OfFrames, Once
  <2>2. QED
    BY <2>1 DEF Is
<1>5. CASE ~ParseChunked(b).failed
  <2>1. CollectRPCIDs(frames) = {}
    BY <1>3 DEF CollectRPCIDs, ToSet
  <2>2. ~Is("panic", Scan(frames, rpc))
    BY <1>3 DEF Scan, Is
  <2>3. DecodeResponse(b, rpc, allow) = [err |-> "no_rpcs"]
    BY <1>5, <2>1, <2>2, Taken DEF Classify
  <2>4. ExtractResult(b, rpc) = [err |-> "decoding"]
    <3>1. Results(frames, rpc) = {}
      BY <1>3 DEF Results
    <3>2. QED
      BY <1>5, <3>1, Taken DEF Picked
  <2>5. QED
    BY <2>3, <2>4 DEF Is
<1>6. QED
  BY <1>4, <1>5

-----------------------------------------------------------------------------
(* What a call returns *)

\* Every decoder returns a value or an error.
Fits(r) == DOMAIN r \in {{"val"}, {"err"}}

\* ExtractResult and DecodeResponse return a value or an error, whatever the body.
LEMMA DecodersFit ==
  ASSUME NEW b, NEW id, NEW allow
  PROVE  Fits(ExtractResult(b, id)) /\ Fits(DecodeResponse(b, id, allow))
<1> DEFINE frames == FramesOf(ParseChunked(b).chunks)
           st     == Scan(frames, id)
<1>1. CASE ParseChunked(b).failed
  <2>1. ExtractResult(b, id) = [err |-> "malformed"] /\ DecodeResponse(b, id, allow) = [err |-> "malformed"]
    BY <1>1 DEF ExtractResult, DecodeResponse, OfFrames, Once
  <2>2. QED
    BY <2>1 DEF Fits
<1>2. CASE ~ParseChunked(b).failed
  <2>1. Fits(ExtractResult(b, id))
    <3>1. ExtractResult(b, id) = Picked(LastPlace, frames, Results(frames, id))
      BY <1>2, Taken
    <3>2. QED
      BY <3>1 DEF Picked, Fits
  <2>2. Fits(DecodeResponse(b, id, allow))
    <3>1. DecodeResponse(b, id, allow) = IF Is("panic", st) THEN [err |-> "panic"]
                                         ELSE Classify(st, CollectRPCIDs(frames), id, allow)
      BY <1>2, Taken
    <3> HIDE DEF st
    <3>2. Fits(Classify(st, CollectRPCIDs(frames), id, allow))
      BY DEF Classify, Fits
    <3>3. QED
      BY <3>1, <3>2 DEF Fits
  <2>3. QED
    BY <2>1, <2>2
<1>3. QED
  BY <1>1, <1>2

\* One step and two of the walk to the rows.
LEMMA RowsOne == ASSUME NEW v, NEW a PROVE RowsAt(v, <<a>>) = RowsOf(Enter(Rest(v), a))
<1> DEFINE w(g) == [k \in 0..1 |-> IF k = 0 THEN Rest(v) ELSE Enter(g[k - 1], <<a>>[k])]
           walk == CHOOSE g : g = w(g)
           h == [k \in {0, 1} |-> IF k = 0 THEN Rest(v) ELSE Enter(Rest(v), a)]
<1>1. h = w(h)
  <2>1. 0..1 = {0, 1} /\ DOMAIN h = {0, 1} /\ DOMAIN w(h) = 0..1
    OBVIOUS
  <2>2. ASSUME NEW k \in {0, 1} PROVE h[k] = w(h)[k]
    <3>1. h[0] = Rest(v) /\ <<a>>[1] = a
      OBVIOUS
    <3>2. QED
      BY <3>1
  <2>3. QED
    BY <2>1, <2>2
<1>2. walk = w(walk)
  BY <1>1
<1>3. RowsAt(v, <<a>>) = RowsOf(walk[1])
  BY Len(<<a>>) = 1 DEF RowsAt
<1> HIDE DEF walk
<1>4. walk[0] = Rest(v) /\ walk[1] = Enter(walk[0], a)
  BY <1>2
<1>5. QED
  BY <1>3, <1>4

\* RowsAt over two positions.
LEMMA RowsTwo == ASSUME NEW v, NEW a, NEW b PROVE RowsAt(v, <<a, b>>) = RowsOf(Enter(Enter(Rest(v), a), b))
<1> DEFINE w(g) == [k \in 0..2 |-> IF k = 0 THEN Rest(v) ELSE Enter(g[k - 1], <<a, b>>[k])]
           walk == CHOOSE g : g = w(g)
           h == [k \in {0, 1, 2} |-> IF k = 0 THEN Rest(v) ELSE IF k = 1 THEN Enter(Rest(v), a)
                                     ELSE Enter(Enter(Rest(v), a), b)]
<1>1. h = w(h)
  <2>1. 0..2 = {0, 1, 2} /\ DOMAIN h = {0, 1, 2} /\ DOMAIN w(h) = 0..2
    OBVIOUS
  <2>2. ASSUME NEW k \in {0, 1, 2} PROVE h[k] = w(h)[k]
    <3>1. h[0] = Rest(v) /\ h[1] = Enter(Rest(v), a) /\ <<a, b>>[1] = a /\ <<a, b>>[2] = b
      OBVIOUS
    <3>2. QED
      BY <3>1
  <2>3. QED
    BY <2>1, <2>2
<1>2. walk = w(walk)
  BY <1>1
<1>3. RowsAt(v, <<a, b>>) = RowsOf(walk[2])
  BY Len(<<a, b>>) = 2 DEF RowsAt
<1> HIDE DEF walk
<1>4. walk[0] = Rest(v) /\ walk[1] = Enter(walk[0], a) /\ walk[2] = Enter(walk[1], b)
  BY <1>2
<1>5. QED
  BY <1>3, <1>4

\* RowsAt returns rows or a drift, whatever the payload.
LEMMA RowsFit ==
  ASSUME NEW v, NEW i, NEW j
  PROVE  Fits(RowsAt(v, <<i>>)) /\ Fits(RowsAt(v, <<i, j>>))
<1> DEFINE Walked(r) == Is("rest", r) => DOMAIN r = {"rest"}
<1>1. ASSUME NEW r, Fits(r) \/ DOMAIN r = {"rest"}, NEW idx
      PROVE  Fits(Enter(r, idx)) \/ DOMAIN Enter(r, idx) = {"rest"}
  BY <1>1, Outputs DEF Enter, Rest, Fits, ShapeDrift
<1>2. ASSUME NEW r, Fits(r) \/ DOMAIN r = {"rest"} PROVE Fits(RowsOf(r))
  BY <1>2, Outputs DEF RowsOf, Fits, ShapeDrift, Is
<1>3. DOMAIN Rest(v) = {"rest"}
  BY DEF Rest
<1>4. QED
  BY <1>1, <1>2, <1>3, RowsOne, RowsTwo

\* So do the two decoders over it.
LEMMA DecodedRowsFit ==
  ASSUME NEW v
  PROVE  Fits(DecodeSourceRows(v)) /\ Fits(DecodeNotebookRows(v))
<1>1. Fits(RowsAt(v, <<0, 1>>)) /\ Fits(RowsAt(v, <<0>>))
  BY RowsFit
<1>2. DecodeSourceRows(v) = RowsAt(v, <<0, 1>>) \/ \E x : DecodeSourceRows(v) = View(x)
  BY DEF DecodeSourceRows, WithRows, Once
<1>3. DecodeNotebookRows(v) = RowsAt(v, <<0>>) \/ \E x : DecodeNotebookRows(v) = View(x)
  BY DEF DecodeNotebookRows, WithRows, Once
<1>4. QED
  BY <1>1, <1>2, <1>3, Outputs DEF Fits

\* clientCaller.Call returns a value or an error.
LEMMA CallsFit ==
  ASSUME NEW b, NEW r
  PROVE  Fits(Called(b, r))
<1>1. Fits(DecodeResponse(b, r.rpc, r.nullable))
  BY DecodersFit
<1>2. Called(b, r) \in {Failed("unmarshal"), DecodeResponse(b, r.rpc, r.nullable)}
  BY DEF Called, Once
<1>3. QED
  BY <1>1, <1>2, Outputs DEF Fits

\* NotebooksAPI.call returns a value or an error.
LEMMA ExtractsFit ==
  ASSUME NEW b, NEW rpc
  PROVE  Fits(Extracted(b, rpc))
<1>1. \/ Extracted(b, rpc) = View(<<>>)
      \/ Extracted(b, rpc) \in {Failed("rpc"), Failed("unmarshal")}
      \/ Extracted(b, rpc) = View(ExtractResult(b, rpc).val.list)
  BY DEF Extracted, Once
<1>2. QED
  BY <1>1, Outputs DEF Fits

\* So does every method of NotebooksAPI ...
LEMMA NotebooksFit ==
  ASSUME NEW c, NEW b, NEW rpc
  PROVE  Fits(NotebooksAnswer(c, b, rpc))
<1> DEFINE r == Extracted(b, rpc)
           raw == r.val
<1>1. CASE Is("err", r)
  <2>1. NotebooksAnswer(c, b, rpc) = r
    BY <1>1 DEF NotebooksAnswer, IfRead, Once
  <2>2. QED
    BY <2>1, ExtractsFit
<1>2. CASE ~Is("err", r)
  <2>1. NotebooksAnswer(c, b, rpc) =
          CASE c.op \in {"List", "GetRecent"} -> PageFromList(raw, c.max)
            [] c.op \in {"Create", "Get"}     -> NotebookFromEnvelope(raw)
            [] c.op = "Metadata"              -> MetadataOf(NotebookFromEnvelope(raw).val)
            [] c.op = "Summary"               -> SummaryFromEnvelope(raw)
            [] c.op = "GetShareStatus"        -> ShareStateFromEnvelope(raw)
            [] OTHER                          -> View("done")
    BY <1>2 DEF NotebooksAnswer, IfRead, Once
  <2>2. Fits(PageFromList(raw, c.max))
    BY Outputs DEF PageFromList, Fits
  <2>3. Fits(NotebookFromEnvelope(raw)) /\ Fits(MetadataOf(NotebookFromEnvelope(raw).val))
    BY Outputs DEF NotebookFromEnvelope, MetadataOf, Fits
  <2>4. Fits(SummaryFromEnvelope(raw)) /\ Fits(View("done"))
    BY Outputs DEF SummaryFromEnvelope, Fits
  <2>5. Fits(ShareStateFromEnvelope(raw))
    <3>1. ShareStateFromEnvelope(raw) = [err |-> "panic"] \/ \E x : ShareStateFromEnvelope(raw) = View(x)
      BY DEF ShareStateFromEnvelope
    <3>2. QED
      BY <3>1, Outputs DEF Fits
  <2> HIDE DEF r, raw
  <2>6. QED
    BY <2>1, <2>2, <2>3, <2>4, <2>5
<1>3. QED
  BY <1>1, <1>2

\* ... every method of SourcesAPI ...
LEMMA SourcesFit ==
  ASSUME NEW c, NEW b, NEW r
  PROVE  Fits(SourcesAnswer(c, b, r))
<1> DEFINE got == Called(b, r)
<1>1. CASE Is("err", got)
  <2>1. SourcesAnswer(c, b, r) = got
    BY <1>1 DEF SourcesAnswer, IfRead, Once
  <2>2. QED
    BY <2>1, CallsFit
<1>2. CASE ~Is("err", got)
  <2>1. SourcesAnswer(c, b, r) = IF c.op = "List" THEN SourcesPage(c, DecodeSourceRows(got.val))
                                 ELSE DecodeAddedSourceRow(got.val)
    BY <1>2 DEF SourcesAnswer, IfRead, Once
  <2>2. Fits(DecodeSourceRows(got.val))
    BY DecodedRowsFit
  <2>3. Fits(SourcesPage(c, DecodeSourceRows(got.val)))
    BY <2>2, Outputs DEF SourcesPage, Fits
  <2>4. Fits(DecodeAddedSourceRow(got.val))
    BY Outputs DEF DecodeAddedSourceRow, Fits
  <2>5. QED
    BY <2>1, <2>3, <2>4
<1>3. QED
  BY <1>1, <1>2

\* ... every feature call ...
LEMMA FeaturesFit ==
  ASSUME NEW c, NEW b, NEW r
  PROVE  Fits(FeaturesAnswer(c, b, r))
<1> DEFINE got == Called(b, r)
           v   == got.val
<1>1. CASE Is("err", got)
  <2>1. FeaturesAnswer(c, b, r) = got
    BY <1>1 DEF FeaturesAnswer, IfRead, Once
  <2>2. QED
    BY <2>1, CallsFit
<1>2. CASE ~Is("err", got)
  <2>1. FeaturesAnswer(c, b, r) =
          CASE r.rpc = "GetNotebook"     -> DecodeGet(v)
            [] r.rpc = "ListNotebooks"   -> CappedPage(DecodeNotebookRows(v), c.max)
            [] r.rpc = "CreateNotebook"  -> View(DecodeNotebook(v))
            [] r.rpc = "Summarize"       ->
                 IF c.op = "Summary" THEN View(DecodeDescription(v).val.summary) ELSE DecodeDescription(v)
            [] OTHER                     -> View("done")
    BY <1>2 DEF FeaturesAnswer, IfRead, Once
  <2>2. Fits(DecodeGet(v))
    <3>1. DecodeGet(v) = [err |-> "not_found"] \/ \E x : DecodeGet(v) = View(x)
      BY DEF DecodeGet
    <3>2. QED
      BY <3>1, Outputs DEF Fits
  <2>3. Fits(CappedPage(DecodeNotebookRows(v), c.max))
    <3>1. Fits(DecodeNotebookRows(v))
      BY DecodedRowsFit
    <3>2. QED
      BY <3>1, Outputs DEF CappedPage, Fits
  <2>4. Fits(View(DecodeNotebook(v))) /\ Fits(View(DecodeDescription(v).val.summary)) /\ Fits(View("done"))
    BY Outputs DEF Fits
  <2>5. Fits(DecodeDescription(v))
    BY Outputs DEF DecodeDescription, SummaryFromEnvelope, Fits
  <2> HIDE DEF got, v
  <2>6. QED
    BY <2>1, <2>2, <2>3, <2>4, <2>5
<1>3. QED
  BY <1>1, <1>2

\* A resolution ends with a row or with an error, and so it does when only the id is
\* asked for.
LEMMA ResolutionsFit ==
  ASSUME NEW c, NEW l, NEW b
  PROVE  Fits(ResolveLeg(c, l, b)) /\ Fits(ResolvedID(ResolveLeg(c, l, b)))
<1>1. Fits(ResolveAsID(b))
  <2>1. ResolveAsID(b) = Extracted(b, "GetNotebook") \/ \E x : ResolveAsID(b) = View(x)
    BY DEF ResolveAsID, IfRead, Once, NotebookFromEnvelope
  <2>2. QED
    BY <2>1, ExtractsFit, Outputs DEF Fits
<1>2. Fits(ResolveAsTitle(c, b))
  <2>1. \/ ResolveAsTitle(c, b) = Extracted(b, "ListNotebooks")
        \/ ResolveAsTitle(c, b) = Failed("not_found")
        \/ \E x : ResolveAsTitle(c, b) = View(x)
    BY DEF ResolveAsTitle, IfRead, Once
  <2>2. QED
    BY <2>1, ExtractsFit, Outputs DEF Fits
<1>3. Fits(ResolveLeg(c, l, b))
  BY <1>1, <1>2 DEF ResolveLeg
<1>4. Fits(ResolvedID(ResolveLeg(c, l, b)))
  BY <1>3, Outputs DEF ResolvedID, Fits
<1>5. QED
  BY <1>3, <1>4

\* ... and the parsers of the chat.
LEMMA ChatFits ==
  ASSUME NEW c, NEW b, c.op \in Methods["chat"]
  PROVE  Fits(ChatAnswer(c, b))
<1>1. Fits(ParseChatStream(b))
  <2>1. ParseChatStream(b) \in {Failed("chat"), Failed("parse")} \/ \E x : ParseChatStream(b) = View(x)
    BY DEF ParseChatStream, Assemble, Once
  <2>2. QED
    BY <2>1, Outputs DEF Fits
<1>2. Fits(DecodeChatHistory(b))
  <2>1. DecodeChatHistory(b) \in {Failed("json"), Failed("shape")} \/ \E x : DecodeChatHistory(b) = View(x)
    BY DEF DecodeChatHistory, Once
  <2>2. QED
    BY <2>1, Outputs DEF Fits
<1>3. Fits(ExtractConversationID(b))
  <2>1. ExtractConversationID(b) \in {Failed("json"), Failed("shape")} \/ \E x : ExtractConversationID(b) = View(x)
    BY DEF ExtractConversationID, Once
  <2>2. QED
    BY <2>1, Outputs DEF Fits
<1>4. QED
  BY <1>1, <1>2, <1>3 DEF ChatAnswer, Methods

\* What a call returns is a value or an error, for any body.
LEMMA AnswersFit ==
  ASSUME call \in Calls
  PROVE  Fits(Answer) /\ (call.api = "resolveID" => Fits(ResolvedID(Answer)))
<1>1. call.api \in DOMAIN Methods /\ call.op \in Methods[call.api]
  BY SdkAssumption
<1>2. call.api \in {"notebooks", "features", "sources", "resolve", "resolveID", "chat"}
  BY <1>1 DEF Methods
<1>3. CASE call.api = "notebooks"
  BY <1>3, NotebooksFit DEF Answer
<1>4. CASE call.api = "features"
  BY <1>4, FeaturesFit DEF Answer
<1>5. CASE call.api = "sources"
  BY <1>5, SourcesFit DEF Answer
<1>6. CASE call.api \in {"resolve", "resolveID"}
  BY <1>6, ResolutionsFit DEF Answer
<1>7. CASE call.api = "chat"
  BY <1>1, <1>7, ChatFits DEF Answer
<1>8. QED
  BY <1>2, <1>3, <1>4, <1>5, <1>6, <1>7

-----------------------------------------------------------------------------
(* Requests *)

RPCs == {"ListNotebooks", "GetNotebook", "Summarize", "GetShareStatus", "CreateNotebook", "DeleteNotebook",
         "RenameNotebook", "ShareNotebook", "RemoveRecentlyViewed", "AddSource", "AddSourceFile",
         "GetConversationTurns", "Chat"}

\* A request names an rpc and has a payload, or it is refused.
Stated(r) ==
  \/ Is("refused", r)
  \/ Is("rpc", r) /\ r.rpc \in RPCs /\ Is("payload", r) /\ ~Is("refused", r)

\* The three ways to state a request: sent, sent with its null rule, refused.
LEMMA RequestForms ==
  ASSUME NEW rpc, NEW payload, NEW nullable, NEW reason
  PROVE  /\ rpc \in RPCs => Stated(Asks(rpc, payload)) /\ Stated(Sends(rpc, payload, nullable))
         /\ Asks(rpc, payload).rpc = rpc
         /\ Asks(rpc, payload).payload = payload
         /\ Sends(rpc, payload, nullable).rpc = rpc
         /\ Sends(rpc, payload, nullable).payload = payload
         /\ Sends(rpc, payload, nullable).nullable = nullable
         /\ Stated(Refuses(reason)) /\ Is("refused", Refuses(reason))
<1>1. DOMAIN Asks(rpc, payload) = {"rpc", "payload"}
      /\ DOMAIN Sends(rpc, payload, nullable) = {"rpc", "payload", "nullable"}
      /\ DOMAIN Refuses(reason) = {"refused"}
  BY DEF Asks, Sends, Refuses
<1>2. /\ Asks(rpc, payload).rpc = rpc /\ Asks(rpc, payload).payload = payload
      /\ Sends(rpc, payload, nullable).rpc = rpc /\ Sends(rpc, payload, nullable).payload = payload
      /\ Sends(rpc, payload, nullable).nullable = nullable
  BY DEF Asks, Sends
<1>3. rpc \in RPCs => Stated(Asks(rpc, payload)) /\ Stated(Sends(rpc, payload, nullable))
  BY <1>1, <1>2 DEF Stated, Is
<1>4. Stated(Refuses(reason)) /\ Is("refused", Refuses(reason))
  BY <1>1 DEF Stated, Is
<1>5. QED
  BY <1>2, <1>3, <1>4

\* A checked request is the request or a refusal.
LEMMA CheckedForms ==
  ASSUME NEW valid, NEW r, Stated(r) PROVE Stated(Checked(valid, r))
BY RequestForms DEF Checked

\* Every method of NotebooksAPI states a request ...
LEMMA NotebooksRequests ==
  ASSUME NEW c, c.op \in Methods["notebooks"]
  PROVE  Stated(NotebooksRequest(c))
<1>1. Stated(NotYet)
  BY RequestForms DEF NotYet
<1>2. /\ Stated(List) /\ Stated(GetRecent) /\ Stated(GetStarred) /\ Stated(GetSharedWithMe)
      /\ Stated(GetByProject(c))
  BY <1>1, RequestForms, CheckedForms
     DEF RPCs, List, GetRecent, GetStarred, GetSharedWithMe, GetByProject
<1>3. /\ Stated(Create(c)) /\ Stated(Get(c)) /\ Stated(Metadata(c)) /\ Stated(Summary(c))
      /\ Stated(Delete(c)) /\ Stated(Rename(c))
  BY RequestForms, CheckedForms DEF RPCs, Create, Get, Metadata, Summary, Delete, Rename
<1>4. /\ Stated(Share(c, c.public)) /\ Stated(Unshare(c)) /\ Stated(GetShareStatus(c))
      /\ Stated(RemoveCollaborator(c)) /\ Stated(AddSourceIDs(c)) /\ Stated(RemoveSourceIDs(c))
  BY <1>1, RequestForms, CheckedForms
     DEF RPCs, Share, Unshare, GetShareStatus, RemoveCollaborator, AddSourceIDs,
         RemoveSourceIDs
<1>5. c.op \in {"List", "GetRecent", "GetStarred", "GetSharedWithMe", "GetByProject", "Create", "Get",
                "Metadata", "Summary", "Delete", "Rename", "Share", "Unshare", "GetShareStatus",
                "RemoveCollaborator", "AddSource", "RemoveSource"}
  BY DEF Methods
<1>6. QED
  BY <1>2, <1>3, <1>4, <1>5 DEF NotebooksRequest

\* ... every method of SourcesAPI too ...
LEMMA SourcesRequests ==
  ASSUME NEW c, c.op \in Methods["sources"]
  PROVE  Stated(SourcesRequest(c))
<1>1. /\ Stated(SourcesList(c)) /\ Stated(AddURL(c)) /\ Stated(AddYouTube(c))
      /\ Stated(AddText(c)) /\ Stated(AddFile(c)) /\ Stated(AddDrive(c))
  BY RequestForms, CheckedForms
     DEF RPCs, SourcesList, AddURL, AddYouTube, AddText, AddFile, AddDrive, ListRows,
         SendURL, SendYouTube,
         SendText, SendFile, SendDrive
<1>2. c.op \in {"List", "AddURL", "AddYouTube", "AddText", "AddFile", "AddDrive"}
  BY DEF Methods
<1>3. QED
  BY <1>1, <1>2 DEF SourcesRequest

\* ... every feature call, of which only Rename has two legs ...
LEMMA FeaturesRequests ==
  ASSUME NEW c, c.op \in Methods["features"]
  PROVE  /\ Len(FeaturesLegs(c)) \in 1..2
         /\ Len(FeaturesLegs(c)) = 2 <=> c.op = "Rename"
         /\ \A i \in 1..Len(FeaturesLegs(c)) : Stated(FeaturesLegs(c)[i])
<1>1. \A rpc \in RPCs : \A payload, nullable : Stated(OnNotebook(c, rpc, payload, nullable))
  BY RequestForms, CheckedForms DEF OnNotebook
<1>2. /\ Stated(FeaturesRename(c)) /\ Stated(FeaturesGet(c)) /\ Stated(ListPaged)
      /\ Stated(FeaturesSummary(c)) /\ Stated(Describe(c)) /\ Stated(FeaturesCreate(c))
  BY <1>1, RequestForms, CheckedForms
     DEF RPCs, FeaturesRename, FeaturesGet, ListPaged, FeaturesSummary, Describe,
         FeaturesCreate
<1>3. /\ Stated(FeaturesDelete(c)) /\ Stated(FeaturesShare(c, c.public)) /\ Stated(FeaturesUnshare(c))
      /\ Stated(RemoveFromRecent(c)) /\ Stated(FeaturesRemoveCollaborator(c))
  BY <1>1, RequestForms, CheckedForms
     DEF RPCs, FeaturesDelete, FeaturesShare, FeaturesUnshare, RemoveFromRecent,
         FeaturesRemoveCollaborator
<1>4. CASE c.op = "Rename"
  <2>1. FeaturesLegs(c) = <<FeaturesRename(c), FeaturesGet(c)>>
    BY <1>4 DEF FeaturesLegs
  <2>2. Len(FeaturesLegs(c)) = 2 /\ FeaturesLegs(c)[1] = FeaturesRename(c) /\ FeaturesLegs(c)[2] = FeaturesGet(c)
    BY <2>1
  <2>3. QED
    BY <1>2, <1>4, <2>2
<1>5. CASE c.op # "Rename"
  <2>1. c.op \in {"List", "Get", "Summary", "Describe", "Create", "Delete", "Share", "Unshare",
                  "RemoveFromRecent", "RemoveCollaborator"}
    BY <1>5 DEF Methods
  <2>2. \E r : Stated(r) /\ FeaturesLegs(c) = <<r>>
    BY <1>2, <1>3, <2>1 DEF FeaturesLegs
  <2>3. PICK r : Stated(r) /\ FeaturesLegs(c) = <<r>>
    BY <2>2
  <2>4. Len(FeaturesLegs(c)) = 1 /\ FeaturesLegs(c)[1] = r
    BY <2>3
  <2>5. QED
    BY <1>5, <2>3, <2>4
<1>6. QED
  BY <1>4, <1>5

\* ... and a resolution, in both its legs.
LEMMA ResolveRequests ==
  ASSUME NEW c PROVE Stated(ResolveRequest(c)) /\ Stated(ListForResolve(c))
<1>1. Stated(ListForResolve(c))
  BY RequestForms, CheckedForms DEF RPCs, ListForResolve, List, GetByProject, NotYet
<1>2. \A d : Stated(Get(d))
  BY RequestForms, CheckedForms DEF RPCs, Get
<1>3. QED
  BY <1>1, <1>2, RequestForms DEF ResolveRequest

\* A call begins with a request that is stated.
LEMMA FirstRequests ==
  ASSUME NEW c \in Calls PROVE Stated(FirstRequest(c))
<1>1. c.api \in DOMAIN Methods /\ c.op \in Methods[c.api]
  BY SdkAssumption
<1>2. c.api \in {"notebooks", "features", "sources", "resolve", "resolveID", "chat"}
  BY <1>1 DEF Methods
<1>3. CASE c.api = "notebooks"
  BY <1>1, <1>3, NotebooksRequests DEF FirstRequest
<1>4. CASE c.api = "features"
  BY <1>1, <1>4, FeaturesRequests DEF FirstRequest
<1>5. CASE c.api = "sources"
  BY <1>1, <1>5, SourcesRequests DEF FirstRequest
<1>6. CASE c.api \in {"resolve", "resolveID"}
  BY <1>6, ResolveRequests DEF FirstRequest
<1>7. CASE c.api = "chat"
  <2>1. c.op \in {"Ask", "History", "ConversationID"}
    BY <1>1, <1>7 DEF Methods
  <2>2. \A payload : Stated(Sends("GetConversationTurns", payload, FALSE))
                     /\ Stated(Sends("Chat", payload, FALSE))
    BY RequestForms DEF RPCs
  <2>3. Stated(BuildChatStreamRequest(c))
    BY <2>2, CheckedForms DEF BuildChatStreamRequest
  <2>4. Stated(ChatRequest(c))
    BY <2>1, <2>2, <2>3 DEF ChatRequest
  <2>5. QED
    BY <1>7, <2>4 DEF FirstRequest
<1>8. QED
  BY <1>2, <1>3, <1>4, <1>5, <1>6, <1>7

-----------------------------------------------------------------------------
(* What a call carries through its steps *)

Underway == pc \in {"posted", "pausing", "streaming", "answered"}

\* The request of a call under way is the one of its leg.
RequestInv ==
  Underway =>
    /\ call \in Calls /\ leg \in 1..2 /\ Stated(request) /\ ~Is("refused", request)
    /\ call.api = "features" => leg \in 1..Len(FeaturesLegs(call)) /\ request = FeaturesLegs(call)[leg]
    /\ call.api \in {"resolve", "resolveID"} =>
         \/ leg = 1 /\ request = ResolveRequest(call)
         \/ leg = 2 /\ call.kind # "title" /\ request = ListForResolve(call)
    /\ call.api \notin {"features", "resolve", "resolveID"} => leg = 1 /\ request = FirstRequest(call)

\* What a stream has said is a sequence.
StateInv == TypeOK /\ \E S : sent \in Seq(S)

\* Dispatch posts a request, or returns its refusal.
LEMMA DispatchStated ==
  ASSUME NEW r, Stated(r), NEW number, Dispatch(r, number)
  PROVE  /\ leg' = number /\ tries' = 0
         /\ \/ /\ pc' = "returned" /\ UNCHANGED request
               /\ result' = Failed(r.refused) /\ Is("refused", r)
            \/ /\ pc' = "posted" /\ request' = r /\ UNCHANGED result
               /\ ~Is("refused", r)
BY DEF Dispatch

\* The three ends of Decode: the list that a resolution falls back on, the next leg, or
\* the end of the call.
LEMMA DecodeCases ==
  ASSUME leg \in 1..2, Decode
  PROVE  /\ pc = "answered" /\ UNCHANGED <<nbs, shape, call, wire, history>>
         /\ \/ /\ call.api \in {"resolve", "resolveID"} /\ FallsBack(call, leg, Answer)
               /\ Dispatch(ListForResolve(call), 2)
            \/ /\ call.api = "features" /\ Is("val", Answer) /\ leg < Len(FeaturesLegs(call))
               /\ Dispatch(FeaturesLegs(call)[leg + 1], leg + 1)
            \/ /\ Returns(IF call.api = "resolveID" THEN ResolvedID(Answer) ELSE Answer)
               /\ call.api = "features" /\ Is("val", Answer) => ~(leg < Len(FeaturesLegs(call)))
<1> DEFINE more    == IF call.api = "features" THEN FeaturesLegs(call) ELSE <<>>
           falls   == call.api \in {"resolve", "resolveID"} /\ FallsBack(call, leg, Answer)
           further == Is("val", Answer) /\ leg < Len(more)
           end     == Returns(IF call.api = "resolveID" THEN ResolvedID(Answer) ELSE Answer)
<1>1. IF falls THEN Dispatch(ListForResolve(call), 2)
      ELSE IF further THEN Dispatch(more[leg + 1], leg + 1) ELSE end
  <2>1. \A r \in {Answer} : r = Answer
    OBVIOUS
  <2>2. QED
    BY <2>1 DEF Decode
<1>2. pc = "answered" /\ UNCHANGED <<nbs, shape, call, wire, history>>
  BY DEF Decode
<1>3. further => call.api = "features"
  <2>1. SUFFICES ASSUME call.api # "features" PROVE ~(leg < Len(more))
    OBVIOUS
  <2>2. Len(more) = 0
    BY <2>1
  <2>3. QED
    BY <2>2
<1>4. call.api = "features" => more = FeaturesLegs(call)
  OBVIOUS
<1>5. CASE falls
  BY <1>1, <1>2, <1>5
<1>6. CASE ~falls /\ further
  <2>1. Dispatch(more[leg + 1], leg + 1)
    BY <1>1, <1>6
  <2>2. call.api = "features" /\ more = FeaturesLegs(call)
    BY <1>3, <1>4, <1>6
  <2> HIDE DEF more
  <2>3. QED
    BY <1>2, <1>6, <2>1, <2>2
<1>7. CASE ~falls /\ ~further
  <2>1. end
    BY <1>1, <1>7
  <2>2. call.api = "features" /\ Is("val", Answer) => ~(leg < Len(FeaturesLegs(call)))
    BY <1>4, <1>7
  <2>3. QED
    BY <1>2, <2>1, <2>2
<1>8. QED
  BY <1>5, <1>6, <1>7

-----------------------------------------------------------------------------
(* Outcomes *)

\* What TypeOK says of the server.
Ledger(s) == DOMAIN s = NbIds /\ \A n \in NbIds : DOMAIN s[n] = NotebookFields

\* An edit of one field of one notebook leaves a ledger of all notebooks.
LEMMA LedgerKept ==
  ASSUME NEW s, Ledger(s), NEW n, NEW x
  PROVE  /\ Ledger([s EXCEPT ![n].live = x])
         /\ Ledger([s EXCEPT ![n].title = x])
         /\ Ledger([s EXCEPT ![n].public = x])
         /\ Ledger([s EXCEPT ![n].guest = x])
         /\ Ledger([s EXCEPT ![n].sources = x])
BY DEF Ledger

\* The fields of an outcome.
LEMMA OutcomeFields ==
  ASSUME NEW s, NEW answer, NEW made
  PROVE  /\ Outcome(s, answer, made).nbs = s
         /\ Outcome(s, answer, made).answer = answer
         /\ Outcome(s, answer, made).made = made
         /\ Says(answer).nbs = nbs /\ Says(answer).answer = answer /\ Says(answer).made = {}
         /\ Changes(s).nbs = s /\ Changes(s).answer = Null /\ Changes(s).made = {}
BY DEF Outcome, Says, Changes

\* What the server makes of a request, rpc by rpc.
LEMMA OutcomesOf ==
  ASSUME NEW payload
  PROVE  LET n == OptStr(payload, Slot(0))
             Ask(answer) == IF n \in Live(nbs) THEN {Says(answer)} ELSE {}
             d == OptStr(payload, <<JNum(0), JNum(0)>>)
         IN /\ Outcomes("ListNotebooks", payload) = {Says(NotebookRows(nbs))}
            /\ Outcomes("GetNotebook", payload) = Ask(Shaped(NotebookRow(nbs, n)))
            /\ Outcomes("Summarize", payload) = Ask(SummaryRow)
            /\ Outcomes("GetShareStatus", payload) = Ask(ShareRow(nbs, n))
            /\ Outcomes("CreateNotebook", payload) = Creates(n)
            /\ Outcomes("DeleteNotebook", payload)
                 = {Changes(IF d \in NbIds THEN [nbs EXCEPT ![d].live = FALSE] ELSE nbs)}
            /\ Outcomes("RenameNotebook", payload) = Renames(payload)
            /\ Outcomes("ShareNotebook", payload) = Shares(payload)
            /\ Outcomes("RemoveRecentlyViewed", payload) = Ask(Null)
            /\ Outcomes("AddSource", payload) = AddsSource(payload)
            /\ Outcomes("AddSourceFile", payload) = AddsSource(payload)
            /\ Outcomes("GetConversationTurns", payload) = {Says(h) : h \in Histories(n)}
            /\ Outcomes("Chat", payload) = {}
BY DEF Outcomes

\* What the server adds to a notebook: a source with the next id, of the kind and with
\* the text that the spec names.
Appends(payload, f, src, o) ==
  LET nb == OptStr(payload, Slot(1))
  IN /\ nb \in Live(nbs)
     /\ src = [id |-> SourceIds[Len(nbs[nb].sources) + 1], kind |-> f[1], text |-> f[2].ok]
     /\ o = Outcome([nbs EXCEPT ![nb].sources = Append(@, src)], JList(<<SourceRow(src)>>),
                    {[nb |-> nb, id |-> src.id, kind |-> src.kind, text |-> src.text]})

\* An added source is one of the filled slots of the payload, after the sources there.
LEMMA AddsForm ==
  ASSUME NEW payload, NEW o \in AddsSource(payload)
  PROVE  \E f, src : f \in Filled(SpecOf(payload)) /\ Appends(payload, f, src, o)
BY DEF AddsSource, Once, Appends

\* A created notebook takes an id that was free, with the title of the payload.
LEMMA CreatesForm ==
  ASSUME NEW title, NEW o \in Creates(title)
  PROVE  \E n \in NbIds : \E after :
           /\ n \notin Live(nbs)
           /\ after = [nbs EXCEPT ![n].live = TRUE, ![n].title = title]
           /\ o = Outcome(after, NotebookRow(after, n),
                          {[nb |-> n, id |-> n, kind |-> "notebook", text |-> title]})
BY DEF Creates

\* Whatever an rpc does, the server keeps a ledger of all notebooks.
LEMMA OutcomesKeep ==
  ASSUME Ledger(nbs), NEW rpc \in RPCs, NEW payload, NEW o \in Outcomes(rpc, payload)
  PROVE  Ledger(o.nbs)
<1>1. \A answer : Ledger(Says(answer).nbs)
  BY OutcomeFields
<1>2. \A s : Ledger(s) => Ledger(Changes(s).nbs)
  BY OutcomeFields
<1>3. CASE rpc \in {"ListNotebooks", "GetNotebook", "Summarize", "GetShareStatus", "RemoveRecentlyViewed",
                    "GetConversationTurns", "Chat"}
  <2>1. \A n, answer : o \in (IF n \in Live(nbs) THEN {Says(answer)} ELSE {}) => o = Says(answer)
    OBVIOUS
  <2>2. rpc \in {"ListNotebooks", "GetConversationTurns", "Chat"} => \E answer : o = Says(answer)
    <3>1. rpc = "ListNotebooks" => o = Says(NotebookRows(nbs))
      BY OutcomesOf
    <3>2. rpc = "GetConversationTurns" => \E answer : o = Says(answer)
      <4>1. SUFFICES ASSUME rpc = "GetConversationTurns" PROVE \E answer : o = Says(answer)
        OBVIOUS
      <4>2. Outcomes(rpc, payload) = {Says(h) : h \in Histories(OptStr(payload, Slot(0)))}
        BY <4>1, OutcomesOf
      <4>3. QED
        BY <4>2
    <3>3. rpc # "Chat"
      BY OutcomesOf
    <3>4. QED
      BY <3>1, <3>2, <3>3
  <2>3. rpc \in {"GetNotebook", "Summarize", "GetShareStatus", "RemoveRecentlyViewed"} => \E answer : o = Says(answer)
    BY <2>1, OutcomesOf
  <2>4. \E answer : o = Says(answer)
    BY <1>3, <2>2, <2>3
  <2>5. QED
    BY <1>1, <2>4
<1>4. CASE rpc \in {"AddSource", "AddSourceFile"}
  <2>1. o \in AddsSource(payload)
    BY <1>4, OutcomesOf
  <2>2. PICK f, src : f \in Filled(SpecOf(payload)) /\ Appends(payload, f, src, o)
    BY <2>1, AddsForm
  <2>3. o.nbs = [nbs EXCEPT ![OptStr(payload, Slot(1))].sources = Append(@, src)]
    BY <2>2, OutcomeFields DEF Appends
  <2>4. QED
    BY <2>3 DEF Ledger
<1>5. CASE rpc = "CreateNotebook"
  <2>1. o \in Creates(OptStr(payload, Slot(0)))
    BY <1>5, OutcomesOf
  <2>2. PICK n, after :
          /\ n \in NbIds
          /\ n \notin Live(nbs)
          /\ after = [nbs EXCEPT ![n].live = TRUE, ![n].title = OptStr(payload, Slot(0))]
          /\ o = Outcome(after, NotebookRow(after, n),
                         {[nb |-> n, id |-> n, kind |-> "notebook", text |-> OptStr(payload, Slot(0))]})
    BY <2>1, CreatesForm
  <2>3. o.nbs = after
    BY <2>2, OutcomeFields
  <2>4. QED
    BY <2>2, <2>3 DEF Ledger
<1>6. CASE rpc = "DeleteNotebook"
  BY <1>2, <1>6, OutcomesOf, LedgerKept
<1>7. CASE rpc = "RenameNotebook"
  <2>1. o \in Renames(payload)
    BY <1>7, OutcomesOf
  <2>2. o = Says(Null) \/ \E n, title : o = Changes([nbs EXCEPT ![n].title = title])
    BY <2>1 DEF Renames
  <2>3. QED
    BY <1>1, <1>2, <2>2, LedgerKept
<1>8. CASE rpc = "ShareNotebook"
  <2>1. o \in Shares(payload)
    BY <1>8, OutcomesOf
  <2>2. \/ \E n, x : o = Changes([nbs EXCEPT ![n].guest = x])
        \/ \E n, x : o = Changes([nbs EXCEPT ![n].public = x])
    BY <2>1 DEF Shares
  <2>3. QED
    BY <1>2, <2>2, LedgerKept
<1>9. QED
  BY <1>3, <1>4, <1>5, <1>6, <1>7, <1>8 DEF RPCs

-----------------------------------------------------------------------------
(* The request of a call is the one of its leg *)

\* Every other step leaves the call where it is.
LEMMA OthersKeepTheRequest ==
  ASSUME [Next]_vars, ~Begin, ~Decode
  PROVE  UNCHANGED <<call, leg, request>> /\ (Underway' => Underway)
<1>1. CASE Exchange
  BY <1>1 DEF Exchange, Serve, Reject, FailedPost, Lose, StreamStarts, Underway
<1>2. CASE Wake \/ StreamTells \/ StreamEnds \/ Edit
  BY <1>2 DEF Wake, StreamTells, StreamEnds, Edit, Underway
<1>3. CASE UNCHANGED vars
  BY <1>3 DEF vars, Underway
<1>4. QED
  BY <1>1, <1>2, <1>3 DEF Next

\* No call is under way at the start.
LEMMA RequestInit == ASSUME Init PROVE RequestInv
BY DEF Init, RequestInv, Underway

\* A call begins with its first request.
LEMMA BeginRequest ==
  ASSUME Begin
  PROVE  RequestInv'
<1>1. PICK c \in Calls : call' = c /\ Dispatch(FirstRequest(c), 1)
  BY DEF Begin
<1>2. Stated(FirstRequest(c))
  BY FirstRequests
<1>3. SUFFICES ASSUME Underway' PROVE RequestInv'
  BY DEF RequestInv
<1>4. leg' = 1 /\ request' = FirstRequest(c) /\ ~Is("refused", FirstRequest(c))
  BY <1>1, <1>2, <1>3, DispatchStated DEF Underway
<1>5. c.api \in DOMAIN Methods /\ c.op \in Methods[c.api]
  BY SdkAssumption
<1>6. c.api = "features" => 1 \in 1..Len(FeaturesLegs(c)) /\ FirstRequest(c) = FeaturesLegs(c)[1]
  <2>1. SUFFICES ASSUME c.api = "features"
                 PROVE  1 \in 1..Len(FeaturesLegs(c)) /\ FirstRequest(c) = FeaturesLegs(c)[1]
    OBVIOUS
  <2>2. c.op \in Methods["features"]
    BY <1>5, <2>1
  <2>3. QED
    BY <2>1, <2>2, FeaturesRequests DEF FirstRequest
<1>7. c.api \in {"resolve", "resolveID"} => FirstRequest(c) = ResolveRequest(c)
  BY DEF FirstRequest
<1>8. QED
  BY <1>1, <1>2, <1>4, <1>6, <1>7 DEF RequestInv

\* A call goes on to its next request, or ends.
LEMMA DecodeRequest ==
  ASSUME RequestInv, Decode
  PROVE  RequestInv'
<1>1. Underway
  BY DEF Underway, Decode
<1>2. call \in Calls /\ leg \in 1..2
  BY <1>1 DEF RequestInv
<1>3. call.api \in DOMAIN Methods /\ call.op \in Methods[call.api]
  BY <1>2, SdkAssumption
<1>4. SUFFICES ASSUME Underway' PROVE RequestInv'
  BY DEF RequestInv
<1>5. call' = call
  BY <1>2, DecodeCases
<1>6. CASE call.api \in {"resolve", "resolveID"} /\ FallsBack(call, leg, Answer) /\ Dispatch(ListForResolve(call), 2)
  <2>1. Stated(ListForResolve(call))
    BY ResolveRequests
  <2>2. leg' = 2 /\ request' = ListForResolve(call) /\ ~Is("refused", ListForResolve(call))
    BY <1>4, <1>6, <2>1, DispatchStated DEF Underway
  <2>3. call.kind # "title"
    BY <1>6 DEF FallsBack
  <2>4. QED
    BY <1>2, <1>5, <1>6, <2>1, <2>2, <2>3 DEF RequestInv
<1>7. CASE call.api = "features" /\ leg < Len(FeaturesLegs(call)) /\ Dispatch(FeaturesLegs(call)[leg + 1], leg + 1)
  <2>1. /\ Len(FeaturesLegs(call)) \in 1..2
        /\ \A i \in 1..Len(FeaturesLegs(call)) : Stated(FeaturesLegs(call)[i])
    BY <1>3, <1>7, FeaturesRequests
  <2>2. leg + 1 \in 1..Len(FeaturesLegs(call)) /\ leg + 1 \in 1..2
    BY <1>2, <1>7, <2>1
  <2>3. Stated(FeaturesLegs(call)[leg + 1])
    BY <2>1, <2>2
  <2>4. leg' = leg + 1 /\ request' = FeaturesLegs(call)[leg + 1] /\ ~Is("refused", FeaturesLegs(call)[leg + 1])
    BY <1>4, <1>7, <2>3, DispatchStated DEF Underway
  <2>5. QED
    BY <1>2, <1>5, <1>7, <2>2, <2>3, <2>4 DEF RequestInv
<1>8. CASE Returns(IF call.api = "resolveID" THEN ResolvedID(Answer) ELSE Answer)
  BY <1>4, <1>8 DEF Returns, Underway
<1>9. QED
  BY <1>2, <1>6, <1>7, <1>8, DecodeCases

\* A POST, a pause and another client leave the request as it is.
LEMMA RequestStep ==
  ASSUME RequestInv, [Next]_vars
  PROVE  RequestInv'
<1>1. CASE Begin
  BY <1>1, BeginRequest
<1>2. CASE Decode
  BY <1>2, DecodeRequest
<1>3. CASE ~Begin /\ ~Decode
  BY <1>3, OthersKeepTheRequest DEF RequestInv
<1>4. QED
  BY <1>1, <1>2, <1>3

-----------------------------------------------------------------------------
(* What a call carries *)

\* The bounds are numbers.
LEMMA Bounds == MaxRetries \in Nat /\ MaxEdits \in Nat /\ MaxLines \in Nat
BY SdkAssumption

\* The variables start with their types.
LEMMA StateInit == ASSUME Init PROVE StateInv
<1>1. DOMAIN Failed("none") = {"err"}
  BY Outputs
<1>2. sent = <<>> /\ Len(sent) = 0 /\ sent \in Seq({})
  BY DEF Init
<1>3. Ledger(nbs)
  BY SdkAssumption DEF Init, Ledger
<1>4. TypeOK
  <2>1. pc = "idle" /\ leg = 0 /\ tries = 0 /\ reply = "none" /\ result = Failed("none") /\ edits = 0
    BY DEF Init
  <2>2. leg \in 0..2 /\ tries \in 0..MaxRetries /\ edits \in 0..MaxEdits /\ Len(sent) <= MaxLines
    BY <1>2, <2>1, Bounds
  <2>3. QED
    BY <1>1, <1>3, <2>1, <2>2 DEF TypeOK, Ledger
<1>5. QED
  BY <1>2, <1>4 DEF StateInv

\* A dispatched request is posted, or its refusal is the result.
LEMMA DispatchTyped ==
  ASSUME TypeOK, NEW r, Stated(r), NEW number \in 1..2, Dispatch(r, number)
  PROVE  /\ pc' \in {"posted", "returned"}
         /\ pc' = "posted" => Is("rpc", request') /\ Is("payload", request')
         /\ leg' \in 0..2 /\ tries' \in 0..MaxRetries
         /\ DOMAIN result' \in {{"val"}, {"err"}}
<1>1. leg' = number /\ tries' = 0 /\ 0 \in 0..MaxRetries
  BY DispatchStated, Bounds
<1>2. CASE pc' = "returned" /\ result' = Failed(r.refused)
  BY <1>1, <1>2, Outputs
<1>3. CASE pc' = "posted" /\ request' = r /\ result' = result /\ ~Is("refused", r)
  BY <1>1, <1>3 DEF Stated, TypeOK
<1>4. QED
  BY <1>2, <1>3, DispatchStated

\* The variables keep their types, one action at a time.
LEMMA StateStep ==
  ASSUME StateInv, RequestInv, [Next]_vars
  PROVE  StateInv'
<1>1. TypeOK /\ Ledger(nbs)
  BY DEF StateInv, TypeOK, Ledger
<1>2. CASE Begin
  <2>1. PICK c \in Calls : Dispatch(FirstRequest(c), 1)
    BY <1>2 DEF Begin
  <2>2. Stated(FirstRequest(c))
    BY FirstRequests
  <2>3. /\ pc' \in {"posted", "returned"}
        /\ pc' = "posted" => Is("rpc", request') /\ Is("payload", request')
        /\ leg' \in 0..2 /\ tries' \in 0..MaxRetries
        /\ DOMAIN result' \in {{"val"}, {"err"}}
    BY <1>1, <2>1, <2>2, DispatchTyped
  <2>4. UNCHANGED <<nbs, reply, edits, sent>>
    BY <1>2 DEF Begin, wire, history
  <2>5. QED
    BY <2>3, <2>4 DEF StateInv, TypeOK
<1>3. CASE Exchange \/ Wake
  <2>1. ASSUME Underway PROVE request.rpc \in RPCs
    BY <2>1 DEF RequestInv, Stated
  <2>2. \A o : Underway /\ o \in Outcomes(request.rpc, request.payload) => Ledger(o.nbs)
    BY <1>1, <2>1, OutcomesKeep
  <2>3. CASE Serve
    BY <1>1, <2>2, <2>3 DEF Serve, Commits, HandsBack, Underway, StateInv, TypeOK, Ledger
  <2>4. CASE Reject
    BY <1>1, <2>4 DEF Reject, HandsBack, StateInv, TypeOK
  <2>5. CASE FailedPost
    <3>1. Ledger(nbs')
      BY <1>1, <2>2, <2>5 DEF FailedPost, Unsure, Commits, Underway, Ledger
    <3>2. tries' \in 0..MaxRetries
      <4>1. tries \in 0..MaxRetries
        BY <1>1 DEF TypeOK
      <4>2. tries' = tries \/ (tries < MaxRetries /\ tries' = tries + 1)
        BY <2>5 DEF FailedPost, MayRetry, Counted
      <4>3. QED
        BY <4>1, <4>2, Bounds
    <3>3. pc' \in {"pausing", "answered"} /\ reply' \in {reply, "page"}
      BY <2>5 DEF FailedPost, HandsBack, wire
    <3>4. Is("rpc", request') /\ Is("payload", request') /\ UNCHANGED <<leg, result, edits, sent>>
      BY <1>1, <2>5 DEF FailedPost, TypeOK
    <3>5. QED
      BY <1>1, <3>1, <3>2, <3>3, <3>4 DEF StateInv, TypeOK, Ledger
  <2>6. CASE Lose
    <3>1. Ledger(nbs')
      BY <1>1, <2>2, <2>6 DEF Lose, Unsure, Commits, Underway, Ledger
    <3>2. QED
      BY <1>1, <2>6, <3>1, Outputs DEF Lose, wire, StateInv, TypeOK, Ledger
  <2>7. CASE StreamStarts
    BY <1>1, <2>7 DEF StreamStarts, history, StateInv, TypeOK
  <2>8. CASE Wake
    BY <1>1, <2>8, Outputs DEF Wake, wire, history, StateInv, TypeOK
  <2>9. QED
    BY <1>3, <2>3, <2>4, <2>5, <2>6, <2>7, <2>8 DEF Exchange
<1>4. CASE StreamTells
  <2>1. PICK S, s : sent \in Seq(S) /\ sent' = Append(sent, s)
    BY <1>4 DEF StateInv, StreamTells
  <2>2. sent' \in Seq(S \cup {s}) /\ Len(sent') = Len(sent) + 1 /\ Len(sent) \in Nat
    <3>1. sent \in Seq(S \cup {s})
      BY <2>1
    <3>2. QED
      BY <2>1, <3>1
  <2>3. Len(sent') <= MaxLines
    <3>1. Len(sent) < MaxLines
      BY <1>4 DEF StreamTells
    <3>2. QED
      BY <2>2, <3>1, Bounds
  <2>4. QED
    BY <1>1, <1>4, <2>2, <2>3 DEF StreamTells, StateInv, TypeOK
<1>5. CASE StreamEnds
  BY <1>1, <1>5, Outputs DEF StreamEnds, history, StateInv, TypeOK
<1>6. CASE Decode
  <2>1. Underway
    BY <1>6 DEF Decode, Underway
  <2>2. call \in Calls /\ leg \in 1..2
    BY <2>1 DEF RequestInv
  <2>3. UNCHANGED <<nbs, reply, edits, sent>>
    BY <1>6 DEF Decode, wire, history
  <2>4. ASSUME NEW r, Stated(r), NEW number \in 1..2, Dispatch(r, number) PROVE StateInv'
    <3>1. /\ pc' \in {"posted", "returned"}
          /\ pc' = "posted" => Is("rpc", request') /\ Is("payload", request')
          /\ leg' \in 0..2 /\ tries' \in 0..MaxRetries
          /\ DOMAIN result' \in {{"val"}, {"err"}}
      BY <1>1, <2>4, DispatchTyped
    <3>2. QED
      BY <2>3, <3>1 DEF StateInv, TypeOK
  <2>5. CASE call.api \in {"resolve", "resolveID"} /\ Dispatch(ListForResolve(call), 2)
    BY <2>4, <2>5, ResolveRequests
  <2>6. CASE call.api = "features" /\ leg < Len(FeaturesLegs(call)) /\ Dispatch(FeaturesLegs(call)[leg + 1], leg + 1)
    <3>1. call.op \in Methods["features"]
      BY <2>2, <2>6, SdkAssumption
    <3>2. /\ Len(FeaturesLegs(call)) \in 1..2
          /\ \A i \in 1..Len(FeaturesLegs(call)) : Stated(FeaturesLegs(call)[i])
      BY <3>1, FeaturesRequests
    <3>3. leg + 1 \in 1..2 /\ Stated(FeaturesLegs(call)[leg + 1])
      BY <2>2, <2>6, <3>2
    <3>4. QED
      BY <2>4, <2>6, <3>3
  <2>7. CASE Returns(IF call.api = "resolveID" THEN ResolvedID(Answer) ELSE Answer)
    <3>1. Fits(result')
      BY <2>2, <2>7, AnswersFit DEF Returns
    <3>2. QED
      BY <1>1, <2>3, <2>7, <3>1 DEF Returns, StateInv, TypeOK, Fits
  <2>8. QED
    BY <1>6, <2>2, <2>5, <2>6, <2>7, DecodeCases
<1>7. CASE Edit
  <2>1. Ledger(nbs')
    <3>1. PICK n \in Live(nbs) : \/ nbs' = [nbs EXCEPT ![n].title = "edited"]
                                 \/ nbs' = [nbs EXCEPT ![n].live = FALSE]
      BY <1>7 DEF Edit
    <3>2. QED
      BY <1>1, <3>1 DEF Ledger
  <2>2. edits' \in 0..MaxEdits
    <3>1. edits < MaxEdits /\ edits' = edits + 1 /\ edits \in 0..MaxEdits
      BY <1>1, <1>7 DEF Edit, TypeOK
    <3>2. QED
      BY <3>1, Bounds
  <2>3. QED
    BY <1>1, <1>7, <2>1, <2>2 DEF Edit, wire, StateInv, TypeOK, Ledger
<1>8. CASE UNCHANGED vars
  BY <1>1, <1>8 DEF vars, wire, history, StateInv, TypeOK
<1>9. QED
  BY <1>2, <1>3, <1>4, <1>5, <1>6, <1>7, <1>8 DEF Next

-----------------------------------------------------------------------------
(* A failed exchange is no answer *)

\* The body that is decoded after a failed exchange.
PageInv ==
  /\ pc = "answered" /\ reply = "page" => body \in ErrorPages
  /\ pc = "streaming" => reply = "answer"

\* The body of an error page is lines of garbage.
LEMMA PageBodies ==
  ASSUME NEW b \in ErrorPages
  PROVE  /\ Len(b) \in Nat /\ DOMAIN b = 1..Len(b) /\ \A i \in DOMAIN b : b[i] = Garbage
<1>1. CASE b = <<>>
  BY <1>1
<1>2. CASE b = <<Garbage>>
  BY <1>2
<1>3. CASE b = [i \in 1..10 |-> Garbage]
  BY <1>3
<1>4. QED
  BY <1>1, <1>2, <1>3 DEF ErrorPages

\* Nobody reads an answer out of such a body.
LEMMA PagesAreErrors ==
  ASSUME NEW b \in ErrorPages, NEW c, NEW r
  PROVE  /\ Is("err", SourcesAnswer(c, b, r))
         /\ Is("err", FeaturesAnswer(c, b, r))
         /\ c.op \in Methods["chat"] => Is("err", ChatAnswer(c, b))
<1>1. Is("err", Called(b, r))
  <2>1. Is("err", DecodeResponse(b, r.rpc, r.nullable)) /\ Fits(DecodeResponse(b, r.rpc, r.nullable))
    BY PagesAreRead, DecodersFit
  <2>2. ~Is("val", DecodeResponse(b, r.rpc, r.nullable))
    BY <2>1 DEF Is, Fits
  <2>3. QED
    BY <2>1, <2>2 DEF Called, Once
<1>2. Is("err", SourcesAnswer(c, b, r))
  BY <1>1 DEF SourcesAnswer, IfRead, Once
<1>3. Is("err", FeaturesAnswer(c, b, r))
  BY <1>1 DEF FeaturesAnswer, IfRead, Once
<1>4. Len(b) \in Nat /\ DOMAIN b = 1..Len(b) /\ \A i \in DOMAIN b : b[i] = Garbage
  BY PageBodies
<1>5. ~Is("json", Garbage)
  BY OtherLines
<1>6. ~IsDocument(b)
  BY <1>4, <1>5 DEF IsDocument
<1>7. Is("err", ParseChatStream(b))
  <2>1. \A i \in DOMAIN b : ExtractChunk(b[i]) = NoChunk
    BY <1>4, <1>5 DEF ExtractChunk
  <2>2. \A i \in DOMAIN b : Chunks(b)[i] = NoChunk
    BY <2>1 DEF Chunks
  <2>3. DOMAIN Chunks(b) = DOMAIN b
    BY DEF Chunks
  <2>4. \A x \in ToSet(Chunks(b)) : x = NoChunk
    BY <2>2, <2>3 DEF ToSet
  <2>5. ~Is("err", NoChunk) /\ ~NoChunk.parseable
    BY DEF NoChunk, Is
  <2>6. Assemble(Chunks(b)) = Failed("parse")
    BY <2>4, <2>5 DEF Assemble
  <2>7. QED
    BY <2>6, Outputs DEF ParseChatStream, Once
<1>8. c.op \in Methods["chat"] => Is("err", ChatAnswer(c, b))
  BY <1>6, <1>7, Outputs DEF ChatAnswer, Methods, DecodeChatHistory, ExtractConversationID
<1>9. QED
  BY <1>2, <1>3, <1>8

\* Only a failed POST has an error page, and a stream has none.
LEMMA PageStep ==
  ASSUME PageInv, [Next]_vars
  PROVE  PageInv'
<1>1. CASE Begin
  BY <1>1 DEF Begin, Dispatch, PageInv
<1>2. CASE Exchange
  BY <1>2 DEF Exchange, Serve, Reject, FailedPost, HandsBack, Lose, StreamStarts, PageInv
<1>3. CASE Wake \/ StreamTells
  BY <1>3 DEF Wake, StreamTells, PageInv
<1>4. CASE StreamEnds
  BY <1>4 DEF StreamEnds, PageInv
<1>5. CASE Decode
  BY <1>5 DEF Decode, Dispatch, Returns, PageInv
<1>6. CASE Edit
  BY <1>6 DEF Edit, wire, PageInv
<1>7. CASE UNCHANGED vars
  BY <1>7 DEF vars, wire, PageInv
<1>8. QED
  BY <1>1, <1>2, <1>3, <1>4, <1>5, <1>6, <1>7 DEF Next

\* A call that has returned stays as it is.
LEMMA ReturnedStays ==
  ASSUME [Next]_vars, pc = "returned" PROVE UNCHANGED vars
<1>1. ~Begin /\ ~Decode /\ ~Wake
  BY DEF Begin, Decode, Wake
<1>2. ~Exchange
  BY DEF Exchange, Serve, Reject, FailedPost, Lose, StreamStarts
<1>3. ~StreamTells /\ ~StreamEnds /\ ~Edit
  BY DEF StreamTells, StreamEnds, Edit
<1>4. QED
  BY <1>1, <1>2, <1>3 DEF Next

\* The end of a call that is no error is the return of what was decoded.
LEMMA Ends ==
  ASSUME RequestInv, [Next]_vars, pc # "returned", pc' = "returned"
  PROVE  \/ Is("err", result')
         \/ /\ pc = "answered" /\ UNCHANGED <<nbs, shape, call, wire, history, leg, request>>
            /\ result' = IF call.api = "resolveID" THEN ResolvedID(Answer) ELSE Answer
            /\ call.api = "features" /\ Is("val", Answer) => ~(leg < Len(FeaturesLegs(call)))
<1>1. CASE Begin
  <2>1. PICK c \in Calls : Dispatch(FirstRequest(c), 1)
    BY <1>1 DEF Begin
  <2>2. Stated(FirstRequest(c))
    BY FirstRequests
  <2>3. QED
    BY <2>1, <2>2, DispatchStated, Outputs
<1>2. CASE Wake \/ Lose \/ StreamEnds
  <2>1. result' \in {Failed("rpc call"), Failed("read")}
    BY <1>2 DEF Wake, Lose, StreamEnds
  <2>2. Is("err", Failed("rpc call")) /\ Is("err", Failed("read"))
    BY Outputs
  <2>3. Is("err", result')
    BY <2>1, <2>2
  <2>4. QED
    BY <2>3
<1>3. ~Serve /\ ~Reject /\ ~FailedPost /\ ~StreamStarts /\ ~StreamTells /\ ~Edit
  BY DEF Serve, Reject, FailedPost, HandsBack, StreamStarts, StreamTells, Edit
<1>4. CASE Decode
  <2>1. Underway
    BY <1>4 DEF Decode, Underway
  <2>2. call \in Calls /\ leg \in 1..2
    BY <2>1 DEF RequestInv
  <2>3. ASSUME NEW r, Stated(r), NEW number, Dispatch(r, number) PROVE Is("err", result')
    BY <2>3, DispatchStated, Outputs
  <2>4. CASE call.api \in {"resolve", "resolveID"} /\ Dispatch(ListForResolve(call), 2)
    BY <2>3, <2>4, ResolveRequests
  <2>5. CASE call.api = "features" /\ leg < Len(FeaturesLegs(call)) /\ Dispatch(FeaturesLegs(call)[leg + 1], leg + 1)
    <3>1. call.op \in Methods["features"]
      BY <2>2, <2>5, SdkAssumption
    <3>2. /\ Len(FeaturesLegs(call)) \in 1..2
          /\ \A i \in 1..Len(FeaturesLegs(call)) : Stated(FeaturesLegs(call)[i])
      BY <3>1, FeaturesRequests
    <3>3. Stated(FeaturesLegs(call)[leg + 1])
      BY <2>2, <2>5, <3>2
    <3>4. QED
      BY <2>3, <2>5, <3>3
  <2>6. QED
    BY <1>4, <2>2, <2>4, <2>5, DecodeCases DEF Returns
<1>5. CASE UNCHANGED vars
  BY <1>5 DEF vars
<1>6. QED
  BY <1>1, <1>2, <1>3, <1>4, <1>5 DEF Next, Exchange

\* Nothing that a call of another namespace, or of a parser, returns is taken from the
\* body of a failed exchange.
LEMMA ErrorsStep ==
  ASSUME RequestInv, PageInv, ErrorPagesAreErrors, [Next]_vars
  PROVE  ErrorPagesAreErrors'
<1>1. CASE pc = "returned"
  BY <1>1, ReturnedStays DEF ErrorPagesAreErrors, vars, wire
<1>2. CASE pc # "returned"
  <2>1. SUFFICES ASSUME pc' = "returned", call'.api \in {"features", "sources", "chat"}, reply' = "page"
                 PROVE  Is("err", result')
    BY DEF ErrorPagesAreErrors
  <2>2. SUFFICES ASSUME pc = "answered", UNCHANGED <<call, wire, request>>,
                        result' = IF call.api = "resolveID" THEN ResolvedID(Answer) ELSE Answer
                 PROVE  Is("err", result')
    BY <1>2, <2>1, Ends
  <2>3. body \in ErrorPages /\ result' = Answer /\ call.api \in {"features", "sources", "chat"}
    BY <2>1, <2>2 DEF PageInv, wire
  <2>4. call \in Calls
    BY <2>2 DEF RequestInv, Underway
  <2>5. call.op \in Methods[call.api]
    BY <2>4, SdkAssumption
  <2>6. CASE call.api = "features"
    BY <2>3, <2>6, PagesAreErrors DEF Answer
  <2>7. CASE call.api = "sources"
    BY <2>3, <2>7, PagesAreErrors DEF Answer
  <2>8. CASE call.api = "chat"
    BY <2>3, <2>5, <2>8, PagesAreErrors DEF Answer
  <2>9. QED
    BY <2>3, <2>6, <2>7, <2>8
<1>3. QED
  BY <1>1, <1>2

\* What every step of a call keeps.
CallInv == StateInv /\ RequestInv /\ PageInv

\* The invariant of a call holds at the start.
LEMMA CallStart == ASSUME Init PROVE CallInv
BY StateInit, RequestInit DEF CallInv, PageInv, Init

\* Every step keeps the invariant of a call.
LEMMA CallStep == ASSUME CallInv, [Next]_vars PROVE CallInv'
BY StateStep, RequestStep, PageStep DEF CallInv

\* Sdk: whatever is posted and answered, a call keeps the request of its leg, and what it
\* carries has its type.
THEOREM CallInvariant == Spec => []CallInv
<1>1. Init => CallInv
  BY CallStart
<1>2. CallInv /\ [Next]_vars => CallInv'
  BY CallStep
<1>3. QED
  BY <1>1, <1>2, PTL DEF Spec

\* internal/web/wire: the body of a failed exchange is an error for every feature call,
\* for the Sources namespace and for the parsers of the chat.
THEOREM PagesAreNoAnswers == Spec => []ErrorPagesAreErrors
<1>1. Init => ErrorPagesAreErrors
  BY DEF Init, ErrorPagesAreErrors
<1>2. CallInv /\ ErrorPagesAreErrors /\ [Next]_vars => ErrorPagesAreErrors'
  BY ErrorsStep DEF CallInv
<1>3. QED
  BY <1>1, <1>2, CallInvariant, PTL DEF Spec

-----------------------------------------------------------------------------
(* Lists of the server *)

\* The sequence of a finite set has each of its elements.
LEMMA SequenceOfSet ==
  ASSUME NEW S, IsFiniteSet(S)
  PROVE  /\ Cardinality(S) \in Nat /\ DOMAIN SetToSeq(S) = 1..Cardinality(S)
         /\ Len(SetToSeq(S)) = Cardinality(S)
         /\ \A i \in DOMAIN SetToSeq(S) : SetToSeq(S)[i] \in S
         /\ \A x \in S : \E i \in DOMAIN SetToSeq(S) : SetToSeq(S)[i] = x
<1> DEFINE n == Cardinality(S)
           f == SetToSeq(S)
<1>1. n \in Nat /\ ExistsBijection(1..n, S)
  BY FS_CardinalityType
<1>2. \E g \in [1..n -> S] : IsInjective(g)
  <2>1. PICK g : g \in Bijection(1..n, S)
    BY <1>1 DEF ExistsBijection
  <2>2. g \in [1..n -> S] /\ IsInjective(g)
    BY <2>1 DEF Bijection, Injection, IsInjective
  <2>3. QED
    BY <2>2
<1>3. f \in [1..n -> S] /\ IsInjective(f)
  BY <1>2 DEF SetToSeq
<1>4. f \in Injection(1..n, S)
  BY <1>3 DEF Injection, IsInjective
<1>5. f \in Surjection(1..n, S)
  <2>1. IsFiniteSet(1..n) /\ Cardinality(1..n) = n
    BY <1>1, FS_Interval
  <2>2. QED
    BY <1>4, <2>1, FS_Injection
<1>6. Len(f) = n
  BY <1>1, <1>3
<1>7. \A x \in S : \E i \in 1..n : f[i] = x
  BY <1>5 DEF Surjection
<1>8. QED
  BY <1>1, <1>3, <1>6, <1>7

-----------------------------------------------------------------------------
(* Rows of the server *)

\* The slots of a notebook's row that the decoders read.
LEMMA NotebookRowFacts ==
  ASSUME NEW s, NEW n
  PROVE  LET row == NotebookRow(s, n)
         IN /\ Is("list", row) /\ row = JList(row.list) /\ Len(row.list) = 6
            /\ row.list[1] = JStr(s[n].title)
            /\ row.list[2] = JList(Mapped(SourceRow, s[n].sources))
            /\ row.list[3] = JStr(n)
<1> DEFINE l == <<JStr(s[n].title), JList(Mapped(SourceRow, s[n].sources)), JStr(n), Null, Null,
                  JList(<<JNum(SharePermissionOwner)>>)>>
<1>1. NotebookRow(s, n) = JList(l)
  BY DEF NotebookRow
<1>2. Len(l) = 6 /\ l[1] = JStr(s[n].title) /\ l[2] = JList(Mapped(SourceRow, s[n].sources)) /\ l[3] = JStr(n)
  OBVIOUS
<1> HIDE DEF l
<1>3. DOMAIN JList(l) = {"list"} /\ JList(l).list = l
  BY Kinds
<1>4. QED
  BY <1>1, <1>2, <1>3 DEF Is

\* A row is decoded to the notebook it shows.
LEMMA NotebookRowIsRead ==
  ASSUME NEW s, NEW n
  PROVE  /\ DecodeNotebook(NotebookRow(s, n)).id = n
         /\ DecodeNotebook(NotebookRow(s, n)).title = StripThoughtPrefix(s[n].title)
<1> DEFINE row == NotebookRow(s, n)
           l   == row.list
<1>1. /\ Is("list", row) /\ row = JList(l) /\ Len(l) = 6
      /\ l[1] = JStr(s[n].title) /\ l[3] = JStr(n)
  BY NotebookRowFacts
<1>2. ~Is("null", row)
  BY <1>1, Kinds DEF Is
<1> HIDE DEF row, l
<1>3. At(row, Slot(0)) = Ok(JStr(s[n].title)) /\ At(row, Slot(2)) = Ok(JStr(n))
  BY <1>1, Slots
<1>4. OptStr(row, Slot(0)) = s[n].title /\ OptStr(row, Slot(2)) = n
  BY <1>3, StrReads
<1>5. DecodeNotebook(row).id = n
  BY <1>2, <1>4 DEF DecodeNotebook
<1>6. DecodeNotebook(row).title = IF s[n].title = "" THEN "" ELSE StripThoughtPrefix(s[n].title)
  BY <1>2, <1>4 DEF DecodeNotebook
<1>7. StripThoughtPrefix("") = ""
  BY SdkAssumption
<1>8. QED
  BY <1>5, <1>6, <1>7 DEF row

\* The id heads the row; an empty one is no id.
LEMMA SourceRowIsRead ==
  ASSUME NEW x
  PROVE  /\ Is("list", SourceRow(x)) /\ SourceRow(x) = JList(SourceRow(x).list)
         /\ DecodeSource(SourceRow(x)).id = x.id
<1> DEFINE row == SourceRow(x)
           l   == <<JStr(x.id), JStr(x.text), JList(Nulls(4) \o <<JNum(KindCode(x.kind))>>), JList(<<Null, JNum(2)>>)>>
           ids == <<StrAt(row, Slot(0)), StrAt(row, <<JNum(0), JNum(0)>>), StrAt(row, <<JNum(0), JNum(2), JNum(0)>>)>>
           usable == {i \in 1..3 : Found(ids[i]) /\ ids[i].ok # ""}
<1>1. row = JList(l)
  BY DEF SourceRow
<1>2. Len(l) = 4 /\ l[1] = JStr(x.id)
  OBVIOUS
<1> HIDE DEF l, row
<1>3. DOMAIN row = {"list"} /\ row.list = l
  BY <1>1, Kinds
<1>4. At(row, Slot(0)) = Ok(JStr(x.id))
  BY <1>1, <1>2, Slots
<1>5. Step(Ok(row), JNum(0)) = Ok(JStr(x.id))
  BY <1>1, <1>2, Descents
<1>6. At(row, <<JNum(0), JNum(0)>>) = Drift("not_a_list")
  BY <1>5, PathTwo, Descents
<1>7. At(row, <<JNum(0), JNum(2), JNum(0)>>) = Drift("not_a_list")
  BY <1>5, PathThree, Descents
<1>8. /\ StrAt(row, Slot(0)) = Ok(x.id)
      /\ ~Found(StrAt(row, <<JNum(0), JNum(0)>>))
      /\ ~Found(StrAt(row, <<JNum(0), JNum(2), JNum(0)>>))
  <2>1. StrAt(row, Slot(0)) = Ok(x.id)
    BY <1>4, StrReads
  <2>2. ~Found(StrAt(row, <<JNum(0), JNum(0)>>))
    BY <1>6, NoStrReads
  <2>3. ~Found(StrAt(row, <<JNum(0), JNum(2), JNum(0)>>))
    BY <1>7, NoStrReads
  <2>4. QED
    BY <2>1, <2>2, <2>3
<1>9. Found(Ok(x.id)) /\ Ok(x.id).ok = x.id
  BY Kinds, Founds
<1>10. usable = IF x.id = "" THEN {} ELSE {1}
  <2>1. ids[1] = Ok(x.id) /\ ~Found(ids[2]) /\ ~Found(ids[3])
    BY <1>8
  <2> HIDE DEF ids
  <2>2. 1..3 = {1, 2, 3}
    OBVIOUS
  <2>3. \A i \in {2, 3} : ~(Found(ids[i]) /\ ids[i].ok # "")
    BY <2>1
  <2>4. Found(ids[1]) /\ ids[1].ok = x.id
    BY <1>9, <2>1
  <2>5. QED
    BY <2>2, <2>3, <2>4
<1>11. ExtractSourceID(row) = x.id
  <2>1. ExtractSourceID(row) = IF usable = {} THEN "" ELSE ids[Min(usable)].ok
    BY DEF ExtractSourceID
  <2>2. Min({1}) = 1
    BY DEF Min
  <2>3. ids[1] = Ok(x.id)
    BY <1>8
  <2> HIDE DEF usable, ids
  <2>4. QED
    BY <1>9, <1>10, <2>1, <2>2, <2>3
<1>12. ~Is("null", row)
  BY <1>3 DEF Is
<1>13. DecodeSource(row).id = x.id
  BY <1>11, <1>12 DEF DecodeSource
<1>14. QED
  BY <1>1, <1>3, <1>13 DEF row, Is

-----------------------------------------------------------------------------
(* Listings of the server *)

\* The page that the rows of the notebooks decode to.
PageOf(s) == Mapped(DecodeNotebook, NotebookRows(s).list[1].list)

\* The payload of a listing: one row for every notebook that lives.
LEMMA NotebookRowsFacts ==
  ASSUME NEW s
  PROVE  LET v    == NotebookRows(s)
             ids  == SetToSeq(Live(s))
             rows == v.list[1].list
         IN /\ Is("list", v) /\ v = JList(v.list) /\ Len(v.list) = 1 /\ v.list = <<v.list[1]>>
            /\ Is("list", v.list[1]) /\ v.list[1] = JList(rows)
            /\ DOMAIN rows = DOMAIN ids
            /\ \A i \in DOMAIN ids : rows[i] = NotebookRow(s, ids[i])
<1> DEFINE ids  == SetToSeq(Live(s))
           rows == [i \in DOMAIN ids |-> NotebookRow(s, ids[i])]
           l    == <<JList(rows)>>
<1>1. Mapped(LAMBDA n : NotebookRow(s, n), ids) = rows
  BY DEF Mapped, Once
<1>2. NotebookRows(s) = JList(l)
  BY <1>1 DEF NotebookRows
<1>3. DOMAIN rows = DOMAIN ids /\ \A i \in DOMAIN ids : rows[i] = NotebookRow(s, ids[i])
  OBVIOUS
<1> HIDE DEF ids, rows
<1>4. Len(l) = 1 /\ l[1] = JList(rows)
  OBVIOUS
<1>5. l = <<l[1]>>
  BY <1>4
<1> HIDE DEF l
<1>6. /\ DOMAIN JList(l) = {"list"} /\ JList(l).list = l
      /\ DOMAIN JList(rows) = {"list"} /\ JList(rows).list = rows
  BY Kinds
<1>7. QED
  BY <1>2, <1>3, <1>4, <1>5, <1>6 DEF Is, ids

\* The page of a listing holds every living notebook, and nothing else.
LEMMA PageFacts ==
  ASSUME NEW s
  PROVE  LET ids == SetToSeq(Live(s))
         IN /\ DOMAIN PageOf(s) = DOMAIN ids
            /\ \A i \in DOMAIN ids :
                 /\ ids[i] \in Live(s)
                 /\ PageOf(s)[i].id = ids[i]
                 /\ PageOf(s)[i].title = StripThoughtPrefix(s[ids[i]].title)
            /\ \A n \in Live(s) : \E i \in DOMAIN ids : ids[i] = n
            /\ \E k \in Nat : DOMAIN ids = 1..k
<1> DEFINE ids == SetToSeq(Live(s))
<1>1. IsFiniteSet(Live(s))
  <2>1. IsFiniteSet(NbIds)
    BY SdkAssumption
  <2>2. Live(s) \subseteq NbIds
    BY DEF Live
  <2>3. QED
    BY <2>1, <2>2, FS_Subset
<1>2. /\ Cardinality(Live(s)) \in Nat /\ DOMAIN ids = 1..Cardinality(Live(s))
      /\ \A i \in DOMAIN ids : ids[i] \in Live(s)
      /\ \A n \in Live(s) : \E i \in DOMAIN ids : ids[i] = n
  BY <1>1, SequenceOfSet
<1>3. /\ DOMAIN NotebookRows(s).list[1].list = DOMAIN ids
      /\ \A i \in DOMAIN ids : NotebookRows(s).list[1].list[i] = NotebookRow(s, ids[i])
  BY NotebookRowsFacts
<1> HIDE DEF ids
<1>4. /\ DOMAIN PageOf(s) = DOMAIN ids
      /\ \A i \in DOMAIN ids : PageOf(s)[i] = DecodeNotebook(NotebookRow(s, ids[i]))
  BY <1>3 DEF PageOf, Mapped, Once
<1>5. \A i \in DOMAIN ids : /\ PageOf(s)[i].id = ids[i]
                            /\ PageOf(s)[i].title = StripThoughtPrefix(s[ids[i]].title)
  BY <1>4, NotebookRowIsRead
<1>6. QED
  BY <1>2, <1>4, <1>5 DEF ids

\* The page shows what there is.
LEMMA PageIsWhole ==
  ASSUME NEW s
  PROVE  {[id |-> nb.id, title |-> nb.title] : nb \in ToSet(PageOf(s))} = Labels(s)
<1> DEFINE ids == SetToSeq(Live(s))
           Shown(nb) == [id |-> nb.id, title |-> nb.title]
           Label(n)  == [id |-> n, title |-> StripThoughtPrefix(s[n].title)]
<1>1. DOMAIN PageOf(s) = DOMAIN ids
  BY PageFacts
<1>2. \A i \in DOMAIN ids : ids[i] \in Live(s) /\ Shown(PageOf(s)[i]) = Label(ids[i])
  BY PageFacts
<1>3. \A n \in Live(s) : \E i \in DOMAIN ids : ids[i] = n
  BY PageFacts
<1> HIDE DEF ids, Shown, Label
<1>4. {Shown(nb) : nb \in ToSet(PageOf(s))} = {Label(n) : n \in Live(s)}
  <2>1. ASSUME NEW nb \in ToSet(PageOf(s)) PROVE \E n \in Live(s) : Shown(nb) = Label(n)
    BY <1>1, <1>2, <2>1 DEF ToSet
  <2>2. ASSUME NEW n \in Live(s) PROVE \E nb \in ToSet(PageOf(s)) : Shown(nb) = Label(n)
    BY <1>1, <1>2, <1>3, <2>2 DEF ToSet
  <2>3. QED
    BY <2>1, <2>2
<1>5. QED
  BY <1>4 DEF Labels, Shown, Label

\* A label of the page is one of the server.
LEMMA PageShowsLabels ==
  ASSUME NEW s, NEW i \in DOMAIN PageOf(s)
  PROVE  [id |-> PageOf(s)[i].id, title |-> PageOf(s)[i].title] \in Labels(s)
<1>1. PageOf(s)[i] \in ToSet(PageOf(s))
  BY DEF ToSet
<1>2. QED
  BY <1>1, PageIsWhole

-----------------------------------------------------------------------------
(* What is made of the answers *)

\* An answer in any of its bodies is extracted, and decoded, to itself.
LEMMA AnswersAreTaken ==
  ASSUME NEW rpc, Method(rpc), rpc # "GetConversationTurns",
         NEW a, Is("list", a), a = JList(a.list), NEW b \in Bodies(rpc, a)
  PROVE  /\ Extracted(b, rpc) = View(a.list)
         /\ \A r : r.rpc = rpc => Called(b, r) = View(a)
<1>1. \E i \in DOMAIN b : b[i] # Blank
  BY AnswersAreRead
<1>2. ExtractResult(b, rpc) = View(a) /\ \A allow : DecodeResponse(b, rpc, allow) = View(a)
  BY AnswersAreRead DEF View
<1>3. Is("val", View(a)) /\ ~Is("err", View(a)) /\ View(a).val = a
  BY Outputs
<1>4. a # NotJSON
  BY Kinds DEF Is
<1>5. Extracted(b, rpc) = View(a.list)
  <2>1. ~(ToSet(b) \subseteq {Blank})
    BY <1>1 DEF ToSet
  <2>2. QED
    BY <1>2, <1>3, <2>1 DEF Extracted, Once
<1>6. ASSUME NEW r, r.rpc = rpc PROVE Called(b, r) = View(a)
  BY <1>2, <1>3, <1>4, <1>6 DEF Called, Once
<1>7. QED
  BY <1>5, <1>6

\* A status, or the page of a failed exchange, is nil or an error.
LEMMA OthersAreNil ==
  ASSUME NEW rpc, Method(rpc), NEW b,
         b \in ErrorPages \/ \E n \in {5, 7} : b \in Framings(Status(rpc, n))
  PROVE  /\ Extracted(b, rpc) = View(<<>>) \/ Is("err", Extracted(b, rpc))
         /\ \A r : r.rpc = rpc /\ r.nullable = FALSE => Is("err", Called(b, r))
<1>1. Is("err", ExtractResult(b, rpc)) /\ Is("err", DecodeResponse(b, rpc, FALSE))
  <2>1. CASE b \in ErrorPages
    BY <2>1, PagesAreRead
  <2>2. CASE \E n \in {5, 7} : b \in Framings(Status(rpc, n))
    <3>1. ExtractResult(b, rpc) = [err |-> "decoding"] /\ Is("err", DecodeResponse(b, rpc, FALSE))
      BY <2>2, StatusesAreRead
    <3>2. QED
      BY <3>1 DEF Is
  <2>3. QED
    BY <2>1, <2>2
<1>2. Extracted(b, rpc) = View(<<>>) \/ Is("err", Extracted(b, rpc))
  <2>1. Extracted(b, rpc) \in {View(<<>>), Failed("rpc")}
    BY <1>1 DEF Extracted, Once
  <2>2. Is("err", Failed("rpc"))
    BY Outputs
  <2>3. QED
    BY <2>1, <2>2
<1>3. ASSUME NEW r, r.rpc = rpc, r.nullable = FALSE PROVE Is("err", Called(b, r))
  <2>1. Fits(DecodeResponse(b, rpc, FALSE))
    BY DecodersFit
  <2>2. ~Is("val", DecodeResponse(b, rpc, FALSE))
    <3>1. \A x : Fits(x) /\ Is("err", x) => ~Is("val", x)
      BY DEF Fits, Is
    <3>2. QED
      BY <1>1, <2>1, <3>1
  <2>3. QED
    BY <1>1, <1>3, <2>2 DEF Called, Once
<1>4. QED
  BY <1>2, <1>3

\* Both decoders of a listing return that page.
LEMMA PagesOfListings ==
  ASSUME NEW s
  PROVE  /\ PageFromList(NotebookRows(s).list, 0) = View(PageOf(s))
         /\ DecodeNotebookRows(NotebookRows(s)) = View(PageOf(s))
<1> DEFINE v    == NotebookRows(s)
           rows == v.list[1].list
<1>1. /\ Is("list", v) /\ Len(v.list) = 1 /\ v.list = <<v.list[1]>>
      /\ Is("list", v.list[1]) /\ v.list[1] = JList(rows) /\ v = JList(v.list)
  BY NotebookRowsFacts
<1>2. PageOf(s) = Mapped(DecodeNotebook, rows)
  BY DEF PageOf
<1> HIDE DEF v
<1>3. PageFromList(v.list, 0) = View(PageOf(s))
  <2>1. v.list # <<>>
    BY <1>1
  <2>2. QED
    BY <1>1, <1>2, <2>1 DEF PageFromList, Capped
<1>4. RowsAt(v, <<0>>) = View(rows)
  <2>1. ~Is("null", v) /\ ~Is("null", v.list[1])
    BY <1>1, Kinds DEF Is
  <2>2. Enter(Rest(v), 0) = Rest(v.list[1])
    BY <1>1, <2>1 DEF Enter, Rest, Is
  <2>3. RowsOf(Rest(v.list[1])) = View(rows)
    BY <1>1, <2>1 DEF RowsOf, Rest, Is
  <2>4. QED
    BY <2>2, <2>3, RowsOne
<1>5. DecodeNotebookRows(v) = View(PageOf(s))
  BY <1>2, <1>4, Outputs DEF DecodeNotebookRows, WithRows, Once
<1>6. QED
  BY <1>3, <1>5 DEF v

\* The sources of a notebook, read from its row in a list; a bare row is drift.
LEMMA SourcesOfListings ==
  ASSUME NEW s, NEW n, NEW v, v = Shaped(NotebookRow(s, n))
  PROVE  \/ Is("err", DecodeSourceRows(v))
         \/ \E page : /\ DecodeSourceRows(v) = View(page)
                      /\ {x.id : x \in ToSet(page)} = {x.id : x \in ToSet(s[n].sources)}
<1> DEFINE row == NotebookRow(s, n)
           sources == s[n].sources
           rows == [i \in DOMAIN sources |-> SourceRow(sources[i])]
           page == [i \in DOMAIN rows |-> DecodeSource(rows[i])]
<1>1. /\ Is("list", row) /\ row = JList(row.list) /\ Len(row.list) = 6
      /\ row.list[1] = JStr(s[n].title) /\ row.list[2] = JList(rows)
  <2>1. Mapped(SourceRow, sources) = rows
    BY DEF Mapped, Once
  <2>2. QED
    BY <2>1, NotebookRowFacts
<1>2. ~Is("null", row) /\ ~Is("null", row.list[1]) /\ ~Is("list", row.list[1])
  BY <1>1, Kinds DEF Is
<1>3. ~Is("null", row.list[2]) /\ Is("list", row.list[2]) /\ row.list[2].list = rows
  BY <1>1, Kinds DEF Is
<1>4. \A x : Is("rest", Rest(x)) /\ Rest(x).rest = x
  BY DEF Rest, Is
<1>5. CASE shape = "row"
  <2>1. v = row
    BY <1>5 DEF Shaped
  <2> HIDE DEF row, rows, page
  <2>2. Enter(Rest(v), 0) = Rest(row.list[1])
    BY <1>1, <1>2, <1>4, <2>1 DEF Enter
  <2>3. Enter(Rest(row.list[1]), 1) = ShapeDrift
    BY <1>2, <1>4 DEF Enter
  <2>4. RowsOf(ShapeDrift) = ShapeDrift /\ ~Is("val", ShapeDrift) /\ Is("err", ShapeDrift)
    BY DEF RowsOf, ShapeDrift, Is
  <2>5. RowsAt(v, <<0, 1>>) = ShapeDrift
    BY <2>2, <2>3, <2>4, RowsTwo
  <2>6. DecodeSourceRows(v) = ShapeDrift
    BY <2>4, <2>5 DEF DecodeSourceRows, WithRows, Once
  <2>7. QED
    BY <2>4, <2>6
<1>6. CASE shape # "row"
  <2>1. v = JList(<<row>>)
    BY <1>6 DEF Shaped
  <2>2. Is("list", v) /\ ~Is("null", v) /\ v.list = <<row>>
    BY <2>1, Kinds DEF Is
  <2> HIDE DEF row
  <2>3. Len(v.list) = 1 /\ v.list[1] = row
    BY <2>2
  <2> HIDE DEF rows, page
  <2>4. Enter(Rest(v), 0) = Rest(row)
    BY <1>4, <2>2, <2>3 DEF Enter
  <2>5. Enter(Rest(row), 1) = Rest(row.list[2])
    BY <1>1, <1>2, <1>4 DEF Enter
  <2>6. RowsOf(Rest(row.list[2])) = View(rows)
    BY <1>3, <1>4 DEF RowsOf
  <2>7. RowsAt(v, <<0, 1>>) = View(rows)
    BY <2>4, <2>5, <2>6, RowsTwo
  <2>8. DecodeSourceRows(v) = View(page)
    BY <2>7, Outputs DEF DecodeSourceRows, WithRows, Once, Mapped, page
  <2>9. DOMAIN page = DOMAIN sources /\ \A i \in DOMAIN sources : page[i].id = sources[i].id
    BY SourceRowIsRead DEF page, rows
  <2>10. {x.id : x \in ToSet(page)} = {x.id : x \in ToSet(sources)}
    BY <2>9 DEF ToSet
  <2>11. QED
    BY <2>8, <2>10
<1>7. QED
  BY <1>5, <1>6

-----------------------------------------------------------------------------
(* The body that is decoded *)

\* The rpcs whose answers the properties are about.
Told == {"ListNotebooks", "GetNotebook", "AddSource", "AddSourceFile", "CreateNotebook"}

\* The answers to a payload of a server whose notebooks are s and that has added a set of
\* things: a row as it is, or in a list.
Tells(rpc, payload, form, s, made) ==
  CASE rpc = "ListNotebooks" -> {NotebookRows(s)}
    [] rpc = "GetNotebook" ->
         {IF form = "row" THEN NotebookRow(s, n) ELSE JList(<<NotebookRow(s, n)>>)
            : n \in {OptStr(payload, Slot(0))} \cap Live(s)}
    [] rpc \in {"AddSource", "AddSourceFile"} ->
         {JList(<<SourceRow([id |-> a.id, kind |-> a.kind, text |-> a.text])>>) : a \in made}
    [] rpc = "CreateNotebook" -> {NotebookRow(s, a.id) : a \in made}

\* The answer of this leg, wrapped, from a server whose notebooks the call has seen.
Answering ==
  \E s \in served[leg] :
    /\ served[leg] = {s} /\ Labels(s) \subseteq seen
    /\ \E answer \in Tells(request.rpc, request.payload, shape, s, added) : body \in Bodies(request.rpc, answer)

BodyInv ==
  /\ DOMAIN served = 1..2
  /\ pc = "idle" => added = {} /\ served[1] = {}
  /\ pc = "streaming" => request.rpc = "Chat"
  /\ pc = "answered" =>
       /\ reply \in {"answer", "missing", "denied", "page"}
       /\ reply \in {"missing", "denied"} => \E n \in {5, 7} : body \in Framings(Status(request.rpc, n))
       /\ reply = "answer" /\ request.rpc \in Told => Answering

\* An outcome of one of these rpcs tells what the server has after it, and it keeps
\* telling it whatever else is added.
LEMMA OutcomesTell ==
  ASSUME NEW rpc \in Told, NEW payload, NEW o \in Outcomes(rpc, payload), NEW made, o.made \subseteq made
  PROVE  o.answer \in Tells(rpc, payload, shape, o.nbs, made)
<1>1. CASE rpc = "ListNotebooks"
  <2>1. o = Says(NotebookRows(nbs))
    BY <1>1, OutcomesOf
  <2>2. o.nbs = nbs /\ o.answer = NotebookRows(nbs)
    BY <2>1, OutcomeFields
  <2>3. QED
    BY <1>1, <2>2 DEF Tells
<1>2. CASE rpc = "GetNotebook"
  <2> DEFINE n == OptStr(payload, Slot(0))
  <2>1. n \in Live(nbs) /\ o = Says(Shaped(NotebookRow(nbs, n)))
    BY <1>2, OutcomesOf
  <2>2. o.nbs = nbs /\ o.answer = Shaped(NotebookRow(nbs, n))
    BY <2>1, OutcomeFields
  <2>3. QED
    BY <1>2, <2>1, <2>2 DEF Tells, Shaped
<1>3. CASE rpc \in {"AddSource", "AddSourceFile"}
  <2>1. o \in AddsSource(payload)
    BY <1>3, OutcomesOf
  <2>2. PICK f, src : f \in Filled(SpecOf(payload)) /\ Appends(payload, f, src, o)
    BY <2>1, AddsForm
  <2> DEFINE a == [nb |-> OptStr(payload, Slot(1)), id |-> src.id, kind |-> src.kind, text |-> src.text]
  <2>3. o.answer = JList(<<SourceRow(src)>>) /\ o.made = {a}
    BY <2>2, OutcomeFields DEF Appends
  <2>4. src = [id |-> a.id, kind |-> a.kind, text |-> a.text]
    BY <2>2 DEF Appends
  <2>5. a \in made
    BY <2>3
  <2> HIDE DEF a
  <2>6. QED
    BY <1>3, <2>3, <2>4, <2>5 DEF Tells
<1>4. CASE rpc = "CreateNotebook"
  <2>1. o \in Creates(OptStr(payload, Slot(0)))
    BY <1>4, OutcomesOf
  <2>2. PICK n, after :
          /\ n \in NbIds
          /\ n \notin Live(nbs)
          /\ after = [nbs EXCEPT ![n].live = TRUE, ![n].title = OptStr(payload, Slot(0))]
          /\ o = Outcome(after, NotebookRow(after, n),
                         {[nb |-> n, id |-> n, kind |-> "notebook", text |-> OptStr(payload, Slot(0))]})
    BY <2>1, CreatesForm
  <2> DEFINE a == [nb |-> n, id |-> n, kind |-> "notebook", text |-> OptStr(payload, Slot(0))]
  <2>3. o.nbs = after /\ o.answer = NotebookRow(after, n) /\ o.made = {a} /\ a.id = n
    BY <2>2, OutcomeFields
  <2> HIDE DEF a
  <2>4. QED
    BY <1>4, <2>3 DEF Tells
<1>5. QED
  BY <1>1, <1>2, <1>3, <1>4 DEF Told

\* Nothing was served or added at the start.
LEMMA BodyInit == ASSUME Init PROVE BodyInv
BY DEF Init, BodyInv

\* An answer stays one while other users edit.
LEMMA AnsweringStays ==
  ASSUME Answering, UNCHANGED <<served, leg, request, shape, added, body>>, seen \subseteq seen'
  PROVE  Answering'
BY DEF Answering

\* A POST fills the body with what the server tells; nothing else writes it.
LEMMA BodyStep ==
  ASSUME BodyInv, RequestInv, PageInv, [Next]_vars
  PROVE  BodyInv'
<1>1. ASSUME pc = "posted"
      PROVE  leg \in DOMAIN served /\ request.rpc \in RPCs
  BY <1>1 DEF BodyInv, RequestInv, Underway, Stated
<1>2. CASE Begin
  BY <1>2 DEF Begin, Dispatch, wire, history, BodyInv
<1>3. CASE Serve
  <2>1. PICK o \in Outcomes(request.rpc, request.payload) :
          /\ Commits(o)
          /\ served' = [served EXCEPT ![leg] = {o.nbs}]
          /\ \E b \in Bodies(request.rpc, o.answer) : HandsBack(b, "answer")
    BY <1>3 DEF Serve
  <2>2. UNCHANGED <<shape, leg, request>> /\ pc' = "answered" /\ reply' = "answer"
        /\ body' \in Bodies(request.rpc, o.answer)
    BY <1>3, <2>1 DEF Serve, HandsBack
  <2>3. leg \in DOMAIN served
    BY <1>1, <1>3 DEF Serve
  <2>4. served'[leg] = {o.nbs} /\ DOMAIN served' = DOMAIN served
    BY <2>1, <2>3
  <2>5. Labels(o.nbs) \subseteq seen' /\ o.made \subseteq added'
    BY <2>1 DEF Commits
  <2>6. ASSUME request.rpc \in Told PROVE Answering'
    <3>1. o.answer \in Tells(request.rpc, request.payload, shape, o.nbs, added')
      BY <2>5, <2>6, OutcomesTell
    <3>2. QED
      BY <2>2, <2>4, <2>5, <3>1 DEF Answering
  <2>7. DOMAIN served' = 1..2
    BY <2>4 DEF BodyInv
  <2>8. QED
    BY <2>2, <2>6, <2>7 DEF BodyInv
<1>4. CASE Reject
  BY <1>4 DEF Reject, HandsBack, BodyInv
<1>5. CASE FailedPost
  BY <1>5 DEF FailedPost, HandsBack, BodyInv
<1>6. CASE Lose
  BY <1>6 DEF Lose, BodyInv
<1>7. CASE StreamStarts
  BY <1>7 DEF StreamStarts, history, BodyInv
<1>8. CASE Wake
  BY <1>8 DEF Wake, wire, history, BodyInv
<1>9. CASE StreamTells
  BY <1>9 DEF StreamTells, BodyInv
<1>10. CASE StreamEnds
  <2>1. pc = "streaming" /\ request.rpc = "Chat" /\ pc' \in {"answered", "returned"} /\ reply = "answer"
    BY <1>10 DEF StreamEnds, BodyInv, PageInv
  <2>2. QED
    BY <1>10, <2>1 DEF StreamEnds, history, BodyInv, Told
<1>11. CASE Decode
  BY <1>11 DEF Decode, Dispatch, Returns, history, BodyInv
<1>12. CASE Edit
  <2>1. /\ UNCHANGED <<pc, leg, request, shape, served, added, body, reply>> /\ seen \subseteq seen'
        /\ pc \in {"posted", "answered"}
    BY <1>12 DEF Edit, wire
  <2>2. QED
    BY <2>1, AnsweringStays DEF BodyInv
<1>13. CASE UNCHANGED vars
  BY <1>13, AnsweringStays DEF vars, wire, history, BodyInv
<1>14. QED
  BY <1>2, <1>3, <1>4, <1>5, <1>6, <1>7, <1>8, <1>9, <1>10, <1>11, <1>12, <1>13
     DEF Next, Exchange

-----------------------------------------------------------------------------
(* Listings *)

\* The payload of a Get names its notebook.
LEMMA GetPayload == ASSUME NEW nb PROVE OptStr(BuildGet(nb), Slot(0)) = nb
<1> DEFINE l == <<JStr(nb), Null, TemplateBlock, Null, JNum(0)>>
<1>1. BuildGet(nb) = JList(l)
  BY DEF BuildGet, Row
<1>2. Len(l) = 5 /\ l[1] = JStr(nb)
  OBVIOUS
<1> HIDE DEF l
<1>3. At(BuildGet(nb), Slot(0)) = Ok(JStr(nb))
  BY <1>1, <1>2, Slots
<1>4. QED
  BY <1>3, StrReads

\* The one request of a listing, by the namespace that makes it.
LEMMA ListingRequests ==
  ASSUME RequestInv, Underway, call.op \in {"List", "GetRecent"}
  PROVE  /\ leg = 1
         /\ \/ call.api = "notebooks" /\ request.rpc = "ListNotebooks"
            \/ call.api = "features" /\ call.op = "List" /\ request.rpc = "ListNotebooks"
            \/ /\ call.api = "sources" /\ call.op = "List" /\ request.rpc = "GetNotebook"
               /\ request.payload = BuildGet(call.nb)
<1>1. call \in Calls /\ leg \in 1..2 /\ ~Is("refused", request)
  BY DEF RequestInv
<1>2. call.api \in DOMAIN Methods /\ call.op \in Methods[call.api]
  BY <1>1, SdkAssumption
<1>3. call.api \in {"notebooks", "features", "sources"}
  BY <1>2 DEF Methods
<1>4. CASE call.api = "notebooks"
  <2>1. leg = 1 /\ request = NotebooksRequest(call)
    BY <1>4 DEF RequestInv, FirstRequest
  <2>2. request = Asks("ListNotebooks", BuildList)
    BY <2>1 DEF NotebooksRequest, List, GetRecent, BuildGetRecent
  <2>3. QED
    BY <1>4, <2>1, <2>2, RequestForms
<1>5. CASE call.api = "features"
  <2>1. call.op = "List"
    BY <1>2, <1>5 DEF Methods
  <2>2. FeaturesLegs(call) = <<ListPaged>>
    BY <2>1 DEF FeaturesLegs
  <2>3. leg \in 1..Len(FeaturesLegs(call)) /\ request = FeaturesLegs(call)[leg]
    BY <1>5 DEF RequestInv
  <2>4. Len(FeaturesLegs(call)) = 1 /\ FeaturesLegs(call)[1] = ListPaged
    BY <2>2
  <2>5. leg = 1 /\ request = ListPaged
    BY <2>3, <2>4
  <2>6. request.rpc = "ListNotebooks"
    BY <2>5 DEF ListPaged, Sends
  <2>7. QED
    BY <1>5, <2>1, <2>5, <2>6
<1>6. CASE call.api = "sources"
  <2>1. call.op = "List"
    BY <1>2, <1>6 DEF Methods
  <2>2. leg = 1 /\ request = SourcesList(call)
    BY <1>6, <2>1 DEF RequestInv, FirstRequest, SourcesRequest
  <2>3. request = ListRows(call.nb)
    BY <1>1, <2>2, RequestForms DEF SourcesList, Checked
  <2>4. request.rpc = "GetNotebook" /\ request.payload = BuildListSources(call.nb)
    BY <2>3 DEF ListRows, Sends
  <2>5. QED
    BY <1>6, <2>1, <2>2, <2>4 DEF BuildListSources
<1>7. QED
  BY <1>3, <1>4, <1>5, <1>6

\* What the listing shows of the notebooks that the server answered from.
Whole(r, then) ==
  IF call.api = "sources"
  THEN {s.id : s \in ToSet(r.val)} = {s.id : s \in ToSet(then[call.nb].sources)}
  ELSE {[id |-> nb.id, title |-> nb.title] : nb \in ToSet(r.val)} = Labels(then)

\* What a listing reads out of the server's answer is whole.
LEMMA ListingsReturn ==
  ASSUME RequestInv, BodyInv, pc = "answered", reply = "answer", Is("val", Answer),
         call.op \in {"List", "GetRecent"}, call.max = 0
  PROVE  \A then \in served[1] : Whole(Answer, then)
<1>1. Underway
  BY DEF Underway
<1>2. leg = 1 /\ request.rpc \in Told
  BY <1>1, ListingRequests DEF Told
<1>3. PICK s : /\ served[1] = {s}
               /\ \E answer \in Tells(request.rpc, request.payload, shape, s, added) : body \in Bodies(request.rpc, answer)
  BY <1>2 DEF BodyInv, Answering
<1>4. PICK answer \in Tells(request.rpc, request.payload, shape, s, added) : body \in Bodies(request.rpc, answer)
  BY <1>3
<1>5. SUFFICES Whole(Answer, s)
  BY <1>3
<1>6. \A x : Capped(x, 0) = x
  BY DEF Capped
<1>7. CASE request.rpc = "ListNotebooks"
  <2>1. answer = NotebookRows(s)
    BY <1>4, <1>7 DEF Tells
  <2>2. Is("list", answer) /\ answer = JList(answer.list)
    BY <2>1, NotebookRowsFacts
  <2>3. Method("ListNotebooks")
    BY DEF Method
  <2>4. Extracted(body, "ListNotebooks") = View(answer.list) /\ Called(body, request) = View(answer)
    BY <1>4, <1>7, <2>2, <2>3, AnswersAreTaken
  <2>5. Answer = View(PageOf(s))
    <3>1. CASE call.api = "notebooks"
      <4>1. NotebooksAnswer(call, body, request.rpc) = PageFromList(answer.list, 0)
        BY <1>7, <2>4, Outputs DEF NotebooksAnswer, IfRead, Once
      <4>2. QED
        BY <2>1, <3>1, <4>1, PagesOfListings DEF Answer
    <3>2. CASE call.api = "features"
      <4>1. FeaturesAnswer(call, body, request) = CappedPage(DecodeNotebookRows(answer), 0)
        BY <1>7, <2>4, Outputs DEF FeaturesAnswer, IfRead, Once
      <4>2. DecodeNotebookRows(answer) = View(PageOf(s))
        BY <2>1, PagesOfListings
      <4>3. CappedPage(View(PageOf(s)), 0) = View(PageOf(s))
        BY <1>6, Outputs DEF CappedPage
      <4>4. QED
        BY <3>2, <4>1, <4>2, <4>3 DEF Answer
    <3>3. QED
      BY <1>1, <1>7, <3>1, <3>2, ListingRequests
  <2>6. call.api # "sources"
    BY <1>1, <1>7, ListingRequests
  <2>7. QED
    BY <2>5, <2>6, PageIsWhole, Outputs DEF Whole
<1>8. CASE request.rpc = "GetNotebook"
  <2>1. call.api = "sources" /\ call.op = "List" /\ request.payload = BuildGet(call.nb)
    BY <1>1, <1>8, ListingRequests
  <2>2. OptStr(request.payload, Slot(0)) = call.nb
    BY <2>1, GetPayload
  <2>3. answer = Shaped(NotebookRow(s, call.nb))
    BY <1>4, <1>8, <2>2 DEF Tells, Shaped
  <2>4. Is("list", answer) /\ answer = JList(answer.list)
    <3>1. Is("list", NotebookRow(s, call.nb)) /\ NotebookRow(s, call.nb) = JList(NotebookRow(s, call.nb).list)
      BY NotebookRowFacts
    <3>2. \A l : Is("list", JList(l)) /\ JList(l) = JList(JList(l).list)
      BY Kinds DEF Is
    <3>3. QED
      BY <2>3, <3>1, <3>2 DEF Shaped
  <2>5. Method("GetNotebook")
    BY DEF Method
  <2>6. Called(body, request) = View(answer)
    BY <1>4, <1>8, <2>4, <2>5, AnswersAreTaken
  <2>7. Answer = SourcesPage(call, DecodeSourceRows(answer))
    BY <2>1, <2>6, Outputs DEF Answer, SourcesAnswer, IfRead, Once
  <2>8. ~Is("err", DecodeSourceRows(answer))
    <3>1. SUFFICES ASSUME Is("err", DecodeSourceRows(answer)) PROVE FALSE
      OBVIOUS
    <3>2. Is("err", Answer)
      BY <2>7, <3>1 DEF SourcesPage
    <3>3. Fits(Answer)
      BY <1>1, AnswersFit DEF RequestInv
    <3>4. QED
      BY <3>2, <3>3 DEF Fits, Is
  <2>9. PICK page : /\ DecodeSourceRows(answer) = View(page)
                    /\ {x.id : x \in ToSet(page)} = {x.id : x \in ToSet(s[call.nb].sources)}
    <3>1. \/ Is("err", DecodeSourceRows(answer))
          \/ \E page : /\ DecodeSourceRows(answer) = View(page)
                       /\ {x.id : x \in ToSet(page)} = {x.id : x \in ToSet(s[call.nb].sources)}
      BY <2>3, SourcesOfListings
    <3>2. QED
      BY <2>8, <3>1
  <2>10. Answer = View(page)
    BY <1>6, <2>7, <2>9, Outputs DEF SourcesPage
  <2>11. QED
    BY <2>1, <2>9, <2>10, Outputs DEF Whole
<1>9. QED
  BY <1>1, <1>7, <1>8, ListingRequests

\* A value that a call returns is what was decoded.
LEMMA ValuesAreDecoded ==
  ASSUME CallInv, [Next]_vars, pc # "returned", pc' = "returned", Is("val", result')
  PROVE  /\ pc = "answered" /\ UNCHANGED <<nbs, shape, call, wire, history, leg, request>>
         /\ result' = IF call.api = "resolveID" THEN ResolvedID(Answer) ELSE Answer
         /\ call.api = "features" /\ Is("val", Answer) => ~(leg < Len(FeaturesLegs(call)))
<1>1. StateInv'
  BY StateStep DEF CallInv
<1>2. DOMAIN result' \in {{"val"}, {"err"}}
  BY <1>1 DEF StateInv, TypeOK
<1>3. RequestInv /\ ~Is("err", result')
  BY <1>2 DEF CallInv, Is
<1>4. QED
  BY <1>3, Ends

\* Only Decode ends a listing with a value.
LEMMA ListingsStep ==
  ASSUME CallInv, BodyInv, ListingsAreWhole, [Next]_vars
  PROVE  ListingsAreWhole'
<1>1. CASE pc = "returned"
  BY <1>1, ReturnedStays DEF ListingsAreWhole, Succeeded, vars, wire, history
<1>2. CASE pc # "returned"
  <2>1. SUFFICES ASSUME pc' = "returned", Is("val", result'), reply' = "answer",
                        call'.op \in {"List", "GetRecent"}, call'.max = 0, NEW then \in served'[1]
                 PROVE  /\ call'.api = "sources" =>
                             {s.id : s \in ToSet(result'.val)} = {s.id : s \in ToSet(then[call'.nb].sources)}
                        /\ call'.api # "sources" =>
                             {[id |-> nb.id, title |-> nb.title] : nb \in ToSet(result'.val)} = Labels(then)
    BY DEF ListingsAreWhole, Succeeded
  <2>2. RequestInv
    BY DEF CallInv
  <2>3. /\ pc = "answered" /\ UNCHANGED <<call, reply, served>>
        /\ result' = IF call.api = "resolveID" THEN ResolvedID(Answer) ELSE Answer
    BY <1>2, <2>1, ValuesAreDecoded DEF wire, history
  <2>4. call.api # "resolveID"
    BY <2>1, <2>2, <2>3, ListingRequests DEF Underway
  <2>5. Whole(Answer, then)
    BY <2>1, <2>2, <2>3, <2>4, ListingsReturn
  <2>6. QED
    BY <2>3, <2>4, <2>5 DEF Whole
<1>3. QED
  BY <1>1, <1>2

\* What every step of a call keeps, and what the body is that it decodes.
LEMMA BodyInvariant == Spec => [](CallInv /\ BodyInv)
<1>1. Init => BodyInv
  BY BodyInit
<1>2. CallInv /\ BodyInv /\ [Next]_vars => BodyInv'
  BY BodyStep DEF CallInv
<1>3. QED
  BY <1>1, <1>2, CallInvariant, PTL DEF Spec

\* NotebooksAPI List and GetRecent, features.ListPaged, SourcesAPI.List: an answered listing
\* holds what there was, whatever comes with the result in the body.
THEOREM ListingsHoldAll == Spec => []ListingsAreWhole
<1>1. Init => ListingsAreWhole
  BY DEF Init, ListingsAreWhole, Succeeded
<1>2. CallInv /\ BodyInv /\ ListingsAreWhole /\ [Next]_vars => ListingsAreWhole'
  BY ListingsStep
<1>3. QED
  BY <1>1, <1>2, BodyInvariant, PTL DEF Spec

-----------------------------------------------------------------------------
(* Resolution *)

\* A resolution asks for the notebook with the query for an id, or for all of them.
LEMMA ResolutionRequests ==
  ASSUME RequestInv, Underway, call.api = "resolveID"
  PROVE  \/ /\ leg = 1 /\ call.kind # "title"
            /\ request.rpc = "GetNotebook" /\ request.payload = BuildGet(TrimAll(call.query))
         \/ /\ ~(leg = 1 /\ call.kind # "title")
            /\ request.rpc = "ListNotebooks"
<1>1. call \in Calls /\ ~Is("refused", request)
  BY DEF RequestInv
<1>2. "nb" \in DOMAIN call
  BY <1>1, SdkAssumption
<1>3. \A reason : Is("refused", Refuses(reason))
  BY RequestForms
<1>4. request = ListForResolve(call) => request.rpc = "ListNotebooks"
  <2>1. SUFFICES ASSUME request = ListForResolve(call) PROVE request.rpc = "ListNotebooks"
    OBVIOUS
  <2>2. Is("refused", GetByProject(call))
    BY <1>3 DEF GetByProject, Checked, NotYet
  <2>3. request = List
    BY <1>1, <2>1, <2>2 DEF ListForResolve
  <2>4. QED
    BY <2>3, RequestForms DEF List
<1>5. CASE leg = 1 /\ request = ResolveRequest(call)
  <2>1. request = IF call.kind = "title" THEN ListForResolve(call)
                  ELSE Get([call EXCEPT !.nb = TrimAll(call.query)])
    BY <1>1, <1>3, <1>5 DEF ResolveRequest
  <2>2. CASE call.kind = "title"
    BY <1>4, <2>1, <2>2
  <2>3. CASE call.kind # "title"
    <3>1. [call EXCEPT !.nb = TrimAll(call.query)].nb = TrimAll(call.query)
      BY <1>2
    <3>2. request = Asks("GetNotebook", BuildGet(TrimAll(call.query)))
      BY <1>1, <1>3, <2>1, <2>3, <3>1 DEF Get, Checked
    <3>3. QED
      BY <1>5, <2>3, <3>2, RequestForms
  <2>4. QED
    BY <2>2, <2>3
<1>6. CASE leg = 2 /\ request = ListForResolve(call)
  BY <1>4, <1>6
<1>7. QED
  BY <1>5, <1>6 DEF RequestInv

\* A row without an id is no match.
LEMMA NoMatch ==
  ASSUME NEW r, Is("err", r) \/ r = View(NoNotebook)
  PROVE  Is("err", ResolvedID(r))
<1>1. TrimAll("") = ""
  BY SdkAssumption
<1>2. CASE Is("err", r)
  BY <1>2 DEF ResolvedID
<1>3. CASE r = View(NoNotebook)
  <2>1. ~Is("err", r) /\ r.val.id = ""
    <3>1. ~Is("err", r) /\ r.val = NoNotebook
      BY <1>3, Outputs
    <3>2. NoNotebook.id = ""
      BY DEF NoNotebook
    <3>3. QED
      BY <3>1, <3>2
  <2>2. ResolvedID(r) = Failed("not_found")
    BY <1>1, <2>1 DEF ResolvedID
  <2>3. QED
    BY <2>2, Outputs
<1>4. QED
  BY <1>2, <1>3

\* Without a row there is no match: a status, or the page of a failed exchange.
LEMMA NilIsNoMatch ==
  ASSUME NEW c, NEW l, NEW b,
         \A rpc \in {"GetNotebook", "ListNotebooks"} :
           (l = 1 /\ c.kind # "title") = (rpc = "GetNotebook") =>
             Extracted(b, rpc) = View(<<>>) \/ Is("err", Extracted(b, rpc))
  PROVE  Is("err", ResolvedID(ResolveLeg(c, l, b)))
<1>1. CASE l = 1 /\ c.kind # "title"
  <2>1. Extracted(b, "GetNotebook") = View(<<>>) \/ Is("err", Extracted(b, "GetNotebook"))
    BY <1>1
  <2>2. ResolveLeg(c, l, b) = ResolveAsID(b)
    BY <1>1 DEF ResolveLeg
  <2>3. ResolveAsID(b) = View(NoNotebook) \/ Is("err", ResolveAsID(b))
    BY <2>1, Outputs DEF ResolveAsID, IfRead, Once, NotebookFromEnvelope
  <2>4. QED
    BY <2>2, <2>3, NoMatch
<1>2. CASE ~(l = 1 /\ c.kind # "title")
  <2>1. Extracted(b, "ListNotebooks") = View(<<>>) \/ Is("err", Extracted(b, "ListNotebooks"))
    BY <1>2
  <2>2. ResolveLeg(c, l, b) = ResolveAsTitle(c, b)
    BY <1>2 DEF ResolveLeg
  <2>3. Is("err", ResolveAsTitle(c, b))
    <3>1. CASE Is("err", Extracted(b, "ListNotebooks"))
      BY <3>1 DEF ResolveAsTitle, IfRead, Once
    <3>2. CASE Extracted(b, "ListNotebooks") = View(<<>>)
      <4>1. PageFromList(<<>>, 0).val = <<>>
        BY Outputs DEF PageFromList
      <4>2. DOMAIN <<>> = {}
        OBVIOUS
      <4>3. ResolveAsTitle(c, b) = Failed("not_found")
        BY <3>2, <4>1, <4>2, Outputs DEF ResolveAsTitle, IfRead, Once
      <4>4. QED
        BY <4>3, Outputs
    <3>3. QED
      BY <2>1, <3>1, <3>2
  <2>4. QED
    BY <2>2, <2>3, NoMatch
<1>3. QED
  BY <1>1, <1>2

\* The notebook that was asked for by its id, read back: it has that id, or it is in a list
\* where no id is found.
LEMMA IdIsResolved ==
  ASSUME NEW s, NEW n, NEW answer, NEW b \in Bodies("GetNotebook", answer),
         answer \in {NotebookRow(s, n), JList(<<NotebookRow(s, n)>>)}, Is("val", ResolvedID(ResolveAsID(b)))
  PROVE  ResolvedID(ResolveAsID(b)).val = n
<1>1. Is("list", answer) /\ answer = JList(answer.list)
  <2>1. Is("list", NotebookRow(s, n)) /\ NotebookRow(s, n) = JList(NotebookRow(s, n).list)
    BY NotebookRowFacts
  <2>2. \A l : Is("list", JList(l)) /\ JList(l) = JList(JList(l).list)
    BY Kinds DEF Is
  <2>3. QED
    BY <2>1, <2>2
<1>2. Extracted(b, "GetNotebook") = View(answer.list)
  BY <1>1, AnswersAreTaken DEF Method
<1>3. ResolveAsID(b) = NotebookFromEnvelope(answer.list)
  BY <1>2, Outputs DEF ResolveAsID, IfRead, Once
<1>4. \A r : ~Is("err", View(r)) /\ View(r).val = r /\ Is("err", Failed("not_found"))
             /\ ~Is("val", Failed("not_found"))
  BY Outputs
<1>5. answer.list # <<>>
  <2>1. CASE answer = NotebookRow(s, n)
    <3>1. Len(answer.list) = 6
      BY <2>1, NotebookRowFacts
    <3>2. QED
      BY <3>1
  <2>2. CASE answer = JList(<<NotebookRow(s, n)>>)
    BY <2>2, Kinds
  <2>3. QED
    BY <2>1, <2>2
<1>6. ResolveAsID(b) = View(DecodeNotebook(answer))
  BY <1>1, <1>3, <1>5 DEF NotebookFromEnvelope
<1>7. ResolvedID(ResolveAsID(b)) = IF TrimAll(DecodeNotebook(answer).id) = "" THEN Failed("not_found")
                                   ELSE View(DecodeNotebook(answer).id)
  BY <1>4, <1>6 DEF ResolvedID
<1>8. CASE answer = NotebookRow(s, n)
  BY <1>4, <1>7, <1>8, NotebookRowIsRead
<1>9. CASE answer = JList(<<NotebookRow(s, n)>>)
  <2>1. ~Is("null", answer)
    BY <1>1, Kinds DEF Is
  <2>2. answer.list = <<NotebookRow(s, n)>>
    BY <1>9, Kinds
  <2>3. Len(answer.list) = 1
    BY <2>2
  <2>4. At(answer, Slot(2)) = Drift("out_of_range")
    BY <1>1, <2>3, Slots
  <2>5. OptStr(answer, Slot(2)) = ""
    BY <2>4, NoStrReads
  <2>6. DecodeNotebook(answer).id = ""
    BY <2>1, <2>5 DEF DecodeNotebook
  <2>7. TrimAll("") = ""
    BY SdkAssumption
  <2>8. QED
    BY <1>4, <1>7, <2>6, <2>7
<1>10. QED
  BY <1>8, <1>9

\* The row that matches is one of those of the server, with its title.
LEMMA TitleIsResolved ==
  ASSUME NEW s, NEW c, NEW b \in Bodies("ListNotebooks", NotebookRows(s)),
         Is("val", ResolvedID(ResolveAsTitle(c, b)))
  PROVE  \E nb \in Labels(s) : /\ nb.id = ResolvedID(ResolveAsTitle(c, b)).val
                               /\ TitleMatches(nb.title, TrimAll(c.query), c)
<1> DEFINE page == PageOf(s)
           hits == {i \in DOMAIN page : TitleMatches(page[i].title, TrimAll(c.query), c)}
           v    == NotebookRows(s)
<1>1. Is("list", v) /\ v = JList(v.list)
  BY NotebookRowsFacts
<1>2. Extracted(b, "ListNotebooks") = View(v.list)
  BY <1>1, AnswersAreTaken DEF Method
<1>3. PageFromList(v.list, 0) = View(page)
  BY PagesOfListings
<1>4. ResolveAsTitle(c, b) = IF hits = {} THEN Failed("not_found") ELSE View(page[Min(hits)])
  <2> HIDE DEF v, page
  <2>1. ~Is("err", View(v.list)) /\ View(v.list).val = v.list /\ View(page).val = page
    BY Outputs
  <2>2. QED
    BY <1>2, <1>3, <2>1 DEF ResolveAsTitle, IfRead, Once
<1>5. \E k \in Nat : DOMAIN page = 1..k
  BY PageFacts
<1> HIDE DEF v, page
<1>6. hits # {}
  <2>1. Is("err", Failed("not_found")) /\ ~Is("val", Failed("not_found"))
    BY Outputs
  <2>2. QED
    BY <1>4, <2>1 DEF ResolvedID
<1>7. Min(hits) \in hits
  <2>1. hits \subseteq Nat
    BY <1>5
  <2>2. \E m \in hits : \A n \in hits : m <= n
    BY <1>6, <2>1, LeastNat
  <2>3. QED
    BY <2>2 DEF Min
<1> DEFINE nb == page[Min(hits)]
<1>8. ResolvedID(ResolveAsTitle(c, b)).val = nb.id
  <2>1. ResolveAsTitle(c, b) = View(nb)
    BY <1>4, <1>6
  <2>2. /\ ~Is("err", View(nb)) /\ View(nb).val = nb /\ View(nb.id).val = nb.id
        /\ ~Is("val", Failed("not_found"))
    BY Outputs
  <2> HIDE DEF nb
  <2>3. QED
    BY <2>1, <2>2 DEF ResolvedID
<1>9. [id |-> nb.id, title |-> nb.title] \in Labels(s)
  BY <1>7, PageShowsLabels DEF page
<1>10. TitleMatches(nb.title, TrimAll(c.query), c)
  BY <1>7
<1>11. QED
  BY <1>8, <1>9, <1>10

\* What a resolution returns was there while it ran.
LEMMA ResolutionReturns ==
  ASSUME RequestInv, PageInv, BodyInv, pc = "answered", call.api = "resolveID", Is("val", ResolvedID(Answer))
  PROVE  \E nb \in seen :
           /\ nb.id = ResolvedID(Answer).val
           /\ nb.id = TrimAll(call.query) \/ TitleMatches(nb.title, TrimAll(call.query), call)
<1> DEFINE query == TrimAll(call.query)
           byID  == leg = 1 /\ call.kind # "title"
<1>1. Underway
  BY DEF Underway
<1>2. /\ byID => request.rpc = "GetNotebook" /\ OptStr(request.payload, Slot(0)) = query
      /\ ~byID => request.rpc = "ListNotebooks"
  BY <1>1, ResolutionRequests, GetPayload
<1>3. Answer = ResolveLeg(call, leg, body)
  BY DEF Answer
<1>4. ~Is("err", ResolvedID(Answer))
  <2>1. Fits(ResolvedID(Answer))
    BY <1>1, AnswersFit DEF RequestInv
  <2>2. QED
    BY <2>1 DEF Fits, Is
<1>5. reply = "answer"
  <2>1. SUFFICES ASSUME reply # "answer" PROVE Is("err", ResolvedID(Answer))
    BY <1>4
  <2>2. body \in ErrorPages \/ \E n \in {5, 7} : body \in Framings(Status(request.rpc, n))
    BY <2>1 DEF BodyInv, PageInv
  <2>3. Method(request.rpc)
    BY <1>2 DEF Method
  <2>4. Extracted(body, request.rpc) = View(<<>>) \/ Is("err", Extracted(body, request.rpc))
    BY <2>2, <2>3, OthersAreNil
  <2>5. QED
    BY <1>2, <1>3, <2>4, NilIsNoMatch
<1>6. PICK s : /\ Labels(s) \subseteq seen
               /\ \E answer \in Tells(request.rpc, request.payload, shape, s, added) : body \in Bodies(request.rpc, answer)
  BY <1>2, <1>5 DEF BodyInv, Answering, Told
<1>7. PICK answer \in Tells(request.rpc, request.payload, shape, s, added) : body \in Bodies(request.rpc, answer)
  BY <1>6
<1>8. CASE byID
  <2>1. query \in Live(s) /\ answer \in {NotebookRow(s, query), JList(<<NotebookRow(s, query)>>)}
    BY <1>2, <1>7, <1>8 DEF Tells
  <2>2. Answer = ResolveAsID(body)
    BY <1>3, <1>8 DEF ResolveLeg
  <2>3. ResolvedID(Answer).val = query
    BY <1>2, <1>7, <1>8, <2>1, <2>2, IdIsResolved
  <2>4. [id |-> query, title |-> StripThoughtPrefix(s[query].title)] \in seen
    BY <1>6, <2>1 DEF Labels
  <2>5. QED
    BY <2>3, <2>4
<1>9. CASE ~byID
  <2>1. answer = NotebookRows(s)
    BY <1>2, <1>7, <1>9 DEF Tells
  <2>2. Answer = ResolveAsTitle(call, body)
    BY <1>3, <1>9 DEF ResolveLeg
  <2>3. \E nb \in Labels(s) : nb.id = ResolvedID(Answer).val /\ TitleMatches(nb.title, query, call)
    BY <1>2, <1>7, <1>9, <2>1, <2>2, TitleIsResolved
  <2>4. QED
    BY <1>6, <2>3
<1>10. QED
  BY <1>8, <1>9

\* Only Decode ends a resolution with an id, and what was seen stays seen.
LEMMA ResolvesStep ==
  ASSUME CallInv, BodyInv, ResolvesToWhatWasThere, [Next]_vars
  PROVE  ResolvesToWhatWasThere'
<1>1. CASE pc = "returned"
  BY <1>1, ReturnedStays DEF ResolvesToWhatWasThere, Succeeded, vars, history
<1>2. CASE pc # "returned"
  <2>1. SUFFICES ASSUME pc' = "returned", Is("val", result'), call'.api = "resolveID"
                 PROVE  \E nb \in seen' :
                          /\ nb.id = result'.val
                          /\ nb.id = TrimAll(call'.query) \/ TitleMatches(nb.title, TrimAll(call'.query), call')
    BY DEF ResolvesToWhatWasThere, Succeeded
  <2>2. pc = "answered" /\ UNCHANGED <<call, seen>> /\ result' = ResolvedID(Answer)
    BY <1>2, <2>1, ValuesAreDecoded DEF history
  <2>3. QED
    BY <2>1, <2>2, ResolutionReturns DEF CallInv
<1>3. QED
  BY <1>1, <1>2

\* resolve.go: an id that a query is resolved to was the id of a notebook during the call, and
\* the notebook had that id or that title.
THEOREM ResolvesRight == Spec => []ResolvesToWhatWasThere
<1>1. Init => ResolvesToWhatWasThere
  BY DEF Init, ResolvesToWhatWasThere, Succeeded
<1>2. CallInv /\ BodyInv /\ ResolvesToWhatWasThere /\ [Next]_vars => ResolvesToWhatWasThere'
  BY ResolvesStep
<1>3. QED
  BY <1>1, <1>2, BodyInvariant, PTL DEF Spec

-----------------------------------------------------------------------------
(* A rename shows its title *)

\* The server reads the id and the title of a rename where the builder puts them.
LEMMA RenamePayload ==
  ASSUME NEW nb, NEW title, NEW emoji
  PROVE  /\ OptStr(BuildRename(nb, title, emoji), Slot(0)) = nb
         /\ StrAt(BuildRename(nb, title, emoji), <<JNum(1), JNum(0), JNum(3), JNum(1)>>) = Ok(title)
<1> DEFINE tail   == IF emoji = {} THEN <<>> ELSE <<JStr(CHOOSE e \in emoji : TRUE)>>
           change == <<Null, JStr(title)>> \o tail
           slots  == <<Null, Null, Null, JList(change)>>
           rows   == <<JList(slots)>>
           l      == <<JStr(nb), JList(rows)>>
           v      == BuildRename(nb, title, emoji)
<1>1. v = JList(l)
  BY DEF BuildRename, Row
<1>2. Len(l) = 2 /\ l[1] = JStr(nb) /\ l[2] = JList(rows)
  OBVIOUS
<1>3. Len(rows) = 1 /\ rows[1] = JList(slots)
  OBVIOUS
<1>4. Len(slots) = 4 /\ slots[4] = JList(change)
  OBVIOUS
<1>5. 1 < Len(change) /\ change[2] = JStr(title)
  <2>1. tail = <<>> \/ \E x : tail = <<x>>
    OBVIOUS
  <2> HIDE DEF tail
  <2>2. CASE tail = <<>>
    BY <2>2
  <2>3. CASE \E x : tail = <<x>>
    <3>1. PICK x : tail = <<x>>
      BY <2>3
    <3>2. Len(<<Null, JStr(title)>> \o <<x>>) = 3 /\ (<<Null, JStr(title)>> \o <<x>>)[2] = JStr(title)
      OBVIOUS
    <3>3. QED
      BY <3>1, <3>2
  <2>4. QED
    BY <2>1, <2>2, <2>3
<1> HIDE DEF l, rows, slots, change, v
<1>6. At(v, Slot(0)) = Ok(JStr(nb))
  BY <1>1, <1>2, Slots
<1>7. At(v, <<JNum(1), JNum(0), JNum(3), JNum(1)>>) = Ok(JStr(title))
  <2>1. Step(Ok(v), JNum(1)) = Ok(JList(rows))
    BY <1>1, <1>2, Descents
  <2>2. Step(Ok(JList(rows)), JNum(0)) = Ok(JList(slots))
    BY <1>3, Descents
  <2>3. Step(Ok(JList(slots)), JNum(3)) = Ok(JList(change))
    <3>1. 3 < Len(slots) /\ slots[3 + 1] = JList(change)
      BY <1>4
    <3>2. QED
      BY <3>1, Descents
  <2>4. Step(Ok(JList(change)), JNum(1)) = Ok(JStr(title))
    BY <1>5, Descents
  <2>5. QED
    BY <2>1, <2>2, <2>3, <2>4, PathFour
<1>8. QED
  BY <1>6, <1>7, StrReads DEF v

\* The two requests of a rename.
LEMMA RenameRequests ==
  ASSUME RequestInv, Underway, call.api = "features", call.op = "Rename"
  PROVE  \/ /\ leg = 1
            /\ request.rpc = "RenameNotebook" /\ request.payload = BuildRename(call.nb, call.title, call.emoji)
         \/ /\ leg = 2
            /\ request.rpc = "GetNotebook" /\ request.payload = BuildGet(call.nb) /\ request.nullable = FALSE
<1>1. ~Is("refused", request) /\ leg \in 1..Len(FeaturesLegs(call)) /\ request = FeaturesLegs(call)[leg]
  BY DEF RequestInv
<1>2. FeaturesLegs(call) = <<FeaturesRename(call), FeaturesGet(call)>>
  BY DEF FeaturesLegs
<1>3. \A reason : Is("refused", Refuses(reason))
  BY RequestForms
<1>4. (leg = 1 /\ request = FeaturesRename(call)) \/ (leg = 2 /\ request = FeaturesGet(call))
  BY <1>1, <1>2
<1>5. CASE leg = 1 /\ request = FeaturesRename(call)
  <2>1. request = Sends("RenameNotebook", BuildRename(call.nb, call.title, call.emoji), TRUE)
    BY <1>1, <1>3, <1>5 DEF FeaturesRename, Checked
  <2>2. QED
    BY <1>5, <2>1 DEF Sends
<1>6. CASE leg = 2 /\ request = FeaturesGet(call)
  <2>1. request = Sends("GetNotebook", BuildGet(call.nb), FALSE)
    BY <1>1, <1>3, <1>6 DEF FeaturesGet, OnNotebook, Checked
  <2>2. QED
    BY <1>6, <2>1 DEF Sends
<1>7. QED
  BY <1>4, <1>5, <1>6

\* After a rename that was answered, the notebook had the title.
TitleInv ==
  call.api = "features" /\ call.op = "Rename" /\ call.title # "" =>
    \A s \in served[1] : s[call.nb].title = call.title

\* What the server held after the first leg of a rename had the new title.
LEMMA TitleStep ==
  ASSUME CallInv, BodyInv, TitleInv, [Next]_vars
  PROVE  TitleInv'
<1>1. CASE Begin
  <2>1. served' = served /\ served[1] = {}
    BY <1>1 DEF Begin, history, BodyInv
  <2>2. QED
    BY <2>1 DEF TitleInv
<1>2. ASSUME UNCHANGED call, served'[1] \subseteq served[1] PROVE TitleInv'
  BY <1>2 DEF TitleInv
<1>3. ASSUME pc = "posted" PROVE leg \in DOMAIN served /\ 1 \in DOMAIN served
  BY <1>3 DEF CallInv, RequestInv, Underway, BodyInv
<1>4. CASE Serve
  <2>1. PICK o \in Outcomes(request.rpc, request.payload) : served' = [served EXCEPT ![leg] = {o.nbs}]
    BY <1>4 DEF Serve
  <2>2. UNCHANGED call /\ pc = "posted" /\ leg \in DOMAIN served /\ 1 \in DOMAIN served
    BY <1>3, <1>4 DEF Serve
  <2>3. CASE leg # 1
    BY <1>2, <2>1, <2>2, <2>3
  <2>4. CASE leg = 1
    <3>1. served'[1] = {o.nbs}
      BY <2>1, <2>2, <2>4
    <3>2. SUFFICES ASSUME call.api = "features", call.op = "Rename", call.title # ""
                   PROVE  o.nbs[call.nb].title = call.title
      BY <2>2, <3>1 DEF TitleInv
    <3>3. request.rpc = "RenameNotebook" /\ request.payload = BuildRename(call.nb, call.title, call.emoji)
      <4>1. RequestInv /\ Underway /\ leg # 2
        BY <2>2, <2>4 DEF CallInv, Underway
      <4>2. QED
        BY <3>2, <4>1, RenameRequests
    <3>4. o \in Renames(request.payload)
      BY <3>3, OutcomesOf
    <3>5. /\ OptStr(request.payload, Slot(0)) = call.nb
          /\ StrAt(request.payload, <<JNum(1), JNum(0), JNum(3), JNum(1)>>) = Ok(call.title)
      BY <3>3, RenamePayload
    <3>6. Found(Ok(call.title)) /\ Ok(call.title).ok = call.title
      BY Founds, Kinds
    <3>7. call.nb \in Live(nbs) /\ o = Changes([nbs EXCEPT ![call.nb].title = call.title])
      BY <3>2, <3>4, <3>5, <3>6 DEF Renames
    <3>8. o.nbs = [nbs EXCEPT ![call.nb].title = call.title]
      BY <3>7, OutcomeFields
    <3>9. call.nb \in DOMAIN nbs /\ "title" \in DOMAIN nbs[call.nb]
      BY <3>7 DEF Live, CallInv, StateInv, TypeOK, NotebookFields
    <3>10. QED
      BY <3>8, <3>9
  <2>5. QED
    BY <2>3, <2>4
<1>5. CASE Reject \/ FailedPost \/ Lose
  <2>1. pc = "posted" /\ UNCHANGED call /\ served' = [served EXCEPT ![leg] = {}]
    BY <1>5 DEF Reject, FailedPost, Lose
  <2>2. QED
    BY <1>2, <1>3, <2>1
<1>6. CASE StreamStarts \/ Wake \/ StreamTells \/ StreamEnds \/ Decode \/ Edit
  BY <1>2, <1>6 DEF StreamStarts, Wake, StreamTells, StreamEnds, Decode, Edit, history
<1>7. CASE UNCHANGED vars
  BY <1>2, <1>7 DEF vars, history
<1>8. QED
  BY <1>1, <1>4, <1>5, <1>6, <1>7 DEF Next, Exchange

\* The notebook that Get reads, of an answer that holds its row in a list.
LEMMA GetReads ==
  ASSUME NEW s, NEW n
  PROVE  DecodeGet(JList(<<NotebookRow(s, n)>>)) = View(DecodeNotebook(NotebookRow(s, n)))
<1> DEFINE l == <<NotebookRow(s, n)>>
<1>1. Len(l) = 1 /\ l[1] = NotebookRow(s, n) /\ l # <<>>
  OBVIOUS
<1> HIDE DEF l
<1>2. Is("list", JList(l)) /\ JList(l).list = l
  BY Kinds DEF Is
<1>3. DecodeGet(JList(l)) = View(DecodeNotebook(NotebookRow(s, n)))
  BY <1>1, <1>2 DEF DecodeGet
<1>4. QED
  BY <1>3 DEF l

\* What the second leg of a rename reads is the notebook under its new title.
LEMMA RenameReturns ==
  ASSUME CallInv, BodyInv, TitleInv, pc = "answered", leg = 2, call.api = "features", call.op = "Rename",
         call.title # "", Is("val", Answer), shape = "wrapped", NEW then \in served[1], served[2] = {then}
  PROVE  Answer.val.id = call.nb /\ Answer.val.title = StripThoughtPrefix(call.title)
<1>1. RequestInv /\ Underway /\ PageInv
  BY DEF CallInv, Underway
<1>2. request.rpc = "GetNotebook" /\ request.payload = BuildGet(call.nb) /\ request.nullable = FALSE
  <2>1. RequestInv /\ Underway
    BY <1>1
  <2>2. call.api = "features" /\ call.op = "Rename"
    OBVIOUS
  <2>3. leg # 1
    <3>1. leg = 2
      OBVIOUS
    <3>2. QED
      BY ONLY <3>1
  <2>4. QED
    BY <2>1, <2>2, <2>3, RenameRequests
<1>3. Answer = FeaturesAnswer(call, body, request)
  BY DEF Answer
<1>4. ~Is("err", Answer)
  <2>1. Fits(Answer)
    BY <1>1, AnswersFit DEF RequestInv
  <2>2. "val" \in DOMAIN Answer
    BY DEF Is
  <2>3. DOMAIN Answer = {"val"}
    BY <2>1, <2>2 DEF Fits
  <2>4. QED
    BY <2>3 DEF Is
<1>5. Method("GetNotebook")
  BY DEF Method
<1>6. reply = "answer"
  <2>1. SUFFICES ASSUME reply # "answer" PROVE Is("err", Answer)
    BY <1>4
  <2>2. body \in ErrorPages \/ \E n \in {5, 7} : body \in Framings(Status(request.rpc, n))
    BY <1>1, <2>1 DEF BodyInv, PageInv
  <2>3. Is("err", Called(body, request))
    BY <1>2, <1>5, <2>2, OthersAreNil
  <2>4. QED
    BY <1>3, <2>3 DEF FeaturesAnswer, IfRead, Once
<1>7. PICK answer \in Tells(request.rpc, request.payload, shape, then, added) : body \in Bodies(request.rpc, answer)
  BY <1>2, <1>6 DEF BodyInv, Answering, Told
<1>8. answer = JList(<<NotebookRow(then, call.nb)>>)
  BY <1>2, <1>7, GetPayload DEF Tells
<1>9. Is("list", answer) /\ answer = JList(answer.list)
  <2>1. \A l : Is("list", JList(l)) /\ JList(l) = JList(JList(l).list)
    BY ONLY Kinds DEF Is
  <2>2. QED
    BY <1>8, <2>1
<1>10. Called(body, request) = View(answer)
  <2>1. body \in Bodies("GetNotebook", answer) /\ Method("GetNotebook")
    BY <1>2, <1>5, <1>7
  <2>2. \A r : r.rpc = "GetNotebook" => Called(body, r) = View(answer)
    BY ONLY <2>1, <1>9, AnswersAreTaken
  <2>3. QED
    BY <1>2, <2>2
<1>11. Answer = DecodeGet(answer)
  <2>1. ~Is("err", View(answer)) /\ View(answer).val = answer
    BY Outputs
  <2>2. call.op = "Rename"
    OBVIOUS
  <2>3. QED
    BY <1>2, <1>3, <1>10, <2>1, <2>2 DEF FeaturesAnswer, IfRead, Once
<1>12. Answer = View(DecodeNotebook(NotebookRow(then, call.nb)))
  BY <1>8, <1>11, GetReads
<1>13. Answer.val = DecodeNotebook(NotebookRow(then, call.nb))
  <2>1. \A x : View(x).val = x
    BY Outputs
  <2>2. QED
    BY <1>12, <2>1
<1>14. then[call.nb].title = call.title
  BY DEF TitleInv
<1>15. QED
  BY ONLY <1>13, <1>14, NotebookRowIsRead

\* Only Decode, in the second leg, ends a rename with a value.
LEMMA RenameStep ==
  ASSUME CallInv, BodyInv, TitleInv, RenameShowsItsTitle, [Next]_vars
  PROVE  RenameShowsItsTitle'
<1>1. CASE pc = "returned"
  BY <1>1, ReturnedStays DEF RenameShowsItsTitle, Succeeded, vars, history
<1>2. CASE pc # "returned"
  <2>1. SUFFICES ASSUME pc' = "returned", Is("val", result'), call'.api = "features", call'.op = "Rename",
                        call'.title # "", NEW then \in served'[1], served'[2] = {then}, shape' = "wrapped"
                 PROVE  result'.val.id = call'.nb /\ result'.val.title = StripThoughtPrefix(call'.title)
    BY DEF RenameShowsItsTitle, Succeeded
  <2>2. /\ pc = "answered" /\ UNCHANGED <<shape, call, served>>
        /\ result' = IF call.api = "resolveID" THEN ResolvedID(Answer) ELSE Answer
        /\ call.api = "features" /\ Is("val", Answer) => ~(leg < Len(FeaturesLegs(call)))
    BY <1>2, <2>1, ValuesAreDecoded DEF history
  <2>3. result' = Answer
    BY <2>1, <2>2
  <2>4. leg = 2
    <3>1. call.op \in Methods["features"]
      BY <2>1, <2>2 DEF Methods
    <3>2. Len(FeaturesLegs(call)) = 2 /\ leg \in 1..2
      BY <2>1, <2>2, <3>1, FeaturesRequests DEF CallInv, RequestInv, Underway
    <3>3. Is("val", Answer) /\ call.api = "features"
      BY <2>1, <2>2, <2>3
    <3>4. ~(leg < Len(FeaturesLegs(call)))
      BY <2>2, <3>3
    <3>5. QED
      BY ONLY <3>2, <3>4
  <2>5. QED
    BY <2>1, <2>2, <2>3, <2>4, RenameReturns
<1>3. QED
  BY <1>1, <1>2

\* features.Rename: the notebook it returns has the new title, when the server answered both of
\* its calls and nobody edited in between.
THEOREM RenamesAreShown == Spec => []RenameShowsItsTitle
<1>1. Init => TitleInv /\ RenameShowsItsTitle
  BY DEF Init, NoCall, TitleInv, RenameShowsItsTitle, Succeeded
<1>2. CallInv /\ BodyInv /\ TitleInv /\ [Next]_vars => TitleInv'
  BY TitleStep
<1>3. CallInv /\ BodyInv /\ TitleInv /\ RenameShowsItsTitle /\ [Next]_vars => RenameShowsItsTitle'
  BY RenameStep
<1>4. QED
  BY <1>1, <1>2, <1>3, BodyInvariant, PTL DEF Spec

-----------------------------------------------------------------------------
(* Added sources *)

\* A string, or a string in a list, in one slot of a spec.
LEMMA SpecSlots ==
  ASSUME NEW spec, NEW i \in Nat, NEW j \in Nat
  PROVE  LET r == StrAt(JList(spec), <<JNum(i), JNum(j)>>)
         IN /\ ~(i < Len(spec)) => ~Found(r)
            /\ i < Len(spec) /\ spec[i + 1] = Null => ~Found(r)
            /\ \A x : i < Len(spec) /\ spec[i + 1] = JStr(x) => ~Found(r)
            /\ \A l, x : i < Len(spec) /\ spec[i + 1] = JList(l) /\ j < Len(l) /\ l[j + 1] = JStr(x) => r = Ok(x)
<1> DEFINE v    == JList(spec)
           path == <<JNum(i), JNum(j)>>
           r    == StrAt(v, path)
<1>1. At(v, path) = Step(Step(Ok(v), JNum(i)), JNum(j))
  BY PathTwo
<1>2. Step(Ok(v), JNum(i)) = IF i < Len(spec) THEN Ok(spec[i + 1]) ELSE Drift("out_of_range")
  BY Descents
<1> HIDE DEF path
<1>3. \A w : At(v, path) = Drift(w) => ~Found(r)
  BY NoStrReads
<1>4. ASSUME ~(i < Len(spec)) PROVE ~Found(r)
  <2>1. Step(Drift("out_of_range"), JNum(j)) = Drift("out_of_range")
    BY Descents
  <2>2. QED
    BY <1>1, <1>2, <1>3, <1>4, <2>1
<1>5. ASSUME i < Len(spec), spec[i + 1] = Null PROVE ~Found(r)
  <2>1. Step(Ok(Null), JNum(j)) = Drift("out_of_range")
    BY Descents
  <2>2. QED
    BY <1>1, <1>2, <1>3, <1>5, <2>1
<1>6. ASSUME NEW x, i < Len(spec), spec[i + 1] = JStr(x) PROVE ~Found(r)
  <2>1. Step(Ok(JStr(x)), JNum(j)) = Drift("not_a_list")
    BY Descents
  <2>2. QED
    BY <1>1, <1>2, <1>3, <1>6, <2>1
<1>7. ASSUME NEW l, NEW x, i < Len(spec), spec[i + 1] = JList(l), j < Len(l), l[j + 1] = JStr(x) PROVE r = Ok(x)
  <2>1. Step(Ok(JList(l)), JNum(j)) = Ok(JStr(x))
    BY <1>7, Descents
  <2>2. At(v, path) = Ok(JStr(x))
    BY <1>1, <1>2, <1>7, <2>1
  <2>3. QED
    BY <2>2, StrReads
<1>8. QED
  BY <1>4, <1>5, <1>6, <1>7 DEF path

\* The name of a file is a string in the first slot, where other kinds have a list, or
\* nothing.
LEMMA FirstSlots ==
  ASSUME NEW spec, 0 < Len(spec)
  PROVE  /\ \A x : spec[1] = JStr(x) => StrAt(JList(spec), Slot(0)) = Ok(x)
         /\ spec[1] = Null => ~Found(StrAt(JList(spec), Slot(0)))
         /\ \A l : spec[1] = JList(l) => ~Found(StrAt(JList(spec), Slot(0)))
<1>1. At(JList(spec), Slot(0)) = Ok(spec[1])
  BY Slots
<1>2. ~Is("text", Null) /\ ~Is("str", Null) /\ \A l : ~Is("text", JList(l)) /\ ~Is("str", JList(l))
  BY Kinds DEF Is
<1>3. ASSUME NEW x, spec[1] = JStr(x) PROVE StrAt(JList(spec), Slot(0)) = Ok(x)
  BY <1>1, <1>3, StrReads
<1>4. ASSUME NEW w, spec[1] = w, ~Is("text", w), ~Is("str", w) PROVE ~Found(StrAt(JList(spec), Slot(0)))
  BY <1>1, <1>4, NoStrReads
<1>5. QED
  BY <1>2, <1>3, <1>4

\* When one slot alone is filled, it tells the kind.
LEMMA FilledIs ==
  ASSUME NEW v, NEW kind \in DOMAIN SlotOf, NEW x, StrAt(v, SlotOf[kind]) = Ok(x),
         \A k \in DOMAIN SlotOf \ {kind} : ~Found(StrAt(v, SlotOf[k]))
  PROVE  Filled(v) = {<<kind, Ok(x)>>}
<1>1. ASSUME NEW f \in Filled(v) PROVE f = <<kind, Ok(x)>>
  <2>1. PICK k \in DOMAIN SlotOf : f = <<k, StrAt(v, SlotOf[k])>> /\ Found(f[2])
    BY DEF Filled
  <2>2. f[2] = StrAt(v, SlotOf[k])
    BY <2>1
  <2>3. k = kind
    BY <2>1, <2>2
  <2>4. QED
    BY <2>1, <2>3
<1>2. <<kind, Ok(x)>> \in Filled(v)
  <2>1. <<kind, StrAt(v, SlotOf[kind])>>[2] = Ok(x) /\ Found(Ok(x))
    BY Founds
  <2>2. QED
    BY <2>1 DEF Filled
<1>3. QED
  BY <1>1, <1>2

\* What the server takes a spec for: the kind and the text.
TakenFor(v, kind, x) == Filled(v) = {<<kind, Ok(x)>>}

\* The source-type code is read where it stands, and not from an empty slot.
LEMMA CodeReads ==
  ASSUME NEW spec, NEW i \in Nat, i < Len(spec)
  PROVE  /\ spec[i + 1] = JNum(1) => Coded(JList(spec), i)
         /\ spec[i + 1] = Null => ~Coded(JList(spec), i)
<1>1. At(JList(spec), Slot(i)) = Ok(spec[i + 1])
  BY Slots
<1>2. ASSUME spec[i + 1] = JNum(1) PROVE Coded(JList(spec), i)
  BY <1>1, <1>2, Kinds, Founds DEF Coded, IntAt, Typed, Is
<1>3. ASSUME spec[i + 1] = Null PROVE ~Coded(JList(spec), i)
  <2>1. IntAt(JList(spec), Slot(i)) = Drift("not_an_int")
    BY <1>1, <1>3, Kinds, Founds DEF IntAt, Typed, Is
  <2>2. Drift("not_an_int") # Ok(1)
    BY Founds
  <2>3. QED
    BY <2>1, <2>2 DEF Coded
<1>4. QED
  BY <1>2, <1>3

\* A payload whose spec has the code in its last slot.
EndsCoded(payload) == Coded(SpecOf(payload), Len(SpecOf(payload).list) - 1)

\* A spec as the server finds it in a payload.
LEMMA CodeOf ==
  ASSUME NEW payload, NEW spec, SpecOf(payload) = JList(spec), Len(spec) \in Nat, 10 < Len(spec),
         spec[Len(spec)] = JNum(1)
  PROVE  /\ EndsCoded(payload)
         /\ Len(spec) = 11 => Coded(SpecOf(payload), CodeSlot)
         /\ spec[11] = Null => ~Coded(SpecOf(payload), CodeSlot)
<1>1. SpecOf(payload).list = spec
  BY Kinds
<1>2. Coded(JList(spec), Len(spec) - 1)
  <2>1. Len(spec) - 1 \in Nat /\ Len(spec) - 1 < Len(spec) /\ (Len(spec) - 1) + 1 = Len(spec)
    OBVIOUS
  <2>2. QED
    BY <2>1, CodeReads
<1>3. spec[11] = Null => ~Coded(JList(spec), 10)
  <2>1. 10 \in Nat /\ 10 + 1 = 11
    OBVIOUS
  <2>2. QED
    BY <2>1, CodeReads
<1>4. Len(spec) = 11 => Coded(JList(spec), 10)
  BY <1>2
<1>5. QED
  BY <1>1, <1>2, <1>3, <1>4 DEF EndsCoded, CodeSlot

\* Nothing in a slot.
Bare(spec, i) == ~(i < Len(spec)) \/ spec[i + 1] = Null

\* The slot of every kind of source.
LEMMA SlotNames ==
  /\ DOMAIN SlotOf = {"file", "drive", "text", "url", "youtube"}
  /\ SlotOf["file"] = Slot(0) /\ SlotOf["drive"] = <<JNum(0), JNum(0)>> /\ SlotOf["text"] = <<JNum(1), JNum(1)>>
  /\ SlotOf["url"] = <<JNum(2), JNum(0)>> /\ SlotOf["youtube"] = <<JNum(7), JNum(0)>>
BY DEF SlotOf

\* A slot beyond the payload, or one that is null, is not filled.
LEMMA BareSlots ==
  ASSUME NEW spec, 0 < Len(spec)
  PROVE  LET v == JList(spec)
         IN /\ Bare(spec, 0) => ~Found(StrAt(v, SlotOf["file"])) /\ ~Found(StrAt(v, SlotOf["drive"]))
            /\ Bare(spec, 1) => ~Found(StrAt(v, SlotOf["text"]))
            /\ Bare(spec, 2) => ~Found(StrAt(v, SlotOf["url"]))
            /\ Bare(spec, 7) => ~Found(StrAt(v, SlotOf["youtube"]))
<1>1. ASSUME NEW i \in Nat, NEW j \in Nat, Bare(spec, i) PROVE ~Found(StrAt(JList(spec), <<JNum(i), JNum(j)>>))
  BY <1>1, SpecSlots DEF Bare
<1>2. Bare(spec, 0) => ~Found(StrAt(JList(spec), Slot(0)))
  BY FirstSlots DEF Bare
<1>3. QED
  BY <1>1, <1>2, SlotNames

\* One filled slot tells the kind and the text.
LEMMA SpecKinds ==
  ASSUME NEW spec, 0 < Len(spec), Len(spec) \in Nat, NEW x, NEW l, Len(l) \in Nat
  PROVE  LET v == JList(spec)
         IN /\ (spec[1] = JStr(x) /\ Bare(spec, 1) /\ Bare(spec, 2) /\ Bare(spec, 7)) => TakenFor(v, "file", x)
            /\ (spec[1] = JList(l) /\ 0 < Len(l) /\ l[1] = JStr(x) /\ Bare(spec, 1) /\ Bare(spec, 2) /\ Bare(spec, 7))
                 => TakenFor(v, "drive", x)
            /\ (Bare(spec, 0) /\ 1 < Len(spec) /\ spec[2] = JList(l) /\ 1 < Len(l) /\ l[2] = JStr(x)
                  /\ Bare(spec, 2) /\ Bare(spec, 7)) => TakenFor(v, "text", x)
            /\ (Bare(spec, 0) /\ Bare(spec, 1) /\ 2 < Len(spec) /\ spec[3] = JList(l) /\ 0 < Len(l) /\ l[1] = JStr(x)
                  /\ Bare(spec, 7)) => TakenFor(v, "url", x)
            /\ (Bare(spec, 0) /\ Bare(spec, 1) /\ Bare(spec, 2)
                  /\ 7 < Len(spec) /\ spec[8] = JList(l) /\ 0 < Len(l) /\ l[1] = JStr(x)) => TakenFor(v, "youtube", x)
<1> DEFINE v == JList(spec)
           absent(k) == ~Found(StrAt(v, SlotOf[k]))
<1>1. /\ Bare(spec, 0) => absent("file") /\ absent("drive")
      /\ Bare(spec, 1) => absent("text")
      /\ Bare(spec, 2) => absent("url")
      /\ Bare(spec, 7) => absent("youtube")
  BY BareSlots
<1>2. /\ spec[1] = JStr(x) => StrAt(v, SlotOf["file"]) = Ok(x) /\ absent("drive")
      /\ spec[1] = JList(l) => absent("file")
  BY FirstSlots, SpecSlots, SlotNames
<1>3. /\ spec[1] = JList(l) /\ 0 < Len(l) /\ l[1] = JStr(x) => StrAt(v, SlotOf["drive"]) = Ok(x)
      /\ 1 < Len(spec) /\ spec[2] = JList(l) /\ 1 < Len(l) /\ l[2] = JStr(x) => StrAt(v, SlotOf["text"]) = Ok(x)
      /\ 2 < Len(spec) /\ spec[3] = JList(l) /\ 0 < Len(l) /\ l[1] = JStr(x) => StrAt(v, SlotOf["url"]) = Ok(x)
      /\ 7 < Len(spec) /\ spec[8] = JList(l) /\ 0 < Len(l) /\ l[1] = JStr(x) => StrAt(v, SlotOf["youtube"]) = Ok(x)
  <2>1. ASSUME NEW i \in Nat, NEW j \in Nat, i < Len(spec), spec[i + 1] = JList(l), j < Len(l), l[j + 1] = JStr(x)
        PROVE  StrAt(v, <<JNum(i), JNum(j)>>) = Ok(x)
    BY <2>1, SpecSlots
  <2>2. spec[1] = JList(l) /\ 0 < Len(l) /\ l[1] = JStr(x) => StrAt(v, SlotOf["drive"]) = Ok(x)
    BY <2>1, SlotNames
  <2>3. 1 < Len(spec) /\ spec[2] = JList(l) /\ 1 < Len(l) /\ l[2] = JStr(x) => StrAt(v, SlotOf["text"]) = Ok(x)
    BY <2>1, SlotNames
  <2>4. 2 < Len(spec) /\ spec[3] = JList(l) /\ 0 < Len(l) /\ l[1] = JStr(x) => StrAt(v, SlotOf["url"]) = Ok(x)
    BY <2>1, SlotNames
  <2>5. 7 < Len(spec) /\ spec[8] = JList(l) /\ 0 < Len(l) /\ l[1] = JStr(x) => StrAt(v, SlotOf["youtube"]) = Ok(x)
    BY <2>1, SlotNames
  <2>6. QED
    BY ONLY <2>2, <2>3, <2>4, <2>5
<1>4. \A kind \in DOMAIN SlotOf :
        (StrAt(v, SlotOf[kind]) = Ok(x) /\ \A k \in DOMAIN SlotOf \ {kind} : absent(k)) => TakenFor(v, kind, x)
  BY FilledIs DEF TakenFor
<1> HIDE DEF absent, v
<1>5. ASSUME spec[1] = JStr(x), Bare(spec, 1), Bare(spec, 2), Bare(spec, 7) PROVE TakenFor(v, "file", x)
  BY ONLY <1>1, <1>2, <1>4, <1>5, SlotNames
<1>6. ASSUME spec[1] = JList(l), 0 < Len(l), l[1] = JStr(x), Bare(spec, 1), Bare(spec, 2), Bare(spec, 7)
      PROVE  TakenFor(v, "drive", x)
  BY ONLY <1>1, <1>2, <1>3, <1>4, <1>6, SlotNames
<1>7. ASSUME Bare(spec, 0), 1 < Len(spec), spec[2] = JList(l), 1 < Len(l), l[2] = JStr(x), Bare(spec, 2), Bare(spec, 7)
      PROVE  TakenFor(v, "text", x)
  BY ONLY <1>1, <1>3, <1>4, <1>7, SlotNames
<1>8. ASSUME Bare(spec, 0), Bare(spec, 1), 2 < Len(spec), spec[3] = JList(l), 0 < Len(l), l[1] = JStr(x), Bare(spec, 7)
      PROVE  TakenFor(v, "url", x)
  BY ONLY <1>1, <1>3, <1>4, <1>8, SlotNames
<1>9. ASSUME Bare(spec, 0), Bare(spec, 1), Bare(spec, 2), 7 < Len(spec), spec[8] = JList(l), 0 < Len(l), l[1] = JStr(x)
      PROVE  TakenFor(v, "youtube", x)
  BY ONLY <1>1, <1>3, <1>4, <1>9, SlotNames
<1>10. QED
  BY <1>5, <1>6, <1>7, <1>8, <1>9 DEF v

\* The parts of a payload: a list that holds the spec, and the notebook.
LEMMA SpecIsRead ==
  ASSUME NEW l, 1 < Len(l), Len(l) \in Nat, NEW spec, l[1] = JList(<<JList(spec)>>), NEW nb, l[2] = JStr(nb)
  PROVE  SpecOf(JList(l)) = JList(spec) /\ OptStr(JList(l), Slot(1)) = nb
<1> DEFINE v == JList(l)
           one == <<JList(spec)>>
<1>1. Len(one) = 1 /\ one[1] = JList(spec)
  OBVIOUS
<1> HIDE DEF one
<1>2. Step(Ok(v), JNum(0)) = Ok(JList(one)) /\ Step(Ok(v), JNum(1)) = Ok(JStr(nb))
  BY Descents DEF one
<1>3. Step(Ok(JList(one)), JNum(0)) = Ok(JList(spec))
  BY <1>1, Descents
<1>4. At(v, <<JNum(0), JNum(0)>>) = Ok(JList(spec)) /\ At(v, Slot(1)) = Ok(JStr(nb))
  BY <1>2, <1>3, PathTwo, PathOne DEF Slot
<1>5. ListAt(v, <<JNum(0), JNum(0)>>) = Ok(spec) /\ Found(Ok(spec)) /\ Ok(spec).ok = spec
  BY <1>4, ListReads, Kinds, Founds
<1>6. OptStr(v, Slot(1)) = nb
  BY <1>4, StrReads
<1>7. SpecOf(v) = JList(spec)
  BY <1>5 DEF SpecOf, OrElse
<1>8. QED
  BY <1>6, <1>7

\* What the builders of internal/web/params/sources ask, as the server reads it.
AsksFor(payload, nb, kind, x) == OptStr(payload, Slot(1)) = nb /\ TakenFor(SpecOf(payload), kind, x)

\* The n nulls of a payload.
LEMMA NullSlots ==
  ASSUME NEW n \in Nat
  PROVE  Len(Nulls(n)) = n /\ DOMAIN Nulls(n) = 1..n /\ \A i \in 1..n : Nulls(n)[i] = Null
BY DEF Nulls

\* A list that begins with some entries, goes on with empty slots, and ends with others.
PaddedBy(spec, head, m, rest) ==
  /\ Len(spec) = Len(head) + m + rest
  /\ \A i \in 1..Len(head) : spec[i] = head[i]
  /\ \A i \in (Len(head) + 1)..(Len(head) + m) : spec[i] = Null

\* The last entry of a list with a tail is that of the tail.
LEMMA LastOfTail ==
  ASSUME NEW S, NEW s \in Seq(S), NEW tail \in Seq(S), Len(tail) > 0
  PROVE  /\ Len(s \o tail) = Len(s) + Len(tail)
         /\ (s \o tail)[Len(s \o tail)] = tail[Len(tail)]
OBVIOUS

\* A list padded with nulls, between its head and its tail.
LEMMA Padded ==
  ASSUME NEW S, Null \in S, NEW head \in Seq(S), NEW m \in Nat, NEW tail \in Seq(S)
  PROVE  PaddedBy(head \o Nulls(m) \o tail, head, m, Len(tail))
<1> DEFINE spec == head \o Nulls(m) \o tail
<1>1. ASSUME NEW s \in Seq(S), NEW t \in Seq(S)
      PROVE  /\ s \o t \in Seq(S) /\ Len(s \o t) = Len(s) + Len(t)
             /\ \A i \in 1..Len(s) : (s \o t)[i] = s[i]
             /\ \A i \in (Len(s) + 1)..(Len(s) + Len(t)) : (s \o t)[i] = t[i - Len(s)]
  OBVIOUS
<1> DEFINE k    == Len(head)
           more == head \o Nulls(m)
<1>2. head \in Seq(S) /\ tail \in Seq(S) /\ Nulls(m) \in Seq(S) /\ k \in Nat /\ m \in Nat /\ Len(tail) \in Nat
  BY DEF Nulls
<1>3. Len(Nulls(m)) = m /\ \A i \in 1..m : Nulls(m)[i] = Null
  BY NullSlots
<1>4. /\ more \in Seq(S) /\ Len(more) = k + m
      /\ \A i \in 1..k : more[i] = head[i]
      /\ \A i \in (k + 1)..(k + m) : more[i] = Nulls(m)[i - k]
  <2>1. /\ more \in Seq(S) /\ Len(more) = Len(head) + Len(Nulls(m))
        /\ \A i \in 1..Len(head) : more[i] = head[i]
        /\ \A i \in (Len(head) + 1)..(Len(head) + Len(Nulls(m))) : more[i] = Nulls(m)[i - Len(head)]
    BY ONLY <1>1, <1>2
  <2> HIDE DEF more
  <2>2. QED
    BY ONLY <1>3, <2>1
<1> HIDE DEF more, k
<1>5. \A i \in (k + 1)..(k + m) : i - k \in 1..m /\ i \in 1..(k + m)
  BY ONLY <1>2
<1>6. \A i \in 1..k : i \in 1..(k + m)
  BY ONLY <1>2
<1>7. /\ Len(more \o tail) = Len(more) + Len(tail)
      /\ \A i \in 1..Len(more) : (more \o tail)[i] = more[i]
  BY <1>1, <1>2, <1>4
<1>8. spec = more \o tail
  BY DEF more
<1> HIDE DEF spec
<1>9. Len(spec) = k + m + Len(tail) /\ \A i \in 1..(k + m) : spec[i] = more[i]
  BY ONLY <1>4, <1>7, <1>8
<1>10. \A i \in 1..k : spec[i] = head[i]
  BY ONLY <1>4, <1>6, <1>9
<1>11. \A i \in (k + 1)..(k + m) : spec[i] = Null
  BY ONLY <1>3, <1>4, <1>5, <1>9
<1>12. QED
  BY <1>9, <1>10, <1>11 DEF k, spec, PaddedBy

\* The same, where the entries it begins with are some empty slots and one more.
SlottedBy(spec, n, row, m, last) ==
  /\ Len(spec) = n + m + 3
  /\ spec[n + m + 3] = last
  /\ \A i \in 0..(n - 1) : Bare(spec, i)
  /\ spec[n + 1] = row
  /\ \A i \in (n + 1)..(n + m) : Bare(spec, i)

\* A row between nulls, with two values behind them.
LEMMA Slotted ==
  ASSUME NEW n \in Nat, NEW m \in Nat, NEW row, NEW x, NEW y
  PROVE  SlottedBy(Nulls(n) \o <<row>> \o Nulls(m) \o <<x, y>>, n, row, m, y)
<1> DEFINE spec == Nulls(n) \o <<row>> \o Nulls(m) \o <<x, y>>
<1> DEFINE S    == {Null, row, x, y}
           head == Nulls(n) \o <<row>>
<1>1. Null \in S /\ Nulls(n) \in Seq(S) /\ <<row>> \in Seq(S) /\ <<x, y>> \in Seq(S) /\ Len(<<x, y>>) = 2
  BY DEF Nulls
<1>2. Len(Nulls(n)) = n /\ (\A i \in 1..n : Nulls(n)[i] = Null) /\ Len(<<row>>) = 1 /\ <<row>>[1] = row
  BY NullSlots
<1>3. n \in Nat /\ m \in Nat
  OBVIOUS
<1>4. head \in Seq(S) /\ Len(head) = n + 1 /\ (\A i \in 1..n : head[i] = Null) /\ head[n + 1] = row
  BY ONLY <1>1, <1>2, <1>3
<1>5. spec = head \o Nulls(m) \o <<x, y>>
  OBVIOUS
<1> HIDE DEF head, S, spec
<1>6. /\ Len(spec) = Len(head) + m + Len(<<x, y>>)
      /\ \A i \in 1..Len(head) : spec[i] = head[i]
      /\ \A i \in (Len(head) + 1)..(Len(head) + m) : spec[i] = Null
  <2> DEFINE tail == <<x, y>>
  <2>1. tail \in Seq(S) /\ spec = head \o Nulls(m) \o tail
    BY <1>1, <1>5
  <2> HIDE DEF tail
  <2>2. /\ Len(spec) = Len(head) + m + Len(tail)
        /\ \A i \in 1..Len(head) : spec[i] = head[i]
        /\ \A i \in (Len(head) + 1)..(Len(head) + m) : spec[i] = Null
    <3>1. Null \in S /\ head \in Seq(S) /\ m \in Nat /\ tail \in Seq(S)
      BY ONLY <1>1, <1>3, <1>4, <2>1
    <3>2. PaddedBy(head \o Nulls(m) \o tail, head, m, Len(tail))
      BY ONLY <3>1, Padded
    <3>3. QED
      BY ONLY <2>1, <3>2 DEF PaddedBy
  <2>3. QED
    BY <2>2 DEF tail
<1>7. Len(spec) = n + m + 3 /\ spec[n + 1] = row
  BY ONLY <1>1, <1>3, <1>4, <1>6
<1>8. \A i \in 0..(n - 1) : spec[i + 1] = Null
  <2>1. \A i \in 0..(n - 1) : i + 1 \in 1..n /\ i + 1 \in 1..(n + 1)
    BY ONLY <1>3
  <2>2. QED
    BY ONLY <1>4, <1>6, <2>1
<1>9. \A i \in (n + 1)..(n + m) : spec[i + 1] = Null
  <2>1. \A i \in (n + 1)..(n + m) : i + 1 \in (n + 2)..(n + 1 + m)
    BY ONLY <1>3
  <2>2. QED
    BY ONLY <1>3, <1>4, <1>6, <2>1
<1>10. spec[n + m + 3] = y
  <2> DEFINE more == head \o Nulls(m)
             tail == <<x, y>>
  <2>1. Nulls(m) \in Seq(S)
    BY <1>1 DEF Nulls
  <2>2. more \in Seq(S) /\ tail \in Seq(S) /\ Len(tail) = 2 /\ tail[2] = y /\ spec = more \o tail
    BY <1>1, <1>4, <1>5, <2>1
  <2> HIDE DEF more, tail
  <2>3. (more \o tail)[Len(more \o tail)] = tail[Len(tail)]
    <3>1. more \in Seq(S) /\ tail \in Seq(S) /\ Len(tail) > 0
      BY <2>2
    <3>2. QED
      BY ONLY <3>1, LastOfTail
  <2>4. QED
    BY ONLY <1>7, <2>2, <2>3
<1>11. QED
  BY ONLY <1>7, <1>8, <1>9, <1>10 DEF Bare, SlottedBy, spec

\* The two envelopes of an add ask for what their spec is taken for.
LEMMA AddPayloads ==
  ASSUME NEW spec, NEW nb, NEW kind, NEW x, TakenFor(JList(spec), kind, x)
  PROVE  /\ SpecOf(AddSource(spec, nb)) = JList(spec) /\ AsksFor(AddSource(spec, nb), nb, kind, x)
         /\ \A c, d : LET payload == JList(<<JList(<<JList(spec)>>), JStr(nb), c, d>>)
                       IN SpecOf(payload) = JList(spec) /\ AsksFor(payload, nb, kind, x)
<1>1. ASSUME NEW l, 1 < Len(l), Len(l) \in Nat, l[1] = JList(<<JList(spec)>>), l[2] = JStr(nb)
      PROVE  SpecOf(JList(l)) = JList(spec) /\ AsksFor(JList(l), nb, kind, x)
  <2>1. SpecOf(JList(l)) = JList(spec) /\ OptStr(JList(l), Slot(1)) = nb
    BY <1>1, SpecIsRead
  <2>2. QED
    BY <2>1 DEF AsksFor
<1>2. SpecOf(AddSource(spec, nb)) = JList(spec) /\ AsksFor(AddSource(spec, nb), nb, kind, x)
  <2> DEFINE l == <<JList(<<JList(spec)>>), JStr(nb), TemplateBlock>>
  <2>1. Len(l) = 3 /\ l[1] = JList(<<JList(spec)>>) /\ l[2] = JStr(nb)
    OBVIOUS
  <2>2. AddSource(spec, nb) = JList(l)
    BY DEF AddSource, Row
  <2> HIDE DEF l
  <2>3. QED
    BY <1>1, <2>1, <2>2
<1>3. ASSUME NEW c, NEW d
      PROVE  LET payload == JList(<<JList(<<JList(spec)>>), JStr(nb), c, d>>)
             IN SpecOf(payload) = JList(spec) /\ AsksFor(payload, nb, kind, x)
  <2> DEFINE l == <<JList(<<JList(spec)>>), JStr(nb), c, d>>
  <2>1. Len(l) = 4 /\ l[1] = JList(<<JList(spec)>>) /\ l[2] = JStr(nb)
    OBVIOUS
  <2> HIDE DEF l
  <2>2. SpecOf(JList(l)) = JList(spec) /\ AsksFor(JList(l), nb, kind, x)
    BY <1>1, <2>1
  <2>3. QED
    BY <2>2 DEF l
<1>4. QED
  BY <1>2, <1>3

\* A list of one string.
LEMMA OneEntry ==
  ASSUME NEW x
  PROVE  Len(<<JStr(x)>>) = 1 /\ <<JStr(x)>>[1] = JStr(x)
OBVIOUS

\* The payload of an URL fills the slot of an URL and no other, and has its code in the
\* last slot, which is not the slot of the documents ...
LEMMA URLPayload ==
  ASSUME NEW nb, NEW url, NEW mime
  PROVE  LET payload == BuildAddSourceURL(nb, url, mime)
         IN AsksFor(payload, nb, "url", url) /\ EndsCoded(payload) /\ ~Coded(SpecOf(payload), CodeSlot)
<1> DEFINE l    == <<JStr(url)>>
           spec == Nulls(2) \o <<JList(l)>> \o Nulls(10) \o <<DefaultMIME(mime), JNum(1)>>
<1>1. SlottedBy(spec, 2, JList(l), 10, JNum(1))
  BY Slotted
<1>2. Len(l) = 1 /\ l[1] = JStr(url)
  BY OneEntry
<1>3. BuildAddSourceURL(nb, url, mime) = AddSource(spec, nb)
  BY DEF BuildAddSourceURL, Row
<1> HIDE DEF spec, l
<1>4. Len(spec) = 15 /\ spec[3] = JList(l) /\ Bare(spec, 0) /\ Bare(spec, 1) /\ Bare(spec, 7)
  BY <1>1 DEF SlottedBy
<1>5. TakenFor(JList(spec), "url", url)
  BY ONLY <1>2, <1>4, SpecKinds
<1>6. spec[15] = JNum(1) /\ spec[11] = Null
  BY <1>1, <1>4 DEF SlottedBy, Bare
<1>7. SpecOf(BuildAddSourceURL(nb, url, mime)) = JList(spec) /\ AsksFor(BuildAddSourceURL(nb, url, mime), nb, "url", url)
  BY <1>3, <1>5, AddPayloads
<1>8. 10 < Len(spec) /\ Len(spec) \in Nat /\ spec[Len(spec)] = JNum(1)
  BY <1>4, <1>6
<1>9. EndsCoded(BuildAddSourceURL(nb, url, mime)) /\ ~Coded(SpecOf(BuildAddSourceURL(nb, url, mime)), CodeSlot)
  BY <1>6, <1>7, <1>8, CodeOf
<1>10. QED
  BY <1>7, <1>9

\* ... that of a video the slot of a video ...
LEMMA YouTubePayload ==
  ASSUME NEW nb, NEW url, NEW mime
  PROVE  LET payload == BuildAddSourceYouTube(nb, url, mime)
         IN AsksFor(payload, nb, "youtube", url) /\ EndsCoded(payload) /\ ~Coded(SpecOf(payload), CodeSlot)
<1> DEFINE l    == <<JStr(url)>>
           spec == Nulls(7) \o <<JList(l)>> \o Nulls(5) \o <<DefaultMIME(mime), JNum(1)>>
<1>1. SlottedBy(spec, 7, JList(l), 5, JNum(1))
  BY Slotted
<1>2. Len(l) = 1 /\ l[1] = JStr(url)
  BY OneEntry
<1>3. BuildAddSourceYouTube(nb, url, mime) = AddSource(spec, nb)
  BY DEF BuildAddSourceYouTube, Row
<1> HIDE DEF spec, l
<1>4. Len(spec) = 15 /\ spec[8] = JList(l) /\ Bare(spec, 0) /\ Bare(spec, 1) /\ Bare(spec, 2)
  BY <1>1 DEF SlottedBy
<1>5. TakenFor(JList(spec), "youtube", url)
  BY ONLY <1>2, <1>4, SpecKinds
<1>6. spec[15] = JNum(1) /\ spec[11] = Null
  BY <1>1, <1>4 DEF SlottedBy, Bare
<1>7. SpecOf(BuildAddSourceYouTube(nb, url, mime)) = JList(spec) /\ AsksFor(BuildAddSourceYouTube(nb, url, mime), nb, "youtube", url)
  BY <1>3, <1>5, AddPayloads
<1>8. 10 < Len(spec) /\ Len(spec) \in Nat /\ spec[Len(spec)] = JNum(1)
  BY <1>4, <1>6
<1>9. EndsCoded(BuildAddSourceYouTube(nb, url, mime)) /\ ~Coded(SpecOf(BuildAddSourceYouTube(nb, url, mime)), CodeSlot)
  BY <1>6, <1>7, <1>8, CodeOf
<1>10. QED
  BY <1>7, <1>9

\* ... that of a file the slot of a file ...
LEMMA FilePayload ==
  ASSUME NEW nb, NEW name
  PROVE  AsksFor(BuildAddSourceFile(nb, name), nb, "file", name)
<1> DEFINE spec == <<JStr(name)>>
<1>1. Len(spec) = 1 /\ spec[1] = JStr(name)
  BY OneEntry
<1>2. BuildAddSourceFile(nb, name) = AddSource(spec, nb)
  BY DEF BuildAddSourceFile, AddSource, Row
<1> HIDE DEF spec
<1>3. Bare(spec, 1) /\ Bare(spec, 2) /\ Bare(spec, 7)
  BY <1>1 DEF Bare
<1>4. TakenFor(JList(spec), "file", name)
  BY <1>1, <1>3, SpecKinds
<1>5. QED
  BY <1>2, <1>4, AddPayloads

\* ... that of a text the slot of a text ...
LEMMA TextPayload ==
  ASSUME NEW nb, NEW title, NEW content
  PROVE  LET payload == BuildAddSourceText(nb, title, content)
         IN AsksFor(payload, nb, "text", content) /\ EndsCoded(payload) /\ Coded(SpecOf(payload), CodeSlot)
<1> DEFINE l    == <<JStr(title), JStr(content)>>
           head == <<Null, JList(l), Null, JNum(2)>>
           tail == <<JNum(1)>>
           spec == head \o Nulls(6) \o tail
           S    == {Null, JList(l), JNum(2), JNum(1)}
<1>1. Len(head) = 4 /\ head[1] = Null /\ head[2] = JList(l) /\ head[3] = Null /\ Len(tail) = 1 /\ tail[1] = JNum(1)
  OBVIOUS
<1>2. Len(l) = 2 /\ l[2] = JStr(content)
  OBVIOUS
<1> HIDE DEF l
<1>3. Null \in S /\ head \in Seq(S) /\ tail \in Seq(S) /\ 6 \in Nat
  OBVIOUS
<1>4. BuildAddSourceText(nb, title, content) = AddSource(spec, nb)
  BY DEF BuildAddSourceText, Row, l
<1> HIDE DEF head, tail, S
<1>5. PaddedBy(spec, head, 6, Len(tail))
  BY <1>3, Padded
<1>6. spec[Len(spec)] = JNum(1)
  <2> DEFINE more == head \o Nulls(6)
  <2>1. more \in Seq(S) /\ spec = more \o tail
    BY <1>3 DEF Nulls
  <2> HIDE DEF more, spec
  <2>2. (more \o tail)[Len(more \o tail)] = tail[Len(tail)]
    <3>1. more \in Seq(S) /\ tail \in Seq(S) /\ Len(tail) > 0
      BY <1>1, <1>3, <2>1
    <3>2. QED
      BY ONLY <3>1, LastOfTail
  <2>3. QED
    BY ONLY <1>1, <2>1, <2>2
<1> HIDE DEF spec
<1>7. /\ Len(spec) = 11 /\ spec[2] = JList(l)
      /\ Bare(spec, 0) /\ Bare(spec, 2) /\ Bare(spec, 7)
  BY <1>1, <1>5 DEF PaddedBy, Bare
<1>8. TakenFor(JList(spec), "text", content)
  <2>1. 0 < Len(spec) /\ Len(spec) \in Nat /\ Len(l) \in Nat /\ 1 < Len(spec) /\ 1 < Len(l)
    BY <1>2, <1>7
  <2>2. Bare(spec, 0) /\ spec[2] = JList(l) /\ l[2] = JStr(content) /\ Bare(spec, 2) /\ Bare(spec, 7)
    BY <1>2, <1>7
  <2>3. (Bare(spec, 0) /\ 1 < Len(spec) /\ spec[2] = JList(l) /\ 1 < Len(l) /\ l[2] = JStr(content)
           /\ Bare(spec, 2) /\ Bare(spec, 7)) => TakenFor(JList(spec), "text", content)
    BY ONLY <2>1, SpecKinds
  <2>4. QED
    BY ONLY <2>1, <2>2, <2>3
<1>9. /\ SpecOf(BuildAddSourceText(nb, title, content)) = JList(spec)
       /\ AsksFor(BuildAddSourceText(nb, title, content), nb, "text", content)
  BY <1>4, <1>8, AddPayloads
<1>10. 10 < Len(spec) /\ Len(spec) \in Nat
  BY <1>7
<1>11. EndsCoded(BuildAddSourceText(nb, title, content)) /\ Coded(SpecOf(BuildAddSourceText(nb, title, content)), CodeSlot)
  BY <1>7, <1>6, <1>9, <1>10, CodeOf
<1>12. QED
  BY <1>9, <1>11

\* ... and that of a Drive document the slot of a Drive document.
LEMMA DrivePayload ==
  ASSUME NEW nb, NEW id, NEW mime, NEW title
  PROVE  LET payload == BuildAddSourceDrive(nb, id, mime, title)
         IN AsksFor(payload, nb, "drive", id) /\ EndsCoded(payload) /\ Coded(SpecOf(payload), CodeSlot)
<1> DEFINE l    == <<JStr(id), JStr(mime), JNum(1), JStr(title)>>
           head == <<JList(l)>>
           tail == <<JNum(1)>>
           spec == head \o Nulls(9) \o tail
           S    == {Null, JList(l), JNum(1)}
<1>1. Len(head) = 1 /\ head[1] = JList(l) /\ Len(tail) = 1 /\ tail[1] = JNum(1)
  OBVIOUS
<1>2. Len(l) = 4 /\ l[1] = JStr(id)
  OBVIOUS
<1> HIDE DEF l
<1>3. Null \in S /\ head \in Seq(S) /\ tail \in Seq(S) /\ 9 \in Nat
  OBVIOUS
<1>4. \E c, d : BuildAddSourceDrive(nb, id, mime, title) = JList(<<JList(<<JList(spec)>>), JStr(nb), c, d>>)
  BY DEF BuildAddSourceDrive, Row, l
<1> HIDE DEF head, tail, S
<1>5. PaddedBy(spec, head, 9, Len(tail))
  BY <1>3, Padded
<1>6. spec[Len(spec)] = JNum(1)
  <2> DEFINE more == head \o Nulls(9)
  <2>1. more \in Seq(S) /\ spec = more \o tail
    BY <1>3 DEF Nulls
  <2> HIDE DEF more, spec
  <2>2. (more \o tail)[Len(more \o tail)] = tail[Len(tail)]
    <3>1. more \in Seq(S) /\ tail \in Seq(S) /\ Len(tail) > 0
      BY <1>1, <1>3, <2>1
    <3>2. QED
      BY ONLY <3>1, LastOfTail
  <2>3. QED
    BY ONLY <1>1, <2>1, <2>2
<1> HIDE DEF spec
<1>7. /\ Len(spec) = 11 /\ spec[1] = JList(l)
      /\ Bare(spec, 1) /\ Bare(spec, 2) /\ Bare(spec, 7)
  BY <1>1, <1>5 DEF PaddedBy, Bare
<1>8. TakenFor(JList(spec), "drive", id)
  BY <1>2, <1>7, SpecKinds
<1>9. /\ SpecOf(BuildAddSourceDrive(nb, id, mime, title)) = JList(spec)
       /\ AsksFor(BuildAddSourceDrive(nb, id, mime, title), nb, "drive", id)
  <2>1. \A c, d : LET payload == JList(<<JList(<<JList(spec)>>), JStr(nb), c, d>>)
                  IN SpecOf(payload) = JList(spec) /\ AsksFor(payload, nb, "drive", id)
    BY <1>8, AddPayloads
  <2>2. QED
    BY <1>4, <2>1
<1>10. 10 < Len(spec) /\ Len(spec) \in Nat
  BY <1>7
<1>11. EndsCoded(BuildAddSourceDrive(nb, id, mime, title)) /\ Coded(SpecOf(BuildAddSourceDrive(nb, id, mime, title)), CodeSlot)
  BY <1>7, <1>6, <1>9, <1>10, CodeOf
<1>12. QED
  BY <1>9, <1>11

\* The adds of the Sources namespace.
Adding == {"AddURL", "AddYouTube", "AddText", "AddFile", "AddDrive"}

\* Every request of the Sources namespace asks for what the caller named.
LEMMA AddRequests ==
  ASSUME RequestInv, Underway, call.api = "sources"
  PROVE  /\ leg = 1
         /\ \/ call.op = "List" /\ request.rpc = "GetNotebook"
            \/ /\ request.rpc \in {"AddSource", "AddSourceFile"}
               /\ call.op \in Adding
               /\ AsksFor(request.payload, call.nb, Meant(call)[1], Meant(call)[2])
               /\ request.rpc = "AddSource" => EndsCoded(request.payload)
               /\ Unread(request) <=> call.op \in {"AddURL", "AddYouTube"}
               /\ call.op \in {"AddYouTube", "AddDrive"} => request.nullable = FALSE
<1>1. call \in Calls /\ ~Is("refused", request) /\ leg = 1 /\ request = FirstRequest(call)
  BY DEF RequestInv
<1>2. call.api \in DOMAIN Methods /\ call.op \in Methods[call.api]
  BY <1>1, SdkAssumption
<1>3. call.op \in {"List", "AddURL", "AddYouTube", "AddText", "AddFile", "AddDrive"}
  BY <1>2 DEF Methods
<1>4. request = SourcesRequest(call)
  BY <1>1 DEF FirstRequest
<1>5. \A valid, r : request = Checked(valid, r) => request = r
  BY <1>1, RequestForms DEF Checked
<1>6. CASE call.op = "List"
  <2>1. request = ListRows(call.nb)
    BY <1>4, <1>5, <1>6 DEF SourcesRequest, SourcesList
  <2>2. QED
    BY <1>1, <1>6, <2>1 DEF ListRows, Sends
<1>7. CASE call.op = "AddURL"
  <2>1. request = SendURL(call.nb, call.arg.text, Mime("url", call))
    BY <1>4, <1>5, <1>7 DEF SourcesRequest, AddURL
  <2>2. request.rpc = "AddSource" /\ request.payload = BuildAddSourceURL(call.nb, call.arg.text, Mime("url", call))
    BY <2>1 DEF SendURL, Sends
  <2>3. Meant(call)[1] = "url" /\ Meant(call)[2] = call.arg.text
    BY <1>7 DEF Meant
  <2>4. QED
    BY <1>1, <1>7, <2>2, <2>3, URLPayload DEF Adding, Unread
<1>8. CASE call.op = "AddYouTube"
  <2>1. request = SendYouTube(call.nb, call.arg.text, Mime("youtube", call))
    BY <1>4, <1>5, <1>8 DEF SourcesRequest, AddYouTube
  <2>2. /\ request.rpc = "AddSource" /\ request.nullable = FALSE
        /\ request.payload = BuildAddSourceYouTube(call.nb, call.arg.text, Mime("youtube", call))
    BY <2>1 DEF SendYouTube, Sends
  <2>3. Meant(call)[1] = "youtube" /\ Meant(call)[2] = call.arg.text
    BY <1>8 DEF Meant
  <2>4. QED
    BY <1>1, <1>8, <2>2, <2>3, YouTubePayload DEF Adding, Unread
<1>9. CASE call.op = "AddText"
  <2>1. request = SendText(call.nb, call.title, call.arg.text)
    BY <1>4, <1>5, <1>9 DEF SourcesRequest, AddText
  <2>2. request.rpc = "AddSource" /\ request.payload = BuildAddSourceText(call.nb, call.title, call.arg.text)
    BY <2>1 DEF SendText, Sends
  <2>3. Meant(call)[1] = "text" /\ Meant(call)[2] = call.arg.text
    BY <1>9 DEF Meant
  <2>4. QED
    BY <1>1, <1>9, <2>2, <2>3, TextPayload DEF Adding, Unread
<1>10. CASE call.op = "AddFile"
  <2>1. request = SendFile(call.nb, call.arg.base)
    BY <1>4, <1>5, <1>10 DEF SourcesRequest, AddFile
  <2>2. request.rpc = "AddSourceFile" /\ request.payload = BuildAddSourceFile(call.nb, call.arg.base)
    BY <2>1 DEF SendFile, Sends
  <2>3. Meant(call)[1] = "file" /\ Meant(call)[2] = call.arg.base
    BY <1>10 DEF Meant
  <2>4. QED
    BY <1>1, <1>10, <2>2, <2>3, FilePayload DEF Adding, Unread
<1>11. CASE call.op = "AddDrive"
  <2>1. request = SendDrive(call.nb, call.arg.id, Mime("drive", call), "")
    BY <1>4, <1>5, <1>11 DEF SourcesRequest, AddDrive, ExtractDriveFileID
  <2>2. /\ request.rpc = "AddSource" /\ request.nullable = FALSE
        /\ request.payload = BuildAddSourceDrive(call.nb, call.arg.id, Mime("drive", call), "")
    BY <2>1 DEF SendDrive, Sends
  <2>3. Meant(call)[1] = "drive" /\ Meant(call)[2] = call.arg.id
    BY <1>11 DEF Meant
  <2>4. QED
    BY <1>1, <1>11, <2>2, <2>3, DrivePayload DEF Adding, Unread
<1>12. QED
  BY <1>3, <1>6, <1>7, <1>8, <1>9, <1>10, <1>11

\* What the server makes of a request of the Sources namespace is what the call means.
IsMeant(a) ==
  call.op \in Adding /\ a.nb = call.nb /\ a.kind = Meant(call)[1] /\ a.text = Meant(call)[2]

\* What the server makes of such a request is what was meant.
LEMMA MadeAsMeant ==
  ASSUME RequestInv, Underway, call.api = "sources", NEW o \in Outcomes(request.rpc, request.payload)
  PROVE  \A a \in o.made : IsMeant(a)
<1>1. CASE request.rpc = "GetNotebook"
  <2>1. o.made = {}
    <3>1. \E v : o = Says(v)
      <4>1. o \in Outcomes("GetNotebook", request.payload)
        BY <1>1
      <4>2. QED
        BY ONLY <4>1, OutcomesOf
    <3>2. QED
      BY <3>1, OutcomeFields
  <2>2. QED
    BY <2>1
<1>2. CASE /\ request.rpc \in {"AddSource", "AddSourceFile"} /\ call.op \in Adding
           /\ AsksFor(request.payload, call.nb, Meant(call)[1], Meant(call)[2])
  <2>1. o \in AddsSource(request.payload)
    BY <1>2, OutcomesOf
  <2>2. PICK f, src : f \in Filled(SpecOf(request.payload)) /\ Appends(request.payload, f, src, o)
    BY ONLY <2>1, AddsForm
  <2>3. o.made = {[nb |-> OptStr(request.payload, Slot(1)), id |-> src.id, kind |-> src.kind, text |-> src.text]}
    BY <2>2, OutcomeFields DEF Appends
  <2>4. src.kind = f[1] /\ src.text = f[2].ok
    BY <2>2 DEF Appends
  <2>5. OptStr(request.payload, Slot(1)) = call.nb /\ f[1] = Meant(call)[1] /\ f[2].ok = Meant(call)[2]
    <3>1. f \in Filled(SpecOf(request.payload))
      BY <2>2
    <3>2. AsksFor(request.payload, call.nb, Meant(call)[1], Meant(call)[2])
      BY <1>2
    <3>3. QED
      <4>1. OptStr(request.payload, Slot(1)) = call.nb /\ f = <<Meant(call)[1], Ok(Meant(call)[2])>>
        BY ONLY <3>1, <3>2 DEF AsksFor, TakenFor
      <4>2. Ok(Meant(call)[2]).ok = Meant(call)[2]
        BY Kinds
      <4>3. QED
        BY ONLY <4>1, <4>2
  <2>6. QED
    BY ONLY <1>2, <2>3, <2>4, <2>5 DEF IsMeant
<1>3. QED
  BY <1>1, <1>2, AddRequests

\* Every source that was added is as the call means it.
AddedInv == call.api = "sources" => \A a \in added : IsMeant(a)

\* Only a POST adds, and only what was meant.
LEMMA AddedStep ==
  ASSUME CallInv, BodyInv, AddedInv, [Next]_vars
  PROVE  AddedInv'
<1>1. CASE Begin
  <2>1. added = {} /\ UNCHANGED added
    BY <1>1 DEF Begin, BodyInv, history
  <2>2. QED
    BY <2>1 DEF AddedInv
<1>2. CASE pc = "posted" /\ UNCHANGED call /\ \E o \in Outcomes(request.rpc, request.payload) : added' = added \cup o.made
  <2>1. RequestInv /\ Underway
    BY <1>2 DEF CallInv, Underway
  <2>2. PICK o \in Outcomes(request.rpc, request.payload) : added' = added \cup o.made
    BY <1>2
  <2>3. ASSUME call.api = "sources", NEW a \in added'
        PROVE  IsMeant(a)
    <3>1. CASE a \in added
      BY <2>3, <3>1 DEF AddedInv
    <3>2. CASE a \in o.made
      BY <2>1, <2>3, <3>2, MadeAsMeant
    <3>3. QED
      BY <2>2, <2>3, <3>1, <3>2
  <2>4. call' = call
    BY <1>2
  <2>5. QED
    BY <2>3, <2>4 DEF AddedInv, IsMeant, Meant
<1>3. CASE UNCHANGED <<call, added>>
  BY <1>3 DEF AddedInv, IsMeant, Meant
<1>4. CASE Serve \/ FailedPost \/ Lose
  BY <1>2, <1>3, <1>4 DEF Serve, FailedPost, Lose, Unsure, Commits
<1>5. CASE Reject \/ StreamStarts \/ Wake \/ StreamTells \/ StreamEnds \/ Decode \/ Edit
  BY <1>3, <1>5
     DEF Reject, StreamStarts, Wake, StreamTells, StreamEnds, Decode, Edit, history
<1>6. CASE UNCHANGED vars
  BY <1>3, <1>6 DEF vars, history
<1>7. QED
  BY <1>1, <1>4, <1>5, <1>6 DEF Next, Exchange

\* The requests of the strict calls allow no null.
LEMMA StrictRequests ==
  ASSUME RequestInv, Underway, call.op \in {"AddYouTube", "AddDrive"} \/ (call.api = "features" /\ call.op = "Create")
  PROVE  /\ leg = 1 /\ request.nullable = FALSE
         /\ \/ call.api = "sources" /\ call.op # "List" /\ request.rpc \in {"AddSource", "AddSourceFile"}
            \/ call.api = "features" /\ request.rpc = "CreateNotebook"
<1>1. call \in Calls /\ ~Is("refused", request)
  BY DEF RequestInv
<1>2. call.api \in DOMAIN Methods /\ call.op \in Methods[call.api]
  BY <1>1, SdkAssumption
<1>3. CASE call.op \in {"AddYouTube", "AddDrive"}
  <2>1. call.api = "sources"
    BY <1>2, <1>3 DEF Methods
  <2>2. QED
    BY <1>3, <2>1, AddRequests
<1>4. CASE call.api = "features" /\ call.op = "Create"
  <2>1. FeaturesLegs(call) = <<FeaturesCreate(call)>>
    BY <1>4 DEF FeaturesLegs
  <2>2. leg \in 1..Len(FeaturesLegs(call)) /\ request = FeaturesLegs(call)[leg]
    BY <1>4 DEF RequestInv
  <2>3. Len(<<FeaturesCreate(call)>>) = 1 /\ <<FeaturesCreate(call)>>[1] = FeaturesCreate(call)
    OBVIOUS
  <2>4. leg = 1 /\ request = FeaturesCreate(call)
    BY ONLY <2>1, <2>2, <2>3
  <2>5. request = Sends("CreateNotebook", BuildCreate(call.title), FALSE)
    BY <1>1, <2>4, RequestForms DEF FeaturesCreate, Checked
  <2>6. QED
    BY <1>4, <2>4, <2>5 DEF Sends
<1>5. QED
  BY <1>3, <1>4

\* The row of an added source is read as that source.
LEMMA AddedRowReads ==
  ASSUME NEW x
  PROVE  LET v == JList(<<SourceRow(x)>>)
         IN /\ Is("list", v) /\ v = JList(v.list)
            /\ DecodeAddedSourceRow(v) = View(DecodeSource(SourceRow(x)))
<1> DEFINE l == <<SourceRow(x)>>
<1>1. l # <<>> /\ l[1] = SourceRow(x)
  OBVIOUS
<1> HIDE DEF l
<1>2. Is("list", JList(l)) /\ JList(l).list = l
  BY Kinds DEF Is
<1>3. DecodeAddedSourceRow(JList(l)) = View(DecodeSource(SourceRow(x)))
  BY <1>1, <1>2 DEF DecodeAddedSourceRow
<1>4. QED
  BY <1>2, <1>3 DEF l

\* What a strict call reads is the row of something it added.
LEMMA StrictReturns ==
  ASSUME RequestInv, PageInv, BodyInv, pc = "answered", Is("val", Answer),
         call.op \in {"AddYouTube", "AddDrive"} \/ (call.api = "features" /\ call.op = "Create")
  PROVE  Answer.val.id \in {a.id : a \in added}
<1>1. Underway
  BY DEF Underway
<1>2. /\ leg = 1 /\ request.nullable = FALSE
      /\ \/ call.api = "sources" /\ call.op # "List" /\ request.rpc \in {"AddSource", "AddSourceFile"}
         \/ call.api = "features" /\ request.rpc = "CreateNotebook"
  BY <1>1, StrictRequests
<1>3. Method(request.rpc) /\ request.rpc # "GetConversationTurns" /\ request.rpc \in Told
  BY <1>2 DEF Method, Told
<1>4. ~Is("err", Answer)
  <2>1. Fits(Answer)
    BY <1>1, AnswersFit DEF RequestInv
  <2>2. "val" \in DOMAIN Answer
    BY DEF Is
  <2>3. DOMAIN Answer = {"val"}
    BY <2>1, <2>2 DEF Fits
  <2>4. QED
    BY <2>3 DEF Is
<1>5. \/ call.api = "sources" /\ Answer = SourcesAnswer(call, body, request)
      \/ call.api = "features" /\ Answer = FeaturesAnswer(call, body, request)
  BY <1>2 DEF Answer
<1>6. reply = "answer"
  <2>1. SUFFICES ASSUME reply # "answer" PROVE Is("err", Answer)
    BY <1>4
  <2>2. body \in ErrorPages \/ \E n \in {5, 7} : body \in Framings(Status(request.rpc, n))
    BY <1>1, <2>1 DEF BodyInv, PageInv
  <2>3. Is("err", Called(body, request))
    BY <1>2, <1>3, <2>2, OthersAreNil
  <2>4. QED
    BY <1>5, <2>3 DEF SourcesAnswer, FeaturesAnswer, IfRead, Once
<1>7. PICK then, answer : /\ answer \in Tells(request.rpc, request.payload, shape, then, added)
                          /\ body \in Bodies(request.rpc, answer)
  BY <1>3, <1>6 DEF BodyInv, Answering
<1>8. ASSUME Is("list", answer), answer = JList(answer.list) PROVE Called(body, request) = View(answer)
  BY <1>3, <1>7, <1>8, AnswersAreTaken
<1>9. ~Is("err", View(answer)) /\ View(answer).val = answer
  BY Outputs
<1>10. CASE call.api = "sources" /\ call.op # "List" /\ request.rpc \in {"AddSource", "AddSourceFile"}
  <2>1. PICK a \in added : answer = JList(<<SourceRow([id |-> a.id, kind |-> a.kind, text |-> a.text])>>)
    BY <1>7, <1>10 DEF Tells
  <2> DEFINE x == [id |-> a.id, kind |-> a.kind, text |-> a.text]
  <2>2. x.id = a.id /\ answer = JList(<<SourceRow(x)>>)
    BY <2>1
  <2> HIDE DEF x
  <2>3. Is("list", answer) /\ answer = JList(answer.list) /\ DecodeAddedSourceRow(answer) = View(DecodeSource(SourceRow(x)))
    BY <2>2, AddedRowReads
  <2>4. Answer = DecodeAddedSourceRow(answer)
    BY <1>5, <1>8, <1>9, <1>10, <2>3 DEF SourcesAnswer, IfRead, Once
  <2>5. Answer.val = DecodeSource(SourceRow(x))
    BY <2>3, <2>4, Outputs
  <2>6. Answer.val.id = a.id
    BY <2>2, <2>5, SourceRowIsRead
  <2>7. QED
    BY <2>6
<1>11. CASE call.api = "features" /\ request.rpc = "CreateNotebook"
  <2>1. PICK a \in added : answer = NotebookRow(then, a.id)
    BY <1>7, <1>11 DEF Tells
  <2>2. Is("list", answer) /\ answer = JList(answer.list)
    BY <2>1, NotebookRowFacts
  <2>3. Answer = View(DecodeNotebook(answer))
    BY <1>5, <1>8, <1>9, <1>11, <2>2 DEF FeaturesAnswer, IfRead, Once
  <2>4. Answer.val = DecodeNotebook(answer)
    BY <2>3, Outputs
  <2>5. Answer.val.id = a.id
    BY <2>1, <2>4, NotebookRowIsRead
  <2>6. QED
    BY <2>5
<1>12. QED
  BY <1>2, <1>10, <1>11

\* Only Decode ends a strict call with a value.
LEMMA StrictStep ==
  ASSUME CallInv, BodyInv, StrictAddsAreThere, [Next]_vars
  PROVE  StrictAddsAreThere'
<1>1. CASE pc = "returned"
  BY <1>1, ReturnedStays DEF StrictAddsAreThere, Succeeded, vars, history
<1>2. CASE pc # "returned"
  <2>1. SUFFICES ASSUME pc' = "returned", Is("val", result'),
                        call'.op \in {"AddYouTube", "AddDrive"} \/ (call'.api = "features" /\ call'.op = "Create")
                 PROVE  result'.val.id \in {a.id : a \in added'}
    BY DEF StrictAddsAreThere, Succeeded
  <2>2. /\ pc = "answered" /\ UNCHANGED <<call, added>>
        /\ result' = IF call.api = "resolveID" THEN ResolvedID(Answer) ELSE Answer
    BY <1>2, <2>1, ValuesAreDecoded DEF history
  <2>3. RequestInv /\ PageInv /\ Underway
    BY <2>2 DEF CallInv, Underway
  <2>4. call.op \in {"AddYouTube", "AddDrive"} \/ (call.api = "features" /\ call.op = "Create")
    BY <2>1, <2>2
  <2>5. call.api # "resolveID"
    BY <2>3, <2>4, StrictRequests
  <2>6. result' = Answer /\ Is("val", Answer)
    BY <2>1, <2>2, <2>5
  <2>7. Answer.val.id \in {a.id : a \in added}
    BY <2>2, <2>3, <2>4, <2>6, StrictReturns
  <2>8. QED
    BY <2>2, <2>6, <2>7
<1>3. QED
  BY <1>1, <1>2

\* Adds: what the server added is what the caller named, over every retry, and what the strict
\* methods return is what was added.
THEOREM AddsAreAsAsked == Spec => []AddsWhatWasAsked
<1>1. Init => AddedInv /\ StrictAddsAreThere
  BY DEF Init, AddedInv, StrictAddsAreThere, Succeeded
<1>2. CallInv /\ BodyInv /\ AddedInv /\ [Next]_vars => AddedInv'
  BY AddedStep
<1>3. CallInv /\ BodyInv /\ StrictAddsAreThere /\ [Next]_vars => StrictAddsAreThere'
  BY StrictStep
<1>4. CallInv /\ AddedInv => ServerReadsWhatWasAsked
  <2>1. SUFFICES ASSUME CallInv, AddedInv, call.api = "sources", NEW a \in added
                 PROVE  a.nb = call.nb /\ <<a.kind, a.text>> = Meant(call)
    BY DEF ServerReadsWhatWasAsked
  <2>2. a.nb = call.nb /\ a.kind = Meant(call)[1] /\ a.text = Meant(call)[2]
    BY <2>1 DEF AddedInv, IsMeant
  <2>3. Meant(call) = <<Meant(call)[1], Meant(call)[2]>>
    <3>1. call.op \in Adding
      BY <2>1 DEF AddedInv, IsMeant
    <3>2. \E kind, x : Meant(call) = <<kind, x>>
      BY <3>1 DEF Adding, Meant
    <3>3. QED
      BY ONLY <3>2
  <2>4. QED
    BY ONLY <2>2, <2>3
<1>5. CallInv => AddsAreRead
  <2>1. SUFFICES ASSUME RequestInv, pc = "posted", call.api = "sources", call.op # "List"
                 PROVE  LET spec == SpecOf(request.payload) IN
                          /\ Filled(spec) = {<<Meant(call)[1], Ok(Meant(call)[2])>>}
                          /\ request.rpc = "AddSource" => Coded(spec, Len(spec.list) - 1)
                          /\ Unread(request) <=> call.op \in {"AddURL", "AddYouTube"}
    BY DEF AddsAreRead, CallInv
  <2>2. /\ AsksFor(request.payload, call.nb, Meant(call)[1], Meant(call)[2])
        /\ request.rpc = "AddSource" => EndsCoded(request.payload)
        /\ Unread(request) <=> call.op \in {"AddURL", "AddYouTube"}
    BY <2>1, AddRequests DEF Underway
  <2>3. QED
    BY ONLY <2>2 DEF AsksFor, TakenFor, EndsCoded
<1>6. CallInv /\ AddedInv /\ StrictAddsAreThere => AddsWhatWasAsked
  BY <1>4, <1>5 DEF AddsWhatWasAsked, CallInv, StateInv
<1>7. QED
  BY <1>1, <1>2, <1>3, <1>6, BodyInvariant, PTL DEF Spec

-----------------------------------------------------------------------------
(* A streamed answer *)

\* A set of numbers with a bound has a greatest one.
LEMMA Greatest ==
  ASSUME NEW S, S \subseteq Nat, S # {}, NEW n \in Nat, \A m \in S : m <= n
  PROVE  \E k \in S : \A m \in S : m <= k
<1> DEFINE above == {k \in Nat : \A m \in S : m <= k}
<1>1. PICK k \in above : \A j \in above : k <= j
  <2>1. above \subseteq Nat /\ n \in above
    OBVIOUS
  <2>2. QED
    BY <2>1, LeastNat
<1>2. ASSUME k \notin S PROVE FALSE
  <2>1. \A m \in S : m < k
    BY <1>2
  <2>2. k # 0 /\ k - 1 \in Nat
    <3>1. PICK m \in S : TRUE
      OBVIOUS
    <3>2. m \in Nat /\ m < k /\ k \in Nat
      BY <2>1, <3>1
    <3>3. QED
      BY <3>2
  <2>3. k - 1 \in above
    <3>1. \A m \in S : m <= k - 1
      BY <2>1
    <3>2. QED
      BY <2>2, <3>1
  <2>4. QED
    BY <1>1, <2>2, <2>3
<1>3. QED
  BY <1>1, <1>2

\* So it has a maximum.
LEMMA MaxIs ==
  ASSUME NEW S, S \subseteq Nat, S # {}, NEW n \in Nat, \A m \in S : m <= n
  PROVE  Max(S) \in S /\ \A m \in S : m <= Max(S)
<1>1. PICK k \in S : \A m \in S : m <= k
  BY Greatest
<1>2. \A m \in S : k >= m
  BY <1>1
<1>3. QED
  BY <1>2 DEF Max

\* There is a first place among those of the longest texts.
LEMMA LongestIs ==
  ASSUME NEW chunks, NEW places, places \subseteq Nat, places # {}, NEW n \in Nat,
         \A i \in places : Len(chunks[i].text) \in 0..n
  PROVE  /\ Longest(chunks, places) \in places
         /\ \A j \in places : Len(chunks[j].text) <= Len(chunks[Longest(chunks, places)].text)
<1> DEFINE size(i) == Len(chunks[i].text)
           sizes   == {size(i) : i \in places}
           best    == {i \in places : \A j \in places : size(j) <= size(i)}
<1>1. \E m \in sizes : \A l \in sizes : l <= m
  <2>1. sizes \subseteq Nat /\ \A m \in sizes : m <= n
    <3>1. ASSUME NEW m \in sizes PROVE m \in Nat /\ m <= n
      <4>1. PICK i \in places : m = size(i)
        OBVIOUS
      <4>2. m \in 0..n
        BY <4>1
      <4>3. QED
        BY <4>2
    <3>2. QED
      BY <3>1
  <2>2. sizes # {}
    OBVIOUS
  <2> HIDE DEF sizes
  <2>3. QED
    BY <2>1, <2>2, Greatest
<1>2. best # {} /\ best \subseteq Nat
  BY <1>1
<1>3. PICK i \in best : \A j \in best : i <= j
  BY <1>2, LeastNat
<1>4. \A j \in places : size(j) < size(i) \/ (size(j) = size(i) /\ i <= j)
  <2>1. ASSUME NEW j \in places PROVE size(j) < size(i) \/ (size(j) = size(i) /\ i <= j)
    <3>1. size(j) <= size(i) /\ size(i) \in Nat /\ size(j) \in Nat
      BY <1>3
    <3>2. size(j) = size(i) => j \in best
      BY <1>3
    <3>3. QED
      BY <1>3, <3>1, <3>2
  <2>2. QED
    BY <2>1
<1> DEFINE k == Longest(chunks, places)
<1>5. k \in places /\ \A j \in places : size(j) < size(k) \/ (size(j) = size(k) /\ k <= j)
  BY <1>4 DEF Longest
<1>6. QED
  BY <1>5

\* What the parser of a line finds of what the server said.
Shows(c, s) ==
  /\ DOMAIN c = {"parseable", "text", "isAnswer", "final", "refs", "conversation", "turn"}
  /\ c.parseable = TRUE
  /\ c.text = s.text /\ c.isAnswer = s.marked /\ c.final = s.final

\* What the server says is a text, a mark and an end.
Spoken(s) == s.text \in Texts /\ s.marked \in BOOLEAN /\ s.final \in BOOLEAN

\* The slots of the row of an answer.
LEMMA SaidSlots ==
  ASSUME NEW s
  PROVE  /\ Is("list", SaidRow(s))
         /\ OptStr(SaidRow(s), Slot(0)) = s.text
         /\ \E cites : At(SaidRow(s), <<JNum(4), JNum(3)>>) = Ok(JList(cites))
         /\ IntAt(SaidRow(s), <<JNum(4), JNum(4)>>) = Ok(IF s.marked THEN 1 ELSE 2)
<1> DEFINE cites == Mapped(QuoteRow, s.cites)
           mark  == IF s.marked THEN 1 ELSE 2
           inner == <<Null, Null, Null, JList(cites), JNum(mark)>>
           third == JList(<<JStr("stream"), JStr(s.text), JNum(Len(s.text))>>)
           row   == <<JStr(s.text), Null, third, Null, JList(inner)>>
<1>1. SaidRow(s) = JList(row)
  BY DEF SaidRow
<1>2. Len(row) = 5 /\ row[1] = JStr(s.text) /\ row[5] = JList(inner)
  OBVIOUS
<1>3. Len(inner) = 5 /\ inner[4] = JList(cites) /\ inner[5] = JNum(mark)
  OBVIOUS
<1> HIDE DEF row, inner, third, cites, mark
<1>4. At(JList(row), Slot(0)) = Ok(JStr(s.text))
  <2>1. 0 \in Nat /\ 0 < Len(row) /\ 0 + 1 = 1
    BY <1>2
  <2>2. At(JList(row), Slot(0)) = Ok(row[0 + 1])
    BY <2>1, Slots
  <2>3. QED
    BY <1>2, <2>1, <2>2
<1>5. Step(Ok(JList(row)), JNum(4)) = Ok(JList(inner))
  <2>1. 4 \in Nat /\ 4 < Len(row) /\ 4 + 1 = 5
    BY <1>2
  <2>2. Step(Ok(JList(row)), JNum(4)) = Ok(row[4 + 1])
    BY <2>1, Descents
  <2>3. QED
    BY <1>2, <2>1, <2>2
<1>6. /\ Step(Ok(JList(inner)), JNum(3)) = Ok(JList(cites))
      /\ Step(Ok(JList(inner)), JNum(4)) = Ok(JNum(mark))
  <2>1. 3 \in Nat /\ 4 \in Nat /\ 3 < Len(inner) /\ 4 < Len(inner) /\ 3 + 1 = 4 /\ 4 + 1 = 5
    BY <1>3
  <2>2. Step(Ok(JList(inner)), JNum(3)) = Ok(inner[3 + 1]) /\ Step(Ok(JList(inner)), JNum(4)) = Ok(inner[4 + 1])
    BY <2>1, Descents
  <2>3. QED
    BY <1>3, <2>1, <2>2
<1>7. At(JList(row), <<JNum(4), JNum(3)>>) = Ok(JList(cites)) /\ At(JList(row), <<JNum(4), JNum(4)>>) = Ok(JNum(mark))
  BY <1>5, <1>6, PathTwo
<1>8. IntAt(JList(row), <<JNum(4), JNum(4)>>) = Ok(mark)
  BY <1>7, Kinds, Founds DEF IntAt, Typed, Is
<1>9. Is("list", JList(row)) /\ OptStr(JList(row), Slot(0)) = s.text
  BY <1>4, Kinds, StrReads DEF Is
<1>10. QED
  BY <1>1, <1>7, <1>8, <1>9 DEF mark

\* The frame of an answer is read as what was said.
LEMMA SaidIsRead ==
  ASSUME NEW s, Spoken(s)
  PROVE  /\ Is("list", SaidFrame(s)) /\ Len(SaidFrame(s).list) = 3
         /\ ~Rejects(SaidFrame(s)) /\ Answers(SaidFrame(s))
         /\ Shows(Answered(Envelope(SaidFrame(s)), First(SaidFrame(s)).ok), s)
<1> DEFINE f        == SaidFrame(s)
           envelope == JList(<<SaidRow(s), Null, Null, Null, JBool(s.final)>>)
           frame    == <<JStr("wrb.fr"), Null, JText(envelope)>>
<1>1. f = JList(frame) /\ f.list = frame /\ Is("list", f)
  BY Kinds DEF SaidFrame, Is
<1>2. Len(frame) = 3 /\ frame[1] = JStr("wrb.fr") /\ frame[3] = JText(envelope)
  OBVIOUS
<1>3. At(envelope, Slot(0)) = Ok(SaidRow(s)) /\ At(envelope, Slot(4)) = Ok(JBool(s.final))
  <2> DEFINE l == <<SaidRow(s), Null, Null, Null, JBool(s.final)>>
  <2>1. Len(l) = 5 /\ l[1] = SaidRow(s) /\ l[5] = JBool(s.final) /\ envelope = JList(l)
    OBVIOUS
  <2> HIDE DEF l
  <2>2. 0 \in Nat /\ 4 \in Nat /\ 0 < Len(l) /\ 4 < Len(l) /\ 0 + 1 = 1 /\ 4 + 1 = 5
    BY <2>1
  <2>3. At(JList(l), Slot(0)) = Ok(l[0 + 1]) /\ At(JList(l), Slot(4)) = Ok(l[4 + 1])
    BY <2>2, Slots
  <2>4. QED
    BY <2>1, <2>2, <2>3
<1> HIDE DEF f, frame, envelope
<1>4. Field(f, 0) = "wrb.fr"
  <2>1. 0 \in Nat /\ 0 < Len(frame) /\ 0 + 1 = 1
    BY <1>2
  <2>2. At(JList(frame), Slot(0)) = Ok(frame[0 + 1])
    BY <2>1, Slots
  <2>3. At(f, Slot(0)) = Ok(JStr("wrb.fr"))
    BY <1>1, <1>2, <2>1, <2>2
  <2>4. QED
    BY <2>3, StrReads DEF Field
<1>5. Is("text", f.list[3]) /\ IsText(f.list[3]) /\ Envelope(f) = envelope
  BY <1>1, <1>2, Kinds DEF Is, IsText, Envelope
<1>6. Opens(f) /\ ~Rejects(f)
  BY <1>1, <1>2, <1>4, <1>5 DEF Opens, Rejects
<1>7. First(f) = Ok(SaidRow(s)) /\ First(f).ok = SaidRow(s) /\ Found(First(f))
  BY <1>3, <1>5, Kinds, Founds DEF First
<1>8. s.text # ""
  BY DEF Spoken, Texts
<1>9. Answers(f)
  BY <1>6, <1>7, <1>8, SaidSlots DEF Answers, HasFirst
<1>10. Shows(Answered(envelope, SaidRow(s)), s)
  <2> DEFINE row  == SaidRow(s)
             kept == [ NoChunk EXCEPT !.parseable = TRUE, !.text = OptStr(row, Slot(0)),
                                      !.isAnswer = IsMarked(row),
                                      !.conversation = OptStr(row, <<JNum(2), JNum(0)>>) ]
             refs == ParseCitations(OrElse(ListAt(row, <<JNum(4), JNum(3)>>), <<>>))
             c    == [kept EXCEPT !.final = IsFinal(envelope), !.refs = refs]
  <2>1. Answered(envelope, row) = c
    <3>1. PICK cites : At(row, <<JNum(4), JNum(3)>>) = Ok(JList(cites))
      BY SaidSlots
    <3>2. Ok(JList(cites)).ok = JList(cites) /\ DOMAIN JList(cites) \cap {"list", "null"} # {}
      BY Kinds
    <3>3. QED
      BY <3>1, <3>2 DEF Answered
  <2>2. IsMarked(row) = s.marked
    <3>1. IntAt(row, <<JNum(4), JNum(4)>>) = Ok(IF s.marked THEN 1 ELSE 2)
      BY SaidSlots
    <3>2. Ok(1) # Ok(2)
      BY Kinds
    <3>3. CASE s.marked = TRUE
      BY <3>1, <3>3 DEF IsMarked
    <3>4. CASE s.marked = FALSE
      BY <3>1, <3>2, <3>4 DEF IsMarked
    <3>5. QED
      BY <3>3, <3>4 DEF Spoken
  <2>3. IsFinal(envelope) = s.final
    <3>1. BoolAt(envelope, Slot(4)) = Ok(s.final)
      BY <1>3, Kinds, Founds DEF BoolAt, Typed, Is
    <3>2. Ok(TRUE) # Ok(FALSE)
      BY Kinds
    <3>3. CASE s.final = TRUE
      BY <3>1, <3>3 DEF IsFinal
    <3>4. CASE s.final = FALSE
      BY <3>1, <3>2, <3>4 DEF IsFinal
    <3>5. QED
      BY <3>3, <3>4 DEF Spoken
  <2>4. OptStr(row, Slot(0)) = s.text
    BY SaidSlots
  <2> HIDE DEF row, refs
  <2>5. /\ DOMAIN c = {"parseable", "text", "isAnswer", "final", "refs", "conversation", "turn"}
        /\ c.parseable = TRUE /\ c.text = OptStr(row, Slot(0))
        /\ c.isAnswer = IsMarked(row) /\ c.final = IsFinal(envelope)
    BY DEF NoChunk
  <2>6. QED
    BY <2>1, <2>2, <2>3, <2>4, <2>5 DEF Shows, Is, row
<1>11. QED
  BY <1>1, <1>2, <1>5, <1>6, <1>7, <1>9, <1>10 DEF f

\* A heartbeat neither rejects nor answers, and the bookkeeping has no result.
LEMMA QuietFrames ==
  /\ Is("list", Heartbeat) /\ Len(Heartbeat.list) = 3 /\ ~Rejects(Heartbeat) /\ ~Answers(Heartbeat)
  /\ Is("list", Bookkeeping) /\ Len(Bookkeeping.list) = 2
  /\ ~Rejects(Bookkeeping) /\ ~Answers(Bookkeeping) /\ ~Opens(Bookkeeping) /\ ~HasTurn(Bookkeeping)
<1> DEFINE beat == <<JStr("wrb.fr"), Null, JText(JList(<<>>))>>
           book == <<JStr("e"), JNum(4)>>
<1>1. Len(beat) = 3 /\ beat[1] = JStr("wrb.fr") /\ beat[3] = JText(JList(<<>>))
  OBVIOUS
<1>2. Len(book) = 2 /\ book[1] = JStr("e")
  OBVIOUS
<1>3. Heartbeat = JList(beat) /\ Bookkeeping = JList(book)
  BY DEF Heartbeat, Bookkeeping
<1> HIDE DEF beat, book
<1>4. Field(Heartbeat, 0) = "wrb.fr" /\ Field(Bookkeeping, 0) = "e"
  <2>1. 0 \in Nat /\ 0 < Len(beat) /\ 0 < Len(book) /\ 0 + 1 = 1
    BY <1>1, <1>2
  <2>2. At(JList(beat), Slot(0)) = Ok(beat[0 + 1]) /\ At(JList(book), Slot(0)) = Ok(book[0 + 1])
    BY <2>1, Slots
  <2>3. QED
    BY <1>1, <1>2, <1>3, <2>1, <2>2, StrReads DEF Field
<1>5. Heartbeat.list = beat /\ Bookkeeping.list = book /\ Is("list", Heartbeat) /\ Is("list", Bookkeeping)
  BY <1>3, Kinds DEF Is
<1>6. Envelope(Heartbeat) = JList(<<>>) /\ Is("text", Heartbeat.list[3]) /\ IsText(Heartbeat.list[3])
  BY <1>1, <1>5, Kinds DEF Envelope, Is, IsText
<1>7. ~Found(First(Heartbeat))
  <2>1. 0 \in Nat /\ ~(0 < Len(<<>>))
    OBVIOUS
  <2>2. At(JList(<<>>), Slot(0)) = Drift("out_of_range")
    BY <2>1, Slots
  <2>3. QED
    BY <1>6, <2>2, Founds DEF First
<1>8. ~Rejects(Heartbeat) /\ ~Answers(Heartbeat)
  BY <1>4, <1>6, <1>7 DEF Rejects, Answers, HasFirst
<1>9. ~Opens(Bookkeeping)
  <2>1. Len(Bookkeeping.list) = 2
    BY <1>2, <1>5
  <2>2. ~(Len(Bookkeeping.list) >= 3)
    BY ONLY <2>1
  <2>3. QED
    BY ONLY <2>2 DEF Opens
<1>10. ~Rejects(Bookkeeping)
  BY <1>2, <1>4, <1>5 DEF Rejects
<1>11. QED
  BY <1>1, <1>2, <1>5, <1>8, <1>9, <1>10 DEF Answers, HasTurn, HasFirst

\* A line with a refusal or an answer between frames that say nothing is read up to it.
LEMMA LinesAreRead ==
  ASSUME NEW f, Is("list", f), Len(f.list) \in Nat, Len(f.list) >= 2, Rejects(f) \/ Answers(f)
  PROVE  LET c     == ExtractChunk(Chunk(<<Heartbeat, f, Bookkeeping>>))
             found == Answered(Envelope(f), First(f).ok)
         IN /\ Rejects(f) => c = [err |-> "chat"]
            /\ ~Rejects(f) => \E turn : c \in {found, [found EXCEPT !.turn = turn]}
<1> DEFINE line  == <<Heartbeat, f, Bookkeeping>>
           found == Answered(Envelope(f), First(f).ok)
           turns == {i \in {1, 2} : HasTurn(line[i])}
<1>1. DOMAIN line = {1, 2, 3} /\ line[1] = Heartbeat /\ line[2] = f /\ line[3] = Bookkeeping
  OBVIOUS
<1>2. Chunk(line).json = JList(line) /\ Is("json", Chunk(line)) /\ Is("list", JList(line)) /\ JList(line).list = line
  BY Kinds DEF Chunk, Line, Is
<1> HIDE DEF line
<1>3. Read(line) = {1, 2}
  <2> DEFINE frames == {i \in DOMAIN line : Is("list", line[i]) /\ Len(line[i].list) >= 2}
             ends   == {i \in frames : Rejects(line[i]) \/ Answers(line[i])}
  <2>1. frames = {1, 2, 3}
    BY <1>1, QuietFrames
  <2>2. ends = {2}
    BY <1>1, <2>1, QuietFrames
  <2>3. Read(line) = {i \in frames : \A j \in ends : i <= j}
    BY DEF Read
  <2> HIDE DEF frames, ends
  <2>4. {i \in {1, 2, 3} : \A j \in {2} : i <= j} = {1, 2}
    OBVIOUS
  <2>5. QED
    BY <2>1, <2>2, <2>3, <2>4
<1>4. Max({1, 2}) = 2
  BY MaxIs, {1, 2} \subseteq Nat, {1, 2} # {}, 2 \in Nat, \A m \in {1, 2} : m <= 2
<1>5. ExtractChunk(Chunk(line)) = ExtractFrames(line, {1, 2})
  BY <1>2, <1>3 DEF ExtractChunk, Once
<1>6. ExtractFrames(line, {1, 2}) =
        IF Rejects(f) THEN [err |-> "chat"]
        ELSE IF turns = {} THEN IF Answers(f) THEN found ELSE [NoChunk EXCEPT !.parseable = \E i \in {1, 2} : Opens(line[i])]
        ELSE [(IF Answers(f) THEN found ELSE [NoChunk EXCEPT !.parseable = \E i \in {1, 2} : Opens(line[i])])
                EXCEPT !.turn = TurnKey(First(line[Max(turns)]).ok)]
  BY <1>1, <1>4 DEF ExtractFrames
<1>7. Rejects(f) => ExtractChunk(Chunk(line)) = [err |-> "chat"]
  BY <1>5, <1>6
<1>8. ~Rejects(f) => \E turn : ExtractChunk(Chunk(line)) \in {found, [found EXCEPT !.turn = turn]}
  <2> DEFINE turn == TurnKey(First(line[Max(turns)]).ok)
  <2>1. ~Rejects(f) => ExtractChunk(Chunk(line)) \in {found, [found EXCEPT !.turn = turn]}
    BY <1>5, <1>6
  <2> HIDE DEF turn, found
  <2>2. QED
    BY <2>1
<1>9. QED
  BY <1>7, <1>8 DEF line

\* A saying is shown as it was said ...
LEMMA SaidIsShown ==
  ASSUME NEW s, Spoken(s)
  PROVE  Shows(ExtractChunk(Chunk(<<Heartbeat, SaidFrame(s), Bookkeeping>>)), s)
<1> DEFINE f     == SaidFrame(s)
           found == Answered(Envelope(f), First(f).ok)
           c     == ExtractChunk(Chunk(<<Heartbeat, f, Bookkeeping>>))
<1>1. Is("list", f) /\ Len(f.list) = 3 /\ ~Rejects(f) /\ Answers(f) /\ Shows(found, s)
  BY SaidIsRead
<1> HIDE DEF f
<1>2. PICK turn : c \in {found, [found EXCEPT !.turn = turn]}
  <2>1. Len(f.list) \in Nat /\ Len(f.list) >= 2
    BY ONLY <1>1
  <2>2. QED
    BY <1>1, <2>1, LinesAreRead
<1> HIDE DEF found, c
<1>3. Shows([found EXCEPT !.turn = turn], s)
  BY <1>1 DEF Shows
<1>4. QED
  BY <1>1, <1>2, <1>3 DEF c, f

\* ... and a refusal as an error.
LEMMA RefusalsAreErrors ==
  ASSUME NEW f \in Refusals
  PROVE  ExtractChunk(Chunk(<<Heartbeat, f, Bookkeeping>>)) = [err |-> "chat"]
<1>1. CASE f = JList(<<JStr("er"), Null, JNum(429)>>)
  <2> DEFINE l == <<JStr("er"), Null, JNum(429)>>
  <2>1. Len(l) = 3 /\ l[1] = JStr("er") /\ f = JList(l) /\ f.list = l /\ Is("list", f)
    BY <1>1, Kinds DEF Is
  <2> HIDE DEF l
  <2>2. At(JList(l), Slot(0)) = Ok(JStr("er"))
    <3>1. 0 \in Nat /\ 0 < Len(l) /\ 0 + 1 = 1
      BY <2>1
    <3>2. At(JList(l), Slot(0)) = Ok(l[0 + 1])
      BY <3>1, Slots
    <3>3. QED
      BY <2>1, <3>1, <3>2
  <2>3. Field(f, 0) = "er"
    BY <2>1, <2>2, StrReads DEF Field
  <2>4. Rejects(f)
    BY <2>3 DEF Rejects
  <2>5. Len(f.list) \in Nat /\ Len(f.list) >= 2
    <3>1. Len(f.list) = 3
      BY ONLY <2>1
    <3>2. QED
      BY ONLY <3>1
  <2>6. QED
    BY <2>1, <2>4, <2>5, LinesAreRead
<1>2. CASE f = Frame("Chat", Null, JList(<<JNum(3)>>))
  <2>1. /\ Is("list", f) /\ Len(f.list) = 6 /\ f.list[3] = Null /\ Field(f, 0) = "wrb.fr"
        /\ At(f, Slot(5)) = Ok(JList(<<JNum(3)>>))
    BY <1>2, FrameFields
  <2>2. ~IsText(Null) /\ Found(At(f, Slot(5))) /\ Is("list", At(f, Slot(5)).ok)
    BY <2>1, Kinds, Founds DEF IsText, Is
  <2>3. Rejects(f)
    BY <2>1, <2>2 DEF Rejects
  <2>4. QED
    BY <2>1, <2>3, LinesAreRead
<1>3. QED
  BY <1>1, <1>2 DEF Refusals

\* The lines between them say nothing, and neither does the end of a stream.
LEMMA QuietLines ==
  ASSUME NEW n, NEW l \in {Header(n), Garbage, Chunk(<<Bookkeeping>>)}
  PROVE  ExtractChunk(l) = NoChunk
<1>1. CASE l \in {Header(n), Garbage}
  <2>1. ~Is("json", l)
    BY <1>1, OtherLines
  <2>2. QED
    BY <2>1 DEF ExtractChunk
<1>2. CASE l = Chunk(<<Bookkeeping>>)
  <2> DEFINE line == <<Bookkeeping>>
  <2>1. DOMAIN line = {1} /\ line[1] = Bookkeeping
    OBVIOUS
  <2>2. l.json = JList(line) /\ Is("json", l) /\ Is("list", JList(line)) /\ JList(line).list = line
    BY <1>2, Kinds DEF Chunk, Line, Is
  <2> HIDE DEF line
  <2>3. Read(line) = {1}
    <3> DEFINE frames == {i \in DOMAIN line : Is("list", line[i]) /\ Len(line[i].list) >= 2}
               ends   == {i \in frames : Rejects(line[i]) \/ Answers(line[i])}
    <3>1. frames = {1} /\ ends = {}
      BY <2>1, QuietFrames
    <3>2. Read(line) = {i \in frames : \A j \in ends : i <= j}
      BY DEF Read
    <3> HIDE DEF frames, ends
    <3>3. QED
      BY <3>1, <3>2
  <2>4. Max({1}) = 1
    BY MaxIs, {1} \subseteq Nat, {1} # {}, 1 \in Nat, \A m \in {1} : m <= 1
  <2>5. ExtractChunk(l) = ExtractFrames(line, {1})
    BY <2>2, <2>3 DEF ExtractChunk, Once
  <2>6. {i \in {1} : HasTurn(line[i])} = {} /\ (\E i \in {1} : Opens(line[i])) = FALSE
    BY <2>1, QuietFrames
  <2>7. ExtractFrames(line, {1}) = [NoChunk EXCEPT !.parseable = \E i \in {1} : Opens(line[i])]
    BY <2>1, <2>4, <2>6, QuietFrames DEF ExtractFrames
  <2>8. [NoChunk EXCEPT !.parseable = FALSE] = NoChunk
    <3>1. NoChunk.parseable = FALSE /\ NoChunk = [k \in DOMAIN NoChunk |-> NoChunk[k]]
      BY DEF NoChunk
    <3>2. QED
      BY <3>1
  <2>9. QED
    BY <2>5, <2>6, <2>7, <2>8
<1>3. QED
  BY <1>1, <1>2

\* The frames that may stand for what was said.
ShownAs(s) == IF s = Refused THEN Refusals ELSE {SaidFrame(s)}

Relays(line, s) == \E f \in ShownAs(s) : line = Chunk(<<Heartbeat, f, Bookkeeping>>)
Quiet(line)    == line \in {Header(1), Garbage, Chunk(<<Bookkeeping>>)}

\* A body tells all that was said, and nothing else.
Transcript(b, said) ==
  /\ \E S : b \in Seq(S)
  /\ \A i \in DOMAIN b : Quiet(b[i]) \/ \E k \in DOMAIN said : Relays(b[i], said[k])
  /\ \A k \in DOMAIN said : \E i \in DOMAIN b : Relays(b[i], said[k])

AllSpoken(said) == \A k \in DOMAIN said : said[k] = Refused \/ Spoken(said[k])

\* A line that tells something is read as an error, or as what was said.
LEMMA TellingIsRead ==
  ASSUME NEW s, NEW l, Relays(l, s), s = Refused \/ Spoken(s)
  PROVE  /\ s = Refused => ExtractChunk(l) = [err |-> "chat"]
         /\ s # Refused => Shows(ExtractChunk(l), s)
         /\ DOMAIN l = {"json"}
<1>1. PICK f \in ShownAs(s) : l = Chunk(<<Heartbeat, f, Bookkeeping>>)
  BY DEF Relays
<1>2. DOMAIN l = {"json"}
  BY <1>1 DEF Chunk, Line
<1>3. CASE s = Refused
  BY <1>1, <1>2, <1>3, RefusalsAreErrors DEF ShownAs
<1>4. CASE s # Refused
  <2>1. f = SaidFrame(s) /\ Spoken(s)
    BY <1>1, <1>4 DEF ShownAs
  <2>2. QED
    BY <1>1, <1>2, <1>4, <2>1, SaidIsShown
<1>5. QED
  BY <1>3, <1>4

\* The chunks of a transcript are what was said, and chunks without a text.
LEMMA ChunksOfTranscript ==
  ASSUME NEW b, Transcript(b, sent), AllSpoken(sent)
  PROVE  LET c == Chunks(b)
         IN /\ DOMAIN c = DOMAIN b /\ DOMAIN b \subseteq Nat
            /\ \E n \in Nat : \A i \in DOMAIN b : i <= n
            /\ \A i \in DOMAIN c : c[i] = NoChunk \/ c[i] = [err |-> "chat"] \/ \E s \in Heard : Shows(c[i], s)
            /\ \A s \in Heard : \E i \in DOMAIN c : Shows(c[i], s)
            /\ Refused \in ToSet(sent) => \E i \in DOMAIN c : c[i] = [err |-> "chat"]
<1> DEFINE c == Chunks(b)
<1>1. DOMAIN c = DOMAIN b
  BY DEF Chunks
<1>2. DOMAIN b \subseteq Nat /\ \E n \in Nat : \A i \in DOMAIN b : i <= n
  <2>1. PICK S : b \in Seq(S)
    BY DEF Transcript
  <2>2. Len(b) \in Nat /\ DOMAIN b = 1..Len(b)
    BY <2>1
  <2>3. QED
    BY <2>2
<1>3. \A i \in DOMAIN b : c[i] = NoChunk \/ c[i] = ExtractChunk(b[i])
  BY DEF Chunks
<1>4. \A i \in DOMAIN b : DOMAIN b[i] = {"json"} => c[i] = ExtractChunk(b[i])
  <2>1. ASSUME NEW i \in DOMAIN b, DOMAIN b[i] = {"json"} PROVE c[i] = ExtractChunk(b[i])
    <3>1. ~(Is("blank", b[i]) \/ Is("count", b[i]))
      BY <2>1 DEF Is
    <3>2. QED
      BY <3>1 DEF Chunks
  <2>2. QED
    BY <2>1
<1> HIDE DEF c
<1>5. ASSUME NEW i \in DOMAIN b, NEW k \in DOMAIN sent, Relays(b[i], sent[k])
      PROVE  /\ sent[k] = Refused => c[i] = [err |-> "chat"]
             /\ sent[k] # Refused => Shows(c[i], sent[k])
  BY <1>4, <1>5, TellingIsRead DEF AllSpoken
<1>6. \A k \in DOMAIN sent : sent[k] # Refused => sent[k] \in Heard
  BY DEF Heard, ToSet
<1>7. ASSUME NEW i \in DOMAIN b
      PROVE  c[i] = NoChunk \/ c[i] = [err |-> "chat"] \/ \E s \in Heard : Shows(c[i], s)
  <2>1. CASE Quiet(b[i])
    BY <1>3, <2>1, QuietLines DEF Quiet
  <2>2. CASE \E k \in DOMAIN sent : Relays(b[i], sent[k])
    BY <1>5, <1>6, <2>2
  <2>3. QED
    BY <2>1, <2>2 DEF Transcript
<1>8. ASSUME NEW s \in Heard PROVE \E i \in DOMAIN b : Shows(c[i], s)
  <2>1. PICK k \in DOMAIN sent : s = sent[k] /\ s # Refused
    BY DEF Heard, ToSet
  <2>2. PICK i \in DOMAIN b : Relays(b[i], sent[k])
    BY DEF Transcript
  <2>3. QED
    BY <1>5, <2>1, <2>2
<1>9. ASSUME Refused \in ToSet(sent) PROVE \E i \in DOMAIN b : c[i] = [err |-> "chat"]
  <2>1. PICK k \in DOMAIN sent : sent[k] = Refused
    BY <1>9 DEF ToSet
  <2>2. PICK i \in DOMAIN b : Relays(b[i], sent[k])
    BY DEF Transcript
  <2>3. QED
    BY <1>5, <2>1, <2>2
<1>10. QED
  BY <1>1, <1>2, <1>7, <1>8, <1>9 DEF c

\* The texts have lengths.
LEMMA TextLengths == \E n \in Nat : \A text \in Texts : Len(text) \in 0..n
<1>1. \A text \in Texts : Len(text) \in Nat
  BY SdkAssumption
<1>2. /\ Len("thinking") \in Nat /\ Len("al") \in Nat /\ Len("alpha") \in Nat /\ Len("alp") \in Nat
  BY <1>1 DEF Texts
<1> DEFINE n == Len("thinking") + Len("al") + Len("alpha") + Len("alp")
<1>3. n \in Nat /\ \A text \in Texts : Len(text) \in 0..n
  BY <1>2 DEF Texts
<1>4. QED
  BY <1>3

\* What is chosen among the chunks of a stream is the best of what was said.
LEMMA BestIsSelected ==
  ASSUME NEW c, DOMAIN c \subseteq Nat, NEW n \in Nat, \A i \in DOMAIN c : i <= n,
         \A s \in Heard : Spoken(s),
         \A i \in DOMAIN c : c[i] = NoChunk \/ \E s \in Heard : Shows(c[i], s),
         \A s \in Heard : \E i \in DOMAIN c : Shows(c[i], s)
  PROVE  SelectAnswer(c).text \in IF Heard = {} THEN {""} ELSE {s.text : s \in Best}
<1> DEFINE texts  == {i \in DOMAIN c : c[i].text # ""}
           marked == {i \in texts : c[i].isAnswer}
           final  == {i \in marked : c[i].final}
           smarked == {s \in Heard : s.marked}
           sfinal  == {s \in smarked : s.final}
<1>1. \A i \in texts : \E s \in Heard : Shows(c[i], s)
  <2>1. NoChunk.text = ""
    BY DEF NoChunk
  <2>2. QED
    BY <2>1
<1>2. \A s \in Heard : \E i \in texts : Shows(c[i], s)
  <2>1. \A s \in Heard : s.text # ""
    BY DEF Spoken, Texts
  <2>2. QED
    BY <2>1 DEF Shows
<1>3. \A i \in marked : \E s \in smarked : Shows(c[i], s)
  BY <1>1 DEF Shows
<1>4. \A s \in smarked : \E i \in marked : Shows(c[i], s)
  BY <1>2 DEF Shows
<1>5. \A i \in final : \E s \in sfinal : Shows(c[i], s)
  BY <1>3 DEF Shows
<1>6. \A s \in sfinal : \E i \in final : Shows(c[i], s)
  BY <1>4 DEF Shows
<1>7. SelectAnswer(c) =
        IF final # {} THEN c[Max(final)]
        ELSE IF marked # {} THEN c[Longest(c, marked)]
        ELSE IF texts # {} THEN c[Longest(c, texts)]
        ELSE NoChunk
  BY DEF SelectAnswer
<1>8. Best = IF sfinal # {} THEN sfinal
             ELSE IF smarked # {} THEN {s \in smarked : \A t \in smarked : Len(t.text) <= Len(s.text)}
             ELSE Heard
  BY DEF Best
<1>9. final \subseteq marked /\ marked \subseteq texts /\ texts \subseteq DOMAIN c
  OBVIOUS
<1>10. sfinal \subseteq smarked /\ smarked \subseteq Heard
  OBVIOUS
<1> HIDE DEF texts, marked, final, smarked, sfinal
<1>11. PICK m \in Nat : \A i \in texts : Len(c[i].text) \in 0..m
  <2>1. PICK m \in Nat : \A text \in Texts : Len(text) \in 0..m
    BY TextLengths
  <2>2. \A i \in texts : c[i].text \in Texts
    BY <1>1 DEF Shows, Spoken
  <2>3. QED
    BY <2>1, <2>2
<1>12. CASE final # {}
  <2>1. Max(final) \in final
    <3>1. final \subseteq Nat /\ \A i \in final : i <= n
      BY <1>9
    <3>2. QED
      BY <1>12, <3>1, MaxIs
  <2>2. PICK s \in sfinal : Shows(c[Max(final)], s)
    BY <1>5, <2>1
  <2>3. Best = sfinal /\ Heard # {} /\ SelectAnswer(c).text = s.text
    BY <1>7, <1>8, <1>10, <1>12, <2>2 DEF Shows
  <2>4. QED
    BY <2>2, <2>3
<1>13. CASE final = {} /\ marked # {}
  <2> DEFINE k == Longest(c, marked)
  <2>1. k \in marked /\ \A j \in marked : Len(c[j].text) <= Len(c[k].text)
    <3>1. marked \subseteq Nat /\ \A i \in marked : Len(c[i].text) \in 0..m
      BY <1>9, <1>11
    <3>2. QED
      BY <1>13, <3>1, LongestIs
  <2>2. PICK s \in smarked : Shows(c[k], s)
    BY <1>3, <2>1
  <2>3. sfinal = {} /\ smarked # {} /\ Heard # {}
    BY <1>6, <1>10, <1>13, <2>2
  <2>4. SelectAnswer(c).text = s.text
    BY <1>7, <1>13, <2>2 DEF Shows
  <2>5. ASSUME NEW t \in smarked PROVE Len(t.text) <= Len(s.text)
    <3>1. PICK j \in marked : Shows(c[j], t)
      BY <1>4
    <3>2. Len(c[j].text) <= Len(c[k].text)
      BY <2>1, <3>1
    <3>3. QED
      BY <2>2, <3>1, <3>2 DEF Shows
  <2>6. s \in Best
    BY <1>8, <2>3, <2>5
  <2>7. QED
    BY <2>3, <2>4, <2>6
<1>14. CASE final = {} /\ marked = {} /\ texts # {}
  <2> DEFINE k == Longest(c, texts)
  <2>1. k \in texts
    <3>1. texts \subseteq Nat
      BY <1>9
    <3>2. QED
      BY <1>11, <1>14, <3>1, LongestIs
  <2>2. PICK s \in Heard : Shows(c[k], s)
    BY <1>1, <2>1
  <2>3. sfinal = {} /\ smarked = {}
    BY <1>4, <1>6, <1>14
  <2>4. SelectAnswer(c).text = s.text /\ Best = Heard
    BY <1>7, <1>8, <1>14, <2>2, <2>3 DEF Shows
  <2>5. QED
    BY <2>2, <2>4
<1>15. CASE texts = {}
  <2>1. Heard = {} /\ final = {} /\ marked = {}
    BY <1>2, <1>9, <1>15
  <2>2. SelectAnswer(c) = NoChunk /\ NoChunk.text = ""
    BY <1>7, <1>15, <2>1 DEF NoChunk
  <2>3. QED
    BY <2>1, <2>2
<1>16. QED
  BY <1>12, <1>13, <1>14, <1>15

\* An answer that is no error is the best of what its body tells.
LEMMA StreamIsRead ==
  ASSUME NEW b, Transcript(b, sent), AllSpoken(sent), Is("val", ParseChatStream(b))
  PROVE  /\ Refused \notin ToSet(sent)
         /\ ParseChatStream(b).val.answer \in IF Heard = {} THEN {""} ELSE {s.text : s \in Best}
<1> DEFINE c == Chunks(b)
<1>1. /\ DOMAIN c \subseteq Nat /\ \E n \in Nat : \A i \in DOMAIN c : i <= n
      /\ \A i \in DOMAIN c : c[i] = NoChunk \/ c[i] = [err |-> "chat"] \/ \E s \in Heard : Shows(c[i], s)
      /\ \A s \in Heard : \E i \in DOMAIN c : Shows(c[i], s)
      /\ Refused \in ToSet(sent) => \E i \in DOMAIN c : c[i] = [err |-> "chat"]
  BY ChunksOfTranscript
<1>2. ParseChatStream(b) = Assemble(c)
  BY DEF ParseChatStream, Once
<1> HIDE DEF c
<1>3. ~(\E x \in ToSet(c) : Is("err", x))
  BY <1>2, Outputs DEF Assemble
<1>4. \A i \in DOMAIN c : c[i] # [err |-> "chat"]
  <2>1. Is("err", [err |-> "chat"])
    BY DEF Is
  <2>2. QED
    BY <1>3, <2>1 DEF ToSet
<1>5. ParseChatStream(b).val.answer = SelectAnswer(c).text
  <2>1. \E refs, conversation, turn :
          Assemble(c) = View([answer |-> SelectAnswer(c).text, refs |-> refs, conversation |-> conversation,
                              turn |-> turn])
    BY <1>2, <1>3, Outputs DEF Assemble
  <2>2. QED
    BY <1>2, <2>1, Outputs
<1>6. \A s \in Heard : Spoken(s)
  BY DEF Heard, ToSet, AllSpoken
<1>7. PICK n \in Nat : \A i \in DOMAIN c : i <= n
  BY <1>1
<1>8. SelectAnswer(c).text \in IF Heard = {} THEN {""} ELSE {s.text : s \in Best}
  BY <1>1, <1>4, <1>6, <1>7, BestIsSelected
<1>9. QED
  BY <1>1, <1>4, <1>5, <1>8

\* A stream tells what was said, and begins with nothing.
StreamInv ==
  /\ pc = "idle" => sent = <<>>
  /\ call.op = "Ask" =>
       /\ pc \in {"posted", "pausing"} => sent = <<>>
       /\ AllSpoken(sent)
       /\ pc = "streaming" \/ (pc = "answered" /\ reply = "answer") => Transcript(body, sent)

\* A question is one request, which is a stream.
LEMMA AskRequest ==
  ASSUME RequestInv, Underway, call.op = "Ask"
  PROVE  call.api = "chat" /\ request.rpc = "Chat"
<1>1. call \in Calls /\ ~Is("refused", request)
  BY DEF RequestInv
<1>2. call.api \in DOMAIN Methods /\ call.op \in Methods[call.api]
  BY <1>1, SdkAssumption
<1>3. call.api = "chat"
  BY <1>2 DEF Methods
<1>4. request = BuildChatStreamRequest(call)
  BY <1>3 DEF RequestInv, FirstRequest, ChatRequest
<1>5. \E payload, reason : request \in {Sends("Chat", payload, FALSE), Refuses(reason)}
  BY <1>4 DEF BuildChatStreamRequest, Checked
<1>6. request.rpc = "Chat"
  <2>1. PICK payload, reason : request \in {Sends("Chat", payload, FALSE), Refuses(reason)}
    BY <1>5
  <2>2. request # Refuses(reason)
    BY <1>1, RequestForms
  <2>3. request = Sends("Chat", payload, FALSE)
    BY <2>1, <2>2
  <2>4. QED
    BY <2>3 DEF Sends
<1>7. QED
  BY <1>3, <1>6

\* Nothing has been said, and no line tells anything.
LEMMA NothingSaid == AllSpoken(<<>>) /\ Transcript(<<>>, <<>>)
<1>1. DOMAIN <<>> = {} /\ <<>> \in Seq({})
  OBVIOUS
<1>2. QED
  BY <1>1 DEF AllSpoken, Transcript

\* The server says one thing more.
LEMMA OneMore ==
  ASSUME NEW S, NEW said \in Seq(S), NEW s, NEW f \in ShownAs(s), s = Refused \/ Spoken(s),
         NEW b, Transcript(b, said), AllSpoken(said)
  PROVE  AllSpoken(Append(said, s)) /\ Transcript(b \o LinesOf(f), Append(said, s))
<1> DEFINE more  == Append(said, s)
           lines == LinesOf(f)
           n     == Len(said)
<1>1. /\ Len(more) = n + 1 /\ DOMAIN more = 1..n+1 /\ more[n + 1] = s /\ n \in Nat /\ DOMAIN said = 1..n
      /\ \A k \in DOMAIN said : k \in DOMAIN more /\ more[k] = said[k]
      /\ \A k \in DOMAIN more : k \in DOMAIN said \/ more[k] = s
  OBVIOUS
<1> HIDE DEF more
<1>2. AllSpoken(more)
  BY <1>1 DEF AllSpoken
<1>3. PICK T : b \in Seq(T)
  BY DEF Transcript
<1> DEFINE header == Header(1)
           chunk  == Chunk(<<Heartbeat, f, Bookkeeping>>)
           U      == T \cup {header, chunk}
           both   == b \o lines
<1>4. lines = <<header, chunk>>
  BY DEF LinesOf
<1> HIDE DEF lines, header, chunk
<1>5. lines \in Seq({header, chunk}) /\ Len(lines) = 2 /\ lines[1] = header /\ lines[2] = chunk
  BY <1>4
<1>6. b \in Seq(U) /\ lines \in Seq(U)
  BY <1>3, <1>5
<1> HIDE DEF U
<1>7. /\ both \in Seq(U) /\ Len(both) = Len(b) + 2 /\ DOMAIN both = 1..Len(b)+2
      /\ Len(b) \in Nat /\ DOMAIN b = 1..Len(b)
      /\ \A i \in DOMAIN b : i \in DOMAIN both /\ both[i] = b[i]
      /\ both[Len(b) + 1] = lines[1] /\ both[Len(b) + 2] = lines[2]
  <2>1. both \in Seq(U) /\ Len(both) = Len(b) + Len(lines)
        /\ (\A i \in 1..Len(b) : both[i] = b[i]) /\ \A i \in 1..Len(lines) : both[Len(b) + i] = lines[i]
    BY <1>6
  <2>2. Len(b) \in Nat /\ DOMAIN b = 1..Len(b) /\ DOMAIN both = 1..Len(both)
    BY <1>6, <2>1
  <2> HIDE DEF both
  <2>3. Len(both) = Len(b) + 2 /\ 1 \in 1..Len(lines) /\ 2 \in 1..Len(lines)
    BY <1>5, <2>1, <2>2
  <2>4. \A i \in DOMAIN b : i \in DOMAIN both /\ both[i] = b[i]
    BY <2>1, <2>2, <2>3
  <2>5. QED
    BY <2>1, <2>2, <2>3, <2>4
<1> HIDE DEF both
<1>8. Quiet(header) /\ Relays(lines[2], s)
  BY <1>5 DEF Quiet, Relays, header, chunk
<1>9. ASSUME NEW i \in DOMAIN both
      PROVE  Quiet(both[i]) \/ \E k \in DOMAIN more : Relays(both[i], more[k])
  <2>1. CASE i \in DOMAIN b
    BY <1>1, <1>7, <2>1 DEF Transcript
  <2>2. CASE i = Len(b) + 1
    BY <1>5, <1>7, <1>8, <2>2
  <2>3. CASE i = Len(b) + 2
    <3>1. n + 1 \in DOMAIN more /\ Relays(both[i], more[n + 1])
      BY <1>1, <1>7, <1>8, <2>3
    <3>2. QED
      BY <3>1
  <2>4. QED
    BY <1>7, <2>1, <2>2, <2>3
<1>10. ASSUME NEW k \in DOMAIN more
       PROVE  \E i \in DOMAIN both : Relays(both[i], more[k])
  <2>1. CASE k \in DOMAIN said
    BY <1>1, <1>7, <2>1 DEF Transcript
  <2>2. CASE more[k] = s
    <3>1. Len(b) + 2 \in DOMAIN both /\ Relays(both[Len(b) + 2], s)
      BY <1>7, <1>8
    <3>2. QED
      BY <2>2, <3>1
  <2>3. QED
    BY <1>1, <2>1, <2>2
<1>11. Transcript(both, more)
  BY <1>7, <1>9, <1>10 DEF Transcript
<1>12. QED
  BY <1>2, <1>11 DEF both, more, lines

\* The end of a stream says nothing more.
LEMMA NothingMore ==
  ASSUME NEW b, NEW said, Transcript(b, said), NEW last \in {<<>>, <<Chunk(<<Bookkeeping>>)>>, <<Garbage>>, <<Header(1)>>}
  PROVE  Transcript(b \o last, said)
<1>1. PICK T : b \in Seq(T)
  BY DEF Transcript
<1>2. CASE last = <<>>
  BY <1>1, <1>2
<1>3. CASE \E l : Quiet(l) /\ last = <<l>>
  <2>1. PICK l : Quiet(l) /\ last = <<l>>
    BY <1>3
  <2> DEFINE both == b \o <<l>>
  <2>2. b \in Seq(T \cup {l}) /\ <<l>> \in Seq(T \cup {l})
    BY <1>1
  <2>3. /\ both \in Seq(T \cup {l}) /\ DOMAIN both = 1..Len(b)+1 /\ DOMAIN b = 1..Len(b) /\ Len(b) \in Nat
        /\ \A i \in DOMAIN b : i \in DOMAIN both /\ both[i] = b[i]
        /\ both[Len(b) + 1] = l
    BY <2>2
  <2> HIDE DEF both
  <2>4. Transcript(both, said)
    BY <2>1, <2>3 DEF Transcript
  <2>5. QED
    BY <2>1, <2>4 DEF both
<1>4. QED
  BY <1>2, <1>3 DEF Quiet

\* Every step of a call keeps its transcript.
LEMMA StreamStep ==
  ASSUME CallInv, StreamInv, [Next]_vars
  PROVE  StreamInv'
<1>1. RequestInv /\ StateInv
  BY DEF CallInv
<1>2. CASE Begin
  <2>1. sent' = <<>> /\ pc' \in {"posted", "returned"}
    BY <1>2 DEF Begin, Dispatch, history, StreamInv
  <2>2. QED
    BY <2>1, NothingSaid DEF StreamInv
<1>3. CASE Serve
  <2>1. call.op # "Ask"
    <3>1. SUFFICES ASSUME call.op = "Ask" PROVE FALSE
      OBVIOUS
    <3>2. request.rpc = "Chat"
      BY <1>1, <1>3, <3>1, AskRequest DEF Serve, Underway
    <3>3. Outcomes("Chat", request.payload) = {}
      BY OutcomesOf
    <3>4. QED
      BY <1>3, <3>2, <3>3 DEF Serve
  <2>2. UNCHANGED call /\ pc' = "answered"
    BY <1>3 DEF Serve, HandsBack
  <2>3. QED
    BY <2>1, <2>2 DEF StreamInv
<1>4. CASE Reject
  <2>1. UNCHANGED <<call, sent>> /\ pc = "posted" /\ pc' = "answered" /\ reply' # "answer"
    BY <1>4 DEF Reject, HandsBack
  <2>2. QED
    BY <2>1 DEF StreamInv
<1>5. CASE FailedPost
  <2>1. UNCHANGED <<call, sent>> /\ pc = "posted"
        /\ (pc' = "pausing" \/ (pc' = "answered" /\ reply' # "answer"))
    BY <1>5 DEF FailedPost, HandsBack
  <2>2. QED
    BY <2>1 DEF StreamInv
<1>6. CASE Lose
  <2>1. UNCHANGED <<call, sent>> /\ pc' = "returned"
    BY <1>6 DEF Lose
  <2>2. QED
    BY <2>1 DEF StreamInv
<1>7. CASE StreamStarts
  <2>1. UNCHANGED <<call, sent>> /\ pc = "posted" /\ pc' = "streaming" /\ body' = <<>>
    BY <1>7 DEF StreamStarts, history
  <2>2. QED
    BY <2>1, NothingSaid DEF StreamInv
<1>8. CASE Wake
  <2>1. UNCHANGED <<call, sent>> /\ pc = "pausing" /\ pc' \in {"posted", "returned"}
    BY <1>8 DEF Wake, history
  <2>2. QED
    BY <2>1 DEF StreamInv
<1>9. CASE StreamTells
  <2>1. UNCHANGED call /\ pc = "streaming" /\ pc' = "streaming"
    BY <1>9 DEF StreamTells
  <2>2. SUFFICES ASSUME call.op = "Ask" PROVE AllSpoken(sent') /\ Transcript(body', sent')
    BY <2>1 DEF StreamInv
  <2>3. Transcript(body, sent) /\ AllSpoken(sent)
    BY <2>1, <2>2 DEF StreamInv
  <2>4. PICK S : sent \in Seq(S)
    BY <1>1 DEF StateInv
  <2>5. PICK s, f : /\ f \in ShownAs(s) /\ (s = Refused \/ Spoken(s))
                    /\ sent' = Append(sent, s) /\ body' = body \o LinesOf(f)
    <3>1. CASE \E s \in Sayings(request.payload) :
                 sent' = Append(sent, s) /\ body' = body \o LinesOf(SaidFrame(s))
      <4>1. PICK s \in Sayings(request.payload) :
              sent' = Append(sent, s) /\ body' = body \o LinesOf(SaidFrame(s))
        BY <3>1
      <4>2. Spoken(s) /\ s # Refused
        <5>1. s = Thought \/ \E text \in Texts : \E cites : s = Draft(text, cites)
          BY <4>1 DEF Sayings
        <5>2. "thinking" \in Texts
          BY DEF Texts
        <5>3. DOMAIN s = {"text", "marked", "final", "cites"} /\ Spoken(s)
          <6>1. CASE s = Thought
            BY <5>2, <6>1 DEF Thought, Said, Spoken
          <6>2. CASE \E text \in Texts : \E cites : s = Draft(text, cites)
            <7>1. PICK text \in Texts : \E cites : s = Draft(text, cites)
              BY <6>2
            <7>2. PICK cites : s = Draft(text, cites)
              BY <7>1
            <7>3. DOMAIN s = {"text", "marked", "final", "cites"} /\ s.text = text /\ s.marked = TRUE
              BY <7>2 DEF Draft, Said
            <7>4. s.final = (text = "alp")
              BY <7>2, Zenon DEF Draft, Said
            <7>5. s.final \in BOOLEAN
              BY <7>4, Zenon
            <7>6. QED
              BY <7>3, <7>5 DEF Spoken
          <6>3. QED
            BY <5>1, <6>1, <6>2
        <5>4. DOMAIN Refused = {"refused"}
          BY DEF Refused
        <5>5. s # Refused
          BY <5>3, <5>4
        <5>6. QED
          BY <5>3, <5>5
      <4>3. SaidFrame(s) \in ShownAs(s)
        BY <4>2 DEF ShownAs
      <4>4. QED
        BY <4>1, <4>2, <4>3
    <3>2. CASE \E frame \in Refusals :
                 sent' = Append(sent, Refused) /\ body' = body \o LinesOf(frame)
      BY <3>2 DEF ShownAs
    <3>3. QED
      BY <1>9, <3>1, <3>2 DEF StreamTells
  <2>6. QED
    BY <2>3, <2>4, <2>5, OneMore
<1>10. CASE StreamEnds
  <2>1. UNCHANGED <<call, reply, sent>> /\ pc = "streaming" /\ pc' \in {"answered", "returned"}
        /\ (pc' = "answered" => \E last \in {<<>>, <<Chunk(<<Bookkeeping>>)>>, <<Garbage>>, <<Header(1)>>} : body' = body \o last)
    BY <1>10 DEF StreamEnds, history
  <2>2. QED
    BY <2>1, NothingMore DEF StreamInv
<1>11. CASE Decode
  <2>1. pc = "answered" /\ Underway
    BY <1>11 DEF Decode, Underway
  <2>2. leg \in 1..2
    BY <1>1, <2>1 DEF RequestInv
  <2>3. UNCHANGED <<call, sent>>
    BY <1>11, <2>2, DecodeCases DEF history
  <2>4. call.op = "Ask" => pc' = "returned"
    <3>1. SUFFICES ASSUME call.op = "Ask" PROVE pc' = "returned"
      OBVIOUS
    <3>2. call.api = "chat"
      BY <1>1, <2>1, <3>1, AskRequest
    <3>3. QED
      BY <1>11, <2>2, <3>2, DecodeCases DEF Returns
  <2>5. pc' # "idle"
    BY <1>11, <2>2, DecodeCases DEF Returns, Dispatch
  <2>6. QED
    BY <2>1, <2>3, <2>4, <2>5 DEF StreamInv
<1>12. CASE Edit
  <2>1. UNCHANGED <<pc, call, body, reply, sent>>
    BY <1>12 DEF Edit, wire
  <2>2. QED
    BY <2>1 DEF StreamInv
<1>13. CASE UNCHANGED vars
  <2>1. UNCHANGED <<pc, call, body, reply, sent>>
    BY <1>13 DEF vars, wire, history
  <2>2. QED
    BY <2>1 DEF StreamInv
<1>14. QED
  BY <1>2, <1>3, <1>4, <1>5, <1>6, <1>7, <1>8, <1>9, <1>10, <1>11, <1>12, <1>13
     DEF Next, Exchange

\* Only Decode ends a question with a value.
LEMMA BestStep ==
  ASSUME CallInv, StreamInv, AnswerIsTheBest, [Next]_vars
  PROVE  AnswerIsTheBest'
<1>1. CASE pc = "returned"
  BY <1>1, ReturnedStays
     DEF AnswerIsTheBest, Streamed, Succeeded, Heard, Best, vars, wire, history
<1>2. CASE pc # "returned"
  <2>1. SUFFICES ASSUME pc' = "returned", Is("val", result'), call'.op = "Ask", reply' = "answer"
                 PROVE  /\ Refused \notin ToSet(sent')
                        /\ result'.val.answer \in IF Heard' = {} THEN {""} ELSE {s.text : s \in Best'}
    BY DEF AnswerIsTheBest, Streamed, Succeeded
  <2>2. /\ pc = "answered" /\ UNCHANGED <<call, body, reply, sent>>
        /\ result' = IF call.api = "resolveID" THEN ResolvedID(Answer) ELSE Answer
    BY <1>2, <2>1, ValuesAreDecoded DEF wire, history
  <2>3. RequestInv /\ Underway
    BY <2>2 DEF CallInv, Underway
  <2>4. call.api = "chat"
    BY <2>1, <2>2, <2>3, AskRequest
  <2>5. result' = ParseChatStream(body)
    BY <2>1, <2>2, <2>4 DEF Answer, ChatAnswer
  <2>6. Transcript(body, sent) /\ AllSpoken(sent)
    BY <2>1, <2>2 DEF StreamInv
  <2>7. /\ Refused \notin ToSet(sent)
        /\ result'.val.answer \in IF Heard = {} THEN {""} ELSE {s.text : s \in Best}
    BY <2>1, <2>5, <2>6, StreamIsRead
  <2>8. Heard' = Heard /\ Best' = Best
    BY <2>2 DEF Heard, Best
  <2>9. QED
    BY <2>2, <2>7, <2>8
<1>3. QED
  BY <1>1, <1>2

\* ParseChatStream: an answer is the final one, or without it the longest draft, and a thought
\* only when there is no draft; a refusal in any line is an error.
THEOREM AnswersAreBest == Spec => []AnswerIsTheBest
<1>1. Init => StreamInv /\ AnswerIsTheBest
  BY DEF Init, StreamInv, AnswerIsTheBest, Streamed, Succeeded, NoCall
<1>2. CallInv /\ StreamInv /\ [Next]_vars => StreamInv'
  BY StreamStep
<1>3. CallInv /\ StreamInv /\ AnswerIsTheBest /\ [Next]_vars => AnswerIsTheBest'
  BY BestStep
<1>4. QED
  BY <1>1, <1>2, <1>3, CallInvariant, PTL DEF Spec
=============================================================================
