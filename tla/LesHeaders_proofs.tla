------------------------- MODULE LesHeaders_proofs -------------------------
(***************************************************************************)
(* Proofs about the GetBlockHeadersMsg handler of the light server        *)
(* (les/handler.go, handleMsg): the type invariant, and that every reply  *)
(* to a query whose positions fit in a word is the protocol's answer, for *)
(* every word width, chain length and header limit.                       *)
(*                                                                         *)
(* The argument follows the loop: after k iterations the walk has         *)
(* collected the first k wanted headers, and the query's origin stands at *)
(* the k-th position the protocol names, so the k-th Lookup finds a       *)
(* header exactly when the protocol wants one.                             *)
(***************************************************************************)
EXTENDS LesHeaders, FiniteSetTheorems, TLAPS

(* The headers the protocol names for the first k positions of query r.   *)
Walked(r, k) == [i \in 1 .. k |-> Target(r, i - 1)]

(* Where the walk stands after Len(headers) iterations. In hash mode the  *)
(* origin hash is the wanted header, or no known hash once the walk has    *)
(* passed genesis; in number mode the origin number is the position, in   *)
(* mathematical integers.                                                  *)
Position ==
  LET k == Len(headers)
  IN  IF asked.hash # Zero
        THEN IF Wanted(asked, k) THEN q.hash = Target(asked, k) ELSE q.hash \notin Known
        ELSE q.hash = Zero /\ q.number = Target(asked, k)

(* The inductive invariant behind HeadersAnswerQuery. While a query whose *)
(* positions fit in a word is served, the walk keeps the query's skip,    *)
(* amount and direction, has collected exactly the headers the protocol    *)
(* names so far, all of them wanted, and either stands on the next        *)
(* position or has stopped at a position the protocol does not want.      *)
IInv ==
  /\ TypeOK
  /\ HeadersAnswerQuery
  /\ pc \in {"loop", "send"} /\ NoWrap(asked) =>
       /\ q.skip = asked.skip /\ q.amount = asked.amount /\ q.reverse = asked.reverse
       /\ hashMode = (asked.hash # Zero)
       /\ Len(headers) <= asked.amount
       /\ headers = Walked(asked, Len(headers))
       /\ \A i \in 0 .. Len(headers) - 1 : Wanted(asked, i)
       /\ pc = "send" => Len(headers) < asked.amount /\ ~Wanted(asked, Len(headers))
       /\ pc = "loop" /\ unknown /\ Len(headers) < asked.amount
            => ~Wanted(asked, Len(headers))
       /\ pc = "loop" /\ ~unknown /\ Len(headers) < asked.amount => Position

-----------------------------------------------------------------------------
(* Facts about the word and the chain that every step below uses.         *)
LEMMA WordFacts ==
  /\ Word \in Nat /\ Word >= 2
  /\ Tip \in Nat /\ 1 <= Tip /\ Tip < Word
  /\ SideNum \in 1 .. Tip /\ Side \notin 0 .. Tip
  /\ Zero \notin Known /\ Unk \notin Known /\ Zero # Unk
<1>1. Word \in Nat
  <2>1. W \in Nat /\ IsFiniteSet(1 .. W) /\ Cardinality(1 .. W) = W
    BY WordAssumption, FS_Interval
  <2>2. IsFiniteSet(SUBSET (1 .. W)) /\ Word = Cardinality(SUBSET (1 .. W))
    BY <2>1, FS_SUBSET DEF Word
  <2>3. QED
    BY <2>2, FS_CardinalityType
<1>2. QED
  BY <1>1, ChainAssumption, HashAssumption DEF Known

(* The origin's height, from which NoWrap measures the positions.         *)
Base(r) == IF r.hash = Zero THEN r.number ELSE IF r.hash \in Known THEN Number(r.hash) ELSE 0

(* A query whose positions fit in a word has room in the word for every   *)
(* position up to its amount; with two positions still to go, Skip is     *)
(* below half a word, so int(Skip) reads it unchanged.                    *)
LEMMA WalkRoom ==
  ASSUME NEW r \in Query, NoWrap(r), NEW k \in Nat, k + 1 <= r.amount
  PROVE  /\ Base(r) \in Nat
         /\ Base(r) + (k + 1) * (r.skip + 1) < Word
         /\ AddW(r.skip, 1) = r.skip + 1
         /\ k + 1 < r.amount => IntOf(r.skip) = r.skip
<1>1. Base(r) \in 0 .. Tip \/ Base(r) = r.number
  BY WordFacts DEF Base, Number, Known
<1>2. Base(r) \in Nat /\ r.skip \in Nat /\ r.amount \in Nat
  BY <1>1, WordFacts DEF Query, UInt
<1>3. Base(r) + r.amount * (r.skip + 1) < Word
  BY DEF NoWrap, Base
<1>4. (k + 1) * (r.skip + 1) <= r.amount * (r.skip + 1)
  BY <1>2
<1>5. k + 1 < r.amount => 2 * (r.skip + 1) <= r.amount * (r.skip + 1)
  BY <1>2
<1>6. Base(r) + (k + 1) * (r.skip + 1) < Word
  BY <1>2, <1>3, <1>4, WordFacts
<1>7. r.skip + 1 <= (k + 1) * (r.skip + 1)
  BY <1>2
<1>8. AddW(r.skip, 1) = r.skip + 1
  <2>1. r.skip + 1 \in 0 .. Word - 1
    BY <1>2, <1>6, <1>7, WordFacts
  <2>2. QED
    BY <2>1, WordFacts DEF AddW
<1>9. k + 1 < r.amount => r.skip < Word \div 2
  BY <1>2, <1>3, <1>5, WordFacts
<1>10. QED
  BY <1>2, <1>6, <1>8, <1>9 DEF IntOf

(* A length m that collects every wanted header before it and stops at an *)
(* unwanted one, or at the amount, is the length of the answer: Answer's  *)
(* CHOOSE has exactly one candidate.                                       *)
LEMMA AnswerIs ==
  ASSUME NEW r \in Query, NEW m \in 0 .. r.amount,
         \A i \in 0 .. m - 1 : Wanted(r, i),
         m < r.amount => ~Wanted(r, m)
  PROVE  Answer(r) = Walked(r, m)
<1> DEFINE Good(n) == /\ \A i \in 0 .. n - 1 : Wanted(r, i)
                      /\ (n < r.amount => ~Wanted(r, n))
<1>1. r.amount \in Nat
  BY WordFacts DEF Query, UInt
<1>2. \A n \in 0 .. r.amount : Good(n) => n = m
  <2> SUFFICES ASSUME NEW n \in 0 .. r.amount, Good(n) PROVE n = m
    OBVIOUS
  <2>1. ~(n < m)
    BY <1>1
  <2>2. ~(m < n)
    BY <1>1
  <2>3. QED
    BY <1>1, <2>1, <2>2
<1>3. (CHOOSE n \in 0 .. r.amount : Good(n)) = m
  BY <1>2
<1>4. QED
  BY <1>3 DEF Answer, Walked

(* A wanted position names a known header.                                 *)
LEMMA TargetKnown ==
  ASSUME NEW r \in Query, NEW k \in Nat, Wanted(r, k)
  PROVE  Target(r, k) \in Known
BY WordFacts DEF Query, UInt, Wanted, Target, Anc, Number, Known

-----------------------------------------------------------------------------
(* Word operations stay in the word.                                       *)
LEMMA WordOps ==
  ASSUME NEW a \in Int, NEW b \in Int
  PROVE  AddW(a, b) \in UInt /\ SubW(a, b) \in UInt
BY WordFacts DEF AddW, SubW, UInt

(* The empty query that a rejection leaves behind is a query.             *)
LEMMA NoQueryType == NoQuery \in Query
BY WordFacts DEF NoQuery, Query, Hash, UInt

(* The origin lookup finds a known header or none.                         *)
LEMMA LookupType ==
  ASSUME TypeOK
  PROVE  Lookup \in Known \cup {Unk}
BY WordFacts DEF TypeOK, Query, UInt, Lookup, Known

(* One iteration of the walk keeps the types.                              *)
LEMMA WalkType ==
  ASSUME TypeOK, Walk
  PROVE  TypeOK'
<1> USE DEF TypeOK
<1>1. CASE Lookup = Unk
  BY <1>1 DEF Walk
<1>2. CASE Lookup # Unk
  <2> DEFINE o == Lookup
  <2>1. o \in Known /\ headers' = Append(headers, o)
    BY <1>2, LookupType DEF Walk
  <2>2. headers' \in Seq(Known)
    BY <2>1
  <2>3. q \in Query /\ q.skip \in Nat /\ q.number \in Nat
    BY WordFacts DEF Query, UInt
  <2>4. CASE q.hash # Zero /\ q.reverse
    <3>1. HashReverse(o)
      BY <1>2, <2>4 DEF Walk
    <3> DEFINE steps == IF IntOf(q.skip) + 1 > 0 THEN IntOf(q.skip) + 1 ELSE 0
    <3>2. steps \in Nat /\ Number(o) \in 0 .. Tip
      BY <2>1, <2>3, WordFacts DEF IntOf, Number, Known
    <3>3. Anc(o, steps) \in Hash
      BY <2>1, <3>2, WordFacts DEF Anc, Hash, Known
    <3>4. q' \in Query
      BY <3>1, <3>2, <3>3, WordFacts DEF HashReverse, Query, Hash
    <3>5. QED
      BY <1>2, <2>2, <2>4, <3>1, <3>4 DEF Walk, HashReverse
  <2>5. CASE q.hash # Zero /\ ~q.reverse
    <3>1. HashForward(o)
      BY <1>2, <2>5 DEF Walk
    <3> DEFINE n == AddW(Number(o), AddW(q.skip, 1))
    <3>2. n \in UInt
      <4>1. Number(o) \in Nat
        BY <2>1, WordFacts DEF Number, Known
      <4>2. AddW(q.skip, 1) \in UInt
        BY <2>3, WordOps
      <4>3. QED
        BY <4>1, <4>2, WordOps DEF UInt
    <3>3. n <= Tip => n \in Hash
      BY <3>2 DEF UInt, Hash, Known
    <3>4. q' \in Query
      BY <3>1, <3>3, WordFacts DEF HashForward, Query
    <3>5. QED
      BY <1>2, <2>2, <2>5, <3>1, <3>4 DEF Walk, HashForward
  <2>6. CASE q.hash = Zero
    <3>1. NumberReverse \/ NumberForward
      BY <1>2, <2>6 DEF Walk
    <3>2. AddW(q.number, AddW(q.skip, 1)) \in UInt
          /\ SubW(q.number, AddW(q.skip, 1)) \in UInt
      <4>1. AddW(q.skip, 1) \in Int
        BY <2>3, WordFacts DEF AddW
      <4>2. QED
        BY <2>3, <4>1, WordOps
    <3>3. q' \in Query
      BY <3>1, <3>2 DEF NumberReverse, NumberForward, Query
    <3>4. QED
      BY <1>2, <2>2, <2>6, <3>1, <3>3 DEF Walk, NumberReverse, NumberForward
  <2>7. QED
    BY <2>4, <2>5, <2>6
<1>3. QED
  BY <1>1, <1>2

(* Every step of the handler keeps the types.                              *)
LEMMA TypeStep == TypeOK /\ [Next]_vars => TypeOK'
<1> SUFFICES ASSUME TypeOK, [Next]_vars PROVE TypeOK'
  OBVIOUS
<1>1. CASE \E r \in Queries : Receive(r) \/ FlowReject(r)
  <2>1. PICK r \in Queries : Receive(r) \/ FlowReject(r)
    BY <1>1
  <2>2. r \in Query /\ (r.hash # Zero) \in BOOLEAN
    BY QueriesAssumption
  <2>3. << >> \in Seq(Known)
    OBVIOUS
  <2>4. QED
    BY <2>1, <2>2, <2>3, NoQueryType DEF Receive, FlowReject, TypeOK
<1>2. CASE Walk
  BY <1>2, WalkType
<1>3. CASE Send \/ UNCHANGED vars
  BY <1>3 DEF Send, vars, TypeOK
<1>4. QED
  BY <1>1, <1>2, <1>3 DEF Next

-----------------------------------------------------------------------------
(* Stepping b parents back from the a-th ancestor of a known header is    *)
(* its (a+b)-th ancestor, the zero hash once genesis is passed.           *)
LEMMA AncStep ==
  ASSUME NEW h \in Known, NEW a \in Nat, NEW b \in Nat \ {0}, a <= Number(h)
  PROVE  /\ Anc(h, a) \in Known
         /\ Number(Anc(h, a)) = Number(h) - a
         /\ Anc(Anc(h, a), b) = Anc(h, a + b)
<1>1. Number(h) \in 0 .. Tip
  BY WordFacts DEF Number, Known
<1>2. CASE a = 0
  BY <1>1, <1>2, WordFacts DEF Anc
<1>3. CASE a # 0
  <2>1. Anc(h, a) = Number(h) - a /\ Number(h) - a \in 0 .. Tip
    BY <1>1, <1>3, WordFacts DEF Anc
  <2>2. Number(Anc(h, a)) = Anc(h, a)
    BY <2>1, WordFacts DEF Number
  <2>3. QED
    BY <1>1, <1>3, <2>1, <2>2 DEF Anc, Known
<1>4. QED
  BY <1>2, <1>3

(* Hash mode, reverse: from the k-th wanted header the walk steps Skip+1  *)
(* parents back, onto the (k+1)-th position, or past genesis onto the     *)
(* zero hash, or stops when even that would be passed.                     *)
LEMMA HashReverseStep ==
  ASSUME TypeOK, NEW r \in Query, NoWrap(r), r.hash # Zero, r.reverse,
         NEW k \in Nat, k + 1 < r.amount, Wanted(r, k),
         q.skip = r.skip, ~unknown,
         HashReverse(Target(r, k))
  PROVE  /\ q' = [q EXCEPT !.hash = q'.hash]
         /\ unknown' => ~Wanted(r, k + 1)
         /\ ~unknown' => IF Wanted(r, k + 1) THEN q'.hash = Target(r, k + 1)
                                             ELSE q'.hash \notin Known
<1> DEFINE d == r.skip + 1
           a == k * (r.skip + 1)
           o == Target(r, k)
<1>1. r.skip \in Nat /\ r.amount \in Nat /\ r.hash \in Known /\ Number(r.hash) \in 0 .. Tip
  BY WordFacts DEF Query, UInt, Wanted, Number, Known
<1>2. IntOf(q.skip) = r.skip
  <2>1. k + 1 <= r.amount
    BY <1>1
  <2>2. IntOf(r.skip) = r.skip
    BY <2>1, WalkRoom
  <2>3. QED
    BY <2>2
<1>3. a \in Nat /\ a <= Number(r.hash) /\ (k + 1) * (r.skip + 1) = a + d /\ d \in Nat \ {0}
  BY <1>1 DEF Wanted
<1>4. o = Anc(r.hash, a) /\ Target(r, k + 1) = Anc(r.hash, a + d)
  BY <1>3 DEF Target
<1>5. Number(o) = Number(r.hash) - a /\ Anc(o, d) = Target(r, k + 1)
  BY <1>1, <1>3, <1>4, AncStep
<1>6. HashReverse(o) <=>
        \/ /\ d <= Number(o) + 1
           /\ q' = [q EXCEPT !.hash = Anc(o, d)]
           /\ UNCHANGED unknown
        \/ /\ d > Number(o) + 1
           /\ q' = [q EXCEPT !.hash = Zero]
           /\ unknown' = TRUE
  BY <1>1, <1>2 DEF HashReverse
<1>7. Wanted(r, k + 1) <=> a + d <= Number(r.hash)
  BY <1>1, <1>3 DEF Wanted
<1>8. Target(r, k + 1) = IF a + d <= Number(r.hash) THEN Number(r.hash) - (a + d) ELSE Zero
  BY <1>1, <1>3, <1>4 DEF Anc
<1>9. CASE d <= Number(o) + 1 /\ q' = [q EXCEPT !.hash = Anc(o, d)] /\ UNCHANGED unknown
  <2>1. q'.hash = Anc(o, d)
    BY <1>9 DEF TypeOK, Query
  <2>2. d <= Number(o) => Wanted(r, k + 1) /\ q'.hash = Target(r, k + 1)
    BY <1>1, <1>3, <1>5, <1>7, <2>1
  <2>3. d = Number(o) + 1 => ~Wanted(r, k + 1) /\ q'.hash = Zero
    BY <1>1, <1>3, <1>5, <1>7, <1>8, <2>1
  <2>4. q' = [q EXCEPT !.hash = q'.hash]
    BY <1>9, <2>1
  <2>5. QED
    BY <1>1, <1>3, <1>5, <1>9, <2>2, <2>3, <2>4, WordFacts
<1>10. CASE d > Number(o) + 1 /\ q' = [q EXCEPT !.hash = Zero] /\ unknown' = TRUE
  <2>1. ~Wanted(r, k + 1)
    BY <1>1, <1>3, <1>5, <1>7, <1>10
  <2>2. QED
    BY <1>10, <2>1 DEF TypeOK, Query
<1>11. QED
  BY <1>6, <1>9, <1>10

(* Hash mode, forward: from the k-th wanted header the walk takes the     *)
(* canonical header Skip+1 above it, which passes the ancestor check       *)
(* exactly when the origin is canonical; the side block's successor fails *)
(* it. Below a word's end the index of the check is always in range.      *)
LEMMA HashForwardStep ==
  ASSUME TypeOK, NEW r \in Query, NoWrap(r), r.hash # Zero, ~r.reverse,
         NEW k \in Nat, k + 1 < r.amount, Wanted(r, k),
         q.skip = r.skip, q.hash = Target(r, k), ~unknown,
         HashForward(Target(r, k))
  PROVE  /\ pc' = pc
         /\ q' = [q EXCEPT !.hash = q'.hash]
         /\ unknown' => ~Wanted(r, k + 1)
         /\ ~unknown' => Wanted(r, k + 1) /\ q'.hash = Target(r, k + 1)
<1>1. r.skip \in Nat /\ r.hash \in Known /\ Number(r.hash) \in 0 .. Tip
  BY WordFacts DEF Query, UInt, Wanted, Number, Known
<1>2. PICK d \in Nat \ {0} : d = r.skip + 1
  BY <1>1
<1>3. PICK a \in Nat : a = k * (r.skip + 1) /\ (k + 1) * (r.skip + 1) = a + d
  BY <1>1, <1>2
<1>4. AddW(q.skip, 1) = d /\ Number(r.hash) + a + d < Word
  <2>1. k + 1 <= r.amount /\ r.amount \in Nat
    BY WordFacts DEF Query, UInt
  <2>2. AddW(r.skip, 1) = r.skip + 1 /\ Base(r) + (k + 1) * (r.skip + 1) < Word
    BY <2>1, WalkRoom
  <2>3. Base(r) = Number(r.hash)
    BY <1>1 DEF Base
  <2>4. QED
    BY <1>1, <1>2, <1>3, <2>2, <2>3
<1>5. PICK o \in Known : o = Target(r, k)
  BY <1>1, TargetKnown, WordFacts DEF Query
<1>6. PICK n \in Nat : n = Number(o) + d /\ n = AddW(Number(o), AddW(q.skip, 1))
  <2>1. Number(o) \in 0 .. Tip
    BY WordFacts DEF Number, Known
  <2>2. Number(o) + d < Word
    <3>1. CASE k = 0
      <4>1. a = 0 /\ o = r.hash
        BY <1>1, <1>3, <1>5, <3>1 DEF Target
      <4>2. QED
        BY <1>1, <1>4, <4>1, WordFacts
    <3>2. CASE k # 0
      <4>1. r.hash \in 0 .. Tip /\ o = r.hash + a /\ Number(o) = o /\ Number(r.hash) = r.hash
        BY <1>1, <1>3, <1>5, <3>2, WordFacts DEF Wanted, Target, Number
      <4>2. QED
        BY <1>1, <1>4, <4>1, WordFacts
    <3>3. QED
      BY <3>1, <3>2
  <2>3. AddW(Number(o), d) = Number(o) + d
    BY <2>1, <2>2, WordFacts DEF AddW
  <2>4. QED
    BY <1>4, <2>1, <2>3
<1>7. q.skip < (IF AddW(q.skip, 1) < n THEN AddW(q.skip, 1) ELSE n)
  <2>1. Number(o) \in 0 .. Tip
    BY WordFacts DEF Number, Known
  <2>2. QED
    BY <1>1, <1>2, <1>4, <1>6, <2>1
<1>8. HashForward(o)
  BY <1>5
<1>9. ~(q.skip >= (IF AddW(q.skip, 1) < n THEN AddW(q.skip, 1) ELSE n))
  BY <1>1, <1>4, <1>6, <1>7
<1>10. \/ /\ n > Tip
          /\ unknown' = TRUE
          /\ UNCHANGED <<pc, q>>
       \/ /\ n <= Tip
          /\ IF n - q.skip - 1 = q.hash
               THEN q' = [q EXCEPT !.hash = n] /\ UNCHANGED unknown
               ELSE unknown' = TRUE /\ UNCHANGED q
          /\ UNCHANGED pc
  BY <1>6, <1>8, <1>9 DEF HashForward
<1>11. q' = [q EXCEPT !.hash = q'.hash] /\ pc' = pc
  BY <1>10 DEF TypeOK, Query
<1>12. CASE r.hash \in 0 .. Tip
  <2>1. o = r.hash + a /\ o \in 0 .. Tip /\ Number(o) = o
    BY <1>1, <1>3, <1>5, <1>12, WordFacts DEF Wanted, Target, Number
  <2>2. Wanted(r, k + 1) <=> n <= Tip
    BY <1>3, <1>6, <1>12, <2>1, WordFacts DEF Wanted
  <2>3. Target(r, k + 1) = n
    <3>1. Target(r, k + 1) = r.hash + (k + 1) * (r.skip + 1)
      BY <1>1, <1>12, WordFacts DEF Target
    <3>2. QED
      BY <1>1, <1>3, <1>6, <1>12, <2>1, <3>1, WordFacts
  <2>4. n - q.skip - 1 = q.hash
    BY <1>1, <1>2, <1>5, <1>6, <2>1
  <2>5. n <= Tip => q' = [q EXCEPT !.hash = n] /\ ~unknown'
    BY <1>6, <1>10, <2>4, WordFacts
  <2>6. n <= Tip => q'.hash = n
    BY <2>5 DEF TypeOK, Query
  <2>7. QED
    BY <1>1, <1>6, <1>10, <1>11, <2>2, <2>3, <2>5, <2>6, WordFacts
<1>13. CASE r.hash \notin 0 .. Tip
  <2>1. k = 0 /\ o = r.hash /\ r.hash = Side /\ Number(o) = SideNum
    BY <1>1, <1>5, <1>13 DEF Wanted, Target, Known, Number
  <2>2. n - q.skip - 1 # q.hash
    BY <1>1, <1>2, <1>5, <1>6, <2>1, WordFacts
  <2>3. unknown'
    BY <1>10, <2>2
  <2>4. ~Wanted(r, k + 1)
    BY <1>13 DEF Wanted
  <2>5. QED
    BY <1>11, <2>3, <2>4
<1>14. QED
  BY <1>12, <1>13

(* Number mode: the origin number is the k-th position; reverse, it steps *)
(* back Skip+1 or stops short of genesis; forward, it steps on Skip+1,    *)
(* and below a word's end the sum does not wrap.                           *)
LEMMA NumberStep ==
  ASSUME TypeOK, NEW r \in Query, NoWrap(r), r.hash = Zero,
         NEW k \in Nat, k + 1 <= r.amount,
         q.skip = r.skip, q.number = Target(r, k), ~unknown,
         IF r.reverse THEN NumberReverse ELSE NumberForward
  PROVE  /\ q' = [q EXCEPT !.number = q'.number]
         /\ unknown' => ~Wanted(r, k + 1)
         /\ ~unknown' => q'.number = Target(r, k + 1)
<1>1. r.skip \in Nat /\ r.number \in Nat /\ q.number \in 0 .. Word - 1
  BY WordFacts DEF Query, UInt, TypeOK
<1>2. PICK d \in Nat \ {0} : d = r.skip + 1
  BY <1>1
<1>3. PICK a \in Nat : a = k * (r.skip + 1) /\ (k + 1) * (r.skip + 1) = a + d
  BY <1>1, <1>2
<1>4. AddW(q.skip, 1) = d /\ r.number + a + d < Word
  <2>1. AddW(r.skip, 1) = r.skip + 1 /\ Base(r) + (k + 1) * (r.skip + 1) < Word
    BY WalkRoom
  <2>2. Base(r) = r.number
    BY DEF Base
  <2>3. QED
    BY <1>1, <1>2, <1>3, <2>1, <2>2
<1>5. CASE r.reverse
  <2>1. q.number = r.number - a /\ Target(r, k + 1) = r.number - (a + d)
    BY <1>1, <1>3, <1>5 DEF Target
  <2>2. Wanted(r, k + 1) => r.number - (a + d) >= 0
    BY <1>1, <1>3, <1>5, WordFacts DEF Wanted
  <2>3. q.number >= d => SubW(q.number, d) = q.number - d
    BY <1>1, <1>2, WordFacts DEF SubW
  <2>4. NumberReverse
    BY <1>5
  <2>5. \/ q.number >= d /\ q' = [q EXCEPT !.number = q.number - d] /\ ~unknown'
        \/ q.number < d /\ unknown' /\ q' = q
    BY <1>4, <2>3, <2>4 DEF NumberReverse
  <2>6. q.number >= d => q'.number = q.number - d /\ ~unknown'
    BY <1>1, <2>5 DEF TypeOK, Query
  <2>7. q.number < d => unknown' /\ q' = q
    BY <1>1, <2>5
  <2>8. q' = [q EXCEPT !.number = q'.number]
    BY <2>5 DEF TypeOK, Query
  <2>9. QED
    BY <1>1, <1>2, <1>3, <2>1, <2>2, <2>6, <2>7, <2>8, WordFacts
<1>6. CASE ~r.reverse
  <2>1. q.number = r.number + a /\ Target(r, k + 1) = r.number + (a + d)
    BY <1>1, <1>3, <1>6 DEF Target
  <2>2. AddW(q.number, d) = r.number + (a + d)
    BY <1>1, <1>2, <1>4, <2>1, WordFacts DEF AddW
  <2>3. NumberForward
    BY <1>6
  <2>4. QED
    BY <1>4, <2>1, <2>2, <2>3 DEF NumberForward, TypeOK, Query
<1>7. QED
  BY <1>5, <1>6

(* In number mode the lookup finds a header exactly at a wanted position: *)
(* forward the position is on the chain, reverse it cannot be below       *)
(* genesis and the origin was on the chain.                                *)
LEMMA NumberLookup ==
  ASSUME NEW r \in Query, r.hash = Zero, NEW k \in Nat,
         k # 0 => Wanted(r, 0),
         NEW x \in Nat, x = Target(r, k)
  PROVE  x <= Tip <=> Wanted(r, k)
<1>1. r.skip \in Nat /\ r.number \in Nat /\ k * (r.skip + 1) \in Nat
  BY WordFacts DEF Query, UInt
<1>2. CASE r.reverse
  <2>1. x = r.number - k * (r.skip + 1)
    BY <1>2 DEF Target
  <2>2. k # 0 => r.number <= Tip
    BY <1>2 DEF Wanted
  <2>3. QED
    BY <1>1, <1>2, <2>1, <2>2, WordFacts DEF Wanted
<1>3. CASE ~r.reverse
  BY <1>1, <1>3 DEF Target, Wanted
<1>4. QED
  BY <1>2, <1>3

-----------------------------------------------------------------------------
(* Collecting the k-th position extends the first k positions by one.     *)
LEMMA WalkedAppend ==
  ASSUME NEW r, NEW k \in Nat
  PROVE  /\ Len(Walked(r, k)) = k
         /\ Append(Walked(r, k), Target(r, k)) = Walked(r, k + 1)
BY DEF Walked

(* A rejected query leaves the empty query, whose answer is empty.        *)
LEMMA EmptyAnswer == Answer(NoQuery) = << >>
<1>1. NoQuery.amount = 0
  BY DEF NoQuery
<1>2. Answer(NoQuery) = Walked(NoQuery, 0)
  BY <1>1, NoQueryType, AnswerIs
<1>3. QED
  BY <1>2 DEF Walked

(* While the walk stands on the k-th position, the origin lookup finds    *)
(* its header exactly when the protocol wants it.                          *)
LEMMA LookupIs ==
  ASSUME TypeOK, NEW r \in Query, NEW k \in Nat,
         hashMode = (r.hash # Zero),
         \A i \in 0 .. k - 1 : Wanted(r, i),
         IF r.hash # Zero
           THEN IF Wanted(r, k) THEN q.hash = Target(r, k) ELSE q.hash \notin Known
           ELSE q.hash = Zero /\ q.number = Target(r, k)
  PROVE  Lookup = IF Wanted(r, k) THEN Target(r, k) ELSE Unk
<1>1. CASE r.hash # Zero
  <2>1. Wanted(r, k) => Target(r, k) \in Known
    BY <1>1, TargetKnown
  <2>2. QED
    BY <1>1, <2>1 DEF Lookup
<1>2. CASE r.hash = Zero
  <2>1. q.number \in Nat /\ q.number = Target(r, k)
    BY <1>2, WordFacts DEF TypeOK, Query, UInt
  <2>2. k # 0 => Wanted(r, 0)
    OBVIOUS
  <2>3. q.number <= Tip <=> Wanted(r, k)
    BY <1>2, <2>1, <2>2, NumberLookup
  <2>4. QED
    BY <1>2, <2>1, <2>3 DEF Lookup
<1>3. QED
  BY <1>1, <1>2

-----------------------------------------------------------------------------
(* The server starts idle with the empty query answered.                   *)
LEMMA IInvInit == Init => IInv
<1> SUFFICES ASSUME Init PROVE IInv
  OBVIOUS
<1>1. TypeOK
  <2>1. << >> \in Seq(Known)
    OBVIOUS
  <2>2. QED
    BY <2>1, NoQueryType DEF Init, TypeOK
<1>2. HeadersAnswerQuery
  BY EmptyAnswer DEF Init, HeadersAnswerQuery
<1>3. QED
  BY <1>1, <1>2 DEF Init, IInv

(* A request either is rejected, leaving the empty query answered by      *)
(* nothing, or starts the walk on its origin.                              *)
LEMMA ReceiveStep ==
  ASSUME IInv, NEW r \in Queries, Receive(r) \/ FlowReject(r)
  PROVE  IInv'
<1>1. TypeOK'
  BY TypeStep DEF IInv, Next
<1>2. r \in Query /\ r.amount \in Nat /\ r.number \in Nat /\ r.skip \in Nat
  BY QueriesAssumption, WordFacts DEF Query, UInt
<1>3. CASE asked' = NoQuery /\ reply' = << >> /\ pc' = pc
  BY <1>1, <1>3, EmptyAnswer DEF Receive, FlowReject, IInv, HeadersAnswerQuery
<1>4. CASE /\ r.amount <= MaxHeaderFetch
           /\ pc' = "loop" /\ q' = r /\ hashMode' = (r.hash # Zero)
           /\ headers' = << >> /\ unknown' = FALSE /\ asked' = r
  <2>1. Walked(r, 0) = << >>
    BY DEF Walked
  <2>2. Target(r, 0) = IF r.hash = Zero THEN r.number ELSE r.hash
    BY <1>2 DEF Target, Anc
  <2>3. r.hash # Zero => (Wanted(r, 0) <=> r.hash \in Known)
    BY <1>2 DEF Wanted
  <2>4. Position'
    BY <1>2, <1>4, <2>2, <2>3 DEF Position
  <2>5. QED
    BY <1>1, <1>2, <1>4, <2>1, <2>4 DEF IInv, HeadersAnswerQuery
<1>5. QED
  BY <1>3, <1>4 DEF Receive, FlowReject

(* The loop ends and sends what it collected: the first positions, all    *)
(* wanted, up to Amount or to the first position the protocol does not    *)
(* want, which is the answer.                                              *)
LEMMA SendStep ==
  ASSUME IInv, Send
  PROVE  IInv'
<1>1. TypeOK'
  BY TypeStep DEF IInv, Next
<1>2. CASE NoWrap(asked)
  <2> DEFINE k == Len(headers)
  <2>1. asked \in Query /\ asked.amount \in Nat /\ k \in Nat
    BY WordFacts DEF IInv, TypeOK, Query, UInt
  <2>2. /\ k \in 0 .. asked.amount
        /\ headers = Walked(asked, k)
        /\ \A i \in 0 .. k - 1 : Wanted(asked, i)
        /\ k < asked.amount => ~Wanted(asked, k)
    BY <1>2, <2>1 DEF Send, IInv
  <2>3. Answer(asked) = headers
    BY <2>1, <2>2, AnswerIs
  <2>4. QED
    BY <1>1, <2>3 DEF Send, IInv, HeadersAnswerQuery
<1>3. CASE ~NoWrap(asked)
  BY <1>1, <1>3 DEF Send, IInv, HeadersAnswerQuery
<1>4. QED
  BY <1>2, <1>3

(* The walk moves only the query's origin: its skip, amount and direction *)
(* stay as received.                                                       *)
LEMMA WalkKeepsQuery ==
  ASSUME TypeOK, Walk
  PROVE  q'.skip = q.skip /\ q'.amount = q.amount /\ q'.reverse = q.reverse
BY DEF Walk, HashReverse, HashForward, NumberReverse, NumberForward, TypeOK, Query

(* One iteration of the walk: a position the protocol does not want ends  *)
(* the loop; a wanted one is collected and the origin moves to the next   *)
(* position, or the walk stops where the protocol stops wanting.          *)
LEMMA WalkStep ==
  ASSUME IInv, Walk
  PROVE  IInv'
<1>1. TypeOK'
  BY WalkType DEF IInv
<1>2. pc' # "idle" /\ asked' = asked /\ hashMode' = hashMode
  BY DEF Walk, HashReverse, HashForward, NumberReverse, NumberForward
<1>3. HeadersAnswerQuery'
  BY <1>2 DEF HeadersAnswerQuery
<1>4. CASE ~NoWrap(asked)
  BY <1>1, <1>2, <1>3, <1>4 DEF IInv
<1>5. CASE NoWrap(asked)
  <2> DEFINE r == asked
             k == Len(headers)
  <2> USE DEF r, k
  <2>1. r \in Query /\ r.amount \in Nat /\ k \in Nat /\ headers \in Seq(Known)
    BY WordFacts DEF IInv, TypeOK, Query, UInt
  <2>2. /\ q.skip = r.skip /\ q.amount = r.amount /\ q.reverse = r.reverse
        /\ hashMode = (r.hash # Zero)
        /\ headers = Walked(r, k)
        /\ \A i \in 0 .. k - 1 : Wanted(r, i)
        /\ ~unknown /\ k < r.amount
        /\ Position
    BY <1>5 DEF IInv, Walk
  <2>3. Lookup = IF Wanted(r, k) THEN Target(r, k) ELSE Unk
    BY <2>1, <2>2, LookupIs DEF IInv, Position
  <2>4. CASE ~Wanted(r, k)
    <3>1. pc' = "send" /\ UNCHANGED <<q, headers, unknown>>
      BY <2>3, <2>4, WordFacts DEF Walk
    <3>2. Len(headers') < asked'.amount /\ ~Wanted(asked', Len(headers'))
      BY <1>2, <2>2, <2>4, <3>1
    <3>3. q'.skip = asked'.skip /\ q'.amount = asked'.amount /\ q'.reverse = asked'.reverse
      BY <1>2, <2>2, <3>1
    <3>4. hashMode' = (asked'.hash # Zero)
      BY <1>2, <2>2
    <3>5. headers' = Walked(asked', Len(headers'))
      BY <1>2, <2>2, <3>1
    <3>6. \A i \in 0 .. Len(headers') - 1 : Wanted(asked', i)
      BY <1>2, <2>2, <3>1
    <3>7. Len(headers') <= asked'.amount
      BY <1>2, <2>1, <3>2
    <3>8. QED
      BY <1>1, <1>3, <3>1, <3>2, <3>3, <3>4, <3>5, <3>6, <3>7 DEF IInv
  <2>5. CASE Wanted(r, k)
    <3>1. Lookup = Target(r, k) /\ Target(r, k) \in Known /\ Target(r, k) # Unk
      BY <2>1, <2>3, <2>5, WordFacts, TargetKnown
    <3>2. headers' = Walked(r, k + 1) /\ Len(headers') = k + 1
      <4>1. headers' = Append(headers, Lookup)
        BY <3>1 DEF Walk
      <4>2. Append(Walked(r, k), Target(r, k)) = Walked(r, k + 1)
        BY <2>1, WalkedAppend
      <4>3. Len(Walked(r, k + 1)) = k + 1
        BY <2>1, WalkedAppend
      <4>4. Append(headers, Lookup) = Append(Walked(r, k), Target(r, k))
        BY <2>2, <3>1
      <4>5. QED
        BY <4>1, <4>2, <4>3, <4>4
    <3>3. \A i \in 0 .. Len(headers') - 1 : Wanted(r, i)
      BY <2>1, <2>2, <2>5, <3>2
    <3>4. ASSUME pc' = "loop"
          PROVE  /\ unknown' /\ Len(headers') < r.amount => ~Wanted(r, Len(headers'))
                 /\ ~unknown' /\ Len(headers') < r.amount => Position'
      <4>1. SUFFICES ASSUME k + 1 < r.amount
                     PROVE  /\ unknown' => ~Wanted(r, k + 1)
                            /\ ~unknown' => Position'
        BY <3>2
      <4>2. Position' <=> IF r.hash # Zero
                            THEN IF Wanted(r, k + 1) THEN q'.hash = Target(r, k + 1)
                                                     ELSE q'.hash \notin Known
                            ELSE q'.hash = Zero /\ q'.number = Target(r, k + 1)
        BY <1>2, <3>2 DEF Position
      <4>3. TypeOK /\ q.skip = r.skip /\ ~unknown /\ Wanted(r, k)
        BY <2>2, <2>5 DEF IInv
      <4>4. CASE r.hash # Zero /\ r.reverse
        <5>1. q.hash = Target(r, k) /\ q.hash # Zero /\ q.reverse
          BY <2>2, <2>5, <3>1, <4>4, WordFacts DEF Position
        <5>2. HashReverse(Target(r, k))
          BY <3>1, <5>1 DEF Walk
        <5>3. QED
          BY <2>1, <4>1, <4>2, <4>3, <4>4, <5>2, <1>5, HashReverseStep
      <4>5. CASE r.hash # Zero /\ ~r.reverse
        <5>1. q.hash = Target(r, k) /\ q.hash # Zero /\ ~q.reverse
          BY <2>2, <2>5, <3>1, <4>5, WordFacts DEF Position
        <5>2. HashForward(Target(r, k))
          BY <3>1, <5>1 DEF Walk
        <5>3. QED
          BY <2>1, <4>1, <4>2, <4>3, <4>5, <5>1, <5>2, <1>5, HashForwardStep
      <4>6. CASE r.hash = Zero
        <5>1. q.hash = Zero /\ q.number = Target(r, k) /\ q.reverse = r.reverse
          BY <2>2, <4>6 DEF Position
        <5>2. IF r.reverse THEN NumberReverse ELSE NumberForward
          BY <3>1, <5>1 DEF Walk
        <5>3. q'.hash = Zero
          <6>1. CASE r.reverse
            BY <5>1, <5>2, <6>1, <4>3 DEF NumberReverse, TypeOK, Query
          <6>2. CASE ~r.reverse
            BY <5>1, <5>2, <6>2, <4>3 DEF NumberForward, TypeOK, Query
          <6>3. QED
            BY <6>1, <6>2
        <5>4. QED
          BY <2>1, <4>1, <4>2, <4>3, <4>6, <5>1, <5>2, <5>3, <1>5, NumberStep
      <4>7. QED
        BY <4>4, <4>5, <4>6
    <3>5. q'.skip = r.skip /\ q'.amount = r.amount /\ q'.reverse = r.reverse
      BY <2>2, WalkKeepsQuery DEF IInv
    <3>6. pc' \in {"loop", "send"} => pc' = "loop"
      BY <3>1 DEF Walk, HashReverse, HashForward, NumberReverse, NumberForward
    <3>7. Len(headers') <= asked'.amount
      BY <1>2, <2>1, <2>2, <3>2
    <3>8. QED
      BY <1>1, <1>2, <1>3, <2>2, <3>2, <3>3, <3>4, <3>5, <3>6, <3>7 DEF IInv
  <2>6. QED
    BY <2>4, <2>5
<1>6. QED
  BY <1>4, <1>5

(* Every step of the handler keeps the invariant.                          *)
LEMMA IInvStep == IInv /\ [Next]_vars => IInv'
<1> SUFFICES ASSUME IInv, [Next]_vars PROVE IInv'
  OBVIOUS
<1>1. CASE \E r \in Queries : Receive(r) \/ FlowReject(r)
  BY <1>1, ReceiveStep
<1>2. CASE Walk
  BY <1>2, WalkStep
<1>3. CASE Send
  BY <1>3, SendStep
<1>4. CASE UNCHANGED vars
  BY <1>4 DEF vars, IInv, TypeOK, HeadersAnswerQuery, Position
<1>5. QED
  BY <1>1, <1>2, <1>3, <1>4 DEF Next

(* The handler's query, headers and reply keep their types for every word *)
(* width, chain and header limit.                                          *)
THEOREM TypeCorrect == Spec => []TypeOK
<1>1. Init => TypeOK
  BY IInvInit DEF IInv
<1>2. QED
  BY <1>1, TypeStep, PTL DEF Spec

(* Every reply to a query whose positions fit in a uint64 is the          *)
(* protocol's answer: handleMsg's four walks, its canonical-ancestor       *)
(* check and its genesis bound return the headers at the origin and every *)
(* Skip+1 blocks in the asked direction, up to Amount or the end of the   *)
(* chain, for every word width, chain length and MaxHeaderFetch.          *)
THEOREM HeadersAnswerQueryHolds == Spec => []HeadersAnswerQuery
<1>1. IInv => HeadersAnswerQuery
  BY DEF IInv
<1>2. QED
  BY <1>1, IInvInit, IInvStep, PTL DEF Spec

=============================================================================
