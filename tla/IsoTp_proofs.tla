---------------------------- MODULE IsoTp_proofs ----------------------------
(* Theorems about IsoTp for payloads of any length, any number of calls,     *)
(* rings of any depth and any modulus of the sequence numbers.               *)
EXTENDS IsoTp, SequenceTheorems, TLAPS

-----------------------------------------------------------------------------
(* What becomes of a queue: a frame more at its end, a frame less anywhere.  *)
Longer(t, s, x) ==
  Len(t) = Len(s) + 1 /\ t[Len(t)] = x /\ \A i \in 1..Len(s) : t[i] = s[i]

Without(t, s, k) ==
  /\ k \in 1..Len(s) /\ Len(t) = Len(s) - 1
  /\ \A i \in 1..Len(t) : t[i] = s[IF i < k THEN i ELSE i + 1]

LEMMA AppendIs ==
  ASSUME NEW S, NEW s \in Seq(S), NEW x \in S
  PROVE  Append(s, x) \in Seq(S) /\ Longer(Append(s, x), s, x)
BY AppendProperties DEF Longer

LEMMA TailIs ==
  ASSUME NEW S, NEW s \in Seq(S), s # <<>>
  PROVE  /\ Tail(s) \in Seq(S) /\ Without(Tail(s), s, 1)
         /\ Head(s) \in S /\ Head(s) = s[1] /\ Len(s) \in Nat \ {0}
<1>1. /\ Head(s) \in S /\ Tail(s) \in Seq(S) /\ Len(Tail(s)) = Len(s) - 1
      /\ \A i \in 1..Len(Tail(s)) : Tail(s)[i] = s[i + 1]
      BY HeadTailProperties
<1>2. Len(s) \in Nat \ {0} /\ Head(s) = s[1]
      OBVIOUS
<1>3. QED
      BY <1>1, <1>2 DEF Without

LEMMA RemoveIs ==
  ASSUME NEW S, NEW q \in Seq(S), NEW k \in 1..Len(q)
  PROVE  RemoveAt(q, k) \in Seq(S) /\ Without(RemoveAt(q, k), q, k)
<1> DEFINE a == SubSeq(q, 1, k - 1)
           b == SubSeq(q, k + 1, Len(q))
           t == a \o b
<1>1. Len(q) \in Nat
      OBVIOUS
<1>2. /\ a \in Seq(S) /\ Len(a) = k - 1
      /\ \A i \in 1..(k - 1) : a[i] = q[i]
      BY <1>1, SubSeqProperties
<1>3. /\ b \in Seq(S) /\ Len(b) = Len(q) - k
      /\ \A i \in 1..(Len(q) - k) : b[i] = q[k + i]
      BY <1>1, SubSeqProperties
<1> HIDE DEF a, b
<1>4. /\ a \o b \in Seq(S) /\ Len(a \o b) = Len(a) + Len(b)
      /\ \A i \in 1..Len(a) + Len(b) :
           (a \o b)[i] = IF i <= Len(a) THEN a[i] ELSE b[i - Len(a)]
      BY <1>2, <1>3, ConcatProperties
<1> HIDE DEF t
<1>5. /\ t \in Seq(S) /\ Len(t) = Len(q) - 1
      /\ \A i \in 1..Len(t) : t[i] = IF i <= k - 1 THEN a[i] ELSE b[i - (k - 1)]
      BY <1>1, <1>2, <1>3, <1>4 DEF t
<1>6. ASSUME NEW i \in 1..Len(t) PROVE t[i] = q[IF i < k THEN i ELSE i + 1]
  <2>1. CASE i < k
        BY <1>1, <1>2, <1>5, <2>1
  <2>2. CASE ~(i < k)
    <3>1. t[i] = b[i - (k - 1)] /\ i - (k - 1) \in 1..(Len(q) - k)
          BY <1>1, <1>5, <2>2
    <3>2. k + (i - (k - 1)) = i + 1
          BY <1>1, <1>5
    <3>3. QED
          BY <1>3, <3>1, <3>2, <2>2
  <2>3. QED
        BY <2>1, <2>2
<1>7. QED
      BY <1>1, <1>5, <1>6 DEF t, a, b, RemoveAt, Without

(* Two queues one behind the other.                                          *)
LEMMA ConcatIs ==
  ASSUME NEW S, NEW a \in Seq(S), NEW b \in Seq(S)
  PROVE  /\ a \o b \in Seq(S) /\ Len(a \o b) = Len(a) + Len(b)
         /\ Len(a) \in Nat /\ Len(b) \in Nat
         /\ \A i \in 1..Len(a) : (a \o b)[i] = a[i]
         /\ \A i \in 1..Len(b) : (a \o b)[Len(a) + i] = b[i]
<1> DEFINE c == a \o b
<1>1. /\ c \in Seq(S) /\ Len(c) = Len(a) + Len(b) /\ Len(a) \in Nat /\ Len(b) \in Nat
      /\ \A i \in 1..Len(a) + Len(b) : c[i] = IF i <= Len(a) THEN a[i] ELSE b[i - Len(a)]
      BY ConcatProperties
<1> HIDE DEF c
<1>2. \A i \in 1..Len(a) : c[i] = a[i]
      BY <1>1
<1>3. ASSUME NEW i \in 1..Len(b) PROVE c[Len(a) + i] = b[i]
  <2>1. Len(a) + i \in 1..Len(a) + Len(b) /\ ~(Len(a) + i <= Len(a)) /\ (Len(a) + i) - Len(a) = i
        BY <1>1
  <2>2. QED
        BY <1>1, <2>1
<1>4. QED
      BY <1>1, <1>2, <1>3 DEF c

LEMMA ConcatLonger ==
  ASSUME NEW S, NEW a \in Seq(S), NEW b \in Seq(S), NEW c \in Seq(S), NEW x, Longer(c, b, x)
  PROVE  Longer(a \o c, a \o b, x)
<1> DEFINE u == a \o b
           v == a \o c
<1>1. /\ u \in Seq(S) /\ Len(u) = Len(a) + Len(b) /\ Len(a) \in Nat /\ Len(b) \in Nat
      /\ \A i \in 1..Len(a) : u[i] = a[i]
      /\ \A i \in 1..Len(b) : u[Len(a) + i] = b[i]
      BY ConcatIs
<1>2. /\ v \in Seq(S) /\ Len(v) = Len(a) + Len(c) /\ Len(c) \in Nat
      /\ \A i \in 1..Len(a) : v[i] = a[i]
      /\ \A i \in 1..Len(c) : v[Len(a) + i] = c[i]
      BY ConcatIs
<1> HIDE DEF u, v
<1>3. Len(c) = Len(b) + 1 /\ c[Len(c)] = x /\ \A i \in 1..Len(b) : c[i] = b[i]
      BY DEF Longer
<1>4. Len(v) = Len(u) + 1
      BY <1>1, <1>2, <1>3
<1>5. v[Len(v)] = x
  <2>1. Len(c) \in 1..Len(c) /\ Len(v) = Len(a) + Len(c)
        BY <1>1, <1>2, <1>3
  <2>2. QED
        BY <1>2, <1>3, <2>1
<1>6. ASSUME NEW i \in 1..Len(u) PROVE v[i] = u[i]
  <2>1. CASE i \in 1..Len(a)
        BY <1>1, <1>2, <2>1
  <2>2. CASE i \notin 1..Len(a)
    <3> DEFINE j == i - Len(a)
    <3>1. j \in 1..Len(b) /\ j \in 1..Len(c) /\ Len(a) + j = i
          BY <1>1, <1>3, <2>2
    <3> HIDE DEF j
    <3>2. v[Len(a) + j] = c[j] /\ u[Len(a) + j] = b[j] /\ c[j] = b[j]
          BY <1>1, <1>2, <1>3, <3>1
    <3>3. QED
          BY <3>1, <3>2
  <2>3. QED
        BY <2>1, <2>2
<1>7. QED
      BY <1>4, <1>5, <1>6 DEF Longer, u, v

LEMMA ConcatWithout ==
  ASSUME NEW S, NEW a \in Seq(S), NEW b \in Seq(S), NEW c \in Seq(S), NEW k, Without(c, b, k)
  PROVE  Without(a \o c, a \o b, Len(a) + k) /\ (a \o b)[Len(a) + k] = b[k]
<1> DEFINE u == a \o b
           v == a \o c
           m == Len(a) + k
<1>1. /\ u \in Seq(S) /\ Len(u) = Len(a) + Len(b) /\ Len(a) \in Nat /\ Len(b) \in Nat
      /\ \A i \in 1..Len(a) : u[i] = a[i]
      /\ \A i \in 1..Len(b) : u[Len(a) + i] = b[i]
      BY ConcatIs
<1>2. /\ v \in Seq(S) /\ Len(v) = Len(a) + Len(c) /\ Len(c) \in Nat
      /\ \A i \in 1..Len(a) : v[i] = a[i]
      /\ \A i \in 1..Len(c) : v[Len(a) + i] = c[i]
      BY ConcatIs
<1> HIDE DEF u, v
<1>3. /\ k \in 1..Len(b) /\ Len(c) = Len(b) - 1
      /\ \A i \in 1..Len(c) : c[i] = b[IF i < k THEN i ELSE i + 1]
      BY DEF Without
<1>4. m \in 1..Len(u) /\ Len(v) = Len(u) - 1 /\ u[m] = b[k]
      BY <1>1, <1>2, <1>3
<1>5. ASSUME NEW i \in 1..Len(v) PROVE v[i] = u[IF i < m THEN i ELSE i + 1]
  <2>1. CASE i \in 1..Len(a)
    <3>1. i < m
          BY <1>1, <1>3, <2>1
    <3>2. QED
          BY <1>1, <1>2, <2>1, <3>1
  <2>2. CASE i \notin 1..Len(a)
    <3> DEFINE j == i - Len(a)
    <3>1. j \in 1..Len(c) /\ Len(a) + j = i /\ j \in Int /\ j >= 1 /\ j <= Len(c)
          BY <1>1, <1>2, <2>2
    <3>2. (i < m) = (j < k)
          BY <1>1, <1>3
    <3> HIDE DEF j, m
    <3>3. v[i] = c[j]
          BY <1>2, <3>1
    <3>4. CASE j < k
      <4>1. c[j] = b[IF j < k THEN j ELSE j + 1]
            BY <1>3, <3>1
      <4>2. j \in 1..Len(b)
            BY <1>1, <1>3, <3>1
      <4>3. u[Len(a) + j] = b[j]
            BY <1>1, <4>2
      <4>4. QED
            BY <3>1, <3>2, <3>3, <3>4, <4>1, <4>3
    <3>5. CASE ~(j < k)
      <4>1. c[j] = b[IF j < k THEN j ELSE j + 1]
            BY <1>3, <3>1
      <4>2. j + 1 \in 1..Len(b) /\ Len(a) + (j + 1) = i + 1
        <5>1. Len(a) \in Nat /\ Len(b) \in Nat /\ Len(c) = Len(b) - 1
              BY <1>1, <1>3
        <5>2. j \in Int /\ j >= 1 /\ j <= Len(c) /\ Len(a) + j = i
              BY <3>1
        <5>3. QED
              BY <5>1, <5>2
      <4> DEFINE i1 == j + 1
      <4>3. i1 \in 1..Len(b)
            BY <4>2
      <4> HIDE DEF i1
      <4>4. u[Len(a) + i1] = b[i1]
            BY <1>1, <4>3
      <4>5. u[i + 1] = b[j + 1]
            BY <4>2, <4>4 DEF i1
      <4>6. QED
            BY <3>2, <3>3, <3>5, <4>1, <4>5
    <3>6. QED
          BY <3>4, <3>5
  <2>3. QED
        BY <2>1, <2>2
<1>6. QED
      BY <1>4, <1>5 DEF Without, u, v

LEMMA ConcatTail ==
  ASSUME NEW S, NEW a \in Seq(S), NEW b \in Seq(S), a # <<>>
  PROVE  Without(Tail(a) \o b, a \o b, 1) /\ (a \o b)[1] = Head(a)
<1> DEFINE c == Tail(a)
           u == a \o b
           v == c \o b
<1>1. /\ u \in Seq(S) /\ Len(u) = Len(a) + Len(b) /\ Len(a) \in Nat /\ Len(b) \in Nat
      /\ \A i \in 1..Len(a) : u[i] = a[i]
      /\ \A i \in 1..Len(b) : u[Len(a) + i] = b[i]
      BY ConcatIs
<1>2. /\ Head(a) = a[1] /\ Len(a) \in Nat \ {0} /\ Len(c) = Len(a) - 1
      /\ \A i \in 1..Len(c) : c[i] = a[i + 1]
      BY HeadTailProperties, TailIs
<1>3. c \in Seq(S)
      BY HeadTailProperties
<1> HIDE DEF c
<1>4. /\ v \in Seq(S) /\ Len(v) = Len(c) + Len(b)
      /\ \A i \in 1..Len(c) : v[i] = c[i]
      /\ \A i \in 1..Len(b) : v[Len(c) + i] = b[i]
      BY <1>3, ConcatIs
<1> HIDE DEF u, v
<1>5. 1 \in 1..Len(u) /\ Len(v) = Len(u) - 1 /\ u[1] = Head(a)
      BY <1>1, <1>2, <1>4
<1>6. ASSUME NEW i \in 1..Len(v) PROVE v[i] = u[i + 1]
  <2>1. CASE i \in 1..Len(c)
    <3>1. v[i] = c[i] /\ c[i] = a[i + 1] /\ i + 1 \in 1..Len(a)
          BY <1>1, <1>2, <1>4, <2>1
    <3>2. QED
          BY <1>1, <3>1
  <2>2. CASE i \notin 1..Len(c)
    <3> DEFINE j == i - Len(c)
    <3>1. j \in 1..Len(b) /\ Len(c) + j = i /\ Len(a) + j = i + 1
          BY <1>1, <1>2, <1>4, <2>2
    <3> HIDE DEF j
    <3>2. v[Len(c) + j] = b[j] /\ u[Len(a) + j] = b[j]
          BY <1>1, <1>4, <3>1
    <3>3. QED
          BY <3>1, <3>2
  <2>3. QED
        BY <2>1, <2>2
<1>7. \A i \in 1..Len(v) : v[i] = u[IF i < 1 THEN i ELSE i + 1]
      BY <1>6
<1>8. QED
      BY <1>5, <1>7 DEF Without, u, v, c

(* A frame passes from one queue to the other.                               *)
LEMMA ConcatPass ==
  ASSUME NEW S, NEW a \in Seq(S), NEW b \in Seq(S), b # <<>>
  PROVE  Append(a, Head(b)) \o Tail(b) = a \o b
<1> DEFINE h == <<Head(b)>>
           t == Tail(b)
<1>1. Head(b) \in S /\ t \in Seq(S)
      BY HeadTailProperties
<1>2. h \in Seq(S) /\ Append(a, Head(b)) = a \o h /\ b = h \o t
      BY <1>1
<1>3. h \in Seq(S) /\ t \in Seq(S)
      BY <1>1, <1>2
<1> HIDE DEF h, t
<1>4. (a \o h) \o t = a \o (h \o t)
      BY <1>3, ConcatAssociative
<1>5. QED
      BY <1>2, <1>4 DEF t

LEMMA SetLonger ==
  ASSUME NEW S, NEW s \in Seq(S), NEW x \in S, NEW t \in Seq(S), Longer(t, s, x)
  PROVE  ToSet(t) = ToSet(s) \cup {x}
<1>1. DOMAIN t = 1..(Len(s) + 1) /\ DOMAIN s = 1..Len(s) /\ Len(s) \in Nat
      BY DEF Longer
<1>2. QED
      BY <1>1 DEF ToSet, Longer

LEMMA SetWithout ==
  ASSUME NEW S, NEW s \in Seq(S), NEW t \in Seq(S), NEW k, Without(t, s, k)
  PROVE  /\ ToSet(t) \subseteq ToSet(s) /\ s[k] \in ToSet(s)
         /\ ToSet(s) \subseteq ToSet(t) \cup {s[k]}
<1>1. DOMAIN t = 1..(Len(s) - 1) /\ DOMAIN s = 1..Len(s) /\ Len(s) \in Nat /\ k \in 1..Len(s)
      BY DEF Without
<1>2. ToSet(t) \subseteq ToSet(s)
  <2>1. ASSUME NEW i \in 1..(Len(s) - 1) PROVE t[i] \in ToSet(s)
    <3>1. t[i] = s[IF i < k THEN i ELSE i + 1] /\ (IF i < k THEN i ELSE i + 1) \in 1..Len(s)
          BY <1>1 DEF Without
    <3>2. QED
          BY <1>1, <3>1 DEF ToSet
  <2>2. QED
        BY <1>1, <2>1 DEF ToSet
<1>3. \A i \in 1..Len(s) : s[i] \in ToSet(t) \cup {s[k]}
  <2>1. TAKE i \in 1..Len(s)
  <2>2. CASE i < k
    <3>1. i \in 1..(Len(s) - 1) /\ t[i] = s[i]
          BY <1>1, <2>2 DEF Without
    <3>2. QED
          BY <1>1, <3>1 DEF ToSet
  <2>3. CASE i > k
    <3>1. i - 1 \in 1..(Len(s) - 1) /\ t[i - 1] = s[i]
      <4>1. i - 1 \in 1..(Len(s) - 1) /\ ~(i - 1 < k) /\ (i - 1) + 1 = i
            BY <1>1, <2>3
      <4>2. QED
            BY <1>1, <4>1 DEF Without
    <3>2. QED
          BY <1>1, <3>1 DEF ToSet
  <2>4. QED
        BY <1>1, <2>2, <2>3
<1>4. QED
      BY <1>1, <1>2, <1>3 DEF ToSet

LEMMA SetEmpty == ToSet(<<>>) = {}
BY DEF ToSet

-----------------------------------------------------------------------------
(* What a frame is, and what the two sides hold at each stage.               *)
Formed ==
  {f \in Frame : /\ f.type = "SF" => f.k = 0 /\ f.len = 0
                 /\ f.type = "FF" => f.k = 0 /\ f.len > 0
                 /\ f.type = "CF" => f.k > 0}

(* All but Flow Control carry a payload; a Single or First Frame opens one.  *)
Carries(f) == f.type # "FC"
Opens(f) == f.type \in {"SF", "FF"}

(* Lengths, and 0 before the first message.                                  *)
Sizes == Lengths \cup {0}

(* What the client's steps rely on at each stage.                            *)
ClientInv ==
  /\ n \in 0..MaxCalls
  /\ cpc \in {"idle", "first", "flow", "block", "answer", "cts", "collect"}
  /\ cpc # "idle" => n > 0
  /\ out \in [len : Sizes, sent : Nat] /\ out.sent <= out.len
  /\ cpc \in {"first", "flow"} => out.sent = 0
  /\ cpc = "flow" => out.len > 0
  /\ cpc = "block" => out.sent < out.len
  /\ parts \in [total : Sizes, got : Seq(Piece)] /\ Len(parts.got) <= parts.total + 1
  /\ cpc \in {"cts", "collect"} => Len(parts.got) \in 1..parts.total
  /\ ret \in [code : {"none", "OK", "error"}, got : Seq(Piece)]
  /\ ring \in Seq(Formed)
  /\ cpc = "idle" => ring = <<>>

(* An open reception wants more pieces, an answer under way more frames.     *)
EcuInv ==
  /\ epc \in {"loop", "flow", "block"}
  /\ rx \in [active : BOOLEAN, total : Sizes, got : Seq(Piece)]
  /\ Len(rx.got) <= rx.total + 1
  /\ rx.active => Len(rx.got) \in 1..rx.total
  /\ resp \in [n : 0..MaxCalls, len : Sizes, sent : Nat] /\ resp.sent <= resp.len
  /\ epc # "loop" => resp.n > 0
  /\ epc = "flow" => resp.sent = 0
  /\ epc # "loop" => resp.sent < resp.len
  /\ served \in Seq(Seq(Piece) \ {<<>>})

(* The frames on their way, and the history.                                 *)
WireInv ==
  /\ up \in Seq(Formed) /\ down \in Seq(Formed)
  /\ fresh \in BOOLEAN /\ clean \in BOOLEAN /\ lost \subseteq {"up", "down"}

TypeInv == ClientInv /\ EcuInv /\ WireInv

LEMMA MaxLengthIs == MaxLength \in Nat /\ \A l \in Sizes : l \in Nat /\ l <= MaxLength
<1>1. \E l \in Lengths : \A m \in Lengths : m <= l
      BY IsoTpAssumption
<1>2. MaxLength \in Lengths /\ \A m \in Lengths : m <= MaxLength
      BY <1>1 DEF MaxLength
<1>3. QED
      BY <1>2, IsoTpAssumption DEF Sizes

LEMMA FormedIs ==
  ASSUME NEW f \in Formed
  PROVE  /\ f.type \in {"SF", "FF", "CF", "FC"} /\ f.n \in 1..MaxCalls /\ f.k \in Nat
         /\ f.k <= MaxLength /\ f.len \in Sizes /\ f.len \in Nat
         /\ f.type = "SF" => f.k = 0 /\ f.len = 0
         /\ f.type = "FF" => f.k = 0 /\ f.len > 0
         /\ f.type = "CF" => f.k > 0
         /\ Data(f) \in Piece /\ Data(f).n = f.n /\ Data(f).k = f.k
BY MaxLengthIs DEF Formed, Frame, Sizes, Data, Piece

LEMMA FramesFormed ==
  ASSUME NEW m \in 1..MaxCalls
  PROVE  /\ \A l \in Lengths \cup {0} : First(m, l) \in Formed
         /\ \A k \in 1..MaxLength : Consecutive(m, k) \in Formed
         /\ FlowControl(m) \in Formed
<1>1. ASSUME NEW l \in Lengths \cup {0} PROVE First(m, l) \in Formed
      BY MaxLengthIs, IsoTpAssumption DEF First, Formed, Frame, Sizes
<1>2. ASSUME NEW k \in 1..MaxLength PROVE Consecutive(m, k) \in Formed
      BY <1>2, MaxLengthIs DEF Consecutive, Formed, Frame
<1>3. FlowControl(m) \in Formed
      BY MaxLengthIs DEF FlowControl, Formed, Frame
<1>4. QED
      BY <1>1, <1>2, <1>3

LEMMA FramesAre ==
  ASSUME NEW m, NEW l, NEW k
  PROVE  /\ First(m, l).type = (IF l = 0 THEN "SF" ELSE "FF") /\ First(m, l).n = m
         /\ First(m, l).k = 0 /\ First(m, l).len = l
         /\ Consecutive(m, k).type = "CF" /\ Consecutive(m, k).n = m
         /\ Consecutive(m, k).k = k
         /\ FlowControl(m).type = "FC" /\ FlowControl(m).n = m
BY DEF First, Consecutive, FlowControl

LEMMA HeadFormed ==
  ASSUME NEW q \in Seq(Formed), q # <<>>
  PROVE  Head(q) \in Formed /\ Tail(q) \in Seq(Formed) /\ Head(q) \in ToSet(q)
<1>1. Head(q) = q[1] /\ 1 \in DOMAIN q
      OBVIOUS
<1>2. QED
      BY <1>1, TailIs DEF ToSet

LEMMA PiecesGrow ==
  ASSUME NEW got \in Seq(Piece), NEW x \in Piece
  PROVE  /\ Append(got, x) \in Seq(Piece) /\ Len(Append(got, x)) = Len(got) + 1
         /\ Append(got, x) # <<>> /\ Len(got) \in Nat
         /\ Longer(Append(got, x), got, x)
<1>1. Append(got, x) \in Seq(Piece) /\ Longer(Append(got, x), got, x) /\ Len(got) \in Nat
      BY AppendIs
<1>2. QED
      BY <1>1 DEF Longer

-----------------------------------------------------------------------------
(* Types.                                                                    *)
LEMMA InitType == Init => TypeInv
BY IsoTpAssumption DEF Init, TypeInv, ClientInv, EcuInv, WireInv, Nothing, Sizes

LEMMA CallType == ASSUME TypeInv, Call PROVE TypeInv'
<1>1. PICK l \in Lengths : out' = [len |-> l, sent |-> 0]
      BY DEF Call
<1>2. l \in Sizes /\ l \in Nat
      BY MaxLengthIs DEF Sizes
<1>3. n' \in 0..MaxCalls /\ n' > 0
      BY IsoTpAssumption DEF Call, TypeInv, ClientInv
<1>4. ClientInv'
  <2>1. out' \in [len : Sizes, sent : Nat] /\ out'.sent = 0 /\ out'.len = l
        BY <1>1, <1>2
  <2>2. /\ parts' \in [total : Sizes, got : Seq(Piece)] /\ parts'.total = 0
        /\ Len(parts'.got) = 0
        BY DEF Call, Nothing, Sizes
  <2>3. ret' \in [code : {"none", "OK", "error"}, got : Seq(Piece)]
        BY DEF Call
  <2>4. ring' \in Seq(Formed) /\ cpc' = "first"
        BY DEF Call, TypeInv, ClientInv
  <2>5. QED
        BY <1>2, <1>3, <2>1, <2>2, <2>3, <2>4 DEF ClientInv
<1>5. EcuInv' /\ WireInv'
      BY DEF Call, Quiet, TypeInv, EcuInv, WireInv, ecu
<1>6. QED
      BY <1>4, <1>5 DEF TypeInv

LEMMA FinishType ==
  ASSUME TypeInv, NEW code \in {"OK", "error"}, Finish(code),
         parts' \in [total : Sizes, got : Seq(Piece)], Len(parts'.got) <= parts'.total + 1,
         UNCHANGED <<n, out>>
  PROVE  ClientInv'
<1>1. parts'.got \in Seq(Piece)
      OBVIOUS
<1>2. ret' \in [code : {"none", "OK", "error"}, got : Seq(Piece)]
      BY <1>1 DEF Finish
<1>3. QED
      BY <1>2 DEF Finish, TypeInv, ClientInv

LEMMA EcuStays == ASSUME TypeInv, UNCHANGED ecu PROVE EcuInv'
BY DEF TypeInv, EcuInv, ecu

LEMMA ClientStays == ASSUME TypeInv, UNCHANGED client PROVE ClientInv'
BY DEF TypeInv, ClientInv, client

LEMMA GiveUpType == ASSUME TypeInv, GiveUp PROVE TypeInv'
<1>1. ClientInv'
      BY FinishType DEF GiveUp, TypeInv, ClientInv
<1>2. EcuInv'
      BY EcuStays DEF GiveUp
<1>3. WireInv'
      BY DEF GiveUp, TypeInv, WireInv
<1>4. QED
      BY <1>1, <1>2, <1>3 DEF TypeInv

LEMMA SendType ==
  ASSUME TypeInv, SendFirst \/ SendBlock \/ SendFlow PROVE TypeInv'
<1>1. n \in 1..MaxCalls
      BY IsoTpAssumption DEF SendFirst, SendBlock, SendFlow, TypeInv, ClientInv
<1>2. EcuInv'
      BY EcuStays DEF SendFirst, SendBlock, SendFlow
<1>3. CASE SendFirst
  <2>1. out.len \in Lengths \/ out.len = 0
        BY DEF TypeInv, ClientInv, Sizes
  <2>2. First(n, out.len) \in Formed
        BY <1>1, <2>1, MaxLengthIs DEF First, Formed, Frame, Sizes
  <2>3. up' \in Seq(Formed)
        BY <1>3, <2>2, AppendIs DEF SendFirst, TypeInv, WireInv
  <2>4. ClientInv'
        BY <1>3, MaxLengthIs DEF SendFirst, TypeInv, ClientInv
  <2>5. QED
        BY <1>2, <1>3, <2>3, <2>4 DEF SendFirst, TypeInv, WireInv
<1>4. CASE SendBlock
  <2>1. out.len \in Nat /\ out.len <= MaxLength /\ out.sent \in Nat /\ out.sent < out.len
        BY <1>4, MaxLengthIs DEF SendBlock, TypeInv, ClientInv
  <2>2. Consecutive(n, out.sent + 1) \in Formed
        BY <1>1, <2>1, FramesFormed, MaxLengthIs
  <2>3. up' \in Seq(Formed)
        BY <1>4, <2>2, AppendIs DEF SendBlock, TypeInv, WireInv
  <2>4. /\ out' \in [len : Sizes, sent : Nat] /\ out'.len = out.len
        /\ out'.sent = out.sent + 1
    <3>1. out' = [out EXCEPT !.sent = @ + 1] /\ out \in [len : Sizes, sent : Nat]
          BY <1>4 DEF SendBlock, TypeInv, ClientInv
    <3>2. QED
          BY <2>1, <3>1
  <2>5. ClientInv'
        BY <1>4, <2>1, <2>4 DEF SendBlock, TypeInv, ClientInv
  <2>6. QED
        BY <1>2, <1>4, <2>3, <2>5 DEF SendBlock, TypeInv, WireInv
<1>5. CASE SendFlow
  <2>1. Head(parts.got) \in Piece
        BY <1>5 DEF SendFlow, TypeInv, ClientInv
  <2>2. FlowControl(Head(parts.got).n) \in Formed
        BY <2>1, FramesFormed DEF Piece
  <2>3. up' \in Seq(Formed)
        BY <1>5, <2>2, AppendIs DEF SendFlow, TypeInv, WireInv
  <2>4. ClientInv'
        BY <1>5 DEF SendFlow, TypeInv, ClientInv
  <2>5. QED
        BY <1>2, <1>5, <2>3, <2>4 DEF SendFlow, TypeInv, WireInv
<1>6. QED
      BY <1>3, <1>4, <1>5

LEMMA ReceiveType ==
  ASSUME TypeInv, AwaitFlow \/ BeginAnswer \/ Collect \/ Refuse PROVE TypeInv'
<1>1. EcuInv'
      BY EcuStays DEF AwaitFlow, BeginAnswer, Collect, Refuse
<1>2. WireInv'
      BY DEF AwaitFlow, BeginAnswer, Collect, Refuse, TypeInv, WireInv
<1>3. Head(ring) \in Formed /\ Tail(ring) \in Seq(Formed) /\ Data(Head(ring)) \in Piece
      BY HeadFormed, FormedIs DEF AwaitFlow, BeginAnswer, Collect, Refuse, TypeInv, ClientInv
<1>4. CASE AwaitFlow
      BY <1>1, <1>2, <1>3, <1>4, MaxLengthIs DEF AwaitFlow, TypeInv, ClientInv
<1>5. CASE BeginAnswer
  <2>1. parts' = Begin(Head(ring))
        BY <1>5 DEF BeginAnswer
  <2>2. /\ parts' \in [total : Sizes, got : Seq(Piece)] /\ parts'.total = Head(ring).len
        /\ Len(parts'.got) = 1 /\ Head(ring).len \in Nat
        BY <1>3, <2>1, FormedIs DEF Begin
  <2>3. UNCHANGED <<n, out>> /\ cpc = "answer"
        BY <1>5 DEF BeginAnswer
  <2>4. CASE Head(ring).type = "SF" /\ Finish("OK")
    <3>1. ClientInv'
          BY <2>2, <2>3, <2>4, FinishType
    <3>2. QED
          BY <1>1, <1>2, <3>1 DEF TypeInv
  <2>5. CASE Head(ring).type = "FF" /\ cpc' = "cts" /\ ring' = Tail(ring) /\ UNCHANGED ret
    <3>1. Len(parts'.got) \in 1..parts'.total
          BY <1>3, <2>2, <2>5, FormedIs
    <3>2. ClientInv'
          BY <1>3, <2>2, <2>3, <2>5, <3>1 DEF TypeInv, ClientInv
    <3>3. QED
          BY <1>1, <1>2, <3>2 DEF TypeInv
  <2>6. QED
        BY <1>5, <2>4, <2>5 DEF BeginAnswer
<1>6. CASE Collect
  <2>1. /\ parts'.got = Append(parts.got, Data(Head(ring))) /\ parts'.total = parts.total
        /\ parts' \in [total : Sizes, got : Seq(Piece)]
        BY <1>3, <1>6, PiecesGrow DEF Collect, TypeInv, ClientInv
  <2>2. Len(parts'.got) = Len(parts.got) + 1 /\ parts.total \in Nat
        BY <1>3, <2>1, PiecesGrow, MaxLengthIs DEF TypeInv, ClientInv
  <2>3. Len(parts'.got) <= parts'.total + 1 /\ Len(parts.got) \in 1..parts.total
        BY <1>6, <2>1, <2>2 DEF Collect, TypeInv, ClientInv
  <2>4. CASE Finish("OK")
        BY <1>1, <1>2, <1>6, <2>1, <2>3, <2>4, FinishType DEF Collect, TypeInv
  <2>5. CASE Len(parts'.got) # parts.total + 1
    <3>1. UNCHANGED <<n, cpc, out, ret>> /\ ring' = Tail(ring)
          BY <1>6, <2>5 DEF Collect
    <3>2. Len(parts'.got) \in 1..parts'.total
          BY <2>1, <2>2, <2>3, <2>5
    <3>3. ClientInv'
          BY <1>3, <1>6, <2>1, <2>3, <3>1, <3>2 DEF Collect, TypeInv, ClientInv
    <3>4. QED
          BY <1>1, <1>2, <3>3 DEF TypeInv
  <2>6. QED
        BY <1>6, <2>4, <2>5 DEF Collect
<1>7. CASE Refuse
  <2>1. ClientInv'
        BY <1>7, FinishType DEF Refuse, TypeInv, ClientInv
  <2>2. QED
        BY <1>1, <1>2, <2>1 DEF TypeInv
<1>8. QED
      BY <1>4, <1>5, <1>6, <1>7

LEMMA WireType == ASSUME TypeInv, Deliver \/ Lose PROVE TypeInv'
<1>1. EcuInv'
      BY EcuStays DEF Deliver, Lose
<1>2. CASE Deliver
  <2>1. Head(down) \in Formed /\ Tail(down) \in Seq(Formed)
        BY <1>2, HeadFormed DEF Deliver, TypeInv, WireInv
  <2>2. ring' \in Seq(Formed) /\ (cpc = "idle" => ring' = ring)
    <3>1. CASE cpc = "idle"
          BY <1>2, <3>1 DEF Deliver, TypeInv, ClientInv
    <3>2. CASE cpc # "idle" /\ Len(ring) < Depth
      <4>1. ring' = Append(ring, Head(down)) /\ ring \in Seq(Formed)
            BY <1>2, <3>2 DEF Deliver, TypeInv, ClientInv
      <4>2. QED
            BY <2>1, <3>2, <4>1, AppendIs
    <3>3. CASE cpc # "idle" /\ ~(Len(ring) < Depth)
      <4>1. ring # <<>>
            BY <3>3, IsoTpAssumption, EmptySeq
      <4>2. Tail(ring) \in Seq(Formed)
            BY <4>1, HeadFormed DEF TypeInv, ClientInv
      <4>3. QED
            BY <1>2, <2>1, <3>3, <4>2, AppendIs DEF Deliver
    <3>4. QED
          BY <3>1, <3>2, <3>3
  <2>3. ClientInv'
        BY <1>2, <2>2 DEF Deliver, TypeInv, ClientInv
  <2>4. WireInv'
        BY <1>2, <2>1 DEF Deliver, TypeInv, WireInv, LostFirst
  <2>5. QED
        BY <1>1, <2>3, <2>4 DEF TypeInv
<1>3. CASE Lose
  <2>1. ClientInv'
        BY <1>3, ClientStays DEF Lose
  <2>2. up' \in Seq(Formed) /\ down' \in Seq(Formed)
    <3>1. CASE \E i \in DOMAIN up : up' = RemoveAt(up, i) /\ UNCHANGED down
          BY <3>1, RemoveIs DEF TypeInv, WireInv
    <3>2. CASE \E i \in DOMAIN down : down' = RemoveAt(down, i) /\ UNCHANGED up
          BY <3>2, RemoveIs DEF TypeInv, WireInv
    <3>3. QED
          BY <1>3, <3>1, <3>2 DEF Lose
  <2>3. WireInv'
        BY <1>3, <2>2 DEF Lose, TypeInv, WireInv, LostFirst
  <2>4. QED
        BY <1>1, <2>1, <2>3 DEF TypeInv
<1>4. QED
      BY <1>2, <1>3

LEMMA AnswerType ==
  ASSUME TypeInv, epc = "loop", NEW m \in 1..MaxCalls, Answer(m)
  PROVE  /\ epc' \in {"loop", "flow", "block"} /\ down' \in Seq(Formed) /\ clean' \in BOOLEAN
         /\ resp' \in [n : 0..MaxCalls, len : Sizes, sent : Nat] /\ resp'.sent <= resp'.len
         /\ epc' # "loop" => epc' = "flow" /\ resp'.n > 0 /\ resp'.sent = 0 /\ 0 < resp'.len
<1>1. CASE /\ clean' = FALSE
           /\ UNCHANGED <<down, resp, epc>>
      BY <1>1 DEF TypeInv, EcuInv, WireInv
<1>2. ASSUME NEW l \in Lengths,
             down' = Append(down, First(m, l)), resp' = [n |-> m, len |-> l, sent |-> 0],
             epc' = IF l = 0 THEN "loop" ELSE "flow", UNCHANGED clean
      PROVE  /\ epc' \in {"loop", "flow", "block"} /\ down' \in Seq(Formed)
             /\ clean' \in BOOLEAN
             /\ resp' \in [n : 0..MaxCalls, len : Sizes, sent : Nat] /\ resp'.sent <= resp'.len
             /\ epc' # "loop" => epc' = "flow" /\ resp'.n > 0 /\ resp'.sent = 0 /\ 0 < resp'.len
  <2>1. First(m, l) \in Formed /\ l \in Sizes /\ l \in Nat
        BY FramesFormed, MaxLengthIs DEF Sizes
  <2>2. down' \in Seq(Formed)
        BY <1>2, <2>1, AppendIs DEF TypeInv, WireInv
  <2>3. resp' \in [n : 0..MaxCalls, len : Sizes, sent : Nat]
        BY <1>2, <2>1
  <2>4. resp'.n = m /\ resp'.sent = 0 /\ resp'.len = l
        BY <1>2
  <2>5. QED
        BY <1>2, <2>1, <2>2, <2>3, <2>4 DEF TypeInv, WireInv
<1>3. QED
      BY <1>1, <1>2 DEF Answer

LEMMA ServeType ==
  ASSUME TypeInv, epc = "loop", NEW got \in Seq(Piece), got # <<>>, Serve(got),
         rx' \in [active : BOOLEAN, total : Sizes, got : Seq(Piece)],
         Len(rx'.got) <= rx'.total + 1, rx'.active => Len(rx'.got) \in 1..rx'.total,
         up' \in Seq(Formed), UNCHANGED <<client, fresh, lost>>
  PROVE  TypeInv'
<1>1. got[1] \in Piece
      OBVIOUS
<1>2. got[1].n \in 1..MaxCalls
      BY <1>1 DEF Piece
<1>3. served' \in Seq(Seq(Piece) \ {<<>>})
  <2>1. got \in Seq(Piece) \ {<<>>}
        OBVIOUS
  <2>2. QED
        BY <2>1, AppendIs DEF Serve, TypeInv, EcuInv
<1>4. /\ epc' \in {"loop", "flow", "block"} /\ down' \in Seq(Formed) /\ clean' \in BOOLEAN
      /\ resp' \in [n : 0..MaxCalls, len : Sizes, sent : Nat] /\ resp'.sent <= resp'.len
      /\ epc' # "loop" => epc' = "flow" /\ resp'.n > 0 /\ resp'.sent = 0 /\ 0 < resp'.len
      BY <1>2, AnswerType DEF Serve
<1>5. EcuInv'
      BY <1>3, <1>4 DEF EcuInv
<1>6. WireInv'
      BY <1>4 DEF TypeInv, WireInv
<1>7. ClientInv'
      BY ClientStays
<1>8. QED
      BY <1>5, <1>6, <1>7 DEF TypeInv

LEMMA TakeType ==
  ASSUME TypeInv, TakeSingle \/ TakeFirst \/ TakeConsecutive \/ TakeOther PROVE TypeInv'
<1> DEFINE h == Head(up)
<1>1. /\ up # <<>> /\ epc = "loop" /\ up' = Tail(up)
      /\ h \in Formed /\ up' \in Seq(Formed) /\ Data(h) \in Piece
      BY HeadFormed, FormedIs DEF TakeSingle, TakeFirst, TakeConsecutive, TakeOther, TypeInv, WireInv
<1>2. /\ rx \in [active : BOOLEAN, total : Sizes, got : Seq(Piece)]
      /\ Len(rx.got) <= rx.total + 1 /\ rx.total \in Nat
      /\ rx.active => Len(rx.got) \in 1..rx.total
      BY MaxLengthIs DEF TypeInv, EcuInv
<1> HIDE DEF h
<1>3. CASE TakeSingle
  <2>1. <<Data(h)>> \in Seq(Piece) /\ <<Data(h)>> # <<>>
        BY <1>1
  <2>2. Serve(<<Data(h)>>) /\ UNCHANGED <<client, rx, fresh, lost>>
        BY <1>3 DEF TakeSingle, h
  <2>3. QED
        BY <1>1, <1>2, <2>1, <2>2, ServeType
<1>4. CASE TakeFirst
  <2>1. /\ rx' = [active |-> TRUE, total |-> h.len, got |-> <<Data(h)>>]
        /\ h.len \in Sizes /\ h.len \in Nat \ {0} /\ FlowControl(h.n) \in Formed
        BY <1>1, <1>4, FormedIs, FramesFormed DEF TakeFirst, h
  <2>2. /\ rx' \in [active : BOOLEAN, total : Sizes, got : Seq(Piece)]
        /\ rx'.total = h.len /\ Len(rx'.got) = 1
        BY <1>1, <2>1
  <2>3. EcuInv'
        BY <1>4, <2>1, <2>2 DEF TakeFirst, TypeInv, EcuInv
  <2>4. down' \in Seq(Formed) /\ clean' \in BOOLEAN
        BY <1>4, <2>1, AppendIs DEF TakeFirst, TypeInv, WireInv, h
  <2>5. ClientInv'
        BY <1>4, ClientStays DEF TakeFirst
  <2>6. QED
        BY <1>1, <1>4, <2>3, <2>4, <2>5 DEF TakeFirst, TypeInv, WireInv
<1>5. CASE TakeConsecutive
  <2> DEFINE got == Append(rx.got, Data(h))
  <2>1. /\ got \in Seq(Piece) /\ got # <<>> /\ Len(got) = Len(rx.got) + 1
        /\ Len(rx.got) \in 1..rx.total
        BY <1>1, <1>2, <1>5, PiecesGrow DEF TakeConsecutive
  <2>2. CASE Len(got) = rx.total + 1
    <3>1. /\ rx' = [rx EXCEPT !.got = got, !.active = FALSE] /\ Serve(got)
          /\ UNCHANGED <<client, fresh, lost>>
          BY <1>5, <2>2 DEF TakeConsecutive, h
    <3> HIDE DEF got
    <3>2. /\ rx' \in [active : BOOLEAN, total : Sizes, got : Seq(Piece)] /\ ~rx'.active
          /\ rx'.total = rx.total /\ rx'.got = got
          BY <1>2, <2>1, <3>1
    <3>3. QED
          BY <1>1, <1>2, <2>1, <2>2, <3>1, <3>2, ServeType
  <2>3. CASE Len(got) # rx.total + 1
    <3>1. /\ rx' = [rx EXCEPT !.got = got]
          /\ UNCHANGED <<client, down, epc, resp, served, clean, fresh, lost>>
          BY <1>5, <2>3 DEF TakeConsecutive, h
    <3> HIDE DEF got
    <3>2. /\ rx' \in [active : BOOLEAN, total : Sizes, got : Seq(Piece)]
          /\ rx'.total = rx.total /\ rx'.got = got
          BY <1>2, <2>1, <3>1
    <3>3. Len(rx'.got) \in 1..rx'.total
          BY <1>2, <2>1, <2>3, <3>2
    <3>4. EcuInv'
          BY <1>2, <3>1, <3>2, <3>3 DEF TypeInv, EcuInv
    <3>5. ClientInv' /\ WireInv'
          BY <1>1, <3>1, ClientStays DEF TypeInv, WireInv
    <3>6. QED
          BY <3>4, <3>5 DEF TypeInv
  <2>4. QED
        BY <2>2, <2>3
<1>6. CASE TakeOther
  <2>1. /\ rx' = [rx EXCEPT !.active = rx.active /\ h.type = "FC"]
        /\ UNCHANGED <<client, down, epc, resp, served, fresh, clean, lost>>
        BY <1>6 DEF TakeOther, h
  <2>2. /\ rx' \in [active : BOOLEAN, total : Sizes, got : Seq(Piece)]
        /\ rx'.total = rx.total /\ rx'.got = rx.got
        BY <1>2, <2>1
  <2>3. rx'.active => rx.active
        BY <1>2, <2>1
  <2>4. EcuInv'
        BY <1>2, <2>1, <2>2, <2>3 DEF TypeInv, EcuInv
  <2>5. ClientInv' /\ WireInv'
        BY <1>1, <2>1, ClientStays DEF TypeInv, WireInv
  <2>6. QED
        BY <2>4, <2>5 DEF TypeInv
<1>7. QED
      BY <1>3, <1>4, <1>5, <1>6

LEMMA EcuSendType ==
  ASSUME TypeInv, EcuAwaitFlow \/ EcuSendBlock \/ EcuGiveUp PROVE TypeInv'
<1>1. ClientInv'
      BY ClientStays DEF EcuAwaitFlow, EcuSendBlock, EcuGiveUp
<1>2. CASE EcuAwaitFlow
  <2>1. up' \in Seq(Formed)
        BY <1>2, HeadFormed DEF EcuAwaitFlow, TypeInv, WireInv
  <2>2. WireInv'
        BY <1>2, <2>1 DEF EcuAwaitFlow, TypeInv, WireInv, LostFirst
  <2>3. EcuInv'
        BY <1>2 DEF EcuAwaitFlow, TypeInv, EcuInv
  <2>4. QED
        BY <1>1, <2>2, <2>3 DEF TypeInv
<1>3. CASE EcuSendBlock
  <2>1. /\ resp \in [n : 0..MaxCalls, len : Sizes, sent : Nat] /\ resp.sent < resp.len
        /\ resp.n \in 1..MaxCalls /\ resp.len \in Nat /\ resp.len <= MaxLength
        BY <1>3, MaxLengthIs, IsoTpAssumption DEF EcuSendBlock, TypeInv, EcuInv
  <2>2. resp.sent + 1 \in 1..MaxLength
        BY <2>1, MaxLengthIs
  <2>3. down' \in Seq(Formed)
        BY <1>3, <2>1, <2>2, FramesFormed, AppendIs DEF EcuSendBlock, TypeInv, WireInv
  <2>4. resp' = [resp EXCEPT !.sent = @ + 1]
        BY <1>3 DEF EcuSendBlock
  <2>5. /\ resp' \in [n : 0..MaxCalls, len : Sizes, sent : Nat] /\ resp'.n = resp.n
        /\ resp'.len = resp.len /\ resp'.sent = resp.sent + 1
        BY <2>1, <2>4
  <2>6. EcuInv'
        BY <1>3, <2>1, <2>5 DEF EcuSendBlock, TypeInv, EcuInv
  <2>7. WireInv'
        BY <1>3, <2>3 DEF EcuSendBlock, TypeInv, WireInv
  <2>8. QED
        BY <1>1, <2>6, <2>7 DEF TypeInv
<1>4. CASE EcuGiveUp
      BY <1>1, <1>4 DEF EcuGiveUp, TypeInv, EcuInv, WireInv
<1>5. QED
      BY <1>2, <1>3, <1>4

LEMMA NextType == ASSUME TypeInv, [Next]_vars PROVE TypeInv'
<1>1. CASE UNCHANGED vars
      BY <1>1, ClientStays, EcuStays DEF TypeInv, WireInv, vars
<1>2. CASE Next
      BY <1>2, CallType, GiveUpType, SendType, ReceiveType, WireType, TakeType, EcuSendType
      DEF Next, Client, Ecu
<1>3. QED
      BY <1>1, <1>2

LEMMA TypeAlways == Spec => []TypeInv
BY InitType, NextType, PTL DEF Spec

(* Counters stay within the payloads, assemblies within the announced        *)
(* totals, and frames carry what was sent, for payloads of any length.       *)
THEOREM IsoTpTypeCorrect == Spec => []TypeOK
<1>1. TypeInv => TypeOK
  <2> SUFFICES ASSUME TypeInv PROVE TypeOK
      OBVIOUS
  <2>1. \A q \in {ring, up, down} : \A i \in DOMAIN q : q[i] \in Frame
        BY DEF TypeInv, ClientInv, WireInv, Formed
  <2>2. \A i \in DOMAIN parts.got : parts.got[i] \in Piece
        BY DEF TypeInv, ClientInv
  <2>3. \A i \in DOMAIN rx.got : rx.got[i] \in Piece
        BY DEF TypeInv, EcuInv
  <2>4. out.sent \in 0..out.len /\ resp.sent \in 0..resp.len
        BY MaxLengthIs DEF TypeInv, ClientInv, EcuInv
  <2>5. QED
        BY <2>1, <2>2, <2>3, <2>4 DEF TypeOK, TypeInv, ClientInv, EcuInv, Sizes
<1>2. QED
      BY <1>1, TypeAlways, PTL

-----------------------------------------------------------------------------
(* A call that began with nothing left of the earlier ones: every frame      *)
(* under way belongs to it, and so does the reception its Consecutive Frames *)
(* go on with.                                                               *)
Mine(s) == \A f \in ToSet(s) : f.n = n
Has(s, type) == \E f \in ToSet(s) : f.type = type

(* The reception, open or closed, is that of this call's request.            *)
ReceivesMine == rx.got # <<>> /\ rx.got[1].n = n

(* Whatever the call can meet is its own.  Consecutive Frames carry no       *)
(* number of their message, so that the ECU adds them to what it receives:   *)
(* where Flow Control or Consecutive Frames are, that is this call's.        *)
Own ==
  /\ Mine(up) /\ Mine(down) /\ Mine(ring)
  /\ epc # "loop" => resp.n = n
  /\ \A x \in ToSet(parts.got) : x.n = n
  /\ ret.code = "OK" => ret.got # <<>> /\ ret.got[1].n = n
  /\ Has(down, "FC") \/ Has(ring, "FC") \/ Has(up, "CF") \/ cpc = "block" => ReceivesMine

FreshInv == fresh => Own

LEMMA SetAppend ==
  ASSUME NEW S, NEW q \in Seq(S), NEW x \in S PROVE ToSet(Append(q, x)) = ToSet(q) \cup {x}
<1>1. Append(q, x) \in Seq(S) /\ Longer(Append(q, x), q, x)
      BY AppendIs
<1> DEFINE t == Append(q, x)
<1>2. t \in Seq(S) /\ Longer(t, q, x)
      BY <1>1
<1> HIDE DEF t
<1>3. ToSet(t) = ToSet(q) \cup {x}
      BY <1>2, SetLonger
<1>4. QED
      BY <1>3 DEF t

LEMMA SetTail ==
  ASSUME NEW S, NEW q \in Seq(S), q # <<>>
  PROVE  ToSet(Tail(q)) \subseteq ToSet(q) /\ Head(q) \in ToSet(q)
         /\ ToSet(q) \subseteq ToSet(Tail(q)) \cup {Head(q)}
<1>1. Tail(q) \in Seq(S) /\ Without(Tail(q), q, 1) /\ Head(q) = q[1]
      BY TailIs
<1> DEFINE t == Tail(q)
<1>2. t \in Seq(S) /\ Without(t, q, 1)
      BY <1>1
<1> HIDE DEF t
<1>3. ToSet(t) \subseteq ToSet(q) /\ q[1] \in ToSet(q) /\ ToSet(q) \subseteq ToSet(t) \cup {q[1]}
      BY <1>2, SetWithout
<1>4. QED
      BY <1>1, <1>3 DEF t

LEMMA SetRemove ==
  ASSUME NEW S, NEW q \in Seq(S), NEW k \in DOMAIN q
  PROVE  /\ ToSet(RemoveAt(q, k)) \subseteq ToSet(q)
         /\ ToSet(q) \subseteq ToSet(RemoveAt(q, k)) \cup {q[k]}
<1>1. k \in 1..Len(q)
      OBVIOUS
<1>2. RemoveAt(q, k) \in Seq(S) /\ Without(RemoveAt(q, k), q, k)
      BY <1>1, RemoveIs
<1>3. QED
      BY <1>2, SetWithout

(* What a step within a call has to show.                                    *)
LEMMA OwnStays ==
  ASSUME Own, n' = n,
         \A f \in ToSet(up') : f \in ToSet(up) \/ (f.n = n /\ (f.type = "CF" => cpc = "block")),
         \A f \in ToSet(down') :
           f \in ToSet(down) \/ (f.n = n /\ (f.type = "FC" => ReceivesMine')),
         ToSet(ring') \subseteq ToSet(ring) \cup ToSet(down),
         epc' # "loop" => resp'.n = n,
         \A x \in ToSet(parts'.got) : x.n = n,
         ret'.code = "OK" => ret'.got # <<>> /\ ret'.got[1].n = n,
         ReceivesMine => ReceivesMine',
         cpc' = "block" => cpc = "block" \/ Has(ring, "FC")
  PROVE  Own'
BY DEF Own, Mine, Has

LEMMA FreshCall == ASSUME TypeInv, FreshInv, Call PROVE FreshInv'
<1>1. SUFFICES ASSUME fresh' PROVE Own'
      BY DEF FreshInv
<1>2. up' = <<>> /\ down' = <<>> /\ ring' = <<>> /\ epc' = "loop" /\ cpc' = "first"
      BY <1>1 DEF Call, Quiet, ecu, TypeInv, ClientInv
<1>3. parts'.got = <<>> /\ ret'.code = "none"
      BY DEF Call, Nothing
<1>4. QED
      BY <1>2, <1>3, SetEmpty DEF Own, Mine, Has

LEMMA FreshFinish ==
  ASSUME TypeInv, Own, NEW code \in {"OK", "error"}, Finish(code),
         \A x \in ToSet(parts'.got) : x.n = n,
         code = "OK" => parts'.got # <<>> /\ parts'.got \in Seq(Piece),
         UNCHANGED <<n, up, down, ecu>>
  PROVE  Own'
<1>1. ring' = <<>> /\ cpc' = "idle" /\ ret'.code = code /\ ret'.got = parts'.got
      BY DEF Finish
<1>2. code = "OK" => parts'.got[1] \in ToSet(parts'.got)
      BY DEF ToSet
<1>3. ReceivesMine' = ReceivesMine /\ epc' = epc /\ resp' = resp
      BY DEF ReceivesMine, ecu
<1>4. QED
      BY <1>1, <1>2, <1>3, OwnStays, SetEmpty DEF Own

LEMMA FreshClient ==
  ASSUME TypeInv, Own, Client, ~Call PROVE Own'
<1>1. CASE GiveUp
      BY <1>1, FreshFinish DEF GiveUp, Own
<1>2. CASE SendFirst
  <2>1. ToSet(up') = ToSet(up) \cup {First(n, out.len)}
    <3>1. up' = Append(up, First(n, out.len))
          BY <1>2 DEF SendFirst
    <3>2. /\ First(n, out.len) \in Formed \cup {First(n, out.len)}
          /\ up \in Seq(Formed \cup {First(n, out.len)})
          BY DEF TypeInv, WireInv
    <3>3. QED
          BY <3>1, <3>2, SetAppend
  <2>2. First(n, out.len).n = n /\ First(n, out.len).type # "CF"
        BY DEF First
  <2>3. UNCHANGED <<n, parts, ret, ring, down, ecu>> /\ cpc' # "block"
        BY <1>2 DEF SendFirst
  <2>4. ReceivesMine' = ReceivesMine /\ epc' = epc /\ resp' = resp
        BY <2>3 DEF ReceivesMine, ecu
  <2>5. QED
        BY <2>1, <2>2, <2>3, <2>4, OwnStays DEF Own
<1>3. CASE AwaitFlow
  <2>1. Head(ring) \in ToSet(ring) /\ ToSet(ring') \subseteq ToSet(ring)
        BY <1>3, SetTail DEF AwaitFlow, TypeInv, ClientInv
  <2>2. cpc' = "block" => Has(ring, "FC")
        BY <1>3, <2>1 DEF AwaitFlow, Has
  <2>3. UNCHANGED <<n, parts, ret, up, down, ecu>>
        BY <1>3 DEF AwaitFlow
  <2>4. ReceivesMine' = ReceivesMine /\ epc' = epc /\ resp' = resp
        BY <2>3 DEF ReceivesMine, ecu
  <2>5. QED
        BY <2>1, <2>2, <2>3, <2>4, OwnStays DEF Own
<1>4. CASE SendBlock
  <2> DEFINE x == Consecutive(n, out.sent + 1)
  <2>1. ToSet(up') = ToSet(up) \cup {x}
    <3>1. up' = Append(up, x)
          BY <1>4 DEF SendBlock
    <3>2. x \in Formed \cup {x} /\ up \in Seq(Formed \cup {x})
          BY DEF TypeInv, WireInv
    <3>3. QED
          BY <3>1, <3>2, SetAppend
  <2>2. x.n = n /\ cpc = "block"
        BY <1>4 DEF Consecutive, SendBlock
  <2>3. UNCHANGED <<n, parts, ret, ring, down, ecu>>
        BY <1>4 DEF SendBlock
  <2>4. ReceivesMine' = ReceivesMine /\ epc' = epc /\ resp' = resp
        BY <2>3 DEF ReceivesMine, ecu
  <2>5. QED
        BY <2>1, <2>2, <2>3, <2>4, OwnStays DEF Own
<1>5. CASE BeginAnswer
  <2>1. Head(ring) \in ToSet(ring) /\ ToSet(Tail(ring)) \subseteq ToSet(ring)
        BY <1>5, SetTail DEF BeginAnswer, TypeInv, ClientInv
  <2>2. parts'.got = <<Data(Head(ring))>>
        BY <1>5 DEF BeginAnswer, Begin
  <2>3. \A x \in ToSet(parts'.got) : x.n = n
    <3>1. ToSet(parts'.got) = {Data(Head(ring))}
          BY <2>2 DEF ToSet
    <3>2. QED
          BY <2>1, <3>1 DEF Data, Own, Mine
  <2>4. UNCHANGED <<n, up, down, ecu>>
        BY <1>5 DEF BeginAnswer
  <2>5. CASE Finish("OK")
    <3>1. parts' \in [total : Sizes, got : Seq(Piece)] /\ parts'.got # <<>>
          BY <1>5, <2>2, ReceiveType DEF TypeInv, ClientInv
    <3>2. QED
          BY <2>3, <2>4, <2>5, <3>1, FreshFinish
  <2>6. CASE cpc' = "cts" /\ ring' = Tail(ring) /\ UNCHANGED ret
    <3>1. ReceivesMine' = ReceivesMine /\ epc' = epc /\ resp' = resp
          BY <2>4 DEF ReceivesMine, ecu
    <3>2. QED
          BY <2>1, <2>3, <2>4, <2>6, <3>1, OwnStays DEF Own
  <2>7. QED
        BY <1>5, <2>5, <2>6 DEF BeginAnswer
<1>6. CASE SendFlow
  <2> DEFINE x == FlowControl(Head(parts.got).n)
  <2>1. ToSet(up') = ToSet(up) \cup {x}
    <3>1. up' = Append(up, x)
          BY <1>6 DEF SendFlow
    <3>2. x \in Formed \cup {x} /\ up \in Seq(Formed \cup {x})
          BY DEF TypeInv, WireInv
    <3>3. QED
          BY <3>1, <3>2, SetAppend
  <2>2. Head(parts.got) \in ToSet(parts.got)
        BY <1>6, SetTail DEF SendFlow, TypeInv, ClientInv
  <2>3. x.n = n /\ x.type = "FC"
        BY <2>2 DEF FlowControl, Own
  <2>4. UNCHANGED <<n, parts, ret, ring, down, ecu>> /\ cpc' = "collect"
        BY <1>6 DEF SendFlow
  <2>5. ReceivesMine' = ReceivesMine /\ epc' = epc /\ resp' = resp
        BY <2>4 DEF ReceivesMine, ecu
  <2>6. QED
        BY <2>1, <2>3, <2>4, <2>5, OwnStays DEF Own
<1>7. CASE Collect
  <2>1. /\ Head(ring) \in ToSet(ring) /\ ToSet(Tail(ring)) \subseteq ToSet(ring)
        /\ Head(ring) \in Formed
        BY <1>7, SetTail, HeadFormed DEF Collect, TypeInv, ClientInv
  <2>2. /\ parts'.got = Append(parts.got, Data(Head(ring))) /\ parts.got \in Seq(Piece)
        /\ Data(Head(ring)) \in Piece
        BY <1>7, <2>1, FormedIs DEF Collect, TypeInv, ClientInv
  <2>3. /\ ToSet(parts'.got) = ToSet(parts.got) \cup {Data(Head(ring))}
        /\ parts'.got # <<>> /\ parts'.got \in Seq(Piece)
        BY <2>2, SetAppend, PiecesGrow
  <2>4. \A x \in ToSet(parts'.got) : x.n = n
        BY <2>1, <2>3 DEF Data, Own, Mine
  <2>5. UNCHANGED <<n, up, down, ecu>>
        BY <1>7 DEF Collect
  <2>6. CASE Finish("OK")
        BY <2>3, <2>4, <2>5, <2>6, FreshFinish
  <2>7. CASE ring' = Tail(ring) /\ UNCHANGED <<cpc, ret>>
    <3>1. ReceivesMine' = ReceivesMine /\ epc' = epc /\ resp' = resp
          BY <2>5 DEF ReceivesMine, ecu
    <3>2. QED
          BY <2>1, <2>4, <2>5, <2>7, <3>1, OwnStays DEF Own
  <2>8. QED
        BY <1>7, <2>6, <2>7 DEF Collect
<1>8. CASE Refuse
      BY <1>8, FreshFinish DEF Refuse, Own
<1>9. QED
      BY <1>1, <1>2, <1>3, <1>4, <1>5, <1>6, <1>7, <1>8 DEF Client

LEMMA FreshWire ==
  ASSUME TypeInv, Own, Deliver \/ Lose PROVE Own'
<1>1. /\ UNCHANGED <<n, cpc, parts, ret, ecu>>
      BY DEF Deliver, Lose, client
<1>2. ReceivesMine' = ReceivesMine /\ epc' = epc /\ resp' = resp
      BY <1>1 DEF ReceivesMine, ecu
<1>3. /\ ToSet(up') \subseteq ToSet(up) /\ ToSet(down') \subseteq ToSet(down)
      /\ ToSet(ring') \subseteq ToSet(ring) \cup ToSet(down)
  <2>1. CASE Lose
    <3>1. CASE \E i \in DOMAIN up : up' = RemoveAt(up, i) /\ UNCHANGED down
          BY <2>1, <3>1, SetRemove DEF Lose, client, TypeInv, WireInv
    <3>2. CASE \E i \in DOMAIN down : down' = RemoveAt(down, i) /\ UNCHANGED up
          BY <2>1, <3>2, SetRemove DEF Lose, client, TypeInv, WireInv
    <3>3. QED
          BY <2>1, <3>1, <3>2 DEF Lose
  <2>2. CASE Deliver
    <3>1. /\ ToSet(down') \subseteq ToSet(down) /\ Head(down) \in ToSet(down)
          /\ Head(down) \in Formed /\ ring \in Seq(Formed) /\ UNCHANGED up
          BY <2>2, SetTail, HeadFormed DEF Deliver, TypeInv, WireInv, ClientInv
    <3>2. CASE cpc = "idle"
          BY <2>2, <3>1, <3>2 DEF Deliver
    <3>3. CASE cpc # "idle" /\ Len(ring) < Depth
      <4>1. ring' = Append(ring, Head(down))
            BY <2>2, <3>3 DEF Deliver
      <4>2. QED
            BY <3>1, <4>1, SetAppend
    <3>4. CASE cpc # "idle" /\ ~(Len(ring) < Depth)
      <4>1. ring' = Append(Tail(ring), Head(down))
            BY <2>2, <3>4 DEF Deliver
      <4>2. ring # <<>>
            BY <3>4, IsoTpAssumption, EmptySeq
      <4>3. Tail(ring) \in Seq(Formed) /\ ToSet(Tail(ring)) \subseteq ToSet(ring)
            BY <3>1, <4>2, SetTail, HeadFormed
      <4> DEFINE t == Tail(ring)
      <4>4. ring' = Append(t, Head(down)) /\ t \in Seq(Formed) /\ ToSet(t) \subseteq ToSet(ring)
            BY <4>1, <4>3
      <4> HIDE DEF t
      <4>5. ToSet(ring') = ToSet(t) \cup {Head(down)}
            BY <3>1, <4>4, SetAppend
      <4>6. QED
            BY <3>1, <4>4, <4>5
    <3>5. QED
          BY <3>2, <3>3, <3>4
  <2>3. QED
        BY <2>1, <2>2
<1>4. QED
      BY <1>1, <1>2, <1>3, OwnStays DEF Own

(* What an answer leaves on the wire.                                        *)
LEMMA FreshServe ==
  ASSUME TypeInv, Own, epc = "loop", NEW m \in 1..MaxCalls, Answer(m), m = n,
         ToSet(up') \subseteq ToSet(up), ReceivesMine => ReceivesMine',
         UNCHANGED client
  PROVE  Own'
<1>1. UNCHANGED <<n, cpc, parts, ret, ring>>
      BY DEF client
<1>2. CASE UNCHANGED <<down, resp, epc>>
      BY <1>1, <1>2, OwnStays DEF Own
<1>3. ASSUME NEW l \in Lengths,
             down' = Append(down, First(m, l)), resp' = [n |-> m, len |-> l, sent |-> 0]
      PROVE  Own'
  <2>1. First(m, l) \in Formed /\ First(m, l).n = n /\ First(m, l).type # "FC"
        BY FramesFormed DEF First
  <2>2. ToSet(down') = ToSet(down) \cup {First(m, l)}
        BY <1>3, <2>1, SetAppend DEF TypeInv, WireInv
  <2>3. resp'.n = n
        BY <1>3
  <2>4. QED
        BY <1>1, <2>1, <2>2, <2>3, OwnStays DEF Own
<1>4. QED
      BY <1>2, <1>3 DEF Answer

LEMMA FreshEcu ==
  ASSUME TypeInv, Own, Ecu PROVE Own'
<1> DEFINE h == Head(up)
<1>1. UNCHANGED <<n, cpc, parts, ret, ring>> /\ UNCHANGED client
      BY DEF Ecu, TakeSingle, TakeFirst, TakeConsecutive, TakeOther, EcuAwaitFlow,
             EcuSendBlock, EcuGiveUp, client
<1>2. up # <<>> => /\ h \in Formed /\ h \in ToSet(up) /\ ToSet(Tail(up)) \subseteq ToSet(up)
                   /\ h.n = n /\ h.n \in 1..MaxCalls /\ Data(h) \in Piece
                   /\ Data(h).n = h.n /\ n \in 1..MaxCalls
      BY SetTail, HeadFormed, FormedIs DEF TypeInv, WireInv, Own, Mine
<1> HIDE DEF h
<1>3. CASE TakeSingle
  <2>1. /\ up # <<>> /\ up' = Tail(up) /\ Serve(<<Data(h)>>) /\ epc = "loop"
        /\ UNCHANGED rx
        BY <1>3 DEF TakeSingle, h
  <2>2. Answer(h.n)
        BY <1>2, <2>1 DEF Serve
  <2>3. ReceivesMine' = ReceivesMine
        BY <1>1, <2>1 DEF ReceivesMine
  <2>4. QED
        BY <1>1, <1>2, <2>1, <2>2, <2>3, FreshServe
<1>4. CASE TakeFirst
  <2>1. /\ up # <<>> /\ up' = Tail(up) /\ rx'.got = <<Data(h)>>
        /\ UNCHANGED <<epc, resp>>
        /\ down' = Append(down, FlowControl(h.n)) \/ UNCHANGED down
        BY <1>4 DEF TakeFirst, h
  <2>2. ReceivesMine'
        BY <1>1, <1>2, <2>1 DEF ReceivesMine
  <2>3. FlowControl(h.n) \in Formed /\ FlowControl(h.n).n = n
        BY <1>2, <2>1, FramesFormed, FramesAre
  <2>4. ToSet(Append(down, FlowControl(h.n))) = ToSet(down) \cup {FlowControl(h.n)}
    <3>1. down \in Seq(Formed)
          BY DEF TypeInv, WireInv
    <3>2. QED
          BY <2>3, <3>1, SetAppend
  <2>5. ToSet(down') \subseteq ToSet(down) \cup {FlowControl(h.n)}
        BY <2>1, <2>4
  <2>6. QED
        BY <1>1, <1>2, <2>1, <2>2, <2>3, <2>5, OwnStays DEF Own
<1>5. CASE TakeConsecutive
  <2> DEFINE got == Append(rx.got, Data(h))
  <2>1. /\ up # <<>> /\ up' = Tail(up) /\ epc = "loop"
        /\ h.type = "CF" /\ rx.got \in Seq(Piece) /\ rx \in [active : BOOLEAN, total : Sizes, got : Seq(Piece)]
        BY <1>5 DEF TakeConsecutive, TypeInv, EcuInv, h
  <2>2. ReceivesMine
        BY <1>2, <2>1 DEF Own, Has
  <2>3. got \in Seq(Piece) /\ got # <<>> /\ got[1] = rx.got[1] /\ got[1].n = n
    <3>1. got \in Seq(Piece) /\ got # <<>> /\ Longer(got, rx.got, Data(h))
          BY <1>2, <2>1, PiecesGrow
    <3>2. Len(rx.got) \in Nat \ {0}
          BY <2>1, <2>2, EmptySeq DEF ReceivesMine
    <3>3. QED
          BY <2>2, <3>1, <3>2 DEF Longer, ReceivesMine
  <2>4. CASE rx' = [rx EXCEPT !.got = got, !.active = FALSE] /\ Serve(got)
    <3> HIDE DEF got
    <3>1. rx'.got = got
          BY <2>1, <2>4
    <3>2. ReceivesMine'
          BY <1>1, <2>3, <3>1 DEF ReceivesMine
    <3>3. Answer(got[1].n)
          BY <2>4 DEF Serve
    <3>4. QED
          BY <1>1, <1>2, <2>1, <2>3, <3>2, <3>3, FreshServe
  <2>5. CASE rx' = [rx EXCEPT !.got = got] /\ UNCHANGED <<down, epc, resp, served, clean>>
    <3> HIDE DEF got
    <3>1. rx'.got = got
          BY <2>1, <2>5
    <3>2. ReceivesMine'
          BY <1>1, <2>3, <3>1 DEF ReceivesMine
    <3>3. QED
          BY <1>1, <1>2, <2>1, <2>5, <3>2, OwnStays DEF Own
  <2>6. QED
        BY <1>5, <2>4, <2>5 DEF TakeConsecutive, h
<1>6. CASE TakeOther
  <2>1. /\ up # <<>> /\ up' = Tail(up) /\ UNCHANGED <<down, epc, resp>>
        /\ rx' = [rx EXCEPT !.active = @ /\ Head(up).type = "FC"]
        /\ rx \in [active : BOOLEAN, total : Sizes, got : Seq(Piece)]
        BY <1>6 DEF TakeOther, TypeInv, EcuInv
  <2>2. rx'.got = rx.got
        BY <2>1
  <2>3. ReceivesMine' = ReceivesMine
        BY <1>1, <2>2 DEF ReceivesMine
  <2>4. QED
        BY <1>1, <1>2, <2>1, <2>3, OwnStays DEF Own
<1>7. CASE EcuAwaitFlow
  <2>1. /\ up # <<>> /\ up' = Tail(up) /\ UNCHANGED <<down, rx, resp>> /\ epc = "flow"
        BY <1>7 DEF EcuAwaitFlow
  <2>2. ReceivesMine' = ReceivesMine
        BY <1>1, <2>1 DEF ReceivesMine
  <2>3. QED
        BY <1>1, <1>2, <2>1, <2>2, OwnStays DEF Own
<1>8. CASE EcuSendBlock
  <2> DEFINE x == Consecutive(resp.n, resp.sent + 1)
  <2>1. /\ epc = "block" /\ down' = Append(down, x) /\ UNCHANGED <<up, rx>>
        /\ resp' = [resp EXCEPT !.sent = @ + 1]
        BY <1>8 DEF EcuSendBlock
  <2>2. resp'.n = resp.n /\ resp.n = n
    <3>1. resp \in [n : 0..MaxCalls, len : Sizes, sent : Nat] /\ resp.n = n
          BY <2>1 DEF TypeInv, EcuInv, Own
    <3>2. QED
          BY <2>1, <3>1
  <2>3. x.n = n /\ x.type = "CF"
        BY <2>2, FramesAre
  <2>4. ToSet(down') = ToSet(down) \cup {x}
    <3>1. x \in Formed \cup {x} /\ down \in Seq(Formed \cup {x})
          BY DEF TypeInv, WireInv
    <3>2. QED
          BY <2>1, <3>1, SetAppend
  <2>5. ReceivesMine' = ReceivesMine
        BY <1>1, <2>1 DEF ReceivesMine
  <2>6. QED
        BY <1>1, <2>1, <2>2, <2>3, <2>4, <2>5, OwnStays DEF Own
<1>9. CASE EcuGiveUp
  <2>1. epc' = "loop" /\ UNCHANGED <<up, down, rx, resp>>
        BY <1>9 DEF EcuGiveUp
  <2>2. ReceivesMine' = ReceivesMine
        BY <1>1, <2>1 DEF ReceivesMine
  <2>3. QED
        BY <1>1, <2>1, <2>2, OwnStays DEF Own
<1>10. QED
      BY <1>3, <1>4, <1>5, <1>6, <1>7, <1>8, <1>9 DEF Ecu

LEMMA InitFresh == Init => FreshInv
BY SetEmpty DEF Init, Nothing, FreshInv, Own, Mine, Has

LEMMA NextFresh == ASSUME TypeInv, FreshInv, [Next]_vars PROVE FreshInv'
<1>1. CASE Call
      BY <1>1, FreshCall
<1>2. CASE Next /\ ~Call
  <2>1. fresh' = fresh
        BY <1>2 DEF Next, Client, Call, GiveUp, SendFirst, AwaitFlow, SendBlock, BeginAnswer,
           SendFlow, Collect, Refuse, Deliver, Lose, Ecu, TakeSingle, TakeFirst,
           TakeConsecutive, TakeOther, EcuAwaitFlow, EcuSendBlock, EcuGiveUp
  <2>2. Own => Own'
        BY <1>2, FreshClient, FreshWire, FreshEcu DEF Next
  <2>3. QED
        BY <2>1, <2>2 DEF FreshInv
<1>3. CASE UNCHANGED vars
      BY <1>3 DEF vars, client, ecu, FreshInv, Own, Mine, Has, ReceivesMine
<1>4. QED
      BY <1>1, <1>2, <1>3

(* A call that began with nothing left of the earlier ones - no frame under  *)
(* way and an ECU at rest - and returns OK returns the answer to its own     *)
(* request, whatever is lost or late while it runs.                          *)
THEOREM AnswersToTheCall == Spec => []AnswerIsMine
<1>1. FreshInv => AnswerIsMine
      BY DEF FreshInv, Own, AnswerIsMine
<1>2. Spec => []FreshInv
      BY InitType, NextType, InitFresh, NextFresh, PTL DEF Spec
<1>3. QED
      BY <1>1, <1>2, PTL

-----------------------------------------------------------------------------
(* Payloads in pieces: where the pieces of one message are, in order.        *)
Before(a, b) == a.n < b.n \/ (a.n = b.n /\ a.k < b.k)
Sorted(s) == \A i, j \in DOMAIN s : i < j /\ Carries(s[i]) /\ Carries(s[j]) => Before(s[i], s[j])

(* An assembly holds pieces of one message at growing distances.             *)
Spaced(a) ==
  a.got # <<>> =>
    /\ a.got[1].k = 0 /\ Last(a.got).k <= a.total
    /\ \A i \in DOMAIN a.got : a.got[i].n = a.got[1].n
    /\ \A i, j \in DOMAIN a.got : i < j => a.got[i].k + (j - i) <= a.got[j].k

(* The reception is that of message m.                                       *)
Receiving(m) == rx.got # <<>> /\ rx.got[1].n = m

(* The First Frame of message m is on its way or taken, with length l.       *)
Opened(m, l) ==
  \/ \E f \in ToSet(up) : f.type = "FF" /\ f.n = m /\ f.len = l
  \/ Receiving(m) /\ rx.total = l

(* The way up, whatever was lost: frames are in the order in which they were *)
(* sent, none is from the future, and a message that is still to be opened   *)
(* is younger than the reception.                                            *)
UpOrder ==
  /\ Sorted(up)
  /\ \A f \in ToSet(up) :
       Carries(f) =>
         /\ f.n <= n /\ (cpc = "first" => f.n < n)
         /\ f.n = n => f.k <= out.sent
         /\ Opens(f) /\ rx.got # <<>> => rx.got[1].n < f.n
  /\ rx.got # <<>> => rx.got[1].n <= n /\ (cpc = "first" => rx.got[1].n < n)

(* The message of a Consecutive Frame was opened, and is long enough.        *)
EachOpened ==
  \A f \in ToSet(up) : f.type = "CF" => \E l \in Sizes : Opened(f.n, l) /\ f.k <= l

(* What was received was sent before everything still on its way.            *)
Behind ==
  rx.got # <<>> =>
    /\ rx.got[1].n = n => Last(rx.got).k <= out.sent
    /\ \A f \in ToSet(up) : Carries(f) => Before(Last(rx.got), f)

(* The way up while no First Frame is lost: what is received is one message. *)
UpWhole ==
  "up" \notin lost =>
    /\ Spaced(rx) /\ EachOpened /\ Behind
    /\ cpc \in {"flow", "block"} => Opened(n, out.len)

(* A request that was served is over: nothing of it is left or still sent.   *)
ServedWhole ==
  "up" \notin lost =>
    /\ RequestWhole /\ ServedInOrder
    /\ \A i \in DOMAIN served :
         /\ served[i][1].n <= n /\ (cpc \in {"first", "flow", "block"} => served[i][1].n < n)
         /\ \A f \in ToSet(up) : Carries(f) => served[i][1].n < f.n

RequestsInv == UpOrder /\ UpWhole /\ ServedWhole

LEMMA SortedWithout ==
  ASSUME NEW s \in Seq(Formed), NEW t \in Seq(Formed), NEW k, Sorted(s), Without(t, s, k)
  PROVE  Sorted(t)
<1> DEFINE at(i) == IF i < k THEN i ELSE i + 1
<1>1. /\ k \in 1..Len(s) /\ Len(s) \in Nat /\ Len(t) = Len(s) - 1
      /\ DOMAIN s = 1..Len(s) /\ DOMAIN t = 1..Len(t)
      BY DEF Without
<1>2. \A i \in DOMAIN t : t[i] = s[at(i)]
      BY <1>1 DEF Without
<1>3. \A i, j \in DOMAIN t : at(i) \in DOMAIN s /\ (i < j => at(i) < at(j))
      BY <1>1
<1> HIDE DEF at
<1>4. ASSUME NEW i \in DOMAIN t, NEW j \in DOMAIN t, i < j, Carries(t[i]), Carries(t[j])
      PROVE  Before(t[i], t[j])
  <2>1. /\ at(i) \in DOMAIN s /\ at(j) \in DOMAIN s /\ at(i) < at(j)
        /\ t[i] = s[at(i)] /\ t[j] = s[at(j)]
        BY <1>2, <1>3, <1>4
  <2>2. QED
        BY <1>4, <2>1 DEF Sorted
<1>5. QED
      BY <1>4 DEF Sorted

LEMMA SortedLonger ==
  ASSUME NEW s \in Seq(Formed), NEW t \in Seq(Formed), NEW x, Sorted(s), Longer(t, s, x),
         Carries(x) => \A f \in ToSet(s) : Carries(f) => Before(f, x)
  PROVE  Sorted(t)
<1>1. /\ Len(s) \in Nat /\ Len(t) = Len(s) + 1
      /\ DOMAIN s = 1..Len(s) /\ DOMAIN t = 1..Len(t)
      BY DEF Longer
<1>2. ASSUME NEW i \in DOMAIN t, NEW j \in DOMAIN t, i < j, Carries(t[i]), Carries(t[j])
      PROVE  Before(t[i], t[j])
  <2>1. i \in DOMAIN s /\ t[i] = s[i] /\ s[i] \in ToSet(s)
        BY <1>1, <1>2 DEF Longer, ToSet
  <2>2. CASE j = Len(t)
    <3>1. t[j] = x
          BY <2>2 DEF Longer
    <3>2. QED
          BY <1>2, <2>1, <3>1
  <2>3. CASE j # Len(t)
    <3>1. j \in DOMAIN s /\ t[j] = s[j]
          BY <1>1, <2>3 DEF Longer
    <3>2. QED
          BY <1>2, <2>1, <3>1 DEF Sorted
  <2>4. QED
        BY <2>2, <2>3
<1>3. QED
      BY <1>2 DEF Sorted

(* The frame at the head comes before the others.                            *)
LEMMA HeadFirst ==
  ASSUME NEW s \in Seq(Formed), s # <<>>, Sorted(s), Carries(Head(s)),
         NEW f \in ToSet(Tail(s)), Carries(f)
  PROVE  Before(Head(s), f)
<1>1. Tail(s) \in Seq(Formed) /\ Without(Tail(s), s, 1) /\ Head(s) = s[1] /\ Len(s) \in Nat \ {0}
      BY TailIs
<1>2. PICK i \in DOMAIN Tail(s) : f = Tail(s)[i]
      BY DEF ToSet
<1>3. i \in 1..(Len(s) - 1) /\ f = s[i + 1]
      BY <1>1, <1>2 DEF Without
<1>4. 1 \in DOMAIN s /\ i + 1 \in DOMAIN s /\ 1 < i + 1
      BY <1>1, <1>3
<1>5. QED
      BY <1>1, <1>3, <1>4 DEF Sorted

LEMMA PieceIs ==
  ASSUME NEW x \in Piece
  PROVE  x.n \in 1..MaxCalls /\ x.n \in Nat /\ x.k \in Nat /\ x = [n |-> x.n, k |-> x.k]
BY MaxLengthIs DEF Piece

LEMMA SpacedGrows ==
  ASSUME NEW a, NEW b, NEW x \in Piece, a.got \in Seq(Piece), b.got \in Seq(Piece),
         a.got # <<>>, Longer(b.got, a.got, x), b.total = a.total, a.total \in Nat, Spaced(a),
         x.n = a.got[1].n, Last(a.got).k < x.k, x.k <= a.total
  PROVE  Spaced(b)
<1> DEFINE s == a.got
           t == b.got
<1>1. s \in Seq(Piece) /\ t \in Seq(Piece) /\ s # <<>> /\ Longer(t, s, x)
      OBVIOUS
<1>2. /\ s[1].k = 0 /\ s[Len(s)].k < x.k /\ x.n = s[1].n
      /\ \A i \in DOMAIN s : s[i].n = s[1].n
      /\ \A i, j \in DOMAIN s : i < j => s[i].k + (j - i) <= s[j].k
      BY DEF Spaced, Last
<1> HIDE DEF s, t
<1>3. /\ Len(s) \in Nat \ {0} /\ Len(t) = Len(s) + 1
      /\ DOMAIN s = 1..Len(s) /\ DOMAIN t = 1..Len(t)
      BY <1>1, EmptySeq DEF Longer
<1>4. /\ t[Len(t)] = x /\ t[1] = s[1]
      /\ \A i \in DOMAIN t : (i \in DOMAIN s /\ t[i] = s[i]) \/ i = Len(t)
      BY <1>1, <1>3 DEF Longer
<1>5. (\A i \in DOMAIN s : s[i].k \in Nat) /\ x.k \in Nat
      BY <1>1, PieceIs
<1>6. \A i \in DOMAIN s : s[i].k + (Len(s) - i) <= s[Len(s)].k
      BY <1>2, <1>3, <1>5
<1>7. ASSUME NEW i \in DOMAIN t, NEW j \in DOMAIN t, i < j PROVE t[i].k + (j - i) <= t[j].k
  <2>1. i \in DOMAIN s /\ t[i] = s[i]
        BY <1>3, <1>4, <1>7
  <2>2. CASE j \in DOMAIN s /\ t[j] = s[j]
        BY <1>2, <1>7, <2>1, <2>2
  <2>3. CASE j = Len(t)
    <3>1. Len(s) \in DOMAIN s
          BY <1>3
    <3>2. s[i].k + (Len(s) - i) <= s[Len(s)].k /\ s[i].k \in Nat /\ s[Len(s)].k \in Nat
          BY <1>5, <1>6, <2>1, <3>1
    <3>3. t[i].k = s[i].k /\ t[j].k = x.k /\ j = Len(s) + 1 /\ i \in 1..Len(s)
          BY <1>3, <1>4, <2>1, <2>3
    <3>4. QED
          BY <1>2, <1>3, <1>5, <3>2, <3>3
  <2>4. QED
        BY <1>4, <2>2, <2>3
<1>8. \A i \in DOMAIN t : t[i].n = t[1].n
      BY <1>2, <1>4
<1>9. t[1].k = 0 /\ t[Len(t)].k <= b.total
      BY <1>2, <1>4
<1>10. QED
      BY <1>7, <1>8, <1>9 DEF Spaced, Last, t

(* As many pieces as the payload has, at growing distances: all of them.     *)
LEMMA SpacedWhole ==
  ASSUME NEW a, a.got \in Seq(Piece), a.total \in Nat, Len(a.got) = a.total + 1, Spaced(a)
  PROVE  Whole(a.got) /\ Last(a.got).k = a.total
<1> DEFINE s == a.got
<1>1. s \in Seq(Piece) /\ s # <<>> /\ Len(s) = a.total + 1 /\ DOMAIN s = 1..Len(s)
      OBVIOUS
<1>2. /\ s[1].k = 0 /\ s[Len(s)].k <= a.total
      /\ \A i \in DOMAIN s : s[i].n = s[1].n
      /\ \A i, j \in DOMAIN s : i < j => s[i].k + (j - i) <= s[j].k
      BY <1>1 DEF Spaced, Last
<1> HIDE DEF s
<1>3. \A i \in DOMAIN s : s[i] \in Piece /\ s[i].k \in Nat
      BY <1>1, PieceIs
<1>4. ASSUME NEW i \in DOMAIN s PROVE s[i].k = i - 1
  <2>1. 1 \in DOMAIN s /\ Len(s) \in DOMAIN s
        BY <1>1
  <2>2. s[i].k >= i - 1
        BY <1>1, <1>2, <1>3, <2>1
  <2>3. s[i].k <= i - 1
        BY <1>1, <1>2, <1>3, <2>1
  <2>4. QED
        BY <1>1, <1>3, <2>2, <2>3
<1>5. ASSUME NEW i \in DOMAIN s PROVE s[i] = [n |-> s[1].n, k |-> i - 1]
  <2>1. s[i] = [n |-> s[i].n, k |-> s[i].k]
        BY <1>3 DEF Piece
  <2>2. QED
        BY <1>2, <1>4, <2>1
<1>6. s[Len(s)].k = a.total
      BY <1>1, <1>4
<1>7. QED
      BY <1>5, <1>6 DEF Whole, Last, s

(* Numbers of requests and pieces are numbers.                               *)
LEMMA UpTypes ==
  ASSUME TypeInv
  PROVE  /\ up \in Seq(Formed) /\ n \in Nat
         /\ rx.got \in Seq(Piece) /\ rx.total \in Nat /\ rx.total \in Sizes
         /\ out.len \in Nat /\ out.len \in Sizes /\ out.sent \in Nat
         /\ \A f \in ToSet(up) : f \in Formed /\ f.n \in Nat /\ f.k \in Nat
         /\ rx.got # <<>> => /\ rx.got[1] \in Piece /\ rx.got[1].n \in Nat
                             /\ Last(rx.got) \in Piece
<1>1. /\ up \in Seq(Formed) /\ n \in 0..MaxCalls
      /\ rx.got \in Seq(Piece) /\ rx.total \in Sizes
      /\ out.len \in Sizes /\ out.sent \in Nat
      BY DEF TypeInv, ClientInv, EcuInv, WireInv
<1>2. ASSUME NEW f \in ToSet(up) PROVE f \in Formed /\ f.n \in Nat /\ f.k \in Nat
  <2>1. f \in Formed
        BY <1>1 DEF ToSet
  <2>2. QED
        BY <2>1, FormedIs
<1>3. ASSUME rx.got # <<>>
      PROVE  rx.got[1] \in Piece /\ rx.got[1].n \in Nat /\ Last(rx.got) \in Piece
  <2>1. Len(rx.got) \in 1..Len(rx.got) /\ 1 \in 1..Len(rx.got)
        BY <1>1, <1>3, EmptySeq
  <2>2. rx.got[1] \in Piece /\ rx.got[Len(rx.got)] \in Piece
        BY <1>1, <2>1
  <2>3. QED
        BY <2>2, PieceIs DEF Last
<1>4. QED
      BY <1>1, <1>2, <1>3, MaxLengthIs

(* A frame on its way up is lost or taken; nothing is received.              *)
LEMMA UpLose ==
  ASSUME TypeInv, UpOrder, UpWhole, NEW k, Without(up', up, k), up' \in Seq(Formed),
         "up" \in lost => "up" \in lost', up[k].type = "FF" => "up" \in lost',
         rx'.got = rx.got, rx'.total = rx.total, UNCHANGED <<n, cpc, out>>
  PROVE  UpOrder' /\ UpWhole'
<1>1. /\ ToSet(up') \subseteq ToSet(up) /\ ToSet(up) \subseteq ToSet(up') \cup {up[k]}
      /\ up \in Seq(Formed)
      BY UpTypes, SetWithout
<1>2. Sorted(up')
      BY <1>1, SortedWithout DEF UpOrder
<1>3. UpOrder'
      BY <1>1, <1>2 DEF UpOrder
<1>4. ASSUME "up" \notin lost', NEW m, NEW l, Opened(m, l) PROVE Opened(m, l)'
      BY <1>1, <1>4 DEF Opened, Receiving
<1>5. EachOpened /\ "up" \notin lost' => EachOpened'
      BY <1>1, <1>4 DEF EachOpened
<1>6. Behind => Behind'
      BY <1>1 DEF Behind
<1>7. Spaced(rx) => Spaced(rx')
      BY DEF Spaced
<1>8. Opened(n, out.len) /\ "up" \notin lost' => Opened(n, out.len)'
      BY <1>1 DEF Opened, Receiving
<1>9. UpWhole'
      BY <1>5, <1>6, <1>7, <1>8 DEF UpWhole
<1>10. QED
      BY <1>3, <1>9

(* The client sends a frame: the first of its request, the next of it, or a  *)
(* Flow Control.                                                             *)
LEMMA UpSend ==
  ASSUME TypeInv, UpOrder, UpWhole, NEW x \in Formed, up' = Append(up, x),
         UNCHANGED <<n, rx, lost>>, out'.len = out.len, out'.sent \in Nat,
         out.sent <= out'.sent, cpc' # "first",
         \/ x.type = "FC" /\ cpc' \notin {"flow", "block"}
         \/ /\ x = First(n, out.len) /\ cpc = "first"
            /\ cpc' \in {"flow", "block"} => x.type = "FF"
         \/ /\ x = Consecutive(n, out'.sent) /\ cpc = "block"
            /\ out.sent < out'.sent /\ out'.sent <= out.len
  PROVE  UpOrder' /\ UpWhole'
<1>1. /\ up \in Seq(Formed) /\ n \in Nat /\ out.len \in Nat /\ out.len \in Sizes
      /\ out.sent \in Nat
      /\ \A f \in ToSet(up) : f.n \in Nat /\ f.k \in Nat
      /\ rx.got # <<>> => rx.got[1].n \in Nat /\ Last(rx.got) \in Piece /\ Last(rx.got).k \in Nat
      BY UpTypes, PieceIs
<1>2. /\ up' \in Seq(Formed) /\ Longer(up', up, x) /\ ToSet(up') = ToSet(up) \cup {x}
      BY <1>1, AppendIs, SetAppend
<1>3. Carries(x) => x.n = n /\ x.k \in Nat /\ x.k <= out'.sent /\ cpc \in {"first", "block"}
      BY FramesAre DEF Carries
<1>4. ASSUME NEW f \in ToSet(up), Carries(f), Carries(x) PROVE Before(f, x)
  <2>1. f.n <= n /\ (cpc = "first" => f.n < n) /\ (f.n = n => f.k <= out.sent)
        BY <1>4 DEF UpOrder
  <2>2. x.n = n /\ (cpc = "first" \/ out.sent < x.k)
        BY <1>3, <1>4, FramesAre DEF Carries
  <2>3. f.n \in Nat /\ f.k \in Nat /\ x.k \in Nat /\ n \in Nat /\ out.sent \in Nat
        BY <1>1, <1>3, <1>4
  <2>4. f.n < x.n \/ (f.n = x.n /\ f.k < x.k)
        BY <2>1, <2>2, <2>3
  <2>5. QED
        BY <2>4 DEF Before
<1>5. Sorted(up')
      BY <1>1, <1>2, <1>4, SortedLonger DEF UpOrder
<1>6. UpOrder'
  <2>1. ASSUME NEW f \in ToSet(up'), Carries(f)
        PROVE  /\ f.n <= n' /\ (cpc' = "first" => f.n < n')
               /\ f.n = n' => f.k <= out'.sent
               /\ Opens(f) /\ rx'.got # <<>> => rx'.got[1].n < f.n
    <3>1. CASE f \in ToSet(up)
          BY <1>1, <2>1, <3>1 DEF UpOrder
    <3>2. CASE f = x
      <4>1. Opens(x) => cpc = "first"
            BY FramesAre DEF Opens
      <4>2. QED
            BY <1>1, <1>3, <2>1, <3>2, <4>1 DEF UpOrder
    <3>3. QED
          BY <1>2, <2>1, <3>1, <3>2
  <2>2. QED
        BY <1>5, <2>1 DEF UpOrder
<1>7. ASSUME NEW m, NEW l, Opened(m, l) PROVE Opened(m, l)'
      BY <1>2, <1>7 DEF Opened, Receiving
<1>8. ASSUME "up" \notin lost PROVE EachOpened'
  <2>1. ASSUME NEW f \in ToSet(up'), f.type = "CF"
        PROVE  \E l \in Sizes : Opened(f.n, l)' /\ f.k <= l
    <3>1. CASE f \in ToSet(up)
          BY <1>7, <1>8, <2>1, <3>1 DEF UpWhole, EachOpened
    <3>2. CASE f = x
      <4>1. x = Consecutive(n, out'.sent) /\ cpc = "block" /\ out'.sent <= out.len
            BY <2>1, <3>2, FramesAre
      <4>2. Opened(n, out.len)
            BY <1>8, <4>1 DEF UpWhole
      <4>3. f.n = n /\ f.k <= out.len
            BY <3>2, <4>1, FramesAre
      <4>4. Opened(f.n, out.len)
            BY <4>2, <4>3
      <4>5. QED
            BY <1>1, <1>7, <4>3, <4>4
    <3>3. QED
          BY <1>2, <2>1, <3>1, <3>2
  <2>2. QED
        BY <2>1 DEF EachOpened
<1>9. ASSUME "up" \notin lost, rx.got # <<>> PROVE Behind'
  <2>1. Behind /\ Last(rx.got).n = rx.got[1].n
    <3>1. Len(rx.got) \in DOMAIN rx.got
          BY <1>9, UpTypes, EmptySeq
    <3>2. QED
          BY <1>9, <3>1 DEF UpWhole, Spaced, Last
  <2>2. rx.got[1].n = n => Last(rx.got).k <= out'.sent
        BY <1>1, <1>9, <2>1 DEF Behind
  <2>3. Carries(x) => Before(Last(rx.got), x)
    <3>1. rx.got[1].n <= n /\ (cpc = "first" => rx.got[1].n < n)
          BY <1>9 DEF UpOrder
    <3>2. rx.got[1].n = n => Last(rx.got).k <= out.sent
          BY <1>9, <2>1 DEF Behind
    <3>3. Carries(x) => x.n = n /\ (cpc = "first" \/ out.sent < x.k)
          BY <1>3, FramesAre DEF Carries
    <3>4. QED
          BY <1>1, <1>3, <1>9, <2>1, <3>1, <3>2, <3>3 DEF Before
  <2>4. QED
        BY <1>2, <1>9, <2>1, <2>2, <2>3 DEF Behind
<1>10. rx.got = <<>> => Behind'
      BY DEF Behind
<1>11. ASSUME "up" \notin lost, cpc' \in {"flow", "block"} PROVE Opened(n, out.len)'
  <2>1. CASE cpc = "first"
    <3>1. x.type = "FF" /\ x = First(n, out.len)
          BY <1>11, <2>1, FramesAre
    <3>2. x.type = "FF" /\ x.n = n /\ x.len = out.len /\ x \in ToSet(up')
          BY <1>2, <3>1, FramesAre
    <3>3. QED
          BY <3>2 DEF Opened
  <2>2. CASE cpc = "block"
    <3>1. Opened(n, out.len)
          BY <1>11, <2>2 DEF UpWhole
    <3>2. QED
          BY <1>2, <3>1 DEF Opened, Receiving
  <2>3. QED
        BY <1>11, <2>1, <2>2
<1>12. Spaced(rx) => Spaced(rx')
      BY DEF Spaced
<1>13. UpWhole'
      BY <1>8, <1>9, <1>10, <1>11, <1>12 DEF UpWhole
<1>14. QED
      BY <1>6, <1>13

(* Nothing happens on the way up.                                            *)
LEMMA UpStays ==
  ASSUME UpOrder, UpWhole, UNCHANGED <<n, out, up>>, rx'.got = rx.got, rx'.total = rx.total,
         "up" \in lost => "up" \in lost', cpc' = "first" => cpc = "first",
         cpc' \in {"flow", "block"} => cpc \in {"flow", "block"}
  PROVE  UpOrder' /\ UpWhole'
<1>1. UpOrder'
      BY DEF UpOrder
<1>2. EachOpened => EachOpened'
      BY DEF EachOpened, Opened, Receiving
<1>3. Behind => Behind'
      BY DEF Behind
<1>4. Spaced(rx) => Spaced(rx')
      BY DEF Spaced
<1>5. Opened(n, out.len) => Opened(n, out.len)'
      BY DEF Opened, Receiving
<1>6. UpWhole'
      BY <1>2, <1>3, <1>4, <1>5 DEF UpWhole
<1>7. QED
      BY <1>1, <1>6

LEMMA ServedStays ==
  ASSUME ServedWhole, UNCHANGED <<n, served>>, "up" \in lost => "up" \in lost',
         cpc' \in {"first", "flow", "block"} => cpc \in {"first", "flow", "block"},
         \A f \in ToSet(up') :
           Carries(f) => f \in ToSet(up) \/ (f.n = n /\ cpc \in {"first", "flow", "block"})
  PROVE  ServedWhole'
BY DEF ServedWhole, RequestWhole, ServedInOrder

LEMMA RequestsStay ==
  ASSUME RequestsInv, UNCHANGED <<n, out, up, served>>, rx'.got = rx.got, rx'.total = rx.total,
         "up" \in lost => "up" \in lost', cpc' = "first" => cpc = "first",
         cpc' \in {"flow", "block"} => cpc \in {"flow", "block"}
  PROVE  RequestsInv'
<1>1. UpOrder' /\ UpWhole'
      BY UpStays DEF RequestsInv
<1>2. ServedWhole'
      BY ServedStays DEF RequestsInv
<1>3. QED
      BY <1>1, <1>2 DEF RequestsInv

LEMMA RequestsLose ==
  ASSUME TypeInv, RequestsInv, NEW k, Without(up', up, k), up' \in Seq(Formed),
         "up" \in lost => "up" \in lost', up[k].type = "FF" => "up" \in lost',
         rx'.got = rx.got, rx'.total = rx.total, UNCHANGED <<n, cpc, out, served>>
  PROVE  RequestsInv'
<1>1. UpOrder' /\ UpWhole'
      BY UpLose DEF RequestsInv
<1>2. ToSet(up') \subseteq ToSet(up)
      BY UpTypes, SetWithout
<1>3. ServedWhole'
      BY <1>2, ServedStays DEF RequestsInv
<1>4. QED
      BY <1>1, <1>3 DEF RequestsInv

LEMMA RequestsCall == ASSUME TypeInv, RequestsInv, Call PROVE RequestsInv'
<1>1. n' = n + 1 /\ n \in Nat /\ cpc' = "first" /\ UNCHANGED <<up, rx, served, lost>>
      BY UpTypes DEF Call, ecu
<1>2. \A f \in ToSet(up) : Carries(f) => f.n <= n /\ f.n \in Nat
      BY UpTypes DEF RequestsInv, UpOrder
<1>3. rx.got # <<>> => rx.got[1].n <= n /\ rx.got[1].n \in Nat
      BY UpTypes DEF RequestsInv, UpOrder
<1>4. UpOrder'
  <2>1. \A f \in ToSet(up) : Carries(f) => f.n <= n + 1 /\ f.n < n + 1 /\ f.n # n + 1
        BY <1>1, <1>2
  <2>2. rx.got # <<>> => rx.got[1].n <= n + 1 /\ rx.got[1].n < n + 1
        BY <1>1, <1>3
  <2>3. QED
        BY <1>1, <2>1, <2>2 DEF RequestsInv, UpOrder
<1>5. EachOpened => EachOpened'
      BY <1>1 DEF EachOpened, Opened, Receiving
<1>6. Behind => Behind'
  <2>1. rx.got # <<>> => rx.got[1].n # n + 1
        BY <1>1, <1>3
  <2>2. QED
        BY <1>1, <2>1 DEF Behind
<1>7. Spaced(rx) => Spaced(rx')
      BY <1>1
<1>8. UpWhole'
      BY <1>1, <1>5, <1>6, <1>7 DEF RequestsInv, UpWhole
<1>9. ServedWhole'
  <2>1. RequestWhole => RequestWhole'
        BY <1>1 DEF RequestWhole
  <2>2. ServedInOrder => ServedInOrder'
        BY <1>1 DEF ServedInOrder
  <2>3. ASSUME NEW i \in DOMAIN served, served[i][1].n <= n
        PROVE  served[i][1].n <= n + 1 /\ served[i][1].n < n + 1
    <3>1. served[i] \in Seq(Piece) /\ served[i] # <<>>
          BY DEF TypeInv, EcuInv
    <3>2. served[i][1] \in Piece
          BY <3>1, EmptySeq
    <3>3. QED
          BY <1>1, <2>3, <3>2, PieceIs
  <2>4. QED
        BY <1>1, <2>1, <2>2, <2>3 DEF RequestsInv, ServedWhole
<1>10. QED
      BY <1>4, <1>8, <1>9 DEF RequestsInv

LEMMA RequestsSend ==
  ASSUME TypeInv, RequestsInv, SendFirst \/ SendBlock \/ SendFlow PROVE RequestsInv'
<1>1. n \in 1..MaxCalls /\ out.len \in Nat /\ out.sent \in Nat /\ up \in Seq(Formed)
      BY UpTypes, IsoTpAssumption DEF SendFirst, SendBlock, SendFlow, TypeInv, ClientInv
<1>2. UNCHANGED <<n, rx, served, lost>> /\ cpc' # "first"
      BY DEF SendFirst, SendBlock, SendFlow, ecu
<1>3. UpOrder /\ UpWhole /\ ServedWhole
      BY DEF RequestsInv
<1>4. CASE SendFirst
  <2> DEFINE x == First(n, out.len)
  <2>1. /\ up' = Append(up, x) /\ cpc = "first" /\ out' = out
        /\ cpc' = IF out.len = 0 THEN "answer" ELSE "flow"
        BY <1>4 DEF SendFirst
  <2>2. x \in Formed /\ x.n = n /\ (out.len # 0 => x.type = "FF")
    <3>1. x \in Formed
          BY <1>1, UpTypes, FramesFormed DEF Sizes
    <3>2. QED
          BY <3>1, FramesAre
  <2>3. cpc' \in {"flow", "block"} => x.type = "FF"
        BY <2>1, <2>2
  <2> HIDE DEF x
  <2>4. UpOrder' /\ UpWhole'
    <3>1. x = First(n, out.len)
          BY DEF x
    <3>2. QED
          BY <1>1, <1>2, <1>3, <2>1, <2>2, <2>3, <3>1, UpSend
  <2>5. ToSet(up') = ToSet(up) \cup {x}
        BY <1>1, <2>1, <2>2, SetAppend
  <2>6. ServedWhole'
        BY <1>2, <1>3, <2>1, <2>2, <2>5, ServedStays
  <2>7. QED
        BY <2>4, <2>6 DEF RequestsInv
<1>5. CASE SendBlock
  <2> DEFINE x == Consecutive(n, out.sent + 1)
  <2>1. /\ up' = Append(up, x) /\ cpc = "block" /\ out' = [out EXCEPT !.sent = @ + 1]
        /\ cpc' \in {"answer", "block"} /\ out.sent < out.len /\ out \in [len : Sizes, sent : Nat]
        BY <1>5 DEF SendBlock, TypeInv, ClientInv
  <2>2. /\ out'.len = out.len /\ out'.sent = out.sent + 1 /\ out'.sent \in Nat
        /\ out.sent < out'.sent /\ out.sent <= out'.sent /\ out'.sent <= out.len
        BY <1>1, <2>1
  <2>3. x \in Formed /\ x.n = n
    <3>1. out.sent + 1 \in 1..MaxLength
          BY <1>1, <2>1, MaxLengthIs
    <3>2. QED
          BY <1>1, <3>1, FramesFormed, FramesAre
  <2>4. x = Consecutive(n, out'.sent)
        BY <2>2
  <2> HIDE DEF x
  <2>5. UpOrder' /\ UpWhole'
        BY <1>1, <1>2, <1>3, <2>1, <2>2, <2>3, <2>4, UpSend
  <2>6. ToSet(up') = ToSet(up) \cup {x}
        BY <1>1, <2>1, <2>3, SetAppend
  <2>7. ServedWhole'
        BY <1>2, <1>3, <2>1, <2>3, <2>6, ServedStays
  <2>8. QED
        BY <2>5, <2>7 DEF RequestsInv
<1>6. CASE SendFlow
  <2> DEFINE x == FlowControl(Head(parts.got).n)
  <2>1. /\ up' = Append(up, x) /\ cpc' = "collect" /\ out' = out
        BY <1>6 DEF SendFlow
  <2>2. x \in Formed /\ x.type = "FC" /\ ~Carries(x)
    <3>1. Head(parts.got) \in Piece
          BY <1>6 DEF SendFlow, TypeInv, ClientInv
    <3>2. QED
          BY <3>1, PieceIs, FramesFormed, FramesAre DEF Carries
  <2> HIDE DEF x
  <2>3. UpOrder' /\ UpWhole'
        BY <1>1, <1>2, <1>3, <2>1, <2>2, UpSend
  <2>4. ToSet(up') = ToSet(up) \cup {x}
        BY <1>1, <2>1, <2>2, SetAppend
  <2>5. ServedWhole'
        BY <1>2, <1>3, <2>1, <2>2, <2>4, ServedStays
  <2>6. QED
        BY <2>3, <2>5 DEF RequestsInv
<1>7. QED
      BY <1>4, <1>5, <1>6

(* No First Frame of a message is behind another frame of it: a frame at the *)
(* head whose message is open belongs to the reception.                      *)
LEMMA HeadReceived ==
  ASSUME TypeInv, UpOrder, up # <<>>, Carries(Head(up)), Head(up).type # "FF",
         NEW l, Opened(Head(up).n, l)
  PROVE  Receiving(Head(up).n) /\ rx.total = l /\ Head(up).type = "CF"
<1> DEFINE h == Head(up)
<1>1. /\ up \in Seq(Formed) /\ h \in Formed /\ h.n \in Nat /\ h.k \in Nat
      /\ h \in ToSet(up) /\ ToSet(up) \subseteq ToSet(Tail(up)) \cup {h}
      /\ ToSet(Tail(up)) \subseteq ToSet(up)
      BY UpTypes, HeadFormed, SetTail
<1>2. Carries(h) /\ h.type # "FF" /\ Opened(h.n, l)
      OBVIOUS
<1> HIDE DEF h
<1>3. ASSUME NEW f \in ToSet(up), f.type = "FF" PROVE f.n # h.n
  <2>1. f \in ToSet(Tail(up)) /\ Carries(f)
        BY <1>1, <1>2, <1>3 DEF Carries
  <2>2. Before(h, f)
        BY <1>1, <1>2, <2>1, HeadFirst DEF UpOrder, h
  <2>3. f \in Formed
        BY <1>3, UpTypes
  <2>4. f.k = 0 /\ f.n \in Nat
        BY <1>3, <2>3, FormedIs
  <2>5. QED
        BY <1>1, <2>2, <2>4 DEF Before
<1>4. Receiving(h.n) /\ rx.total = l
      BY <1>2, <1>3 DEF Opened
<1>5. h.type # "SF"
  <2>1. rx.got # <<>> /\ rx.got[1].n = h.n
        BY <1>4 DEF Receiving
  <2>2. Opens(h) => rx.got[1].n < h.n
        BY <1>1, <1>2, <2>1 DEF UpOrder
  <2>3. ~Opens(h)
        BY <1>1, <2>1, <2>2
  <2>4. QED
        BY <2>3 DEF Opens
<1>6. h.type = "CF"
      BY <1>1, <1>2, <1>5, FormedIs DEF Carries
<1>7. QED
      BY <1>4, <1>6 DEF h

(* What the ECU has to know of a request when it acts on it.                 *)
LEMMA RequestsServe ==
  ASSUME TypeInv, ServedWhole, NEW got \in Seq(Piece), got # <<>>, NEW m,
         served' = Append(served, got), UNCHANGED <<n, cpc, lost>>,
         ToSet(up') \subseteq ToSet(up),
         "up" \notin lost =>
           /\ Whole(got) /\ got[1].n = m
           /\ m <= n /\ (cpc \in {"first", "flow", "block"} => m < n)
           /\ \E f \in ToSet(up) : Carries(f) /\ f.n = m
           /\ \A f \in ToSet(up') : Carries(f) => m < f.n
  PROVE  ServedWhole'
<1>1. SUFFICES ASSUME "up" \notin lost
               PROVE  /\ RequestWhole' /\ ServedInOrder'
                      /\ \A i \in DOMAIN served' :
                           /\ served'[i][1].n <= n
                           /\ cpc \in {"first", "flow", "block"} => served'[i][1].n < n
                           /\ \A f \in ToSet(up') : Carries(f) => served'[i][1].n < f.n
      BY DEF ServedWhole
<1> DEFINE P == Seq(Piece) \ {<<>>}
<1>2. served \in Seq(P) /\ got \in P
      BY DEF TypeInv, EcuInv
<1> HIDE DEF P
<1>3. served' \in Seq(P) /\ Longer(served', served, got)
      BY <1>2, AppendIs
<1>4. /\ DOMAIN served' = 1..(Len(served) + 1) /\ DOMAIN served = 1..Len(served)
      /\ Len(served) \in Nat
      BY <1>2, <1>3 DEF Longer
<1>5. \A i \in DOMAIN served' : (i \in DOMAIN served /\ served'[i] = served[i])
                                \/ (i = Len(served) + 1 /\ served'[i] = got)
      BY <1>3, <1>4 DEF Longer
<1>6. \A i \in DOMAIN served : served[i][1].n < m
      BY <1>1 DEF ServedWhole
<1>7. RequestWhole'
      BY <1>1, <1>5 DEF ServedWhole, RequestWhole
<1>8. ASSUME NEW i \in DOMAIN served', NEW j \in DOMAIN served', i < j
      PROVE  served'[i][1].n < served'[j][1].n
  <2>1. i \in DOMAIN served /\ served'[i] = served[i]
        BY <1>4, <1>5, <1>8
  <2>2. CASE j \in DOMAIN served /\ served'[j] = served[j]
        BY <1>1, <1>8, <2>1, <2>2 DEF ServedWhole, ServedInOrder
  <2>3. CASE served'[j] = got
        BY <1>1, <1>6, <2>1, <2>3
  <2>4. QED
        BY <1>5, <2>2, <2>3
<1>9. ServedInOrder'
      BY <1>8 DEF ServedInOrder
<1>10. ASSUME NEW i \in DOMAIN served'
       PROVE  /\ served'[i][1].n <= n
              /\ cpc \in {"first", "flow", "block"} => served'[i][1].n < n
              /\ \A f \in ToSet(up') : Carries(f) => served'[i][1].n < f.n
  <2>1. CASE i \in DOMAIN served /\ served'[i] = served[i]
        BY <1>1, <2>1 DEF ServedWhole
  <2>2. CASE served'[i] = got
        BY <1>1, <2>2
  <2>3. QED
        BY <1>5, <2>1, <2>2
<1>11. QED
      BY <1>7, <1>9, <1>10

LEMMA RequestsSingle == ASSUME TypeInv, RequestsInv, TakeSingle PROVE RequestsInv'
<1> DEFINE h == Head(up)
           got == <<Data(h)>>
<1>1. /\ up # <<>> /\ up' = Tail(up) /\ h.type = "SF" /\ served' = Append(served, got)
      /\ UNCHANGED <<n, cpc, out, rx, lost>>
      BY DEF TakeSingle, Serve, client
<1>2. UpOrder /\ UpWhole /\ ServedWhole
      BY DEF RequestsInv
<1>3. /\ up \in Seq(Formed) /\ h \in Formed /\ h.n \in Nat /\ h.k = 0 /\ n \in Nat
      /\ Data(h) \in Piece /\ Data(h).n = h.n /\ Data(h).k = h.k
      /\ h \in ToSet(up) /\ ToSet(up') \subseteq ToSet(up) /\ Carries(h)
      BY <1>1, UpTypes, HeadFormed, SetTail, FormedIs DEF Carries
<1>4. up' \in Seq(Formed) /\ Without(up', up, 1) /\ up[1] = h
      BY <1>1, <1>3, TailIs
<1>5. got \in Seq(Piece) /\ got # <<>> /\ got[1].n = h.n /\ Whole(got)
  <2>1. Data(h) = [n |-> Data(h).n, k |-> Data(h).k]
        BY <1>3, PieceIs
  <2>2. got \in Seq(Piece) /\ got # <<>> /\ got[1] = Data(h) /\ DOMAIN got = {1}
        BY <1>3
  <2>3. QED
        BY <1>3, <2>1, <2>2 DEF Whole
<1>6. UpOrder' /\ UpWhole'
      BY <1>1, <1>2, <1>4, UpLose
<1>7. ASSUME NEW l PROVE ~Opened(h.n, l)
      BY <1>1, <1>2, <1>3, HeadReceived
<1>8. h.n <= n /\ (cpc = "first" => h.n < n)
      BY <1>2, <1>3 DEF UpOrder
<1>9. "up" \notin lost /\ cpc \in {"flow", "block"} => h.n # n
      BY <1>2, <1>7 DEF UpWhole
<1> HIDE DEF h
<1>10. ASSUME "up" \notin lost, NEW f \in ToSet(up'), Carries(f) PROVE h.n < f.n
  <2>1. Before(h, f)
        BY <1>1, <1>2, <1>3, <1>10, HeadFirst DEF UpOrder, h
  <2>2. f \in Formed /\ f.n \in Nat /\ f \in ToSet(up)
        BY <1>3, <1>10, UpTypes
  <2>3. f.n = h.n => f.type = "CF"
        BY <1>3, <1>10, <2>1, <2>2, FormedIs DEF Before, Carries
  <2>4. f.n # h.n
        BY <1>2, <1>7, <1>10, <2>2, <2>3 DEF UpWhole, EachOpened
  <2>5. QED
        BY <2>1, <2>4 DEF Before
<1>11. ServedWhole'
  <2>1. "up" \notin lost => (cpc \in {"first", "flow", "block"} => h.n < n)
        BY <1>3, <1>8, <1>9
  <2> HIDE DEF got
  <2>2. QED
        BY <1>1, <1>2, <1>3, <1>5, <1>8, <1>10, <2>1, RequestsServe
<1>12. QED
      BY <1>6, <1>11 DEF RequestsInv

LEMMA RequestsFirst == ASSUME TypeInv, RequestsInv, TakeFirst PROVE RequestsInv'
<1> DEFINE h == Head(up)
<1>1. /\ up # <<>> /\ up' = Tail(up) /\ h.type = "FF"
      /\ rx' = [active |-> TRUE, total |-> h.len, got |-> <<Data(h)>>]
      /\ UNCHANGED <<n, cpc, out, served, lost>>
      BY DEF TakeFirst, client
<1>2. UpOrder /\ UpWhole /\ ServedWhole
      BY DEF RequestsInv
<1>3. /\ up \in Seq(Formed) /\ h \in Formed /\ h.n \in Nat /\ h.k = 0 /\ n \in Nat
      /\ h.len \in Nat /\ out.sent \in Nat
      /\ Data(h) \in Piece /\ Data(h).n = h.n /\ Data(h).k = 0
      /\ h \in ToSet(up) /\ ToSet(up') \subseteq ToSet(up)
      /\ ToSet(up) \subseteq ToSet(up') \cup {h} /\ Carries(h) /\ Opens(h)
      BY <1>1, UpTypes, HeadFormed, SetTail, FormedIs DEF Carries, Opens
<1>4. up' \in Seq(Formed) /\ Without(up', up, 1)
      BY <1>1, <1>3, TailIs
<1>5. /\ rx'.total = h.len /\ rx'.got = <<Data(h)>> /\ rx'.got # <<>>
      /\ rx'.got[1].n = h.n /\ Last(rx'.got) = Data(h) /\ Len(rx'.got) = 1
      BY <1>1, <1>3 DEF Last
<1>6. h.n <= n /\ (cpc = "first" => h.n < n) /\ (rx.got # <<>> => rx.got[1].n < h.n)
      BY <1>2, <1>3 DEF UpOrder
<1>7. ASSUME NEW f \in ToSet(up'), Carries(f)
      PROVE  /\ Before(h, f) /\ f.n \in Nat /\ f.k \in Nat /\ f \in ToSet(up)
             /\ h.n <= f.n /\ (Opens(f) => h.n < f.n)
  <2>1. Before(h, f)
        BY <1>1, <1>2, <1>3, <1>7, HeadFirst DEF UpOrder
  <2>2. f \in Formed /\ f.n \in Nat /\ f.k \in Nat /\ f \in ToSet(up)
        BY <1>3, <1>7, UpTypes
  <2>3. Opens(f) => f.k = 0
        BY <2>2, FormedIs DEF Opens
  <2>4. QED
        BY <1>3, <2>1, <2>2, <2>3 DEF Before
<1> HIDE DEF h
<1>8. UpOrder'
  <2>1. Sorted(up')
        BY <1>2, <1>3, <1>4, SortedWithout DEF UpOrder
  <2>2. QED
        BY <1>1, <1>2, <1>3, <1>5, <1>6, <1>7, <2>1 DEF UpOrder
<1>9. ASSUME NEW m, NEW l, Opened(m, l), m \in Nat, m >= h.n PROVE Opened(m, l)'
  <2>1. CASE Receiving(m) /\ rx.total = l
        BY <1>3, <1>6, <1>9, <2>1, UpTypes DEF Receiving
  <2>2. ASSUME NEW f \in ToSet(up), f.type = "FF", f.n = m, f.len = l PROVE Opened(m, l)'
    <3>1. CASE f \in ToSet(up')
          BY <2>2, <3>1 DEF Opened
    <3>2. CASE f = h
          BY <1>5, <2>2, <3>2 DEF Opened, Receiving
    <3>3. QED
          BY <1>3, <2>2, <3>1, <3>2
  <2>3. QED
        BY <1>9, <2>1, <2>2 DEF Opened
<1>10. ASSUME "up" \notin lost PROVE EachOpened'
  <2>1. ASSUME NEW f \in ToSet(up'), f.type = "CF"
        PROVE  \E l \in Sizes : Opened(f.n, l)' /\ f.k <= l
    <3>1. Carries(f)
          BY <2>1 DEF Carries
    <3>2. f.n >= h.n /\ f.n \in Nat /\ f \in ToSet(up)
          BY <1>3, <1>7, <2>1, <3>1
    <3>3. PICK l \in Sizes : Opened(f.n, l) /\ f.k <= l
          BY <1>2, <1>10, <2>1, <3>2 DEF UpWhole, EachOpened
    <3>4. QED
          BY <1>9, <3>2, <3>3
  <2>2. QED
        BY <2>1 DEF EachOpened
<1>11. Behind'
  <2>1. Last(rx'.got).k <= out'.sent
        BY <1>1, <1>3, <1>5
  <2>2. \A f \in ToSet(up') : Carries(f) => Before(Last(rx'.got), f)
        BY <1>3, <1>5, <1>7 DEF Before
  <2>3. QED
        BY <2>1, <2>2 DEF Behind
<1>12. Spaced(rx')
  <2>1. DOMAIN rx'.got = {1}
        BY <1>1
  <2>2. QED
        BY <1>3, <1>5, <2>1 DEF Spaced
<1>13. ASSUME "up" \notin lost, cpc \in {"flow", "block"} PROVE Opened(n, out.len)'
  <2>1. Opened(n, out.len)
        BY <1>2, <1>13 DEF UpWhole
  <2>2. ~Receiving(n)
        BY <1>3, <1>6, UpTypes DEF Receiving
  <2>3. PICK f \in ToSet(up) : f.type = "FF" /\ f.n = n /\ f.len = out.len
        BY <2>1, <2>2 DEF Opened
  <2>4. CASE f \in ToSet(up')
        BY <1>1, <2>3, <2>4 DEF Opened
  <2>5. CASE f = h
        BY <1>1, <1>5, <2>3, <2>5 DEF Opened, Receiving
  <2>6. QED
        BY <1>3, <2>3, <2>4, <2>5
<1>14. UpWhole'
      BY <1>1, <1>2, <1>10, <1>11, <1>12, <1>13 DEF UpWhole
<1>15. ServedWhole'
      BY <1>1, <1>2, <1>3, ServedStays
<1>16. QED
      BY <1>8, <1>14, <1>15 DEF RequestsInv

LEMMA RequestsConsecutive == ASSUME TypeInv, RequestsInv, TakeConsecutive PROVE RequestsInv'
<1> DEFINE h == Head(up)
           got == Append(rx.got, Data(h))
<1>1. /\ up # <<>> /\ up' = Tail(up) /\ h.type = "CF" /\ rx.active
      /\ UNCHANGED <<n, cpc, out, lost>>
      /\ \/ /\ Len(got) = rx.total + 1 /\ served' = Append(served, got)
            /\ rx' = [rx EXCEPT !.got = got, !.active = FALSE]
         \/ rx' = [rx EXCEPT !.got = got] /\ served' = served
      BY DEF TakeConsecutive, Serve, client
<1>2. UpOrder /\ UpWhole /\ ServedWhole
      BY DEF RequestsInv
<1>3. /\ up \in Seq(Formed) /\ h \in Formed /\ h.n \in Nat /\ h.k \in Nat \ {0} /\ n \in Nat
      /\ out.sent \in Nat /\ out.len \in Nat
      /\ Data(h) \in Piece /\ Data(h).n = h.n /\ Data(h).k = h.k
      /\ h \in ToSet(up) /\ ToSet(up') \subseteq ToSet(up)
      /\ ToSet(up) \subseteq ToSet(up') \cup {h} /\ Carries(h)
      BY <1>1, UpTypes, HeadFormed, SetTail, FormedIs DEF Carries
<1>4. up' \in Seq(Formed) /\ Without(up', up, 1)
      BY <1>1, <1>3, TailIs
<1>5. /\ rx \in [active : BOOLEAN, total : Sizes, got : Seq(Piece)] /\ rx.got # <<>>
      /\ rx.total \in Nat /\ rx.got[1].n \in Nat /\ Last(rx.got) \in Piece
      /\ Last(rx.got).k \in Nat /\ Len(rx.got) \in Nat \ {0}
  <2>1. rx \in [active : BOOLEAN, total : Sizes, got : Seq(Piece)] /\ Len(rx.got) \in 1..rx.total
        BY <1>1 DEF TypeInv, EcuInv
  <2>2. rx.got # <<>> /\ Len(rx.got) \in Nat \ {0} /\ rx.total \in Nat
        BY <2>1, EmptySeq, UpTypes
  <2>3. QED
        BY <2>1, <2>2, UpTypes, PieceIs
<1>6. /\ got \in Seq(Piece) /\ got # <<>> /\ Longer(got, rx.got, Data(h))
      /\ Last(got) = Data(h) /\ got[1] = rx.got[1] /\ Len(got) = Len(rx.got) + 1
  <2>1. got \in Seq(Piece) /\ got # <<>> /\ Longer(got, rx.got, Data(h))
        BY <1>3, <1>5, PiecesGrow
  <2>2. QED
        BY <1>5, <2>1 DEF Longer, Last
<1> HIDE DEF h, got
<1>7. rx'.got = got /\ rx'.total = rx.total
      BY <1>1, <1>5
<1>8. /\ h.n <= n /\ (cpc = "first" => h.n < n) /\ (h.n = n => h.k <= out.sent)
      BY <1>2, <1>3 DEF UpOrder
<1>9. ASSUME NEW f \in ToSet(up'), Carries(f)
      PROVE  Before(h, f) /\ f \in Formed /\ f \in ToSet(up)
  <2>1. Before(h, f)
        BY <1>1, <1>2, <1>3, <1>9, HeadFirst DEF UpOrder, h
  <2>2. QED
        BY <1>3, <1>9, <2>1, UpTypes
<1>10. UpOrder'
  <2>1. Sorted(up')
        BY <1>2, <1>3, <1>4, SortedWithout DEF UpOrder
  <2>2. QED
        BY <1>1, <1>2, <1>3, <1>5, <1>6, <1>7, <2>1 DEF UpOrder
<1>11. ASSUME NEW l, Opened(h.n, l) PROVE rx.got[1].n = h.n /\ rx.total = l
  <2>1. Head(up).type # "FF" /\ Opened(Head(up).n, l) /\ Carries(Head(up))
        BY <1>1, <1>3, <1>11 DEF h
  <2>2. QED
        BY <1>1, <1>2, <2>1, HeadReceived DEF Receiving, h
(* What holds of a reception when no First Frame was lost.                   *)
<1>12. ASSUME "up" \notin lost
       PROVE  /\ rx.got[1].n = h.n /\ h.k <= rx.total /\ Last(rx.got).k < h.k
              /\ Spaced(rx')
  <2>1. PICK l \in Sizes : Opened(h.n, l) /\ h.k <= l
        BY <1>1, <1>2, <1>3, <1>12 DEF UpWhole, EachOpened, h
  <2>2. rx.got[1].n = h.n /\ h.k <= rx.total
        BY <1>11, <2>1
  <2>3. Spaced(rx) /\ Before(Last(rx.got), h)
        BY <1>2, <1>3, <1>5, <1>12 DEF UpWhole, Behind
  <2>4. Last(rx.got).n = rx.got[1].n
    <3>1. Len(rx.got) \in DOMAIN rx.got
          BY <1>5
    <3>2. QED
          BY <1>5, <2>3, <3>1 DEF Spaced, Last
  <2>5. Last(rx.got).k < h.k
        BY <1>3, <2>2, <2>3, <2>4 DEF Before
  <2>6. Spaced(rx')
    <3>1. rx'.got \in Seq(Piece) /\ Longer(rx'.got, rx.got, Data(h)) /\ rx.got \in Seq(Piece)
          BY <1>5, <1>6, <1>7
    <3>2. QED
          BY <1>3, <1>5, <1>7, <2>2, <2>3, <2>5, <3>1, SpacedGrows
  <2>7. QED
        BY <2>2, <2>5, <2>6
<1>13. ASSUME NEW m, NEW l, Opened(m, l) PROVE Opened(m, l)'
      BY <1>1, <1>3, <1>5, <1>6, <1>7, <1>13 DEF Opened, Receiving
<1>14. EachOpened => EachOpened'
      BY <1>3, <1>13 DEF EachOpened
<1>15. ASSUME "up" \notin lost PROVE Behind'
  <2>1. rx'.got[1].n = n' => Last(rx'.got).k <= out'.sent
        BY <1>1, <1>3, <1>6, <1>7, <1>8, <1>12, <1>15
  <2>2. \A f \in ToSet(up') : Carries(f) => Before(Last(rx'.got), f)
        BY <1>3, <1>6, <1>7, <1>9 DEF Before
  <2>3. QED
        BY <2>1, <2>2 DEF Behind
<1>16. Opened(n, out.len) => Opened(n, out.len)'
      BY <1>1, <1>3, <1>5, <1>6, <1>7 DEF Opened, Receiving
<1>17. UpWhole'
      BY <1>1, <1>2, <1>12, <1>14, <1>15, <1>16 DEF UpWhole
(* The last piece has arrived: nothing of the message is left.               *)
<1>18. ASSUME "up" \notin lost, Len(got) = rx.total + 1
       PROVE  /\ Whole(got) /\ h.k = rx.total
              /\ cpc \in {"first", "flow", "block"} => h.n < n
              /\ \A f \in ToSet(up') : Carries(f) => h.n < f.n
  <2>1. Whole(got) /\ h.k = rx.total
    <3>1. rx'.got \in Seq(Piece) /\ rx'.total \in Nat /\ Len(rx'.got) = rx'.total + 1 /\ Spaced(rx')
          BY <1>5, <1>6, <1>7, <1>12, <1>18
    <3>2. Whole(rx'.got) /\ Last(rx'.got).k = rx'.total
          BY <3>1, SpacedWhole
    <3>3. QED
          BY <1>3, <1>6, <1>7, <3>2
  <2>2. cpc \in {"flow", "block"} => h.n # n
    <3>1. SUFFICES ASSUME cpc \in {"flow", "block"}, h.n = n PROVE FALSE
          OBVIOUS
    <3>2. Opened(h.n, out.len)
          BY <1>2, <1>18, <3>1 DEF UpWhole
    <3>3. out.len = rx.total /\ h.k <= out.sent
          BY <1>8, <1>11, <3>1, <3>2
    <3>4. out.sent < out.len
      <4>1. cpc = "flow" \/ cpc = "block"
            BY <3>1
      <4>2. cpc = "flow" => out.sent = 0 /\ out.len > 0
            BY DEF TypeInv, ClientInv
      <4>3. cpc = "block" => out.sent < out.len
            BY DEF TypeInv, ClientInv
      <4>4. QED
            BY <4>1, <4>2, <4>3
    <3>5. QED
          BY <1>3, <2>1, <3>3, <3>4
  <2>3. ASSUME NEW f \in ToSet(up'), Carries(f) PROVE h.n < f.n
    <3>1. Before(h, f) /\ f \in Formed /\ f \in ToSet(up) /\ f.n \in Nat /\ f.k \in Nat
          BY <1>9, <2>3, UpTypes
    <3>2. f.n = h.n => f.type = "CF" /\ h.k < f.k
          BY <1>3, <2>3, <3>1, FormedIs DEF Before, Carries
    <3>3. f.n # h.n
      <4>1. SUFFICES ASSUME f.n = h.n PROVE FALSE
            OBVIOUS
      <4>2. PICK l \in Sizes : Opened(f.n, l) /\ f.k <= l
            BY <1>2, <1>18, <3>1, <3>2, <4>1 DEF UpWhole, EachOpened
      <4>3. l = rx.total
            BY <1>11, <4>1, <4>2
      <4>4. QED
            BY <1>3, <1>5, <2>1, <3>1, <3>2, <4>1, <4>2, <4>3
    <3>4. QED
          BY <1>3, <3>1, <3>3 DEF Before
  <2>4. QED
        BY <1>3, <1>8, <2>1, <2>2, <2>3
<1>19. CASE Len(got) = rx.total + 1 /\ served' = Append(served, got)
  <2>1. "up" \notin lost => got[1].n = h.n
        BY <1>6, <1>12
  <2>2. ServedWhole'
        BY <1>1, <1>2, <1>3, <1>6, <1>8, <1>18, <1>19, <2>1, RequestsServe
  <2>3. QED
        BY <1>10, <1>17, <2>2 DEF RequestsInv
<1>20. CASE served' = served
  <2>1. ServedWhole'
        BY <1>1, <1>2, <1>3, <1>20, ServedStays
  <2>2. QED
        BY <1>10, <1>17, <2>1 DEF RequestsInv
<1>21. QED
      BY <1>1, <1>19, <1>20

(* A First Frame that is lost is noted.                                      *)
LEMMA RequestsLost ==
  ASSUME TypeInv, RequestsInv, Lose \/ EcuAwaitFlow \/ TakeOther PROVE RequestsInv'
<1>1. up \in Seq(Formed)
      BY UpTypes
<1>2. CASE Lose
  <2>1. /\ UNCHANGED <<n, cpc, out, rx, served>>
        BY <1>2 DEF Lose, client, ecu
  <2>2. CASE UNCHANGED up /\ ("up" \in lost => "up" \in lost')
        BY <2>1, <2>2, RequestsStay
  <2>3. ASSUME NEW i \in DOMAIN up, up' = RemoveAt(up, i),
               lost' = lost \cup LostFirst("up", up[i])
        PROVE  RequestsInv'
    <3>1. i \in 1..Len(up)
          BY <1>1
    <3>2. up' \in Seq(Formed) /\ Without(up', up, i)
          BY <1>1, <2>3, <3>1, RemoveIs
    <3>3. ("up" \in lost => "up" \in lost') /\ (up[i].type = "FF" => "up" \in lost')
          BY <2>3 DEF LostFirst
    <3>4. QED
          BY <2>1, <3>2, <3>3, RequestsLose
  <2>4. CASE \E i \in DOMAIN down :
               /\ down' = RemoveAt(down, i)
               /\ lost' = lost \cup LostFirst("down", down[i])
               /\ UNCHANGED up
        BY <2>2, <2>4
  <2>5. QED
        BY <1>2, <2>3, <2>4 DEF Lose
<1>3. CASE EcuAwaitFlow \/ TakeOther
  <2>1. /\ up # <<>> /\ up' = Tail(up) /\ UNCHANGED <<n, cpc, out, served>>
        BY <1>3 DEF EcuAwaitFlow, TakeOther, client
  <2>2. up' \in Seq(Formed) /\ Without(up', up, 1) /\ Head(up) = up[1]
        BY <1>1, <2>1, TailIs
  <2>3. ("up" \in lost => "up" \in lost') /\ (up[1].type = "FF" => "up" \in lost')
        BY <1>3, <2>2 DEF EcuAwaitFlow, TakeOther, LostFirst
  <2>4. rx'.got = rx.got /\ rx'.total = rx.total
    <3>1. /\ rx \in [active : BOOLEAN, total : Sizes, got : Seq(Piece)]
          /\ rx' = rx \/ rx' = [rx EXCEPT !.active = @ /\ Head(up).type = "FC"]
          BY <1>3 DEF EcuAwaitFlow, TakeOther, TypeInv, EcuInv
    <3>2. QED
          BY <3>1
  <2>5. QED
        BY <2>1, <2>2, <2>3, <2>4, RequestsLose
<1>4. QED
      BY <1>2, <1>3

LEMMA RequestsElse ==
  ASSUME TypeInv, RequestsInv,
         GiveUp \/ AwaitFlow \/ BeginAnswer \/ Collect \/ Refuse \/ Deliver
           \/ EcuSendBlock \/ EcuGiveUp \/ UNCHANGED vars
  PROVE  RequestsInv'
<1>1. UNCHANGED <<n, out, up, rx, served>>
      BY DEF GiveUp, AwaitFlow, BeginAnswer, Collect, Refuse, Deliver, EcuSendBlock,
             EcuGiveUp, vars, client, ecu
<1>2. "up" \in lost => "up" \in lost'
      BY DEF GiveUp, AwaitFlow, BeginAnswer, Collect, Refuse, Deliver, EcuSendBlock,
             EcuGiveUp, vars
<1>3. /\ cpc' = "first" => cpc = "first"
      /\ cpc' \in {"flow", "block"} => cpc \in {"flow", "block"}
      BY DEF GiveUp, AwaitFlow, BeginAnswer, Collect, Refuse, Deliver, EcuSendBlock,
             EcuGiveUp, vars, client, Finish
<1>4. QED
      BY <1>1, <1>2, <1>3, RequestsStay

LEMMA InitRequests == Init => RequestsInv
<1> SUFFICES ASSUME Init PROVE RequestsInv
    OBVIOUS
<1>1. up = <<>> /\ rx.got = <<>> /\ served = <<>> /\ cpc = "idle" /\ ToSet(up) = {}
      BY SetEmpty DEF Init
<1>2. UpOrder
      BY <1>1 DEF UpOrder, Sorted
<1>3. UpWhole
      BY <1>1 DEF UpWhole, Spaced, EachOpened, Behind
<1>4. ServedWhole
      BY <1>1 DEF ServedWhole, RequestWhole, ServedInOrder
<1>5. QED
      BY <1>2, <1>3, <1>4 DEF RequestsInv

LEMMA NextRequests == ASSUME TypeInv, RequestsInv, [Next]_vars PROVE RequestsInv'
BY RequestsCall, RequestsSend, RequestsSingle, RequestsFirst, RequestsConsecutive,
   RequestsLost, RequestsElse DEF Next, Client, Ecu

-----------------------------------------------------------------------------
(* The way down: what the ECU has sent and the client not yet taken.         *)
Coming == ring \o down

(* Nothing that could still be answered has the number m.                    *)
Used(m) ==
  /\ m <= n /\ (cpc = "first" => m < n)
  /\ \A f \in ToSet(up) : Opens(f) => m < f.n
  /\ rx.active => rx.got[1].n # m

Answering == epc # "loop"
Assembling == cpc \in {"cts", "collect"}

(* Frames of one answer come in order and within its length.                 *)
Answers(s) ==
  \A i, j \in DOMAIN s :
    i < j /\ Carries(s[i]) /\ Carries(s[j]) /\ s[i].n = s[j].n
      => s[i].k < s[j].k /\ (s[i].type = "FF" => s[j].k <= s[i].len)

(* The way down, whatever was lost: what comes, is being answered or is put  *)
(* together has a number that is used up, so that no later answer has it.    *)
DownOrder ==
  /\ Answers(Coming)
  /\ \A f \in ToSet(Coming) : Carries(f) => Used(f.n)
  /\ Answering =>
       /\ Used(resp.n)
       /\ \A f \in ToSet(Coming) :
            Carries(f) /\ f.n = resp.n
              => f.k <= resp.sent /\ (f.type = "FF" => f.len = resp.len)
  /\ Assembling => Used(parts.got[1].n)

(* A Consecutive Frame follows a frame of its message, in the queue or out.  *)
Follows(f, m) == f.type \in {"FF", "CF"} /\ f.n = m

(* In a queue, nothing comes between the frames of an answer.                *)
Adjacent(s) ==
  \A i \in DOMAIN s : i > 1 /\ s[i].type = "CF" => Follows(s[i - 1], s[i].n)

(* What the client assembles goes on with what comes.                        *)
Gathers ==
  /\ Spaced(parts)
  /\ \A f \in ToSet(Coming) :
       Carries(f) /\ f.n = parts.got[1].n
         => Last(parts.got).k < f.k /\ f.k <= parts.total
  /\ Answering /\ resp.n = parts.got[1].n
       => Last(parts.got).k <= resp.sent /\ resp.len = parts.total
  /\ Coming # <<>> /\ Head(Coming).type = "CF" => Head(Coming).n = parts.got[1].n
  /\ Coming = <<>> /\ Answering => resp.n = parts.got[1].n

(* The ECU goes on with what it sent last.                                   *)
Connected == Answering /\ Coming # <<>> => Follows(Last(Coming), resp.n)

(* The way down while no First Frame is lost: what is put together is one    *)
(* answer.                                                                   *)
DownWhole ==
  "down" \notin lost =>
    Adjacent(Coming) /\ Connected /\ (Assembling => Gathers) /\ AnswerWhole

AnswersInv == DownOrder /\ DownWhole

LEMMA AnswersWithout ==
  ASSUME NEW s \in Seq(Formed), NEW t \in Seq(Formed), NEW k, Answers(s), Without(t, s, k)
  PROVE  Answers(t)
<1> DEFINE at(i) == IF i < k THEN i ELSE i + 1
<1>1. /\ k \in 1..Len(s) /\ Len(s) \in Nat /\ Len(t) = Len(s) - 1
      /\ DOMAIN s = 1..Len(s) /\ DOMAIN t = 1..Len(t)
      BY DEF Without
<1>2. \A i \in DOMAIN t : t[i] = s[at(i)]
      BY <1>1 DEF Without
<1>3. \A i, j \in DOMAIN t : at(i) \in DOMAIN s /\ (i < j => at(i) < at(j))
      BY <1>1
<1> HIDE DEF at
<1>4. ASSUME NEW i \in DOMAIN t, NEW j \in DOMAIN t, i < j, Carries(t[i]), Carries(t[j]),
             t[i].n = t[j].n
      PROVE  t[i].k < t[j].k /\ (t[i].type = "FF" => t[j].k <= t[i].len)
  <2>1. /\ at(i) \in DOMAIN s /\ at(j) \in DOMAIN s /\ at(i) < at(j)
        /\ t[i] = s[at(i)] /\ t[j] = s[at(j)]
        BY <1>2, <1>3, <1>4
  <2>2. QED
        BY <1>4, <2>1 DEF Answers
<1>5. QED
      BY <1>4 DEF Answers

LEMMA AnswersLonger ==
  ASSUME NEW s \in Seq(Formed), NEW t \in Seq(Formed), NEW x, Answers(s), Longer(t, s, x),
         \A f \in ToSet(s) :
           Carries(f) /\ Carries(x) /\ f.n = x.n
             => f.k < x.k /\ (f.type = "FF" => x.k <= f.len)
  PROVE  Answers(t)
<1>1. /\ Len(s) \in Nat /\ Len(t) = Len(s) + 1
      /\ DOMAIN s = 1..Len(s) /\ DOMAIN t = 1..Len(t)
      BY DEF Longer
<1>2. ASSUME NEW i \in DOMAIN t, NEW j \in DOMAIN t, i < j, Carries(t[i]), Carries(t[j]),
             t[i].n = t[j].n
      PROVE  t[i].k < t[j].k /\ (t[i].type = "FF" => t[j].k <= t[i].len)
  <2>1. i \in DOMAIN s /\ t[i] = s[i] /\ s[i] \in ToSet(s)
        BY <1>1, <1>2 DEF Longer, ToSet
  <2>2. CASE j = Len(t)
    <3>1. t[j] = x
          BY <2>2 DEF Longer
    <3>2. QED
          BY <1>2, <2>1, <3>1
  <2>3. CASE j # Len(t)
    <3>1. j \in DOMAIN s /\ t[j] = s[j]
          BY <1>1, <2>3 DEF Longer
    <3>2. QED
          BY <1>2, <2>1, <3>1 DEF Answers
  <2>4. QED
        BY <2>2, <2>3
<1>3. QED
      BY <1>2 DEF Answers

(* A frame of an answer may be taken from the queue if it is the first there *)
(* or no First Frame.                                                        *)
LEMMA AdjacentWithout ==
  ASSUME NEW s \in Seq(Formed), NEW t \in Seq(Formed), NEW k, Adjacent(s), Without(t, s, k),
         k = 1 \/ s[k].type # "FF"
  PROVE  Adjacent(t)
<1>1. /\ k \in 1..Len(s) /\ Len(s) \in Nat /\ Len(t) = Len(s) - 1
      /\ DOMAIN s = 1..Len(s) /\ DOMAIN t = 1..Len(t)
      /\ \A i \in DOMAIN t : t[i] = s[IF i < k THEN i ELSE i + 1]
      BY DEF Without
<1>2. ASSUME NEW i \in DOMAIN t, i > 1, t[i].type = "CF" PROVE Follows(t[i - 1], t[i].n)
  <2>1. i \in 1..(Len(s) - 1) /\ i - 1 \in DOMAIN t /\ i \in DOMAIN s /\ i - 1 \in DOMAIN s
        /\ i + 1 \in DOMAIN s /\ i + 1 > 1 /\ (i + 1) - 1 = i /\ i - 1 + 1 = i
        BY <1>1, <1>2
  <2>2. CASE i < k
    <3>1. i - 1 < k
          BY <1>1, <2>1, <2>2
    <3>2. t[i] = s[i] /\ t[i - 1] = s[i - 1]
          BY <1>1, <2>1, <2>2, <3>1
    <3>3. QED
          BY <1>2, <2>1, <3>2 DEF Adjacent
  <2>3. CASE i > k
    <3>1. ~(i < k) /\ ~(i - 1 < k)
          BY <1>1, <2>1, <2>3
    <3>2. t[i] = s[i + 1] /\ t[i - 1] = s[i]
          BY <1>1, <2>1, <3>1
    <3>3. Follows(s[(i + 1) - 1], s[i + 1].n)
          BY <1>2, <2>1, <3>2 DEF Adjacent
    <3>4. QED
          BY <2>1, <3>2, <3>3
  <2>4. CASE i = k
    <3>1. ~(i < k) /\ i - 1 < k
          BY <1>1, <2>1, <2>4
    <3>2. t[i] = s[i + 1] /\ t[i - 1] = s[i - 1]
          BY <1>1, <2>1, <3>1
    <3>3. Follows(s[(i + 1) - 1], s[i + 1].n)
          BY <1>2, <2>1, <3>2 DEF Adjacent
    <3>4. s[i].type = "CF" /\ s[i].n = s[i + 1].n
          BY <1>2, <2>1, <2>4, <3>3 DEF Follows
    <3>5. Follows(s[i - 1], s[i].n)
          BY <1>2, <2>1, <3>4 DEF Adjacent
    <3>6. QED
          BY <3>2, <3>4, <3>5
  <2>5. QED
        BY <1>1, <2>1, <2>2, <2>3, <2>4
<1>3. QED
      BY <1>2 DEF Adjacent

(* The frame after one that was taken belongs to the same message.           *)
LEMMA NextFollows ==
  ASSUME NEW s \in Seq(Formed), NEW t \in Seq(Formed), NEW k, Adjacent(s), Without(t, s, k),
         t # <<>>
  PROVE  /\ Head(t) = IF k = 1 THEN s[2] ELSE s[1]
         /\ k = 1 /\ Head(t).type = "CF" => Follows(s[1], Head(t).n)
         /\ Last(t) = IF k = Len(s) THEN s[k - 1] ELSE Last(s)
         /\ k = Len(s) /\ s[k].type = "CF" => Follows(Last(t), s[k].n)
<1>1. /\ k \in 1..Len(s) /\ Len(s) \in Nat /\ Len(t) = Len(s) - 1 /\ Len(t) \in Nat \ {0}
      /\ DOMAIN s = 1..Len(s) /\ DOMAIN t = 1..Len(t) /\ Head(t) = t[1]
      /\ \A i \in DOMAIN t : t[i] = s[IF i < k THEN i ELSE i + 1]
  <2>1. Head(t) = t[1] /\ Len(t) \in Nat \ {0} /\ Len(s) \in Nat
        BY TailIs
  <2>2. DOMAIN s = 1..Len(s) /\ DOMAIN t = 1..Len(t)
        BY LenProperties
  <2>3. QED
        BY <2>1, <2>2 DEF Without
<1>2. 1 \in DOMAIN t /\ Len(t) \in DOMAIN t /\ 2 \in DOMAIN s /\ Len(t) + 1 = Len(s)
      BY <1>1
<1>3. Head(t) = IF k = 1 THEN s[2] ELSE s[1]
      BY <1>1, <1>2
<1>4. Last(t) = IF k = Len(s) THEN s[k - 1] ELSE Last(s)
  <2>1. CASE k = Len(s)
    <3>1. Len(t) < k /\ Len(t) = k - 1
          BY <1>1, <2>1
    <3>2. t[Len(t)] = s[k - 1]
          BY <1>1, <1>2, <3>1
    <3>3. QED
          BY <2>1, <3>2 DEF Last
  <2>2. CASE k # Len(s)
    <3>1. ~(Len(t) < k)
          BY <1>1, <2>2
    <3>2. t[Len(t)] = s[Len(s)]
          BY <1>1, <1>2, <3>1
    <3>3. QED
          BY <2>2, <3>2 DEF Last
  <2>3. QED
        BY <2>1, <2>2
<1>5. ASSUME k = 1, Head(t).type = "CF" PROVE Follows(s[1], Head(t).n)
  <2>1. Head(t) = s[2] /\ 2 - 1 = 1 /\ 2 > 1
        BY <1>3, <1>5
  <2>2. QED
        BY <1>2, <1>5, <2>1 DEF Adjacent
<1>6. ASSUME k = Len(s), s[k].type = "CF" PROVE Follows(Last(t), s[k].n)
  <2>1. k \in DOMAIN s /\ k > 1 /\ Last(t) = s[k - 1]
        BY <1>1, <1>2, <1>4, <1>6
  <2>2. QED
        BY <1>6, <2>1 DEF Adjacent
<1>7. QED
      BY <1>3, <1>4, <1>5, <1>6

LEMMA AdjacentLonger ==
  ASSUME NEW s \in Seq(Formed), NEW t \in Seq(Formed), NEW x, Adjacent(s), Longer(t, s, x),
         x.type = "CF" /\ s # <<>> => Follows(Last(s), x.n)
  PROVE  Adjacent(t)
<1>1. /\ Len(s) \in Nat /\ Len(t) = Len(s) + 1
      /\ DOMAIN s = 1..Len(s) /\ DOMAIN t = 1..Len(t)
      BY DEF Longer
<1>2. ASSUME NEW i \in DOMAIN t, i > 1, t[i].type = "CF" PROVE Follows(t[i - 1], t[i].n)
  <2>1. i - 1 \in DOMAIN s /\ t[i - 1] = s[i - 1]
        BY <1>1, <1>2 DEF Longer
  <2>2. CASE i = Len(t)
    <3>1. t[i] = x /\ i - 1 = Len(s) /\ s # <<>>
          BY <1>1, <2>1, <2>2, EmptySeq DEF Longer
    <3>2. QED
          BY <1>2, <2>1, <3>1 DEF Last
  <2>3. CASE i # Len(t)
    <3>1. i \in DOMAIN s /\ t[i] = s[i]
          BY <1>1, <2>3 DEF Longer
    <3>2. QED
          BY <1>2, <2>1, <3>1 DEF Adjacent
  <2>4. QED
        BY <2>2, <2>3
<1>3. QED
      BY <1>2 DEF Adjacent

(* A number whose answer was sent stays used: the requests sent, and those   *)
(* the reception is still open for, have other numbers.                      *)
LEMMA UsedStays ==
  ASSUME TypeInv, RequestsInv, [Next]_vars, NEW m \in Nat, Used(m) PROVE Used(m)'
<1>1. /\ up \in Seq(Formed) /\ n \in Nat /\ m <= n /\ (cpc = "first" => m < n)
      /\ \A f \in ToSet(up) : Opens(f) => m < f.n
      /\ rx.active => rx.got[1].n # m
      BY UpTypes DEF Used
<1>2. CASE Call
      BY <1>1, <1>2 DEF Call, ecu, Used
<1>3. CASE SendFirst \/ SendBlock \/ SendFlow
  <2>1. UNCHANGED <<n, rx>> /\ cpc' # "first"
        BY <1>3 DEF SendFirst, SendBlock, SendFlow, ecu
  <2>2. PICK x : up' = Append(up, x) /\ (Opens(x) => x.n = n /\ cpc = "first")
    <3>1. CASE SendFirst
          BY <3>1, FramesAre DEF SendFirst
    <3>2. CASE SendBlock
          BY <3>2, FramesAre DEF SendBlock, Opens
    <3>3. CASE SendFlow
          BY <3>3, FramesAre DEF SendFlow, Opens
    <3>4. QED
          BY <1>3, <3>1, <3>2, <3>3
  <2>3. ToSet(up') = ToSet(up) \cup {x}
    <3>1. x \in Formed \cup {x} /\ up \in Seq(Formed \cup {x})
          BY <1>1
    <3>2. QED
          BY <2>2, <3>1, SetAppend
  <2>4. QED
        BY <1>1, <2>1, <2>2, <2>3 DEF Used
<1>4. CASE TakeSingle \/ TakeFirst \/ TakeConsecutive \/ TakeOther \/ EcuAwaitFlow
  <2>1. up # <<>> /\ up' = Tail(up) /\ UNCHANGED <<n, cpc>>
        BY <1>4 DEF TakeSingle, TakeFirst, TakeConsecutive, TakeOther, EcuAwaitFlow, client
  <2>2. ToSet(up') \subseteq ToSet(up) /\ Head(up) \in ToSet(up) /\ Head(up) \in Formed
        BY <1>1, <2>1, SetTail, HeadFormed
  <2>3. rx'.active => rx'.got[1].n # m
    <3>1. rx \in [active : BOOLEAN, total : Sizes, got : Seq(Piece)]
          BY DEF TypeInv, EcuInv
    <3>2. CASE TakeSingle \/ EcuAwaitFlow
          BY <1>1, <3>2 DEF TakeSingle, EcuAwaitFlow
    <3>3. CASE TakeFirst
      <4>1. rx'.got = <<Data(Head(up))>> /\ Opens(Head(up))
            BY <3>3 DEF TakeFirst, Opens
      <4>2. rx'.got[1].n = Head(up).n /\ m < Head(up).n
            BY <1>1, <2>2, <4>1 DEF Data
      <4>3. Head(up).n \in Nat
            BY <2>2, FormedIs
      <4>4. QED
            BY <4>2, <4>3
    <3>4. CASE TakeConsecutive
      <4>1. rx.active /\ rx.got \in Seq(Piece) /\ Len(rx.got) \in Nat \ {0}
        <5>1. rx.active /\ Len(rx.got) \in 1..rx.total /\ rx.got \in Seq(Piece)
              BY <3>4 DEF TakeConsecutive, TypeInv, EcuInv
        <5>2. QED
              BY <5>1, UpTypes
      <4>2. Longer(Append(rx.got, Data(Head(up))), rx.got, Data(Head(up)))
            BY <2>2, <4>1, FormedIs, PiecesGrow
      <4> DEFINE got == Append(rx.got, Data(Head(up)))
      <4>3. got[1] = rx.got[1]
            BY <4>1, <4>2 DEF Longer
      <4>4. rx' = [rx EXCEPT !.got = got, !.active = FALSE] \/ rx' = [rx EXCEPT !.got = got]
            BY <3>4 DEF TakeConsecutive
      <4> HIDE DEF got
      <4>5. rx'.got = got
            BY <3>1, <4>4
      <4>6. QED
            BY <1>1, <4>1, <4>3, <4>5
    <3>5. CASE TakeOther
      <4>1. rx' = [rx EXCEPT !.active = @ /\ Head(up).type = "FC"]
            BY <3>5 DEF TakeOther
      <4>2. rx'.got = rx.got /\ (rx'.active => rx.active)
            BY <3>1, <4>1
      <4>3. QED
            BY <1>1, <4>2
    <3>6. QED
          BY <1>4, <3>2, <3>3, <3>4, <3>5
  <2>4. QED
        BY <1>1, <2>1, <2>2, <2>3 DEF Used
<1>5. CASE Lose
  <2>1. UNCHANGED <<n, cpc, rx>>
        BY <1>5 DEF Lose, client, ecu
  <2>2. ToSet(up') \subseteq ToSet(up)
    <3>1. ASSUME NEW i \in DOMAIN up, up' = RemoveAt(up, i) PROVE ToSet(up') \subseteq ToSet(up)
          BY <1>1, <3>1, SetRemove
    <3>2. QED
          BY <1>5, <3>1 DEF Lose
  <2>3. QED
        BY <1>1, <2>1, <2>2 DEF Used
<1>6. CASE GiveUp \/ AwaitFlow \/ BeginAnswer \/ Collect \/ Refuse \/ Deliver
             \/ EcuSendBlock \/ EcuGiveUp \/ UNCHANGED vars
  <2>1. UNCHANGED <<n, up, rx>> /\ (cpc' = "first" => cpc = "first")
        BY <1>6 DEF GiveUp, AwaitFlow, BeginAnswer, Collect, Refuse, Deliver, EcuSendBlock,
           EcuGiveUp, vars, client, ecu, Finish
  <2>2. QED
        BY <1>1, <2>1 DEF Used
<1>7. QED
      BY <1>2, <1>3, <1>4, <1>5, <1>6 DEF Next, Client, Ecu

LEMMA ComingIs ==
  ASSUME TypeInv
  PROVE  /\ ring \in Seq(Formed) /\ down \in Seq(Formed) /\ Coming \in Seq(Formed)
         /\ \A f \in ToSet(Coming) : f \in Formed /\ f.n \in Nat /\ f.k \in Nat
<1>1. ring \in Seq(Formed) /\ down \in Seq(Formed)
      BY DEF TypeInv, ClientInv, WireInv
<1>2. Coming \in Seq(Formed)
      BY <1>1, ConcatIs DEF Coming
<1>3. ASSUME NEW f \in ToSet(Coming) PROVE f \in Formed /\ f.n \in Nat /\ f.k \in Nat
  <2>1. f \in Formed
        BY <1>2 DEF ToSet
  <2>2. QED
        BY <2>1, FormedIs
<1>4. QED
      BY <1>1, <1>2, <1>3

LEMMA ComingNext == ASSUME TypeInv, [Next]_vars PROVE Coming' \in Seq(Formed)
<1>1. ring' \in Seq(Formed) /\ down' \in Seq(Formed)
      BY NextType DEF TypeInv, ClientInv, WireInv
<1>2. QED
      BY <1>1, ConcatIs DEF Coming

(* What the steps do to the frames that come.                                *)
LEMMA SendComes ==
  ASSUME TypeInv, NEW x \in Formed, down' = Append(down, x), ring' = ring
  PROVE  Longer(Coming', Coming, x)
<1>1. down' \in Seq(Formed) /\ Longer(down', down, x)
      BY ComingIs, AppendIs
<1>2. QED
      BY <1>1, ComingIs, ConcatLonger DEF Coming

LEMMA TakeComes ==
  ASSUME TypeInv, ring # <<>>, ring' = Tail(ring), down' = down
  PROVE  Without(Coming', Coming, 1) /\ Coming[1] = Head(ring)
BY ComingIs, ConcatTail DEF Coming

LEMMA DeliverComes ==
  ASSUME TypeInv, Deliver
  PROVE  \/ /\ Coming' = Coming
            /\ "down" \in lost => "down" \in lost'
         \/ /\ Without(Coming', Coming, 1)
            /\ "down" \in lost => "down" \in lost'
            /\ cpc = "idle" \/ Coming[1].type # "FF" \/ "down" \in lost'
            /\ cpc = "idle" \/ ~clean'
<1>1. down # <<>> /\ ring \in Seq(Formed) /\ down \in Seq(Formed) /\ down' = Tail(down)
      BY ComingIs DEF Deliver
<1>2. CASE cpc = "idle"
  <2>1. ring = <<>> /\ ring' = <<>> /\ lost' = lost
        BY <1>2 DEF Deliver, TypeInv, ClientInv
  <2>2. Coming = down /\ Coming' = down'
        BY <1>1, <2>1, ConcatEmptySeq, TailIs DEF Coming
  <2>3. Without(Coming', Coming, 1)
        BY <1>1, <2>2, TailIs
  <2>4. QED
        BY <1>2, <2>1, <2>3
<1>3. CASE cpc # "idle" /\ Len(ring) < Depth
  <2>1. ring' = Append(ring, Head(down)) /\ lost' = lost
        BY <1>3 DEF Deliver
  <2>2. Coming' = Coming
        BY <1>1, <2>1, ConcatPass DEF Coming
  <2>3. QED
        BY <2>1, <2>2
<1>4. CASE cpc # "idle" /\ ~(Len(ring) < Depth)
  <2>1. ring # <<>>
        BY <1>4, IsoTpAssumption, EmptySeq
  <2>2. Tail(ring) \in Seq(Formed)
        BY <1>1, <2>1, HeadFormed
  <2>3. /\ ring' = Append(Tail(ring), Head(down))
        /\ lost' = lost \cup LostFirst("down", Head(ring)) /\ ~clean'
        BY <1>4 DEF Deliver
  <2>4. Coming' = Tail(ring) \o down
        BY <1>1, <2>2, <2>3, ConcatPass DEF Coming
  <2>5. Without(Coming', Coming, 1) /\ Coming[1] = Head(ring)
        BY <1>1, <2>1, <2>4, ConcatTail DEF Coming
  <2>6. QED
        BY <2>3, <2>5 DEF LostFirst
<1>5. QED
      BY <1>2, <1>3, <1>4

LEMMA LoseComes ==
  ASSUME TypeInv, NEW i \in DOMAIN down, down' = RemoveAt(down, i), ring' = ring
  PROVE  \E k : Without(Coming', Coming, k) /\ Coming[k] = down[i]
<1>1. i \in 1..Len(down)
      BY ComingIs
<1>2. down \in Seq(Formed) /\ ring \in Seq(Formed)
      BY ComingIs
<1>3. down' \in Seq(Formed) /\ Without(down', down, i)
      BY <1>1, <1>2, RemoveIs
<1>4. /\ Without(ring \o down', ring \o down, Len(ring) + i)
      /\ (ring \o down)[Len(ring) + i] = down[i]
      BY <1>2, <1>3, ConcatWithout
<1>5. QED
      BY <1>4 DEF Coming

(* A call that ends leaves what the ring did not hold.                       *)
Rest(t, s) == \E m \in Nat : /\ Len(s) = m + Len(t)
                             /\ \A i \in 1..Len(t) : t[i] = s[m + i]

LEMMA FinishComes ==
  ASSUME TypeInv, ring' = <<>>, down' = down
  PROVE  Rest(Coming', Coming)
<1>1. /\ Len(Coming) = Len(ring) + Len(down) /\ Len(ring) \in Nat
      /\ \A i \in 1..Len(down) : Coming[Len(ring) + i] = down[i]
      BY ComingIs, ConcatIs DEF Coming
<1>2. Coming' = down
      BY ComingIs, ConcatEmptySeq DEF Coming
<1>3. QED
      BY <1>1, <1>2 DEF Rest

LEMMA RestKeeps ==
  ASSUME NEW s \in Seq(Formed), NEW t \in Seq(Formed), Rest(t, s)
  PROVE  /\ ToSet(t) \subseteq ToSet(s)
         /\ Answers(s) => Answers(t)
         /\ Adjacent(s) => Adjacent(t)
         /\ t # <<>> => s # <<>> /\ Last(t) = Last(s)
<1>1. PICK m \in Nat : Len(s) = m + Len(t) /\ \A i \in 1..Len(t) : t[i] = s[m + i]
      BY DEF Rest
<1>2. /\ DOMAIN s = 1..Len(s) /\ DOMAIN t = 1..Len(t) /\ Len(s) \in Nat /\ Len(t) \in Nat
      BY LenProperties
<1>3. ASSUME NEW i \in DOMAIN t
      PROVE  m + i \in DOMAIN s /\ t[i] = s[m + i] /\ i \in Nat /\ (i > 1 => i - 1 \in DOMAIN t)
             /\ (m + i) - 1 = m + (i - 1) /\ (i > 1 => m + i > 1)
      BY <1>1, <1>2
<1>4. ToSet(t) \subseteq ToSet(s)
      BY <1>3 DEF ToSet
<1>5. ASSUME Answers(s), NEW i \in DOMAIN t, NEW j \in DOMAIN t, i < j, Carries(t[i]),
             Carries(t[j]), t[i].n = t[j].n
      PROVE  t[i].k < t[j].k /\ (t[i].type = "FF" => t[j].k <= t[i].len)
  <2>1. /\ m + i \in DOMAIN s /\ m + j \in DOMAIN s /\ m + i < m + j
        /\ t[i] = s[m + i] /\ t[j] = s[m + j]
        BY <1>3, <1>5
  <2>2. QED
        BY <1>5, <2>1 DEF Answers
<1>6. ASSUME Adjacent(s), NEW i \in DOMAIN t, i > 1, t[i].type = "CF"
      PROVE  Follows(t[i - 1], t[i].n)
  <2>1. /\ m + i \in DOMAIN s /\ m + i > 1 /\ t[i] = s[m + i]
        /\ t[i - 1] = s[m + (i - 1)] /\ (m + i) - 1 = m + (i - 1)
        BY <1>3, <1>6
  <2>2. Follows(s[(m + i) - 1], s[m + i].n)
        BY <1>6, <2>1 DEF Adjacent
  <2>3. QED
        BY <2>1, <2>2
<1>7. ASSUME t # <<>> PROVE s # <<>> /\ Last(t) = Last(s)
  <2>1. Len(t) \in DOMAIN t
        BY <1>2, <1>7, EmptySeq
  <2>2. Len(s) > 0 /\ t[Len(t)] = s[Len(s)]
        BY <1>1, <1>2, <2>1
  <2>3. QED
        BY <2>2, EmptySeq DEF Last
<1>8. QED
      BY <1>4, <1>5, <1>6, <1>7 DEF Answers, Adjacent

LEMMA OrderLess ==
  ASSUME TypeInv, RequestsInv, DownOrder, [Next]_vars,
         Answers(Coming'), ToSet(Coming') \subseteq ToSet(Coming),
         epc' # "loop" => epc # "loop" /\ UNCHANGED resp,
         Assembling' => parts'.got[1].n \in Nat /\ Used(parts'.got[1].n)
  PROVE  DownOrder'
<1>1. \A m \in Nat : Used(m) => Used(m)'
      BY UsedStays
<1>2. \A f \in ToSet(Coming') : Carries(f) => Used(f.n)'
      BY <1>1, ComingIs DEF DownOrder
<1>3. Answering' => Used(resp.n)'
  <2>1. resp.n \in Nat
        BY IsoTpAssumption DEF TypeInv, EcuInv
  <2>2. Answering' => Used(resp.n) /\ resp' = resp
        BY DEF DownOrder, Answering
  <2>3. QED
        BY <1>1, <2>1, <2>2
<1>4. Answering' =>
        \A f \in ToSet(Coming') :
          Carries(f) /\ f.n = resp'.n
            => f.k <= resp'.sent /\ (f.type = "FF" => f.len = resp'.len)
      BY DEF DownOrder, Answering
<1>5. Assembling' => Used(parts.got[1].n)'
      BY <1>1
<1>6. QED
      BY <1>2, <1>3, <1>4, <1>5 DEF DownOrder

(* The number of a request the ECU acts on was not used for an answer before *)
(* and is from now on.                                                       *)
LEMMA Answerable ==
  ASSUME TypeInv, RequestsInv, NEW m,
         \/ TakeSingle /\ m = Head(up).n
         \/ TakeConsecutive /\ ~rx'.active /\ m = rx.got[1].n
  PROVE  m \in 1..MaxCalls /\ Used(m)' /\ \A j \in Nat : Used(j) => j # m
<1>1. /\ up # <<>> /\ up' = Tail(up) /\ UNCHANGED <<n, cpc>> /\ UpOrder
      /\ up \in Seq(Formed) /\ n \in Nat
      BY UpTypes DEF TakeSingle, TakeConsecutive, client, RequestsInv
<1>2. /\ Head(up) \in Formed /\ Head(up) \in ToSet(up) /\ ToSet(up') \subseteq ToSet(up)
      BY <1>1, HeadFormed, SetTail
<1>3. CASE TakeSingle /\ m = Head(up).n
  <2> DEFINE h == Head(up)
  <2>1. /\ h.type = "SF" /\ Opens(h) /\ Carries(h) /\ rx' = rx /\ h.k = 0
        /\ h.n \in Nat /\ h.n \in 1..MaxCalls
        BY <1>2, <1>3, FormedIs DEF TakeSingle, Opens, Carries
  <2>2. h.n <= n /\ (cpc = "first" => h.n < n) /\ (rx.got # <<>> => rx.got[1].n < h.n)
        BY <1>1, <1>2, <2>1 DEF UpOrder
  <2>3. ASSUME NEW f \in ToSet(up'), Opens(f) PROVE h.n < f.n
    <3>1. f \in Formed /\ f.n \in Nat /\ f.k = 0 /\ Carries(f)
      <4>1. f \in Formed
            BY <1>2, <2>3, UpTypes
      <4>2. QED
            BY <2>3, <4>1, FormedIs DEF Opens, Carries
    <3>2. Before(h, f)
          BY <1>1, <2>1, <2>3, <3>1, HeadFirst DEF UpOrder
    <3>3. QED
          BY <2>1, <3>1, <3>2 DEF Before
  <2>4. rx'.active => rx'.got[1].n # m
    <3>1. rx.active => rx.got # <<>>
          BY EmptySeq DEF TypeInv, EcuInv
    <3>2. rx.active => rx.got[1].n < h.n /\ rx.got[1].n \in Nat
          BY <2>2, <3>1, UpTypes
    <3>3. QED
          BY <1>3, <2>1, <3>2
  <2> HIDE DEF h
  <2>5. m = h.n
        BY <1>3 DEF h
  <2>6. Used(m)'
        BY <1>1, <2>2, <2>3, <2>4, <2>5 DEF Used
  <2>7. ASSUME NEW j \in Nat, Used(j) PROVE j # m
        BY <1>2, <2>1, <2>5, <2>7 DEF Used, h
  <2>8. QED
        BY <2>1, <2>5, <2>6, <2>7
<1>4. CASE TakeConsecutive /\ ~rx'.active /\ m = rx.got[1].n
  <2>1. rx.active /\ rx.got # <<>> /\ rx.got[1] \in Piece /\ m \in 1..MaxCalls
    <3>1. rx.active /\ Len(rx.got) \in 1..rx.total
          BY <1>4 DEF TakeConsecutive, TypeInv, EcuInv
    <3>2. rx.got # <<>>
          BY <3>1, EmptySeq, UpTypes
    <3>3. QED
          BY <1>4, <3>1, <3>2, UpTypes, PieceIs
  <2>2. m <= n /\ (cpc = "first" => m < n)
        BY <1>1, <1>4, <2>1 DEF UpOrder
  <2>3. \A f \in ToSet(up') : Opens(f) => m < f.n
        BY <1>1, <1>2, <1>4, <2>1 DEF UpOrder, Opens, Carries
  <2>4. Used(m)'
        BY <1>1, <1>4, <2>2, <2>3 DEF Used
  <2>5. \A j \in Nat : Used(j) => j # m
        BY <1>4, <2>1 DEF Used
  <2>6. QED
        BY <2>1, <2>4, <2>5
<1>5. QED
      BY <1>3, <1>4

LEMMA OrderAnswer ==
  ASSUME TypeInv, RequestsInv, DownOrder, [Next]_vars, epc = "loop", NEW m \in 1..MaxCalls,
         Answer(m), Used(m)', \A j \in Nat : Used(j) => j # m, UNCHANGED client
  PROVE  DownOrder'
<1>1. UNCHANGED <<parts, ring, cpc>>
      BY DEF client
<1>2. Assembling' => parts'.got[1].n \in Nat /\ Used(parts'.got[1].n)
  <2>1. Assembling' => Assembling
        BY <1>1 DEF Assembling
  <2>2. Assembling => parts.got[1].n \in Nat
    <3>1. Assembling => parts.got \in Seq(Piece) /\ Len(parts.got) \in Nat \ {0}
          BY MaxLengthIs DEF Assembling, TypeInv, ClientInv
    <3>2. Assembling => parts.got[1] \in Piece
          BY <3>1
    <3>3. QED
          BY <3>2, PieceIs
  <2>3. QED
        BY <1>1, <2>1, <2>2 DEF DownOrder
<1>3. CASE UNCHANGED <<down, resp, epc>>
  <2>1. Coming' = Coming
        BY <1>1, <1>3 DEF Coming
  <2>2. QED
        BY <1>2, <1>3, <2>1, OrderLess DEF DownOrder
<1>4. ASSUME NEW l \in Lengths,
             down' = Append(down, First(m, l)), resp' = [n |-> m, len |-> l, sent |-> 0],
             epc' = IF l = 0 THEN "loop" ELSE "flow"
      PROVE  DownOrder'
  <2> DEFINE x == First(m, l)
  <2>1. x \in Formed /\ x.n = m /\ x.k = 0 /\ x.len = l
        BY FramesFormed, FramesAre
  <2>2. down' = Append(down, x)
        BY <1>4
  <2> HIDE DEF x
  <2>3. Longer(Coming', Coming, x) /\ Coming' \in Seq(Formed)
        BY <1>1, <2>1, <2>2, SendComes, ComingNext
  <2>4. ToSet(Coming') = ToSet(Coming) \cup {x}
        BY <2>3, ComingIs, SetLonger, <2>1
  <2>5. ASSUME NEW f \in ToSet(Coming), Carries(f) PROVE f.n # m /\ Used(f.n)'
        BY <2>5, UsedStays, ComingIs DEF DownOrder
  <2>6. Answers(Coming')
        BY <2>1, <2>3, <2>5, ComingIs, AnswersLonger DEF DownOrder
  <2>7. \A f \in ToSet(Coming') : Carries(f) => Used(f.n)'
        BY <2>1, <2>4, <2>5
  <2>8. resp'.n = m /\ resp'.len = l /\ resp'.sent = 0
        BY <1>4
  <2>9. Answering' =>
          \A f \in ToSet(Coming') :
            Carries(f) /\ f.n = resp'.n
              => f.k <= resp'.sent /\ (f.type = "FF" => f.len = resp'.len)
        BY <2>1, <2>4, <2>5, <2>8
  <2>10. Assembling' => Used(parts.got[1].n)'
        BY <1>2, UsedStays
  <2>11. Used(resp.n)'
        BY <2>8
  <2>12. QED
        BY <2>6, <2>7, <2>9, <2>10, <2>11 DEF DownOrder
<1>5. QED
      BY <1>3, <1>4 DEF Answer

LEMMA PartsAre ==
  ASSUME TypeInv, Assembling
  PROVE  /\ parts \in [total : Sizes, got : Seq(Piece)] /\ parts.got \in Seq(Piece)
         /\ parts.got # <<>> /\ parts.got[1] \in Piece /\ parts.got[1].n \in Nat
         /\ Last(parts.got) \in Piece /\ Last(parts.got).k \in Nat
         /\ parts.total \in Nat /\ Len(parts.got) \in Nat \ {0}
<1>1. /\ parts \in [total : Sizes, got : Seq(Piece)] /\ parts.got \in Seq(Piece)
      /\ Len(parts.got) \in 1..parts.total /\ parts.total \in Sizes
      BY DEF Assembling, TypeInv, ClientInv
<1>2. parts.total \in Nat /\ Len(parts.got) \in Nat \ {0} /\ Len(parts.got) \in 1..Len(parts.got)
      BY <1>1, MaxLengthIs
<1>3. parts.got # <<>> /\ parts.got[1] \in Piece /\ parts.got[Len(parts.got)] \in Piece
      BY <1>1, <1>2, EmptySeq
<1>4. QED
      BY <1>1, <1>2, <1>3, PieceIs DEF Last

(* Nothing happens on the way down.                                          *)
LEMMA DownSame ==
  ASSUME TypeInv,
         \/ Call \/ SendFirst \/ SendBlock \/ SendFlow \/ TakeOther \/ EcuAwaitFlow \/ EcuGiveUp
         \/ UNCHANGED vars
         \/ TakeFirst /\ UNCHANGED down
         \/ TakeConsecutive /\ UNCHANGED <<down, epc, resp>>
         \/ Lose /\ UNCHANGED down
  PROVE  /\ Coming' = Coming /\ UNCHANGED resp /\ (epc' # "loop" => epc # "loop")
         /\ Assembling' => Assembling /\ UNCHANGED parts
         /\ UNCHANGED ret \/ ret'.code = "none"
         /\ "down" \in lost => "down" \in lost'
<1>1. UNCHANGED <<ring, down, resp>> /\ (epc' # "loop" => epc # "loop")
      BY DEF Call, SendFirst, SendBlock, SendFlow, TakeOther, EcuAwaitFlow, EcuGiveUp, vars,
             TakeFirst, TakeConsecutive, Lose, client, ecu
<1>2. Coming' = Coming
      BY <1>1 DEF Coming
<1>3. /\ Assembling' => Assembling /\ UNCHANGED parts
      /\ UNCHANGED ret \/ ret'.code = "none"
      BY DEF Assembling, Call, SendFirst, SendBlock, SendFlow, TakeOther, EcuAwaitFlow,
             EcuGiveUp, vars, TakeFirst, TakeConsecutive, Lose, client
<1>4. "down" \in lost => "down" \in lost'
      BY DEF Call, SendFirst, SendBlock, SendFlow, TakeOther, EcuAwaitFlow, EcuGiveUp, vars,
             TakeFirst, TakeConsecutive, Lose
<1>5. QED
      BY <1>1, <1>2, <1>3, <1>4

LEMMA OrderClient ==
  ASSUME TypeInv, RequestsInv, DownOrder, [Next]_vars,
         GiveUp \/ AwaitFlow \/ BeginAnswer \/ Collect \/ Refuse
  PROVE  DownOrder'
<1> DEFINE h == Head(ring)
<1>1. /\ UNCHANGED <<down, epc, resp>> /\ Answers(Coming) /\ Coming \in Seq(Formed)
      /\ Coming' \in Seq(Formed)
      BY ComingIs, ComingNext DEF GiveUp, AwaitFlow, BeginAnswer, Collect, Refuse, ecu, DownOrder
<1>2. ASSUME ring' = <<>>, cpc' = "idle" PROVE DownOrder'
  <2>1. Rest(Coming', Coming)
        BY <1>1, <1>2, FinishComes
  <2>2. ToSet(Coming') \subseteq ToSet(Coming) /\ Answers(Coming')
        BY <1>1, <2>1, RestKeeps
  <2>3. ~Assembling'
        BY <1>2 DEF Assembling
  <2>4. QED
        BY <1>1, <2>2, <2>3, OrderLess
<1>3. ASSUME ring # <<>>, ring' = Tail(ring),
             Assembling' => parts'.got[1].n \in Nat /\ Used(parts'.got[1].n)
      PROVE  DownOrder'
  <2>1. Without(Coming', Coming, 1)
        BY <1>1, <1>3, TakeComes
  <2>2. ToSet(Coming') \subseteq ToSet(Coming) /\ Answers(Coming')
        BY <1>1, <2>1, SetWithout, AnswersWithout
  <2>3. QED
        BY <1>1, <1>3, <2>2, OrderLess
<1>4. CASE GiveUp \/ Refuse
      BY <1>2, <1>4 DEF GiveUp, Refuse, Finish
<1>5. CASE AwaitFlow
      BY <1>3, <1>5 DEF AwaitFlow, Assembling
<1>6. CASE BeginAnswer
  <2>1. /\ ring # <<>> /\ parts'.got = <<Data(h)>> /\ Opens(h)
        /\ (ring' = <<>> /\ cpc' = "idle") \/ ring' = Tail(ring)
        BY <1>6 DEF BeginAnswer, Begin, Finish, Opens
  <2>2. parts'.got[1].n = h.n
        BY <2>1 DEF Data
  <2>3. h \in ToSet(Coming) /\ Carries(h)
    <3>1. Without(Tail(ring) \o down, Coming, 1) /\ Coming[1] = h
          BY <2>1, ComingIs, ConcatTail DEF Coming
    <3>2. 1 \in DOMAIN Coming
          BY <1>1, <3>1, LenProperties DEF Without
    <3>3. QED
          BY <2>1, <3>1, <3>2 DEF ToSet, Carries, Opens
  <2>4. parts'.got[1].n \in Nat /\ Used(parts'.got[1].n)
        BY <2>2, <2>3, ComingIs DEF DownOrder
  <2>5. QED
        BY <1>2, <1>3, <2>1, <2>4
<1>7. CASE Collect
  <2>1. /\ ring # <<>> /\ parts'.got = Append(parts.got, Data(h)) /\ Assembling
        /\ (ring' = <<>> /\ cpc' = "idle") \/ ring' = Tail(ring)
    <3>1. /\ ring # <<>> /\ Assembling
          /\ parts' = [parts EXCEPT !.got = Append(@, Data(h))]
          /\ (ring' = <<>> /\ cpc' = "idle") \/ ring' = Tail(ring)
          BY <1>7 DEF Collect, Finish, Assembling
    <3>2. QED
          BY <3>1, PartsAre
  <2>2. Data(h) \in Piece
        BY <2>1, ComingIs, HeadFormed, FormedIs
  <2>3. Longer(parts'.got, parts.got, Data(h))
        BY <2>1, <2>2, PartsAre, PiecesGrow
  <2>4. parts'.got[1] = parts.got[1]
        BY <2>1, <2>3, PartsAre DEF Longer
  <2>5. parts'.got[1].n \in Nat /\ Used(parts'.got[1].n)
        BY <2>1, <2>4, PartsAre DEF DownOrder
  <2>6. QED
        BY <1>2, <1>3, <2>1, <2>5
<1>8. QED
      BY <1>4, <1>5, <1>6, <1>7

LEMMA OrderWire ==
  ASSUME TypeInv, RequestsInv, DownOrder, [Next]_vars, Deliver \/ (Lose /\ ~UNCHANGED down)
  PROVE  DownOrder'
<1>1. /\ UNCHANGED <<cpc, parts, epc, resp>> /\ Answers(Coming) /\ Coming \in Seq(Formed)
      /\ Coming' \in Seq(Formed)
      BY ComingIs, ComingNext DEF Deliver, Lose, client, ecu, DownOrder
<1>2. Assembling' => parts'.got[1].n \in Nat /\ Used(parts'.got[1].n)
      BY <1>1, PartsAre DEF Assembling, DownOrder
<1>3. Coming' = Coming \/ \E k : Without(Coming', Coming, k)
  <2>1. CASE Deliver
        BY <2>1, DeliverComes
  <2>2. CASE Lose /\ ~UNCHANGED down
    <3>1. PICK i \in DOMAIN down : down' = RemoveAt(down, i)
          BY <2>2 DEF Lose
    <3>2. ring' = ring
          BY <2>2 DEF Lose, client
    <3>3. QED
          BY <3>1, <3>2, LoseComes
  <2>3. QED
        BY <2>1, <2>2
<1>4. ToSet(Coming') \subseteq ToSet(Coming) /\ Answers(Coming')
      BY <1>1, <1>3, SetWithout, AnswersWithout
<1>5. QED
      BY <1>1, <1>2, <1>4, OrderLess

(* A reception that completes is answered by its own number.                 *)
LEMMA ServesOpened ==
  ASSUME TypeInv, TakeConsecutive, ~UNCHANGED <<down, epc, resp>>, NEW m, m = rx.got[1].n
  PROVE  Answer(m) /\ ~rx'.active /\ epc = "loop" /\ UNCHANGED client
<1> DEFINE got == Append(rx.got, Data(Head(up)))
<1>1. /\ rx' = [rx EXCEPT !.got = got, !.active = FALSE] /\ Serve(got) /\ epc = "loop"
      /\ UNCHANGED client /\ rx.active /\ up # <<>>
      BY DEF TakeConsecutive
<1>2. /\ rx \in [active : BOOLEAN, total : Sizes, got : Seq(Piece)]
      /\ Len(rx.got) \in Nat \ {0} /\ Data(Head(up)) \in Piece
  <2>1. Len(rx.got) \in 1..rx.total /\ rx \in [active : BOOLEAN, total : Sizes, got : Seq(Piece)]
        BY <1>1 DEF TypeInv, EcuInv
  <2>2. QED
        BY <1>1, <2>1, UpTypes, HeadFormed, FormedIs
<1>3. got[1] = rx.got[1]
  <2>1. Longer(got, rx.got, Data(Head(up)))
        BY <1>2, PiecesGrow
  <2>2. QED
        BY <1>2, <2>1 DEF Longer
<1> HIDE DEF got
<1>4. ~rx'.active
      BY <1>1, <1>2
<1>5. QED
      BY <1>1, <1>3, <1>4 DEF Serve

(* The next Consecutive Frame of the answer.                                 *)
LEMMA BlockSends ==
  ASSUME TypeInv, EcuSendBlock
  PROVE  LET x == Consecutive(resp.n, resp.sent + 1) IN
           /\ down' = Append(down, x) /\ Answering /\ x \in Formed
           /\ x.n = resp.n /\ x.k = resp.sent + 1 /\ x.type = "CF"
           /\ resp'.n = resp.n /\ resp'.len = resp.len /\ resp'.sent = resp.sent + 1
           /\ resp.n \in Nat /\ resp.sent \in Nat /\ resp.len \in Nat /\ resp.sent < resp.len
<1> DEFINE x == Consecutive(resp.n, resp.sent + 1)
<1>1. /\ down' = Append(down, x) /\ Answering /\ resp' = [resp EXCEPT !.sent = @ + 1]
      /\ resp \in [n : 0..MaxCalls, len : Sizes, sent : Nat] /\ resp.sent < resp.len
      /\ resp.n > 0
      BY DEF EcuSendBlock, TypeInv, EcuInv, Answering
<1>2. /\ resp.n \in 1..MaxCalls /\ resp.n \in Nat /\ resp.sent \in Nat /\ resp.len \in Nat
      /\ resp.sent + 1 \in 1..MaxLength
      /\ resp'.n = resp.n /\ resp'.len = resp.len /\ resp'.sent = resp.sent + 1
  <2>1. resp.n \in 0..MaxCalls /\ resp.sent \in Nat /\ resp.len \in Sizes
        BY <1>1
  <2>2. resp.len \in Nat /\ resp.len <= MaxLength /\ MaxLength \in Nat
        BY <2>1, MaxLengthIs
  <2>3. resp'.n = resp.n /\ resp'.len = resp.len /\ resp'.sent = resp.sent + 1
        BY <1>1
  <2>4. QED
        BY <1>1, <2>1, <2>2, <2>3, IsoTpAssumption
<1>3. x \in Formed /\ x.n = resp.n /\ x.k = resp.sent + 1 /\ x.type = "CF"
      BY <1>2, FramesFormed, FramesAre
<1>4. QED
      BY <1>1, <1>2, <1>3

LEMMA OrderEcu ==
  ASSUME TypeInv, RequestsInv, DownOrder, [Next]_vars,
         \/ TakeSingle \/ EcuSendBlock
         \/ TakeFirst /\ ~UNCHANGED down
         \/ TakeConsecutive /\ ~UNCHANGED <<down, epc, resp>>
  PROVE  DownOrder'
<1>1. /\ UNCHANGED <<cpc, parts, ring>> /\ Answers(Coming) /\ Coming \in Seq(Formed)
      /\ Coming' \in Seq(Formed)
      BY ComingIs, ComingNext DEF TakeSingle, EcuSendBlock, TakeFirst, TakeConsecutive, client,
         DownOrder
<1>2. Assembling' => Used(parts.got[1].n)'
  <2>1. Assembling' => parts'.got[1].n \in Nat /\ Used(parts'.got[1].n)
        BY <1>1, PartsAre DEF Assembling, DownOrder
  <2>2. QED
        BY <2>1, UsedStays
<1>3. \A f \in ToSet(Coming) : Carries(f) => Used(f.n)'
      BY UsedStays, ComingIs DEF DownOrder
<1>4. CASE TakeSingle
  <2>1. PICK m : m = Head(up).n
        OBVIOUS
  <2>2. m \in 1..MaxCalls /\ Used(m)' /\ \A j \in Nat : Used(j) => j # m
        BY <1>4, <2>1, Answerable
  <2>3. Answer(m) /\ epc = "loop" /\ UNCHANGED client
        BY <1>4, <2>1 DEF TakeSingle, Serve, Data
  <2>4. QED
        BY <2>2, <2>3, OrderAnswer
<1>5. CASE TakeConsecutive /\ ~UNCHANGED <<down, epc, resp>>
  <2>1. PICK m : m = rx.got[1].n
        OBVIOUS
  <2>2. Answer(m) /\ ~rx'.active /\ epc = "loop" /\ UNCHANGED client
        BY <1>5, <2>1, ServesOpened
  <2>3. m \in 1..MaxCalls /\ Used(m)' /\ \A j \in Nat : Used(j) => j # m
        BY <1>5, <2>1, <2>2, Answerable
  <2>4. QED
        BY <2>2, <2>3, OrderAnswer
<1>6. CASE TakeFirst /\ ~UNCHANGED down
  <2> DEFINE x == FlowControl(Head(up).n)
  <2>1. up # <<>> /\ down' = Append(down, x) /\ epc' = "loop"
        BY <1>6 DEF TakeFirst
  <2>2. x \in Formed /\ ~Carries(x)
    <3>1. Head(up).n \in 1..MaxCalls
          BY <2>1, UpTypes, HeadFormed, FormedIs
    <3>2. QED
          BY <3>1, FramesFormed, FramesAre DEF Carries
  <2> HIDE DEF x
  <2>3. Longer(Coming', Coming, x)
        BY <1>1, <2>1, <2>2, SendComes
  <2>4. ToSet(Coming') = ToSet(Coming) \cup {x} /\ Answers(Coming')
        BY <1>1, <2>2, <2>3, SetLonger, AnswersLonger
  <2>5. ~Answering'
        BY <2>1 DEF Answering
  <2>6. QED
        BY <1>2, <1>3, <2>2, <2>4, <2>5 DEF DownOrder
<1>7. CASE EcuSendBlock
  <2> DEFINE x == Consecutive(resp.n, resp.sent + 1)
  <2>1. /\ down' = Append(down, x) /\ Answering
        BY <1>7, BlockSends
  <2>2. /\ resp.n \in Nat /\ resp.sent \in Nat /\ resp.len \in Nat /\ resp.sent < resp.len
        /\ resp'.n = resp.n /\ resp'.len = resp.len /\ resp'.sent = resp.sent + 1
        BY <1>7, BlockSends
  <2>3. x \in Formed /\ x.n = resp.n /\ x.k = resp.sent + 1 /\ x.type = "CF"
        BY <1>7, BlockSends
  <2> HIDE DEF x
  <2>4. Longer(Coming', Coming, x)
        BY <1>1, <2>1, <2>3, SendComes
  <2>5. ASSUME NEW f \in ToSet(Coming), Carries(f), f.n = resp.n
        PROVE  f.k <= resp.sent /\ f.k \in Nat /\ (f.type = "FF" => f.len = resp.len)
        BY <2>1, <2>5, ComingIs DEF DownOrder
  <2>6. ToSet(Coming') = ToSet(Coming) \cup {x}
        BY <1>1, <2>3, <2>4, SetLonger
  <2>7. Answers(Coming')
    <3>1. ASSUME NEW f \in ToSet(Coming), Carries(f), f.n = x.n
          PROVE  f.k < x.k /\ (f.type = "FF" => x.k <= f.len)
          BY <2>1, <2>2, <2>3, <2>5, <3>1
    <3>2. QED
          BY <1>1, <2>4, <3>1, AnswersLonger
  <2>8. Used(resp.n)'
    <3>1. Used(resp.n)
          BY <2>1 DEF DownOrder
    <3>2. QED
          BY <2>2, <3>1, UsedStays
  <2>9. \A f \in ToSet(Coming') : Carries(f) => Used(f.n)'
    <3>1. ASSUME NEW f \in ToSet(Coming'), Carries(f) PROVE Used(f.n)'
      <4>1. CASE f \in ToSet(Coming)
            BY <1>3, <3>1, <4>1
      <4>2. CASE f = x
        <5>1. Used(resp.n) /\ f.n = resp.n
              BY <2>1, <2>3, <4>2 DEF DownOrder
        <5>2. QED
              BY <2>2, <5>1, UsedStays
      <4>3. QED
            BY <2>6, <3>1, <4>1, <4>2
    <3>2. QED
          BY <3>1
  <2>10. \A f \in ToSet(Coming') :
           Carries(f) /\ f.n = resp'.n
             => f.k <= resp'.sent /\ (f.type = "FF" => f.len = resp'.len)
        BY <2>2, <2>3, <2>5, <2>6
  <2>11. QED
        BY <1>2, <2>7, <2>8, <2>9, <2>10 DEF DownOrder
<1>8. QED
      BY <1>4, <1>5, <1>6, <1>7

LEMMA NextOrder == ASSUME TypeInv, RequestsInv, DownOrder, [Next]_vars PROVE DownOrder'
<1> DEFINE Same ==
      \/ Call \/ SendFirst \/ SendBlock \/ SendFlow \/ TakeOther \/ EcuAwaitFlow \/ EcuGiveUp
      \/ UNCHANGED vars
      \/ TakeFirst /\ UNCHANGED down
      \/ TakeConsecutive /\ UNCHANGED <<down, epc, resp>>
      \/ Lose /\ UNCHANGED down
<1>1. CASE Same
  <2>1. /\ Coming' = Coming /\ UNCHANGED resp /\ (epc' # "loop" => epc # "loop")
        /\ Assembling' => Assembling /\ UNCHANGED parts
        BY <1>1, DownSame
  <2>2. Assembling' => parts'.got[1].n \in Nat /\ Used(parts'.got[1].n)
        BY <2>1, PartsAre DEF DownOrder
  <2>3. QED
        BY <2>1, <2>2, OrderLess DEF DownOrder
<1>2. QED
      BY <1>1, OrderClient, OrderWire, OrderEcu DEF Next, Client, Ecu

LEMMA LastStays ==
  ASSUME NEW s \in Seq(Formed), NEW t \in Seq(Formed), NEW k, NEW m, Adjacent(s),
         Without(t, s, k), k = 1 \/ s[k].type # "FF", t # <<>>, Follows(Last(s), m)
  PROVE  Follows(Last(t), m)
<1>1. Len(s) \in Nat /\ Len(t) \in Nat \ {0} /\ k \in 1..Len(s) /\ Len(t) = Len(s) - 1
      BY LenProperties, EmptySeq DEF Without
<1>2. /\ Last(t) = IF k = Len(s) THEN s[k - 1] ELSE Last(s)
      /\ k = Len(s) /\ s[k].type = "CF" => Follows(Last(t), s[k].n)
      BY NextFollows
<1>3. CASE k = Len(s)
  <2>1. k # 1 /\ s[k] = Last(s)
        BY <1>1, <1>3 DEF Last
  <2>2. s[k].type = "CF" /\ s[k].n = m
        BY <2>1 DEF Follows
  <2>3. QED
        BY <1>2, <1>3, <2>2
<1>4. QED
      BY <1>2, <1>3

LEMMA WholeSame ==
  ASSUME DownWhole, Coming' = Coming, UNCHANGED resp, epc' # "loop" => epc # "loop",
         Assembling' => Assembling /\ UNCHANGED parts,
         UNCHANGED ret \/ ret'.code # "OK", "down" \in lost => "down" \in lost'
  PROVE  DownWhole'
<1>1. Answering' => Answering
      BY DEF Answering
<1>2. Connected => Connected'
      BY <1>1 DEF Connected
<1>3. Assembling' /\ Gathers => Gathers'
      BY <1>1 DEF Gathers
<1>4. AnswerWhole => AnswerWhole'
      BY DEF AnswerWhole
<1>5. QED
      BY <1>2, <1>3, <1>4 DEF DownWhole

(* A frame that comes is lost, or comes when there is no ring.               *)
LEMMA WholeLess ==
  ASSUME TypeInv, DownWhole, [Next]_vars, NEW k, Without(Coming', Coming, k),
         UNCHANGED <<resp, epc, parts, cpc, ret>>,
         "down" \in lost => "down" \in lost',
         (cpc = "idle" /\ k = 1) \/ Coming[k].type # "FF" \/ "down" \in lost'
  PROVE  DownWhole'
<1>1. SUFFICES ASSUME "down" \notin lost', "down" \notin lost
               PROVE  Adjacent(Coming') /\ Connected' /\ (Assembling' => Gathers') /\ AnswerWhole'
      BY DEF DownWhole
<1>2. /\ Coming \in Seq(Formed) /\ Coming' \in Seq(Formed)
      /\ Adjacent(Coming) /\ Connected /\ (Assembling => Gathers) /\ AnswerWhole
      BY <1>1, ComingIs, ComingNext DEF DownWhole
<1>3. k = 1 \/ Coming[k].type # "FF"
      BY <1>1
<1>4. /\ Len(Coming) \in Nat /\ Len(Coming') = Len(Coming) - 1 /\ k \in 1..Len(Coming)
      /\ Coming # <<>> /\ Head(Coming) = Coming[1]
  <2>1. Len(Coming) \in Nat /\ Len(Coming') = Len(Coming) - 1 /\ k \in 1..Len(Coming)
        BY <1>2, LenProperties DEF Without
  <2>2. Coming # <<>>
        BY <1>2, <2>1, EmptySeq
  <2>3. QED
        BY <1>2, <2>1, <2>2, TailIs
<1>5. Adjacent(Coming')
      BY <1>2, <1>3, AdjacentWithout
<1>6. Connected'
  <2>1. SUFFICES ASSUME Answering, Coming' # <<>> PROVE Follows(Last(Coming'), resp.n)
        BY DEF Connected, Answering
  <2>2. Follows(Last(Coming), resp.n)
        BY <1>2, <1>4, <2>1 DEF Connected
  <2>3. QED
        BY <1>2, <1>3, <2>1, <2>2, LastStays
<1>7. ASSUME Assembling PROVE Gathers'
  <2>1. Gathers /\ Coming[k].type # "FF"
        BY <1>1, <1>2, <1>7 DEF Assembling
  <2>2. ToSet(Coming') \subseteq ToSet(Coming)
        BY <1>2, SetWithout
  <2>3. ASSUME Coming' # <<>>, Head(Coming').type = "CF"
        PROVE  Head(Coming').n = parts.got[1].n
    <3> DEFINE s == Coming
               t == Coming'
    <3>1. /\ s \in Seq(Formed) /\ t \in Seq(Formed) /\ Adjacent(s) /\ Without(t, s, k)
          /\ t # <<>> /\ Head(t).type = "CF"
          BY <1>2, <2>3
    <3> HIDE DEF s, t
    <3>2. /\ Head(t) = IF k = 1 THEN s[2] ELSE s[1]
          /\ k = 1 => Follows(s[1], Head(t).n)
          BY <3>1, NextFollows
    <3>3. /\ Head(Coming') = IF k = 1 THEN Coming[2] ELSE Coming[1]
          /\ k = 1 => Follows(Coming[1], Head(Coming').n)
          BY <3>2 DEF s, t
    <3>4. CASE k = 1
      <4>1. Head(Coming).type = "CF" /\ Head(Coming).n = Head(Coming').n
            BY <1>4, <2>1, <3>3, <3>4 DEF Follows
      <4>2. QED
            BY <1>4, <2>1, <4>1 DEF Gathers
    <3>5. CASE k # 1
          BY <1>4, <2>1, <2>3, <3>3, <3>5 DEF Gathers
    <3>6. QED
          BY <3>4, <3>5
  <2>4. ASSUME Coming' = <<>>, Answering PROVE resp.n = parts.got[1].n
    <3>1. Len(Coming') = 0
          BY <2>4, EmptySeq
    <3>2. Len(Coming) = 1 /\ k = 1
      <4>1. Len(Coming) - 1 = 0 /\ Len(Coming) \in Nat /\ k \in 1..Len(Coming)
            BY <1>4, <3>1
      <4>2. Len(Coming) = 1
            BY <4>1
      <4>3. k \in 1..1
            BY <4>1, <4>2
      <4>4. QED
            BY <4>2, <4>3
    <3>3. Follows(Coming[1], resp.n)
          BY <1>2, <1>4, <2>4, <3>2 DEF Connected, Last
    <3>4. Head(Coming).type = "CF" /\ Head(Coming).n = resp.n
          BY <1>4, <2>1, <3>2, <3>3 DEF Follows
    <3>5. QED
          BY <1>4, <2>1, <3>4 DEF Gathers
  <2>5. QED
        BY <2>1, <2>2, <2>3, <2>4 DEF Gathers, Answering
<1>8. Assembling' = Assembling /\ AnswerWhole'
  <2>1. AnswerWhole'
        BY <1>1, <1>2 DEF AnswerWhole
  <2>2. QED
        BY <2>1 DEF Assembling
<1>9. QED
      BY <1>5, <1>6, <1>7, <1>8

LEMMA WholeWire ==
  ASSUME TypeInv, DownWhole, [Next]_vars, Deliver \/ (Lose /\ ~UNCHANGED down)
  PROVE  DownWhole'
<1>1. UNCHANGED <<resp, epc, parts, cpc, ret>>
      BY DEF Deliver, Lose, client, ecu
<1>2. CASE Deliver
  <2>1. CASE Coming' = Coming /\ ("down" \in lost => "down" \in lost')
        BY <1>1, <2>1, WholeSame DEF Assembling
  <2>2. CASE /\ Without(Coming', Coming, 1) /\ ("down" \in lost => "down" \in lost')
             /\ cpc = "idle" \/ Coming[1].type # "FF" \/ "down" \in lost'
        BY <1>1, <2>2, WholeLess
  <2>3. QED
        BY <1>2, <2>1, <2>2, DeliverComes
<1>3. CASE Lose /\ ~UNCHANGED down
  <2>1. PICK i \in DOMAIN down :
          /\ down' = RemoveAt(down, i)
          /\ lost' = lost \cup LostFirst("down", down[i])
        BY <1>3 DEF Lose
  <2>2. ring' = ring
        BY <1>3 DEF Lose, client
  <2>3. PICK k : Without(Coming', Coming, k) /\ Coming[k] = down[i]
        BY <2>1, <2>2, LoseComes
  <2>4. /\ "down" \in lost => "down" \in lost'
        /\ Coming[k].type # "FF" \/ "down" \in lost'
        BY <2>1, <2>3 DEF LostFirst
  <2>5. QED
        BY <1>1, <2>3, <2>4, WholeLess
<1>4. QED
      BY <1>2, <1>3

(* The call ends: the client forgets the ring and what it assembled.         *)
LEMMA WholeFinish ==
  ASSUME TypeInv, DownWhole, [Next]_vars, ring' = <<>>, cpc' = "idle",
         UNCHANGED <<down, epc, resp, lost>>,
         "down" \notin lost => (ret'.code = "OK" => Whole(ret'.got))
  PROVE  DownWhole'
<1>1. SUFFICES ASSUME "down" \notin lost
               PROVE  Adjacent(Coming') /\ Connected' /\ ~Assembling' /\ AnswerWhole'
      BY DEF DownWhole
<1>2. /\ Coming \in Seq(Formed) /\ Coming' \in Seq(Formed) /\ Rest(Coming', Coming)
      /\ Adjacent(Coming) /\ Connected
      BY <1>1, ComingIs, ComingNext, FinishComes DEF DownWhole
<1>3. /\ Adjacent(Coming')
      /\ Coming' # <<>> => Coming # <<>> /\ Last(Coming') = Last(Coming)
      BY <1>2, RestKeeps
<1>4. Connected'
      BY <1>2, <1>3 DEF Connected, Answering
<1>5. AnswerWhole'
      BY <1>1 DEF AnswerWhole
<1>6. QED
      BY <1>3, <1>4, <1>5 DEF Assembling

(* The client takes a frame: what it finds next goes with it.                *)
LEMMA TakeKeeps ==
  ASSUME TypeInv, [Next]_vars, ring # <<>>, ring' = Tail(ring), UNCHANGED <<down, epc, resp>>,
         Adjacent(Coming), Connected, Answers(Coming), NEW h, h = Head(ring)
  PROVE  /\ Adjacent(Coming') /\ Connected'
         /\ h \in ToSet(Coming) /\ ToSet(Coming') \subseteq ToSet(Coming)
         /\ Coming # <<>> /\ Head(Coming) = h
         /\ Coming' # <<>> /\ Head(Coming').type = "CF" => Follows(h, Head(Coming').n)
         /\ Coming' = <<>> /\ Answering => Follows(h, resp.n)
         /\ \A f \in ToSet(Coming') :
              Carries(f) /\ Carries(h) /\ f.n = h.n
                => h.k < f.k /\ (h.type = "FF" => f.k <= h.len)
<1> DEFINE s == Coming
           t == Coming'
<1>1. s \in Seq(Formed) /\ t \in Seq(Formed) /\ Without(t, s, 1) /\ s[1] = h
      BY ComingIs, ComingNext, TakeComes
<1>2. Adjacent(s) /\ Answers(s)
      OBVIOUS
<1>3. Answering /\ s # <<>> => Follows(Last(s), resp.n)
      BY DEF Connected
<1> HIDE DEF s, t
<1>4. /\ Len(s) \in Nat \ {0} /\ Len(t) = Len(s) - 1 /\ s # <<>> /\ Head(s) = h
      /\ DOMAIN s = 1..Len(s) /\ DOMAIN t = 1..Len(t)
      /\ \A i \in 1..Len(t) : t[i] = s[i + 1]
  <2>1. /\ Len(s) \in Nat /\ Len(t) = Len(s) - 1 /\ 1 \in 1..Len(s)
        /\ DOMAIN s = 1..Len(s) /\ DOMAIN t = 1..Len(t)
        /\ \A i \in 1..Len(t) : t[i] = s[IF i < 1 THEN i ELSE i + 1]
        BY <1>1, LenProperties DEF Without
  <2>2. s # <<>>
        BY <1>1, <2>1, EmptySeq
  <2>3. Head(s) = s[1]
        BY <1>1, <2>2, TailIs
  <2>4. \A i \in 1..Len(t) : t[i] = s[i + 1]
        BY <2>1
  <2>5. QED
        BY <1>1, <2>1, <2>2, <2>3, <2>4
<1>5. Adjacent(t)
      BY <1>1, <1>2, AdjacentWithout
<1>6. Answering /\ t # <<>> => Follows(Last(t), resp.n)
      BY <1>1, <1>2, <1>3, <1>4, LastStays
<1>7. ToSet(t) \subseteq ToSet(s) /\ h \in ToSet(s)
      BY <1>1, SetWithout
<1>8. t # <<>> /\ Head(t).type = "CF" => Follows(h, Head(t).n)
      BY <1>1, <1>2, NextFollows
<1>9. ASSUME t = <<>>, Answering PROVE Follows(h, resp.n)
  <2>1. Len(t) = 0
        BY <1>9, EmptySeq
  <2>2. Len(s) = 1
        BY <1>4, <2>1
  <2>3. Last(s) = h
        BY <1>1, <2>2 DEF Last
  <2>4. QED
        BY <1>3, <1>4, <1>9, <2>3
<1>10. ASSUME NEW f \in ToSet(t), Carries(f), Carries(h), f.n = h.n
       PROVE  h.k < f.k /\ (h.type = "FF" => f.k <= h.len)
  <2>1. PICK i \in 1..Len(t) : f = t[i]
        BY <1>4, <1>10 DEF ToSet
  <2>2. f = s[i + 1] /\ i + 1 \in DOMAIN s /\ 1 \in DOMAIN s /\ 1 < i + 1
        BY <1>4, <2>1
  <2>3. QED
        BY <1>1, <1>2, <1>10, <2>2 DEF Answers
<1>11. Connected'
      BY <1>6 DEF Connected, Answering, t
<1>12. QED
      BY <1>4, <1>5, <1>7, <1>8, <1>9, <1>10, <1>11 DEF s, t

LEMMA WholeBegin ==
  ASSUME TypeInv, DownOrder, DownWhole, [Next]_vars, BeginAnswer PROVE DownWhole'
<1> DEFINE h == Head(ring)
<1>1. /\ ring # <<>> /\ parts' = Begin(h) /\ UNCHANGED <<down, epc, resp, lost>>
      /\ \/ h.type = "SF" /\ Finish("OK")
         \/ h.type = "FF" /\ cpc' = "cts" /\ ring' = Tail(ring) /\ UNCHANGED ret
      BY DEF BeginAnswer, ecu
<1>2. h \in Formed
      BY <1>1, ComingIs, HeadFormed
<1>3. /\ Data(h) \in Piece /\ Data(h).n = h.n /\ Data(h).k = h.k /\ h.n \in Nat
      /\ Opens(h) => h.k = 0
      /\ h.type = "FF" => h.len \in Nat /\ h.len > 0
      BY <1>2, FormedIs DEF Opens
<1>4. parts'.got = <<Data(h)>> /\ parts'.total = h.len
      BY <1>1 DEF Begin
<1>5. CASE h.type = "SF" /\ Finish("OK")
  <2>1. h.k = 0 /\ ret'.got = <<Data(h)>> /\ ring' = <<>> /\ cpc' = "idle"
        BY <1>3, <1>4, <1>5 DEF Opens, Finish
  <2>2. Whole(<<Data(h)>>)
    <3>1. Data(h) = [n |-> Data(h).n, k |-> 0]
          BY <1>3, <2>1, PieceIs
    <3>2. DOMAIN <<Data(h)>> = {1} /\ <<Data(h)>>[1] = Data(h)
          OBVIOUS
    <3>3. QED
          BY <3>1, <3>2 DEF Whole
  <2>3. QED
        BY <1>1, <2>1, <2>2, WholeFinish
<1>6. CASE h.type = "FF" /\ cpc' = "cts" /\ ring' = Tail(ring) /\ UNCHANGED ret
  <2>1. SUFFICES ASSUME "down" \notin lost
                 PROVE  Adjacent(Coming') /\ Connected' /\ Gathers' /\ AnswerWhole'
        BY <1>1 DEF DownWhole
  <2>2. Adjacent(Coming) /\ Connected /\ Answers(Coming) /\ AnswerWhole
        BY <2>1 DEF DownWhole, DownOrder
  <2>3. h = Head(ring)
        OBVIOUS
  <2> HIDE DEF h
  <2>4. /\ Adjacent(Coming') /\ Connected' /\ h \in ToSet(Coming)
        /\ ToSet(Coming') \subseteq ToSet(Coming)
        /\ Coming' # <<>> /\ Head(Coming').type = "CF" => Follows(h, Head(Coming').n)
        /\ Coming' = <<>> /\ Answering => Follows(h, resp.n)
        /\ \A f \in ToSet(Coming') :
             Carries(f) /\ Carries(h) /\ f.n = h.n
               => h.k < f.k /\ (h.type = "FF" => f.k <= h.len)
        BY <1>1, <1>6, <2>2, <2>3, TakeKeeps
  <2>5. h.k = 0 /\ Carries(h)
        BY <1>3, <1>6 DEF Opens, Carries
  <2>6. parts'.got[1] = Data(h) /\ Last(parts'.got) = Data(h) /\ DOMAIN parts'.got = {1}
        /\ parts'.got # <<>>
        BY <1>4 DEF Last
  <2>7. Spaced(parts')
        BY <1>3, <1>4, <1>6, <2>5, <2>6 DEF Spaced
  <2>8. \A f \in ToSet(Coming') :
          Carries(f) /\ f.n = parts'.got[1].n
            => Last(parts'.got).k < f.k /\ f.k <= parts'.total
        BY <1>3, <1>4, <1>6, <2>4, <2>5, <2>6
  <2>9. Answering /\ resp.n = h.n => 0 <= resp.sent /\ resp.len = h.len
    <3>1. Answering /\ resp.n = h.n => h.len = resp.len
          BY <1>6, <2>4, <2>5 DEF DownOrder
    <3>2. resp.sent \in Nat
          BY DEF TypeInv, EcuInv
    <3>3. QED
          BY <3>1, <3>2
  <2>10. Gathers'
        BY <1>1, <1>3, <1>4, <2>4, <2>5, <2>6, <2>7, <2>8, <2>9 DEF Gathers, Answering, Follows
  <2>11. AnswerWhole'
        BY <1>1, <1>6, <2>1, <2>2 DEF AnswerWhole
  <2>12. QED
        BY <2>4, <2>10, <2>11
<1>7. QED
      BY <1>1, <1>5, <1>6

LEMMA WholeCollect ==
  ASSUME TypeInv, DownOrder, DownWhole, [Next]_vars, Collect PROVE DownWhole'
<1> DEFINE h == Head(ring)
<1>1. /\ ring # <<>> /\ h.type = "CF" /\ UNCHANGED <<down, epc, resp, lost>> /\ Assembling
      /\ parts' = [parts EXCEPT !.got = Append(@, Data(h))]
      /\ \/ Len(parts'.got) = parts.total + 1 /\ Finish("OK")
         \/ ring' = Tail(ring) /\ UNCHANGED <<cpc, ret>>
      BY DEF Collect, Expected, ecu, Assembling
<1>2. h \in Formed
      BY <1>1, ComingIs, HeadFormed
<1>3. Data(h) \in Piece /\ Data(h).n = h.n /\ Data(h).k = h.k /\ h.n \in Nat /\ h.k \in Nat
      BY <1>2, FormedIs
<1>4. /\ parts \in [total : Sizes, got : Seq(Piece)] /\ parts.got \in Seq(Piece)
      /\ parts.got # <<>> /\ parts.got[1].n \in Nat /\ Last(parts.got).k \in Nat
      /\ parts.total \in Nat /\ Len(parts.got) \in Nat \ {0}
      BY <1>1, PartsAre
<1>5. /\ parts'.got = Append(parts.got, Data(h)) /\ parts'.total = parts.total
      /\ parts'.got \in Seq(Piece) /\ parts'.got # <<>>
      /\ Longer(parts'.got, parts.got, Data(h))
  <2>1. parts'.got = Append(parts.got, Data(h)) /\ parts'.total = parts.total
        BY <1>1, <1>4
  <2>2. QED
        BY <1>3, <1>4, <2>1, PiecesGrow
<1>6. parts'.got[1] = parts.got[1] /\ Last(parts'.got) = Data(h)
      BY <1>4, <1>5 DEF Longer, Last
<1> HIDE DEF h
<1>7. h = Head(ring)
      BY DEF h
(* The frame belongs to the assembly.                                        *)
<1>8. ASSUME "down" \notin lost
      PROVE  /\ Gathers /\ h.n = parts.got[1].n /\ Last(parts.got).k < h.k
             /\ h.k <= parts.total /\ Spaced(parts') /\ h \in ToSet(Coming)
  <2>1. Gathers
        BY <1>1, <1>8 DEF DownWhole
  <2>2. Coming # <<>> /\ Head(Coming) = h /\ h \in ToSet(Coming)
    <3>1. Without(Tail(ring) \o down, Coming, 1) /\ Coming[1] = h
          BY <1>1, <1>7, ComingIs, ConcatTail DEF Coming
    <3>2. 1 \in DOMAIN Coming /\ Coming # <<>>
          BY <3>1, ComingIs, LenProperties, EmptySeq DEF Without
    <3>3. Head(Coming) = h
          BY <3>1, <3>2, ComingIs, TailIs
    <3>4. QED
          BY <3>1, <3>2, <3>3 DEF ToSet
  <2>3. h.n = parts.got[1].n
        BY <1>1, <2>1, <2>2 DEF Gathers
  <2>4. Last(parts.got).k < h.k /\ h.k <= parts.total
        BY <1>1, <2>1, <2>2, <2>3 DEF Gathers, Carries
  <2>5. Spaced(parts')
        BY <1>3, <1>4, <1>5, <2>1, <2>3, <2>4, SpacedGrows DEF Gathers
  <2>6. QED
        BY <2>1, <2>2, <2>3, <2>4, <2>5
<1>9. CASE Len(parts'.got) = parts.total + 1 /\ Finish("OK")
  <2>1. ring' = <<>> /\ cpc' = "idle" /\ ret'.got = parts'.got
        BY <1>9 DEF Finish
  <2>2. "down" \notin lost => Whole(parts'.got)
    <3>1. parts'.total \in Nat /\ Len(parts'.got) = parts'.total + 1
          BY <1>4, <1>5, <1>9
    <3>2. "down" \notin lost => Spaced(parts')
          BY <1>8
    <3>3. QED
          BY <1>5, <3>1, <3>2, SpacedWhole
  <2>3. QED
        BY <1>1, <2>1, <2>2, WholeFinish
<1>10. CASE ring' = Tail(ring) /\ UNCHANGED <<cpc, ret>>
  <2>1. SUFFICES ASSUME "down" \notin lost
                 PROVE  Adjacent(Coming') /\ Connected' /\ Gathers' /\ AnswerWhole'
        BY <1>1 DEF DownWhole
  <2>2. Adjacent(Coming) /\ Connected /\ Answers(Coming) /\ AnswerWhole
        BY <2>1 DEF DownWhole, DownOrder
  <2>3. /\ Adjacent(Coming') /\ Connected' /\ ToSet(Coming') \subseteq ToSet(Coming)
        /\ Coming' # <<>> /\ Head(Coming').type = "CF" => Follows(h, Head(Coming').n)
        /\ Coming' = <<>> /\ Answering => Follows(h, resp.n)
        /\ \A f \in ToSet(Coming') :
             Carries(f) /\ Carries(h) /\ f.n = h.n
               => h.k < f.k /\ (h.type = "FF" => f.k <= h.len)
        BY <1>1, <1>7, <1>10, <2>2, TakeKeeps
  <2>4. /\ Gathers /\ h.n = parts.got[1].n /\ Last(parts.got).k < h.k
        /\ h.k <= parts.total /\ Spaced(parts') /\ h \in ToSet(Coming) /\ Carries(h)
        BY <1>1, <1>8, <2>1 DEF Carries
  <2>5. \A f \in ToSet(Coming') :
          Carries(f) /\ f.n = parts'.got[1].n
            => Last(parts'.got).k < f.k /\ f.k <= parts'.total
        BY <1>3, <1>5, <1>6, <2>3, <2>4 DEF Gathers
  <2>6. Answering /\ resp.n = h.n => h.k <= resp.sent /\ resp.len = parts.total
    <3>1. Answering /\ resp.n = h.n => h.k <= resp.sent
          BY <2>4 DEF DownOrder
    <3>2. Answering /\ resp.n = h.n => resp.len = parts.total
          BY <2>4 DEF Gathers
    <3>3. QED
          BY <3>1, <3>2
  <2>7. Gathers'
        BY <1>1, <1>3, <1>5, <1>6, <2>3, <2>4, <2>5, <2>6 DEF Gathers, Answering, Follows
  <2>8. AnswerWhole'
        BY <1>1, <1>10, <2>1, <2>2 DEF AnswerWhole
  <2>9. QED
        BY <2>3, <2>7, <2>8
<1>11. QED
      BY <1>1, <1>9, <1>10

LEMMA WholeClient ==
  ASSUME TypeInv, DownOrder, DownWhole, [Next]_vars,
         GiveUp \/ AwaitFlow \/ BeginAnswer \/ Collect \/ Refuse
  PROVE  DownWhole'
<1>1. CASE GiveUp \/ Refuse
  <2>1. /\ ring' = <<>> /\ cpc' = "idle" /\ UNCHANGED <<down, epc, resp, lost>>
        /\ ret'.code = "error"
        BY <1>1 DEF GiveUp, Refuse, Finish, ecu
  <2>2. QED
        BY <2>1, WholeFinish
<1>2. CASE AwaitFlow
  <2>1. /\ ring # <<>> /\ ring' = Tail(ring) /\ UNCHANGED <<down, epc, resp, lost, ret>>
        /\ ~Assembling'
        BY <1>2 DEF AwaitFlow, ecu, Assembling
  <2>2. SUFFICES ASSUME "down" \notin lost
                 PROVE  Adjacent(Coming') /\ Connected' /\ AnswerWhole'
        BY <2>1 DEF DownWhole
  <2>3. Adjacent(Coming) /\ Connected /\ Answers(Coming) /\ AnswerWhole
        BY <2>2 DEF DownWhole, DownOrder
  <2>4. Adjacent(Coming') /\ Connected'
        BY <2>1, <2>3, TakeKeeps
  <2>5. QED
        BY <2>1, <2>3, <2>4 DEF AnswerWhole
<1>3. QED
      BY <1>1, <1>2, WholeBegin, WholeCollect

(* A frame more that comes: it goes on with what came before, and what is    *)
(* put together goes on with it.                                             *)
LEMMA WholeMore ==
  ASSUME TypeInv, DownWhole, [Next]_vars, NEW x \in Formed, Longer(Coming', Coming, x),
         UNCHANGED <<parts, cpc, ret, lost>>,
         x.type = "CF" => Answering /\ x.n = resp.n,
         Answering' => Follows(x, resp'.n),
         Assembling /\ Gathers /\ Carries(x) /\ x.n = parts.got[1].n
           => Last(parts.got).k < x.k /\ x.k <= parts.total,
         Assembling /\ Gathers /\ Answering' /\ resp'.n = parts.got[1].n
           => Last(parts.got).k <= resp'.sent /\ resp'.len = parts.total
  PROVE  DownWhole'
<1>1. /\ Coming \in Seq(Formed) /\ Coming' \in Seq(Formed)
      /\ Coming' # <<>> /\ Last(Coming') = x
      /\ Head(Coming') = IF Coming = <<>> THEN x ELSE Head(Coming)
  <2>1. Coming \in Seq(Formed) /\ Coming' \in Seq(Formed)
        BY ComingIs, ComingNext
  <2> DEFINE s == Coming
  <2> DEFINE t == Coming'
  <2>2. s \in Seq(Formed) /\ t \in Seq(Formed) /\ Longer(t, s, x)
        BY <2>1
  <2> HIDE DEF s, t
  <2>3. Len(s) \in Nat /\ Len(t) = Len(s) + 1 /\ t[Len(t)] = x
        BY <2>2, LenProperties DEF Longer
  <2>4. t # <<>> /\ Last(t) = x /\ Head(t) = t[1]
    <3>1. t # <<>>
          BY <2>3, EmptySeq
    <3>2. QED
          BY <2>2, <2>3, <3>1, TailIs DEF Last
  <2>5. CASE s = <<>>
    <3>1. Len(t) = 1
          BY <2>3, <2>5, EmptySeq
    <3>2. QED
          BY <2>1, <2>3, <2>4, <2>5, <3>1 DEF s, t
  <2>6. CASE s # <<>>
    <3>1. Head(s) = s[1] /\ 1 \in 1..Len(s)
          BY <2>2, <2>6, TailIs
    <3>2. t[1] = s[1]
          BY <2>2, <3>1 DEF Longer
    <3>3. QED
          BY <2>1, <2>4, <2>6, <3>1, <3>2 DEF s, t
  <2>7. QED
        BY <2>5, <2>6
<1>2. SUFFICES ASSUME "down" \notin lost
               PROVE  /\ Adjacent(Coming') /\ Connected' /\ AnswerWhole'
                      /\ Assembling => Gathers'
      BY DEF DownWhole, Assembling
<1>3. Adjacent(Coming) /\ Connected /\ (Assembling => Gathers) /\ AnswerWhole
      BY <1>2 DEF DownWhole
<1>4. Adjacent(Coming')
  <2>1. x.type = "CF" /\ Coming # <<>> => Follows(Last(Coming), x.n)
        BY <1>3 DEF Connected
  <2>2. QED
        BY <1>1, <1>3, <2>1, AdjacentLonger
<1>5. Connected'
      BY <1>1 DEF Connected
<1>6. ASSUME Assembling PROVE Gathers'
  <2>1. Gathers /\ ToSet(Coming') = ToSet(Coming) \cup {x}
        BY <1>1, <1>3, <1>6, SetLonger
  <2>2. \A f \in ToSet(Coming') :
          Carries(f) /\ f.n = parts.got[1].n
            => Last(parts.got).k < f.k /\ f.k <= parts.total
        BY <1>6, <2>1 DEF Gathers
  <2>3. Head(Coming').type = "CF" => Head(Coming').n = parts.got[1].n
        BY <1>1, <2>1 DEF Gathers
  <2>4. QED
        BY <1>1, <1>6, <2>1, <2>2, <2>3 DEF Gathers
<1>7. QED
      BY <1>2, <1>3, <1>4, <1>5, <1>6 DEF AnswerWhole

LEMMA WholeAnswer ==
  ASSUME TypeInv, DownOrder, DownWhole, [Next]_vars, epc = "loop", NEW m \in 1..MaxCalls,
         Answer(m), \A j \in Nat : Used(j) => j # m, UNCHANGED <<client, lost>>
  PROVE  DownWhole'
<1>1. UNCHANGED <<parts, ring, cpc, ret>>
      BY DEF client
<1>2. Assembling => parts.got[1].n # m
      BY PartsAre DEF DownOrder
<1>3. CASE UNCHANGED <<down, resp, epc>>
      BY <1>1, <1>3, WholeSame DEF Coming, Assembling
<1>4. ASSUME NEW l \in Lengths,
             down' = Append(down, First(m, l)), resp' = [n |-> m, len |-> l, sent |-> 0],
             epc' = IF l = 0 THEN "loop" ELSE "flow"
      PROVE  DownWhole'
  <2> DEFINE x == First(m, l)
  <2>1. x \in Formed /\ x.n = m /\ x.type = IF l = 0 THEN "SF" ELSE "FF"
        BY FramesFormed, FramesAre
  <2>2. down' = Append(down, x)
        BY <1>4
  <2> HIDE DEF x
  <2>3. Longer(Coming', Coming, x)
        BY <1>1, <2>1, <2>2, SendComes
  <2>4. resp'.n = m
        BY <1>4
  <2>5. Answering' => Follows(x, resp'.n)
        BY <1>4, <2>1, <2>4 DEF Answering, Follows
  <2>6. QED
        BY <1>1, <1>2, <2>1, <2>3, <2>4, <2>5, WholeMore
<1>5. QED
      BY <1>3, <1>4 DEF Answer

LEMMA WholeEcu ==
  ASSUME TypeInv, RequestsInv, DownOrder, DownWhole, [Next]_vars,
         \/ TakeSingle \/ EcuSendBlock
         \/ TakeFirst /\ ~UNCHANGED down
         \/ TakeConsecutive /\ ~UNCHANGED <<down, epc, resp>>
  PROVE  DownWhole'
<1>1. UNCHANGED <<cpc, parts, ring, ret, lost>>
      BY DEF TakeSingle, EcuSendBlock, TakeFirst, TakeConsecutive, client
<1>2. CASE TakeSingle
  <2>1. PICK m : m = Head(up).n
        OBVIOUS
  <2>2. m \in 1..MaxCalls /\ \A j \in Nat : Used(j) => j # m
        BY <1>2, <2>1, Answerable
  <2>3. Answer(m) /\ epc = "loop" /\ UNCHANGED client
        BY <1>2, <2>1 DEF TakeSingle, Serve, Data
  <2>4. QED
        BY <1>1, <2>2, <2>3, WholeAnswer
<1>3. CASE TakeConsecutive /\ ~UNCHANGED <<down, epc, resp>>
  <2>1. PICK m : m = rx.got[1].n
        OBVIOUS
  <2>2. Answer(m) /\ ~rx'.active /\ epc = "loop" /\ UNCHANGED client
        BY <1>3, <2>1, ServesOpened
  <2>3. m \in 1..MaxCalls /\ \A j \in Nat : Used(j) => j # m
        BY <1>3, <2>1, <2>2, Answerable
  <2>4. QED
        BY <1>1, <2>2, <2>3, WholeAnswer
<1>4. CASE TakeFirst /\ ~UNCHANGED down
  <2> DEFINE x == FlowControl(Head(up).n)
  <2>1. up # <<>> /\ down' = Append(down, x) /\ epc' = "loop"
        BY <1>4 DEF TakeFirst
  <2>2. x \in Formed /\ x.type = "FC"
    <3>1. Head(up).n \in 1..MaxCalls
          BY <2>1, UpTypes, HeadFormed, FormedIs
    <3>2. QED
          BY <3>1, FramesFormed, FramesAre
  <2> HIDE DEF x
  <2>3. Longer(Coming', Coming, x)
        BY <1>1, <2>1, <2>2, SendComes
  <2>4. QED
        BY <1>1, <2>1, <2>2, <2>3, WholeMore DEF Answering, Carries
<1>5. CASE EcuSendBlock
  <2> DEFINE x == Consecutive(resp.n, resp.sent + 1)
  <2>1. /\ down' = Append(down, x) /\ Answering /\ x \in Formed
        /\ x.n = resp.n /\ x.k = resp.sent + 1 /\ x.type = "CF"
        /\ resp'.n = resp.n /\ resp'.len = resp.len /\ resp'.sent = resp.sent + 1
        /\ resp.sent \in Nat /\ resp.len \in Nat /\ resp.sent < resp.len
        BY <1>5, BlockSends
  <2> HIDE DEF x
  <2>2. Longer(Coming', Coming, x)
        BY <1>1, <2>1, SendComes
  <2>3. ASSUME Assembling, Gathers, resp.n = parts.got[1].n
        PROVE  /\ Last(parts.got).k < x.k /\ x.k <= parts.total
               /\ Last(parts.got).k <= resp'.sent /\ resp'.len = parts.total
    <3>1. /\ Last(parts.got).k <= resp.sent /\ resp.len = parts.total
          /\ Last(parts.got).k \in Nat
          BY <2>1, <2>3, PartsAre DEF Gathers
    <3>2. QED
          BY <2>1, <3>1
  <2>4. Follows(x, resp'.n)
        BY <2>1 DEF Follows
  <2>5. QED
        BY <1>1, <2>1, <2>2, <2>3, <2>4, WholeMore
<1>6. QED
      BY <1>2, <1>3, <1>4, <1>5

LEMMA NextWhole == ASSUME TypeInv, RequestsInv, DownOrder, DownWhole, [Next]_vars PROVE DownWhole'
<1> DEFINE Same ==
      \/ Call \/ SendFirst \/ SendBlock \/ SendFlow \/ TakeOther \/ EcuAwaitFlow \/ EcuGiveUp
      \/ UNCHANGED vars
      \/ TakeFirst /\ UNCHANGED down
      \/ TakeConsecutive /\ UNCHANGED <<down, epc, resp>>
      \/ Lose /\ UNCHANGED down
<1>1. CASE Same
      BY <1>1, DownSame, WholeSame
<1>2. QED
      BY <1>1, WholeClient, WholeWire, WholeEcu DEF Next, Client, Ecu

LEMMA InitAnswers == Init => AnswersInv
<1>1. ASSUME Init PROVE AnswersInv
  <2>1. /\ Coming = <<>> /\ epc = "loop" /\ cpc = "idle" /\ ret.code = "none"
    <3>1. ring = <<>> /\ down = <<>> /\ <<>> \o <<>> = <<>>
          BY <1>1 DEF Init
    <3>2. QED
          BY <1>1, <3>1 DEF Init, Coming
  <2>2. ~Answering /\ ~Assembling
        BY <2>1 DEF Answering, Assembling
  <2>3. ToSet(Coming) = {} /\ DOMAIN Coming = {}
        BY <2>1, SetEmpty
  <2>4. Answers(Coming) /\ Adjacent(Coming)
        BY <2>3 DEF Answers, Adjacent
  <2>5. DownOrder
        BY <2>2, <2>3, <2>4 DEF DownOrder
  <2>6. AnswerWhole
        BY <2>1 DEF AnswerWhole
  <2>7. QED
        BY <2>2, <2>4, <2>5, <2>6 DEF DownWhole, Connected, AnswersInv
<1>2. QED
      BY <1>1

(* Whatever is lost but First Frames, however late calls give up and however *)
(* many messages follow each other: the ECU acts on whole requests, once     *)
(* each and in the order of the calls, and a call that returns OK returns    *)
(* one whole answer.                                                         *)
THEOREM MessagesStayApart == Spec => []NothingMixed
<1>1. Init => RequestsInv /\ AnswersInv
      BY InitRequests, InitAnswers
<1>2. ASSUME TypeInv, RequestsInv, AnswersInv, [Next]_vars PROVE (RequestsInv /\ AnswersInv)'
      BY <1>2, NextRequests, NextOrder, NextWhole DEF AnswersInv
<1>3. ASSUME RequestsInv, AnswersInv PROVE NothingMixed
  <2>1. RequestWhole /\ ServedInOrder
        BY <1>3 DEF RequestsInv, ServedWhole, RequestWhole, ServedInOrder
  <2>2. AnswerWhole
        BY <1>3 DEF AnswersInv, DownWhole, AnswerWhole
  <2>3. QED
        BY <2>1, <2>2 DEF NothingMixed
<1>4. QED
      BY <1>1, <1>2, <1>3, TypeAlways, PTL DEF Spec

-----------------------------------------------------------------------------
(* An undisturbed call is in one of a few stages, each with what may then be *)
(* on its way in either direction.                                           *)
Alone(q, type) == Len(q) = 1 /\ q[1].type = type

(* The Consecutive Frames number i to number j.                              *)
Run(q, i, j) ==
  Len(q) + i = j + 1 /\ \A p \in 1..Len(q) : q[p].type = "CF" /\ q[p].k + 1 = i + p

(* The reception is open for a request of this length.                       *)
Receives == rx.active /\ rx.total = out.len

(* Between calls, and before the first frame.                                *)
Calling ==
  cpc \in {"idle", "first"} /\ epc = "loop" /\ up = <<>> /\ Coming = <<>>

(* The First Frame goes up, Flow Control comes back.                         *)
Opening ==
  /\ cpc = "flow" /\ epc = "loop"
  /\ \/ Alone(up, "FF") /\ up[1].len = out.len /\ Coming = <<>>
     \/ up = <<>> /\ Alone(Coming, "FC") /\ Receives /\ Len(rx.got) = 1

(* The rest of the request, or a request of one frame, goes up.              *)
Requesting ==
  /\ epc = "loop" /\ Coming = <<>>
  /\ \/ /\ cpc \in {"block", "answer"} /\ (cpc = "answer" => out.sent = out.len)
        /\ Receives /\ Run(up, Len(rx.got), out.sent)
     \/ cpc = "answer" /\ Alone(up, "SF")

(* The first frame of the answer comes or was taken.                         *)
Answered ==
  /\ up = <<>>
  /\ \/ cpc = "answer" /\ epc = "loop" /\ Alone(Coming, "SF")
     \/ cpc = "answer" /\ epc = "flow" /\ Alone(Coming, "FF") /\ Coming[1].len = resp.len
     \/ /\ cpc = "cts" /\ epc = "flow" /\ Coming = <<>>
        /\ parts.total = resp.len /\ Len(parts.got) = 1

(* Flow Control goes up, the rest of the answer comes.                       *)
Collecting ==
  /\ cpc = "collect" /\ parts.total = resp.len
  /\ \/ epc = "flow" /\ Alone(up, "FC") /\ Coming = <<>> /\ Len(parts.got) = 1
     \/ /\ epc # "flow" /\ up = <<>> /\ (epc = "loop" => resp.sent = resp.len)
        /\ Run(Coming, Len(parts.got), resp.sent)

Staged == Calling \/ Opening \/ Requesting \/ Answered \/ Collecting

CleanInv == clean => ret.code # "error" /\ Staged

LEMMA RunLonger ==
  ASSUME NEW s \in Seq(Formed), NEW t \in Seq(Formed), NEW x, Longer(t, s, x),
         NEW i \in Nat, NEW j \in Nat, Run(s, i, j), x.type = "CF", x.k = j + 1
  PROVE  Run(t, i, j + 1)
<1>1. Len(s) \in Nat /\ Len(t) = Len(s) + 1 /\ Len(s) + i = j + 1
      BY LenProperties DEF Longer, Run
<1>2. ASSUME NEW p \in 1..Len(t) PROVE t[p].type = "CF" /\ t[p].k + 1 = i + p
  <2>1. CASE p = Len(t)
    <3>1. t[p] = x /\ p + i = j + 2
          BY <1>1, <2>1 DEF Longer
    <3>2. QED
          BY <1>1, <3>1
  <2>2. CASE p # Len(t)
    <3>1. p \in 1..Len(s) /\ t[p] = s[p]
          BY <1>1, <2>2 DEF Longer
    <3>2. QED
          BY <3>1 DEF Run
  <2>3. QED
        BY <2>1, <2>2
<1>3. QED
      BY <1>1, <1>2 DEF Run

LEMMA RunWithout ==
  ASSUME NEW s \in Seq(Formed), NEW t \in Seq(Formed), Without(t, s, 1),
         NEW i \in Nat, NEW j \in Nat, Run(s, i, j)
  PROVE  Run(t, i + 1, j) /\ s[1].type = "CF" /\ s[1].k = i /\ i <= j
<1>1. Len(s) \in Nat \ {0} /\ Len(t) = Len(s) - 1 /\ Len(s) + i = j + 1 /\ Len(t) \in Nat
      BY LenProperties DEF Without, Run
<1>2. ASSUME NEW p \in 1..Len(t) PROVE t[p].type = "CF" /\ t[p].k + 1 = i + 1 + p
  <2>1. p + 1 \in 1..Len(s) /\ ~(p < 1)
        BY <1>1
  <2>2. t[p] = s[p + 1]
        BY <2>1 DEF Without
  <2>3. s[p + 1].type = "CF" /\ s[p + 1].k + 1 = i + (p + 1)
        BY <2>1 DEF Run
  <2>4. QED
        BY <1>1, <2>2, <2>3
<1>3. s[1].type = "CF" /\ s[1].k = i
  <2>1. 1 \in 1..Len(s)
        BY <1>1
  <2>2. s[1].type = "CF" /\ s[1].k + 1 = i + 1 /\ s[1].k \in Nat
    <3>1. s[1] \in Formed
          BY <2>1
    <3>2. QED
          BY <2>1, <3>1, FormedIs DEF Run
  <2>3. QED
        BY <2>2
<1>4. Run(t, i + 1, j)
  <2>1. Len(t) + (i + 1) = j + 1
        BY <1>1
  <2>2. QED
        BY <1>2, <2>1 DEF Run
<1>5. i <= j
      BY <1>1
<1>6. QED
      BY <1>3, <1>4, <1>5

LEMMA RunNone == ASSUME NEW s, s = <<>> PROVE Run(s, 1, 0)
<1>1. Len(s) = 0 /\ 0 + 1 = 0 + 1
      OBVIOUS
<1>2. QED
      BY <1>1 DEF Run

LEMMA RunSome ==
  ASSUME NEW s \in Seq(Formed), NEW i \in Nat, NEW j \in Nat, Run(s, i, j), i <= j
  PROVE  s # <<>>
<1>1. Len(s) + i = j + 1 /\ Len(s) \in Nat
      BY LenProperties DEF Run
<1>2. Len(s) # 0
      BY <1>1
<1>3. QED
      BY <1>2, EmptySeq

(* The last of the frames is the only one left.                              *)
LEMMA RunLast ==
  ASSUME NEW s \in Seq(Formed), s # <<>>, NEW i \in Nat, NEW j \in Nat, Run(s, i, j), j <= i
  PROVE  Len(s) = 1 /\ j = i
<1> DEFINE m == Len(s)
<1>1. m + i = j + 1 /\ m \in Nat /\ m # 0
      BY LenProperties, EmptySeq DEF Run
<1> HIDE DEF m
<1>2. m = 1 /\ j = i
      BY <1>1
<1>3. QED
      BY <1>2 DEF m

LEMMA AloneIs ==
  ASSUME NEW s \in Seq(Formed), NEW t \in Seq(Formed)
  PROVE  /\ \A x : s = <<>> /\ Longer(t, s, x) => Len(t) = 1 /\ t[1] = x
         /\ Len(s) = 1 /\ Without(t, s, 1) => t = <<>>
<1>1. (s = <<>> <=> Len(s) = 0) /\ (t = <<>> <=> Len(t) = 0)
      BY EmptySeq
<1>2. ASSUME NEW x, s = <<>>, Longer(t, s, x) PROVE Len(t) = 1 /\ t[1] = x
  <2>1. Len(t) = 1 /\ t[Len(t)] = x
        BY <1>1, <1>2 DEF Longer
  <2>2. QED
        BY <2>1
<1>3. Len(s) = 1 /\ Without(t, s, 1) => t = <<>>
      BY <1>1 DEF Without
<1>4. QED
      BY <1>2, <1>3

LEMMA UpIs ==
  ASSUME TypeInv, up # <<>>
  PROVE  /\ Head(up) = up[1] /\ up[1] \in Formed /\ Tail(up) \in Seq(Formed)
         /\ Without(Tail(up), up, 1)
BY UpTypes, TailIs

(* The first frame on its way to the client is the first in the ring, if     *)
(* that holds any.                                                           *)
LEMMA RingIs ==
  ASSUME TypeInv, ring # <<>>
  PROVE  /\ Coming # <<>> /\ Coming[1] = Head(ring) /\ Coming[1] \in Formed
         /\ Len(Coming) = 1 => down = <<>>
<1>1. ring \in Seq(Formed) /\ down \in Seq(Formed) /\ Len(ring) \in Nat \ {0} /\ Len(down) \in Nat
      BY ComingIs, TailIs, LenProperties
<1>2. Len(Coming) = Len(ring) + Len(down) /\ Coming \in Seq(Formed)
      BY <1>1, ConcatIs DEF Coming
<1>3. Coming[1] = Head(ring)
      BY <1>1, ConcatTail DEF Coming
<1>4. Coming # <<>> /\ 1 \in 1..Len(Coming)
      BY <1>1, <1>2, EmptySeq
<1>5. Len(Coming) = 1 => down = <<>>
      BY <1>1, <1>2, EmptySeq
<1>6. QED
      BY <1>2, <1>3, <1>4, <1>5

(* Steps that leave the frames that come alone.                              *)
LEMMA CleanSend ==
  ASSUME TypeInv, CleanInv, SendFirst \/ SendBlock \/ SendFlow PROVE CleanInv'
<1>1. SUFFICES ASSUME clean PROVE Staged' /\ ret'.code # "error"
      BY DEF CleanInv, SendFirst, SendBlock, SendFlow
<1>2. /\ Staged /\ ret.code # "error" /\ UNCHANGED <<ret, parts, epc, rx, resp>> /\ Coming' = Coming
      /\ up \in Seq(Formed) /\ out.len \in Nat /\ out.sent \in Nat /\ out.len \in Sizes
      BY <1>1, UpTypes DEF CleanInv, SendFirst, SendBlock, SendFlow, ecu, Coming
<1>3. CASE SendFirst
  <2> DEFINE x == First(n, out.len)
  <2>1. /\ cpc = "first" /\ up' = Append(up, x) /\ out' = out
        /\ cpc' = IF out.len = 0 THEN "answer" ELSE "flow"
        BY <1>3 DEF SendFirst
  <2>2. Calling
        BY <1>2, <2>1 DEF Staged, Calling, Opening, Requesting, Answered, Collecting
  <2>3. x \in Formed /\ x.type = (IF out.len = 0 THEN "SF" ELSE "FF") /\ x.len = out.len
    <3>1. n \in 1..MaxCalls /\ out.len \in Sizes
          BY <1>2, <2>1, IsoTpAssumption DEF TypeInv, ClientInv
    <3>2. QED
          BY <3>1, FramesFormed, FramesAre DEF Sizes
  <2> HIDE DEF x
  <2>4. up' \in Seq(Formed) /\ Longer(up', up, x)
        BY <1>2, <2>1, <2>3, AppendIs
  <2>5. Len(up') = 1 /\ up'[1] = x
        BY <1>2, <2>2, <2>4, AloneIs DEF Calling
  <2>6. QED
        BY <1>2, <2>1, <2>2, <2>3, <2>5 DEF Staged, Calling, Opening, Requesting, Alone
<1>4. CASE SendBlock
  <2> DEFINE x == Consecutive(n, out.sent + 1)
  <2>1. /\ cpc = "block" /\ up' = Append(up, x)
        /\ cpc' = IF out.sent + 1 = out.len THEN "answer" ELSE "block"
        /\ out' = [out EXCEPT !.sent = @ + 1] /\ out \in [len : Sizes, sent : Nat]
        /\ out.sent < out.len
        BY <1>4 DEF SendBlock, TypeInv, ClientInv
  <2>2. Requesting
        BY <1>2, <2>1 DEF Staged, Calling, Opening, Requesting, Answered, Collecting
  <2>3. out'.len = out.len /\ out'.sent = out.sent + 1
        BY <2>1
  <2>4. x \in Formed /\ x.type = "CF" /\ x.k = out.sent + 1
    <3>1. n \in 1..MaxCalls
          BY <2>1, IsoTpAssumption DEF TypeInv, ClientInv
    <3>2. out.sent + 1 \in 1..MaxLength
          BY <1>2, <2>1, MaxLengthIs
    <3>3. QED
          BY <3>1, <3>2, FramesFormed, FramesAre
  <2> HIDE DEF x
  <2>5. up' \in Seq(Formed) /\ Longer(up', up, x)
        BY <1>2, <2>1, <2>4, AppendIs
  <2>6. Run(up, Len(rx.got), out.sent) /\ Receives
        BY <2>1, <2>2 DEF Requesting
  <2>7. Len(rx.got) \in Nat
        BY UpTypes, LenProperties
  <2>8. Run(up', Len(rx.got), out.sent + 1)
        BY <1>2, <2>4, <2>5, <2>6, <2>7, RunLonger
  <2>9. Requesting'
        BY <1>2, <2>1, <2>2, <2>3, <2>6, <2>8 DEF Requesting, Receives
  <2>10. QED
        BY <1>2, <2>9 DEF Staged
<1>5. CASE SendFlow
  <2> DEFINE x == FlowControl(Head(parts.got).n)
  <2>1. cpc = "cts" /\ up' = Append(up, x) /\ cpc' = "collect" /\ x.type = "FC"
        BY <1>5, FramesAre DEF SendFlow
  <2>2. Answered
        BY <1>2, <2>1 DEF Staged, Calling, Opening, Requesting, Answered, Collecting
  <2>3. x \in Formed
    <3>1. Head(parts.got) \in Piece
      <4>1. parts.got \in Seq(Piece) /\ parts.got # <<>>
            BY <2>1, PartsAre DEF Assembling
      <4>2. QED
            BY <4>1, TailIs
    <3>2. Head(parts.got).n \in 1..MaxCalls
          BY <3>1, PieceIs
    <3>3. QED
          BY <3>2, FramesFormed
  <2> HIDE DEF x
  <2>4. up' \in Seq(Formed) /\ Longer(up', up, x)
        BY <1>2, <2>1, <2>3, AppendIs
  <2>5. Len(up') = 1 /\ up'[1] = x
        BY <1>2, <2>2, <2>4, AloneIs DEF Answered
  <2>6. QED
        BY <1>2, <2>1, <2>2, <2>5 DEF Staged, Answered, Collecting, Alone
<1>6. QED
      BY <1>3, <1>4, <1>5

LEMMA CleanReceive ==
  ASSUME TypeInv, CleanInv, [Next]_vars, AwaitFlow \/ BeginAnswer \/ Collect \/ Refuse
  PROVE  CleanInv'
<1> DEFINE h == Head(ring)
<1>1. SUFFICES ASSUME clean PROVE Staged' /\ ret'.code # "error"
      BY DEF CleanInv, AwaitFlow, BeginAnswer, Collect, Refuse
<1>2. /\ Staged /\ ret.code # "error" /\ UNCHANGED <<n, out, up, down, epc, rx, resp>>
      /\ ring # <<>> /\ Coming # <<>> /\ h = Coming[1]
      /\ Coming \in Seq(Formed) /\ Coming' \in Seq(Formed)
      /\ (Len(Coming) = 1 => down = <<>>)
      BY <1>1, RingIs, ComingIs, ComingNext
      DEF CleanInv, AwaitFlow, BeginAnswer, Collect, Refuse, ecu
<1>3. ring' = Tail(ring) => Without(Coming', Coming, 1)
      BY <1>2, TakeComes
<1>4. ring' = Tail(ring) /\ Len(Coming) = 1 => Coming' = <<>>
      BY <1>2, <1>3, AloneIs
<1>5. ring' = <<>> /\ Len(Coming) = 1 => Coming' = <<>>
      BY <1>2, ConcatEmptySeq DEF Coming
<1> HIDE DEF h
<1>6. CASE AwaitFlow
  <2>1. /\ cpc = "flow" /\ ring' = Tail(ring) /\ ret' = ret
        /\ cpc' = IF h.type = "FC" THEN "block" ELSE "flow"
        BY <1>6 DEF AwaitFlow, h
  <2>2. Opening
        BY <1>2, <2>1 DEF Staged, Calling, Opening, Requesting, Answered, Collecting
  <2>3. up = <<>> /\ Alone(Coming, "FC") /\ Receives /\ Len(rx.got) = 1 /\ epc = "loop"
        BY <1>2, <2>2 DEF Opening
  <2>4. cpc' = "block" /\ Coming' = <<>>
        BY <1>2, <1>4, <2>1, <2>3 DEF Alone
  <2>5. Run(up, Len(rx.got), out.sent)
    <3>1. out.sent = 0 /\ 1 = 0 + 1 /\ up \in Seq(Formed)
          BY <2>1, UpTypes DEF TypeInv, ClientInv
    <3>2. Run(up, 1, 0)
          BY <2>3, RunNone
    <3>3. QED
          BY <2>3, <3>1, <3>2
  <2>6. Requesting'
        BY <1>2, <2>3, <2>4, <2>5 DEF Requesting, Receives
  <2>7. QED
        BY <1>2, <2>1, <2>6 DEF Staged
<1>7. CASE BeginAnswer
  <2>1. /\ cpc = "answer" /\ parts' = Begin(h)
        /\ \/ h.type = "SF" /\ Finish("OK")
           \/ h.type = "FF" /\ cpc' = "cts" /\ ring' = Tail(ring) /\ UNCHANGED ret
        BY <1>7 DEF BeginAnswer, h
  <2>2. Answered
        BY <1>2, <2>1 DEF Staged, Calling, Opening, Requesting, Answered, Collecting
  <2>3. CASE h.type = "SF" /\ Finish("OK")
    <3>1. cpc' = "idle" /\ ret'.code = "OK" /\ ring' = <<>>
          BY <2>3 DEF Finish
    <3>2. epc = "loop" /\ up = <<>> /\ Len(Coming) = 1
          BY <1>2, <2>1, <2>2, <2>3 DEF Answered, Alone
    <3>3. Calling'
          BY <1>2, <1>5, <3>1, <3>2 DEF Calling
    <3>4. QED
          BY <3>1, <3>3 DEF Staged
  <2>4. CASE h.type = "FF" /\ cpc' = "cts" /\ ring' = Tail(ring) /\ UNCHANGED ret
    <3>1. epc = "flow" /\ up = <<>> /\ Len(Coming) = 1 /\ h.len = resp.len
          BY <1>2, <2>1, <2>2, <2>4 DEF Answered, Alone
    <3>2. parts'.total = h.len /\ Len(parts'.got) = 1
          BY <2>1 DEF Begin
    <3>3. Answered'
          BY <1>2, <1>4, <2>4, <3>1, <3>2 DEF Answered
    <3>4. QED
          BY <1>2, <2>4, <3>3 DEF Staged
  <2>5. QED
        BY <2>1, <2>3, <2>4
<1>8. ASSUME cpc = "collect"
      PROVE  /\ Collecting /\ epc # "flow" /\ up = <<>> /\ Expected(parts, h)
             /\ (epc = "loop" => resp.sent = resp.len) /\ parts.total = resp.len
             /\ Run(Coming, Len(parts.got), resp.sent)
             /\ Len(parts.got) \in Nat /\ resp.sent \in Nat /\ resp.len \in Nat
             /\ resp.sent <= resp.len /\ (epc # "loop" => resp.sent < resp.len)
  <2>1. Collecting
        BY <1>2, <1>8 DEF Staged, Calling, Opening, Requesting, Answered, Collecting
  <2>2. /\ epc # "flow" /\ up = <<>> /\ Run(Coming, Len(parts.got), resp.sent)
        /\ (epc = "loop" => resp.sent = resp.len) /\ parts.total = resp.len
        BY <1>2, <2>1 DEF Collecting
  <2>3. /\ Len(parts.got) \in Nat /\ resp.sent \in Nat /\ resp.len \in Nat
        /\ resp.sent <= resp.len /\ (epc # "loop" => resp.sent < resp.len)
    <3>1. parts.got \in Seq(Piece)
          BY DEF TypeInv, ClientInv
    <3>2. resp \in [n : 0..MaxCalls, len : Sizes, sent : Nat] /\ resp.sent <= resp.len
          BY DEF TypeInv, EcuInv
    <3>3. QED
          BY <3>1, <3>2, LenProperties, MaxLengthIs DEF TypeInv, EcuInv
  <2>4. h.type = "CF" /\ h.k = Len(parts.got)
    <3>1. Without(Tail(ring) \o down, Coming, 1) /\ Tail(ring) \o down \in Seq(Formed)
          BY <1>2, ComingIs, ConcatTail, HeadFormed, ConcatIs DEF Coming
    <3>2. QED
          BY <1>2, <2>2, <2>3, <3>1, RunWithout
  <2>5. Expected(parts, h)
        BY <2>4 DEF Expected, Sequence
  <2>6. QED
        BY <2>1, <2>2, <2>3, <2>5
<1>9. CASE Collect
  <2>1. /\ cpc = "collect" /\ parts' = [parts EXCEPT !.got = Append(@, Data(h))]
        /\ \/ Len(parts'.got) = parts.total + 1 /\ Finish("OK")
           \/ ring' = Tail(ring) /\ UNCHANGED <<cpc, ret>>
        BY <1>9 DEF Collect, h
  <2>2. parts'.total = parts.total /\ Len(parts'.got) = Len(parts.got) + 1
    <3>1. parts \in [total : Sizes, got : Seq(Piece)] /\ h \in Formed
          BY <1>2, RingIs DEF TypeInv, ClientInv
    <3>2. Data(h) \in Piece /\ parts.got \in Seq(Piece)
          BY <3>1, FormedIs
    <3>3. parts'.got = Append(parts.got, Data(h)) /\ parts'.total = parts.total
          BY <2>1, <3>1
    <3>4. QED
          BY <3>2, <3>3, PiecesGrow
  <2>3. CASE Len(parts'.got) = parts.total + 1 /\ Finish("OK")
    <3>1. cpc' = "idle" /\ ret'.code = "OK" /\ ring' = <<>>
          BY <2>3 DEF Finish
    <3>2. Len(parts.got) = resp.len /\ epc = "loop" /\ Len(Coming) = 1
      <4>1. Len(parts.got) = resp.len
            BY <1>8, <2>1, <2>2, <2>3
      <4>2. Len(Coming) = 1 /\ resp.sent = resp.len
            BY <1>2, <1>8, <2>1, <4>1, RunLast
      <4>3. epc = "loop"
            BY <1>8, <2>1, <4>2
      <4>4. QED
            BY <4>1, <4>2, <4>3
    <3>3. Calling'
          BY <1>2, <1>5, <1>8, <2>1, <3>1, <3>2 DEF Calling
    <3>4. QED
          BY <3>1, <3>3 DEF Staged
  <2>4. CASE ring' = Tail(ring) /\ UNCHANGED <<cpc, ret>>
    <3>1. Run(Coming', Len(parts.got) + 1, resp.sent)
          BY <1>2, <1>3, <1>8, <2>1, <2>4, RunWithout
    <3>2. Collecting'
          BY <1>2, <1>8, <2>1, <2>2, <2>4, <3>1 DEF Collecting
    <3>3. QED
          BY <1>2, <2>4, <3>2 DEF Staged
  <2>5. QED
        BY <2>1, <2>3, <2>4
<1>10. CASE Refuse
  <2>1. \/ cpc = "answer" /\ h.type \notin {"SF", "FF"}
        \/ cpc = "collect" /\ ~Expected(parts, h)
        BY <1>10 DEF Refuse, h
  <2>2. cpc = "answer" => Answered
        BY <1>2 DEF Staged, Calling, Opening, Requesting, Answered, Collecting
  <2>3. cpc = "answer" => h.type \in {"SF", "FF"}
        BY <1>2, <2>2 DEF Answered, Alone
  <2>4. QED
        BY <1>8, <2>1, <2>3
<1>11. QED
       BY <1>6, <1>7, <1>9, <1>10

LEMMA CleanDeliver ==
  ASSUME TypeInv, CleanInv, Deliver PROVE CleanInv'
<1>1. SUFFICES ASSUME clean' PROVE Staged' /\ ret'.code # "error"
      BY DEF CleanInv
<1>2. clean /\ UNCHANGED <<n, cpc, out, parts, ret, up, epc, rx, resp>> /\ down # <<>>
      BY <1>1 DEF Deliver, ecu
<1>3. Staged /\ ret.code # "error"
      BY <1>2 DEF CleanInv
<1>4. cpc # "idle"
  <2>1. Coming # <<>>
    <3>1. Len(Coming) = Len(ring) + Len(down) /\ Len(ring) \in Nat /\ Len(down) \in Nat \ {0}
          BY <1>2, ComingIs, ConcatIs, TailIs DEF Coming
    <3>2. QED
          BY <3>1, ComingIs, EmptySeq
  <2>2. QED
        BY <1>3, <2>1 DEF Staged, Calling, Opening, Requesting, Answered, Collecting
<1>5. Coming' = Coming
      BY <1>1, <1>4, DeliverComes
<1>6. QED
      BY <1>2, <1>3, <1>5
      DEF Staged, Calling, Opening, Requesting, Answered, Collecting, Receives

LEMMA CleanTake ==
  ASSUME TypeInv, CleanInv, TakeSingle \/ TakeFirst \/ TakeConsecutive \/ TakeOther
  PROVE  CleanInv'
<1> DEFINE h == Head(up)
<1>1. SUFFICES ASSUME clean' PROVE Staged' /\ ret'.code # "error"
      BY DEF CleanInv
<1>2. /\ clean /\ UNCHANGED <<n, cpc, out, parts, ret, ring>>
      /\ up # <<>> /\ up' = Tail(up) /\ epc = "loop"
      BY <1>1 DEF TakeSingle, TakeFirst, TakeConsecutive, TakeOther, client, Serve, Answer
<1>3. /\ Staged /\ ret.code # "error" /\ up \in Seq(Formed) /\ up' \in Seq(Formed)
      /\ Without(up', up, 1) /\ h = up[1] /\ h \in Formed
      /\ Len(up) = 1 => up' = <<>>
      BY <1>2, UpTypes, UpIs, AloneIs DEF CleanInv
<1> HIDE DEF h
<1>4. Opening \/ Requesting
      BY <1>2, <1>3 DEF Staged, Calling, Answered, Collecting
<1>5. Coming \in Seq(Formed) /\ ((Opening /\ Alone(up, "FF")) \/ Requesting => Coming = <<>>)
      BY ComingIs DEF Opening, Requesting, Alone
(* The stages in which a frame of the request is on its way.                 *)
<1>6. \/ Opening /\ h.type = "FF" /\ Len(up) = 1 /\ h.len = out.len
      \/ Requesting /\ cpc = "answer" /\ h.type = "SF" /\ Len(up) = 1
      \/ /\ Requesting /\ Receives /\ Run(up, Len(rx.got), out.sent)
         /\ h.type = "CF" /\ h.k = Len(rx.got) /\ h.k <= out.sent
  <2>1. Len(rx.got) \in Nat /\ out.sent \in Nat
        BY UpTypes, LenProperties
  <2>2. Run(up, Len(rx.got), out.sent)
          => h.type = "CF" /\ h.k = Len(rx.got) /\ h.k <= out.sent
        BY <1>3, <2>1, RunWithout
  <2>3. CASE Opening
        BY <1>2, <1>3, <2>3 DEF Opening, Alone
  <2>4. CASE Requesting
        BY <1>3, <2>2, <2>4 DEF Requesting, Alone
  <2>5. QED
        BY <1>4, <2>3, <2>4
(* What serving it leads to.                                                 *)
<1>7. ASSUME NEW m \in 1..MaxCalls, Answer(m), cpc = "answer", up' = <<>>, Coming = <<>>
      PROVE  Answered'
  <2>1. PICK l \in Lengths : /\ down' = Append(down, First(m, l))
                             /\ resp' = [n |-> m, len |-> l, sent |-> 0]
                             /\ epc' = IF l = 0 THEN "loop" ELSE "flow"
        BY <1>1, <1>7 DEF Answer
  <2> DEFINE x == First(m, l)
  <2>2. x \in Formed /\ x.type = (IF l = 0 THEN "SF" ELSE "FF") /\ x.len = l
        BY FramesFormed, FramesAre
  <2>3. down' = Append(down, x) /\ resp'.len = l
        BY <2>1
  <2> HIDE DEF x
  <2>4. Longer(Coming', Coming, x) /\ Coming' \in Seq(Formed)
    <3>1. Longer(Coming', Coming, x)
          BY <1>2, <2>2, <2>3, SendComes
    <3>2. Coming' \in Seq(Formed)
          BY <1>2, <2>2, <2>3, ComingIs, AppendIs, ConcatIs DEF Coming
    <3>3. QED
          BY <3>1, <3>2
  <2>5. Len(Coming') = 1 /\ Coming'[1] = x
        BY <1>5, <1>7, <2>4, AloneIs
  <2>6. QED
        BY <1>2, <1>7, <2>1, <2>2, <2>3, <2>5 DEF Answered, Alone
<1>8. CASE TakeSingle
  <2>1. h.type = "SF" /\ Serve(<<Data(h)>>)
        BY <1>8 DEF TakeSingle, h
  <2>2. cpc = "answer" /\ up' = <<>> /\ Coming = <<>>
        BY <1>3, <1>5, <1>6, <2>1
  <2>3. h.n \in 1..MaxCalls /\ Data(h).n = h.n
        BY <1>3, FormedIs
  <2>4. Answer(h.n)
    <3>1. Answer(<<Data(h)>>[1].n)
          BY <2>1 DEF Serve
    <3>2. QED
          BY <2>3, <3>1
  <2>5. QED
        BY <1>2, <1>3, <1>7, <2>2, <2>3, <2>4 DEF Staged
<1>9. CASE TakeFirst
  <2> DEFINE x == FlowControl(h.n)
  <2>1. /\ h.type = "FF" /\ rx' = [active |-> TRUE, total |-> h.len, got |-> <<Data(h)>>]
        /\ down' = Append(down, x) /\ epc' = epc
        BY <1>1, <1>9 DEF TakeFirst, h
  <2>2. x \in Formed /\ x.type = "FC"
    <3>1. h.n \in 1..MaxCalls
          BY <1>3, FormedIs
    <3>2. QED
          BY <3>1, FramesFormed, FramesAre
  <2> HIDE DEF x
  <2>3. Opening /\ Len(up) = 1 /\ h.len = out.len /\ Coming = <<>>
        BY <1>3, <1>5, <1>6, <2>1 DEF Alone
  <2>4. Longer(Coming', Coming, x) /\ Coming' \in Seq(Formed)
    <3>1. Longer(Coming', Coming, x)
          BY <1>2, <2>1, <2>2, SendComes
    <3>2. Coming' \in Seq(Formed)
          BY <1>2, <2>1, <2>2, ComingIs, AppendIs, ConcatIs DEF Coming
    <3>3. QED
          BY <3>1, <3>2
  <2>5. Len(Coming') = 1 /\ Coming'[1] = x
        BY <1>5, <2>3, <2>4, AloneIs
  <2>6. rx'.active /\ rx'.total = h.len /\ Len(rx'.got) = 1
        BY <2>1
  <2>7. Opening'
        BY <1>2, <1>3, <2>1, <2>2, <2>3, <2>5, <2>6 DEF Opening, Alone, Receives
  <2>8. QED
        BY <1>2, <1>3, <2>7 DEF Staged
<1>10. CASE TakeConsecutive
  <2> DEFINE got == Append(rx.got, Data(h))
  <2>1. /\ h.type = "CF" /\ rx.active
        /\ \/ /\ Len(got) = rx.total + 1 /\ Serve(got)
           \/ rx' = [rx EXCEPT !.got = got] /\ UNCHANGED <<down, epc, resp>>
        BY <1>10 DEF TakeConsecutive, h
  <2>2. /\ Requesting /\ Receives /\ Run(up, Len(rx.got), out.sent) /\ Coming = <<>>
        /\ rx.total = out.len
        BY <1>5, <1>6, <2>1 DEF Receives
  <2>3. /\ rx \in [active : BOOLEAN, total : Sizes, got : Seq(Piece)] /\ rx.got \in Seq(Piece)
        /\ Len(rx.got) \in Nat \ {0} /\ Data(h) \in Piece
    <3>1. Len(rx.got) \in 1..rx.total /\ rx \in [active : BOOLEAN, total : Sizes, got : Seq(Piece)]
          BY <2>1 DEF TypeInv, EcuInv
    <3>2. QED
          BY <1>3, <3>1, FormedIs, UpTypes
  <2>4. got \in Seq(Piece) /\ Len(got) = Len(rx.got) + 1 /\ got[1] = rx.got[1] /\ rx.got[1] \in Piece
    <3>1. Longer(got, rx.got, Data(h)) /\ got \in Seq(Piece)
          BY <2>3, PiecesGrow
    <3>2. QED
          BY <2>3, <3>1 DEF Longer
  <2> HIDE DEF got
  <2>5. /\ out.len \in Nat /\ out.sent \in Nat /\ out.sent <= out.len
        /\ cpc \in {"block", "answer"} /\ (cpc = "answer" => out.sent = out.len)
        /\ (cpc = "block" => out.sent < out.len)
    <3>1. cpc \in {"block", "answer"} /\ (cpc = "answer" => out.sent = out.len)
          BY <1>6, <2>1, <2>2, <1>3 DEF Requesting, Alone
    <3>2. QED
          BY <3>1, UpTypes DEF TypeInv, ClientInv
  <2>6. CASE Len(got) = rx.total + 1 /\ Serve(got)
    <3>1. Len(rx.got) = out.len
          BY <2>2, <2>3, <2>4, <2>5, <2>6
    <3>2. Len(up) = 1 /\ out.sent = out.len
          BY <1>2, <1>3, <2>2, <2>5, <3>1, RunLast
    <3>3. cpc = "answer" /\ up' = <<>>
          BY <1>3, <2>5, <3>2
    <3>4. PICK m : m = rx.got[1].n
          OBVIOUS
    <3>5. Answer(m) /\ m \in 1..MaxCalls
          BY <2>4, <2>6, <3>4, PieceIs DEF Serve
    <3>6. QED
          BY <1>2, <1>3, <1>7, <2>2, <3>3, <3>5 DEF Staged
  <2>7. CASE rx' = [rx EXCEPT !.got = got] /\ UNCHANGED <<down, epc, resp>>
    <3>1. rx'.active = rx.active /\ rx'.total = rx.total /\ Len(rx'.got) = Len(rx.got) + 1
          BY <2>3, <2>4, <2>7
    <3>2. Run(up', Len(rx.got) + 1, out.sent)
          BY <1>3, <2>2, <2>3, <2>5, RunWithout
    <3>3. Coming' = <<>>
          BY <1>2, <2>2, <2>7 DEF Coming
    <3>4. Requesting'
          BY <1>2, <2>1, <2>2, <2>5, <2>7, <3>1, <3>2, <3>3 DEF Requesting, Receives
    <3>5. QED
          BY <1>2, <1>3, <3>4 DEF Staged
  <2>8. QED
        BY <2>1, <2>6, <2>7
<1>11. CASE TakeOther
  <2>1. \/ h.type = "CF" /\ (rx.active => ~Expected(rx, h))
        \/ h.type = "FC"
        BY <1>11 DEF TakeOther, h
  <2>2. h.type = "CF" => rx.active /\ h.k = Len(rx.got)
        BY <1>6 DEF Receives
  <2>3. h.type = "CF" => rx.active /\ Expected(rx, h)
        BY <2>2 DEF Expected, Sequence
  <2>4. h.type # "FC"
        BY <1>6
  <2>5. QED
        BY <2>1, <2>3, <2>4
<1>12. QED
       BY <1>8, <1>9, <1>10, <1>11

LEMMA CleanBlock ==
  ASSUME TypeInv, CleanInv, [Next]_vars, EcuAwaitFlow \/ EcuSendBlock PROVE CleanInv'
<1>1. SUFFICES ASSUME clean PROVE Staged' /\ ret'.code # "error"
      BY DEF CleanInv, EcuAwaitFlow, EcuSendBlock
<1>2. /\ Staged /\ ret.code # "error" /\ UNCHANGED <<n, cpc, out, parts, ret, ring, rx>>
      /\ epc # "loop"
      BY <1>1 DEF CleanInv, EcuAwaitFlow, EcuSendBlock, client
<1>3. Coming \in Seq(Formed) /\ Coming' \in Seq(Formed) /\ up \in Seq(Formed)
      BY ComingIs, ComingNext, UpTypes
<1>4. CASE EcuAwaitFlow
  <2>1. /\ epc = "flow" /\ up # <<>> /\ up' = Tail(up) /\ UNCHANGED <<down, resp>>
        /\ epc' = IF Head(up).type = "FC" THEN "block" ELSE "flow"
        BY <1>4 DEF EcuAwaitFlow
  <2>2. Collecting /\ Alone(up, "FC") /\ Coming = <<>> /\ Len(parts.got) = 1 /\ cpc = "collect"
        BY <1>2, <2>1 DEF Staged, Calling, Opening, Requesting, Answered, Collecting
  <2>3. Head(up) = up[1] /\ up' \in Seq(Formed) /\ Without(up', up, 1)
        BY <2>1, UpIs
  <2>4. epc' = "block" /\ up' = <<>>
        BY <1>3, <2>1, <2>2, <2>3, AloneIs DEF Alone
  <2>5. Coming' = Coming
        BY <1>2, <2>1 DEF Coming
  <2>6. Run(Coming, Len(parts.got), resp.sent)
    <3>1. resp.sent = 0 /\ 1 = 0 + 1
          BY <2>1 DEF TypeInv, EcuInv
    <3>2. Run(Coming, 1, 0)
          BY <2>2, RunNone
    <3>3. QED
          BY <2>2, <3>1, <3>2
  <2>7. Collecting'
        BY <1>2, <2>1, <2>2, <2>4, <2>5, <2>6 DEF Collecting
  <2>8. QED
        BY <1>2, <2>7 DEF Staged
<1>5. CASE EcuSendBlock
  <2> DEFINE x == Consecutive(resp.n, resp.sent + 1)
  <2>1. /\ down' = Append(down, x) /\ x \in Formed /\ x.k = resp.sent + 1 /\ x.type = "CF"
        /\ resp'.len = resp.len /\ resp'.sent = resp.sent + 1
        /\ resp.sent \in Nat /\ resp.len \in Nat
        BY <1>5, BlockSends
  <2>2. /\ epc = "block" /\ up' = up
        /\ epc' = IF resp.sent + 1 = resp.len THEN "loop" ELSE "block"
        BY <1>5 DEF EcuSendBlock
  <2> HIDE DEF x
  <2>3. /\ Collecting /\ up = <<>> /\ cpc = "collect" /\ parts.total = resp.len
        /\ Run(Coming, Len(parts.got), resp.sent)
        BY <1>2, <2>2 DEF Staged, Calling, Opening, Requesting, Answered, Collecting
  <2>4. Longer(Coming', Coming, x)
        BY <1>2, <2>1, SendComes
  <2>5. Len(parts.got) \in Nat
        BY LenProperties DEF TypeInv, ClientInv
  <2>6. Run(Coming', Len(parts.got), resp.sent + 1)
        BY <1>3, <2>1, <2>3, <2>4, <2>5, RunLonger
  <2>7. Collecting'
        BY <1>2, <2>1, <2>2, <2>3, <2>6 DEF Collecting
  <2>8. QED
        BY <1>2, <2>7 DEF Staged
<1>6. QED
      BY <1>4, <1>5

LEMMA CleanCall == ASSUME TypeInv, Call PROVE CleanInv'
<1>1. SUFFICES ASSUME clean' PROVE Staged' /\ ret'.code # "error"
      BY DEF CleanInv
<1>2. /\ up' = <<>> /\ down' = <<>> /\ epc' = "loop" /\ cpc' = "first" /\ ret'.code = "none"
      /\ ring' = <<>>
      BY <1>1 DEF Call, Quiet, ecu, TypeInv, ClientInv
<1>3. Coming' = <<>>
  <2>1. <<>> \o <<>> = <<>>
        OBVIOUS
  <2>2. QED
        BY <1>2, <2>1 DEF Coming
<1>4. QED
      BY <1>2, <1>3 DEF Staged, Calling

LEMMA NextClean == ASSUME TypeInv, CleanInv, [Next]_vars PROVE CleanInv'
<1>1. CASE GiveUp \/ Lose \/ EcuGiveUp
      BY <1>1 DEF GiveUp, Lose, EcuGiveUp, CleanInv
<1>2. CASE UNCHANGED vars
      BY <1>2 DEF vars, client, ecu, CleanInv, Staged, Calling, Opening, Requesting, Answered,
         Collecting, Coming, Receives
<1>3. QED
      BY <1>1, <1>2, CleanCall, CleanSend, CleanReceive, CleanDeliver, CleanTake, CleanBlock
      DEF Next, Client, Ecu

LEMMA InitClean == Init => CleanInv
<1>1. ASSUME Init PROVE CleanInv
  <2>1. <<>> \o <<>> = <<>>
        OBVIOUS
  <2>2. QED
        BY <1>1, <2>1 DEF Init, CleanInv, Staged, Calling, Coming
<1>2. QED
      BY <1>1

(* While nothing is lost and nobody's time is up, neither side refuses a     *)
(* frame of the other, and the two never wait for each other with no frame   *)
(* on its way, for payloads of any length and any modulus of the numbers.    *)
THEOREM UndisturbedCallsEnd == Spec => []UndisturbedCallsSucceed
<1>1. ASSUME TypeInv, CleanInv PROVE UndisturbedCallsSucceed
  <2>1. SUFFICES ASSUME clean
                 PROVE  /\ ret.code # "error"
                        /\ \/ cpc \in {"idle", "first", "block", "cts"} \/ epc = "block"
                           \/ ring # <<>> \/ up # <<>> \/ down # <<>>
        BY DEF UndisturbedCallsSucceed
  <2>2. Staged /\ ret.code # "error"
        BY <1>1, <2>1 DEF CleanInv
  <2>3. Coming # <<>> => ring # <<>> \/ down # <<>>
        BY DEF Coming
  <2>4. \A type : (Alone(up, type) => up # <<>>) /\ (Alone(Coming, type) => Coming # <<>>)
        BY DEF Alone
  <2>5. CASE Requesting /\ cpc = "answer"
    <3>1. CASE Receives /\ Run(up, Len(rx.got), out.sent) /\ out.sent = out.len
      <4>1. Len(rx.got) \in 1..rx.total /\ rx.total = out.len /\ out.sent \in Nat /\ up \in Seq(Formed)
            BY <1>1, <3>1, UpTypes DEF Receives, TypeInv, EcuInv
      <4>2. Len(rx.got) \in Nat /\ Len(rx.got) <= out.sent
            BY <3>1, <4>1
      <4>3. up # <<>>
            BY <3>1, <4>1, <4>2, RunSome
      <4>4. QED
            BY <2>2, <4>3
    <3>2. QED
          BY <2>2, <2>4, <2>5, <3>1 DEF Requesting
  <2>6. CASE Collecting
    <3>1. CASE Run(Coming, Len(parts.got), resp.sent) /\ epc = "loop"
      <4>1. Len(parts.got) \in 1..parts.total /\ parts.total = resp.len /\ resp.sent = resp.len
            BY <1>1, <2>6, <3>1 DEF Collecting, TypeInv, ClientInv
      <4>2. resp.sent \in Nat /\ Coming \in Seq(Formed)
            BY <1>1, ComingIs DEF TypeInv, EcuInv
      <4>3. Len(parts.got) \in Nat /\ Len(parts.got) <= resp.sent
            BY <4>1, <4>2
      <4>4. Coming # <<>>
            BY <3>1, <4>2, <4>3, RunSome
      <4>5. QED
            BY <2>2, <2>3, <4>4
    <3>2. epc = "loop" \/ epc = "block" \/ epc = "flow"
          BY <1>1 DEF TypeInv, EcuInv
    <3>3. QED
          BY <2>2, <2>4, <2>6, <3>1, <3>2 DEF Collecting
  <2>7. QED
        BY <2>2, <2>3, <2>4, <2>5, <2>6 DEF Staged, Calling, Opening, Requesting, Answered
<1>2. QED
      BY <1>1, InitClean, NextClean, TypeAlways, PTL DEF Spec
=============================================================================
