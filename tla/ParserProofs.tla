---------------------------- MODULE ParserProofs ----------------------------
(***************************************************************************)
(* The two parsers of http.c.  For all heads, limits and numbers:          *)
(* http_parse_request accepts exactly what the grammar of HTTP describes,  *)
(* and takes the method, the target and the length from it.  For every     *)
(* body, every set of strings and every limit: what http_parse_url_json    *)
(* accepts and returns is what the grammar of JSON and the product         *)
(* specification say of the whole text, and its recursion is bounded.      *)
(***************************************************************************)
EXTENDS RequestHead, JsonUrl, NumeralTheorems, FiniteSetTheorems

(* The first place of a symbol.                                            *)
LEMMA FindIs ==
    ASSUME NEW line \in Seq(HeadSymbol), NEW s, NEW i \in Nat \ {0}
    PROVE  \/ /\ Find(line, s, i) = 0
              /\ \A k \in i .. Len(line) : line[k] # s
           \/ /\ Find(line, s, i) \in i .. Len(line)
              /\ line[Find(line, s, i)] = s
              /\ \A k \in i .. (Find(line, s, i) - 1) : line[k] # s
    <1>0. Len(line) \in Nat
        OBVIOUS
    <1>1. CASE ~ \E k \in i .. Len(line) : line[k] = s
        BY <1>1 DEF Find
    <1>2. CASE \E k \in i .. Len(line) : line[k] = s
        <2> DEFINE T == {k \in i .. Len(line) : line[k] = s}
        <2>1. T \subseteq Nat /\ T # {}
            BY <1>0, <1>2
        <2>2. PICK k \in T : \A m \in T : k <= m
            BY <2>1, LeastNumber
        <2>3. /\ k \in i .. Len(line) /\ line[k] = s
              /\ \A m \in i .. (k - 1) : line[m] # s
            BY <1>0, <2>2
        <2> HIDE DEF T
        <2>4. Find(line, s, i) = CHOOSE j \in i .. Len(line) :
                  line[j] = s /\ \A m \in i .. (j - 1) : line[m] # s
            BY <1>2, Zenon DEF Find
        <2> QED BY <2>3, <2>4, Zenon
    <1> QED BY <1>1, <1>2

(* The only place that can be the first.                                   *)
LEMMA FindOne ==
    ASSUME NEW line \in Seq(HeadSymbol), NEW s, NEW i \in Nat \ {0},
           NEW k \in i .. Len(line), line[k] = s, \A m \in i .. (k - 1) : line[m] # s
    PROVE  Find(line, s, i) = k
    <1>1. PICK j \in Nat : j = Find(line, s, i) /\ j \in i .. Len(line) /\ line[j] = s
                     /\ \A m \in i .. (j - 1) : line[m] # s
        BY FindIs
    <1>2. ~ (j < k) /\ ~ (k < j)
        BY <1>1
    <1> QED BY <1>1, <1>2

(* A symbol that is not there has no place.                                *)
LEMMA FindNone ==
    ASSUME NEW line \in Seq(HeadSymbol), NEW s, NEW i \in Nat \ {0},
           \A k \in i .. Len(line) : line[k] # s
    PROVE  Find(line, s, i) = 0
    BY DEF Find

(* What separates the parts of a line is no token character.               *)
LEMMA TokensSeparate ==
    ASSUME NEW s, IsToken(s)
    PROVE  s # SP /\ s # ":"
    BY DEF IsToken, IsDigit, Digits, SP

(* What is_token_char lets pass is a token character or NUL.               *)
LEMMA TokensOrNul == \A s : IsToken(s) <=> s \in TokenOrNul
    BY DEF IsToken, IsDigit, Token, TokenOrNul

-----------------------------------------------------------------------------
(* The symbols of two texts, one behind the other.                         *)
LEMMA JoinTwo ==
    ASSUME NEW p \in Seq(HeadSymbol), NEW q \in Seq(HeadSymbol)
    PROVE  /\ p \o q \in Seq(HeadSymbol) /\ Len(p \o q) = Len(p) + Len(q)
           /\ \A i \in 1 .. Len(p) : (p \o q)[i] = p[i]
           /\ \A i \in 1 .. Len(q) : (p \o q)[Len(p) + i] = q[i]
    <1>1. Len(p) \in Nat /\ Len(q) \in Nat
        OBVIOUS
    <1> QED BY <1>1, ConcatProperties

(* The symbols of a request line.                                          *)
Assembled(m, t, v) == m \o <<SP>> \o t \o <<SP, v>>

IsAssembled(line, m, t, v) ==
    /\ line \in Seq(HeadSymbol) /\ Len(line) = Len(m) + Len(t) + 3
    /\ \A i \in 1 .. Len(m) : line[i] = m[i]
    /\ line[Len(m) + 1] = SP
    /\ \A i \in 1 .. Len(t) : line[Len(m) + 1 + i] = t[i]
    /\ line[Len(m) + Len(t) + 2] = SP /\ line[Len(m) + Len(t) + 3] = v

(* Every symbol of a request line has its place.                           *)
LEMMA AssembledIs ==
    ASSUME NEW m \in Seq(HeadSymbol), NEW t \in Seq(HeadSymbol), NEW v \in HeadSymbol
    PROVE  IsAssembled(Assembled(m, t, v), m, t, v)
    <1> DEFINE a == <<SP>>
               b == <<SP, v>>
               p == m \o a
               q == p \o t
    <1>1. /\ a \in Seq(HeadSymbol) /\ Len(a) = 1 /\ a[1] = SP
          /\ b \in Seq(HeadSymbol) /\ Len(b) = 2 /\ b[1] = SP /\ b[2] = v
        <2>1. SP \in HeadSymbol
            BY HeadAssumption DEF SP
        <2> QED BY <2>1
    <1>2. Len(m) \in Nat /\ Len(t) \in Nat
        OBVIOUS
    <1>3. Assembled(m, t, v) = q \o b
        BY DEF Assembled
    <1> HIDE DEF a, b
    <1>4. /\ p \in Seq(HeadSymbol) /\ Len(p) = Len(m) + 1
          /\ \A i \in 1 .. Len(m) : p[i] = m[i]
          /\ p[Len(m) + 1] = SP
        <2>1. /\ p \in Seq(HeadSymbol) /\ Len(p) = Len(m) + Len(a)
              /\ \A i \in 1 .. Len(m) : p[i] = m[i]
              /\ \A i \in 1 .. Len(a) : p[Len(m) + i] = a[i]
            BY <1>1, JoinTwo
        <2> HIDE DEF p
        <2>2. 1 \in 1 .. Len(a)
            BY <1>1
        <2> QED BY <1>1, <1>2, <2>1, <2>2
    <1> HIDE DEF p
    <1>5. /\ q \in Seq(HeadSymbol) /\ Len(q) = Len(p) + Len(t)
          /\ \A i \in 1 .. Len(p) : q[i] = p[i]
          /\ \A i \in 1 .. Len(t) : q[Len(p) + i] = t[i]
        BY <1>4, JoinTwo
    <1> HIDE DEF q
    <1>6. /\ q \o b \in Seq(HeadSymbol) /\ Len(q \o b) = Len(q) + Len(b)
          /\ \A i \in 1 .. Len(q) : (q \o b)[i] = q[i]
          /\ \A i \in 1 .. Len(b) : (q \o b)[Len(q) + i] = b[i]
        BY <1>1, <1>5, JoinTwo
    <1>7. Len(q) = Len(m) + Len(t) + 1 /\ Len(q \o b) = Len(m) + Len(t) + 3
        BY <1>1, <1>2, <1>4, <1>5, <1>6
    <1>8. \A i \in 1 .. Len(m) : (q \o b)[i] = m[i]
        BY <1>2, <1>4, <1>5, <1>6, <1>7
    <1>9. (q \o b)[Len(m) + 1] = SP
        BY <1>2, <1>4, <1>5, <1>6, <1>7
    <1>10. \A i \in 1 .. Len(t) : (q \o b)[Len(m) + 1 + i] = t[i]
        BY <1>2, <1>4, <1>5, <1>6, <1>7
    <1>11. (q \o b)[Len(m) + Len(t) + 2] = SP /\ (q \o b)[Len(m) + Len(t) + 3] = v
        <2>1. /\ 1 \in 1 .. Len(b) /\ Len(q) + 1 = Len(m) + Len(t) + 2
              /\ 2 \in 1 .. Len(b) /\ Len(q) + 2 = Len(m) + Len(t) + 3
            BY <1>1, <1>2, <1>7
        <2>2. (q \o b)[Len(q) + 1] = b[1] /\ (q \o b)[Len(q) + 2] = b[2]
            BY <1>6, <2>1
        <2> QED BY <1>1, <2>1, <2>2
    <1> QED BY <1>3, <1>6, <1>7, <1>8, <1>9, <1>10, <1>11 DEF IsAssembled

(* The parts of a line, as they are enumerated.                            *)
LEMMA PartsAre ==
    ASSUME NEW line
    PROVE  \A p : p \in Parts(line) <=>
               \E i \in 1 .. (Len(line) + 1), j \in 0 .. Len(line) : p = SubSeq(line, i, j)
    BY SMT DEF Parts

(* What a part of a line consists of.                                      *)
LEMMA PartIs ==
    ASSUME NEW s \in Seq(HeadSymbol), NEW i \in 1 .. (Len(s) + 1), NEW j \in 0 .. Len(s)
    PROVE  /\ SubSeq(s, i, j) \in Seq(HeadSymbol)
           /\ i <= j + 1 => Len(SubSeq(s, i, j)) = j - i + 1
           /\ i > j => SubSeq(s, i, j) = <<>>
           /\ \A k \in 1 .. (j - i + 1) : SubSeq(s, i, j)[k] = s[i + k - 1]
    <1>1. Len(s) \in Nat
        OBVIOUS
    <1> QED BY <1>1, SubSeqProperties

-----------------------------------------------------------------------------
(* A request line in the words of the scan.                                *)
Cut(line, f, s) ==
    /\ f \in 2 .. Len(line) /\ s \in (f + 2) .. Len(line) /\ Len(line) = s + 1
    /\ line[f] = SP /\ line[s] = SP
    /\ line[s + 1] \in {"HTTP/1.0", "HTTP/1.1"}
    /\ \A i \in 1 .. (f - 1) : IsToken(line[i])
    /\ \A i \in (f + 1) .. (s - 1) : line[i] \notin Control \cup {SP}
    /\ s - f - 1 <= MaxTarget

(* The scan cuts an accepted request line at its two spaces.               *)
LEMMA AcceptedIsCut ==
    ASSUME NEW line \in Seq(HeadSymbol), ~IsBadRequestLine(line)
    PROVE  Cut(line, First(line), Second(line))
    <1>1. PICK n \in Nat : n = Len(line)
        OBVIOUS
    <1>2. PICK f \in Nat : f = First(line)
        <2>1. First(line) \in Nat
            BY <1>1, FindIs DEF First
        <2> QED BY <2>1
    <1>3. f # 0 /\ f # 1 /\ f \in 1 .. n /\ line[f] = SP
        BY <1>1, <1>2, FindIs DEF First, IsBadRequestLine
    <1>4. PICK s \in Nat : s = Second(line)
        <2>1. Second(line) \in Nat
            BY <1>1, <1>2, FindIs DEF Second
        <2> QED BY <2>1
    <1>5. /\ s # 0 /\ s # f + 1 /\ s \in (f + 1) .. n /\ line[s] = SP
          /\ \A i \in (f + 1) .. (s - 1) : line[i] # SP
        <2>1. s = Find(line, SP, f + 1) /\ f + 1 \in Nat \ {0}
            BY <1>2, <1>4 DEF Second
        <2>2. s # 0 /\ s # f + 1
            BY <1>2, <1>4 DEF IsBadRequestLine
        <2> QED BY <1>1, <2>1, <2>2, FindIs
    <1>6. \A i \in (f + 1) .. (s - 1) : line[i] \notin Control
        BY <1>2, <1>4 DEF IsBadRequestLine
    <1>7. \A i \in 1 .. (f - 1) : IsToken(line[i])
        BY <1>2 DEF IsBadRequestLine
    <1>8. s - f - 1 <= MaxTarget
        <2>1. ~ (s - f - 1 > MaxTarget)
            BY <1>2, <1>4, Zenon DEF IsBadRequestLine
        <2> QED BY <2>1, HeadAssumption
    <1>9. n = s + 1 /\ line[s + 1] \in {"HTTP/1.0", "HTTP/1.1"}
        <2> DEFINE v == SubSeq(line, s + 1, n)
        <2>1. v \in {<<"HTTP/1.0">>, <<"HTTP/1.1">>}
            BY <1>1, <1>4 DEF IsBadRequestLine
        <2>2. PICK w \in {"HTTP/1.0", "HTTP/1.1"} : v = <<w>>
            BY <2>1, Zenon
        <2>3. s + 1 \in 1 .. (Len(line) + 1) /\ n \in 0 .. Len(line) /\ s + 1 <= n + 1
            BY <1>1, <1>5
        <2>4. Len(v) = n - (s + 1) + 1
            BY <2>3, PartIs
        <2>5. \A k \in 1 .. (n - (s + 1) + 1) : v[k] = line[s + 1 + k - 1]
            BY <2>3, PartIs
        <2> HIDE DEF v
        <2>6. n = s + 1
            <3>1. Len(v) = 1
                BY <2>2
            <3>2. 1 = n - (s + 1) + 1
                BY <2>4, <3>1, Zenon
            <3> QED BY <3>2
        <2>7. w = line[s + 1]
            <3>1. v[1] = line[s + 1]
                BY <2>5, <2>6
            <3>2. v[1] = w
                BY <2>2
            <3> QED BY <3>1, <3>2
        <2> QED BY <2>6, <2>7, Zenon
    <1>10. f \in 2 .. n /\ s \in (f + 2) .. n
        BY <1>3, <1>5
    <1>11. \A i \in (f + 1) .. (s - 1) : line[i] \notin Control \cup {SP}
        BY <1>5, <1>6, Zenon
    <1> QED BY <1>1, <1>2, <1>3, <1>4, <1>5, <1>7, <1>8, <1>9, <1>10, <1>11, Zenon DEF Cut

(* What is cut there is a method, a target and a version.                  *)
LEMMA CutIsRequestLine ==
    ASSUME NEW line \in Seq(HeadSymbol), NEW f, NEW s, Cut(line, f, s)
    PROVE  /\ SubSeq(line, 1, f - 1) \in Parts(line)
           /\ SubSeq(line, f + 1, s - 1) \in Parts(line)
           /\ IsRequestLine(line, SubSeq(line, 1, f - 1), SubSeq(line, f + 1, s - 1),
                            TokenOrNul)
    <1> DEFINE m == SubSeq(line, 1, f - 1)
               t == SubSeq(line, f + 1, s - 1)
               v == line[s + 1]
    <1>1. PICK n \in Nat : n = Len(line)
        OBVIOUS
    <1>2. /\ f \in Nat /\ s \in Nat /\ 2 <= f /\ f + 2 <= s /\ n = s + 1
          /\ line[f] = SP /\ line[s] = SP
          /\ v \in {"HTTP/1.0", "HTTP/1.1"}
        BY <1>1 DEF Cut
    <1>3. /\ 1 \in 1 .. (Len(line) + 1) /\ f - 1 \in 0 .. Len(line)
          /\ f + 1 \in 1 .. (Len(line) + 1) /\ s - 1 \in 0 .. Len(line)
        BY <1>1, <1>2
    <1>4. m \in Parts(line) /\ t \in Parts(line)
        BY <1>3, PartsAre
    <1>5. /\ m \in Seq(HeadSymbol) /\ Len(m) = f - 1
          /\ \A k \in 1 .. (f - 1) : m[k] = line[k]
        <2>1. 1 <= (f - 1) + 1 /\ (f - 1) - 1 + 1 = f - 1
            BY <1>2
        <2>2. \A k \in 1 .. ((f - 1) - 1 + 1) : 1 + k - 1 = k
            BY <1>2
        <2> QED BY <1>3, <2>1, <2>2, PartIs
    <1>6. /\ t \in Seq(HeadSymbol) /\ Len(t) = s - f - 1
          /\ \A k \in 1 .. (s - f - 1) : t[k] = line[f + k]
        <2>1. f + 1 <= (s - 1) + 1 /\ (s - 1) - (f + 1) + 1 = s - f - 1
            BY <1>2
        <2>2. \A k \in Int : f + 1 + k - 1 = f + k
            BY <1>2
        <2> DEFINE a == f + 1
                   b == s - 1
        <2>3. /\ t \in Seq(HeadSymbol)
              /\ a <= b + 1 => Len(t) = b - a + 1
              /\ \A k \in 1 .. (b - a + 1) : t[k] = line[a + k - 1]
            <3>1. a \in 1 .. (Len(line) + 1) /\ b \in 0 .. Len(line) /\ t = SubSeq(line, a, b)
                BY <1>3
            <3> HIDE DEF a, b, t
            <3> QED BY <3>1, PartIs
        <2> HIDE DEF t
        <2> QED BY <1>2, <2>1, <2>2, <2>3
    <1> HIDE DEF m, t
    <1>7. line = Assembled(m, t, v)
        <2>1. v \in HeadSymbol
            BY <1>2, HeadAssumption
        <2>2. /\ Assembled(m, t, v) \in Seq(HeadSymbol)
              /\ Len(Assembled(m, t, v)) = n
              /\ \A i \in 1 .. (f - 1) : Assembled(m, t, v)[i] = m[i]
              /\ Assembled(m, t, v)[f] = SP
              /\ \A i \in 1 .. (s - f - 1) : Assembled(m, t, v)[f + i] = t[i]
              /\ Assembled(m, t, v)[s] = SP
              /\ Assembled(m, t, v)[s + 1] = v
            <3>1. /\ f - 1 + 1 = f /\ f - 1 + (s - f - 1) + 2 = s
                  /\ f - 1 + (s - f - 1) + 3 = s + 1
                BY <1>2
            <3> DEFINE w == v
            <3> HIDE DEF w
            <3>2. w \in HeadSymbol
                BY <2>1 DEF w
            <3>3. IsAssembled(Assembled(m, t, w), m, t, w)
                <4>1. m \in Seq(HeadSymbol) /\ t \in Seq(HeadSymbol)
                    BY <1>5, <1>6
                <4> QED BY <3>2, <4>1, AssembledIs
            <3>4. /\ Len(m) = f - 1 /\ Len(t) = s - f - 1 /\ f - 1 + 1 = f
                BY <1>2, <1>5, <1>6
            <3> QED BY <1>2, <3>1, <3>3, <3>4 DEF w, IsAssembled
        <2> DEFINE a == Assembled(m, t, v)
        <2> HIDE DEF a, v
        <2>3. ASSUME NEW i \in 1 .. n PROVE a[i] = line[i]
            <3>1. CASE i \in 1 .. (f - 1)
                BY <1>5, <2>2, <3>1 DEF a
            <3>2. CASE i = f
                BY <1>2, <2>2, <3>2 DEF a
            <3>3. CASE i \in (f + 1) .. (s - 1)
                <4>1. i - f \in 1 .. (s - f - 1) /\ f + (i - f) = i
                    BY <1>2, <3>3
                <4> QED BY <1>6, <2>2, <4>1 DEF a
            <3>4. CASE i = s
                BY <1>2, <2>2, <3>4 DEF a
            <3>5. CASE i = s + 1
                BY <2>2, <3>5 DEF a, v
            <3> QED BY <1>2, <3>1, <3>2, <3>3, <3>4, <3>5
        <2>4. a \in Seq(HeadSymbol) /\ Len(a) = Len(line)
            BY <1>1, <2>2 DEF a
        <2> QED BY <1>1, <2>3, <2>4, SeqEqual DEF a
    <1>8. \A i \in DOMAIN m : m[i] \in TokenOrNul
        <2>1. DOMAIN m = 1 .. (f - 1)
            BY <1>5, LenProperties
        <2> QED BY <1>5, <2>1, TokensOrNul DEF Cut
    <1>9. \A i \in DOMAIN t : t[i] \notin Control \cup {SP}
        <2>1. DOMAIN t = 1 .. (s - f - 1)
            BY <1>6, LenProperties
        <2>2. ASSUME NEW i \in 1 .. (s - f - 1) PROVE t[i] \notin Control \cup {SP}
            <3>1. f + i \in (f + 1) .. (s - 1)
                BY <1>2
            <3> QED BY <1>6, <3>1 DEF Cut
        <2> QED BY <2>1, <2>2
    <1>10. m # <<>> /\ t # <<>> /\ Len(t) <= MaxTarget
        <2>1. Len(m) # 0 /\ Len(t) # 0
            BY <1>2, <1>5, <1>6
        <2>2. s - f - 1 <= MaxTarget
            BY DEF Cut
        <2>3. Len(t) <= MaxTarget
            <3>1. Len(t) = s - f - 1
                BY <1>6
            <3> QED BY <2>2, <3>1, Zenon
        <2>4. m # <<>> /\ t # <<>>
            BY <2>1
        <2> QED BY <2>3, <2>4
    <1>11. line = m \o <<SP>> \o t \o <<SP, v>>
        BY <1>7 DEF Assembled
    <1> QED BY <1>2, <1>4, <1>8, <1>9, <1>10, <1>11 DEF IsRequestLine, m, t

(* No other cut is possible: the grammar implies the scan.                 *)
LEMMA RequestLineAccepted ==
    ASSUME NEW line \in Seq(HeadSymbol), NEW m \in Seq(HeadSymbol), NEW t \in Seq(HeadSymbol),
           IsRequestLine(line, m, t, TokenOrNul)
    PROVE  ~IsBadRequestLine(line)
    <1>1. PICK v \in {"HTTP/1.0", "HTTP/1.1"} :
              /\ line = Assembled(m, t, v)
              /\ m # <<>> /\ \A i \in DOMAIN m : m[i] \in TokenOrNul
              /\ t # <<>> /\ Len(t) <= MaxTarget
              /\ \A i \in DOMAIN t : t[i] \notin Control \cup {SP}
        BY Zenon DEF IsRequestLine, Assembled
    <1>2. IsAssembled(line, m, t, v)
        <2>1. v \in HeadSymbol
            BY HeadAssumption
        <2> QED BY <1>1, <2>1, AssembledIs
    <1>3. PICK a \in Nat : a = Len(m) /\ a # 0
        BY <1>1, EmptySeq
    <1>4. PICK b \in Nat : b = Len(t) /\ b # 0
        BY <1>1, EmptySeq
    <1>5. DOMAIN m = 1 .. a /\ DOMAIN t = 1 .. b
        BY <1>3, <1>4, LenProperties
    <1> DEFINE f == a + 1
               s == a + b + 2
               n == a + b + 3
    <1>6. Len(line) = n /\ line[f] = SP /\ line[s] = SP /\ line[n] = v
        BY <1>2, <1>3, <1>4 DEF IsAssembled
    <1>7. ASSUME NEW i \in 1 .. (f - 1) PROVE IsToken(line[i]) /\ line[i] # SP
        <2>1. i \in 1 .. a
            BY <1>3
        <2>2. line[i] = m[i]
            BY <1>2, <1>3, <2>1 DEF IsAssembled
        <2>3. IsToken(m[i])
            BY <1>1, <1>5, <2>1, TokensOrNul
        <2> QED BY <2>2, <2>3, TokensSeparate
    <1>8. ASSUME NEW i \in (f + 1) .. (s - 1) PROVE line[i] \notin Control \cup {SP}
        <2>1. i - f \in 1 .. b /\ a + 1 + (i - f) = i
            BY <1>3, <1>4
        <2>2. line[i] = t[i - f]
            BY <1>2, <1>3, <1>4, <2>1 DEF IsAssembled
        <2> HIDE DEF f
        <2> QED BY <1>1, <1>5, <2>1, <2>2
    <1>9. v # SP
        BY DEF SP
    <1>10. /\ f \in Nat /\ s \in Nat /\ n \in Nat /\ f >= 2 /\ f + 2 <= s /\ n = s + 1
           /\ s - f - 1 = b
        BY <1>3, <1>4
    <1> HIDE DEF f, s, n
    <1>11. First(line) = f
        <2>1. f \in 1 .. Len(line) /\ \A i \in 1 .. (f - 1) : line[i] # SP
            BY <1>6, <1>7, <1>10
        <2> QED BY <1>6, <2>1, FindOne DEF First
    <1>12. Second(line) = s
        <2>1. /\ f + 1 \in Nat \ {0} /\ s \in (f + 1) .. Len(line)
              /\ \A i \in (f + 1) .. (s - 1) : line[i] # SP
            BY <1>6, <1>8, <1>10
        <2>2. Find(line, SP, f + 1) = s
            BY <1>6, <2>1, FindOne
        <2> QED BY <1>11, <2>2 DEF Second
    <1>13. Find(line, SP, s + 1) = 0
        <2>1. s + 1 \in Nat \ {0} /\ \A i \in (s + 1) .. Len(line) : i = n
            BY <1>6, <1>10
        <2>2. \A i \in (s + 1) .. Len(line) : line[i] # SP
            BY <1>6, <1>9, <2>1
        <2> QED BY <2>1, <2>2, FindNone
    <1>14. SubSeq(line, s + 1, Len(line)) \in {<<"HTTP/1.0">>, <<"HTTP/1.1">>}
        <2> DEFINE w == SubSeq(line, s + 1, n)
        <2>1. /\ s + 1 \in 1 .. (Len(line) + 1) /\ n \in 0 .. Len(line)
              /\ s + 1 <= n + 1 /\ n - (s + 1) + 1 = 1 /\ s + 1 + 1 - 1 = n
            BY <1>6, <1>10
        <2>2. /\ w \in Seq(HeadSymbol) /\ Len(w) = n - (s + 1) + 1
              /\ \A k \in 1 .. (n - (s + 1) + 1) : w[k] = line[s + 1 + k - 1]
            BY <2>1, PartIs
        <2> HIDE DEF w
        <2>3. Len(w) = 1 /\ w[1] = v
            BY <1>6, <2>1, <2>2
        <2>4. w = <<v>>
            <3> DEFINE u == <<v>>
            <3>1. u \in Seq(HeadSymbol) /\ Len(u) = 1 /\ u[1] = v
                BY HeadAssumption
            <3> HIDE DEF u
            <3>2. \A i \in 1 .. 1 : w[i] = u[i]
                BY <2>3, <3>1
            <3>3. w = u
                BY <2>2, <2>3, <3>1, <3>2, SeqEqual
            <3> QED BY <3>3 DEF u
        <2> QED BY <1>6, <2>4 DEF w
    <1>15. ~ (s - f - 1 > MaxTarget)
        BY <1>1, <1>4, <1>10, HeadAssumption
    <1>16. f \notin {0, 1} /\ s \notin {0, f + 1}
        BY <1>10
    <1>17. \A i \in (f + 1) .. (s - 1) : line[i] \notin Control
        BY <1>8
    <1> QED BY <1>7, <1>11, <1>12, <1>13, <1>14, <1>15, <1>16, <1>17, Zenon
            DEF IsBadRequestLine

(* The request lines that are accepted, and what is read from them.        *)
LEMMA RequestLineMeans ==
    ASSUME NEW line \in Seq(HeadSymbol)
    PROVE  /\ (\E m, t \in Parts(line) : IsRequestLine(line, m, t, TokenOrNul))
                  => ~IsBadRequestLine(line)
           /\ ~IsBadRequestLine(line) =>
                \E m \in Parts(line), t \in Parts(line) :
                    /\ IsRequestLine(line, m, t, TokenOrNul)
                    /\ m = SubSeq(line, 1, First(line) - 1)
                    /\ t = SubSeq(line, First(line) + 1, Second(line) - 1)
    <1>1. ASSUME NEW m \in Parts(line), NEW t \in Parts(line), IsRequestLine(line, m, t, TokenOrNul)
          PROVE  ~IsBadRequestLine(line)
        <2>1. \A i \in 1 .. (Len(line) + 1), j \in 0 .. Len(line) :
                  SubSeq(line, i, j) \in Seq(HeadSymbol)
            BY PartIs
        <2>2. ASSUME NEW p \in Parts(line) PROVE p \in Seq(HeadSymbol)
            <3>1. PICK i \in 1 .. (Len(line) + 1) :
                      \E j \in 0 .. Len(line) : p = SubSeq(line, i, j)
                BY PartsAre
            <3>2. PICK j \in 0 .. Len(line) : p = SubSeq(line, i, j)
                BY <3>1
            <3> QED BY <2>1, <3>2
        <2> QED BY <1>1, <2>2, RequestLineAccepted
    <1>2. ASSUME ~IsBadRequestLine(line)
          PROVE  \E m \in Parts(line), t \in Parts(line) :
                    /\ IsRequestLine(line, m, t, TokenOrNul)
                    /\ m = SubSeq(line, 1, First(line) - 1)
                    /\ t = SubSeq(line, First(line) + 1, Second(line) - 1)
        BY <1>2, AcceptedIsCut, CutIsRequestLine
    <1> QED BY <1>1, <1>2

-----------------------------------------------------------------------------
(* What a field is, as the scan reads it.                                  *)
ColonOf(line) == Find(line, ":", 1)
FieldValue(line) == ValueOf(line, ColonOf(line))

(* A header whose name is n and whose value is v.                          *)
Field(line, n, v) ==
    \E colon \in DOMAIN line :
        \E a \in (colon + 1) .. (Len(line) + 1), b \in colon .. Len(line) :
            /\ IsField(line, colon, a, b, TokenOrNul)
            /\ n = SubSeq(line, 1, colon - 1) /\ v = SubSeq(line, a, b)

(* The limits of the value that is left when the blanks are taken off.     *)
Trimmed(line, colon, a, b) ==
    /\ \A i \in (colon + 1) .. (a - 1) : IsBlank(line[i])
    /\ \A i \in (b + 1) .. Len(line) : IsBlank(line[i])
    /\ a > b \/ (~IsBlank(line[a]) /\ ~IsBlank(line[b]))

(* Such limits determine the value.                                        *)
LEMMA TrimmedIsValue ==
    ASSUME NEW line \in Seq(HeadSymbol), NEW colon \in Nat \ {0},
           NEW a \in (colon + 1) .. (Len(line) + 1), NEW b \in colon .. Len(line),
           Trimmed(line, colon, a, b)
    PROVE  ValueOf(line, colon) = SubSeq(line, a, b)
    <1> DEFINE From == {i \in (colon + 1) .. Len(line) : ~IsBlank(line[i])}
    <1>1. ValueOf(line, colon) =
              IF From = {} THEN <<>>
              ELSE SubSeq(line, CHOOSE i \in From : \A k \in From : i <= k,
                                CHOOSE i \in From : \A k \in From : i >= k)
        BY DEF ValueOf
    <1>2. PICK n \in Nat : n = Len(line)
        OBVIOUS
    <1>3. \A i \in From : i \in Nat /\ a <= i /\ i <= b
        BY <1>2 DEF Trimmed
    <1>4. CASE a > b
        <2>1. From = {}
            BY <1>3, <1>4
        <2>2. SubSeq(line, a, b) = <<>>
            BY <1>2, <1>4, SubSeqEmpty
        <2> QED BY <1>1, <2>1, <2>2
    <1>5. CASE ~ (a > b)
        <2>1. a \in From /\ b \in From /\ a \in Nat /\ b \in Nat
            BY <1>2, <1>5 DEF Trimmed
        <2> HIDE DEF From
        <2>2. (CHOOSE i \in From : \A k \in From : i <= k) = a
            <3>1. \A i \in From : (\A k \in From : i <= k) => i = a
                BY <1>3, <2>1
            <3> QED BY <1>3, <2>1, <3>1
        <2>3. (CHOOSE i \in From : \A k \in From : i >= k) = b
            <3>1. \A i \in From : (\A k \in From : i >= k) => i = b
                BY <1>3, <2>1
            <3> QED BY <1>3, <2>1, <3>1
        <2>4. From # {}
            BY <2>1
        <2> QED BY <1>1, <2>2, <2>3, <2>4, Zenon
    <1> QED BY <1>4, <1>5

(* There always are such limits.                                           *)
LEMMA CanBeTrimmed ==
    ASSUME NEW line \in Seq(HeadSymbol), NEW colon \in 1 .. Len(line)
    PROVE  \E a \in (colon + 1) .. (Len(line) + 1), b \in colon .. Len(line) :
               Trimmed(line, colon, a, b)
    <1> DEFINE From == {i \in (colon + 1) .. Len(line) : ~IsBlank(line[i])}
    <1>1. PICK n \in Nat : n = Len(line)
        OBVIOUS
    <1>2. CASE From = {}
        <2>1. \A i \in (colon + 1) .. n : IsBlank(line[i])
            BY <1>1, <1>2
        <2>2. /\ colon + 1 \in (colon + 1) .. (n + 1) /\ colon \in colon .. n
              /\ colon + 1 > colon /\ (colon + 1) .. (colon + 1 - 1) = {}
            BY <1>1
        <2>3. Trimmed(line, colon, colon + 1, colon)
            BY <1>1, <2>1, <2>2 DEF Trimmed
        <2> QED BY <1>1, <2>2, <2>3
    <1>3. CASE From # {}
        <2>1. From \subseteq Nat
            BY <1>1
        <2>2. PICK a \in From : \A k \in From : a <= k
            BY <1>3, <2>1, LeastNumber
        <2>3. PICK b \in From : \A k \in From : b >= k
            <3> DEFINE T == {n - i : i \in From}
            <3>1. T \subseteq Nat /\ T # {}
                BY <1>1, <1>3
            <3>2. PICK x \in T : \A y \in T : x <= y
                BY <3>1, LeastNumber
            <3>3. PICK b \in From : x = n - b
                BY <3>2
            <3>4. ASSUME NEW k \in From PROVE b >= k
                <4>1. n - b <= n - k
                    BY <3>2, <3>3
                <4>2. b \in Nat /\ k \in Nat
                    BY <2>1
                <4> QED BY <4>1, <4>2
            <3> QED BY <3>4
        <2>4. /\ a \in (colon + 1) .. (n + 1) /\ b \in colon .. n /\ a \in Nat /\ b \in Nat
              /\ ~IsBlank(line[a]) /\ ~IsBlank(line[b])
            BY <1>1
        <2>5. ASSUME NEW i \in (colon + 1) .. (a - 1) PROVE IsBlank(line[i])
            <3>1. i \in (colon + 1) .. n /\ ~ (a <= i)
                BY <1>1, <2>4
            <3> QED BY <1>1, <2>2, <3>1
        <2>6. ASSUME NEW i \in (b + 1) .. n PROVE IsBlank(line[i])
            <3>1. i \in (colon + 1) .. n /\ ~ (b >= i)
                BY <1>1, <2>4
            <3> QED BY <1>1, <2>3, <3>1
        <2>7. Trimmed(line, colon, a, b)
            BY <1>1, <2>4, <2>5, <2>6 DEF Trimmed
        <2> QED BY <1>1, <2>4, <2>7
    <1> QED BY <1>2, <1>3

(* The colon behind a token is the first one.                              *)
LEMMA TokenBeforeColon ==
    ASSUME NEW line \in Seq(HeadSymbol), NEW colon \in 1 .. Len(line), line[colon] = ":",
           \A i \in 1 .. (colon - 1) : IsToken(line[i])
    PROVE  ColonOf(line) = colon
    <1>1. \A i \in 1 .. (colon - 1) : line[i] # ":"
        BY TokensSeparate
    <1>2. 1 \in Nat \ {0}
        OBVIOUS
    <1> QED BY <1>1, <1>2, FindOne DEF ColonOf

(* A field is one that the scan accepts, with the name and value it finds. *)
LEMMA FieldAccepted ==
    ASSUME NEW line \in Seq(HeadSymbol), NEW n, NEW v, Field(line, n, v)
    PROVE  ~IsBadField(line) /\ n = NameOf(line) /\ v = FieldValue(line)
    <1>1. PICK l \in Nat : l = Len(line) /\ DOMAIN line = 1 .. l
        BY LenProperties
    <1>9. PICK colon \in 1 .. l : \E a \in (colon + 1) .. (l + 1), b \in colon .. l :
              /\ IsField(line, colon, a, b, TokenOrNul)
              /\ n = SubSeq(line, 1, colon - 1) /\ v = SubSeq(line, a, b)
        BY <1>1 DEF Field
    <1>2. PICK a \in (colon + 1) .. (l + 1), b \in colon .. l :
              /\ IsField(line, colon, a, b, TokenOrNul)
              /\ n = SubSeq(line, 1, colon - 1) /\ v = SubSeq(line, a, b)
        BY <1>9
    <1>3. /\ line[colon] = ":" /\ colon > 1 /\ Trimmed(line, colon, a, b)
          /\ \A i \in 1 .. (colon - 1) : IsToken(line[i])
          /\ \A i \in a .. b : line[i] \notin {"NUL", "DEL"}
        BY <1>1, <1>2, TokensOrNul, Zenon DEF IsField, Trimmed
    <1>4. ColonOf(line) = colon
        BY <1>1, <1>3, TokenBeforeColon
    <1>5. v = FieldValue(line)
        <2>1. colon \in Nat \ {0}
            BY <1>1
        <2>2. ValueOf(line, colon) = SubSeq(line, a, b)
            BY <1>1, <1>3, <2>1, TrimmedIsValue
        <2> QED BY <1>2, <1>4, <2>2 DEF FieldValue
    <1>6. n = NameOf(line)
        BY <1>2, <1>4 DEF NameOf, ColonOf
    <1>7. ASSUME NEW i \in DOMAIN v PROVE v[i] \notin Control \ {HTAB}
        <2>1. a \in 1 .. (Len(line) + 1) /\ b \in 0 .. Len(line) /\ a \in Nat /\ b \in Nat
            BY <1>1
        <2>2. a <= b
            <3> SUFFICES ASSUME a > b PROVE FALSE
                BY <2>1
            <3>1. v = <<>>
                BY <1>2, <2>1, PartIs
            <3> QED BY <1>7, <3>1
        <2>3. v \in Seq(HeadSymbol) /\ Len(v) = b - a + 1
              /\ \A k \in 1 .. (b - a + 1) : v[k] = line[a + k - 1]
            BY <1>2, <2>1, <2>2, PartIs
        <2>4. i \in 1 .. (b - a + 1)
            BY <1>7, <2>3, LenProperties
        <2>5. v[i] = line[a + i - 1] /\ a + i - 1 \in a .. b
            BY <2>1, <2>3, <2>4
        <2>6. v[i] \notin {"NUL", "DEL"}
            BY <1>3, <2>5
        <2> QED BY <2>6 DEF Control, HTAB
    <1>8. ~IsBadField(line)
        <2>1. colon \notin {0, 1}
            BY <1>3
        <2>2. Find(line, ":", 1) = colon /\ ValueOf(line, Find(line, ":", 1)) = v
            BY <1>4, <1>5 DEF ColonOf, FieldValue
        <2> QED BY <1>3, <1>7, <2>1, <2>2, Zenon DEF IsBadField
    <1> QED BY <1>5, <1>6, <1>8

(* A header that the scan accepts is a field.                              *)
LEMMA AcceptedIsField ==
    ASSUME NEW line \in Seq(HeadSymbol), ~IsBadField(line)
    PROVE  Field(line, NameOf(line), FieldValue(line))
    <1>1. PICK l \in Nat : l = Len(line) /\ DOMAIN line = 1 .. l
        BY LenProperties
    <1>2. PICK colon \in Nat : colon = ColonOf(line) /\ colon \in 2 .. l /\ line[colon] = ":"
        <2>1. ColonOf(line) \notin {0, 1}
            BY Zenon DEF IsBadField, ColonOf
        <2> QED BY <1>1, <2>1, FindIs DEF ColonOf
    <1>3. /\ \A i \in 1 .. (colon - 1) : IsToken(line[i])
          /\ \A i \in DOMAIN FieldValue(line) : FieldValue(line)[i] \notin Control \ {HTAB}
        BY <1>2, Zenon DEF IsBadField, FieldValue, ColonOf
    <1>4. PICK a \in (colon + 1) .. (l + 1), b \in colon .. l : Trimmed(line, colon, a, b)
        <2>1. colon \in 1 .. Len(line)
            BY <1>1, <1>2
        <2> QED BY <1>1, <2>1, CanBeTrimmed
    <1> DEFINE v == SubSeq(line, a, b)
    <1>5. FieldValue(line) = v
        <2>1. colon \in Nat \ {0}
            BY <1>2
        <2>2. ValueOf(line, colon) = SubSeq(line, a, b)
            BY <1>1, <1>4, <2>1, TrimmedIsValue
        <2> QED BY <1>2, <2>2 DEF FieldValue
    <1>6. ASSUME NEW i \in a .. b PROVE line[i] \notin {"NUL", "DEL"}
        <2>1. a \in 1 .. (Len(line) + 1) /\ b \in 0 .. Len(line) /\ a \in Nat /\ b \in Nat
              /\ a <= b
            BY <1>1, <1>2
        <2>2. v \in Seq(HeadSymbol) /\ Len(v) = b - a + 1
              /\ \A k \in 1 .. (b - a + 1) : v[k] = line[a + k - 1]
            BY <2>1, PartIs
        <2> HIDE DEF v
        <2>3. i - a + 1 \in 1 .. (b - a + 1) /\ a + (i - a + 1) - 1 = i
            BY <2>1
        <2>4. i - a + 1 \in DOMAIN v /\ v[i - a + 1] = line[i]
            BY <2>2, <2>3, LenProperties
        <2>5. line[i] \notin Control \ {HTAB}
            BY <1>3, <1>5, <2>4
        <2> QED BY <2>5 DEF Control, HTAB
    <1>7. IsField(line, colon, a, b, TokenOrNul)
        <2>1. colon > 1
            BY <1>2
        <2> QED BY <1>2, <1>3, <1>4, <1>6, <2>1, TokensOrNul, Zenon DEF IsField, Trimmed
    <1>8. colon \in DOMAIN line
        BY <1>1, <1>2
    <1>9. NameOf(line) = SubSeq(line, 1, colon - 1)
        BY <1>2 DEF NameOf, ColonOf
    <1> QED BY <1>1, <1>4, <1>5, <1>7, <1>8, <1>9, Zenon DEF Field

-----------------------------------------------------------------------------
(* The digits are the figures of the decimal system.                       *)
Figure == [d \in 0 .. 9 |-> Digits[d + 1]]
Digital == CharsOf(10, Figure)

(* No digit is listed twice.                                               *)
LEMMA FiguresDiffer ==
    ASSUME NEW d \in 0 .. 9, NEW e \in 0 .. 9, Digits[d + 1] = Digits[e + 1]
    PROVE  d = e
    BY DEF Digits

(* They make a numeral system.                                             *)
LEMMA DecimalSystem == IsSystem(10, Figure)
    <1>1. ASSUME NEW d \in 0 .. 9, NEW e \in 0 .. 9, Figure[d] = Figure[e] PROVE d = e
        BY <1>1, FiguresDiffer DEF Figure
    <1>2. 10 - 1 = 9 /\ 10 \in Nat \ {0, 1}
        OBVIOUS
    <1> QED BY <1>1, <1>2 DEF IsSystem

(* They are the same characters, and have the same values.                 *)
LEMMA DigitsAreFigures ==
    ASSUME NEW s
    PROVE  /\ IsDigit(s) <=> s \in Digital
           /\ IsDigit(s) => DigitOf(s) \in 0 .. 9 /\ DigitOf(s) = DigitIn(s, 10, Figure)
    <1>1. DOMAIN Digits = 1 .. 10 /\ 10 - 1 = 9
        BY DEF Digits
    <1>2. IsDigit(s) <=> \E i \in 1 .. 10 : Digits[i] = s
        BY <1>1 DEF IsDigit
    <1>3. s \in Digital <=> \E d \in 0 .. 9 : Digits[d + 1] = s
        BY <1>1 DEF Digital, CharsOf, Figure
    <1>4. (\E i \in 1 .. 10 : Digits[i] = s) <=> \E d \in 0 .. 9 : Digits[d + 1] = s
        <2>1. ASSUME NEW i \in 1 .. 10, Digits[i] = s
              PROVE  \E d \in 0 .. 9 : Digits[d + 1] = s
            <3>1. i - 1 \in 0 .. 9 /\ (i - 1) + 1 = i
                OBVIOUS
            <3> QED BY <2>1, <3>1
        <2>2. ASSUME NEW d \in 0 .. 9, Digits[d + 1] = s
              PROVE  \E i \in 1 .. 10 : Digits[i] = s
            <3>1. d + 1 \in 1 .. 10
                OBVIOUS
            <3> QED BY <2>2, <3>1
        <2> QED BY <2>1, <2>2
    <1>5. ASSUME NEW d \in 0 .. 9, Digits[d + 1] = s
          PROVE  DigitOf(s) = d /\ DigitIn(s, 10, Figure) = d
        <2>1. DigitIn(s, 10, Figure) = d
            <3>1. Figure[d] = s /\ d \in 0 .. (10 - 1)
                BY <1>1, <1>5 DEF Figure
            <3> QED BY <3>1, DecimalSystem, CharOfDigit
        <2>2. (CHOOSE i \in 1 .. 10 : Digits[i] = s) = d + 1
            <3>1. d + 1 \in 1 .. 10
                OBVIOUS
            <3>2. ASSUME NEW i \in 1 .. 10, Digits[i] = s PROVE i = d + 1
                <4>1. i - 1 \in 0 .. 9 /\ (i - 1) + 1 = i
                    OBVIOUS
                <4>2. i - 1 = d
                    BY <1>5, <3>2, <4>1, FiguresDiffer
                <4> QED BY <4>2
            <3> QED BY <1>5, <3>1, <3>2
        <2>3. DigitOf(s) = (d + 1) - 1
            BY <1>1, <2>2 DEF DigitOf
        <2> QED BY <2>1, <2>3
    <1> QED BY <1>2, <1>3, <1>4, <1>5

(* The number of a sequence of digits.                                     *)
LEMMA NumberIs ==
    ASSUME NEW v \in Seq(Digital)
    PROVE  \E p : IsPrefixes(p, v, 10, Figure) /\ Number(v) = p[Len(v)]
    <1> DEFINE Is(p) == p = [n \in 0 .. Len(v) |-> IF n = 0 THEN 0
                                ELSE p[n - 1] * 10 + DigitOf(v[n])]
    <1>1. \A n \in 1 .. Len(v) : DigitOf(v[n]) = DigitIn(v[n], 10, Figure)
        BY ElementOfSeq, DigitsAreFigures
    <1>2. \A p : Is(p) <=> IsValuing(p, v, 10, Figure)
        <2> TAKE p
        <2>1. ASSUME NEW n \in 0 .. Len(v)
              PROVE  (IF n = 0 THEN 0 ELSE p[n - 1] * 10 + DigitOf(v[n]))
                     = (IF n = 0 THEN 0 ELSE p[n - 1] * 10 + DigitIn(v[n], 10, Figure))
            <3>1. n # 0 => n \in 1 .. Len(v)
                BY LenProperties
            <3> QED BY <1>1, <3>1
        <2> QED BY <2>1 DEF IsValuing
    <1>3. \E p : Is(p)
        <2>1. \E p : IsValuing(p, v, 10, Figure)
            BY DecimalSystem, ValuingExists DEF Digital
        <2> HIDE DEF Is
        <2> QED BY <1>2, <2>1
    <1>4. PICK p : Is(p) /\ Number(v) = p[Len(v)]
        BY <1>3, Zenon DEF Number
    <1> HIDE DEF Is
    <1> QED BY <1>2, <1>4, DecimalSystem, ValuingIsPrefixes DEF Digital

(* One step of parse_decimal_size.                                         *)
DecimalStep(r, s) ==
    IF r = -1 \/ ~IsDigit(s) THEN -1
    ELSE IF WouldOverflow(r, DigitOf(s)) THEN -1
    ELSE (r * 10 + DigitOf(s)) % (MaxSize + 1)

IsScanned(q, v) ==
    q[0] = 0 /\ \A n \in 1 .. Len(v) : q[n] = DecimalStep(q[n - 1], v[n])

(* It yields a number or -1.                                               *)
LEMMA StepIsInt ==
    ASSUME NEW r \in Int, NEW s
    PROVE  DecimalStep(r, s) \in Int
    <1>1. CASE r = -1 \/ ~IsDigit(s)
        BY <1>1 DEF DecimalStep
    <1>2. CASE ~ (r = -1 \/ ~IsDigit(s))
        <2>1. PICK d \in 0 .. 9 : d = DigitOf(s)
            BY <1>2, DigitsAreFigures
        <2>2. PICK m \in Nat : m = MaxSize + 1 /\ m > 0
            BY HeadAssumption
        <2>3. (r * 10 + d) % m \in Int
            BY <2>2
        <2>4. DecimalStep(r, s) = -1 \/ DecimalStep(r, s) = (r * 10 + d) % m
            BY <2>1, <2>2 DEF DecimalStep
        <2> QED BY <2>3, <2>4
    <1> QED BY <1>1, <1>2

(* There is a scan of every text.                                          *)
LEMMA ScanExists ==
    ASSUME NEW v \in Seq(HeadSymbol)
    PROVE  \E q : q \in [0 .. Len(v) -> Int] /\ IsScanned(q, v)
    <1> DEFINE step == [k \in Nat |-> [r \in Int |-> DecimalStep(r, v[k])]]
    <1>1. IsStep(step, Int) /\ Len(v) \in Nat /\ 0 \in Int
        BY StepIsInt DEF IsStep
    <1>2. \A k \in Nat, r \in Int : step[k][r] = DecimalStep(r, v[k])
        OBVIOUS
    <1> HIDE DEF step
    <1>3. PICK q : IsIterated(q, Len(v), Int, 0, step)
        BY <1>1, Recursion
    <1>4. ASSUME NEW n \in 1 .. Len(v) PROVE q[n] = DecimalStep(q[n - 1], v[n])
        <2>1. q[n - 1] \in Int /\ n \in Nat
            BY <1>1, <1>3 DEF IsIterated
        <2> QED BY <1>2, <1>3, <2>1 DEF IsIterated
    <1> QED BY <1>3, <1>4 DEF IsIterated, IsScanned

(* parse_decimal_size is such a scan.                                      *)
LEMMA DecimalIs ==
    ASSUME NEW v \in Seq(HeadSymbol)
    PROVE  \E q : /\ q \in [0 .. Len(v) -> Int] /\ IsScanned(q, v)
                  /\ Decimal(v) = IF v = <<>> THEN -1 ELSE q[Len(v)]
    <1> DEFINE Is(q) == q = [n \in 0 .. Len(v) |->
                  IF n = 0 THEN 0
                  ELSE IF q[n - 1] = -1 \/ ~IsDigit(v[n]) THEN -1
                  ELSE IF WouldOverflow(q[n - 1], DigitOf(v[n])) THEN -1
                  ELSE (q[n - 1] * 10 + DigitOf(v[n])) % (MaxSize + 1)]
    <1>1. \A q : Is(q) <=> q = [n \in 0 .. Len(v) |->
                  IF n = 0 THEN 0 ELSE DecimalStep(q[n - 1], v[n])]
        BY DEF DecimalStep
    <1> HIDE DEF Is
    <1>2. \E q : Is(q)
        <2>1. PICK q : q \in [0 .. Len(v) -> Int] /\ IsScanned(q, v)
            BY ScanExists
        <2>2. ASSUME NEW n \in 0 .. Len(v)
              PROVE  q[n] = IF n = 0 THEN 0 ELSE DecimalStep(q[n - 1], v[n])
            <3>1. n # 0 => n \in 1 .. Len(v)
                BY LenProperties
            <3> QED BY <2>1, <3>1 DEF IsScanned
        <2>3. q = [n \in 0 .. Len(v) |-> IF n = 0 THEN 0 ELSE DecimalStep(q[n - 1], v[n])]
            BY <2>1, <2>2
        <2> QED BY <1>1, <2>3
    <1>3. PICK q : Is(q) /\ Decimal(v) = IF v = <<>> THEN -1 ELSE q[Len(v)]
        BY <1>2, Zenon DEF Decimal, Is
    <1>4. q = [n \in 0 .. Len(v) |-> IF n = 0 THEN 0 ELSE DecimalStep(q[n - 1], v[n])]
        BY <1>1, <1>3
    <1>5. 0 \in 0 .. Len(v) /\ \A n \in 1 .. Len(v) : n \in 0 .. Len(v) /\ n # 0
        BY LenProperties
    <1>6. IsScanned(q, v)
        BY <1>4, <1>5, Zenon DEF IsScanned
    <1>7. q \in [0 .. Len(v) -> Int]
        <2> DEFINE S == {n \in Nat : n <= Len(v) => q[n] \in Int}
        <2>1. 0 \in S
            BY <1>6 DEF IsScanned
        <2>2. ASSUME NEW n \in Nat, n \in S PROVE n + 1 \in S
            <3>1. n + 1 <= Len(v) => n + 1 \in 1 .. Len(v) /\ n <= Len(v) /\ (n + 1) - 1 = n
                BY LenProperties
            <3>2. n + 1 <= Len(v) => q[n + 1] \in Int
                BY <2>2, <3>1, <1>6, StepIsInt DEF IsScanned
            <3> QED BY <3>2
        <2> HIDE DEF S
        <2>3. \A n \in Nat : n \in S
            BY <2>1, <2>2, Induction
        <2>4. \A n \in 0 .. Len(v) : n \in Nat /\ n <= Len(v)
            BY LenProperties
        <2>5. \A n \in 0 .. Len(v) : q[n] \in Int
            BY <2>3, <2>4 DEF S
        <2> QED BY <1>4, <2>5
    <1> QED BY <1>3, <1>6, <1>7

(* The test before the multiplication is one of the result.                *)
LEMMA OverflowMeans ==
    ASSUME NEW r \in Nat, NEW d \in 0 .. 9
    PROVE  WouldOverflow(r, d) <=> r * 10 + d > MaxSize
    <1>1. PICK x \in Int : x = MaxSize - d
        BY HeadAssumption
    <1>2. PICK q \in Int : q = x \div 10 /\ 10 * q <= x /\ x < 10 * q + 10
        OBVIOUS
    <1>3. WouldOverflow(r, d) <=> r > q
        BY <1>1, <1>2 DEF WouldOverflow
    <1> QED BY <1>1, <1>2, <1>3, HeadAssumption

(* A digit is appended exactly, or does not fit.                           *)
LEMMA StepMeans ==
    ASSUME NEW r \in Nat, NEW s, IsDigit(s)
    PROVE  DecimalStep(r, s) = IF r * 10 + DigitOf(s) > MaxSize THEN -1
                               ELSE r * 10 + DigitOf(s)
    <1>1. PICK d \in 0 .. 9 : d = DigitOf(s)
        BY DigitsAreFigures
    <1>2. PICK x \in Nat : x = r * 10 + d
        OBVIOUS
    <1>3. PICK m \in Nat : m = MaxSize
        BY HeadAssumption
    <1>4. x <= m => x % (m + 1) = x
        OBVIOUS
    <1>5. WouldOverflow(r, d) <=> x > m
        BY <1>2, <1>3, OverflowMeans
    <1>6. DecimalStep(r, s) = IF WouldOverflow(r, d) THEN -1 ELSE x % (m + 1)
        BY <1>1, <1>2, <1>3 DEF DecimalStep
    <1> QED BY <1>1, <1>2, <1>3, <1>4, <1>5, <1>6

(* The prefixes of a number are scanned exactly, as long as they fit.      *)
LEMMA ScanOfNumber ==
    ASSUME NEW v \in Seq(Digital), NEW p, IsPrefixes(p, v, 10, Figure),
           NEW q, IsScanned(q, v)
    PROVE  \A n \in Nat : n <= Len(v) => q[n] = IF p[n] > MaxSize THEN -1 ELSE p[n]
    <1> DEFINE S == {n \in Nat : n <= Len(v) => q[n] = IF p[n] > MaxSize THEN -1 ELSE p[n]}
    <1>1. PICK m \in Nat : m = MaxSize
        BY HeadAssumption
    <1>2. 0 \in S
        BY <1>1 DEF IsScanned, IsPrefixes
    <1>3. ASSUME NEW n \in Nat, n \in S PROVE n + 1 \in S
        <2> SUFFICES ASSUME n + 1 <= Len(v)
                     PROVE  q[n + 1] = IF p[n + 1] > MaxSize THEN -1 ELSE p[n + 1]
            OBVIOUS
        <2>1. n + 1 \in 1 .. Len(v) /\ n \in 0 .. Len(v) /\ (n + 1) - 1 = n /\ n <= Len(v)
            BY LenProperties
        <2>2. IsDigit(v[n + 1]) /\ DigitOf(v[n + 1]) = DigitIn(v[n + 1], 10, Figure)
            BY <2>1, ElementOfSeq, DigitsAreFigures
        <2>3. PICK d \in 0 .. 9 : d = DigitOf(v[n + 1])
            BY <2>2, DigitsAreFigures
        <2>4. PICK x \in Nat : x = p[n]
            BY <2>1 DEF IsPrefixes
        <2>5. p[n + 1] = x * 10 + d
            BY <2>1, <2>2, <2>3, <2>4 DEF IsPrefixes
        <2>6. q[n + 1] = DecimalStep(q[n], v[n + 1])
            BY <2>1 DEF IsScanned
        <2>7. q[n] = IF x > m THEN -1 ELSE x
            BY <1>1, <1>3, <2>1, <2>4
        <2> HIDE DEF S
        <2>8. CASE x > m
            <3>1. q[n + 1] = -1
                BY <2>6, <2>7, <2>8 DEF DecimalStep
            <3>2. x * 10 + d > m
                BY <2>8
            <3> QED BY <1>1, <2>5, <3>1, <3>2
        <2>9. CASE ~ (x > m)
            <3>1. q[n + 1] = DecimalStep(x, v[n + 1])
                BY <2>6, <2>7, <2>9
            <3>2. DecimalStep(x, v[n + 1]) = IF x * 10 + d > MaxSize THEN -1 ELSE x * 10 + d
                BY <2>2, <2>3, StepMeans
            <3> QED BY <2>5, <3>1, <3>2
        <2> QED BY <2>8, <2>9
    <1> HIDE DEF S
    <1>4. \A n \in Nat : n \in S
        BY <1>2, <1>3, Induction
    <1> QED BY <1>4 DEF S

(* Behind a symbol that is no digit nothing is scanned any more.           *)
LEMMA ScanOfOther ==
    ASSUME NEW v \in Seq(HeadSymbol), NEW q, IsScanned(q, v),
           NEW k \in 1 .. Len(v), ~IsDigit(v[k])
    PROVE  q[Len(v)] = -1
    <1> DEFINE S == {n \in Nat : k + n <= Len(v) => q[k + n] = -1}
    <1>0. Len(v) \in Nat /\ k \in Nat
        BY LenProperties
    <1>1. 0 \in S
        <2>1. q[k] = -1
            BY DEF IsScanned, DecimalStep
        <2> QED BY <1>0, <2>1
    <1>2. ASSUME NEW n \in Nat, n \in S PROVE n + 1 \in S
        <2> SUFFICES ASSUME k + (n + 1) <= Len(v) PROVE q[k + (n + 1)] = -1
            OBVIOUS
        <2>1. /\ k + (n + 1) \in 1 .. Len(v) /\ k + (n + 1) - 1 = k + n
              /\ k + n <= Len(v)
            BY <1>0
        <2>2. q[k + n] = -1
            BY <1>2, <2>1
        <2> HIDE DEF S
        <2>3. q[k + (n + 1)] = DecimalStep(q[k + n], v[k + (n + 1)])
            BY <2>1 DEF IsScanned
        <2> QED BY <2>2, <2>3 DEF DecimalStep
    <1> HIDE DEF S
    <1>3. \A n \in Nat : n \in S
        BY <1>1, <1>2, Induction
    <1>4. Len(v) - k \in Nat /\ k + (Len(v) - k) = Len(v)
        BY <1>0
    <1>5. k + (Len(v) - k) <= Len(v) => q[k + (Len(v) - k)] = -1
        BY <1>3, <1>4 DEF S
    <1> QED BY <1>0, <1>4, <1>5

(* A numeral: digits only, at least one.                                   *)
IsNumeral(v) == v # <<>> /\ \A k \in DOMAIN v : IsDigit(v[k])

(* It accepts the numerals that fit, and returns what they denote.         *)
LEMMA DecimalMeans ==
    ASSUME NEW v \in Seq(HeadSymbol)
    PROVE  /\ Decimal(v) # -1 <=> IsNumeral(v) /\ Number(v) \in 0 .. MaxSize
           /\ Decimal(v) # -1 => Decimal(v) = Number(v)
    <1>1. PICK q : /\ q \in [0 .. Len(v) -> Int] /\ IsScanned(q, v)
                   /\ Decimal(v) = IF v = <<>> THEN -1 ELSE q[Len(v)]
        BY DecimalIs
    <1>2. Len(v) \in Nat /\ DOMAIN v = 1 .. Len(v)
        BY LenProperties
    <1>3. CASE ~IsNumeral(v)
        <2>1. Decimal(v) = -1
            <3>1. CASE v = <<>>
                BY <1>1, <3>1
            <3>2. CASE v # <<>>
                <4>1. PICK k \in 1 .. Len(v) : ~IsDigit(v[k])
                    BY <1>2, <1>3, <3>2 DEF IsNumeral
                <4>2. q[Len(v)] = -1
                    BY <1>1, <4>1, ScanOfOther
                <4> QED BY <1>1, <3>2, <4>2
            <3> QED BY <3>1, <3>2
        <2> QED BY <1>3, <2>1
    <1>4. CASE IsNumeral(v)
        <2>1. v \in Seq(Digital)
            <3>1. \A k \in 1 .. Len(v) : v[k] \in Digital
                BY <1>2, <1>4, DigitsAreFigures DEF IsNumeral
            <3>2. v \in [1 .. Len(v) -> Digital]
                BY <1>2, <3>1
            <3> QED BY <1>2, <3>2, SeqDef
        <2>2. PICK p : IsPrefixes(p, v, 10, Figure) /\ Number(v) = p[Len(v)]
            BY <2>1, NumberIs
        <2>3. PICK x \in Nat : x = Number(v)
            BY <1>2, <2>2 DEF IsPrefixes
        <2>4. q[Len(v)] = IF x > MaxSize THEN -1 ELSE x
            BY <1>1, <1>2, <2>1, <2>2, <2>3, ScanOfNumber
        <2>5. Decimal(v) = IF x > MaxSize THEN -1 ELSE x
            BY <1>1, <1>4, <2>4 DEF IsNumeral
        <2>6. PICK m \in Nat : m = MaxSize
            BY HeadAssumption
        <2> QED BY <1>4, <2>3, <2>5, <2>6
    <1> QED BY <1>3, <1>4

-----------------------------------------------------------------------------
(* The value of an accepted field is a text.                               *)
LEMMA FieldValueIsText ==
    ASSUME NEW line \in Seq(HeadSymbol), ~IsBadField(line)
    PROVE  FieldValue(line) \in Seq(HeadSymbol)
    <1>1. PICK l \in Nat : l = Len(line) /\ DOMAIN line = 1 .. l
        BY LenProperties
    <1>2. Field(line, NameOf(line), FieldValue(line))
        BY AcceptedIsField
    <1>3. PICK colon \in 1 .. l : \E a \in (colon + 1) .. (l + 1), b \in colon .. l :
              FieldValue(line) = SubSeq(line, a, b)
        BY <1>1, <1>2 DEF Field
    <1>4. PICK a \in (colon + 1) .. (l + 1), b \in colon .. l :
              FieldValue(line) = SubSeq(line, a, b)
        BY <1>3
    <1>5. a \in 1 .. (Len(line) + 1) /\ b \in 0 .. Len(line)
        BY <1>1
    <1> QED BY <1>4, <1>5, PartIs

(* What the scan reads in header i.                                        *)
IsLengthAt(i) == ~IsBadField(lines[i]) /\ NameOf(lines[i]) = <<"Content-Length">>
LengthAt(i) == Decimal(FieldValue(lines[i]))

AreLines == lines \in Seq(Seq(HeadSymbol)) /\ lines # <<>>

(* A header is at most one field: the one that the scan finds.             *)
LEMMA FieldMeans ==
    ASSUME AreLines, NEW i \in Fields
    PROVE  /\ lines[i] \in Seq(HeadSymbol)
           /\ \A n, v : Field(lines[i], n, v) <=>
                 ~IsBadField(lines[i]) /\ n = NameOf(lines[i]) /\ v = FieldValue(lines[i])
    <1>1. lines[i] \in Seq(HeadSymbol)
        <2>1. i \in 1 .. Len(lines)
            BY LenProperties DEF Fields, AreLines
        <2> QED BY <2>1, ElementOfSeq DEF AreLines
    <1>2. ASSUME NEW n, NEW v, Field(lines[i], n, v)
          PROVE  ~IsBadField(lines[i]) /\ n = NameOf(lines[i]) /\ v = FieldValue(lines[i])
        BY <1>1, <1>2, FieldAccepted
    <1>3. ~IsBadField(lines[i]) => Field(lines[i], NameOf(lines[i]), FieldValue(lines[i]))
        BY <1>1, AcceptedIsField
    <1> QED BY <1>1, <1>2, <1>3

(* The grammar of the headers in the words of the scan.                    *)
LEMMA HasMeans ==
    ASSUME AreLines, NEW i \in Fields
    PROVE  /\ Has(i, LAMBDA n, v : TRUE, TokenOrNul) <=> ~IsBadField(lines[i])
           /\ \A name : Named(i, name, TokenOrNul) <=>
                            ~IsBadField(lines[i]) /\ NameOf(lines[i]) = name
           /\ \A N : IsLength(i, N, TokenOrNul) <=>
                         IsLengthAt(i) /\ IsNumeral(FieldValue(lines[i]))
                         /\ Number(FieldValue(lines[i])) \in N
    <1>1. Has(i, LAMBDA n, v : TRUE, TokenOrNul) <=> \E n, v : Field(lines[i], n, v)
        BY Zenon DEF Has, Field
    <1>2. ASSUME NEW name
          PROVE  Named(i, name, TokenOrNul) <=> \E n, v : Field(lines[i], n, v) /\ n = name
        BY Zenon DEF Named, Has, Field
    <1>3. ASSUME NEW N
          PROVE  IsLength(i, N, TokenOrNul) <=> \E n, v : Field(lines[i], n, v)
                     /\ n = <<"Content-Length">> /\ IsNumeral(v) /\ Number(v) \in N
        BY Zenon DEF IsLength, Has, Field, IsNumeral
    <1>4. \A n, v : Field(lines[i], n, v) <=>
              ~IsBadField(lines[i]) /\ n = NameOf(lines[i]) /\ v = FieldValue(lines[i])
        BY FieldMeans
    <1>5. Has(i, LAMBDA n, v : TRUE, TokenOrNul) <=> ~IsBadField(lines[i])
        BY <1>1, <1>4, Zenon
    <1>6. ASSUME NEW name
          PROVE  Named(i, name, TokenOrNul) <=> ~IsBadField(lines[i]) /\ NameOf(lines[i]) = name
        BY <1>2, <1>4, Zenon
    <1>7. ASSUME NEW N
          PROVE  IsLength(i, N, TokenOrNul) <=> IsLengthAt(i) /\ IsNumeral(FieldValue(lines[i]))
                                    /\ Number(FieldValue(lines[i])) \in N
        <2>1. ASSUME NEW n, NEW v, Field(lines[i], n, v), n = <<"Content-Length">>,
                     IsNumeral(v), Number(v) \in N
              PROVE  IsLengthAt(i) /\ IsNumeral(FieldValue(lines[i]))
                     /\ Number(FieldValue(lines[i])) \in N
            BY <1>4, <2>1 DEF IsLengthAt
        <2>2. ASSUME IsLengthAt(i)
              PROVE  /\ Field(lines[i], NameOf(lines[i]), FieldValue(lines[i]))
                     /\ NameOf(lines[i]) = <<"Content-Length">>
            BY <1>4, <2>2 DEF IsLengthAt
        <2> QED BY <1>3, <2>1, <2>2, Zenon
    <1> QED BY <1>5, <1>6, <1>7, Zenon

(* A length is accepted exactly if it is a number that fits.               *)
LEMMA LengthMeans ==
    ASSUME AreLines, NEW i \in Fields, IsLengthAt(i)
    PROVE  /\ IsLength(i, 0 .. MaxSize, TokenOrNul) <=> LengthAt(i) # -1
           /\ LengthAt(i) # -1 => IsLength(i, {LengthAt(i)}, TokenOrNul)
    <1>1. FieldValue(lines[i]) \in Seq(HeadSymbol)
        BY FieldMeans, FieldValueIsText DEF IsLengthAt
    <1> QED BY <1>1, HasMeans, DecimalMeans DEF LengthAt

(* No two headers are a Content-Length.                                    *)
AtMostOneLength == \A i, j \in Fields : IsLengthAt(i) /\ IsLengthAt(j) => i = j

(* A head has at most one length if no two headers are one.                *)
LEMMA LengthsMeans ==
    ASSUME AreLines
    PROVE  /\ Lengths(TokenOrNul) = {i \in Fields : IsLengthAt(i)}
           /\ Cardinality(Lengths(TokenOrNul)) <= 1 <=> AtMostOneLength
           /\ Lengths(TokenOrNul) = {} => Cardinality(Lengths(TokenOrNul)) = 0
           /\ \A j : Lengths(TokenOrNul) = {j} => Cardinality(Lengths(TokenOrNul)) = 1
    <1>1. Lengths(TokenOrNul) = {i \in Fields : IsLengthAt(i)}
        BY HasMeans, Zenon DEF Lengths, IsLengthAt
    <1>2. IsFiniteSet(Lengths(TokenOrNul)) /\ Cardinality(Lengths(TokenOrNul)) \in Nat
        <2>1. Len(lines) \in Nat
            BY LenProperties DEF AreLines
        <2>2. IsFiniteSet(Fields)
            BY <2>1, FS_Interval DEF Fields
        <2> QED BY <1>1, <2>2, FS_Subset, FS_CardinalityType
    <1>3. ASSUME AtMostOneLength PROVE Cardinality(Lengths(TokenOrNul)) <= 1
        <2>1. CASE Lengths(TokenOrNul) = {}
            BY <2>1, FS_EmptySet
        <2>2. CASE Lengths(TokenOrNul) # {}
            <3>1. PICK i : Lengths(TokenOrNul) = {i}
                BY <1>1, <1>3, <2>2 DEF AtMostOneLength
            <3>2. Cardinality(Lengths(TokenOrNul)) = 1
                BY <3>1, FS_Singleton, Zenon
            <3> QED BY <3>2
        <2> QED BY <2>1, <2>2
    <1>4. ASSUME Cardinality(Lengths(TokenOrNul)) <= 1,
                 NEW i \in Lengths(TokenOrNul), NEW j \in Lengths(TokenOrNul)
          PROVE  i = j
        <2> SUFFICES ASSUME i # j PROVE FALSE
            OBVIOUS
        <2>1. /\ IsFiniteSet({i}) /\ Cardinality({i}) = 1
              /\ Cardinality({i} \cup {j}) = Cardinality({i}) + 1
            BY FS_Singleton, FS_AddElement
        <2>2. {i} \cup {j} \subseteq Lengths(TokenOrNul)
            OBVIOUS
        <2>3. Cardinality({i} \cup {j}) <= Cardinality(Lengths(TokenOrNul))
            BY <1>2, <2>2, FS_Subset
        <2> QED BY <1>2, <1>4, <2>1, <2>3
    <1>5. Cardinality(Lengths(TokenOrNul)) <= 1 => AtMostOneLength
        BY <1>1, <1>4 DEF AtMostOneLength
    <1>6. Lengths(TokenOrNul) = {} => Cardinality(Lengths(TokenOrNul)) = 0
        BY FS_EmptySet
    <1>7. \A j : Lengths(TokenOrNul) = {j} => Cardinality(Lengths(TokenOrNul)) = 1
        BY FS_Singleton
    <1> QED BY <1>1, <1>3, <1>5, <1>6, <1>7

(* What the scan checks of a head.                                         *)
NothingIsWrong ==
    /\ ~IsBadRequestLine(lines[1])
    /\ \A i \in Fields : ~IsBadField(lines[i])
    /\ AtMostOneLength
    /\ \A i \in Fields : IsLengthAt(i) => LengthAt(i) # -1

(* The heads of the grammar are those in which the scan finds no fault.    *)
LEMMA WellFormedMeans ==
    ASSUME AreLines
    PROVE  IsWellFormed(TokenOrNul) <=> NothingIsWrong
    <1>1. lines[1] \in Seq(HeadSymbol)
        <2>1. 1 \in 1 .. Len(lines)
            BY LenProperties, EmptySeq DEF AreLines
        <2> QED BY <2>1, ElementOfSeq DEF AreLines
    <1>2. (\E m, t \in Parts(lines[1]) : IsRequestLine(lines[1], m, t, TokenOrNul))
              <=> ~IsBadRequestLine(lines[1])
        BY <1>1, RequestLineMeans, Zenon
    <1>3. (\A i \in Fields : Has(i, LAMBDA n, v : TRUE, TokenOrNul))
              <=> \A i \in Fields : ~IsBadField(lines[i])
        BY HasMeans, Zenon
    <1>4. (\A i \in Lengths(TokenOrNul) : IsLength(i, 0 .. MaxSize, TokenOrNul))
              <=> \A i \in Fields : IsLengthAt(i) => LengthAt(i) # -1
        BY LengthMeans, LengthsMeans
    <1> QED BY <1>2, <1>3, <1>4, LengthsMeans, Zenon DEF IsWellFormed, NothingIsWrong

-----------------------------------------------------------------------------
(* What is known once cursor lines were read and nothing was wrong.        *)
ReadSoFar ==
    /\ IF cursor = 0 THEN ~transfer /\ count = 0
       ELSE /\ ~IsBadRequestLine(lines[1])
            /\ method = MethodOf(lines[1])
            /\ target = SubSeq(lines[1], First(lines[1]) + 1, Second(lines[1]) - 1)
    /\ \A i \in 2 .. cursor : ~IsBadField(lines[i])
    /\ transfer <=> \E i \in 2 .. cursor : NameOf(lines[i]) = <<"Transfer-Encoding">>
    /\ \/ count = 0 /\ \A i \in 2 .. cursor : ~IsLengthAt(i)
       \/ /\ count = 1 /\ contentLength # -1
          /\ \E j \in 2 .. cursor :
                /\ IsLengthAt(j) /\ LengthAt(j) = contentLength
                /\ \A i \in 2 .. cursor : IsLengthAt(i) => i = j

(* A head is refused only if something is wrong, and anything else is      *)
(* known to be right as far as it was read.  HeadIsUnderstood speaks of the*)
(* verdict alone, and so says nothing of what was read before there is one.*)
HeadInv ==
    /\ AreLines
    /\ cursor \in 0 .. Len(lines)
    /\ transfer \in BOOLEAN
    /\ verdict \in {"none", "BAD_REQUEST", "OK", "UNSUPPORTED_TRANSFER"}
    /\ IF verdict = "BAD_REQUEST" THEN ~NothingIsWrong ELSE ReadSoFar
    /\ verdict \in {"OK", "UNSUPPORTED_TRANSFER"} => cursor = Len(lines)
    /\ verdict = "OK" => ~transfer
    /\ verdict = "UNSUPPORTED_TRANSFER" => transfer

(* Before anything is read.                                                *)
LEMMA InitHead == HeadInit => HeadInv
    <1> SUFFICES ASSUME HeadInit PROVE HeadInv
        OBVIOUS
    <1>1. AreLines
        BY HeadAssumption DEF HeadInit, AreLines
    <1>2. cursor \in 0 .. Len(lines) /\ 2 .. cursor = {}
        BY <1>1, LenProperties DEF HeadInit, AreLines
    <1>3. ReadSoFar
        BY <1>2 DEF HeadInit, ReadSoFar
    <1> QED BY <1>1, <1>2, <1>3 DEF HeadInit, HeadInv

(* Once something is wrong with the head, it is.                           *)
LEMMA WrongStaysWrong ==
    ASSUME UNCHANGED lines
    PROVE  NothingIsWrong' <=> NothingIsWrong
    BY DEF NothingIsWrong, AtMostOneLength, Fields, IsLengthAt, LengthAt

(* Reading the request line preserves the invariant.                       *)
LEMMA RequestLineInv == HeadInv /\ RequestLine => HeadInv'
    <1> SUFFICES ASSUME HeadInv, RequestLine PROVE HeadInv'
        OBVIOUS
    <1>1. AreLines /\ UNCHANGED lines /\ cursor = 0 /\ cursor' = 1 /\ verdict = "none"
          /\ transfer' = transfer /\ count' = count /\ transfer \in BOOLEAN
        BY DEF HeadInv, RequestLine
    <1>2. AreLines' /\ cursor' \in 0 .. Len(lines') /\ 2 .. cursor' = {}
        BY <1>1, LenProperties, EmptySeq DEF AreLines
    <1>3. CASE IsBadRequestLine(lines[1])
        <2>1. verdict' = "BAD_REQUEST"
            BY <1>3 DEF RequestLine
        <2>2. ~NothingIsWrong
            BY <1>3 DEF NothingIsWrong
        <2>3. ~NothingIsWrong'
            BY <1>1, <2>2, WrongStaysWrong
        <2> QED BY <1>1, <1>2, <2>1, <2>3 DEF HeadInv
    <1>4. CASE ~IsBadRequestLine(lines[1])
        <2>1. /\ verdict' = verdict /\ method' = MethodOf(lines[1])
              /\ target' = SubSeq(lines[1], First(lines[1]) + 1, Second(lines[1]) - 1)
            BY <1>4 DEF RequestLine
        <2>2. ~transfer /\ count = 0
            BY <1>1 DEF HeadInv, ReadSoFar
        <2>3. ReadSoFar'
            BY <1>1, <1>2, <1>4, <2>1, <2>2 DEF ReadSoFar
        <2> QED BY <1>1, <1>2, <2>1, <2>3 DEF HeadInv
    <1> QED BY <1>3, <1>4

(* Reading a header preserves the invariant.                               *)
LEMMA HeaderLineInv == HeadInv /\ HeaderLine => HeadInv'
    <1> SUFFICES ASSUME HeadInv, HeaderLine PROVE HeadInv'
        OBVIOUS
    <1>1. /\ AreLines /\ UNCHANGED <<lines, method, target>> /\ ReadSoFar
          /\ verdict = "none" /\ transfer \in BOOLEAN
          /\ cursor \in 1 .. (Len(lines) - 1) /\ cursor' = cursor + 1
        BY DEF HeadInv, HeaderLine
    <1>2. PICK n \in Nat : n = Len(lines)
        BY <1>1, LenProperties DEF AreLines
    <1>3. PICK c \in Nat : c = cursor /\ c \in 1 .. (n - 1)
        BY <1>1, <1>2
    <1>4. PICK i \in Nat : i = c + 1 /\ i \in 2 .. n
        BY <1>2, <1>3
    <1>5. AreLines' /\ cursor' \in 0 .. Len(lines') /\ cursor' = i /\ cursor' # 0
        BY <1>1, <1>2, <1>3, <1>4 DEF AreLines
    <1>6. /\ \A k \in 2 .. i : k \in 2 .. c \/ k = i
          /\ \A k \in 2 .. c : k \in 2 .. i /\ k # i /\ k \in Fields
          /\ i \in Fields /\ i \in 2 .. i
        BY <1>2, <1>3, <1>4 DEF Fields
    <1> DEFINE line == lines[i]
    <1>7. /\ \/ IsBadField(line) /\ Bad
             \/ /\ ~IsBadField(line) /\ NameOf(line) = <<"Content-Length">>
                /\ \/ (count = 1 \/ LengthAt(i) = -1) /\ Bad
                   \/ /\ count = 0 /\ LengthAt(i) # -1
                      /\ count' = 1 /\ contentLength' = LengthAt(i)
                      /\ UNCHANGED <<transfer, verdict>>
             \/ /\ ~IsBadField(line) /\ NameOf(line) # <<"Content-Length">>
                /\ transfer' = (transfer \/ NameOf(line) = <<"Transfer-Encoding">>)
                /\ UNCHANGED <<count, contentLength, verdict>>
        BY <1>3, <1>4, Zenon DEF HeaderLine, LengthAt, FieldValue, ColonOf
    <1> HIDE DEF line
    <1>8. ASSUME Bad, ~NothingIsWrong PROVE HeadInv'
        <2>1. ~NothingIsWrong'
            BY <1>1, <1>8, WrongStaysWrong
        <2> QED BY <1>1, <1>5, <1>8, <2>1 DEF Bad, HeadInv
    <1>9. ASSUME UNCHANGED verdict, transfer' \in BOOLEAN, ReadSoFar' PROVE HeadInv'
        BY <1>1, <1>5, <1>9 DEF HeadInv
    <1>10. /\ ~IsBadRequestLine(lines[1])
           /\ method = MethodOf(lines[1])
           /\ target = SubSeq(lines[1], First(lines[1]) + 1, Second(lines[1]) - 1)
           /\ \A k \in 2 .. c : ~IsBadField(lines[k])
           /\ transfer <=> \E k \in 2 .. c : NameOf(lines[k]) = <<"Transfer-Encoding">>
        BY <1>1, <1>3 DEF ReadSoFar
    <1>11. \/ count = 0 /\ \A k \in 2 .. c : ~IsLengthAt(k)
           \/ /\ count = 1 /\ contentLength # -1
              /\ \E j \in 2 .. c :
                    /\ IsLengthAt(j) /\ LengthAt(j) = contentLength
                    /\ \A k \in 2 .. c : IsLengthAt(k) => k = j
        BY <1>1, <1>3 DEF ReadSoFar
    <1>12. \A k : (IsLengthAt(k)' <=> IsLengthAt(k)) /\ LengthAt(k)' = LengthAt(k)
        BY <1>1 DEF IsLengthAt, LengthAt
    <1>13. CASE IsBadField(line) /\ Bad
        BY <1>6, <1>8, <1>13 DEF NothingIsWrong, line
    <1>14. CASE /\ ~IsBadField(line) /\ NameOf(line) = <<"Content-Length">>
                /\ (count = 1 \/ LengthAt(i) = -1) /\ Bad
        <2>1. IsLengthAt(i)
            BY <1>14 DEF IsLengthAt, line
        <2>2. CASE count = 1
            <3>1. PICK j \in 2 .. c : IsLengthAt(j)
                BY <1>11, <2>2
            <3>2. ~AtMostOneLength
                BY <1>6, <2>1, <3>1 DEF AtMostOneLength
            <3> QED BY <1>8, <1>14, <3>2 DEF NothingIsWrong
        <2>3. CASE LengthAt(i) = -1
            BY <1>6, <1>8, <1>14, <2>1, <2>3 DEF NothingIsWrong
        <2> QED BY <1>14, <2>2, <2>3
    <1>15. CASE /\ ~IsBadField(line) /\ NameOf(line) = <<"Content-Length">>
                /\ count = 0 /\ LengthAt(i) # -1
                /\ count' = 1 /\ contentLength' = LengthAt(i)
                /\ UNCHANGED <<transfer, verdict>>
        <2>1. IsLengthAt(i) /\ \A k \in 2 .. i : IsLengthAt(k) => k = i
            BY <1>6, <1>11, <1>15 DEF IsLengthAt, line
        <2>2. \A k \in 2 .. i : ~IsBadField(lines[k])
            BY <1>6, <1>10, <1>15 DEF line
        <2>3. transfer <=> \E k \in 2 .. i : NameOf(lines[k]) = <<"Transfer-Encoding">>
            <3>1. NameOf(line) # <<"Transfer-Encoding">>
                BY <1>15
            <3> QED BY <1>6, <1>10, <3>1 DEF line
        <2>4. ReadSoFar'
            BY <1>1, <1>5, <1>6, <1>10, <1>12, <1>15, <2>1, <2>2, <2>3 DEF ReadSoFar
        <2> QED BY <1>1, <1>9, <1>15, <2>4
    <1>16. CASE /\ ~IsBadField(line) /\ NameOf(line) # <<"Content-Length">>
                /\ transfer' = (transfer \/ NameOf(line) = <<"Transfer-Encoding">>)
                /\ UNCHANGED <<count, contentLength, verdict>>
        <2>1. ~IsLengthAt(i)
            BY <1>16 DEF IsLengthAt, line
        <2>2. \A k \in 2 .. i : ~IsBadField(lines[k])
            BY <1>6, <1>10, <1>16 DEF line
        <2>3. transfer' <=> \E k \in 2 .. i : NameOf(lines[k]) = <<"Transfer-Encoding">>
            BY <1>6, <1>10, <1>16 DEF line
        <2>4. \/ count' = 0 /\ \A k \in 2 .. i : ~IsLengthAt(k)
              \/ /\ count' = 1 /\ contentLength' # -1
                 /\ \E j \in 2 .. i :
                       /\ IsLengthAt(j) /\ LengthAt(j) = contentLength'
                       /\ \A k \in 2 .. i : IsLengthAt(k) => k = j
            <3>1. CASE count = 0
                BY <1>6, <1>11, <1>16, <2>1, <3>1
            <3>2. CASE count = 1
                <4>1. PICK j \in 2 .. c : IsLengthAt(j) /\ LengthAt(j) = contentLength
                              /\ \A k \in 2 .. c : IsLengthAt(k) => k = j
                    BY <1>11, <3>2
                <4>2. j \in 2 .. i /\ \A k \in 2 .. i : IsLengthAt(k) => k = j
                    BY <1>6, <2>1, <4>1
                <4>3. contentLength # -1
                    BY <1>11, <3>2
                <4> QED BY <1>16, <3>2, <4>1, <4>2, <4>3
            <3> QED BY <1>11, <3>1, <3>2
        <2>5. ReadSoFar'
            BY <1>1, <1>5, <1>10, <1>12, <2>2, <2>3, <2>4 DEF ReadSoFar
        <2>6. transfer' \in BOOLEAN
            BY <1>1, <1>16
        <2> QED BY <1>9, <1>16, <2>5, <2>6
    <1> QED BY <1>7, <1>13, <1>14, <1>15, <1>16

(* So does the end of the head,                                            *)
LEMMA EndOfHeadInv == HeadInv /\ EndOfHead => HeadInv'
    <1> SUFFICES ASSUME HeadInv, EndOfHead PROVE HeadInv'
        OBVIOUS
    <1>1. /\ AreLines /\ ReadSoFar /\ verdict = "none" /\ transfer \in BOOLEAN
          /\ UNCHANGED <<lines, cursor, method, target, contentLength, count, transfer>>
          /\ cursor \in 0 .. Len(lines) /\ cursor = Len(lines)
          /\ verdict' = IF transfer THEN "UNSUPPORTED_TRANSFER" ELSE "OK"
        BY DEF HeadInv, EndOfHead
    <1>2. ReadSoFar' /\ AreLines'
        BY <1>1 DEF ReadSoFar, AreLines, IsLengthAt, LengthAt
    <1> QED BY <1>1, <1>2 DEF HeadInv

(* and doing nothing.                                                      *)
LEMMA HeadStuttering == HeadInv /\ UNCHANGED headVars => HeadInv'
    <1> SUFFICES ASSUME HeadInv, UNCHANGED headVars PROVE HeadInv'
        OBVIOUS
    <1>1. /\ UNCHANGED <<lines, cursor, method, target, contentLength, count, transfer>>
          /\ UNCHANGED verdict
        BY DEF headVars
    <1>2. (ReadSoFar' <=> ReadSoFar) /\ (AreLines' <=> AreLines)
        BY <1>1 DEF ReadSoFar, AreLines, IsLengthAt, LengthAt
    <1>3. NothingIsWrong' <=> NothingIsWrong
        BY <1>1, WrongStaysWrong
    <1> QED BY <1>1, <1>2, <1>3 DEF HeadInv

(* An accepted head is one in which nothing is wrong.                      *)
LEMMA AcceptedHead ==
    ASSUME HeadInv, verdict \in {"OK", "UNSUPPORTED_TRANSFER"}
    PROVE  /\ NothingIsWrong
           /\ count = Cardinality(Lengths(TokenOrNul))
           /\ \A i \in Lengths(TokenOrNul) : IsLength(i, {contentLength}, TokenOrNul)
    <1>1. AreLines /\ ReadSoFar /\ cursor = Len(lines)
        BY DEF HeadInv
    <1>2. cursor # 0 /\ 2 .. cursor = Fields
        BY <1>1, EmptySeq DEF AreLines, Fields
    <1>3. ~IsBadRequestLine(lines[1]) /\ \A i \in Fields : ~IsBadField(lines[i])
        BY <1>1, <1>2 DEF ReadSoFar
    <1>4. Lengths(TokenOrNul) = {i \in Fields : IsLengthAt(i)}
        BY <1>1, LengthsMeans
    <1>5. CASE count = 0 /\ \A i \in Fields : ~IsLengthAt(i)
        <2>1. Lengths(TokenOrNul) = {}
            BY <1>4, <1>5
        <2>2. NothingIsWrong
            BY <1>3, <1>5 DEF NothingIsWrong, AtMostOneLength
        <2> QED BY <1>1, <1>5, <2>1, <2>2, LengthsMeans
    <1>6. CASE /\ count = 1 /\ contentLength # -1
               /\ \E j \in Fields :
                     /\ IsLengthAt(j) /\ LengthAt(j) = contentLength
                     /\ \A i \in Fields : IsLengthAt(i) => i = j
        <2>1. PICK j \in Fields : /\ IsLengthAt(j) /\ LengthAt(j) = contentLength
                                  /\ \A i \in Fields : IsLengthAt(i) => i = j
            BY <1>6
        <2>2. Lengths(TokenOrNul) = {j}
            BY <1>4, <2>1
        <2>3. NothingIsWrong
            BY <1>3, <1>6, <2>1 DEF NothingIsWrong, AtMostOneLength
        <2>4. IsLength(j, {contentLength}, TokenOrNul)
            BY <1>1, <1>6, <2>1, LengthMeans
        <2> QED BY <1>1, <1>6, <2>2, <2>3, <2>4, LengthsMeans
    <1> QED BY <1>1, <1>2, <1>5, <1>6 DEF ReadSoFar

(* The invariant implies the property.                                     *)
LEMMA InvUnderstands == HeadInv => HeadIsUnderstood
    <1> SUFFICES ASSUME HeadInv, verdict # "none" PROVE HeadIsUnderstood
        BY DEF HeadIsUnderstood
    <1>1. AreLines
        BY DEF HeadInv
    <1>2. IsWellFormed(TokenOrNul) <=> NothingIsWrong
        BY <1>1, WellFormedMeans
    <1>3. CASE verdict = "BAD_REQUEST"
        BY <1>2, <1>3 DEF HeadInv, HeadIsUnderstood
    <1>4. CASE verdict # "BAD_REQUEST"
        <2>1. verdict \in {"OK", "UNSUPPORTED_TRANSFER"} /\ ReadSoFar /\ cursor = Len(lines)
            BY <1>4 DEF HeadInv
        <2>2. /\ NothingIsWrong /\ count = Cardinality(Lengths(TokenOrNul))
              /\ \A i \in Lengths(TokenOrNul) : IsLength(i, {contentLength}, TokenOrNul)
            BY <2>1, AcceptedHead
        <2>3. cursor # 0 /\ 2 .. cursor = Fields /\ lines[1] \in Seq(HeadSymbol)
            <3>1. 1 \in 1 .. Len(lines)
                BY <1>1, LenProperties, EmptySeq DEF AreLines
            <3> QED BY <1>1, <2>1, <3>1, ElementOfSeq DEF AreLines, Fields
        <2>4. \E m \in Parts(lines[1]) :
                  /\ IsRequestLine(lines[1], m, target, TokenOrNul)
                  /\ method = IF m \in {<<"GET">>, <<"POST">>} THEN m[1] ELSE "OTHER"
            <3>1. PICK m \in Parts(lines[1]) :
                      \E t \in Parts(lines[1]) :
                          /\ IsRequestLine(lines[1], m, t, TokenOrNul)
                          /\ m = SubSeq(lines[1], 1, First(lines[1]) - 1)
                          /\ t = SubSeq(lines[1], First(lines[1]) + 1, Second(lines[1]) - 1)
                BY <2>2, <2>3, RequestLineMeans, Zenon DEF NothingIsWrong
            <3>2. /\ method = MethodOf(lines[1])
                  /\ target = SubSeq(lines[1], First(lines[1]) + 1, Second(lines[1]) - 1)
                BY <2>1, <2>3 DEF ReadSoFar
            <3>3. IsRequestLine(lines[1], m, target, TokenOrNul)
                BY <3>1, <3>2, Zenon
            <3>4. method = IF m \in {<<"GET">>, <<"POST">>} THEN m[1] ELSE "OTHER"
                BY <3>1, <3>2, Zenon DEF MethodOf
            <3> QED BY <3>3, <3>4, Zenon
        <2>5. (verdict = "UNSUPPORTED_TRANSFER") <=>
                  \E i \in Fields : Named(i, <<"Transfer-Encoding">>, TokenOrNul)
            <3>1. (verdict = "UNSUPPORTED_TRANSFER") <=> transfer
                BY <2>1 DEF HeadInv
            <3>2. transfer <=> \E i \in Fields : NameOf(lines[i]) = <<"Transfer-Encoding">>
                BY <2>1, <2>3 DEF ReadSoFar
            <3>3. \A i \in Fields : Named(i, <<"Transfer-Encoding">>, TokenOrNul)
                      <=> NameOf(lines[i]) = <<"Transfer-Encoding">>
                BY <1>1, <2>2, HasMeans, Zenon DEF NothingIsWrong
            <3> QED BY <3>1, <3>2, <3>3
        <2> QED BY <1>2, <1>4, <2>2, <2>4, <2>5, Zenon DEF HeadIsUnderstood
    <1> QED BY <1>3, <1>4

(* http_parse_request accepts the heads of the grammar and no others, and  *)
(* takes from them what they say, for all lines, limits and numbers.       *)
THEOREM HeadsAreUnderstood == HeadSpec => []HeadIsUnderstood
    <1>1. HeadInv /\ [HeadNext]_headVars => HeadInv'
        BY RequestLineInv, HeaderLineInv, EndOfHeadInv, HeadStuttering DEF HeadNext
    <1> QED BY <1>1, InitHead, InvUnderstands, PTL DEF HeadSpec

-----------------------------------------------------------------------------
(***************************************************************************)
(* The JSON parser.  The grammar describes spans of the text, the parser   *)
(* one place in it.  They meet in Expect: how the text from that place on  *)
(* must look, up to the end of the array or object the place is in, if the *)
(* grammar is to hold.  Each action turns it into the Expect of the next   *)
(* place; the stack holds what must be said of the outer arrays and        *)
(* objects, once for every end each of them may have (AreNested).  Which   *)
(* value is that of url, and how deep it is, is counted beside it (Place,  *)
(* Context).                                                               *)
(***************************************************************************)

(* The language of JSON in a text tells which of its spans are values,     *)
(* elements and members: a solution of the equations of JsonGrammar.tla.   *)
Derives(s, is, span) ==
    CASE span[1] = "value" -> Grammar!IsValue(s, is, span[2], span[3])
      [] span[1] = "elements" -> Grammar!IsElements(s, is, span[2], span[3])
      [] span[1] = "members" -> Grammar!IsMembers(s, is, span[2], span[3])

IsLanguage(s, is) == is = [span \in Grammar!Spans(s) |-> Derives(s, is, span)]

(* The spans that the equations of a span ask about.                       *)
LEMMA SpanIs ==
    ASSUME NEW s \in Seq(Symbol), NEW i \in 1 .. (Len(s) + 1), NEW j \in 0 .. Len(s),
           NEW kind \in {"value", "elements", "members"}
    PROVE  <<kind, i, j>> \in Grammar!Spans(s)
    BY DEF Grammar!Spans

Weaker(s, is, as) == \A span \in Grammar!Spans(s) : is[span] => as[span]

(* A language that tells of more spans derives no fewer.                   *)
LEMMA DerivesGrows ==
    ASSUME NEW s \in Seq(Symbol), NEW is, NEW as, Weaker(s, is, as),
           NEW span \in Grammar!Spans(s), Derives(s, is, span)
    PROVE  Derives(s, as, span)
    <1> DEFINE n == Len(s)
    <1>0. n \in Nat
        OBVIOUS
    <1>1. ASSUME NEW kind \in {"value", "elements", "members"},
                 NEW i \in 1 .. (n + 1), NEW j \in 0 .. n, is[<<kind, i, j>>]
          PROVE  as[<<kind, i, j>>]
        BY <1>1, SpanIs DEF Weaker
    <1>2. PICK kind \in {"value", "elements", "members"}, i \in 1 .. (n + 1), j \in 0 .. n :
                span = <<kind, i, j>>
        BY DEF Grammar!Spans
    <1> HIDE DEF n
    <1>3. ASSUME NEW a \in i .. j, NEW b \in a .. j, Grammar!IsItem(s, is, a, b)
          PROVE  Grammar!IsItem(s, as, a, b)
        <2>1. a < b => a + 1 \in 1 .. (n + 1) /\ b - 1 \in 0 .. n
            BY <1>0
        <2> QED BY <1>1, <1>3, <2>1, Zenon DEF Grammar!IsItem
    <1>4. ASSUME Grammar!IsValue(s, is, i, j) PROVE Grammar!IsValue(s, as, i, j)
        BY <1>3, <1>4, Zenon DEF Grammar!IsValue
    <1>5. ASSUME Grammar!IsElements(s, is, i, j) PROVE Grammar!IsElements(s, as, i, j)
        <2>1. \A k \in i .. j : k + 1 \in 1 .. (n + 1) /\ k - 1 \in 0 .. n
            BY <1>0
        <2> QED BY <1>1, <1>5, <2>1, Zenon DEF Grammar!IsElements
    <1>6. ASSUME Grammar!IsMembers(s, is, i, j) PROVE Grammar!IsMembers(s, as, i, j)
        <2>1. \A key \in i .. j : \A colon \in (key + 1) .. j :
                /\ colon + 1 \in 1 .. (n + 1)
                /\ \A k \in (colon + 1) .. j : k + 1 \in 1 .. (n + 1) /\ k - 1 \in 0 .. n
            BY <1>0
        <2> QED BY <1>1, <1>6, <2>1, Zenon DEF Grammar!IsMembers
    <1> QED BY <1>2, <1>4, <1>5, <1>6 DEF Derives

(* There is a language: the union of the sets that derive themselves.      *)
LEMMA LanguageExists ==
    ASSUME NEW s \in Seq(Symbol)
    PROVE  \E is : IsLanguage(s, is)
    <1> DEFINE Of(D) == [span \in Grammar!Spans(s) |-> span \in D]
               Self == {D \in SUBSET Grammar!Spans(s) :
                           \A span \in D : Derives(s, Of(D), span)}
               All == UNION Self
    <1>1. All \subseteq Grammar!Spans(s)
        OBVIOUS
    <1>2. ASSUME NEW D, NEW F, D \subseteq F PROVE Weaker(s, Of(D), Of(F))
        BY <1>2 DEF Weaker
    <1>3. ASSUME NEW span \in All PROVE Derives(s, Of(All), span)
        <2>1. PICK D \in Self : span \in D
            OBVIOUS
        <2>2. D \subseteq All /\ Derives(s, Of(D), span)
            BY <2>1
        <2>3. span \in Grammar!Spans(s)
            BY <1>1
        <2> HIDE DEF All, Of
        <2> QED BY <1>2, <2>2, <2>3, DerivesGrows
    <1> HIDE DEF All
    <1>4. ASSUME NEW span \in Grammar!Spans(s), Derives(s, Of(All), span) PROVE span \in All
        <2> DEFINE F == {x \in Grammar!Spans(s) : Derives(s, Of(All), x)}
        <2>1. All \subseteq F
            BY <1>1, <1>3
        <2>2. F \in SUBSET Grammar!Spans(s) /\ span \in F
            BY <1>4
        <2>3. ASSUME NEW x \in F PROVE Derives(s, Of(F), x)
            <3>1. Derives(s, Of(All), x) /\ x \in Grammar!Spans(s)
                OBVIOUS
            <3> HIDE DEF F, Of
            <3> QED BY <1>2, <2>1, <3>1, DerivesGrows
        <2> HIDE DEF F, Of
        <2> QED BY <2>2, <2>3 DEF All
    <1>5. \A span \in Grammar!Spans(s) : (span \in All) = Derives(s, Of(All), span)
        <2>1. \A span \in Grammar!Spans(s) : Derives(s, Of(All), span) \in BOOLEAN
            BY DEF Derives, Grammar!Spans, Grammar!IsValue, Grammar!IsElements, Grammar!IsMembers
        <2> QED BY <1>3, <1>4, <2>1
    <1>6. IsLanguage(s, Of(All))
        BY <1>5 DEF IsLanguage
    <1> HIDE DEF Of
    <1> QED BY <1>6

(* What the language tells of the spans of a text, one by one.             *)
LanguageIs(s, is, i, j) ==
    /\ is[<<"value", i, j>>] <=> Grammar!IsValue(s, is, i, j)
    /\ is[<<"elements", i, j>>] <=> Grammar!IsElements(s, is, i, j)
    /\ is[<<"members", i, j>>] <=> Grammar!IsMembers(s, is, i, j)

(* What the grammar says of each span, by its three definitions.           *)
LEMMA LanguageSolves ==
    ASSUME NEW s \in Seq(Symbol), NEW is, IsLanguage(s, is),
           NEW i \in 1 .. (Len(s) + 1), NEW j \in 0 .. Len(s)
    PROVE  LanguageIs(s, is, i, j)
    <1>1. \A kind \in {"value", "elements", "members"} :
            is[<<kind, i, j>>] = Derives(s, is, <<kind, i, j>>)
        <2>1. \A kind \in {"value", "elements", "members"} :
                <<kind, i, j>> \in Grammar!Spans(s)
            BY SpanIs
        <2> QED BY <2>1, Zenon DEF IsLanguage
    <1>2. is[<<"value", i, j>>] = Derives(s, is, <<"value", i, j>>)
        BY <1>1
    <1>3. is[<<"elements", i, j>>] = Derives(s, is, <<"elements", i, j>>)
        BY <1>1
    <1>4. is[<<"members", i, j>>] = Derives(s, is, <<"members", i, j>>)
        BY <1>1
    <1>5. Derives(s, is, <<"value", i, j>>) = Grammar!IsValue(s, is, i, j)
        BY DEF Derives
    <1>6. Derives(s, is, <<"elements", i, j>>) = Grammar!IsElements(s, is, i, j)
        BY DEF Derives
    <1>7. Derives(s, is, <<"members", i, j>>) = Grammar!IsMembers(s, is, i, j)
        BY DEF Derives
    <1> QED BY <1>2, <1>3, <1>4, <1>5, <1>6, <1>7 DEF LanguageIs

(* A text parses when its language tells that it is a value.               *)
LEMMA ParsesMeans ==
    ASSUME NEW s \in Seq(Symbol)
    PROVE  \E is : IsLanguage(s, is) /\ (Grammar!Parses(s) <=> is[<<"value", 1, Len(s)>>])
    <1> DEFINE is == CHOOSE f : f = [span \in Grammar!Spans(s) |-> Derives(s, f, span)]
    <1>1. Grammar!Parses(s) = is[<<"value", 1, Len(s)>>]
        BY Zenon DEF Grammar!Parses, Derives
    <1>2. IsLanguage(s, is)
        BY LanguageExists, Zenon DEF IsLanguage
    <1> HIDE DEF is
    <1> QED BY <1>1, <1>2

(* Two languages that tell the same of a span.                             *)
Agree(is, as, i, j) ==
    /\ is[<<"value", i, j>>] <=> as[<<"value", i, j>>]
    /\ is[<<"elements", i, j>>] <=> as[<<"elements", i, j>>]
    /\ is[<<"members", i, j>>] <=> as[<<"members", i, j>>]

(* Two languages that tell the same of every span shorter than i to j.     *)
AgreeBelow(s, is, as, i, j) ==
    \A x \in 1 .. (Len(s) + 1) : \A y \in 0 .. Len(s) :
        y - x < j - i => Agree(is, as, x, y)

(* A value, the elements of an array and the members of an object are made *)
(* of shorter spans, the value that is the only element apart: what one    *)
(* language tells of a span the other tells as well.                       *)
LEMMA LanguagesFollow ==
    ASSUME NEW s \in Seq(Symbol), NEW is, NEW as, IsLanguage(s, is), IsLanguage(s, as),
           NEW i \in 1 .. (Len(s) + 1), NEW j \in 0 .. Len(s),
           AgreeBelow(s, is, as, i, j)
    PROVE  /\ is[<<"value", i, j>>] => as[<<"value", i, j>>]
           /\ is[<<"elements", i, j>>] => as[<<"elements", i, j>>]
           /\ is[<<"members", i, j>>] => as[<<"members", i, j>>]
    <1>0. Len(s) \in Nat
        OBVIOUS
    <1>1. LanguageIs(s, is, i, j) /\ LanguageIs(s, as, i, j)
        BY LanguageSolves
    <1>2. ASSUME NEW x \in 1 .. (Len(s) + 1), NEW y \in 0 .. Len(s), y - x < j - i
          PROVE  Agree(is, as, x, y)
        BY <1>2, Zenon DEF AgreeBelow
    <1>3. ASSUME is[<<"value", i, j>>] PROVE as[<<"value", i, j>>]
        <2>1. PICK a \in i .. j, b \in i .. j :
                /\ b \in a .. j
                /\ Grammar!Blank(s, i, a - 1) /\ Grammar!IsItem(s, is, a, b)
                /\ Grammar!Blank(s, b + 1, j)
            <3>1. Grammar!IsValue(s, is, i, j)
                BY <1>1, <1>3, Zenon DEF LanguageIs
            <3>2. \A a \in i .. j : \A b \in a .. j : b \in i .. j
                BY <1>0
            <3> QED BY <3>1, <3>2, Zenon DEF Grammar!IsValue
        <2>2. a < b => Agree(is, as, a + 1, b - 1)
            <3>1. a < b => /\ a + 1 \in 1 .. (Len(s) + 1) /\ b - 1 \in 0 .. Len(s)
                           /\ (b - 1) - (a + 1) < j - i
                BY <1>0
            <3> QED BY <1>2, <3>1, Zenon
        <2>3. Grammar!IsItem(s, as, a, b)
            BY <2>1, <2>2, Zenon DEF Grammar!IsItem, Agree
        <2>4. Grammar!IsValue(s, as, i, j)
            BY <2>1, <2>3, Zenon DEF Grammar!IsValue
        <2> QED BY <1>1, <2>4, Zenon DEF LanguageIs
    <1>4. ASSUME is[<<"elements", i, j>>] PROVE as[<<"elements", i, j>>]
        <2>1. \A k \in i .. j : Agree(is, as, i, k - 1) /\ Agree(is, as, k + 1, j)
            <3>1. \A k \in i .. j :
                    /\ k - 1 \in 0 .. Len(s) /\ (k - 1) - i < j - i
                    /\ k + 1 \in 1 .. (Len(s) + 1) /\ j - (k + 1) < j - i
                BY <1>0
            <3> QED BY <1>2, <3>1, Zenon
        <2>2. Grammar!IsElements(s, is, i, j)
            BY <1>1, <1>4, Zenon DEF LanguageIs
        <2>3. Grammar!IsElements(s, as, i, j)
            BY <1>3, <2>1, <2>2, Zenon DEF Grammar!IsElements, Agree
        <2> QED BY <1>1, <2>3, Zenon DEF LanguageIs
    <1>5. ASSUME is[<<"members", i, j>>] PROVE as[<<"members", i, j>>]
        <2>1. \A key \in i .. j : \A colon \in (key + 1) .. j :
                /\ Agree(is, as, colon + 1, j)
                /\ \A k \in (colon + 1) .. j :
                        Agree(is, as, colon + 1, k - 1) /\ Agree(is, as, k + 1, j)
            <3>1. \A key \in i .. j : \A colon \in (key + 1) .. j :
                    /\ colon + 1 \in 1 .. (Len(s) + 1) /\ j - (colon + 1) < j - i
                    /\ \A k \in (colon + 1) .. j :
                        /\ k - 1 \in 0 .. Len(s) /\ (k - 1) - (colon + 1) < j - i
                        /\ k + 1 \in 1 .. (Len(s) + 1) /\ j - (k + 1) < j - i
                BY <1>0
            <3> QED BY <1>2, <3>1, Zenon
        <2>2. Grammar!IsMembers(s, is, i, j)
            BY <1>1, <1>5, Zenon DEF LanguageIs
        <2>3. Grammar!IsMembers(s, as, i, j)
            BY <2>1, <2>2, Zenon DEF Grammar!IsMembers, Agree
        <2> QED BY <1>1, <2>3, Zenon DEF LanguageIs
    <1> QED BY <1>3, <1>4, <1>5

(* The equations of the grammar have one solution.                         *)
LEMMA LanguageIsUnique ==
    ASSUME NEW s \in Seq(Symbol), NEW is, NEW as, IsLanguage(s, is), IsLanguage(s, as)
    PROVE  as = is
    <1>0. Len(s) \in Nat
        OBVIOUS
    <1> DEFINE Above(i, j) == j - i + Len(s) + 1
               Settled == {n \in Nat :
                    \A i \in 1 .. (Len(s) + 1) : \A j \in 0 .. Len(s) :
                        Above(i, j) = n => Agree(is, as, i, j)}
    <1>1. \A n \in Nat : (\A m \in 0 .. (n - 1) : m \in Settled) => n \in Settled
        <2> SUFFICES ASSUME NEW n \in Nat, \A m \in 0 .. (n - 1) : m \in Settled,
                            NEW i \in 1 .. (Len(s) + 1), NEW j \in 0 .. Len(s), Above(i, j) = n
                     PROVE  Agree(is, as, i, j)
            OBVIOUS
        <2>1. ASSUME NEW x \in 1 .. (Len(s) + 1), NEW y \in 0 .. Len(s), y - x < j - i
              PROVE  Agree(is, as, x, y)
            <3>1. Above(x, y) \in 0 .. (n - 1)
                BY <1>0, <2>1
            <3>2. Above(x, y) \in Settled
                BY <3>1
            <3> HIDE DEF Above
            <3> QED BY <3>2
        <2>2. AgreeBelow(s, is, as, i, j) /\ AgreeBelow(s, as, is, i, j)
            BY <2>1 DEF AgreeBelow, Agree
        <2> HIDE DEF Above, Settled
        <2> QED BY <2>2, LanguagesFollow DEF Agree
    <1>2. \A n \in Nat : n \in Settled
        <2> HIDE DEF Settled
        <2> QED BY <1>1, StrongInduction
    <1>3. ASSUME NEW i \in 1 .. (Len(s) + 1), NEW j \in 0 .. Len(s) PROVE Agree(is, as, i, j)
        <2>1. Above(i, j) \in Nat
            BY <1>0
        <2> HIDE DEF Above
        <2> QED BY <1>2, <2>1
    <1>4. ASSUME NEW span \in Grammar!Spans(s) PROVE is[span] = as[span]
        <2>1. PICK kind \in {"value", "elements", "members"}, i \in 1 .. (Len(s) + 1), j \in 0 .. Len(s) :
                span = <<kind, i, j>>
            BY DEF Grammar!Spans
        <2>2. is[span] <=> as[span]
            BY <1>3, <2>1 DEF Agree
        <2>3. is[span] = Derives(s, is, span) /\ as[span] = Derives(s, as, span)
            BY <1>4, Zenon DEF IsLanguage
        <2>4. Derives(s, is, span) \in BOOLEAN /\ Derives(s, as, span) \in BOOLEAN
            BY DEF Derives, Grammar!Spans, Grammar!IsValue, Grammar!IsElements, Grammar!IsMembers
        <2>5. is[span] \in BOOLEAN /\ as[span] \in BOOLEAN
            BY <2>3, <2>4, Zenon
        <2> HIDE DEF Above, Settled
        <2>6. ASSUME NEW p \in BOOLEAN, NEW q \in BOOLEAN, p <=> q PROVE p = q
            BY <2>6
        <2> QED BY <2>2, <2>5, <2>6, Zenon
    <1>5. is = [span \in Grammar!Spans(s) |-> is[span]] /\ as = [span \in Grammar!Spans(s) |-> as[span]]
        BY DEF IsLanguage
    <1> HIDE DEF Above, Settled
    <1> QED BY <1>4, <1>5, Zenon

(* What the grammar of JSON (RFC 8259) asks of a text is asked without     *)
(* circle: exactly one language solves its equations, and a text parses    *)
(* when that language calls it a value.  What http_parse_url_json is       *)
(* compared with is therefore determined by the text alone.                *)
THEOREM GrammarIsDefinite ==
    ASSUME NEW s \in Seq(Symbol)
    PROVE  \E is : /\ \A as : IsLanguage(s, as) <=> as = is
                  /\ Grammar!Parses(s) <=> is[<<"value", 1, Len(s)>>]
    <1>1. PICK is : IsLanguage(s, is) /\ (Grammar!Parses(s) <=> is[<<"value", 1, Len(s)>>])
        BY ParsesMeans
    <1>2. \A as : IsLanguage(s, as) <=> as = is
        BY <1>1, LanguageIsUnique, Zenon
    <1> QED BY <1>1, <1>2, Zenon

-----------------------------------------------------------------------------
(* What is left of a value or of a list when its first item, or the symbol *)
(* in front of it, is known.  c is the symbol the list began with.         *)
List(is, c, i, j) ==
    IF c = BeginArray THEN is[<<"elements", i, j>>] ELSE is[<<"members", i, j>>]

TailOf(s, is, c, i, j) ==
    \/ is[<<"value", i, j>>]
    \/ \E k \in i .. j : /\ s[k] = ValueSeparator
                         /\ is[<<"value", i, k - 1>>]
                         /\ List(is, c, k + 1, j)

Rest(s, is, c, i, j) ==
    \/ Grammar!Blank(s, i, j)
    \/ \E k \in i .. j : /\ s[k] = ValueSeparator
                         /\ Grammar!Blank(s, i, k - 1)
                         /\ List(is, c, k + 1, j)

TailAt(s, is, c, p, j) ==
    \E b \in p .. j : Grammar!IsItem(s, is, p, b) /\ Rest(s, is, c, b + 1, j)

MembersAt(s, is, p, j) ==
    /\ s[p] \in String
    /\ \E colon \in (p + 1) .. j :
          /\ s[colon] = NameSeparator /\ Grammar!Blank(s, p + 1, colon - 1)
          /\ TailOf(s, is, BeginObject, colon + 1, j)

(* Where the white space at i ends.                                        *)
IsFirst(s, i, p) ==
    /\ p \in i .. (Len(s) + 1)
    /\ Grammar!Blank(s, i, p - 1)
    /\ p <= Len(s) => s[p] \notin Space

(* Skip finds where the white space ends.                                  *)
LEMMA SkipIs ==
    ASSUME NEW s \in Seq(Symbol), NEW i \in 1 .. (Len(s) + 1)
    PROVE  IsFirst(s, i, Skip(s, i))
    <1> DEFINE n == Len(s)
               T == {j \in i .. (n + 1) : j \in DOMAIN s => s[j] \notin Space}
    <1>0. n \in Nat /\ DOMAIN s = 1 .. n
        OBVIOUS
    <1>1. n + 1 \in T /\ T \subseteq Nat
        BY <1>0
    <1>2. PICK p \in T : \A j \in T : p <= j
        <2> HIDE DEF T
        <2> QED BY <1>1, LeastNumber
    <1>3. /\ p \in i .. (n + 1)
          /\ p \in DOMAIN s => s[p] \notin Space
          /\ \A k \in i .. (p - 1) : s[k] \in Space
        <2>1. ASSUME NEW k \in i .. (p - 1) PROVE s[k] \in Space
            <3>1. k \in i .. (n + 1) /\ k < p
                BY <1>0
            <3>2. k \notin T
                BY <1>0, <1>2, <3>1
            <3> QED BY <3>1, <3>2
        <2> QED BY <2>1
    <1>4. Skip(s, i) = CHOOSE j \in i .. (n + 1) :
                /\ j \in DOMAIN s => s[j] \notin Space
                /\ \A k \in i .. (j - 1) : s[k] \in Space
        BY DEF Skip
    <1>5. /\ Skip(s, i) \in i .. (n + 1)
          /\ Skip(s, i) \in DOMAIN s => s[Skip(s, i)] \notin Space
          /\ \A k \in i .. (Skip(s, i) - 1) : s[k] \in Space
        <2> HIDE DEF T, n
        <2> QED BY <1>3, <1>4, Zenon
    <1>6. Skip(s, i) <= n => Skip(s, i) \in DOMAIN s
        BY <1>0, <1>5
    <1> QED BY <1>5, <1>6 DEF IsFirst, Grammar!Blank

(* The first place with a property in front of a symbol that is no white   *)
(* space can only be where the white space ends.                           *)
LEMMA LeadingBlanks ==
    ASSUME NEW s \in Seq(Symbol), NEW i \in 1 .. (Len(s) + 1), NEW p, IsFirst(s, i, p),
           NEW e \in i .. Len(s), s[e] \notin Space, NEW A,
           \A a \in A : s[a] \notin Space
    PROVE  /\ p \in i .. e
           /\ (\E a \in i .. (e - 1) : Grammar!Blank(s, i, a - 1) /\ a \in A)
                <=> (p < e /\ p \in A)
           /\ Grammar!Blank(s, i, e - 1) <=> p = e
    <1>1. p \in Nat /\ e \in Nat /\ i \in Nat /\ Len(s) \in Nat
        BY DEF IsFirst
    <1>2. p <= e
        BY <1>1 DEF IsFirst, Grammar!Blank
    <1>3. ASSUME NEW a \in i .. (e - 1), Grammar!Blank(s, i, a - 1), a \in A
          PROVE  p = a
        BY <1>1, <1>2, <1>3 DEF IsFirst, Grammar!Blank
    <1>4. p < e => p \in i .. (e - 1) /\ Grammar!Blank(s, i, p - 1)
        BY <1>1 DEF IsFirst
    <1>5. Grammar!Blank(s, i, e - 1) => p = e
        BY <1>1, <1>2 DEF IsFirst, Grammar!Blank
    <1>6. p = e => Grammar!Blank(s, i, e - 1)
        BY DEF IsFirst
    <1>7. p \in i .. e
        BY <1>1, <1>2 DEF IsFirst
    <1>8. (\E a \in i .. (e - 1) : Grammar!Blank(s, i, a - 1) /\ a \in A)
                => (p < e /\ p \in A)
        BY <1>1, <1>3
    <1>9. (p < e /\ p \in A)
          => \E a \in i .. (e - 1) : Grammar!Blank(s, i, a - 1) /\ a \in A
        BY <1>4
    <1> QED BY <1>5, <1>6, <1>7, <1>8, <1>9

(* Only white space is in front of e when the white space ends there.      *)
LEMMA BlankBegins ==
    ASSUME NEW s \in Seq(Symbol), NEW i \in 1 .. (Len(s) + 1), NEW p, IsFirst(s, i, p),
           NEW e \in i .. Len(s), s[e] \notin Space
    PROVE  Grammar!Blank(s, i, e - 1) <=> p = e
    <1> DEFINE A == {}
    <1>1. \A a \in A : s[a] \notin Space
        OBVIOUS
    <1> HIDE DEF A
    <1>2. (\E a \in i .. (e - 1) : Grammar!Blank(s, i, a - 1) /\ a \in A) <=> (p < e /\ p \in A)
        BY <1>1, LeadingBlanks
    <1> QED BY <1>1, <1>2, LeadingBlanks

(* No part of a request begins with white space.                           *)
LEMMA SymbolsAreNoSpace ==
    /\ String \cap Space = {} /\ Literal \cap Space = {} /\ Digit \cap Space = {}
    /\ \A c \in {BeginArray, EndArray, BeginObject, EndObject, NameSeparator,
                  ValueSeparator, "-"} : c \notin Space
    <1>1. String \cap Space = {}
        BY JsonAssumption DEF Single
    <1> QED BY <1>1 DEF Literal, Digit, Space, BeginArray, EndArray, BeginObject, EndObject,
                NameSeparator, ValueSeparator

(* A number begins with a minus or a digit, ...                            *)
LEMMA NumberBegins ==
    ASSUME NEW s, NEW i \in Int, NEW j \in Int, Grammar!IsNumber(s, i, j)
    PROVE  s[i] = "-" \/ s[i] \in Digit
    <1>1. PICK sign \in {i - 1, i} : \E int \in i .. j :
            /\ sign = i => s[i] = "-"
            /\ sign + 1 <= int /\ \A k \in (sign + 1) .. int : s[k] \in Digit
        BY DEF Grammar!IsNumber
    <1>2. CASE sign = i
        BY <1>1, <1>2
    <1>3. CASE sign = i - 1
        <2>1. i \in (sign + 1) .. i /\ sign + 1 = i
            BY <1>3
        <2> QED BY <1>1, <1>3, <2>1
    <1> QED BY <1>1, <1>2, <1>3

(* ... and nothing begins with white space.                                *)
LEMMA ItemBegins ==
    ASSUME NEW s, NEW is, NEW a \in Int, NEW b \in Int, Grammar!IsItem(s, is, a, b)
    PROVE  s[a] \notin Space
    BY NumberBegins, SymbolsAreNoSpace DEF Grammar!IsItem

(* A value and what follows it: its item, and what follows that.           *)
LEMMA TailMeans ==
    ASSUME NEW s \in Seq(Symbol), NEW is, IsLanguage(s, is), NEW c,
           NEW i \in 1 .. (Len(s) + 1), NEW j \in 0 .. Len(s)
    PROVE  TailOf(s, is, c, i, j) <=>
              \E a \in i .. j : Grammar!Blank(s, i, a - 1) /\ TailAt(s, is, c, a, j)
    <1> DEFINE n == Len(s)
    <1>0. n \in Nat
        OBVIOUS
    <1>1. \A k \in 0 .. n : is[<<"value", i, k>>] <=> Grammar!IsValue(s, is, i, k)
        BY LanguageSolves DEF LanguageIs
    <1>2. ASSUME TailOf(s, is, c, i, j)
          PROVE  \E a \in i .. j : Grammar!Blank(s, i, a - 1) /\ TailAt(s, is, c, a, j)
        <2>1. CASE is[<<"value", i, j>>]
            <3>1. PICK a \in i .. j : \E b \in a .. j :
                        /\ Grammar!Blank(s, i, a - 1) /\ Grammar!IsItem(s, is, a, b)
                        /\ Grammar!Blank(s, b + 1, j)
                BY <1>1, <2>1 DEF Grammar!IsValue
            <3> QED BY <3>1 DEF TailAt, Rest
        <2>2. CASE \E k \in i .. j : /\ s[k] = ValueSeparator
                                     /\ is[<<"value", i, k - 1>>]
                                     /\ List(is, c, k + 1, j)
            <3>1. PICK k \in i .. j : /\ s[k] = ValueSeparator
                                     /\ is[<<"value", i, k - 1>>]
                                     /\ List(is, c, k + 1, j)
                BY <2>2
            <3>2. k - 1 \in 0 .. n
                BY <1>0
            <3>3. PICK a \in i .. (k - 1) : \E b \in a .. (k - 1) :
                        /\ Grammar!Blank(s, i, a - 1) /\ Grammar!IsItem(s, is, a, b)
                        /\ Grammar!Blank(s, b + 1, k - 1)
                BY <1>1, <3>1, <3>2 DEF Grammar!IsValue
            <3>4. PICK b \in a .. (k - 1) :
                        /\ Grammar!Blank(s, i, a - 1) /\ Grammar!IsItem(s, is, a, b)
                        /\ Grammar!Blank(s, b + 1, k - 1)
                BY <3>3
            <3>5. k \in (b + 1) .. j /\ b \in a .. j /\ a \in i .. j
                BY <1>0
            <3>6. Rest(s, is, c, b + 1, j)
                BY <3>1, <3>4, <3>5, Zenon DEF Rest
            <3>7. TailAt(s, is, c, a, j)
                BY <3>4, <3>5, <3>6, Zenon DEF TailAt
            <3> QED BY <3>4, <3>5, <3>7
        <2> QED BY <1>2, <2>1, <2>2 DEF TailOf
    <1>3. ASSUME NEW a \in i .. j, Grammar!Blank(s, i, a - 1), TailAt(s, is, c, a, j)
          PROVE  TailOf(s, is, c, i, j)
        <2>1. PICK b \in a .. j : Grammar!IsItem(s, is, a, b) /\ Rest(s, is, c, b + 1, j)
            BY <1>3 DEF TailAt
        <2>2. CASE Grammar!Blank(s, b + 1, j)
            <3>1. Grammar!IsValue(s, is, i, j)
                BY <1>3, <2>1, <2>2 DEF Grammar!IsValue
            <3> QED BY <1>1, <3>1 DEF TailOf
        <2>3. CASE \E k \in (b + 1) .. j : /\ s[k] = ValueSeparator
                                           /\ Grammar!Blank(s, b + 1, k - 1)
                                           /\ List(is, c, k + 1, j)
            <3>1. PICK k \in (b + 1) .. j : /\ s[k] = ValueSeparator
                                           /\ Grammar!Blank(s, b + 1, k - 1)
                                           /\ List(is, c, k + 1, j)
                BY <2>3
            <3>2. k \in i .. j /\ k - 1 \in 0 .. n /\ a \in i .. (k - 1) /\ b \in a .. (k - 1)
                BY <1>0
            <3>3. Grammar!IsValue(s, is, i, k - 1)
                BY <1>3, <2>1, <3>1, <3>2, Zenon DEF Grammar!IsValue
            <3>4. is[<<"value", i, k - 1>>]
                BY <1>1, <3>2, <3>3
            <3> QED BY <3>1, <3>2, <3>4, Zenon DEF TailOf
        <2> QED BY <2>1, <2>2, <2>3 DEF Rest
    <1> QED BY <1>2, <1>3

(* What the places are where a value, a member, or what follows them, can  *)
(* be, when it ends in front of a symbol e that is no white space.         *)
LEMMA TailBegins ==
    ASSUME NEW s \in Seq(Symbol), NEW is, IsLanguage(s, is), NEW c,
           NEW i \in 1 .. (Len(s) + 1), NEW p, IsFirst(s, i, p),
           NEW e \in i .. Len(s), s[e] \notin Space
    PROVE  TailOf(s, is, c, i, e - 1) <=> p < e /\ TailAt(s, is, c, p, e - 1)
    <1> DEFINE A == {a \in i .. e : TailAt(s, is, c, a, e - 1)}
    <1>1. ASSUME NEW a \in A PROVE s[a] \notin Space
        <2>1. PICK b \in a .. (e - 1) : Grammar!IsItem(s, is, a, b)
            BY DEF TailAt
        <2> QED BY <2>1, ItemBegins
    <1>2. \A a \in i .. (e - 1) : a \in A <=> TailAt(s, is, c, a, e - 1)
        OBVIOUS
    <1>3. p \in i .. e => (p \in A <=> TailAt(s, is, c, p, e - 1))
        OBVIOUS
    <1> HIDE DEF A
    <1>4. /\ p \in i .. e
          /\ (\E a \in i .. (e - 1) : Grammar!Blank(s, i, a - 1) /\ a \in A)
                <=> (p < e /\ p \in A)
        BY <1>1, LeadingBlanks
    <1>5. e - 1 \in 0 .. Len(s)
        OBVIOUS
    <1>6. TailOf(s, is, c, i, e - 1) <=>
            \E a \in i .. (e - 1) : Grammar!Blank(s, i, a - 1) /\ TailAt(s, is, c, a, e - 1)
        BY <1>5, TailMeans
    <1> QED BY <1>2, <1>3, <1>4, <1>6

(* The same of what follows a value: it ends, or a comma is next.          *)
LEMMA RestBegins ==
    ASSUME NEW s \in Seq(Symbol), NEW is, NEW c,
           NEW i \in 1 .. (Len(s) + 1), NEW p, IsFirst(s, i, p),
           NEW e \in i .. Len(s), s[e] \notin Space
    PROVE  Rest(s, is, c, i, e - 1) <=>
             \/ p = e
             \/ p < e /\ s[p] = ValueSeparator /\ List(is, c, p + 1, e - 1)
    <1> DEFINE A == {a \in i .. e : s[a] = ValueSeparator /\ List(is, c, a + 1, e - 1)}
    <1>1. \A a \in A : s[a] \notin Space
        BY SymbolsAreNoSpace
    <1>2. \A a \in i .. (e - 1) :
            a \in A <=> s[a] = ValueSeparator /\ List(is, c, a + 1, e - 1)
        OBVIOUS
    <1>3. p \in i .. e => (p \in A <=> s[p] = ValueSeparator /\ List(is, c, p + 1, e - 1))
        OBVIOUS
    <1> HIDE DEF A
    <1>4. /\ p \in i .. e
          /\ (\E a \in i .. (e - 1) : Grammar!Blank(s, i, a - 1) /\ a \in A)
                <=> (p < e /\ p \in A)
          /\ Grammar!Blank(s, i, e - 1) <=> p = e
        BY <1>1, LeadingBlanks
    <1>5. Rest(s, is, c, i, e - 1) <=>
            \/ Grammar!Blank(s, i, e - 1)
            \/ \E a \in i .. (e - 1) : Grammar!Blank(s, i, a - 1) /\ a \in A
        BY <1>2 DEF Rest
    <1> QED BY <1>3, <1>4, <1>5

(* The same of what follows a key.                                         *)
LEMMA ColonBegins ==
    ASSUME NEW s \in Seq(Symbol), NEW is,
           NEW i \in 1 .. (Len(s) + 1), NEW p, IsFirst(s, i, p),
           NEW e \in i .. Len(s), s[e] \notin Space
    PROVE  (\E colon \in i .. (e - 1) :
              /\ s[colon] = NameSeparator /\ Grammar!Blank(s, i, colon - 1)
              /\ TailOf(s, is, BeginObject, colon + 1, e - 1)) <=>
           p < e /\ s[p] = NameSeparator /\ TailOf(s, is, BeginObject, p + 1, e - 1)
    <1> DEFINE A == {a \in i .. e :
                        s[a] = NameSeparator /\ TailOf(s, is, BeginObject, a + 1, e - 1)}
    <1>1. \A a \in A : s[a] \notin Space
        BY SymbolsAreNoSpace
    <1>2. \A a \in i .. (e - 1) :
            a \in A <=> s[a] = NameSeparator /\ TailOf(s, is, BeginObject, a + 1, e - 1)
        OBVIOUS
    <1>3. p \in i .. e =>
            (p \in A <=> s[p] = NameSeparator /\ TailOf(s, is, BeginObject, p + 1, e - 1))
        OBVIOUS
    <1> HIDE DEF A
    <1>4. /\ p \in i .. e
          /\ (\E a \in i .. (e - 1) : Grammar!Blank(s, i, a - 1) /\ a \in A)
                <=> (p < e /\ p \in A)
        BY <1>1, LeadingBlanks
    <1> QED BY <1>2, <1>3, <1>4

(* Elements begin with the first of them, behind the white space, ...      *)
LEMMA ElementsBegin ==
    ASSUME NEW s \in Seq(Symbol), NEW is, IsLanguage(s, is),
           NEW i \in 1 .. (Len(s) + 1), NEW p, IsFirst(s, i, p),
           NEW e \in i .. Len(s), s[e] \notin Space
    PROVE  is[<<"elements", i, e - 1>>] <=> p < e /\ TailAt(s, is, BeginArray, p, e - 1)
    <1>1. e - 1 \in 0 .. Len(s)
        OBVIOUS
    <1>2. is[<<"elements", i, e - 1>>] <=> Grammar!IsElements(s, is, i, e - 1)
        BY <1>1, LanguageSolves DEF LanguageIs
    <1>3. Grammar!IsElements(s, is, i, e - 1) <=> TailOf(s, is, BeginArray, i, e - 1)
        BY DEF Grammar!IsElements, TailOf, List
    <1> QED BY <1>2, <1>3, TailBegins

(* ... and members with the first key.                                     *)
LEMMA MembersBegin ==
    ASSUME NEW s \in Seq(Symbol), NEW is, IsLanguage(s, is),
           NEW i \in 1 .. (Len(s) + 1), NEW p, IsFirst(s, i, p),
           NEW e \in i .. Len(s), s[e] \notin Space
    PROVE  is[<<"members", i, e - 1>>] <=> p < e /\ MembersAt(s, is, p, e - 1)
    <1> DEFINE A == {a \in i .. e : MembersAt(s, is, a, e - 1)}
    <1>1. \A a \in A : s[a] \notin Space
        BY SymbolsAreNoSpace DEF MembersAt
    <1>2. \A a \in i .. (e - 1) : a \in A <=> MembersAt(s, is, a, e - 1)
        OBVIOUS
    <1>3. p \in i .. e => (p \in A <=> MembersAt(s, is, p, e - 1))
        OBVIOUS
    <1> HIDE DEF A
    <1>4. /\ p \in i .. e
          /\ (\E a \in i .. (e - 1) : Grammar!Blank(s, i, a - 1) /\ a \in A)
                <=> (p < e /\ p \in A)
        BY <1>1, LeadingBlanks
    <1>5. e - 1 \in 0 .. Len(s)
        OBVIOUS
    <1>6. is[<<"members", i, e - 1>>] <=> Grammar!IsMembers(s, is, i, e - 1)
        BY <1>5, LanguageSolves DEF LanguageIs
    <1>7. Grammar!IsMembers(s, is, i, e - 1) <=>
            \E a \in i .. (e - 1) : Grammar!Blank(s, i, a - 1) /\ MembersAt(s, is, a, e - 1)
        <2>1. \A colon, j : TailOf(s, is, BeginObject, colon + 1, j) <=>
                \/ is[<<"value", colon + 1, j>>]
                \/ \E k \in (colon + 1) .. j :
                    /\ s[k] = ValueSeparator
                    /\ is[<<"value", colon + 1, k - 1>>]
                    /\ is[<<"members", k + 1, j>>]
            BY DEF TailOf, List, BeginArray, BeginObject
        <2> QED BY <2>1, Zenon DEF Grammar!IsMembers, MembersAt
    <1> QED BY <1>2, <1>3, <1>4, <1>6, <1>7

-----------------------------------------------------------------------------
(* What the symbols from p on to the end e of the array or object they are *)
(* in must be when the parser expects pc there.                            *)
Expect(s, is, state, c, p, e) ==
    \/ /\ state = "first" /\ c = BeginObject
       /\ p = e \/ (p < e /\ MembersAt(s, is, p, e - 1))
    \/ /\ state = "key" /\ c = BeginObject
       /\ p < e /\ MembersAt(s, is, p, e - 1)
    \/ /\ state = "colon" /\ c = BeginObject
       /\ p < e /\ s[p] = NameSeparator /\ TailOf(s, is, BeginObject, p + 1, e - 1)
    \/ /\ state = "value"
       /\ p < e /\ TailAt(s, is, c, p, e - 1)
    \/ /\ state = "element" /\ c = BeginArray
       /\ p = e \/ (p < e /\ TailAt(s, is, c, p, e - 1))
    \/ /\ state = "next"
       /\ p = e \/ (p < e /\ s[p] = ValueSeparator /\ List(is, c, p + 1, e - 1))

Closer(c) == IF c = BeginArray THEN EndArray ELSE EndObject

(* The text, a symbol p of it that is read, the place q behind the white   *)
(* space from r on, and the end e of the array or object all this is in.   *)
Reading(s, is, c, p, r, q, e) ==
    /\ s \in Seq(Symbol) /\ IsLanguage(s, is) /\ c \in {BeginArray, BeginObject}
    /\ p \in 1 .. Len(s) /\ r \in (p + 1) .. (Len(s) + 1) /\ IsFirst(s, r, q)
    /\ e \in 1 .. Len(s) /\ s[e] = Closer(c)

(* The bounds of what is read, and of the symbol at the end.               *)
LEMMA ReadingIs ==
    ASSUME NEW s, NEW is, NEW c, NEW p, NEW r, NEW q, NEW e,
           Reading(s, is, c, p, r, q, e)
    PROVE  /\ s \in Seq(Symbol) /\ Len(s) \in Nat
           /\ s[e] \notin Space /\ s[e] \notin String
           /\ p \in Nat /\ q \in Nat /\ e \in Nat /\ r \in 1 .. (Len(s) + 1)
           /\ p < r /\ r <= q
           /\ r <= e => e \in r .. Len(s)
    <1>1. s[e] \in {EndArray, EndObject}
        BY DEF Reading, Closer
    <1>2. s[e] \notin String
        BY <1>1, JsonAssumption DEF Single
    <1>3. s[e] \notin Space
        BY <1>1, SymbolsAreNoSpace
    <1> QED BY <1>2, <1>3 DEF Reading, IsFirst

(* A key is read: a colon and a value must follow.                         *)
LEMMA KeyExpects ==
    ASSUME NEW s, NEW is, NEW c, NEW p, NEW q, NEW e, Reading(s, is, c, p, p + 1, q, e),
           NEW state \in {"first", "key"}, c = BeginObject, s[p] \in String
    PROVE  Expect(s, is, state, c, p, e) <=> Expect(s, is, "colon", c, q, e)
    <1>0. /\ s \in Seq(Symbol) /\ Len(s) \in Nat /\ s[e] \notin Space /\ s[e] \notin String
          /\ p \in Nat /\ q \in Nat /\ e \in Nat /\ p + 1 \in 1 .. (Len(s) + 1) /\ p < q
          /\ p + 1 <= e => e \in (p + 1) .. Len(s)
        BY ReadingIs
    <1>1. Expect(s, is, state, c, p, e) <=> p < e /\ MembersAt(s, is, p, e - 1)
        BY <1>0 DEF Expect
    <1>2. Expect(s, is, "colon", c, q, e) <=>
            q < e /\ s[q] = NameSeparator /\ TailOf(s, is, BeginObject, q + 1, e - 1)
        BY DEF Expect
    <1>3. CASE ~ (p < e)
        BY <1>0, <1>1, <1>2, <1>3
    <1>4. CASE p < e
        <2>1. IsFirst(s, p + 1, q) /\ e \in (p + 1) .. Len(s)
            BY <1>0, <1>4 DEF Reading
        <2>2. (\E colon \in (p + 1) .. (e - 1) :
                 /\ s[colon] = NameSeparator /\ Grammar!Blank(s, p + 1, colon - 1)
                 /\ TailOf(s, is, BeginObject, colon + 1, e - 1)) <=>
              q < e /\ s[q] = NameSeparator /\ TailOf(s, is, BeginObject, q + 1, e - 1)
            BY <1>0, <2>1, ColonBegins
        <2> QED BY <1>1, <1>2, <1>4, <2>2 DEF MembersAt
    <1> QED BY <1>0, <1>3, <1>4

(* A colon is read: a value must follow.                                   *)
LEMMA ColonExpects ==
    ASSUME NEW s, NEW is, NEW c, NEW p, NEW q, NEW e, Reading(s, is, c, p, p + 1, q, e),
           c = BeginObject, s[p] = NameSeparator
    PROVE  Expect(s, is, "colon", c, p, e) <=> Expect(s, is, "value", c, q, e)
    <1>0. /\ s \in Seq(Symbol) /\ Len(s) \in Nat /\ s[e] \notin Space
          /\ p \in Nat /\ q \in Nat /\ e \in Nat /\ p + 1 \in 1 .. (Len(s) + 1) /\ p < q
          /\ p + 1 <= e => e \in (p + 1) .. Len(s)
        BY ReadingIs
    <1>1. Expect(s, is, "colon", c, p, e) <=>
            p < e /\ TailOf(s, is, BeginObject, p + 1, e - 1)
        BY DEF Expect
    <1>2. Expect(s, is, "value", c, q, e) <=> q < e /\ TailAt(s, is, BeginObject, q, e - 1)
        BY DEF Expect
    <1>3. p < e => (TailOf(s, is, BeginObject, p + 1, e - 1) <=>
                       q < e /\ TailAt(s, is, BeginObject, q, e - 1))
        <2>1. IsLanguage(s, is) /\ IsFirst(s, p + 1, q) /\ (p < e => p + 1 <= e)
            BY <1>0 DEF Reading
        <2> QED BY <1>0, <2>1, TailBegins
    <1> QED BY <1>0, <1>1, <1>2, <1>3

(* A comma is read: another element, or another member, must follow.       *)
LEMMA CommaExpects ==
    ASSUME NEW s, NEW is, NEW c, NEW p, NEW q, NEW e, Reading(s, is, c, p, p + 1, q, e),
           s[p] = ValueSeparator
    PROVE  Expect(s, is, "next", c, p, e) <=>
              Expect(s, is, IF c = BeginArray THEN "value" ELSE "key", c, q, e)
    <1>0. /\ s \in Seq(Symbol) /\ Len(s) \in Nat /\ s[e] \notin Space
          /\ p \in Nat /\ q \in Nat /\ e \in Nat /\ p + 1 \in 1 .. (Len(s) + 1) /\ p < q
          /\ p + 1 <= e => e \in (p + 1) .. Len(s)
        BY ReadingIs
    <1>1. s[e] # ValueSeparator
        BY DEF Reading, Closer, EndArray, EndObject, ValueSeparator
    <1>2. Expect(s, is, "next", c, p, e) <=> p < e /\ List(is, c, p + 1, e - 1)
        BY <1>1 DEF Expect
    <1>3. CASE c = BeginArray
        <2>1. p < e => (List(is, c, p + 1, e - 1) <=>
                           q < e /\ TailAt(s, is, BeginArray, q, e - 1))
            BY <1>0, <1>3, ElementsBegin DEF Reading, List
        <2>2. Expect(s, is, "value", c, q, e) <=> q < e /\ TailAt(s, is, BeginArray, q, e - 1)
            BY <1>3 DEF Expect
        <2> QED BY <1>0, <1>2, <1>3, <2>1, <2>2
    <1>4. CASE c = BeginObject
        <2>0. BeginObject # BeginArray
            BY DEF BeginObject, BeginArray
        <2>1. p < e => (List(is, c, p + 1, e - 1) <=> q < e /\ MembersAt(s, is, q, e - 1))
            BY <1>0, <1>4, <2>0, MembersBegin DEF Reading, List
        <2>2. Expect(s, is, "key", c, q, e) <=> q < e /\ MembersAt(s, is, q, e - 1)
            BY <1>4 DEF Expect
        <2> QED BY <1>0, <1>2, <1>4, <2>0, <2>1, <2>2
    <1> QED BY <1>3, <1>4 DEF Reading

(* An item that is the only one at p, up to the place r behind it.         *)
LEMMA ItemExpects ==
    ASSUME NEW s, NEW is, NEW c, NEW p, NEW r, NEW q, NEW e, Reading(s, is, c, p, r, q, e),
           NEW state \in {"value", "element"}, state = "element" => c = BeginArray,
           p # e, Grammar!IsItem(s, is, p, r - 1),
           \A b \in p .. (e - 1) :
              Grammar!IsItem(s, is, p, b) /\ Rest(s, is, c, b + 1, e - 1) => b = r - 1
    PROVE  Expect(s, is, state, c, p, e) <=> Expect(s, is, "next", c, q, e)
    <1>0. /\ s \in Seq(Symbol) /\ Len(s) \in Nat /\ s[e] \notin Space
          /\ p \in Nat /\ q \in Nat /\ e \in Nat /\ r \in 1 .. (Len(s) + 1) /\ p < r /\ r <= q
          /\ r <= e => e \in r .. Len(s)
        BY ReadingIs
    <1>1. Expect(s, is, state, c, p, e) <=> p < e /\ TailAt(s, is, c, p, e - 1)
        BY DEF Expect
    <1>2. Expect(s, is, "next", c, q, e) <=>
            \/ q = e
            \/ q < e /\ s[q] = ValueSeparator /\ List(is, c, q + 1, e - 1)
        BY DEF Expect
    <1>3. CASE r <= e
        <2>1. Rest(s, is, c, r, e - 1) <=> Expect(s, is, "next", c, q, e)
            BY <1>0, <1>2, <1>3, RestBegins DEF Reading
        <2>2. r - 1 \in p .. (e - 1) /\ (r - 1) + 1 = r /\ p < e
            BY <1>0, <1>3
        <2>3. TailAt(s, is, c, p, e - 1) => Rest(s, is, c, r, e - 1)
            BY <2>2 DEF TailAt
        <2>4. Rest(s, is, c, r, e - 1) => TailAt(s, is, c, p, e - 1)
            BY <2>2 DEF TailAt
        <2> QED BY <1>1, <2>1, <2>2, <2>3, <2>4
    <1>4. CASE ~ (r <= e)
        <2>1. ~ TailAt(s, is, c, p, e - 1)
            <3>1. SUFFICES ASSUME NEW b \in p .. (e - 1), b = r - 1 PROVE FALSE
                BY DEF TailAt
            <3> QED BY <1>0, <1>4, <3>1
        <2>2. ~ (q = e) /\ ~ (q < e)
            BY <1>0, <1>4
        <2> QED BY <1>1, <1>2, <2>1, <2>2
    <1> QED BY <1>0, <1>3, <1>4

(* The ends that an array or object that begins with inner can have in one *)
(* that begins with c, whose own ends are G; and those of the outermost    *)
(* object.                                                                 *)
Inner(s, is, c, inner, G) ==
    {b \in 1 .. Len(s) :
        s[b] = Closer(inner) /\ \E e \in G : b < e /\ Rest(s, is, c, b + 1, e - 1)}
Outer(s) == {e \in 1 .. Len(s) : s[e] = EndObject /\ Grammar!Blank(s, e + 1, Len(s))}

Inside(c) == IF c = BeginObject THEN "first" ELSE "element"

(* The array or object that begins at p.                                   *)
LEMMA NestedItem ==
    ASSUME NEW s, NEW is, NEW p \in Nat, NEW b \in Nat,
           s[p] \in {BeginArray, BeginObject}
    PROVE  Grammar!IsItem(s, is, p, b) <=>
             /\ p < b /\ s[b] = Closer(s[p])
             /\ Grammar!Blank(s, p + 1, b - 1) \/ List(is, s[p], p + 1, b - 1)
    <1>1. s[p] \notin String
        BY JsonAssumption DEF Single
    <1>2. s[p] \notin Literal /\ s[p] # "-" /\ s[p] \notin Digit /\ BeginArray # BeginObject
        BY DEF BeginArray, BeginObject, Literal, Digit
    <1>3. ~ Grammar!IsNumber(s, p, b)
        BY <1>2, NumberBegins
    <1> QED BY <1>1, <1>2, <1>3 DEF Grammar!IsItem, Closer, List

(* What is expected within it.                                             *)
LEMMA InsideExpects ==
    ASSUME NEW s, NEW is, NEW p, NEW q, NEW b, NEW inner,
           Reading(s, is, inner, p, p + 1, q, b)
    PROVE  Expect(s, is, Inside(inner), inner, q, b) <=>
             p < b /\ (Grammar!Blank(s, p + 1, b - 1) \/ List(is, inner, p + 1, b - 1))
    <1>0. /\ s \in Seq(Symbol) /\ Len(s) \in Nat /\ s[b] \notin Space
          /\ p \in Nat /\ q \in Nat /\ b \in Nat /\ p + 1 \in 1 .. (Len(s) + 1) /\ p < q
          /\ p + 1 <= b => b \in (p + 1) .. Len(s)
        BY ReadingIs
    <1>1. BeginArray # BeginObject
        BY DEF BeginArray, BeginObject
    <1>2. IsLanguage(s, is) /\ IsFirst(s, p + 1, q) /\ inner \in {BeginArray, BeginObject}
        BY DEF Reading
    <1>3. CASE ~ (p < b)
        <2>1. ~ (q = b) /\ ~ (q < b)
            BY <1>0, <1>3
        <2> QED BY <1>3, <2>1 DEF Expect, Inside
    <1>4. CASE p < b
        <2>0. b \in (p + 1) .. Len(s)
            BY <1>0, <1>4
        <2>1. Grammar!Blank(s, p + 1, b - 1) <=> q = b
            BY <1>0, <1>2, <2>0, BlankBegins
        <2>2. CASE inner = BeginArray
            <3>1. List(is, inner, p + 1, b - 1) <=> q < b /\ TailAt(s, is, inner, q, b - 1)
                BY <1>0, <1>2, <2>0, <2>2, ElementsBegin DEF List
            <3>2. Expect(s, is, "element", inner, q, b) <=>
                    q = b \/ (q < b /\ TailAt(s, is, inner, q, b - 1))
                BY <2>2 DEF Expect
            <3> QED BY <1>1, <1>4, <2>1, <2>2, <3>1, <3>2 DEF Inside
        <2>3. CASE inner = BeginObject
            <3>1. List(is, inner, p + 1, b - 1) <=> q < b /\ MembersAt(s, is, q, b - 1)
                BY <1>0, <1>1, <1>2, <2>0, <2>3, MembersBegin DEF List
            <3>2. Expect(s, is, "first", inner, q, b) <=>
                    q = b \/ (q < b /\ MembersAt(s, is, q, b - 1))
                BY <2>3 DEF Expect
            <3> QED BY <1>1, <1>4, <2>1, <2>3, <3>1, <3>2 DEF Inside
        <2> QED BY <1>2, <2>2, <2>3
    <1> QED BY <1>0, <1>3, <1>4

AreEnds(s, c, G) == \A e \in G : e \in 1 .. Len(s) /\ s[e] = Closer(c)

(* A bracket is read: the ends of the new array or object are those behind *)
(* which the outer one can go on.                                          *)
LEMMA EnterExpects ==
    ASSUME NEW s \in Seq(Symbol), NEW is, IsLanguage(s, is), NEW p \in 1 .. Len(s),
           NEW c, NEW G, AreEnds(s, c, G), s[p] \in {BeginArray, BeginObject},
           NEW q, IsFirst(s, p + 1, q),
           NEW state \in {"value", "element"}, state = "element" => c = BeginArray
    PROVE  (\E e \in G : Expect(s, is, state, c, p, e)) <=>
           (\E b \in Inner(s, is, c, s[p], G) : Expect(s, is, Inside(s[p]), s[p], q, b))
    <1>0. Len(s) \in Nat
        OBVIOUS
    <1>1. ASSUME NEW b \in 1 .. Len(s), s[b] = Closer(s[p])
          PROVE  Expect(s, is, Inside(s[p]), s[p], q, b) <=> Grammar!IsItem(s, is, p, b)
        <2>1. Reading(s, is, s[p], p, p + 1, q, b)
            BY <1>1 DEF Reading
        <2> QED BY <1>1, <2>1, InsideExpects, NestedItem, SMTT(30)
    <1>2. ASSUME NEW e \in G, Expect(s, is, state, c, p, e)
          PROVE  \E b \in Inner(s, is, c, s[p], G) : Expect(s, is, Inside(s[p]), s[p], q, b)
        <2>1. e \in 1 .. Len(s) /\ s[e] = Closer(c) /\ Closer(c) \notin {BeginArray, BeginObject}
            BY DEF AreEnds, Closer, BeginArray, BeginObject, EndArray, EndObject
        <2>2. p < e /\ TailAt(s, is, c, p, e - 1)
            BY <1>2, <2>1 DEF Expect
        <2>3. PICK b \in p .. (e - 1) : Grammar!IsItem(s, is, p, b) /\ Rest(s, is, c, b + 1, e - 1)
            BY <2>2 DEF TailAt
        <2>4. b \in 1 .. Len(s) /\ b < e /\ s[b] = Closer(s[p])
            BY <2>1, <2>3, NestedItem
        <2> QED BY <1>1, <2>3, <2>4 DEF Inner
    <1>3. ASSUME NEW b \in Inner(s, is, c, s[p], G), Expect(s, is, Inside(s[p]), s[p], q, b)
          PROVE  \E e \in G : Expect(s, is, state, c, p, e)
        <2>1. PICK e \in G : b < e /\ Rest(s, is, c, b + 1, e - 1)
            BY DEF Inner
        <2>2. b \in 1 .. Len(s) /\ s[b] = Closer(s[p]) /\ e \in 1 .. Len(s)
            BY DEF Inner, AreEnds
        <2>3. Grammar!IsItem(s, is, p, b)
            BY <1>1, <1>3, <2>2
        <2>4. p < b
            BY <2>2, <2>3, NestedItem
        <2>5. b \in p .. (e - 1) /\ p < e
            BY <2>1, <2>2, <2>4
        <2>6. TailAt(s, is, c, p, e - 1)
            BY <2>1, <2>3, <2>5 DEF TailAt
        <2> QED BY <2>5, <2>6 DEF Expect
    <1> QED BY <1>2, <1>3

(* A symbol that ends an array or object can only be its end.              *)
LEMMA EndExpects ==
    ASSUME NEW s \in Seq(Symbol), NEW is, NEW p \in 1 .. Len(s), NEW c,
           s[p] = Closer(c), c \in {BeginArray, BeginObject},
           NEW e \in 1 .. Len(s), NEW state \in {"next", Inside(c)}
    PROVE  Expect(s, is, state, c, p, e) <=> p = e
    <1>1. s[p] \notin String
        BY JsonAssumption DEF Closer, Single
    <1>2. s[p] # ValueSeparator /\ s[p] \notin Digit /\ s[p] # "-" /\ s[p] \notin Literal
          /\ s[p] # BeginArray /\ s[p] # BeginObject /\ BeginArray # BeginObject
        BY DEF Closer, ValueSeparator, EndArray, EndObject, Digit, Literal, BeginArray, BeginObject
    <1>3. \A b \in Nat : ~ Grammar!IsItem(s, is, p, b)
        BY <1>1, <1>2, NumberBegins DEF Grammar!IsItem
    <1>4. ~ TailAt(s, is, c, p, e - 1)
        BY <1>3 DEF TailAt
    <1>5. ~ MembersAt(s, is, p, e - 1)
        BY <1>1 DEF MembersAt
    <1>6. state \in {"next", "first", "element"} /\ (state = "first" => c = BeginObject)
          /\ (state = "element" => c = BeginArray)
        BY <1>2 DEF Inside
    <1> QED BY <1>2, <1>4, <1>5, <1>6 DEF Expect

(* The bracket that ends it is read: the outer one goes on behind it.      *)
LEMMA LeaveExpects ==
    ASSUME NEW s \in Seq(Symbol), NEW is, NEW p \in 1 .. Len(s),
           NEW c, NEW G, AreEnds(s, c, G),
           NEW inner \in {BeginArray, BeginObject}, s[p] = Closer(inner),
           NEW q, IsFirst(s, p + 1, q), NEW state \in {"next", Inside(inner)}
    PROVE  (\E b \in Inner(s, is, c, inner, G) : Expect(s, is, state, inner, p, b)) <=>
           (\E e \in G : Expect(s, is, "next", c, q, e))
    <1>0. Len(s) \in Nat
        OBVIOUS
    <1>1. \A b \in Inner(s, is, c, inner, G) : Expect(s, is, state, inner, p, b) <=> p = b
        BY EndExpects DEF Inner
    <1>2. p \in Inner(s, is, c, inner, G) <=>
            \E e \in G : p < e /\ Rest(s, is, c, p + 1, e - 1)
        BY DEF Inner
    <1>3. ASSUME NEW e \in G
          PROVE  p < e /\ Rest(s, is, c, p + 1, e - 1) <=> Expect(s, is, "next", c, q, e)
        <2>1. e \in 1 .. Len(s) /\ s[e] \in {EndArray, EndObject}
            BY DEF AreEnds, Closer
        <2>2. s[e] \notin Space /\ q \in Nat /\ p < q /\ p + 1 \in 1 .. (Len(s) + 1)
            BY <1>0, <2>1, SymbolsAreNoSpace DEF IsFirst
        <2>3. p < e => (Rest(s, is, c, p + 1, e - 1) <=> Expect(s, is, "next", c, q, e))
            <3>1. p < e => e \in (p + 1) .. Len(s)
                BY <1>0, <2>1
            <3> QED BY <2>2, <3>1, RestBegins DEF Expect
        <2>4. ~ (p < e) => ~ Expect(s, is, "next", c, q, e)
            BY <2>1, <2>2 DEF Expect
        <2> QED BY <2>1, <2>3, <2>4
    <1> QED BY <1>1, <1>2, <1>3

(* The outermost object.                                                   *)
LEMMA OpenExpects ==
    ASSUME NEW s \in Seq(Symbol), NEW is, IsLanguage(s, is), NEW p, IsFirst(s, 1, p)
    PROVE  /\ Grammar!IsObject(s) <=> p <= Len(s) /\ s[p] = BeginObject
           /\ \A q : p <= Len(s) /\ s[p] = BeginObject /\ IsFirst(s, p + 1, q) =>
                 (is[<<"value", 1, Len(s)>>] <=>
                    \E e \in Outer(s) : Expect(s, is, "first", BeginObject, q, e))
    <1>0. Len(s) \in Nat /\ p \in 1 .. (Len(s) + 1) /\ BeginObject \notin Space
          /\ 1 \in 1 .. (Len(s) + 1) /\ Len(s) \in 0 .. Len(s)
        BY SymbolsAreNoSpace DEF IsFirst
    <1>1. \A a \in 1 .. Len(s) : Grammar!Blank(s, 1, a - 1) /\ s[a] \notin Space => a = p
        BY <1>0 DEF IsFirst, Grammar!Blank
    <1>2. Grammar!Blank(s, 1, p - 1)
        BY DEF IsFirst
    <1>3. Grammar!IsObject(s) <=> p <= Len(s) /\ s[p] = BeginObject
        <2>1. DOMAIN s = 1 .. Len(s)
            OBVIOUS
        <2>2. Grammar!IsObject(s) => p <= Len(s) /\ s[p] = BeginObject
            BY <1>0, <1>1, <2>1 DEF Grammar!IsObject
        <2>3. p <= Len(s) /\ s[p] = BeginObject => Grammar!IsObject(s)
            BY <1>0, <1>2, <2>1 DEF Grammar!IsObject
        <2> QED BY <2>2, <2>3
    <1>4. ASSUME NEW q, p <= Len(s), s[p] = BeginObject, IsFirst(s, p + 1, q)
          PROVE  is[<<"value", 1, Len(s)>>] <=>
                    \E e \in Outer(s) : Expect(s, is, "first", BeginObject, q, e)
        <2>1. is[<<"value", 1, Len(s)>>] <=> Grammar!IsValue(s, is, 1, Len(s))
            BY <1>0, LanguageSolves DEF LanguageIs
        <2>2. p \in 1 .. Len(s)
            BY <1>0, <1>4
        <2>3. Grammar!IsValue(s, is, 1, Len(s)) <=>
                \E b \in p .. Len(s) : Grammar!IsItem(s, is, p, b) /\ Grammar!Blank(s, b + 1, Len(s))
            <3>1. ASSUME NEW a \in 1 .. Len(s), NEW b \in a .. Len(s), Grammar!Blank(s, 1, a - 1),
                         Grammar!IsItem(s, is, a, b)
                  PROVE  a = p
                BY <1>1, <3>1, ItemBegins
            <3> QED BY <1>2, <2>2, <3>1 DEF Grammar!IsValue
        <2>4. BeginArray # BeginObject
            BY DEF BeginArray, BeginObject
        <2>5. ASSUME NEW b \in 1 .. Len(s)
              PROVE  Grammar!IsItem(s, is, p, b) <=>
                        s[b] = EndObject /\ Expect(s, is, "first", BeginObject, q, b)
            <3>1. Grammar!IsItem(s, is, p, b) <=>
                    /\ p < b /\ s[b] = EndObject
                    /\ Grammar!Blank(s, p + 1, b - 1) \/ List(is, BeginObject, p + 1, b - 1)
                BY <1>4, <2>2, <2>4, NestedItem DEF Closer
            <3>2. s[b] = EndObject => Reading(s, is, BeginObject, p, p + 1, q, b)
                BY <1>4, <2>2, <2>4 DEF Reading, Closer
            <3>3. s[b] = EndObject =>
                    (Expect(s, is, "first", BeginObject, q, b) <=>
                        p < b /\ (Grammar!Blank(s, p + 1, b - 1) \/ List(is, BeginObject, p + 1, b - 1)))
                BY <3>2, InsideExpects DEF Inside
            <3> QED BY <3>1, <3>3
        <2>6. \A b \in 1 .. Len(s) : Grammar!IsItem(s, is, p, b) => b \in p .. Len(s)
            BY <1>4, <2>2, NestedItem
        <2>7. \A b \in p .. Len(s) : b \in 1 .. Len(s)
            BY <2>2
        <2> QED BY <2>1, <2>3, <2>5, <2>6, <2>7 DEF Outer
    <1> QED BY <1>3, <1>4

(* The outermost object ends: only white space may follow.                 *)
LEMMA CloseExpects ==
    ASSUME NEW s \in Seq(Symbol), NEW is, NEW p \in 1 .. Len(s), s[p] = EndObject,
           NEW q, IsFirst(s, p + 1, q), NEW state \in {"next", "first"}
    PROVE  (\E e \in Outer(s) : Expect(s, is, state, BeginObject, p, e)) <=> q = Len(s) + 1
    <1>0. Len(s) \in Nat /\ q \in (p + 1) .. (Len(s) + 1)
        BY DEF IsFirst
    <1>1. \A e \in Outer(s) : Expect(s, is, state, BeginObject, p, e) <=> p = e
        <2>1. Closer(BeginObject) = EndObject /\ Inside(BeginObject) = "first"
            BY DEF Closer, Inside, BeginArray, BeginObject
        <2> QED BY <2>1, EndExpects DEF Outer
    <1>2. p \in Outer(s) <=> Grammar!Blank(s, p + 1, Len(s))
        BY DEF Outer
    <1>3. Grammar!Blank(s, p + 1, Len(s)) <=> q = Len(s) + 1
        BY <1>0 DEF IsFirst, Grammar!Blank
    <1> QED BY <1>1, <1>2, <1>3

-----------------------------------------------------------------------------
(* Numbers.  The parser takes as many digits as there are, so it finds the *)
(* number of the grammar where no symbol of a number follows it.           *)
NumberSymbol == Digit \cup {"-", "+", ".", "e"}

Figures(s, a, b) == a <= b /\ \A k \in a .. b : s[k] \in Digit

WholePart(s, i, sign, int) ==
    /\ sign = i => s[i] = "-"
    /\ Figures(s, sign + 1, int) /\ (s[sign + 1] = "0" => int = sign + 1)
FractionPart(s, int, frac) ==
    frac = int \/ (int < frac /\ s[int + 1] = "." /\ Figures(s, int + 2, frac))
ExponentPart(s, frac, j) ==
    \/ frac = j
    \/ /\ frac < j /\ s[frac + 1] = "e"
       /\ \E from \in {frac + 2, frac + 3} :
             Figures(s, from, j) /\ (from = frac + 3 => s[frac + 2] \in {"+", "-"})

(* The grammar of numbers, part by part.                                   *)
LEMMA NumberParts ==
    ASSUME NEW s, NEW i, NEW j
    PROVE  Grammar!IsNumber(s, i, j) <=>
             \E sign \in {i - 1, i} : \E int \in i .. j : \E frac \in i .. j :
                WholePart(s, i, sign, int) /\ FractionPart(s, int, frac) /\ ExponentPart(s, frac, j)
    BY Zenon DEF Grammar!IsNumber, WholePart, FractionPart, ExponentPart, Figures

(* The parser reads all the digits that follow one another.                *)
LEMMA DigitsIs ==
    ASSUME NEW s \in Seq(Symbol), NEW i \in 1 .. (Len(s) + 1)
    PROVE  \/ ~ DigitAt(s, i) /\ BehindDigits(s, i) = 0
           \/ /\ DigitAt(s, i)
              /\ BehindDigits(s, i) \in (i + 1) .. (Len(s) + 1)
              /\ ~ DigitAt(s, BehindDigits(s, i))
              /\ Figures(s, i, BehindDigits(s, i) - 1)
    <1> DEFINE n == Len(s)
    <1>0. n \in Nat /\ DOMAIN s = 1 .. n
        OBVIOUS
    <1>1. CASE ~ DigitAt(s, i)
        BY <1>1 DEF BehindDigits
    <1>2. CASE DigitAt(s, i)
        <2> DEFINE T == {j \in i .. (n + 1) : ~ DigitAt(s, j)}
        <2>1. n + 1 \in T /\ T \subseteq Nat
            BY <1>0 DEF DigitAt
        <2>2. PICK j \in T : \A k \in T : j <= k
            <3> HIDE DEF T
            <3> QED BY <2>1, LeastNumber
        <2>3. j \in (i + 1) .. (n + 1) /\ ~ DigitAt(s, j)
            BY <1>0, <1>2
        <2>4. ASSUME NEW k \in i .. (j - 1) PROVE DigitAt(s, k)
            <3>1. k \in i .. (n + 1) /\ k < j
                BY <1>0, <2>3
            <3>2. k \notin T
                BY <1>0, <2>2, <3>1
            <3> QED BY <3>1, <3>2
        <2>5. BehindDigits(s, i) = CHOOSE x \in (i + 1) .. (n + 1) :
                    ~ DigitAt(s, x) /\ \A k \in i .. (x - 1) : DigitAt(s, k)
            BY <1>2 DEF BehindDigits
        <2>6. /\ BehindDigits(s, i) \in (i + 1) .. (n + 1)
              /\ ~ DigitAt(s, BehindDigits(s, i))
              /\ \A k \in i .. (BehindDigits(s, i) - 1) : DigitAt(s, k)
            <3> HIDE DEF T, n
            <3> QED BY <2>3, <2>4, <2>5, Zenon
        <2> QED BY <1>0, <1>2, <2>6 DEF Figures, DigitAt
    <1> QED BY <1>1, <1>2

(* Digits up to b, and none behind them.                                   *)
LEMMA DigitsUpTo ==
    ASSUME NEW s \in Seq(Symbol), NEW i \in 1 .. Len(s), NEW b \in i .. Len(s),
           Figures(s, i, b), ~ DigitAt(s, b + 1)
    PROVE  BehindDigits(s, i) = b + 1
    <1> DEFINE n == Len(s)
    <1>0. n \in Nat /\ DOMAIN s = 1 .. n
        OBVIOUS
    <1>1. DigitAt(s, i)
        BY <1>0 DEF Figures, DigitAt
    <1>2. PICK x \in (i + 1) .. (n + 1) :
            x = BehindDigits(s, i) /\ ~ DigitAt(s, x) /\ Figures(s, i, x - 1)
        BY <1>1, DigitsIs
    <1>3. ~ (x < b + 1)
        BY <1>0, <1>2 DEF Figures, DigitAt
    <1>4. ~ (b + 1 < x)
        BY <1>0, <1>2 DEF Figures, DigitAt
    <1> QED BY <1>0, <1>2, <1>3, <1>4

(* What the parser takes for a number is one.                              *)
LEMMA NumberFound ==
    ASSUME NEW s \in Seq(Symbol), NEW i \in 1 .. Len(s), BehindNumber(s, i) # 0
    PROVE  /\ BehindNumber(s, i) \in (i + 1) .. (Len(s) + 1)
           /\ Grammar!IsNumber(s, i, BehindNumber(s, i) - 1)
    <1> DEFINE n == Len(s)
               start == IF Behind(s, i, {"-"}) THEN i + 1 ELSE i
               whole == BehindInteger(s, start)
               fraction == IF whole = 0 THEN 0 ELSE BehindFraction(s, whole)
    <1>0. n \in Nat /\ DOMAIN s = 1 .. n /\ "0" \in Digit
        BY DEF Digit
    <1>1. BehindNumber(s, i) = IF fraction = 0 THEN 0 ELSE BehindExponent(s, fraction)
        BY DEF BehindNumber
    <1>2. fraction # 0 /\ whole # 0
        BY <1>1
    <1>3. start \in i .. (n + 1) /\ (start = i + 1 => s[i] = "-") /\ start \in {i, i + 1}
        BY <1>0 DEF Behind
    <1> HIDE DEF start
    <1>4. /\ whole \in (start + 1) .. (n + 1) /\ Figures(s, start, whole - 1)
          /\ s[start] = "0" => whole = start + 1
        <2>1. CASE Behind(s, start, {"0"})
            <3>1. whole = start + 1 /\ start \in 1 .. n
                BY <1>0, <1>2, <2>1 DEF Behind, BehindInteger
            <3>2. s[start] \in Digit
                BY <1>0, <2>1 DEF Behind
            <3> QED BY <1>0, <1>3, <3>1, <3>2 DEF Figures
        <2>2. CASE ~ Behind(s, start, {"0"})
            <3>1. whole = BehindDigits(s, start)
                BY <2>2 DEF BehindInteger
            <3>2. DigitAt(s, start) /\ whole \in (start + 1) .. (n + 1) /\ Figures(s, start, whole - 1)
                <4>1. start \in 1 .. (n + 1)
                    BY <1>3
                <4> QED BY <1>2, <3>1, <4>1, DigitsIs
            <3> QED BY <2>2, <3>2 DEF Behind, DigitAt
        <2> QED BY <2>1, <2>2
    <1>5. fraction = BehindFraction(s, whole)
        BY <1>2
    <1> HIDE DEF whole
    <1>6. fraction \in whole .. (n + 1) /\ FractionPart(s, whole - 1, fraction - 1)
        <2>1. CASE Behind(s, whole, {"."})
            <3> DEFINE from == whole + 1
            <3>1. from \in 1 .. (n + 1) /\ s[whole] = "."
                BY <1>0, <1>3, <1>4, <2>1 DEF Behind
            <3>2. fraction = BehindDigits(s, from)
                BY <1>5, <2>1 DEF BehindFraction
            <3> HIDE DEF from, fraction
            <3>3. fraction \in (from + 1) .. (n + 1) /\ Figures(s, from, fraction - 1)
                BY <1>2, <3>1, <3>2, DigitsIs
            <3> QED BY <1>0, <1>3, <1>4, <3>1, <3>3 DEF FractionPart, from
        <2>2. CASE ~ Behind(s, whole, {"."})
            BY <1>3, <1>4, <1>5, <2>2 DEF BehindFraction, FractionPart
        <2> QED BY <2>1, <2>2
    <1> DEFINE end == BehindExponent(s, fraction)
    <1>7. BehindNumber(s, i) = end
        BY <1>1, <1>2
    <1> HIDE DEF fraction
    <1>8. end \in fraction .. (n + 1) /\ ExponentPart(s, fraction - 1, end - 1)
        <2>0. fraction \in 1 .. (n + 1)
            BY <1>3, <1>4, <1>6
        <2>1. CASE Behind(s, fraction, {"e"})
            <3> DEFINE from == IF Behind(s, fraction + 1, {"+", "-"}) THEN fraction + 2
                               ELSE fraction + 1
            <3>1. fraction \in 1 .. n /\ s[fraction] = "e"
                BY <1>0, <2>1 DEF Behind
            <3>2. from \in 1 .. (n + 1) /\ from \in {fraction + 1, fraction + 2}
                  /\ (from = fraction + 2 => s[fraction + 1] \in {"+", "-"})
                BY <1>0, <3>1 DEF Behind
            <3>3. end = BehindDigits(s, from)
                BY <2>1 DEF BehindExponent
            <3> HIDE DEF from, end
            <3>4. end \in (from + 1) .. (n + 1) /\ Figures(s, from, end - 1)
                BY <1>7, <3>2, <3>3, DigitsIs
            <3>5. /\ from \in {fraction - 1 + 2, fraction - 1 + 3} /\ fraction - 1 + 1 = fraction
                  /\ (from = fraction - 1 + 3 => s[fraction - 1 + 2] \in {"+", "-"})
                  /\ fraction - 1 < end - 1 /\ end \in fraction .. (n + 1)
                BY <1>0, <2>0, <3>2, <3>4
            <3> QED BY <3>1, <3>4, <3>5 DEF ExponentPart
        <2>2. CASE ~ Behind(s, fraction, {"e"})
            BY <2>0, <2>2 DEF BehindExponent, ExponentPart
        <2> QED BY <2>1, <2>2
    <1> HIDE DEF end
    <1>9. WholePart(s, i, start - 1, whole - 1)
        BY <1>3, <1>4 DEF WholePart
    <1>10. /\ start - 1 \in {i - 1, i} /\ whole - 1 \in i .. (end - 1)
           /\ fraction - 1 \in i .. (end - 1) /\ end \in (i + 1) .. (n + 1)
        BY <1>0, <1>3, <1>4, <1>6, <1>8
    <1>11. Grammar!IsNumber(s, i, end - 1)
        BY <1>6, <1>8, <1>9, <1>10, NumberParts
    <1> QED BY <1>7, <1>10, <1>11

(* And a number of the grammar that no symbol of a number follows is found.*)
LEMMA NumberIsFound ==
    ASSUME NEW s \in Seq(Symbol), NEW i \in 1 .. Len(s), NEW b \in i .. (Len(s) - 1),
           Grammar!IsNumber(s, i, b), s[b + 1] \notin NumberSymbol
    PROVE  BehindNumber(s, i) = b + 1
    <1> DEFINE n == Len(s)
               start == IF Behind(s, i, {"-"}) THEN i + 1 ELSE i
               whole == BehindInteger(s, start)
               fraction == IF whole = 0 THEN 0 ELSE BehindFraction(s, whole)
    <1>0. /\ n \in Nat /\ DOMAIN s = 1 .. n /\ "0" \in Digit
          /\ \A c \in {"-", "+", ".", "e"} : c \notin Digit
        BY DEF Digit
    <1>1. BehindNumber(s, i) = IF fraction = 0 THEN 0 ELSE BehindExponent(s, fraction)
        BY DEF BehindNumber
    <1>2. PICK sign \in {i - 1, i} : \E int \in i .. b : \E frac \in i .. b :
            WholePart(s, i, sign, int) /\ FractionPart(s, int, frac) /\ ExponentPart(s, frac, b)
        BY NumberParts
    <1>3. PICK int \in i .. b : \E frac \in i .. b :
            WholePart(s, i, sign, int) /\ FractionPart(s, int, frac) /\ ExponentPart(s, frac, b)
        BY <1>2
    <1>4. PICK frac \in i .. b :
            WholePart(s, i, sign, int) /\ FractionPart(s, int, frac) /\ ExponentPart(s, frac, b)
        BY <1>3
    <1>5. s[b + 1] \notin Digit /\ s[b + 1] \notin {"-", "+", ".", "e"} /\ b + 1 \in 1 .. n
        BY <1>0 DEF NumberSymbol
    <1>6. start = sign + 1 /\ start \in i .. int
        <2>1. CASE sign = i
            BY <1>0, <1>4, <2>1 DEF WholePart, Behind, Figures
        <2>2. CASE sign = i - 1
            <3>1. s[i] \in Digit /\ i <= int
                BY <1>4, <2>2 DEF WholePart, Figures
            <3>2. s[i] # "-"
                BY <1>0, <3>1
            <3> QED BY <2>2, <3>1, <3>2 DEF Behind
        <2> QED BY <2>1, <2>2
    <1> HIDE DEF start
    <1>7. int <= frac /\ frac <= b
        BY <1>4 DEF FractionPart, ExponentPart
    <1>8. frac < b => s[frac + 1] = "e"
        BY <1>4, <1>7 DEF ExponentPart
    <1>9. int < frac => s[int + 1] = "." /\ Figures(s, int + 2, frac)
        BY <1>4, <1>7 DEF FractionPart
    <1>10. s[frac + 1] \notin Digit /\ s[frac + 1] # "."
        BY <1>0, <1>5, <1>7, <1>8
    <1>11. s[int + 1] \notin Digit
        BY <1>0, <1>7, <1>9, <1>10
    <1>12. Figures(s, start, int) /\ (s[start] = "0" => int = start)
        BY <1>4, <1>6 DEF WholePart
    <1>13. whole = int + 1
        <2>1. start \in 1 .. n /\ int \in start .. n /\ ~ DigitAt(s, int + 1)
            BY <1>0, <1>6, <1>11 DEF DigitAt
        <2>2. CASE s[start] = "0"
            BY <1>0, <1>12, <2>1, <2>2 DEF BehindInteger, Behind
        <2>3. CASE s[start] # "0"
            <3>1. whole = BehindDigits(s, start)
                BY <2>3 DEF BehindInteger, Behind
            <3> QED BY <1>12, <2>1, <3>1, DigitsUpTo
        <2> QED BY <2>2, <2>3
    <1> HIDE DEF whole
    <1>14. fraction = frac + 1
        <2>1. fraction = BehindFraction(s, whole)
            BY <1>13
        <2>2. CASE int = frac
            BY <1>10, <1>13, <2>1, <2>2 DEF BehindFraction, Behind
        <2>3. CASE int < frac
            <3> DEFINE from == int + 2
            <3>1. from \in 1 .. n /\ frac \in from .. n /\ Figures(s, from, frac)
                BY <1>0, <1>9, <2>3 DEF Figures
            <3>2. fraction = BehindDigits(s, from)
                <4>1. int + 1 \in 1 .. n /\ whole + 1 = from
                    BY <1>0, <1>13, <2>3
                <4> QED BY <1>0, <1>9, <1>13, <2>1, <2>3, <4>1 DEF BehindFraction, Behind
            <3>3. ~ DigitAt(s, frac + 1)
                BY <1>10 DEF DigitAt
            <3> HIDE DEF from, fraction
            <3> QED BY <3>1, <3>2, <3>3, DigitsUpTo
        <2> QED BY <1>7, <2>2, <2>3
    <1> HIDE DEF fraction
    <1>15. BehindExponent(s, frac + 1) = b + 1
        <2>1. CASE frac = b
            BY <1>5, <2>1 DEF BehindExponent, Behind
        <2>2. CASE frac < b
            <3>1. PICK from \in {frac + 2, frac + 3} :
                    Figures(s, from, b) /\ (from = frac + 3 => s[frac + 2] \in {"+", "-"})
                BY <1>4, <2>2 DEF ExponentPart
            <3>2. from \in 1 .. n /\ b \in from .. n /\ from <= b
                BY <1>0, <3>1 DEF Figures
            <3>3. Behind(s, frac + 1, {"e"})
                BY <1>0, <1>8, <2>2 DEF Behind
            <3>4. BehindExponent(s, frac + 1) = BehindDigits(s, from)
                <4>1. frac + 2 \in DOMAIN s /\ (frac + 1) + 1 = frac + 2 /\ (frac + 1) + 2 = frac + 3
                    BY <1>0, <3>2
                <4>2. CASE from = frac + 3
                    BY <3>1, <3>3, <4>1, <4>2 DEF BehindExponent, Behind
                <4>3. CASE from = frac + 2
                    <5>1. s[frac + 2] \in Digit
                        BY <3>1, <3>2, <4>3 DEF Figures
                    <5>2. s[frac + 2] \notin {"+", "-"}
                        BY <1>0, <5>1
                    <5> QED BY <3>3, <4>1, <4>3, <5>2 DEF BehindExponent, Behind
                <4> QED BY <3>1, <4>2, <4>3
            <3>5. ~ DigitAt(s, b + 1)
                BY <1>5 DEF DigitAt
            <3>6. BehindDigits(s, from) = b + 1
                BY <3>1, <3>2, <3>5, DigitsUpTo
            <3> QED BY <3>4, <3>6
        <2> QED BY <1>7, <2>1, <2>2
    <1> QED BY <1>0, <1>1, <1>7, <1>14, <1>15

(* All symbols of a number can be in one.                                  *)
LEMMA NumberHolds ==
    ASSUME NEW s, NEW i \in Nat, NEW b \in Nat, Grammar!IsNumber(s, i, b),
           NEW k \in i .. b
    PROVE  s[k] \in NumberSymbol
    <1>1. PICK sign \in {i - 1, i} : \E int \in i .. b : \E frac \in i .. b :
            WholePart(s, i, sign, int) /\ FractionPart(s, int, frac) /\ ExponentPart(s, frac, b)
        BY NumberParts
    <1>2. PICK int \in i .. b : \E frac \in i .. b :
            WholePart(s, i, sign, int) /\ FractionPart(s, int, frac) /\ ExponentPart(s, frac, b)
        BY <1>1
    <1>3. PICK frac \in i .. b :
            WholePart(s, i, sign, int) /\ FractionPart(s, int, frac) /\ ExponentPart(s, frac, b)
        BY <1>2
    <1>4. CASE k <= int
        BY <1>3, <1>4 DEF WholePart, Figures, NumberSymbol
    <1>5. CASE int < k /\ k <= frac
        BY <1>3, <1>5 DEF FractionPart, Figures, NumberSymbol
    <1>6. CASE frac < k
        <2>1. s[frac + 1] = "e" /\ \E from \in {frac + 2, frac + 3} :
                 Figures(s, from, b) /\ (from = frac + 3 => s[frac + 2] \in {"+", "-"})
            BY <1>3, <1>6 DEF ExponentPart
        <2>2. PICK from \in {frac + 2, frac + 3} :
                 Figures(s, from, b) /\ (from = frac + 3 => s[frac + 2] \in {"+", "-"})
            BY <2>1
        <2>3. k = frac + 1 \/ (k = frac + 2 /\ from = frac + 3) \/ k \in from .. b
            BY <1>6, <2>2
        <2> QED BY <2>1, <2>2, <2>3 DEF Figures, NumberSymbol
    <1> QED BY <1>4, <1>5, <1>6

-----------------------------------------------------------------------------
(* Strings, literals and numbers, and what else is met in their place.     *)
LEMMA ScalarItem ==
    ASSUME NEW s, NEW is, NEW p \in Nat, NEW b \in Nat, s[p] \in String \cup Literal
    PROVE  Grammar!IsItem(s, is, p, b) <=> b = p
    <1>1. s[p] # BeginArray /\ s[p] # BeginObject /\ s[p] # "-" /\ s[p] \notin Digit
        <2>1. CASE s[p] \in String
            BY <2>1, JsonAssumption DEF Single
        <2>2. CASE s[p] \in Literal
            BY <2>2 DEF Literal, Digit, BeginArray, BeginObject
        <2> QED BY <2>1, <2>2
    <1>2. ~ Grammar!IsNumber(s, p, b)
        BY <1>1, NumberBegins
    <1> QED BY <1>1, <1>2 DEF Grammar!IsItem

(* What is no string, literal or bracket can only be a number.             *)
LEMMA NumberItem ==
    ASSUME NEW s, NEW is, NEW p \in Nat, NEW b \in Nat, s[p] \notin String \cup Literal,
           s[p] # BeginArray, s[p] # BeginObject
    PROVE  Grammar!IsItem(s, is, p, b) <=> Grammar!IsNumber(s, p, b)
    BY DEF Grammar!IsItem

(* What follows an item is no symbol of a number.                          *)
LEMMA RestSeparates ==
    ASSUME NEW s, NEW is, NEW c \in {BeginArray, BeginObject}, NEW i \in Nat, NEW e \in Nat,
           i <= e, s[e] = Closer(c), Rest(s, is, c, i, e - 1)
    PROVE  s[i] \notin NumberSymbol
    <1>1. \A x \in {EndArray, EndObject, ValueSeparator} \cup Space : x \notin NumberSymbol
        BY DEF EndArray, EndObject, ValueSeparator, Space, NumberSymbol, Digit
    <1>2. CASE i = e
        BY <1>1, <1>2 DEF Closer
    <1>3. CASE i < e
        <2>1. s[i] \in Space \/ s[i] = ValueSeparator
            <3>1. i \in i .. (e - 1)
                BY <1>3
            <3>2. ASSUME NEW k \in i .. (e - 1), s[k] = ValueSeparator, Grammar!Blank(s, i, k - 1)
                  PROVE  s[i] \in Space \/ s[i] = ValueSeparator
                <4>1. k = i \/ i \in i .. (k - 1)
                    OBVIOUS
                <4> QED BY <3>2, <4>1 DEF Grammar!Blank
            <3> QED BY <3>1, <3>2 DEF Rest, Grammar!Blank
        <2> QED BY <1>1, <2>1
    <1> QED BY <1>2, <1>3

(* A string or a literal is read: it is the value.                         *)
LEMMA ScalarExpects ==
    ASSUME NEW s, NEW is, NEW c, NEW p, NEW q, NEW e, Reading(s, is, c, p, p + 1, q, e),
           NEW state \in {"value", "element"}, state = "element" => c = BeginArray,
           s[p] \in String \cup Literal
    PROVE  Expect(s, is, state, c, p, e) <=> Expect(s, is, "next", c, q, e)
    <1>1. s[e] \notin String /\ s[e] \notin Literal /\ p \in Nat /\ e \in Nat
        <2>1. s[e] \notin Literal
            BY DEF Reading, Closer, EndArray, EndObject, Literal
        <2> QED BY <2>1, ReadingIs
    <1>2. p # e /\ (p + 1) - 1 = p
        BY <1>1
    <1>3. \A b \in p .. (e - 1) : Grammar!IsItem(s, is, p, b) => b = (p + 1) - 1
        BY <1>1, <1>2, ScalarItem
    <1>4. Grammar!IsItem(s, is, p, (p + 1) - 1)
        BY <1>1, <1>2, ScalarItem
    <1> QED BY <1>2, <1>3, <1>4, ItemExpects

(* The only number at p that can be an item is the one the parser finds.   *)
NoScalar(s, c, p, e) ==
    /\ s \in Seq(Symbol) /\ c \in {BeginArray, BeginObject} /\ p \in 1 .. Len(s)
    /\ s[p] \notin String \cup Literal /\ s[p] # BeginArray /\ s[p] # BeginObject
    /\ e \in 1 .. Len(s) /\ s[e] = Closer(c)

(* Where a value is, and no string, literal or bracket, the parser finds   *)
(* the end of the number, ...                                              *)
LEMMA NumberOnly ==
    ASSUME NEW s, NEW is, NEW c, NEW p, NEW e, NoScalar(s, c, p, e), NEW b \in p .. (e - 1),
           Grammar!IsItem(s, is, p, b), Rest(s, is, c, b + 1, e - 1)
    PROVE  BehindNumber(s, p) = b + 1 /\ b \in Nat
    <1> USE DEF NoScalar
    <1>1. Len(s) \in Nat /\ b \in Nat /\ b + 1 \in Nat /\ b + 1 <= e /\ b \in p .. (Len(s) - 1)
        OBVIOUS
    <1>2. s[b + 1] \notin NumberSymbol
        <2>1. ASSUME NEW i \in Nat, i <= e, Rest(s, is, c, i, e - 1)
              PROVE  s[i] \notin NumberSymbol
            <3>1. e \in Nat
                OBVIOUS
            <3> QED BY <2>1, <3>1, RestSeparates
        <2> QED BY <1>1, <2>1, Zenon
    <1>3. Grammar!IsNumber(s, p, b)
        BY <1>1, NumberItem
    <1> QED BY <1>1, <1>2, <1>3, NumberIsFound

(* ... and where it finds none there is no value.                          *)
LEMMA NoNumber ==
    ASSUME NEW s, NEW is, NEW c, NEW p, NEW e, NoScalar(s, c, p, e), BehindNumber(s, p) = 0
    PROVE  ~ TailAt(s, is, c, p, e - 1)
    <1>1. ASSUME NEW b \in p .. (e - 1), Grammar!IsItem(s, is, p, b), Rest(s, is, c, b + 1, e - 1)
          PROVE  FALSE
        <2>1. BehindNumber(s, p) = b + 1 /\ b \in Nat
            BY <1>1, NumberOnly
        <2> QED BY <2>1
    <1> QED BY <1>1 DEF TailAt

(* A number is read: it is the value.                                      *)
LEMMA NumberExpects ==
    ASSUME NEW s, NEW is, NEW c, NEW p, NEW q, NEW e,
           Reading(s, is, c, p, BehindNumber(s, p), q, e),
           NEW state \in {"value", "element"}, state = "element" => c = BeginArray,
           s[p] \notin String \cup Literal, s[p] # BeginArray, s[p] # BeginObject,
           ~ (state = "element" /\ s[p] = EndArray), BehindNumber(s, p) # 0
    PROVE  Expect(s, is, state, c, p, e) <=> Expect(s, is, "next", c, q, e)
    <1>0. /\ s \in Seq(Symbol) /\ p \in 1 .. Len(s) /\ e \in 1 .. Len(s) /\ s[e] = Closer(c)
          /\ c \in {BeginArray, BeginObject}
        BY DEF Reading
    <1>1. Grammar!IsNumber(s, p, BehindNumber(s, p) - 1)
          /\ BehindNumber(s, p) \in (p + 1) .. (Len(s) + 1)
        BY <1>0, NumberFound
    <1>2. Grammar!IsItem(s, is, p, BehindNumber(s, p) - 1)
        BY <1>1 DEF Grammar!IsItem
    <1>3. p # e
        <2>1. s[p] \in NumberSymbol
            <3>1. p \in Nat /\ BehindNumber(s, p) - 1 \in Nat /\ p \in p .. (BehindNumber(s, p) - 1)
                BY <1>0, <1>1
            <3> QED BY <1>1, <3>1, NumberHolds
        <2>2. s[e] \notin NumberSymbol
            BY <1>0 DEF Closer, EndArray, EndObject, NumberSymbol, Digit
        <2> QED BY <2>1, <2>2
    <1>4. ASSUME NEW b \in p .. (e - 1), Grammar!IsItem(s, is, p, b), Rest(s, is, c, b + 1, e - 1)
          PROVE  b = BehindNumber(s, p) - 1
        <2>1. NoScalar(s, c, p, e)
            BY <1>0 DEF NoScalar
        <2>2. BehindNumber(s, p) = b + 1 /\ b \in Nat
            BY <1>4, <2>1, NumberOnly
        <2> QED BY <2>2
    <1> QED BY <1>2, <1>3, <1>4, ItemExpects

(* The symbols that cannot be where the parser is.                         *)
Wrong(s, state, c, p) ==
    \/ p = Len(s) + 1
    \/ state = "key" /\ s[p] \notin String
    \/ state = "first" /\ s[p] \notin String /\ s[p] # EndObject
    \/ state = "colon" /\ s[p] # NameSeparator
    \/ state = "next" /\ s[p] # ValueSeparator /\ s[p] # Closer(c)
    \/ /\ state = "value" \/ (state = "element" /\ s[p] # EndArray)
       /\ s[p] \notin String \cup Literal /\ s[p] # BeginArray /\ s[p] # BeginObject
       /\ BehindNumber(s, p) = 0

(* Whatever follows, a text with such a symbol there is not JSON.          *)
LEMMA WrongExpects ==
    ASSUME NEW s \in Seq(Symbol), NEW is, NEW c \in {BeginArray, BeginObject},
           NEW p \in 1 .. (Len(s) + 1), NEW e \in 1 .. Len(s), s[e] = Closer(c),
           NEW state, Wrong(s, state, c, p)
    PROVE  ~ Expect(s, is, state, c, p, e)
    <1>0. Len(s) \in Nat /\ BeginArray # BeginObject
        BY DEF BeginArray, BeginObject
    <1>1. CASE p = Len(s) + 1
        BY <1>0, <1>1 DEF Expect
    <1>2. CASE state \in {"key", "first"} /\ s[p] \notin String
               /\ (state = "first" => s[p] # EndObject)
        BY <1>0, <1>2 DEF Expect, MembersAt, Closer
    <1>3. CASE state = "colon" /\ s[p] # NameSeparator
        BY <1>3 DEF Expect
    <1>4. CASE state = "next" /\ s[p] # ValueSeparator /\ s[p] # Closer(c)
        BY <1>4 DEF Expect
    <1>5. CASE /\ state = "value" \/ (state = "element" /\ s[p] # EndArray)
               /\ s[p] \notin String \cup Literal /\ s[p] # BeginArray /\ s[p] # BeginObject
               /\ BehindNumber(s, p) = 0 /\ p # Len(s) + 1
        <2>1. NoScalar(s, c, p, e)
            BY <1>0, <1>5 DEF NoScalar
        <2>2. ~ TailAt(s, is, c, p, e - 1)
            BY <1>5, <2>1, NoNumber
        <2> QED BY <1>5, <2>2 DEF Expect, Closer
    <1> QED BY <1>1, <1>2, <1>3, <1>4, <1>5 DEF Wrong

-----------------------------------------------------------------------------
(* How deep a place of the text is, and which values are called url.       *)
Opening(s, i) == {k \in 1 .. (i - 1) : s[k] \in {BeginObject, BeginArray}}
Ending(s, i) == {k \in 1 .. (i - 1) : s[k] \in {EndObject, EndArray}}

(* The instance of the grammar counts as its own module does.              *)
LEMMA CardinalityIs ==
    ASSUME NEW S
    PROVE  Grammar!Cardinality(S) = Cardinality(S)
    BY Zenon DEF Grammar!Cardinality, Cardinality

(* Nesting is a difference of two numbers.                                 *)
LEMMA NestingIs ==
    ASSUME NEW s, NEW i \in Nat
    PROVE  /\ Grammar!Nesting(s, i) = Cardinality(Opening(s, i)) - Cardinality(Ending(s, i))
           /\ IsFiniteSet(Opening(s, i)) /\ Cardinality(Opening(s, i)) \in Nat
           /\ IsFiniteSet(Ending(s, i)) /\ Cardinality(Ending(s, i)) \in Nat
    <1>1. IsFiniteSet(1 .. (i - 1))
        BY FS_Interval
    <1>2. Opening(s, i) \subseteq 1 .. (i - 1) /\ Ending(s, i) \subseteq 1 .. (i - 1)
        BY DEF Opening, Ending
    <1>3. IsFiniteSet(Opening(s, i)) /\ IsFiniteSet(Ending(s, i))
        BY <1>1, <1>2, FS_Subset
    <1>4. Cardinality(Opening(s, i)) \in Nat /\ Cardinality(Ending(s, i)) \in Nat
        BY <1>3, FS_CardinalityType
    <1>5. Grammar!Nesting(s, i) = Cardinality(Opening(s, i)) - Cardinality(Ending(s, i))
        BY CardinalityIs, Zenon DEF Grammar!Nesting, Opening, Ending
    <1> QED BY <1>3, <1>4, <1>5

(* Nothing is open at the beginning, ...                                   *)
LEMMA NestingBegins ==
    ASSUME NEW s
    PROVE  Grammar!Nesting(s, 1) = 0
    <1>1. Opening(s, 1) = {} /\ Ending(s, 1) = {}
        BY DEF Opening, Ending
    <1> QED BY <1>1, NestingIs, FS_EmptySet

(* ... nothing but brackets changes what is open, ...                      *)
LEMMA NestingStays ==
    ASSUME NEW s, NEW i \in Nat, NEW j \in Nat, i <= j,
           \A k \in i .. (j - 1) : s[k] \notin {BeginObject, BeginArray, EndObject, EndArray}
    PROVE  Grammar!Nesting(s, j) = Grammar!Nesting(s, i)
    <1>1. Opening(s, i) = Opening(s, j) /\ Ending(s, i) = Ending(s, j)
        BY DEF Opening, Ending
    <1> QED BY <1>1, NestingIs

(* ... and a bracket changes it by one.                                    *)
LEMMA NestingSteps ==
    ASSUME NEW s, NEW i \in Nat \ {0}
    PROVE  /\ Grammar!Nesting(s, i) \in Int
           /\ s[i] \in {BeginObject, BeginArray} =>
                Grammar!Nesting(s, i + 1) = Grammar!Nesting(s, i) + 1
           /\ s[i] \in {EndObject, EndArray} =>
                Grammar!Nesting(s, i + 1) = Grammar!Nesting(s, i) - 1
           /\ s[i] \notin {BeginObject, BeginArray, EndObject, EndArray} =>
                Grammar!Nesting(s, i + 1) = Grammar!Nesting(s, i)
    <1>0. /\ {BeginObject, BeginArray} \cap {EndObject, EndArray} = {}
          /\ i \notin Opening(s, i) /\ i \notin Ending(s, i)
        BY DEF BeginObject, BeginArray, EndObject, EndArray, Opening, Ending
    <1>1. /\ Opening(s, i + 1) = IF s[i] \in {BeginObject, BeginArray}
                                 THEN Opening(s, i) \cup {i} ELSE Opening(s, i)
        BY DEF Opening
    <1>2. /\ Ending(s, i + 1) = IF s[i] \in {EndObject, EndArray}
                                THEN Ending(s, i) \cup {i} ELSE Ending(s, i)
        BY DEF Ending
    <1>3. /\ Cardinality(Opening(s, i) \cup {i}) = Cardinality(Opening(s, i)) + 1
          /\ Cardinality(Ending(s, i) \cup {i}) = Cardinality(Ending(s, i)) + 1
        BY <1>0, NestingIs, FS_AddElement
    <1>4. /\ Grammar!Nesting(s, i) = Cardinality(Opening(s, i)) - Cardinality(Ending(s, i))
          /\ Cardinality(Opening(s, i)) \in Nat /\ Cardinality(Ending(s, i)) \in Nat
        BY NestingIs
    <1>5. Grammar!Nesting(s, i + 1) =
            Cardinality(Opening(s, i + 1)) - Cardinality(Ending(s, i + 1))
        BY NestingIs
    <1> DEFINE o == Cardinality(Opening(s, i))
               c == Cardinality(Ending(s, i))
    <1>6. /\ o \in Nat /\ c \in Nat /\ Grammar!Nesting(s, i) = o - c
          /\ s[i] \in {BeginObject, BeginArray} => s[i] \notin {EndObject, EndArray}
          /\ Cardinality(Opening(s, i) \cup {i}) = o + 1
          /\ Cardinality(Ending(s, i) \cup {i}) = c + 1
        BY <1>0, <1>3, <1>4
    <1> HIDE DEF o, c
    <1>7. CASE s[i] \in {BeginObject, BeginArray}
        <2>1. Opening(s, i + 1) = Opening(s, i) \cup {i} /\ Ending(s, i + 1) = Ending(s, i)
            BY <1>1, <1>2, <1>6, <1>7
        <2>2. Grammar!Nesting(s, i + 1) = (o + 1) - c
            BY <1>5, <1>6, <2>1, Zenon DEF o, c
        <2> QED BY <1>6, <1>7, <2>2
    <1>8. CASE s[i] \in {EndObject, EndArray}
        <2>1. Opening(s, i + 1) = Opening(s, i) /\ Ending(s, i + 1) = Ending(s, i) \cup {i}
            BY <1>1, <1>2, <1>6, <1>8
        <2>2. Grammar!Nesting(s, i + 1) = o - (c + 1)
            BY <1>5, <1>6, <2>1, Zenon DEF o, c
        <2> QED BY <1>6, <1>8, <2>2
    <1>9. CASE s[i] \notin {BeginObject, BeginArray, EndObject, EndArray}
        <2>1. Opening(s, i + 1) = Opening(s, i) /\ Ending(s, i + 1) = Ending(s, i)
            BY <1>1, <1>2, <1>9
        <2>2. Grammar!Nesting(s, i + 1) = o - c
            BY <1>5, <2>1, Zenon DEF o, c
        <2> QED BY <1>6, <1>9, <2>2
    <1> QED BY <1>7, <1>8, <1>9

(* The symbol in front of a place, white space left out.                   *)
Before(s, q, v) ==
    /\ q \in 1 .. (v - 1) /\ Grammar!Blank(s, q + 1, v - 1) /\ s[q] \notin Space

(* There is one symbol in front of a place.                                *)
LEMMA BeforeIsOne ==
    ASSUME NEW s, NEW v \in Nat, NEW q, NEW r, Before(s, q, v), r \in 1 .. (v - 1),
           Grammar!Blank(s, r + 1, v - 1), s[r] \notin Space
    PROVE  r = q
    BY DEF Before, Grammar!Blank

(* A value called url, by the two symbols in front of it.                  *)
LEMMA UrlValueIs ==
    ASSUME NEW s \in Seq(Symbol), NEW v
    PROVE  v \in Grammar!UrlValues(s) <=>
             /\ v \in 1 .. Len(s) /\ s[v] \notin Space
             /\ \E key, colon \in 1 .. Len(s) :
                  /\ Before(s, key, colon) /\ Before(s, colon, v)
                  /\ s[key] = UrlKey /\ s[colon] = NameSeparator
                  /\ Grammar!Nesting(s, key) = 1
    <1>0. Len(s) \in Nat /\ DOMAIN s = 1 .. Len(s)
        OBVIOUS
    <1>1. UrlKey \notin Space /\ NameSeparator \notin Space
        BY JsonAssumption, SymbolsAreNoSpace
    <1>2. ASSUME NEW w \in 1 .. Len(s), NEW key \in 1 .. (w - 2), NEW colon \in (key + 1) .. (w - 1)
          PROVE  key \in 1 .. Len(s) /\ colon \in 1 .. Len(s) /\ key \in 1 .. (colon - 1)
                 /\ colon \in 1 .. (w - 1)
        BY <1>0
    <1>3. v \in Grammar!UrlValues(s) <=>
            /\ v \in 1 .. Len(s)
            /\ \E key \in 1 .. (v - 2) : \E colon \in (key + 1) .. (v - 1) :
                /\ s[key] = UrlKey /\ s[colon] = NameSeparator
                /\ Grammar!Nesting(s, key) = 1
                /\ Grammar!Blank(s, key + 1, colon - 1) /\ Grammar!Blank(s, colon + 1, v - 1)
                /\ s[v] \notin Space
        BY <1>0 DEF Grammar!UrlValues
    <1>4. ASSUME v \in 1 .. Len(s), NEW key \in 1 .. Len(s), NEW colon \in 1 .. Len(s),
                 Before(s, key, colon), Before(s, colon, v)
          PROVE  key \in 1 .. (v - 2) /\ colon \in (key + 1) .. (v - 1)
        BY <1>0, <1>4 DEF Before
    <1>5. v \in Grammar!UrlValues(s) =>
             /\ v \in 1 .. Len(s) /\ s[v] \notin Space
             /\ \E key, colon \in 1 .. Len(s) :
                  /\ Before(s, key, colon) /\ Before(s, colon, v)
                  /\ s[key] = UrlKey /\ s[colon] = NameSeparator
                  /\ Grammar!Nesting(s, key) = 1
        BY <1>1, <1>2, <1>3, Zenon DEF Before
    <1>6. /\ v \in 1 .. Len(s) /\ s[v] \notin Space
          /\ \E key, colon \in 1 .. Len(s) :
                  /\ Before(s, key, colon) /\ Before(s, colon, v)
                  /\ s[key] = UrlKey /\ s[colon] = NameSeparator
                  /\ Grammar!Nesting(s, key) = 1
          => v \in Grammar!UrlValues(s)
        BY <1>3, <1>4, Zenon DEF Before
    <1> QED BY <1>5, <1>6

(* Only a colon is in front of such a value, and in front of it the key.   *)
LEMMA NoUrlValue ==
    ASSUME NEW s \in Seq(Symbol), NEW q, NEW v, Before(s, q, v), s[q] # NameSeparator
    PROVE  v \notin Grammar!UrlValues(s)
    <1>1. ASSUME v \in Grammar!UrlValues(s) PROVE FALSE
        <2>1. v \in 1 .. Len(s) /\ \E key, colon \in 1 .. Len(s) :
                  /\ Before(s, key, colon) /\ Before(s, colon, v)
                  /\ s[key] = UrlKey /\ s[colon] = NameSeparator
                  /\ Grammar!Nesting(s, key) = 1
            BY <1>1, UrlValueIs
        <2>2. PICK colon \in 1 .. Len(s) : Before(s, colon, v) /\ s[colon] = NameSeparator
            BY <2>1
        <2>3. colon = q
            <3>1. v \in Nat
                BY <2>1
            <3> QED BY <2>2, <3>1, BeforeIsOne DEF Before
        <2> QED BY <2>2, <2>3
    <1> QED BY <1>1

(* Behind a colon it is one just when the key says so.                     *)
LEMMA UrlValueHasKey ==
    ASSUME NEW s \in Seq(Symbol), NEW key, NEW colon, NEW v \in 1 .. Len(s),
           Before(s, key, colon), Before(s, colon, v), s[colon] = NameSeparator,
           s[v] \notin Space
    PROVE  v \in Grammar!UrlValues(s) <=> s[key] = UrlKey /\ Grammar!Nesting(s, key) = 1
    <1>0. v \in Nat /\ colon \in Nat /\ key \in 1 .. Len(s) /\ colon \in 1 .. Len(s)
        BY DEF Before
    <1>1. ASSUME v \in Grammar!UrlValues(s)
          PROVE  s[key] = UrlKey /\ Grammar!Nesting(s, key) = 1
        <2>1. PICK k, c \in 1 .. Len(s) :
                  /\ Before(s, k, c) /\ Before(s, c, v)
                  /\ s[k] = UrlKey /\ s[c] = NameSeparator
                  /\ Grammar!Nesting(s, k) = 1
            BY <1>1, UrlValueIs
        <2>2. c = colon
            BY <1>0, <2>1, BeforeIsOne DEF Before
        <2>3. k = key
            BY <1>0, <2>1, <2>2, BeforeIsOne DEF Before
        <2> QED BY <2>1, <2>3
    <1>2. ASSUME s[key] = UrlKey, Grammar!Nesting(s, key) = 1
          PROVE  v \in Grammar!UrlValues(s)
        BY <1>0, <1>2, UrlValueIs
    <1> QED BY <1>1, <1>2

(* It is not among the first symbols of the text.                          *)
LEMMA FirstIsNoUrlValue ==
    ASSUME NEW s \in Seq(Symbol), NEW p \in Nat, Grammar!Blank(s, 1, p - 1),
           NEW v \in Grammar!UrlValues(s)
    PROVE  ~ (v <= p)
    <1>1. v \in 1 .. Len(s) /\ \E colon \in 1 .. Len(s) : Before(s, colon, v)
        BY UrlValueIs
    <1> QED BY <1>1 DEF Before, Grammar!Blank

(* What is passed when the parser goes from the symbols p to r - 1, and the*)
(* white space behind them, to q.                                          *)
Passed(s, p, r, q) ==
    /\ \A v \in Grammar!UrlValues(s) : v < q => v <= p
    /\ \A i \in (p + 1) .. q : Grammar!Nesting(s, i) = Grammar!Nesting(s, p + 1)
    /\ s[r - 1] # NameSeparator => q \notin Grammar!UrlValues(s)

(* Between two places the parser stops at there is nothing to notice.      *)
LEMMA Passing ==
    ASSUME NEW s \in Seq(Symbol), NEW p \in 1 .. Len(s), NEW r \in (p + 1) .. (Len(s) + 1),
           NEW q, IsFirst(s, r, q), s[p] \notin Space,
           r = p + 1 \/ \A k \in p .. (r - 1) : s[k] \in NumberSymbol
    PROVE  Passed(s, p, r, q) /\ Before(s, r - 1, q)
    <1>0. Len(s) \in Nat /\ q \in r .. (Len(s) + 1) /\ Grammar!Blank(s, r, q - 1) /\ (r - 1) + 1 = r
        BY DEF IsFirst
    <1>1. \A x \in NumberSymbol \cup Space :
            x # NameSeparator /\ x \notin {BeginObject, BeginArray, EndObject, EndArray}
        BY DEF NumberSymbol, Digit, Space, NameSeparator, BeginObject, BeginArray, EndObject, EndArray
    <1>2. \A x \in NumberSymbol : x \notin Space
        BY DEF NumberSymbol, Digit, Space
    <1>3. \A k \in (p + 1) .. (r - 1) : s[k] \in NumberSymbol
        BY <1>0
    <1>4. Before(s, r - 1, q)
        <2>1. s[r - 1] \notin Space
            BY <1>0, <1>2
        <2> QED BY <1>0, <2>1 DEF Before
    <1>5. ASSUME NEW v \in Grammar!UrlValues(s), v < q, ~ (v <= p) PROVE FALSE
        <2>1. v \in 1 .. Len(s) /\ s[v] \notin Space
            BY UrlValueIs
        <2>2. v < r
            BY <1>0, <1>5, <2>1 DEF Grammar!Blank
        <2>3. v \in (p + 1) .. (r - 1) /\ v - 1 \in p .. (r - 1) /\ r # p + 1 /\ v - 1 \in 1 .. (v - 1)
            BY <1>0, <1>5, <2>1, <2>2
        <2>4. s[v - 1] \in NumberSymbol
            BY <2>3
        <2>5. Before(s, v - 1, v)
            BY <1>2, <2>3, <2>4 DEF Before, Grammar!Blank
        <2> QED BY <1>1, <2>4, <2>5, NoUrlValue
    <1>6. ASSUME NEW i \in (p + 1) .. q PROVE Grammar!Nesting(s, i) = Grammar!Nesting(s, p + 1)
        <2>1. \A k \in (p + 1) .. (i - 1) :
                s[k] \notin {BeginObject, BeginArray, EndObject, EndArray}
            <3>1. ASSUME NEW k \in (p + 1) .. (i - 1) PROVE s[k] \in NumberSymbol \cup Space
                <4>1. k \in (p + 1) .. (r - 1) \/ k \in r .. (q - 1)
                    BY <1>0
                <4> QED BY <1>0, <1>3, <4>1 DEF Grammar!Blank
            <3> QED BY <1>1, <3>1
        <2>2. i \in Nat /\ p + 1 \in Nat /\ p + 1 <= i
            BY <1>0
        <2> QED BY <2>1, <2>2, NestingStays
    <1>7. s[r - 1] # NameSeparator => q \notin Grammar!UrlValues(s)
        BY <1>4, NoUrlValue
    <1> QED BY <1>4, <1>5, <1>6, <1>7 DEF Passed

-----------------------------------------------------------------------------
(* The parser's stack tells how the text may go on.  G gives the ends that *)
(* the outermost object and each array or object on the stack can have.    *)
Lang(s) == CHOOSE is : /\ IsLanguage(s, is)
                       /\ Grammar!Parses(s) <=> is[<<"value", 1, Len(s)>>]
Valid(s) == Grammar!Parses(s) /\ Grammar!IsObject(s)

IsStack(st) == st \in Seq({BeginArray, BeginObject})
Below(st, k) == IF k = 1 THEN BeginObject ELSE st[k - 1]
Top(st) == IF st = <<>> THEN BeginObject ELSE st[Len(st)]

AreNested(s, st, G) ==
    /\ G[0] = Outer(s)
    /\ \A k \in 1 .. Len(st) : G[k] = Inner(s, Lang(s), Below(st, k), st[k], G[k - 1])

Continues(s, state, st, p) ==
    \E G : /\ AreNested(s, st, G)
           /\ Valid(s) <=> \E e \in G[Len(st)] : Expect(s, Lang(s), state, Top(st), p, e)

(* What the grammar says of the spans of the text.                         *)
LEMMA LangIs ==
    ASSUME NEW s \in Seq(Symbol)
    PROVE  /\ IsLanguage(s, Lang(s))
           /\ Grammar!Parses(s) <=> Lang(s)[<<"value", 1, Len(s)>>]
    BY ParsesMeans, Zenon DEF Lang

(* The top of a stack.                                                     *)
LEMMA StackTop ==
    ASSUME NEW st, IsStack(st)
    PROVE  /\ Len(st) \in Nat /\ Top(st) \in {BeginArray, BeginObject}
           /\ st = <<>> <=> Len(st) = 0
           /\ Len(st) # 0 => Top(st) = st[Len(st)] /\ Len(st) \in 1 .. Len(st)
           /\ Len(st) = 0 => Top(st) = BeginObject
    BY DEF IsStack, Top

(* A stack without its top.                                                *)
LEMMA PopIs ==
    ASSUME NEW st, IsStack(st), st # <<>>
    PROVE  LET rest == SubSeq(st, 1, Len(st) - 1)
           IN  IsStack(rest) /\ Len(rest) = Len(st) - 1
    <1> DEFINE rest == SubSeq(st, 1, Len(st) - 1)
    <1>1. Len(st) \in Nat /\ Len(st) # 0
        BY StackTop
    <1>2. \A k \in 1 .. (Len(st) - 1) : st[k] \in {BeginArray, BeginObject}
        BY <1>1 DEF IsStack
    <1>3. rest = [k \in 1 .. (Len(st) - 1) |-> st[k]]
        BY <1>1 DEF IsStack
    <1> HIDE DEF rest
    <1>4. IsStack(rest) /\ Len(rest) = Len(st) - 1
        BY <1>1, <1>2, <1>3 DEF IsStack
    <1> QED BY <1>4 DEF rest

(* The innermost array or object ends with its own bracket.                *)
LEMMA EndsAre ==
    ASSUME NEW s, NEW st, IsStack(st), NEW G, AreNested(s, st, G)
    PROVE  AreEnds(s, Top(st), G[Len(st)])
    <1>1. CASE Len(st) = 0
        <2>1. Top(st) = BeginObject /\ Closer(BeginObject) = EndObject
            BY <1>1, StackTop DEF Closer, BeginArray, BeginObject
        <2> QED BY <1>1, <2>1 DEF AreNested, AreEnds, Outer
    <1>2. CASE Len(st) # 0
        <2>1. Top(st) = st[Len(st)] /\ Len(st) \in 1 .. Len(st)
            BY <1>2, StackTop
        <2> QED BY <2>1 DEF AreNested, AreEnds, Inner
    <1> QED BY <1>1, <1>2

(* The parser goes on within the same array or object, ...                 *)
LEMMA GoOn ==
    ASSUME NEW s, NEW st, IsStack(st), NEW state, NEW p, NEW after, NEW q,
           Continues(s, state, st, p),
           ASSUME NEW e \in 1 .. Len(s), s[e] = Closer(Top(st))
           PROVE  Expect(s, Lang(s), state, Top(st), p, e)
                    <=> Expect(s, Lang(s), after, Top(st), q, e)
    PROVE  Continues(s, after, st, q)
    <1>1. PICK G : /\ AreNested(s, st, G)
                   /\ Valid(s) <=> \E e \in G[Len(st)] : Expect(s, Lang(s), state, Top(st), p, e)
        BY DEF Continues
    <1>2. \A e \in G[Len(st)] : e \in 1 .. Len(s) /\ s[e] = Closer(Top(st))
        BY <1>1, EndsAre DEF AreEnds
    <1>3. Valid(s) <=> \E e \in G[Len(st)] : Expect(s, Lang(s), after, Top(st), q, e)
        BY <1>1, <1>2
    <1> QED BY <1>1, <1>3 DEF Continues

(* ... stops at a wrong symbol, ...                                        *)
LEMMA StopAt ==
    ASSUME NEW s \in Seq(Symbol), NEW st, IsStack(st), NEW state,
           NEW p \in 1 .. (Len(s) + 1), Continues(s, state, st, p),
           Wrong(s, state, Top(st), p)
    PROVE  ~ Valid(s)
    <1>1. PICK G : /\ AreNested(s, st, G)
                   /\ Valid(s) <=> \E e \in G[Len(st)] : Expect(s, Lang(s), state, Top(st), p, e)
        BY DEF Continues
    <1>2. \A e \in G[Len(st)] : e \in 1 .. Len(s) /\ s[e] = Closer(Top(st))
        BY <1>1, EndsAre DEF AreEnds
    <1>3. Top(st) \in {BeginArray, BeginObject}
        BY StackTop
    <1>4. \A e \in G[Len(st)] : ~ Expect(s, Lang(s), state, Top(st), p, e)
        BY <1>2, <1>3, WrongExpects
    <1> QED BY <1>1, <1>4

(* ... enters one, ...                                                     *)
LEMMA GoIn ==
    ASSUME NEW s \in Seq(Symbol), NEW st, IsStack(st), NEW state \in {"value", "element"},
           NEW p \in 1 .. Len(s), s[p] \in {BeginArray, BeginObject},
           state = "element" => Top(st) = BeginArray,
           NEW q, IsFirst(s, p + 1, q), Continues(s, state, st, p)
    PROVE  /\ IsStack(Append(st, s[p])) /\ Len(Append(st, s[p])) = Len(st) + 1
           /\ Top(Append(st, s[p])) = s[p]
           /\ Continues(s, Inside(s[p]), Append(st, s[p]), q)
    <1> DEFINE c == s[p]
               new == Append(st, c)
               m == Len(st)
    <1>1. PICK G : /\ AreNested(s, st, G)
                   /\ Valid(s) <=> \E e \in G[m] : Expect(s, Lang(s), state, Top(st), p, e)
        BY DEF Continues
    <1>2. /\ IsStack(new) /\ Len(new) = m + 1 /\ new[m + 1] = c /\ m \in Nat
          /\ \A k \in 1 .. m : new[k] = st[k]
        BY DEF IsStack
    <1>3. Top(new) = c
        <2> HIDE DEF new, m, c
        <2> QED BY <1>2, StackTop
    <1>4. Below(new, m + 1) = Top(st)
        <2>1. CASE m = 0
            BY <1>2, <2>1, StackTop DEF Below
        <2>2. CASE m # 0
            <3>1. m \in 1 .. m /\ (m + 1) - 1 = m /\ m + 1 # 1
                BY <1>2, <2>2
            <3> QED BY <1>2, <2>2, <3>1, StackTop DEF Below
        <2> QED BY <2>1, <2>2
    <1> DEFINE H == [k \in 0 .. (m + 1) |->
                       IF k = m + 1 THEN Inner(s, Lang(s), Top(st), c, G[m]) ELSE G[k]]
    <1>5. /\ \A k \in 0 .. m : H[k] = G[k]
          /\ H[m + 1] = Inner(s, Lang(s), Top(st), c, G[m])
        BY <1>2
    <1> HIDE DEF H
    <1>6. AreNested(s, new, H)
        <2>1. H[0] = Outer(s)
            BY <1>1, <1>2, <1>5 DEF AreNested
        <2>2. ASSUME NEW k \in 1 .. (m + 1)
              PROVE  H[k] = Inner(s, Lang(s), Below(new, k), new[k], H[k - 1])
            <3>1. CASE k = m + 1
                <4>1. k - 1 = m /\ m \in 0 .. m
                    BY <1>2, <3>1
                <4> HIDE DEF m, new, c
                <4> QED BY <1>2, <1>4, <1>5, <3>1, <4>1
            <3>2. CASE k # m + 1
                <4>1. k \in 1 .. m /\ k \in 0 .. m /\ k - 1 \in 0 .. m /\ (k # 1 => k - 1 \in 1 .. m)
                    BY <1>2, <3>2
                <4>2. new[k] = st[k] /\ Below(new, k) = Below(st, k)
                    <5> HIDE DEF m, new, c
                    <5> QED BY <1>2, <4>1 DEF Below
                <4>3. G[k] = Inner(s, Lang(s), Below(st, k), st[k], G[k - 1])
                    BY <1>1, <4>1 DEF AreNested
                <4>4. H[k] = G[k] /\ H[k - 1] = G[k - 1]
                    BY <1>5, <4>1
                <4> HIDE DEF m, new, c
                <4> QED BY <4>2, <4>3, <4>4
            <3> QED BY <3>1, <3>2
        <2> HIDE DEF new
        <2> QED BY <1>2, <2>1, <2>2 DEF AreNested
    <1>7. (\E e \in G[m] : Expect(s, Lang(s), state, Top(st), p, e)) <=>
          (\E b \in Inner(s, Lang(s), Top(st), s[p], G[m]) :
              Expect(s, Lang(s), Inside(s[p]), s[p], q, b))
        <2>1. AreEnds(s, Top(st), G[m])
            BY <1>1, EndsAre
        <2>2. IsLanguage(s, Lang(s))
            BY LangIs
        <2> HIDE DEF m, new, c
        <2> QED BY <2>1, <2>2, EnterExpects
    <1>8. Valid(s) <=> \E b \in H[Len(new)] : Expect(s, Lang(s), Inside(c), Top(new), q, b)
        <2> HIDE DEF new, m
        <2> QED BY <1>1, <1>2, <1>3, <1>5, <1>7
    <1>9. Continues(s, Inside(c), new, q)
        <2> HIDE DEF new, m, c
        <2> QED BY <1>6, <1>8 DEF Continues
    <1> QED BY <1>2, <1>3, <1>9

(* ... or leaves it.                                                       *)
LEMMA GoOut ==
    ASSUME NEW s \in Seq(Symbol), NEW st, IsStack(st), st # <<>>,
           NEW p \in 1 .. Len(s), s[p] = Closer(Top(st)),
           NEW state \in {"next", Inside(Top(st))},
           NEW q, IsFirst(s, p + 1, q), Continues(s, state, st, p)
    PROVE  LET rest == SubSeq(st, 1, Len(st) - 1)
           IN  IsStack(rest) /\ Len(rest) = Len(st) - 1 /\ Continues(s, "next", rest, q)
    <1> DEFINE rest == SubSeq(st, 1, Len(st) - 1)
               m == Len(st)
    <1>1. PICK G : /\ AreNested(s, st, G)
                   /\ Valid(s) <=> \E e \in G[m] : Expect(s, Lang(s), state, Top(st), p, e)
        BY DEF Continues
    <1>2. m \in Nat \ {0} /\ m - 1 \in Nat /\ m \in 1 .. m /\ Top(st) = st[m]
          /\ Top(st) \in {BeginArray, BeginObject}
        BY StackTop
    <1>3. /\ IsStack(rest) /\ Len(rest) = m - 1
          /\ \A k \in 1 .. (m - 1) : rest[k] = st[k]
        <2>1. \A k \in 1 .. (m - 1) : st[k] \in {BeginArray, BeginObject}
            BY <1>2 DEF IsStack
        <2>2. rest = [k \in 1 .. (m - 1) |-> st[k]]
            BY <1>2 DEF IsStack
        <2> HIDE DEF rest
        <2> QED BY <1>2, <2>1, <2>2 DEF IsStack
    <1> HIDE DEF rest, m
    <1>4. \A k \in 1 .. (m - 1) : Below(rest, k) = Below(st, k)
        <2>1. \A k \in 1 .. (m - 1) : k # 1 => k - 1 \in 1 .. (m - 1)
            BY <1>2
        <2> QED BY <1>3, <2>1 DEF Below
    <1>5. AreNested(s, rest, G)
        <2>1. \A k \in 1 .. (m - 1) : k \in 1 .. Len(st)
            BY <1>2 DEF m
        <2> QED BY <1>1, <1>3, <1>4, <2>1 DEF AreNested
    <1>6. Below(st, m) = Top(rest)
        <2>1. CASE m = 1
            BY <1>2, <1>3, <2>1, StackTop DEF Below
        <2>2. CASE m # 1
            <3>1. Len(rest) # 0 /\ m - 1 \in 1 .. (m - 1)
                BY <1>2, <1>3, <2>2
            <3> QED BY <1>3, <2>2, <3>1, StackTop DEF Below
        <2> QED BY <2>1, <2>2
    <1>7. G[m] = Inner(s, Lang(s), Top(rest), Top(st), G[m - 1])
        <2>1. G[m] = Inner(s, Lang(s), Below(st, m), st[m], G[m - 1])
            BY <1>1, <1>2 DEF AreNested, m
        <2> QED BY <1>2, <1>6, <2>1
    <1>8. AreEnds(s, Top(rest), G[m - 1])
        BY <1>3, <1>5, EndsAre
    <1>9. (\E b \in Inner(s, Lang(s), Top(rest), Top(st), G[m - 1]) :
             Expect(s, Lang(s), state, Top(st), p, b))
          <=> (\E e \in G[m - 1] : Expect(s, Lang(s), "next", Top(rest), q, e))
        <2>1. ASSUME NEW inner \in {BeginArray, BeginObject}, s[p] = Closer(inner),
                     state \in {"next", Inside(inner)}, NEW c, NEW F, AreEnds(s, c, F)
              PROVE  (\E b \in Inner(s, Lang(s), c, inner, F) :
                        Expect(s, Lang(s), state, inner, p, b))
                     <=> (\E e \in F : Expect(s, Lang(s), "next", c, q, e))
            BY <2>1, LeaveExpects, ZenonT(30)
        <2> QED BY <1>2, <1>8, <2>1, Zenon
    <1>10. Valid(s) <=> \E e \in G[Len(rest)] : Expect(s, Lang(s), "next", Top(rest), q, e)
        BY <1>1, <1>3, <1>7, <1>9
    <1>11. Continues(s, "next", rest, q)
        BY <1>5, <1>10 DEF Continues
    <1> QED BY <1>3, <1>11 DEF rest, m

(* The outermost object begins, or does not, and ends.                     *)
LEMMA GoInto ==
    ASSUME NEW s \in Seq(Symbol), NEW p, IsFirst(s, 1, p)
    PROVE  /\ ~ (p <= Len(s) /\ s[p] = BeginObject) => ~ Valid(s)
           /\ \A q : p <= Len(s) /\ s[p] = BeginObject /\ IsFirst(s, p + 1, q) =>
                 Continues(s, "first", <<>>, q)
    <1>1. /\ Grammar!IsObject(s) <=> p <= Len(s) /\ s[p] = BeginObject
          /\ \A q : p <= Len(s) /\ s[p] = BeginObject /\ IsFirst(s, p + 1, q) =>
                 (Lang(s)[<<"value", 1, Len(s)>>] <=>
                    \E e \in Outer(s) : Expect(s, Lang(s), "first", BeginObject, q, e))
        BY LangIs, OpenExpects
    <1>2. ASSUME NEW q, p <= Len(s), s[p] = BeginObject, IsFirst(s, p + 1, q)
          PROVE  Continues(s, "first", <<>>, q)
        <2> DEFINE G == [k \in {0} |-> Outer(s)]
        <2>1. G[0] = Outer(s)
            OBVIOUS
        <2>2. Len(<<>>) = 0 /\ Top(<<>>) = BeginObject
            BY DEF Top
        <2> HIDE DEF G
        <2>3. AreNested(s, <<>>, G)
            BY <2>1, <2>2 DEF AreNested
        <2>4. Valid(s) <=> \E e \in G[0] : Expect(s, Lang(s), "first", BeginObject, q, e)
            BY <1>1, <1>2, <2>1, LangIs DEF Valid
        <2> QED BY <2>2, <2>3, <2>4 DEF Continues
    <1> QED BY <1>1, <1>2 DEF Valid

(* ... and the text is valid if only white space is behind its end.        *)
LEMMA GoBehind ==
    ASSUME NEW s \in Seq(Symbol), NEW p \in 1 .. Len(s), s[p] = EndObject,
           NEW q, IsFirst(s, p + 1, q), NEW state \in {"next", "first"},
           Continues(s, state, <<>>, p)
    PROVE  Valid(s) <=> q = Len(s) + 1
    <1>1. Len(<<>>) = 0 /\ Top(<<>>) = BeginObject
        BY DEF Top
    <1>2. Valid(s) <=> \E e \in Outer(s) : Expect(s, Lang(s), state, BeginObject, p, e)
        BY <1>1 DEF Continues, AreNested
    <1> QED BY <1>2, CloseExpects

-----------------------------------------------------------------------------
(* What the parser knows when it is at p: of the values called url in front*)
(* of p, of the nesting there, and of what may follow.                     *)
Seen(s, p, f) ==
    \/ f = None /\ \A v \in Grammar!UrlValues(s) : ~ (v < p)
    \/ /\ f \in String
       /\ \E v \in Grammar!UrlValues(s) :
            /\ v < p /\ s[v] = f
            /\ \A w \in Grammar!UrlValues(s) : w < p => w = v

Shallow(s, p) == \A i \in 1 .. p : Grammar!Nesting(s, i) <= MaxDepth + 1

Place(s, p, st, url, f) ==
    /\ s \in Seq(Symbol) /\ p \in 1 .. (Len(s) + 1)
    /\ p <= Len(s) => s[p] \notin Space
    /\ IsStack(st) /\ Len(st) <= MaxDepth
    /\ url \in BOOLEAN /\ f \in String \cup {None}
    /\ Seen(s, p, f) /\ Shallow(s, p)

Context(s, p, state, st, url, f) ==
    /\ state = "colon" =>
          \E key : /\ Before(s, key, p) /\ s[key] \in String
                   /\ url <=> s[key] = UrlKey /\ Grammar!Nesting(s, key) = 1
    /\ state = "value" => (p <= Len(s) => (p \in Grammar!UrlValues(s) <=> url))
    /\ state \notin {"colon", "value"} => ~ url /\ p \notin Grammar!UrlValues(s)
    /\ state = "first" /\ st = <<>> => f = None

Fits(state, st) ==
    /\ state \in {"first", "element", "key", "colon", "value", "next"}
    /\ state \in {"first", "key", "colon"} => Top(st) = BeginObject
    /\ state = "element" => Top(st) = BeginArray

Within(s, p, state, st, url, f) ==
    /\ Place(s, p, st, url, f) /\ Fits(state, st)
    /\ Grammar!Nesting(s, p) = Len(st) + 1
    /\ Continues(s, state, st, p) /\ Context(s, p, state, st, url, f)

Outside(s, p, state, st, url, f) ==
    /\ Place(s, p, st, url, f) /\ st = <<>>
    /\ \/ state = "open" /\ ~ url /\ f = None /\ IsFirst(s, 1, p)
       \/ state = "end" /\ (Valid(s) <=> p = Len(s) + 1)

(* From one symbol to the next: q is behind the symbols from p to r - 1.   *)
Step(s, p, r, q) ==
    /\ p \in 1 .. Len(s) /\ r \in (p + 1) .. (Len(s) + 1) /\ q = Skip(s, r)
    /\ r = p + 1 \/ \A k \in p .. (r - 1) : s[k] \in NumberSymbol

(* Where a step leads to, and what it passes.                              *)
LEMMA StepIs ==
    ASSUME NEW s, NEW p, NEW st, NEW url, NEW f, Place(s, p, st, url, f),
           NEW r, NEW q, Step(s, p, r, q)
    PROVE  /\ Len(s) \in Nat /\ s \in Seq(Symbol) /\ p \in 1 .. Len(s) /\ p \in Nat
           /\ r \in (p + 1) .. (Len(s) + 1) /\ IsFirst(s, r, q)
           /\ q \in 1 .. (Len(s) + 1) /\ p < q /\ (q <= Len(s) => s[q] \notin Space)
           /\ Passed(s, p, r, q) /\ Before(s, r - 1, q)
    <1>1. Len(s) \in Nat /\ s \in Seq(Symbol) /\ p \in 1 .. Len(s) /\ p \in Nat /\ s[p] \notin Space
          /\ r \in (p + 1) .. (Len(s) + 1)
          /\ (r = p + 1 \/ \A k \in p .. (r - 1) : s[k] \in NumberSymbol)
        BY DEF Step, Place
    <1>2. IsFirst(s, r, q)
        <2>1. r \in 1 .. (Len(s) + 1)
            BY <1>1
        <2> QED BY <1>1, <2>1, SkipIs DEF Step
    <1>3. q \in 1 .. (Len(s) + 1) /\ p < q /\ (q <= Len(s) => s[q] \notin Space)
        BY <1>1, <1>2 DEF IsFirst
    <1>4. Passed(s, p, r, q) /\ Before(s, r - 1, q)
        BY <1>1, <1>2, Passing
    <1> QED BY <1>1, <1>2, <1>3, <1>4

(* A step over what is no value called url, and one over such a value.     *)
LEMMA StepSees ==
    ASSUME NEW s, NEW p, NEW st, NEW url, NEW f, Place(s, p, st, url, f),
           NEW r, NEW q, Step(s, p, r, q)
    PROVE  /\ p \notin Grammar!UrlValues(s) => Seen(s, q, f)
           /\ p \in Grammar!UrlValues(s) /\ f = None /\ s[p] \in String => Seen(s, q, s[p])
    <1>1. Seen(s, p, f) /\ s \in Seq(Symbol)
        BY DEF Place
    <1>2. p \in Nat /\ q \in Nat /\ p < q /\ \A v \in Grammar!UrlValues(s) : v < q => v <= p
        BY StepIs DEF Passed
    <1>3. \A v \in Grammar!UrlValues(s) : v \in Nat
        BY <1>1, UrlValueIs
    <1>4. \A v \in Grammar!UrlValues(s) : v < q <=> v = p \/ v < p
        BY <1>2, <1>3
    <1>5. None \notin String
        BY JsonAssumption
    <1>6. p \notin Grammar!UrlValues(s) => Seen(s, q, f)
        BY <1>1, <1>4 DEF Seen
    <1>7. p \in Grammar!UrlValues(s) /\ f = None /\ s[p] \in String => Seen(s, q, s[p])
        BY <1>1, <1>2, <1>4, <1>5 DEF Seen
    <1> QED BY <1>6, <1>7

(* A step that keeps the nesting in its limit.                             *)
LEMMA StepNests ==
    ASSUME NEW s, NEW p, NEW st, NEW url, NEW f, Place(s, p, st, url, f),
           NEW r, NEW q, Step(s, p, r, q), Grammar!Nesting(s, p + 1) <= MaxDepth + 1
    PROVE  Grammar!Nesting(s, q) = Grammar!Nesting(s, p + 1) /\ Shallow(s, q)
    <1>1. /\ p \in Nat /\ q \in Nat /\ p < q
          /\ \A i \in (p + 1) .. q : Grammar!Nesting(s, i) = Grammar!Nesting(s, p + 1)
        BY StepIs DEF Passed
    <1>2. Shallow(s, p)
        BY DEF Place
    <1>3. \A i \in 1 .. q : i \in 1 .. p \/ i \in (p + 1) .. q
        BY <1>1
    <1>4. q \in (p + 1) .. q
        BY <1>1
    <1> QED BY <1>1, <1>2, <1>3, <1>4 DEF Shallow

(* A step that leaves the nesting alone.                                   *)
LEMMA StepStays ==
    ASSUME NEW s, NEW p, NEW state, NEW st, NEW url, NEW f, Within(s, p, state, st, url, f),
           NEW r, NEW q, Step(s, p, r, q),
           s[p] \notin {BeginObject, BeginArray, EndObject, EndArray}
    PROVE  /\ Shallow(s, q) /\ Grammar!Nesting(s, q) = Len(st) + 1
           /\ \A u \in BOOLEAN, g \in String \cup {None} : Seen(s, q, g) => Place(s, q, st, u, g)
    <1>1. Place(s, p, st, url, f) /\ Grammar!Nesting(s, p) = Len(st) + 1
        BY DEF Within
    <1>2. /\ s \in Seq(Symbol) /\ p \in Nat \ {0} /\ q \in 1 .. (Len(s) + 1)
          /\ q <= Len(s) => s[q] \notin Space
        BY <1>1, StepIs
    <1>3. Grammar!Nesting(s, p + 1) = Grammar!Nesting(s, p)
        BY <1>2, NestingSteps
    <1>4. Len(st) <= MaxDepth /\ Len(st) \in Nat /\ MaxDepth \in Nat /\ IsStack(st)
        BY <1>1, JsonAssumption DEF Place, IsStack
    <1>5. Grammar!Nesting(s, q) = Len(st) + 1 /\ Shallow(s, q)
        BY <1>1, <1>3, <1>4, StepNests
    <1> QED BY <1>2, <1>4, <1>5 DEF Place

(* Strings, literals, numbers, brackets and separators all differ.         *)
LEMMA SymbolsDiffer ==
    /\ \A x \in String : x \notin {BeginObject, BeginArray, EndObject, EndArray, NameSeparator}
    /\ \A x \in Literal \cup NumberSymbol \cup {ValueSeparator} :
          x \notin {BeginObject, BeginArray, EndObject, EndArray, NameSeparator}
    /\ NameSeparator \notin {BeginObject, BeginArray, EndObject, EndArray}
    /\ {BeginObject, BeginArray} \cap {EndObject, EndArray} = {}
    /\ BeginArray # BeginObject /\ EndArray # EndObject
    <1>1. \A x \in String : x \notin {BeginObject, BeginArray, EndObject, EndArray, NameSeparator}
        BY JsonAssumption DEF Single
    <1> QED BY <1>1 DEF Literal, NumberSymbol, Digit, BeginObject, BeginArray, EndObject, EndArray,
               NameSeparator, ValueSeparator

(* A step, seen by the grammar.                                            *)
LEMMA StepReads ==
    ASSUME NEW s, NEW p, NEW st, NEW url, NEW f, Place(s, p, st, url, f),
           NEW r, NEW q, Step(s, p, r, q),
           NEW e \in 1 .. Len(s), s[e] = Closer(Top(st))
    PROVE  Reading(s, Lang(s), Top(st), p, r, q, e)
    <1>1. s \in Seq(Symbol) /\ IsStack(st)
        BY DEF Place
    <1>2. IsLanguage(s, Lang(s)) /\ Top(st) \in {BeginArray, BeginObject}
        BY <1>1, LangIs, StackTop
    <1> QED BY <1>1, <1>2, StepIs DEF Reading

(* No value called url is where a value is not expected after a key.       *)
LEMMA WithinIs ==
    ASSUME NEW s, NEW p, NEW state \in {"first", "element", "key", "next"}, NEW st, NEW url,
           NEW f, Within(s, p, state, st, url, f)
    PROVE  /\ Place(s, p, st, url, f) /\ Continues(s, state, st, p)
           /\ ~ url /\ p \notin Grammar!UrlValues(s)
    <1>1. Context(s, p, state, st, url, f) /\ state \notin {"colon", "value"}
        BY DEF Within
    <1>2. ~ url /\ p \notin Grammar!UrlValues(s)
        BY <1>1, Zenon DEF Context
    <1> QED BY <1>2, Zenon DEF Within

(* Each symbol that the parser accepts, seen from the place behind it.     *)
LEMMA KeyGoes ==
    ASSUME NEW s, NEW p, NEW state \in {"first", "key"}, NEW st, NEW url, NEW f,
           Within(s, p, state, st, url, f), NEW q, Step(s, p, p + 1, q), s[p] \in String
    PROVE  Within(s, q, "colon", st, st = <<>> /\ s[p] = UrlKey, f)
    <1>1. /\ Place(s, p, st, url, f) /\ Top(st) = BeginObject /\ IsStack(st)
          /\ Continues(s, state, st, p) /\ p \notin Grammar!UrlValues(s)
          /\ Grammar!Nesting(s, p) = Len(st) + 1 /\ f \in String \cup {None}
        BY DEF Within, Fits, Context, Place
    <1>2. Shallow(s, q) /\ Grammar!Nesting(s, q) = Len(st) + 1
          /\ \A u \in BOOLEAN, g \in String \cup {None} : Seen(s, q, g) => Place(s, q, st, u, g)
        BY SymbolsDiffer, StepStays
    <1>3. Place(s, q, st, st = <<>> /\ s[p] = UrlKey, f)
        BY <1>1, <1>2, StepSees
    <1>4. Continues(s, "colon", st, q)
        <2>1. ASSUME NEW e \in 1 .. Len(s), s[e] = Closer(Top(st))
              PROVE  Expect(s, Lang(s), state, Top(st), p, e)
                        <=> Expect(s, Lang(s), "colon", Top(st), q, e)
            <3>1. Reading(s, Lang(s), Top(st), p, p + 1, q, e)
                BY <1>1, <2>1, StepReads
            <3> QED BY <1>1, <3>1, KeyExpects
        <2> QED BY <1>1, <2>1, GoOn
    <1>5. Before(s, p, q)
        <2>1. Before(s, (p + 1) - 1, q) /\ (p + 1) - 1 = p
            BY <1>1, StepIs
        <2> QED BY <2>1
    <1>6. (st = <<>> /\ s[p] = UrlKey) <=> (s[p] = UrlKey /\ Grammar!Nesting(s, p) = 1)
        BY <1>1, StackTop
    <1>7. Context(s, q, "colon", st, st = <<>> /\ s[p] = UrlKey, f)
        BY <1>5, <1>6 DEF Context
    <1> QED BY <1>1, <1>2, <1>3, <1>4, <1>7 DEF Within, Fits

(* The value behind the colon is one called url just when isUrl says so.   *)
LEMMA ColonGoes ==
    ASSUME NEW s, NEW p, NEW st, NEW url, NEW f,
           Within(s, p, "colon", st, url, f), NEW q, Step(s, p, p + 1, q), s[p] = NameSeparator
    PROVE  Within(s, q, "value", st, url, f)
    <1>1. /\ Place(s, p, st, url, f) /\ Top(st) = BeginObject /\ IsStack(st)
          /\ Continues(s, "colon", st, p)
          /\ f \in String \cup {None} /\ url \in BOOLEAN /\ s \in Seq(Symbol)
        BY DEF Within, Fits, Place
    <1>2. PICK key : /\ Before(s, key, p) /\ s[key] \in String
                     /\ url <=> s[key] = UrlKey /\ Grammar!Nesting(s, key) = 1
        <2>1. Context(s, p, "colon", st, url, f)
            BY DEF Within
        <2> QED BY <2>1, Zenon DEF Context
    <1>3. p \notin Grammar!UrlValues(s)
        BY <1>1, <1>2, SymbolsDiffer, NoUrlValue
    <1>4. Shallow(s, q) /\ Grammar!Nesting(s, q) = Len(st) + 1
          /\ \A u \in BOOLEAN, g \in String \cup {None} : Seen(s, q, g) => Place(s, q, st, u, g)
        BY SymbolsDiffer, StepStays
    <1>5. Place(s, q, st, url, f)
        BY <1>1, <1>3, <1>4, StepSees
    <1>6. Continues(s, "value", st, q)
        <2>1. ASSUME NEW e \in 1 .. Len(s), s[e] = Closer(Top(st))
              PROVE  Expect(s, Lang(s), "colon", Top(st), p, e)
                        <=> Expect(s, Lang(s), "value", Top(st), q, e)
            <3>1. Reading(s, Lang(s), Top(st), p, p + 1, q, e)
                BY <1>1, <2>1, StepReads
            <3> QED BY <1>1, <3>1, ColonExpects
        <2> QED BY <1>1, <2>1, GoOn
    <1>7. Before(s, p, q) /\ q \in 1 .. (Len(s) + 1) /\ Len(s) \in Nat
          /\ (q <= Len(s) => s[q] \notin Space)
        <2>1. Before(s, (p + 1) - 1, q) /\ (p + 1) - 1 = p
            BY <1>1, StepIs
        <2> QED BY <1>1, <2>1, StepIs
    <1>8. q <= Len(s) => (q \in Grammar!UrlValues(s) <=> url)
        <2>1. q <= Len(s) => q \in 1 .. Len(s)
            BY <1>7
        <2> QED BY <1>1, <1>2, <1>7, <2>1, UrlValueHasKey
    <1>9. Context(s, q, "value", st, url, f)
        BY <1>8 DEF Context
    <1> QED BY <1>4, <1>5, <1>6, <1>9 DEF Within, Fits

(* The next place is no value called url when no colon is in front of it.  *)
LEMMA NextContext ==
    ASSUME NEW s, NEW q, NEW state, NEW st, NEW f, q \notin Grammar!UrlValues(s),
           state # "colon", state = "first" => st # <<>>
    PROVE  Context(s, q, state, st, FALSE, f)
    BY DEF Context

(* A comma: the next element or the next key.                              *)
LEMMA CommaGoes ==
    ASSUME NEW s, NEW p, NEW st, NEW url, NEW f,
           Within(s, p, "next", st, url, f), NEW q, Step(s, p, p + 1, q), s[p] = ValueSeparator
    PROVE  Within(s, q, IF Top(st) = BeginArray THEN "value" ELSE "key", st, url, f)
    <1> DEFINE after == IF Top(st) = BeginArray THEN "value" ELSE "key"
    <1>1. /\ Place(s, p, st, url, f) /\ IsStack(st) /\ Continues(s, "next", st, p)
          /\ f \in String \cup {None} /\ url = FALSE /\ p \notin Grammar!UrlValues(s)
        <2>1. Place(s, p, st, url, f) /\ Continues(s, "next", st, p)
              /\ ~ url /\ p \notin Grammar!UrlValues(s)
            BY WithinIs
        <2>2. IsStack(st) /\ f \in String \cup {None} /\ url \in BOOLEAN
            BY <2>1, Zenon DEF Place
        <2> QED BY <2>1, <2>2
    <1>2. Shallow(s, q) /\ Grammar!Nesting(s, q) = Len(st) + 1
          /\ \A u \in BOOLEAN, g \in String \cup {None} : Seen(s, q, g) => Place(s, q, st, u, g)
        BY SymbolsDiffer, StepStays
    <1>3. Place(s, q, st, url, f)
        BY <1>1, <1>2, StepSees
    <1>4. Continues(s, after, st, q)
        <2>1. ASSUME NEW e \in 1 .. Len(s), s[e] = Closer(Top(st))
              PROVE  Expect(s, Lang(s), "next", Top(st), p, e)
                        <=> Expect(s, Lang(s), after, Top(st), q, e)
            <3>1. Reading(s, Lang(s), Top(st), p, p + 1, q, e)
                BY <1>1, <2>1, StepReads
            <3> QED BY <3>1, CommaExpects
        <2> HIDE DEF after
        <2> QED BY <1>1, <2>1, GoOn
    <1>5. q \notin Grammar!UrlValues(s)
        <2>1. Passed(s, p, p + 1, q) /\ (p + 1) - 1 = p
            BY <1>1, StepIs
        <2> QED BY <2>1, SymbolsDiffer DEF Passed
    <1>6. Context(s, q, after, st, url, f)
        BY <1>1, <1>5, NextContext
    <1>7. Fits(after, st)
        BY <1>1, StackTop DEF Fits
    <1> HIDE DEF after
    <1>8. Within(s, q, after, st, url, f)
        BY <1>2, <1>3, <1>4, <1>6, <1>7 DEF Within
    <1> QED BY <1>8 DEF after

(* A scalar: a string, a literal or a number, the value called url or not. *)
LEMMA ScalarGoes ==
    ASSUME NEW s, NEW p, NEW state \in {"value", "element"}, NEW st, NEW url, NEW f,
           Within(s, p, state, st, url, f), NEW r, NEW q, Step(s, p, r, q),
           s[p] \notin {BeginObject, BeginArray}, ~ (state = "element" /\ s[p] = EndArray),
           \/ s[p] \in String \cup Literal /\ r = p + 1
           \/ /\ s[p] \notin String \cup Literal
              /\ BehindNumber(s, p) # 0 /\ r = BehindNumber(s, p),
           NEW g \in String \cup {None},
           (url /\ f = None /\ s[p] \in String /\ g = s[p]) \/ (~ url /\ g = f)
    PROVE  Within(s, q, "next", st, FALSE, g)
    <1>1. /\ Place(s, p, st, url, f) /\ IsStack(st) /\ Continues(s, state, st, p)
          /\ s \in Seq(Symbol) /\ (state = "element" => Top(st) = BeginArray)
        BY DEF Within, Place, Fits
    <1>2. p \in 1 .. Len(s) /\ p \in Nat /\ Len(s) \in Nat
        BY <1>1, StepIs
    <1>3. p \in Grammar!UrlValues(s) <=> url
        BY <1>1, <1>2 DEF Within, Context, Place
    <1>4. s[p] \notin {BeginObject, BeginArray, EndObject, EndArray} /\ s[r - 1] # NameSeparator
        <2>1. CASE s[p] \in String \cup Literal /\ r = p + 1
            <3>1. r - 1 = p
                BY <1>2, <2>1
            <3> QED BY <2>1, <3>1, SymbolsDiffer
        <2>2. CASE BehindNumber(s, p) # 0 /\ r = BehindNumber(s, p)
            <3>1. r \in (p + 1) .. (Len(s) + 1) /\ Grammar!IsNumber(s, p, r - 1)
                BY <1>1, <1>2, <2>2, NumberFound
            <3>2. r - 1 \in Nat /\ p \in p .. (r - 1) /\ r - 1 \in p .. (r - 1)
                BY <1>2, <3>1
            <3>3. s[p] \in NumberSymbol /\ s[r - 1] \in NumberSymbol
                BY <1>2, <3>1, <3>2, NumberHolds
            <3> QED BY <3>3, SymbolsDiffer
        <2> QED BY <2>1, <2>2
    <1>5. Shallow(s, q) /\ Grammar!Nesting(s, q) = Len(st) + 1
          /\ \A u \in BOOLEAN, h \in String \cup {None} : Seen(s, q, h) => Place(s, q, st, u, h)
        BY <1>4, StepStays
    <1>6. Place(s, q, st, FALSE, g)
        <2>1. Seen(s, q, g)
            BY <1>1, <1>3, StepSees
        <2> QED BY <1>5, <2>1
    <1>7. Continues(s, "next", st, q)
        <2>1. ASSUME NEW e \in 1 .. Len(s), s[e] = Closer(Top(st))
              PROVE  Expect(s, Lang(s), state, Top(st), p, e)
                        <=> Expect(s, Lang(s), "next", Top(st), q, e)
            <3>1. Reading(s, Lang(s), Top(st), p, r, q, e)
                BY <1>1, <2>1, StepReads
            <3>2. CASE s[p] \in String \cup Literal /\ r = p + 1
                BY <1>1, <3>1, <3>2, ScalarExpects
            <3>3. CASE /\ s[p] \notin String \cup Literal
                       /\ BehindNumber(s, p) # 0 /\ r = BehindNumber(s, p)
                BY <1>1, <3>1, <3>3, NumberExpects
            <3> QED BY <3>2, <3>3
        <2> QED BY <1>1, <2>1, GoOn
    <1>8. q \notin Grammar!UrlValues(s)
        <2>1. Passed(s, p, r, q)
            BY <1>1, StepIs
        <2> QED BY <1>4, <2>1 DEF Passed
    <1>9. Context(s, q, "next", st, FALSE, g)
        BY <1>8, NextContext
    <1> QED BY <1>5, <1>6, <1>7, <1>9 DEF Within, Fits

(* The string that is the value called url, ...                            *)
LEMMA UrlStringGoes ==
    ASSUME NEW s, NEW p, NEW st, NEW url, NEW f, Within(s, p, "value", st, url, f), url,
           NEW q, Step(s, p, p + 1, q), s[p] \in String, f = None, NEW g, g = s[p]
    PROVE  Within(s, q, "next", st, FALSE, g)
    <1> DEFINE r == p + 1
    <1>1. s[p] \notin {BeginObject, BeginArray} /\ g \in String \cup {None}
        BY SymbolsDiffer
    <1>2. r = p + 1 /\ Step(s, p, r, q)
        OBVIOUS
    <1>3. s[p] \in String \cup Literal /\ "value" # "element"
        OBVIOUS
    <1>4. (url /\ f = None /\ s[p] \in String /\ g = s[p]) \/ (~ url /\ g = f)
        BY Zenon
    <1> HIDE DEF r
    <1> QED BY <1>1, <1>2, <1>3, <1>4, ScalarGoes, Zenon

(* ... and a scalar that is not.                                           *)
LEMMA OtherScalarGoes ==
    ASSUME NEW s, NEW p, NEW state \in {"value", "element"}, NEW st, NEW url, NEW f,
           Within(s, p, state, st, url, f), ~ url, NEW r, NEW q, Step(s, p, r, q),
           s[p] \notin {BeginObject, BeginArray}, ~ (state = "element" /\ s[p] = EndArray),
           \/ s[p] \in String \cup Literal /\ r = p + 1
           \/ /\ s[p] \notin String \cup Literal
              /\ BehindNumber(s, p) # 0 /\ r = BehindNumber(s, p)
    PROVE  Within(s, q, "next", st, url, f)
    <1>1. f \in String \cup {None} /\ url \in BOOLEAN
        BY DEF Within, Place
    <1>2. Within(s, q, "next", st, FALSE, f)
        BY <1>1, ScalarGoes
    <1>3. url = FALSE
        BY <1>1
    <1> QED BY <1>2, <1>3

(* An array or object begins one level deeper, ...                         *)
LEMMA EnterGoes ==
    ASSUME NEW s, NEW p, NEW state \in {"value", "element"}, NEW st, NEW url, NEW f,
           Within(s, p, state, st, url, f), NEW q, Step(s, p, p + 1, q),
           s[p] \in {BeginObject, BeginArray}, Len(st) < MaxDepth, ~ url
    PROVE  Within(s, q, Inside(s[p]), Append(st, s[p]), url, f)
    <1> DEFINE after == Inside(s[p])
               new == Append(st, s[p])
    <1>1. /\ Place(s, p, st, url, f) /\ IsStack(st) /\ Continues(s, state, st, p)
          /\ s \in Seq(Symbol) /\ (state = "element" => Top(st) = BeginArray)
          /\ Grammar!Nesting(s, p) = Len(st) + 1
          /\ url \in BOOLEAN /\ f \in String \cup {None}
        BY DEF Within, Place, Fits
    <1>2. /\ p \in 1 .. Len(s) /\ p \in Nat \ {0} /\ Len(s) \in Nat /\ q \in 1 .. (Len(s) + 1)
          /\ q <= Len(s) => s[q] \notin Space
          /\ IsFirst(s, p + 1, q) /\ Passed(s, p, p + 1, q)
        BY <1>1, StepIs
    <1>3. p \notin Grammar!UrlValues(s)
        BY <1>1, <1>2 DEF Within, Context
    <1>4. Grammar!Nesting(s, p + 1) = Grammar!Nesting(s, p) + 1
        BY <1>2, NestingSteps
    <1>5. Len(st) \in Nat /\ MaxDepth \in Nat
        BY <1>1, StackTop, JsonAssumption
    <1>6. Grammar!Nesting(s, q) = Len(st) + 2 /\ Shallow(s, q)
        BY <1>1, <1>4, <1>5, StepNests
    <1>7. /\ IsStack(new) /\ Len(new) = Len(st) + 1 /\ Top(new) = s[p]
          /\ Continues(s, after, new, q)
        BY <1>1, <1>2, GoIn
    <1>8. q \notin Grammar!UrlValues(s)
        <2>1. s[(p + 1) - 1] # NameSeparator
            BY <1>2, SymbolsDiffer
        <2> QED BY <1>2, <2>1 DEF Passed
    <1>9. new # <<>> /\ after \in {"first", "element"} /\ Fits(after, new)
        <2>1. /\ after \in {"first", "element"}
              /\ (after = "first" => s[p] = BeginObject) /\ (after = "element" => s[p] = BeginArray)
            BY DEF Inside
        <2>2. new # <<>>
            <3> HIDE DEF new
            <3> QED BY <1>5, <1>7
        <2> HIDE DEF after, new
        <2> QED BY <1>7, <2>1, <2>2 DEF Fits
    <1> HIDE DEF after, new
    <1>10. Place(s, q, new, url, f)
        <2>1. Seen(s, q, f)
            BY <1>1, <1>3, StepSees
        <2> QED BY <1>1, <1>2, <1>5, <1>6, <1>7, <2>1 DEF Place
    <1>11. Context(s, q, after, new, url, f)
        BY <1>8, <1>9 DEF Context
    <1>12. Grammar!Nesting(s, q) = Len(new) + 1
        BY <1>5, <1>6, <1>7
    <1>13. Within(s, q, after, new, url, f)
        BY <1>7, <1>9, <1>10, <1>11, <1>12 DEF Within
    <1> QED BY <1>13 DEF after, new

(* ... and ends.                                                           *)
LEMMA LeaveGoes ==
    ASSUME NEW s, NEW p, NEW st, st # <<>>, NEW state \in {"next", Inside(Top(st))},
           NEW url, NEW f, Within(s, p, state, st, url, f), NEW q, Step(s, p, p + 1, q),
           s[p] = Closer(Top(st))
    PROVE  Within(s, q, "next", SubSeq(st, 1, Len(st) - 1), url, f)
    <1> DEFINE rest == SubSeq(st, 1, Len(st) - 1)
    <1>1. /\ Place(s, p, st, url, f) /\ IsStack(st) /\ Continues(s, state, st, p)
          /\ s \in Seq(Symbol) /\ Grammar!Nesting(s, p) = Len(st) + 1
          /\ url \in BOOLEAN /\ f \in String \cup {None} /\ Len(st) <= MaxDepth
        BY DEF Within, Place
    <1>2. ~ url /\ p \notin Grammar!UrlValues(s)
        <2>1. state \in {"first", "element", "next"}
            BY DEF Inside
        <2> QED BY <2>1, WithinIs
    <1>3. /\ p \in 1 .. Len(s) /\ p \in Nat \ {0} /\ Len(s) \in Nat /\ q \in 1 .. (Len(s) + 1)
          /\ q <= Len(s) => s[q] \notin Space
          /\ IsFirst(s, p + 1, q) /\ Passed(s, p, p + 1, q)
        BY <1>1, StepIs
    <1>4. s[p] \in {EndObject, EndArray}
        BY DEF Closer
    <1>5. Grammar!Nesting(s, p + 1) = Grammar!Nesting(s, p) - 1
        BY <1>3, <1>4, NestingSteps
    <1>6. Len(st) \in Nat /\ MaxDepth \in Nat
        BY <1>1, StackTop, JsonAssumption
    <1>7. Grammar!Nesting(s, q) = Len(st) /\ Shallow(s, q)
        BY <1>1, <1>5, <1>6, StepNests
    <1>8. IsStack(rest) /\ Len(rest) = Len(st) - 1 /\ Continues(s, "next", rest, q)
        BY <1>1, <1>3, GoOut
    <1>9. q \notin Grammar!UrlValues(s)
        <2>1. s[(p + 1) - 1] # NameSeparator
            BY <1>3, <1>4 DEF NameSeparator, EndObject, EndArray
        <2> QED BY <1>3, <2>1 DEF Passed
    <1> HIDE DEF rest
    <1>10. Place(s, q, rest, url, f)
        <2>1. Seen(s, q, f)
            BY <1>1, <1>2, StepSees
        <2> QED BY <1>1, <1>3, <1>6, <1>7, <1>8, <2>1 DEF Place
    <1>11. Context(s, q, "next", rest, url, f) /\ Fits("next", rest)
        BY <1>2, <1>9 DEF Context, Fits
    <1>12. Grammar!Nesting(s, q) = Len(rest) + 1
        BY <1>6, <1>7, <1>8
    <1>13. Within(s, q, "next", rest, url, f)
        BY <1>8, <1>10, <1>11, <1>12 DEF Within
    <1> QED BY <1>13 DEF rest

(* The outermost object begins, ...                                        *)
LEMMA OpenGoes ==
    ASSUME NEW s, NEW p, NEW st, NEW url, NEW f, Outside(s, p, "open", st, url, f),
           NEW q, Step(s, p, p + 1, q), s[p] = BeginObject
    PROVE  Within(s, q, "first", st, url, f)
    <1>1. /\ Place(s, p, st, url, f) /\ st = <<>> /\ ~ url /\ f = None /\ IsFirst(s, 1, p)
          /\ s \in Seq(Symbol) /\ url \in BOOLEAN /\ f \in String \cup {None} /\ IsStack(st)
        BY DEF Outside, Place
    <1>2. /\ p \in 1 .. Len(s) /\ p \in Nat \ {0} /\ Len(s) \in Nat /\ q \in 1 .. (Len(s) + 1)
          /\ q <= Len(s) => s[q] \notin Space
          /\ IsFirst(s, p + 1, q) /\ Passed(s, p, p + 1, q)
        BY <1>1, StepIs
    <1>3. Grammar!Blank(s, 1, p - 1)
        BY <1>1 DEF IsFirst
    <1>4. p \notin Grammar!UrlValues(s)
        BY <1>1, <1>2, <1>3, FirstIsNoUrlValue
    <1>5. Grammar!Nesting(s, p + 1) = 1
        <2>1. \A k \in 1 .. (p - 1) : s[k] \notin {BeginObject, BeginArray, EndObject, EndArray}
            <3>1. \A x \in Space : x \notin {BeginObject, BeginArray, EndObject, EndArray}
                BY DEF Space, BeginObject, BeginArray, EndObject, EndArray
            <3> QED BY <1>3, <3>1 DEF Grammar!Blank
        <2>2. Grammar!Nesting(s, p) = Grammar!Nesting(s, 1)
            BY <1>2, <2>1, NestingStays
        <2> QED BY <1>2, <2>2, NestingBegins, NestingSteps
    <1>6. MaxDepth \in Nat /\ Len(st) = 0
        BY <1>1, JsonAssumption
    <1>7. Grammar!Nesting(s, q) = 1 /\ Shallow(s, q)
        BY <1>1, <1>5, <1>6, StepNests
    <1>8. Continues(s, "first", st, q)
        BY <1>1, <1>2, GoInto
    <1>9. q \notin Grammar!UrlValues(s)
        <2>1. s[(p + 1) - 1] # NameSeparator
            BY <1>2, SymbolsDiffer
        <2> QED BY <1>2, <2>1 DEF Passed
    <1>10. Place(s, q, st, url, f)
        <2>1. Seen(s, q, f)
            BY <1>1, <1>4, StepSees
        <2> QED BY <1>1, <1>2, <1>6, <1>7, <2>1 DEF Place
    <1>11. Context(s, q, "first", st, url, f) /\ Fits("first", st)
        BY <1>1, <1>9 DEF Context, Fits, Top
    <1> QED BY <1>6, <1>7, <1>8, <1>10, <1>11 DEF Within

(* ... and ends.                                                           *)
LEMMA CloseGoes ==
    ASSUME NEW s, NEW p, NEW st, st = <<>>, NEW url, NEW f,
           Within(s, p, "next", st, url, f), NEW q, Step(s, p, p + 1, q), s[p] = EndObject
    PROVE  Outside(s, q, "end", st, url, f)
    <1>1. /\ Place(s, p, st, url, f) /\ IsStack(st) /\ Continues(s, "next", st, p)
          /\ s \in Seq(Symbol) /\ Grammar!Nesting(s, p) = Len(st) + 1
          /\ url \in BOOLEAN /\ f \in String \cup {None} /\ Len(st) <= MaxDepth
        BY DEF Within, Place
    <1>2. /\ p \in 1 .. Len(s) /\ p \in Nat \ {0} /\ q \in 1 .. (Len(s) + 1)
          /\ q <= Len(s) => s[q] \notin Space
          /\ IsFirst(s, p + 1, q)
        BY <1>1, StepIs
    <1>3. p \notin Grammar!UrlValues(s)
        BY WithinIs
    <1>4. Grammar!Nesting(s, p + 1) = 0 /\ MaxDepth \in Nat
        BY <1>1, <1>2, NestingSteps, JsonAssumption
    <1>5. Shallow(s, q)
        BY <1>1, <1>4, StepNests
    <1>6. Place(s, q, st, url, f)
        <2>1. Seen(s, q, f)
            BY <1>1, <1>3, StepSees
        <2> QED BY <1>1, <1>2, <1>5, <2>1 DEF Place
    <1>7. Valid(s) <=> q = Len(s) + 1
        BY <1>1, <1>2, GoBehind
    <1> QED BY <1>6, <1>7 DEF Outside

-----------------------------------------------------------------------------
(* What makes the parser refuse a text, and what it returns otherwise.     *)
Refused(s) ==
    ~ /\ Grammar!IsRequest(s) /\ Grammar!NestedAtMost(s, MaxDepth)
      /\ \A v \in Grammar!UrlValues(s) : s[v] \notin WithNul

(* What is no JSON object is no request, ...                               *)
LEMMA InvalidIsRefused ==
    ASSUME NEW s, ~ Valid(s)
    PROVE  Refused(s)
    BY DEF Refused, Valid, Grammar!IsRequest

(* ... nor is what is nested too deeply accepted.                          *)
LEMMA DeepIsRefused ==
    ASSUME NEW s \in Seq(Symbol), NEW i \in 1 .. (Len(s) + 1),
           Grammar!Nesting(s, i) > MaxDepth + 1
    PROVE  Refused(s)
    <1>1. i \in Nat /\ MaxDepth \in Nat
        BY JsonAssumption
    <1>2. Grammar!Nesting(s, i) \in Int
        BY <1>1, NestingIs
    <1>3. ~ (Grammar!Nesting(s, i) <= MaxDepth + 1)
        BY <1>1, <1>2
    <1> QED BY <1>3 DEF Refused, Grammar!NestedAtMost

(* A value called url that is not a string, or is the second one.          *)
LEMMA OtherIsRefused ==
    ASSUME NEW s, NEW p, NEW f, Seen(s, p, f),
           NEW v \in Grammar!UrlValues(s), ~ (v < p), s[v] \notin String \/ f # None
    PROVE  Refused(s)
    <1>1. ASSUME NEW w, Grammar!UrlValues(s) = {w}, s[w] \in String PROVE FALSE
        <2>1. v = w /\ f # None
            BY <1>1
        <2> QED BY <1>1, <2>1 DEF Seen
    <1> QED BY <1>1 DEF Refused, Grammar!IsRequest

(* The parser's answer at the end of the outermost object.                 *)
LEMMA EndIsAnswered ==
    ASSUME NEW s, NEW p, NEW st, NEW url, NEW f, Outside(s, p, "end", st, url, f)
    PROVE  /\ (p = Len(s) + 1 /\ f # None /\ f \notin WithNul) <=> ~ Refused(s)
           /\ p = Len(s) + 1 => \A v \in Grammar!UrlValues(s) : f = s[v]
    <1>1. /\ s \in Seq(Symbol) /\ Len(s) \in Nat /\ Seen(s, p, f) /\ Shallow(s, p)
          /\ Valid(s) <=> p = Len(s) + 1
        BY DEF Outside, Place
    <1>2. CASE p # Len(s) + 1
        BY <1>1, <1>2, InvalidIsRefused
    <1>3. CASE p = Len(s) + 1
        <2>1. \A v \in Grammar!UrlValues(s) : v \in 1 .. Len(s)
            BY <1>1, UrlValueIs
        <2>2. \A v \in Grammar!UrlValues(s) : v < p /\ v \in DOMAIN s
            BY <1>1, <1>3, <2>1
        <2>3. Grammar!NestedAtMost(s, MaxDepth)
            BY <1>1, <1>3 DEF Shallow, Grammar!NestedAtMost
        <2>4. CASE f = None /\ Grammar!UrlValues(s) = {}
            BY <2>4 DEF Refused, Grammar!IsRequest
        <2>5. CASE f \in String /\ \E v \in Grammar!UrlValues(s) :
                                       s[v] = f /\ Grammar!UrlValues(s) = {v}
            <3>1. f # None
                BY <2>5, JsonAssumption
            <3>2. Grammar!IsRequest(s)
                BY <1>1, <1>3, <2>2, <2>5 DEF Grammar!IsRequest, Valid
            <3> QED BY <1>3, <2>3, <2>5, <3>1, <3>2 DEF Refused
        <2> QED BY <1>1, <2>2, <2>4, <2>5 DEF Seen
    <1> QED BY <1>2, <1>3

(* The symbols at which the parser gives up inside the outermost object.   *)
LEMMA WrongIsRefused ==
    ASSUME NEW s, NEW p, NEW state, NEW st, NEW url, NEW f, Within(s, p, state, st, url, f),
           Wrong(s, state, Top(st), p)
    PROVE  Refused(s)
    <1>1. /\ s \in Seq(Symbol) /\ p \in 1 .. (Len(s) + 1) /\ IsStack(st)
          /\ Continues(s, state, st, p)
        BY DEF Within, Place
    <1>2. ~ Valid(s)
        BY <1>1, StopAt
    <1> QED BY <1>2, InvalidIsRefused

(* A member url whose value is not a string, or a second member url.       *)
LEMMA UrlIsRefused ==
    ASSUME NEW s, NEW p \in 1 .. Len(s), NEW st, NEW url, NEW f,
           Within(s, p, "value", st, url, f), url, s[p] \notin String \/ f # None
    PROVE  Refused(s)
    <1>1. Place(s, p, st, url, f) /\ Context(s, p, "value", st, url, f)
        BY DEF Within
    <1>2. Len(s) \in Nat
        BY <1>1 DEF Place
    <1>3. p \in Grammar!UrlValues(s) /\ ~ (p < p)
        BY <1>1, <1>2 DEF Context
    <1>4. Seen(s, p, f)
        BY <1>1 DEF Place
    <1> QED BY <1>3, <1>4, OtherIsRefused

(* A bracket at the greatest depth.                                        *)
LEMMA EnterIsRefused ==
    ASSUME NEW s, NEW p \in 1 .. Len(s), NEW state, NEW st, NEW url, NEW f,
           Within(s, p, state, st, url, f), s[p] \in {BeginObject, BeginArray},
           Len(st) >= MaxDepth
    PROVE  Refused(s)
    <1>1. /\ s \in Seq(Symbol) /\ Len(s) \in Nat /\ IsStack(st)
          /\ Grammar!Nesting(s, p) = Len(st) + 1
        BY DEF Within, Place
    <1>2. p \in Nat \ {0} /\ Len(st) \in Nat /\ MaxDepth \in Nat
        BY <1>1, StackTop, JsonAssumption
    <1>3. Grammar!Nesting(s, p + 1) > MaxDepth + 1 /\ p + 1 \in 1 .. (Len(s) + 1)
        BY <1>1, <1>2, NestingSteps
    <1> QED BY <1>1, <1>3, DeepIsRefused

(* An empty outermost object.                                              *)
LEMMA EmptyIsRefused ==
    ASSUME NEW s, NEW p, NEW st, st = <<>>, NEW url, NEW f,
           Within(s, p, "first", st, url, f), NEW q, Step(s, p, p + 1, q), s[p] = EndObject
    PROVE  Refused(s)
    <1>1. /\ Place(s, p, st, url, f) /\ Continues(s, "first", st, p)
          /\ s \in Seq(Symbol) /\ Context(s, p, "first", st, url, f)
        BY DEF Within, Place
    <1>2. /\ p \in 1 .. Len(s) /\ IsFirst(s, p + 1, q)
        BY <1>1, StepIs
    <1>3. Valid(s) => q = Len(s) + 1
        BY <1>1, <1>2, GoBehind
    <1>4. p \notin Grammar!UrlValues(s) /\ f = None
        BY <1>1, WithinIs DEF Context
    <1>5. Seen(s, q, f)
        BY <1>1, <1>4, StepSees
    <1>6. \A v \in Grammar!UrlValues(s) : v \in 1 .. Len(s) /\ ~ (v < q)
        BY <1>1, <1>4, <1>5, UrlValueIs, JsonAssumption DEF Seen
    <1>7. q = Len(s) + 1 => Grammar!UrlValues(s) = {}
        BY <1>1, <1>6
    <1> QED BY <1>3, <1>7, InvalidIsRefused DEF Refused, Grammar!IsRequest

(* A text that does not begin with an object.                              *)
LEMMA NoObjectIsRefused ==
    ASSUME NEW s, NEW p, NEW st, NEW url, NEW f, Outside(s, p, "open", st, url, f),
           ~ (p <= Len(s) /\ s[p] = BeginObject)
    PROVE  Refused(s)
    <1>1. s \in Seq(Symbol) /\ IsFirst(s, 1, p)
        BY DEF Outside, Place
    <1> QED BY <1>1, GoInto, InvalidIsRefused

-----------------------------------------------------------------------------
(* The invariant of the parser: what it knows until it answers, and that   *)
(* the answer is the right one.                                            *)
Going ==
    \/ Within(text, pos, pc, stack, isUrl, found)
    \/ Outside(text, pos, pc, stack, isUrl, found)

Answered ==
    /\ pc = "done" /\ status \in {"INVALID", "BUFFER_TOO_SMALL", "OK"}
    /\ status = "INVALID" <=> Refused(text)
    /\ status # "INVALID" =>
          /\ \A v \in Grammar!UrlValues(text) : found = text[v]
          /\ status = "OK" <=> Length[found] < Capacity

JsonInv ==
    /\ depth = Len(stack) /\ Len(stack) <= MaxDepth
    /\ (status = "none" /\ Going) \/ Answered

(* What the parser knows until it has answered.                            *)
LEMMA GoingOn ==
    ASSUME JsonInv, pc # "done"
    PROVE  /\ status = "none" /\ depth = Len(stack)
           /\ \/ /\ pc \in {"open", "end"}
                 /\ Outside(text, pos, pc, stack, isUrl, found)
              \/ /\ pc \in {"first", "element", "key", "colon", "value", "next"}
                 /\ Within(text, pos, pc, stack, isUrl, found)
           /\ Place(text, pos, stack, isUrl, found)
           /\ text \in Seq(Symbol) /\ Len(text) \in Nat /\ pos \in 1 .. (Len(text) + 1)
           /\ isUrl \in BOOLEAN /\ IsStack(stack)
    <1>1. status = "none" /\ depth = Len(stack) /\ Going
        BY DEF JsonInv, Answered
    <1>2. CASE Within(text, pos, pc, stack, isUrl, found)
        <2>1. /\ pc \in {"first", "element", "key", "colon", "value", "next"}
              /\ Place(text, pos, stack, isUrl, found)
            BY <1>2, Zenon DEF Within, Fits
        <2> QED BY <1>1, <1>2, <2>1 DEF Place
    <1>3. CASE Outside(text, pos, pc, stack, isUrl, found)
        <2>1. pc \in {"open", "end"} /\ Place(text, pos, stack, isUrl, found)
            BY <1>3, Zenon DEF Outside
        <2> QED BY <1>1, <1>3, <2>1 DEF Place
    <1> QED BY <1>1, <1>2, <1>3 DEF Going

(* The symbol the parser is at.                                            *)
LEMMA HereIs ==
    ASSUME JsonInv, pc # "done"
    PROVE  /\ \/ pos \in 1 .. Len(text) /\ Here = text[pos]
              \/ pos = Len(text) + 1 /\ Here = "end"
           /\ Here \in String \cup Literal \cup {BeginObject, BeginArray, EndObject, EndArray,
                                                NameSeparator, ValueSeparator} =>
                pos \in 1 .. Len(text) /\ Here = text[pos]
           /\ Closing = Closer(Top(stack))
    <1>1. text \in Seq(Symbol) /\ Len(text) \in Nat /\ pos \in 1 .. (Len(text) + 1)
          /\ IsStack(stack)
        BY GoingOn
    <1>2. \/ pos \in 1 .. Len(text) /\ Here = text[pos]
          \/ pos = Len(text) + 1 /\ Here = "end"
        BY <1>1 DEF Here
    <1>3. "end" \notin String
        BY JsonAssumption
    <1>4. "end" \notin Literal \cup {BeginObject, BeginArray, EndObject, EndArray,
                                    NameSeparator, ValueSeparator}
        BY DEF Literal, BeginObject, BeginArray, EndObject, EndArray, NameSeparator, ValueSeparator
    <1>5. Closing = Closer(Top(stack))
        <2>1. Top(stack) \in {BeginArray, BeginObject}
              /\ (stack = <<>> => Top(stack) = BeginObject)
              /\ (stack # <<>> => Top(stack) = stack[Len(stack)])
            BY <1>1, StackTop DEF Top
        <2> QED BY <2>1, SymbolsDiffer DEF Closing, Closer
    <1> QED BY <1>2, <1>3, <1>4, <1>5

(* Accept is a step.                                                       *)
LEMMA StepIsTaken ==
    ASSUME JsonInv, pc # "done", pos \in 1 .. Len(text), NEW next, Accept(next)
    PROVE  Step(text, pos, pos + 1, pos') /\ pc' = next /\ text' = text /\ status' = "none"
    <1>1. status = "none" /\ Len(text) \in Nat
        BY GoingOn
    <1> QED BY <1>1 DEF Accept, Step

(* An action keeps the invariant if the parser knows its new place, ...    *)
LEMMA GoesOn ==
    ASSUME JsonInv, pc # "done", text' = text, status' = "none",
           depth' = Len(stack'),
           \/ Within(text, pos', pc', stack', isUrl', found')
           \/ Outside(text, pos', pc', stack', isUrl', found')
    PROVE  JsonInv'
    <1>1. Len(stack') <= MaxDepth
        BY DEF Within, Outside, Place
    <1> QED BY <1>1 DEF JsonInv, Going

(* ... or if it fails on a text that must be refused.                      *)
LEMMA FailIsRight ==
    ASSUME JsonInv, pc # "done", Fail, Refused(text)
    PROVE  JsonInv'
    <1>1. depth = Len(stack) /\ Len(stack) <= MaxDepth
        BY DEF JsonInv
    <1>2. /\ pc' = "done" /\ status' = "INVALID" /\ text' = text
          /\ depth' = depth /\ stack' = stack
        BY DEF Fail
    <1>3. Refused(text)'
        BY <1>2 DEF Refused
    <1> QED BY <1>1, <1>2, <1>3 DEF JsonInv, Answered

(* The outermost object is opened, or there is none.                       *)
LEMMA OpenKeeps == JsonInv /\ Open => JsonInv'
    <1> SUFFICES ASSUME JsonInv, Open PROVE JsonInv'
        OBVIOUS
    <1>1. pc = "open"
        BY DEF Open
    <1>2. Outside(text, pos, "open", stack, isUrl, found)
        BY <1>1, GoingOn
    <1>3. ASSUME Here = BeginObject, Accept("first"), UNCHANGED <<stack, depth, isUrl, found>>
          PROVE  JsonInv'
        <2>1. pos \in 1 .. Len(text) /\ text[pos] = BeginObject
            BY <1>1, <1>3, HereIs
        <2>2. Step(text, pos, pos + 1, pos') /\ pc' = "first" /\ text' = text /\ status' = "none"
            BY <1>1, <1>3, <2>1, StepIsTaken
        <2>3. Within(text, pos', "first", stack, isUrl, found)
            BY <1>2, <2>1, <2>2, OpenGoes
        <2> QED BY <1>1, <1>3, <2>2, <2>3, GoingOn, GoesOn
    <1>4. ASSUME Here # BeginObject, Fail PROVE JsonInv'
        <2>1. ~ (pos <= Len(text) /\ text[pos] = BeginObject)
            BY <1>1, <1>4, GoingOn, HereIs
        <2> QED BY <1>1, <1>2, <1>4, <2>1, NoObjectIsRefused, FailIsRight
    <1> QED BY <1>3, <1>4 DEF Open

(* A key is read, or what is there is not one.                             *)
LEMMA KeyKeeps == JsonInv /\ Key => JsonInv'
    <1> SUFFICES ASSUME JsonInv, Key PROVE JsonInv'
        OBVIOUS
    <1>1. pc \in {"first", "key"} /\ (pc = "first" => Here # EndObject) /\ pc # "done"
        BY DEF Key
    <1>2. Within(text, pos, pc, stack, isUrl, found)
        BY <1>1, GoingOn
    <1>3. ASSUME Here \in String, Accept("colon"), isUrl' = (stack = <<>> /\ Here = UrlKey),
                 UNCHANGED <<stack, depth, found>>
          PROVE  JsonInv'
        <2>1. pos \in 1 .. Len(text) /\ text[pos] = Here
            BY <1>1, <1>3, HereIs
        <2>2. Step(text, pos, pos + 1, pos') /\ pc' = "colon" /\ text' = text /\ status' = "none"
            BY <1>1, <1>3, <2>1, StepIsTaken
        <2>3. Within(text, pos', "colon", stack, stack = <<>> /\ text[pos] = UrlKey, found)
            BY <1>1, <1>2, <1>3, <2>1, <2>2, KeyGoes
        <2> QED BY <1>1, <1>3, <2>1, <2>2, <2>3, GoingOn, GoesOn
    <1>4. ASSUME Here \notin String, Fail PROVE JsonInv'
        <2>1. Wrong(text, pc, Top(stack), pos)
            BY <1>1, <1>4, HereIs DEF Wrong
        <2> QED BY <1>1, <1>2, <1>4, <2>1, WrongIsRefused, FailIsRight
    <1> QED BY <1>3, <1>4 DEF Key

(* The colon behind it.                                                    *)
LEMMA ColonKeeps == JsonInv /\ Colon => JsonInv'
    <1> SUFFICES ASSUME JsonInv, Colon PROVE JsonInv'
        OBVIOUS
    <1>1. pc = "colon" /\ pc # "done"
        BY DEF Colon
    <1>2. Within(text, pos, "colon", stack, isUrl, found)
        BY <1>1, GoingOn
    <1>3. ASSUME Here = NameSeparator, Accept("value"), UNCHANGED <<stack, depth, isUrl, found>>
          PROVE  JsonInv'
        <2>1. pos \in 1 .. Len(text) /\ text[pos] = NameSeparator
            BY <1>1, <1>3, HereIs
        <2>2. Step(text, pos, pos + 1, pos') /\ pc' = "value" /\ text' = text /\ status' = "none"
            BY <1>1, <1>3, <2>1, StepIsTaken
        <2>3. Within(text, pos', "value", stack, isUrl, found)
            BY <1>2, <2>1, <2>2, ColonGoes
        <2> QED BY <1>1, <1>3, <2>2, <2>3, GoingOn, GoesOn
    <1>4. ASSUME Here # NameSeparator, Fail PROVE JsonInv'
        <2>1. Wrong(text, "colon", Top(stack), pos)
            BY <1>1, <1>4, HereIs DEF Wrong
        <2> QED BY <1>1, <1>2, <1>4, <2>1, WrongIsRefused, FailIsRight
    <1> QED BY <1>3, <1>4 DEF Colon

(* The value of the member url: the first is kept, and a second refused.   *)
LEMMA UrlValueKeeps == JsonInv /\ UrlValue => JsonInv'
    <1> SUFFICES ASSUME JsonInv, UrlValue PROVE JsonInv'
        OBVIOUS
    <1>1. pc = "value" /\ pc # "done" /\ isUrl
        BY DEF UrlValue
    <1>2. Within(text, pos, "value", stack, isUrl, found)
        BY <1>1, GoingOn
    <1>3. ASSUME Here \in String, found = None, Accept("next"), found' = Here, isUrl' = FALSE,
                 UNCHANGED <<stack, depth>>
          PROVE  JsonInv'
        <2>1. pos \in 1 .. Len(text) /\ text[pos] = Here
            BY <1>1, <1>3, HereIs
        <2>2. Step(text, pos, pos + 1, pos') /\ pc' = "next" /\ text' = text /\ status' = "none"
            BY <1>1, <1>3, <2>1, StepIsTaken
        <2>3. Within(text, pos', "next", stack, FALSE, Here)
            BY <1>1, <1>2, <1>3, <2>1, <2>2, UrlStringGoes
        <2> QED BY <1>1, <1>3, <2>2, <2>3, GoingOn, GoesOn
    <1>4. ASSUME Here \notin String \/ found # None, Fail PROVE JsonInv'
        <2>1. CASE pos = Len(text) + 1
            <3>1. Wrong(text, "value", Top(stack), pos)
                BY <2>1 DEF Wrong
            <3> QED BY <1>1, <1>2, <1>4, <3>1, WrongIsRefused, FailIsRight
        <2>2. CASE pos # Len(text) + 1
            <3>1. pos \in 1 .. Len(text) /\ (text[pos] \notin String \/ found # None)
                BY <1>1, <1>4, <2>2, HereIs
            <3>2. Refused(text)
                BY <1>1, <1>2, <3>1, UrlIsRefused
            <3> QED BY <1>1, <1>4, <3>2, FailIsRight
        <2> QED BY <2>1, <2>2
    <1> QED BY <1>3, <1>4 DEF UrlValue

(* A number is a step over number symbols.                                 *)
LEMMA NumberIsRead ==
    ASSUME NEW s \in Seq(Symbol), NEW p \in 1 .. (Len(s) + 1), BehindNumber(s, p) # 0
    PROVE  /\ p \in 1 .. Len(s)
           /\ Step(s, p, BehindNumber(s, p), Skip(s, BehindNumber(s, p)))
    <1>1. Len(s) \in Nat /\ DOMAIN s = 1 .. Len(s)
        OBVIOUS
    <1>2. ASSUME p = Len(s) + 1 PROVE FALSE
        <2>1. p \notin DOMAIN s
            BY <1>1, <1>2
        <2>2. BehindInteger(s, p) = 0 /\ ~ Behind(s, p, {"-"})
            BY <2>1 DEF BehindInteger, BehindDigits, DigitAt, Behind
        <2> QED BY <2>2 DEF BehindNumber
    <1>3. p \in 1 .. Len(s)
        BY <1>1, <1>2
    <1>4. /\ BehindNumber(s, p) \in (p + 1) .. (Len(s) + 1)
          /\ Grammar!IsNumber(s, p, BehindNumber(s, p) - 1)
        BY <1>3, NumberFound
    <1> DEFINE b == BehindNumber(s, p) - 1
    <1>5. b \in Nat /\ p \in Nat /\ Grammar!IsNumber(s, p, b)
        BY <1>1, <1>4
    <1> HIDE DEF b
    <1>6. \A k \in p .. b : s[k] \in NumberSymbol
        BY <1>5, NumberHolds
    <1> QED BY <1>3, <1>4, <1>6 DEF Step, b

(* Another value: a string, a literal, a number, or nothing of that.       *)
LEMMA ScalarKeeps == JsonInv /\ Scalar => JsonInv'
    <1> SUFFICES ASSUME JsonInv, Scalar PROVE JsonInv'
        OBVIOUS
    <1>1. /\ pc \in {"value", "element"} /\ pc # "done"
          /\ Here \notin {BeginObject, BeginArray} /\ ~ (pc = "element" /\ Here = EndArray)
          /\ UNCHANGED <<stack, depth, isUrl, found>>
          /\ pc = "value" => ~ isUrl
        BY DEF Scalar
    <1>2. /\ Within(text, pos, pc, stack, isUrl, found) /\ text \in Seq(Symbol)
          /\ Len(text) \in Nat /\ pos \in 1 .. (Len(text) + 1)
          /\ depth = Len(stack) /\ status = "none"
        BY <1>1, GoingOn
    <1>3. ~ isUrl
        BY <1>1, <1>2, WithinIs
    <1>4. ASSUME Here \in String \cup Literal, Accept("next") PROVE JsonInv'
        <2> DEFINE r == pos + 1
        <2>1. pos \in 1 .. Len(text) /\ text[pos] = Here
            BY <1>1, <1>4, HereIs
        <2>2. Step(text, pos, r, pos') /\ pc' = "next" /\ text' = text /\ status' = "none"
            BY <1>1, <1>4, <2>1, StepIsTaken
        <2>3. r = pos + 1
            OBVIOUS
        <2> HIDE DEF r
        <2>4. Within(text, pos', "next", stack, isUrl, found)
            BY <1>1, <1>2, <1>3, <1>4, <2>1, <2>2, <2>3, OtherScalarGoes
        <2> QED BY <1>1, <1>2, <2>2, <2>4, GoesOn
    <1>5. ASSUME Here \notin String \cup Literal, BehindNumber(text, pos) # 0,
                 pos' = Skip(text, BehindNumber(text, pos)), pc' = "next",
                 UNCHANGED <<text, status>>
          PROVE  JsonInv'
        <2> DEFINE r == BehindNumber(text, pos)
        <2>1. pos \in 1 .. Len(text) /\ Step(text, pos, r, pos')
            BY <1>2, <1>5, NumberIsRead
        <2>2. text[pos] = Here
            BY <1>1, <1>2, <2>1, HereIs
        <2>3. r = BehindNumber(text, pos)
            OBVIOUS
        <2> HIDE DEF r
        <2>4. Within(text, pos', "next", stack, isUrl, found)
            BY <1>1, <1>2, <1>3, <1>5, <2>1, <2>2, <2>3, OtherScalarGoes
        <2> QED BY <1>1, <1>2, <1>5, <2>4, GoesOn
    <1>6. ASSUME Here \notin String \cup Literal, BehindNumber(text, pos) = 0,
                 pc' = "done", status' = "INVALID", UNCHANGED <<text, pos>>
          PROVE  JsonInv'
        <2>1. Wrong(text, pc, Top(stack), pos)
            BY <1>1, <1>6, HereIs DEF Wrong
        <2>2. Fail
            BY <1>1, <1>6 DEF Fail
        <2> QED BY <1>1, <1>2, <2>1, <2>2, WrongIsRefused, FailIsRight
    <1> QED BY <1>4, <1>5, <1>6 DEF Scalar

(* A nested array or object is entered, or refused for its depth.          *)
LEMMA EnterKeeps == JsonInv /\ Enter => JsonInv'
    <1> SUFFICES ASSUME JsonInv, Enter PROVE JsonInv'
        OBVIOUS
    <1>1. /\ pc \in {"value", "element"} /\ pc # "done" /\ Here \in {BeginObject, BeginArray}
          /\ pc = "value" => ~ isUrl
        BY DEF Enter
    <1>2. /\ Within(text, pos, pc, stack, isUrl, found) /\ IsStack(stack)
          /\ depth = Len(stack)
        BY <1>1, GoingOn
    <1>3. ~ isUrl
        BY <1>1, <1>2, WithinIs
    <1>4. pos \in 1 .. Len(text) /\ text[pos] = Here
        BY <1>1, HereIs
    <1>5. ASSUME depth < MaxDepth, Accept(IF Here = BeginObject THEN "first" ELSE "element"),
                 stack' = Append(stack, Here), depth' = depth + 1, UNCHANGED <<isUrl, found>>
          PROVE  JsonInv'
        <2>1. /\ Step(text, pos, pos + 1, pos') /\ pc' = Inside(Here)
              /\ text' = text /\ status' = "none"
            BY <1>1, <1>4, <1>5, StepIsTaken DEF Inside
        <2>2. Within(text, pos', Inside(text[pos]), Append(stack, text[pos]), isUrl, found)
            BY <1>1, <1>2, <1>3, <1>4, <1>5, <2>1, EnterGoes
        <2>3. depth' = Len(stack')
            BY <1>2, <1>5 DEF IsStack
        <2> QED BY <1>1, <1>4, <1>5, <2>1, <2>2, <2>3, GoesOn
    <1>6. ASSUME depth >= MaxDepth, Fail PROVE JsonInv'
        <2>1. Refused(text)
            BY <1>1, <1>2, <1>4, <1>6, EnterIsRefused
        <2> QED BY <1>1, <1>6, <2>1, FailIsRight
    <1> QED BY <1>5, <1>6 DEF Enter

(* A nested array or object is left.                                       *)
LEMMA LeaveKeeps == JsonInv /\ Leave => JsonInv'
    <1> SUFFICES ASSUME JsonInv, Leave PROVE JsonInv'
        OBVIOUS
    <1>1. /\ stack # <<>> /\ pc \in {"next", "first", "element"} /\ pc # "done"
          /\ Here \in {EndObject, EndArray, Closing}
          /\ Accept("next") /\ stack' = SubSeq(stack, 1, Len(stack) - 1)
          /\ depth' = depth - 1 /\ UNCHANGED <<isUrl, found>>
        BY DEF Leave
    <1>2. /\ Within(text, pos, pc, stack, isUrl, found) /\ IsStack(stack)
          /\ depth = Len(stack)
        BY <1>1, GoingOn
    <1>3. /\ Closing = Closer(Top(stack)) /\ Closing \in {EndObject, EndArray}
          /\ Top(stack) \in {BeginArray, BeginObject}
        BY <1>1, <1>2, HereIs, StackTop DEF Closer
    <1>4. /\ pc = "first" => Top(stack) = BeginObject /\ Here = EndObject
          /\ pc = "element" => Top(stack) = BeginArray /\ Here = EndArray
          /\ pc = "next" => Here = Closing
        BY <1>2 DEF Leave, Within, Fits
    <1>5. Here = Closer(Top(stack)) /\ pc \in {"next", Inside(Top(stack))}
        BY <1>1, <1>3, <1>4, SymbolsDiffer DEF Closer, Inside
    <1>6. pos \in 1 .. Len(text) /\ text[pos] = Here
        BY <1>1, <1>3, HereIs
    <1>7. Step(text, pos, pos + 1, pos') /\ pc' = "next" /\ text' = text /\ status' = "none"
        BY <1>1, <1>6, StepIsTaken
    <1>8. Within(text, pos', "next", SubSeq(stack, 1, Len(stack) - 1), isUrl, found)
        BY <1>1, <1>2, <1>5, <1>6, <1>7, LeaveGoes
    <1>9. depth' = Len(stack')
        <2>1. IsStack(stack')  /\ Len(stack') = Len(stack) - 1
            BY <1>1, <1>2, PopIs
        <2> QED BY <1>1, <1>2, <2>1
    <1> QED BY <1>1, <1>7, <1>8, <1>9, GoesOn

(* A comma, or what may not follow a value.                                *)
LEMMA CommaKeeps == JsonInv /\ Comma => JsonInv'
    <1> SUFFICES ASSUME JsonInv, Comma PROVE JsonInv'
        OBVIOUS
    <1>1. pc = "next" /\ pc # "done" /\ Here # Closing
        BY DEF Comma
    <1>2. Within(text, pos, "next", stack, isUrl, found) /\ IsStack(stack)
        BY <1>1, GoingOn
    <1>3. Closing = Closer(Top(stack)) /\ Top(stack) \in {BeginArray, BeginObject}
        BY <1>1, <1>2, HereIs, StackTop
    <1>4. ASSUME Here = ValueSeparator,
                 Accept(IF Closing = EndObject THEN "key" ELSE "value"),
                 UNCHANGED <<stack, depth, isUrl, found>>
          PROVE  JsonInv'
        <2> DEFINE after == IF Top(stack) = BeginArray THEN "value" ELSE "key"
        <2>1. pos \in 1 .. Len(text) /\ text[pos] = ValueSeparator
            BY <1>1, <1>4, HereIs
        <2>2. after = IF Closing = EndObject THEN "key" ELSE "value"
            BY <1>3, SymbolsDiffer DEF Closer
        <2>3. Step(text, pos, pos + 1, pos') /\ pc' = after /\ text' = text /\ status' = "none"
            BY <1>1, <1>4, <2>1, <2>2, StepIsTaken
        <2>4. Within(text, pos', after, stack, isUrl, found)
            BY <1>2, <2>1, <2>3, CommaGoes
        <2> HIDE DEF after
        <2> QED BY <1>1, <1>4, <2>3, <2>4, GoesOn, GoingOn
    <1>5. ASSUME Here # ValueSeparator, Fail PROVE JsonInv'
        <2>1. Wrong(text, "next", Top(stack), pos)
            BY <1>1, <1>3, <1>5, HereIs DEF Wrong
        <2> QED BY <1>1, <1>2, <1>5, <2>1, WrongIsRefused, FailIsRight
    <1> QED BY <1>4, <1>5 DEF Comma

(* The outermost object is closed, or refused because it is empty.         *)
LEMMA CloseKeeps == JsonInv /\ Close => JsonInv'
    <1> SUFFICES ASSUME JsonInv, Close PROVE JsonInv'
        OBVIOUS
    <1>1. stack = <<>> /\ pc \in {"first", "next"} /\ pc # "done" /\ Here = EndObject
        BY DEF Close
    <1>2. /\ Within(text, pos, pc, stack, isUrl, found) /\ text \in Seq(Symbol)
          /\ depth = Len(stack) /\ Len(text) \in Nat
        BY <1>1, GoingOn
    <1>3. pos \in 1 .. Len(text) /\ text[pos] = EndObject
        BY <1>1, HereIs
    <1>4. ASSUME pc = "next", Accept("end"), UNCHANGED <<stack, depth, isUrl, found>>
          PROVE  JsonInv'
        <2>1. Step(text, pos, pos + 1, pos') /\ pc' = "end" /\ text' = text /\ status' = "none"
            BY <1>1, <1>3, <1>4, StepIsTaken
        <2>2. Outside(text, pos', "end", stack, isUrl, found)
            BY <1>1, <1>2, <1>3, <1>4, <2>1, CloseGoes
        <2> QED BY <1>1, <1>2, <1>4, <2>1, <2>2, GoesOn
    <1>5. ASSUME pc = "first", Fail PROVE JsonInv'
        <2>1. Step(text, pos, pos + 1, Skip(text, pos + 1))
            BY <1>2, <1>3 DEF Step
        <2>2. Refused(text)
            BY <1>1, <1>2, <1>3, <1>5, <2>1, EmptyIsRefused
        <2> QED BY <1>1, <1>5, <2>2, FailIsRight
    <1> QED BY <1>4, <1>5 DEF Close

(* The checks at the end give the answer the specification asks for.       *)
LEMMA FinishKeeps == JsonInv /\ Finish => JsonInv'
    <1> SUFFICES ASSUME JsonInv, Finish PROVE JsonInv'
        OBVIOUS
    <1>1. /\ pc = "end" /\ pc # "done" /\ pc' = "done"
          /\ UNCHANGED <<text, pos, stack, depth, isUrl, found>>
          /\ status' = IF pos # Len(text) + 1 \/ found = None \/ found \in WithNul
                       THEN "INVALID"
                       ELSE IF Length[found] >= Capacity THEN "BUFFER_TOO_SMALL"
                       ELSE "OK"
        BY DEF Finish
    <1>2. /\ Outside(text, pos, "end", stack, isUrl, found)
          /\ depth = Len(stack) /\ Len(stack) <= MaxDepth
        BY <1>1, GoingOn DEF JsonInv
    <1>3. /\ (pos = Len(text) + 1 /\ found # None /\ found \notin WithNul) <=> ~ Refused(text)
          /\ pos = Len(text) + 1 => \A v \in Grammar!UrlValues(text) : found = text[v]
          /\ found \in String \cup {None}
        BY <1>2, EndIsAnswered DEF Outside, Place
    <1>4. status' = "INVALID" <=> Refused(text)
        BY <1>1, <1>3
    <1>5. status' # "INVALID" =>
              /\ \A v \in Grammar!UrlValues(text) : found = text[v]
              /\ status' = "OK" <=> Length[found] < Capacity
        <2>1. found \in String => Length[found] \in Nat
            BY JsonAssumption
        <2> QED BY <1>1, <1>3, <2>1, JsonAssumption
    <1>6. Refused(text)' <=> Refused(text)
        BY <1>1 DEF Refused
    <1>7. status' \in {"INVALID", "BUFFER_TOO_SMALL", "OK"} /\ depth' = Len(stack') /\ Len(stack') <= MaxDepth
        BY <1>1, <1>2
    <1>8. Answered'
        BY <1>1, <1>4, <1>5, <1>6, <1>7 DEF Answered
    <1> QED BY <1>7, <1>8 DEF JsonInv

(* The invariant holds when the parser begins.                             *)
LEMMA JsonBegins == Init => JsonInv
    <1> SUFFICES ASSUME Init PROVE JsonInv
        OBVIOUS
    <1>1. /\ text \in Seq(Symbol) /\ pos = Skip(text, 1) /\ pc = "open" /\ stack = <<>>
          /\ depth = 0 /\ isUrl = FALSE /\ found = None /\ status = "none"
        BY JsonAssumption DEF Init
    <1>2. Len(text) \in Nat /\ 1 \in 1 .. (Len(text) + 1)
        BY <1>1
    <1>3. IsFirst(text, 1, pos)
        BY <1>1, <1>2, SkipIs
    <1>4. /\ pos \in 1 .. (Len(text) + 1) /\ pos \in Nat /\ Grammar!Blank(text, 1, pos - 1)
          /\ pos <= Len(text) => text[pos] \notin Space
        BY <1>2, <1>3 DEF IsFirst
    <1>5. Seen(text, pos, found)
        <2>1. \A v \in Grammar!UrlValues(text) : ~ (v <= pos)
            BY <1>1, <1>4, FirstIsNoUrlValue
        <2>2. \A v \in Grammar!UrlValues(text) : v \in Nat
            BY <1>1, UrlValueIs
        <2> QED BY <1>1, <1>4, <2>1, <2>2 DEF Seen
    <1>6. MaxDepth \in Nat
        BY JsonAssumption
    <1>7. Shallow(text, pos)
        <2>1. ASSUME NEW i \in 1 .. pos PROVE Grammar!Nesting(text, i) <= MaxDepth + 1
            <3>1. \A x \in Space : x \notin {BeginObject, BeginArray, EndObject, EndArray}
                BY DEF Space, BeginObject, BeginArray, EndObject, EndArray
            <3>2. \A k \in 1 .. (i - 1) :
                    text[k] \notin {BeginObject, BeginArray, EndObject, EndArray}
                BY <1>4, <3>1 DEF Grammar!Blank
            <3>3. i \in Nat /\ 1 <= i
                BY <1>4
            <3>4. Grammar!Nesting(text, i) = 0
                BY <3>2, <3>3, NestingStays, NestingBegins
            <3> QED BY <1>6, <3>4
        <2> QED BY <2>1 DEF Shallow
    <1>8. Place(text, pos, stack, isUrl, found)
        <2>1. IsStack(<<>>) /\ Len(<<>>) = 0
            BY DEF IsStack
        <2>2. isUrl \in BOOLEAN
            BY <1>1, Zenon
        <2> QED BY <1>1, <1>4, <1>5, <1>6, <1>7, <2>1, <2>2 DEF Place
    <1>9. Outside(text, pos, pc, stack, isUrl, found)
        BY <1>1, <1>3, <1>8 DEF Outside
    <1>10. Len(stack) = 0
        BY <1>1
    <1> QED BY <1>1, <1>6, <1>9, <1>10 DEF JsonInv, Going

(* Every action preserves the invariant.                                   *)
LEMMA JsonInvariance == JsonInv /\ [Next]_vars => JsonInv'
    <1>1. ASSUME JsonInv, UNCHANGED vars PROVE JsonInv'
        BY <1>1 DEF vars, JsonInv, Going, Answered, Within, Outside
    <1> QED BY <1>1, OpenKeeps, KeyKeeps, ColonKeeps, UrlValueKeeps, ScalarKeeps, EnterKeeps,
               LeaveKeeps, CommaKeeps, CloseKeeps, FinishKeeps DEF Next

(* What the invariant says of the answer, ...                              *)
LEMMA InvariantAnswers == JsonInv => AcceptsRequests
    <1>1. status # "none" /\ JsonInv => Answered
        BY DEF JsonInv
    <1> QED BY <1>1 DEF Answered, Refused, AcceptsRequests

(* ... and of the recursion.                                               *)
LEMMA InvariantBounds == JsonInv => RecursionIsBounded
    <1>1. ASSUME JsonInv, pc = "end" PROVE stack = <<>>
        BY <1>1, GoingOn DEF Outside
    <1> QED BY <1>1 DEF JsonInv, RecursionIsBounded

(* For every body and every limit: http_parse_url_json accepts exactly the *)
(* bodies of the specification that are not nested too deeply, wherever    *)
(* the white space is, and returns the value of the one member url of the  *)
(* outermost object (AcceptsRequests).                                     *)
THEOREM RequestsAreAccepted == Spec => []AcceptsRequests
    <1> QED BY JsonBegins, JsonInvariance, InvariantAnswers, PTL DEF Spec

(* The C stack of the parser is bounded (RecursionIsBounded).              *)
THEOREM StackIsBounded == Spec => []RecursionIsBounded
    <1> QED BY JsonBegins, JsonInvariance, InvariantBounds, PTL DEF Spec
=============================================================================
