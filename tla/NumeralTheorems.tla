-------------------------- MODULE NumeralTheorems ---------------------------
(***************************************************************************)
(* Induction over the natural numbers, stated for sets, and what it shows  *)
(* of recursive functions: that there are functions which satisfy their    *)
(* recurrence, and that the two of ShortCodes.tla, the code of a number    *)
(* and the value of a text, are inverse to each other.  Everything rests   *)
(* on the least number of a set.                                           *)
(***************************************************************************)
EXTENDS Integers, Sequences, SequenceTheorems, WellFoundedInduction, TLAPS

(* A set of natural numbers has a least element.                           *)
LEMMA LeastNumber ==
    ASSUME NEW T, T \subseteq Nat, T # {}
    PROVE  \E x \in T : \A y \in T : x <= y
    <1> DEFINE R == OpToRel(<, Nat)
    <1>1. IsWellFoundedOn(R, Nat)
        BY NatLessThanWellFounded
    <1>2. \A y, x \in Nat : y < x => <<y, x>> \in R
        BY DEF OpToRel
    <1> HIDE DEF R
    <1>3. PICK x \in T : \A y \in T : ~ (<<y, x>> \in R)
        BY <1>1, WFMin
    <1>4. \A y \in T : ~ (y < x)
        BY <1>2, <1>3
    <1> QED BY <1>3, <1>4

(* Induction from all smaller numbers.                                     *)
LEMMA StrongInduction ==
    ASSUME NEW S, ASSUME NEW n \in Nat, \A m \in 0 .. (n - 1) : m \in S
                  PROVE  n \in S
    PROVE  \A n \in Nat : n \in S
    <1> DEFINE T == Nat \ S
    <1> SUFFICES ASSUME T # {} PROVE FALSE
        OBVIOUS
    <1>1. PICK x \in T : \A y \in T : x <= y
        <2>1. T \subseteq Nat
            OBVIOUS
        <2> HIDE DEF T
        <2> QED BY <2>1, LeastNumber
    <1>2. x \in Nat /\ \A m \in 0 .. (x - 1) : m \in S
        BY <1>1
    <1> QED BY <1>1, <1>2

(* Induction from the number before.                                       *)
LEMMA Induction ==
    ASSUME NEW S, 0 \in S, \A n \in Nat : n \in S => n + 1 \in S
    PROVE  \A n \in Nat : n \in S
    <1>1. ASSUME NEW n \in Nat, \A m \in 0 .. (n - 1) : m \in S
          PROVE  n \in S
        <2>1. CASE n = 0
            BY <2>1
        <2>2. CASE n # 0
            <3>1. n - 1 \in Nat /\ n - 1 \in 0 .. (n - 1) /\ (n - 1) + 1 = n
                BY <2>2
            <3> QED BY <1>1, <3>1
        <2> QED BY <2>1, <2>2
    <1> QED BY <1>1, StrongInduction

(* Induction downwards, from all larger numbers of an interval.            *)
LEMMA DownwardInduction ==
    ASSUME NEW a \in Nat, NEW b \in Nat, NEW S,
           ASSUME NEW i \in a .. b, \A j \in (i + 1) .. b : j \in S
           PROVE  i \in S
    PROVE  \A i \in a .. b : i \in S
    <1> DEFINE T == {n \in Nat : \A i \in a .. b : i = b - n => i \in S}
    <1>1. ASSUME NEW n \in Nat, \A m \in 0 .. (n - 1) : m \in T
          PROVE  n \in T
        <2> SUFFICES ASSUME NEW i \in a .. b, i = b - n PROVE i \in S
            OBVIOUS
        <2>1. ASSUME NEW j \in (i + 1) .. b PROVE j \in S
            <3>1. b - j \in 0 .. (n - 1) /\ j \in a .. b /\ j = b - (b - j)
                OBVIOUS
            <3> QED BY <1>1, <3>1
        <2> QED BY <2>1
    <1> HIDE DEF T
    <1>2. \A n \in Nat : n \in T
        BY <1>1, StrongInduction
    <1>3. ASSUME NEW i \in a .. b PROVE i \in S
        <2>1. b - i \in Nat /\ i = b - (b - i)
            OBVIOUS
        <2> QED BY <1>2, <2>1 DEF T
    <1> QED BY <1>3

(* A function on 0 .. n by recursion, each value from the one before.      *)
IsStep(step, S) == step \in [Nat -> [S -> S]]
IsIterated(f, n, S, start, step) ==
    /\ f \in [0 .. n -> S] /\ f[0] = start
    /\ \A k \in 1 .. n : f[k] = step[k][f[k - 1]]

LEMMA Recursion ==
    ASSUME NEW S, NEW start \in S, NEW step, IsStep(step, S), NEW n \in Nat
    PROVE  \E f : IsIterated(f, n, S, start, step)
    <1> USE DEF IsStep
    <1> DEFINE Is(f, m) == /\ f \in [0 .. m -> S] /\ f[0] = start
                           /\ \A k \in 1 .. m : f[k] = step[k][f[k - 1]]
               T == {m \in Nat : \E f : Is(f, m)}
    <1>1. 0 \in T
        <2>1. Is([k \in 0 .. 0 |-> start], 0)
            OBVIOUS
        <2> QED BY <2>1
    <1>2. ASSUME NEW m \in Nat, m \in T PROVE m + 1 \in T
        <2>1. PICK f : Is(f, m)
            BY <1>2
        <2> DEFINE g == [k \in 0 .. (m + 1) |-> IF k = m + 1 THEN step[m + 1][f[m]]
                                                ELSE f[k]]
        <2>2. step[m + 1][f[m]] \in S /\ m \in 0 .. m
            BY <2>1
        <2>3. \A k \in 0 .. m : g[k] = f[k] /\ f[k] \in S
            BY <2>1
        <2>4. g[m + 1] = step[m + 1][f[m]] /\ g \in [0 .. (m + 1) -> S]
            <3>1. g[m + 1] = step[m + 1][f[m]]
                OBVIOUS
            <3>2. \A k \in 0 .. (m + 1) : k = m + 1 \/ k \in 0 .. m
                OBVIOUS
            <3>3. \A k \in 0 .. (m + 1) : g[k] \in S
                BY <2>2, <2>3, <3>1, <3>2
            <3> QED BY <3>1, <3>3
        <2>5. ASSUME NEW k \in 1 .. (m + 1) PROVE g[k] = step[k][g[k - 1]]
            <3>1. CASE k = m + 1
                BY <2>2, <2>3, <2>4, <3>1
            <3>2. CASE k # m + 1
                <4>1. k \in 1 .. m /\ k \in 0 .. m /\ k - 1 \in 0 .. m
                    BY <3>2
                <4> HIDE DEF g
                <4> QED BY <2>1, <2>3, <4>1
            <3> QED BY <3>1, <3>2
        <2>6. g[0] = start
            BY <2>1, <2>3
        <2> HIDE DEF g
        <2>7. Is(g, m + 1)
            BY <2>4, <2>5, <2>6
        <2> HIDE DEF Is
        <2> QED BY <2>7
    <1> HIDE DEF T
    <1>3. n \in T
        BY <1>1, <1>2, Induction
    <1> QED BY <1>3 DEF T, IsIterated

(* A chain of sequences: every link is its head, and behind it what the    *)
(* next link is, unless there is none.                                     *)
Link(head, next, f, i) == IF next[i] = 0 THEN head[i] ELSE head[i] \o f[next[i]]
IsChain(f, b, head, next) == f = [i \in 1 .. b |-> Link(head, next, f, i)]

AreLinks(b, S, head, next) ==
    /\ head \in [1 .. b -> Seq(S)]
    /\ \A i \in 1 .. b : next[i] = 0 \/ next[i] \in (i + 1) .. b

(* A link whose next one is a sequence is one.                             *)
LEMMA LinkIsSeq ==
    ASSUME NEW b \in Nat, NEW S, NEW head, NEW next, AreLinks(b, S, head, next),
           NEW f, NEW i \in 1 .. b, \A j \in (i + 1) .. b : f[j] \in Seq(S)
    PROVE  Link(head, next, f, i) \in Seq(S)
    <1>1. head[i] \in Seq(S)
        BY DEF AreLinks
    <1>2. CASE next[i] = 0
        BY <1>1, <1>2 DEF Link
    <1>3. CASE next[i] # 0
        <2>1. f[next[i]] \in Seq(S)
            BY <1>3 DEF AreLinks
        <2> QED BY <1>1, <1>3, <2>1 DEF Link
    <1> QED BY <1>2, <1>3

(* Chains that lead upwards exist.                                         *)
LEMMA ChainExists ==
    ASSUME NEW b \in Nat, NEW S, NEW head, NEW next, AreLinks(b, S, head, next)
    PROVE  \E f : IsChain(f, b, head, next)
    <1> DEFINE Is(f, m) == /\ f \in [1 .. b -> Seq(S)]
                           /\ \A i \in 1 .. b : i > b - m => f[i] = Link(head, next, f, i)
               T == {m \in Nat : \E f : Is(f, m)}
    <1>1. 0 \in T
        <2>1. Is(head, 0)
            BY DEF AreLinks
        <2> HIDE DEF Is
        <2> QED BY <2>1
    <1>2. ASSUME NEW m \in Nat, m \in T PROVE m + 1 \in T
        <2> SUFFICES \E f : Is(f, m + 1)
            <3> HIDE DEF Is
            <3> QED OBVIOUS
        <2>1. PICK f : Is(f, m)
            BY <1>2
        <2>2. CASE b - m \notin 1 .. b
            <3>1. \A i \in 1 .. b : i > b - (m + 1) => i > b - m
                BY <2>2
            <3>2. Is(f, m + 1)
                BY <2>1, <3>1
            <3> QED BY <3>2
        <2>3. CASE b - m \in 1 .. b
            <3> DEFINE k == b - m
                       g == [f EXCEPT ![k] = Link(head, next, f, k)]
            <3>1. k \in 1 .. b /\ f \in [1 .. b -> Seq(S)]
                BY <2>1, <2>3
            <3>2. Link(head, next, f, k) \in Seq(S)
                <4>1. \A j \in (k + 1) .. b : f[j] \in Seq(S)
                    BY <3>1
                <4> HIDE DEF k
                <4> QED BY <3>1, <4>1, LinkIsSeq
            <3>3. /\ g \in [1 .. b -> Seq(S)] /\ g[k] = Link(head, next, f, k)
                  /\ \A i \in 1 .. b : i # k => g[i] = f[i]
                BY <3>1, <3>2
            <3> HIDE DEF g
            <3>4. ASSUME NEW i \in 1 .. b, i > b - (m + 1)
                  PROVE  g[i] = Link(head, next, g, i)
                <4>1. Link(head, next, f, i) = Link(head, next, g, i)
                    <5>1. CASE next[i] = 0
                        BY <5>1 DEF Link
                    <5>2. CASE next[i] # 0
                        <6>1. next[i] \in (i + 1) .. b
                            BY <5>2 DEF AreLinks
                        <6>2. next[i] \in 1 .. b /\ next[i] # k
                            BY <3>4, <6>1
                        <6>3. g[next[i]] = f[next[i]]
                            BY <3>3, <6>2
                        <6> QED BY <5>2, <6>3 DEF Link
                    <5> QED BY <5>1, <5>2
                <4>2. i = k \/ i > b - m
                    BY <3>4
                <4>3. CASE i = k
                    BY <3>3, <4>1, <4>3
                <4>4. CASE i # k /\ i > b - m
                    <5>1. f[i] = Link(head, next, f, i)
                        BY <2>1, <4>4
                    <5> QED BY <3>3, <4>1, <4>4, <5>1
                <4> QED BY <4>2, <4>3, <4>4
            <3>5. Is(g, m + 1)
                BY <3>3, <3>4
            <3> QED BY <3>5
        <2> QED BY <2>2, <2>3
    <1> HIDE DEF T
    <1>3. b \in T
        BY <1>1, <1>2, Induction
    <1>4. PICK f : Is(f, b)
        BY <1>3 DEF T
    <1>5. \A i \in 1 .. b : i > b - b
        OBVIOUS
    <1>6. \A i \in 1 .. b : f[i] = Link(head, next, f, i)
        BY <1>4, <1>5
    <1>7. IsChain(f, b, head, next)
        BY <1>4, <1>6 DEF IsChain
    <1> QED BY <1>7

(* And consist of sequences.                                               *)
LEMMA ChainIsSeqs ==
    ASSUME NEW b \in Nat, NEW S, NEW head, NEW next, AreLinks(b, S, head, next),
           NEW f, IsChain(f, b, head, next)
    PROVE  f \in [1 .. b -> Seq(S)]
    <1> DEFINE T == {i \in 1 .. b : f[i] \in Seq(S)}
    <1>1. \A i \in 1 .. b : f[i] = Link(head, next, f, i)
        BY DEF IsChain
    <1>2. ASSUME NEW i \in 1 .. b, \A j \in (i + 1) .. b : j \in T
          PROVE  i \in T
        <2>1. \A j \in (i + 1) .. b : f[j] \in Seq(S)
            BY <1>2
        <2> QED BY <1>1, <2>1, LinkIsSeq
    <1> HIDE DEF T
    <1>3. 1 \in Nat
        OBVIOUS
    <1>4. \A i \in 1 .. b : i \in T
        BY <1>2, <1>3, DownwardInduction
    <1>5. \A i \in 1 .. b : f[i] \in Seq(S)
        BY <1>4 DEF T
    <1>6. f = [i \in 1 .. b |-> f[i]]
        BY DEF IsChain
    <1> QED BY <1>5, <1>6

-----------------------------------------------------------------------------
(* A positional numeral system with base B and digits in the alphabet A.   *)
IsSystem(B, A) ==
    /\ B \in Nat \ {0, 1}
    /\ \A d, e \in 0 .. (B - 1) : A[d] = A[e] => d = e

CharsOf(B, A) == {A[d] : d \in 0 .. (B - 1)}
DigitIn(c, B, A) == CHOOSE d \in 0 .. (B - 1) : A[d] = c

(* The recurrence of the code of a number.                                 *)
CodeStep(f, v, B, A) ==
    IF v < B THEN <<A[v]>> ELSE Append(f[v \div B], A[v % B])
IsCoding(f, B, A) == f = [v \in Nat |-> CodeStep(f, v, B, A)]

(* The recurrence of the values of the prefixes of a text, and the value   *)
(* of the text.                                                            *)
IsPrefixes(p, t, B, A) ==
    /\ p \in [0 .. Len(t) -> Nat] /\ p[0] = 0
    /\ \A n \in 1 .. Len(t) : p[n] = p[n - 1] * B + DigitIn(t[n], B, A)
Denotes(t, v, B, A) == \E p : IsPrefixes(p, t, B, A) /\ v = p[Len(t)]

(* A digit is determined by its character.                                 *)
LEMMA DigitOfChar ==
    ASSUME NEW B, NEW A, IsSystem(B, A), NEW c \in CharsOf(B, A)
    PROVE  DigitIn(c, B, A) \in 0 .. (B - 1) /\ A[DigitIn(c, B, A)] = c
    BY DEF CharsOf, DigitIn

(* And the character by the digit.                                         *)
LEMMA CharOfDigit ==
    ASSUME NEW B, NEW A, IsSystem(B, A), NEW d \in 0 .. (B - 1)
    PROVE  A[d] \in CharsOf(B, A) /\ DigitIn(A[d], B, A) = d
    BY DEF CharsOf, DigitIn, IsSystem

(* Division and remainder of natural numbers.                              *)
LEMMA DivMod ==
    ASSUME NEW a \in Nat, NEW b \in Nat \ {0}
    PROVE  /\ a % b \in 0 .. (b - 1)
           /\ a \div b \in Nat
           /\ a = b * (a \div b) + (a % b)
    OBVIOUS

(* A quotient and a remainder are determined by their sum.                 *)
LEMMA DivUnique ==
    ASSUME NEW q \in Nat, NEW r \in Nat, NEW b \in Nat \ {0}, r < b
    PROVE  (q * b + r) \div b = q /\ (q * b + r) % b = r
    OBVIOUS

(* A number of several digits has a smaller quotient, which is not zero.   *)
LEMMA Quotient ==
    ASSUME NEW B \in Nat \ {0, 1}, NEW v \in Nat
    PROVE  /\ v \div B \in Nat /\ v % B \in 0 .. (B - 1)
           /\ v = (v \div B) * B + (v % B)
           /\ v >= B => v \div B # 0 /\ v \div B < v
           /\ v < B => v \div B = 0 /\ v % B = v
    <1>1. /\ v \div B \in Nat /\ v % B \in 0 .. (B - 1)
          /\ v = B * (v \div B) + (v % B)
        BY DivMod
    <1> DEFINE q == v \div B
               r == v % B
    <1>2. q \in Nat /\ r \in 0 .. (B - 1) /\ v = B * q + r
        BY <1>1
    <1>3. v < B => q = 0 /\ r = v
        OBVIOUS
    <1>4. /\ v \div B = q /\ v % B = r
        OBVIOUS
    <1> HIDE DEF q, r
    <1>5. B * q = q * B /\ B * q \in Nat
        BY <1>2
    <1>6. v >= B => q # 0
        BY <1>2
    <1>7. v >= B => q < v
        <2>1. PICK c \in Nat : B = c + 2
            <3>1. B - 2 \in Nat /\ B = (B - 2) + 2
                OBVIOUS
            <3> QED BY <3>1
        <2>2. B * q = c * q + 2 * q /\ c * q \in Nat
            BY <1>2, <2>1
        <2> QED BY <1>2, <1>5, <1>6, <2>2
    <1> QED BY <1>2, <1>3, <1>5, <1>6, <1>7, <1>4

(* Multiplication keeps the order.                                         *)
LEMMA ValueGrows ==
    ASSUME NEW a \in Nat, NEW b \in Nat \ {0}, NEW d \in Nat
    PROVE  a * b + d \in Nat /\ a <= a * b + d
    <1>1. PICK c \in Nat : b = c + 1
        <2>1. b - 1 \in Nat /\ b = (b - 1) + 1
            OBVIOUS
        <2> QED BY <2>1
    <1>2. a * b = a * c + a /\ a * c \in Nat
        BY <1>1
    <1> QED BY <1>2

-----------------------------------------------------------------------------
(* The first n values of the code, by its recurrence.                      *)
CodesUpTo(g, n, B, A) ==
    /\ g = [v \in 0 .. n |-> g[v]]
    /\ \A v \in 0 .. n : g[v] = CodeStep(g, v, B, A)

(* One step looks at smaller numbers only.                                 *)
LEMMA StepDependsOn ==
    ASSUME NEW B, NEW A, IsSystem(B, A), NEW v \in Nat, NEW f, NEW g,
           \A w \in 0 .. (v - 1) : f[w] = g[w]
    PROVE  CodeStep(f, v, B, A) = CodeStep(g, v, B, A)
    <1>1. B \in Nat \ {0, 1}
        BY DEF IsSystem
    <1>2. CASE v < B
        BY <1>2 DEF CodeStep
    <1>3. CASE v >= B
        <2>1. v \div B \in 0 .. (v - 1)
            <3>1. PICK q \in Nat : q = v \div B /\ q < v
                BY <1>1, <1>3, Quotient
            <3> QED BY <3>1
        <2>2. f[v \div B] = g[v \div B]
            BY <2>1
        <2> QED BY <1>1, <1>3, <2>2 DEF CodeStep
    <1> QED BY <1>1, <1>2, <1>3

(* Two of them agree.                                                      *)
LEMMA CodesAgree ==
    ASSUME NEW B, NEW A, IsSystem(B, A), NEW n \in Nat, NEW m \in Nat, NEW f, NEW g,
           CodesUpTo(f, n, B, A), CodesUpTo(g, m, B, A)
    PROVE  \A v \in Nat : v <= n /\ v <= m => f[v] = g[v]
    <1> DEFINE S == {v \in Nat : v <= n /\ v <= m => f[v] = g[v]}
    <1>1. ASSUME NEW v \in Nat, \A w \in 0 .. (v - 1) : w \in S
          PROVE  v \in S
        <2> SUFFICES ASSUME v <= n, v <= m PROVE f[v] = g[v]
            OBVIOUS
        <2>1. \A w \in 0 .. (v - 1) : f[w] = g[w]
            BY <1>1
        <2>2. CodeStep(f, v, B, A) = CodeStep(g, v, B, A)
            BY <2>1, StepDependsOn
        <2>3. v \in 0 .. n /\ v \in 0 .. m
            OBVIOUS
        <2>4. f[v] = CodeStep(f, v, B, A) /\ g[v] = CodeStep(g, v, B, A)
            BY <2>3 DEF CodesUpTo
        <2> QED BY <2>2, <2>4
    <1> HIDE DEF S
    <1>2. \A v \in Nat : v \in S
        BY <1>1, StrongInduction
    <1> QED BY <1>2 DEF S

(* There are such functions.                                               *)
LEMMA CodesUpToExist ==
    ASSUME NEW B, NEW A, IsSystem(B, A)
    PROVE  \A n \in Nat : \E g : CodesUpTo(g, n, B, A)
    <1> DEFINE S == {n \in Nat : \E g : CodesUpTo(g, n, B, A)}
    <1>0. B \in Nat \ {0, 1}
        BY DEF IsSystem
    <1>1. 0 \in S
        <2> DEFINE g == [v \in 0 .. 0 |-> <<A[0]>>]
        <2>1. \A v \in 0 .. 0 : v = 0 /\ g[v] = <<A[0]>>
            OBVIOUS
        <2>2. g = [v \in 0 .. 0 |-> g[v]]
            OBVIOUS
        <2> HIDE DEF g
        <2>3. \A v \in 0 .. 0 : g[v] = CodeStep(g, v, B, A)
            BY <1>0, <2>1 DEF CodeStep
        <2>4. CodesUpTo(g, 0, B, A)
            BY <2>2, <2>3 DEF CodesUpTo
        <2> QED BY <2>4
    <1>2. ASSUME NEW n \in Nat, n \in S PROVE n + 1 \in S
        <2>1. PICK f : CodesUpTo(f, n, B, A)
            BY <1>2
        <2> DEFINE next == CodeStep(f, n + 1, B, A)
                   g == [v \in 0 .. (n + 1) |-> IF v = n + 1 THEN next ELSE f[v]]
        <2> HIDE DEF next
        <2>2. g = [v \in 0 .. (n + 1) |-> g[v]]
            OBVIOUS
        <2>3. g[n + 1] = next /\ \A v \in 0 .. n : g[v] = f[v]
            OBVIOUS
        <2> HIDE DEF g
        <2>4. ASSUME NEW v \in 0 .. (n + 1) PROVE g[v] = CodeStep(g, v, B, A)
            <3>1. v \in Nat /\ \A w \in 0 .. (v - 1) : g[w] = f[w]
                BY <2>3
            <3>2. CodeStep(g, v, B, A) = CodeStep(f, v, B, A)
                BY <3>1, StepDependsOn
            <3>3. CASE v = n + 1
                BY <2>3, <3>2, <3>3 DEF next
            <3>4. CASE v \in 0 .. n
                BY <2>1, <2>3, <3>2, <3>4 DEF CodesUpTo
            <3> QED BY <3>3, <3>4
        <2>5. CodesUpTo(g, n + 1, B, A)
            BY <2>2, <2>4 DEF CodesUpTo
        <2> QED BY <2>5
    <1> HIDE DEF S
    <1>3. \A n \in Nat : n \in S
        BY <1>1, <1>2, Induction
    <1> QED BY <1>3 DEF S

(* The recurrence of the code has a solution.                              *)
LEMMA CodingExists ==
    ASSUME NEW B, NEW A, IsSystem(B, A)
    PROVE  \E f : IsCoding(f, B, A)
    <1> DEFINE G(n) == CHOOSE g : CodesUpTo(g, n, B, A)
               f == [n \in Nat |-> G(n)[n]]
    <1>1. \A n \in Nat : CodesUpTo(G(n), n, B, A)
        BY CodesUpToExist, Zenon
    <1> HIDE DEF G
    <1>2. \A n \in Nat : f[n] = G(n)[n]
        OBVIOUS
    <1>3. f = [n \in Nat |-> f[n]]
        OBVIOUS
    <1> HIDE DEF f
    <1>4. ASSUME NEW v \in Nat PROVE f[v] = CodeStep(f, v, B, A)
        <2>1. ASSUME NEW w \in 0 .. (v - 1) PROVE f[w] = G(v)[w]
            <3>1. w \in Nat /\ w <= v /\ w <= w
                OBVIOUS
            <3>2. CodesUpTo(G(w), w, B, A) /\ CodesUpTo(G(v), v, B, A)
                BY <1>1, <3>1
            <3>3. G(w)[w] = G(v)[w]
                BY <3>1, <3>2, CodesAgree
            <3> QED BY <1>2, <3>1, <3>3
        <2>2. CodeStep(f, v, B, A) = CodeStep(G(v), v, B, A)
            BY <2>1, StepDependsOn
        <2>3. G(v)[v] = CodeStep(G(v), v, B, A)
            BY <1>1 DEF CodesUpTo
        <2> QED BY <1>2, <2>2, <2>3
    <1>5. IsCoding(f, B, A)
        BY <1>3, <1>4 DEF IsCoding
    <1> QED BY <1>5

(* A code is not empty, consists of digits and starts with zero only when  *)
(* it is that of zero.                                                     *)
IsCodeOf(t, v, B, A) ==
    /\ t \in Seq(CharsOf(B, A)) /\ t # <<>>
    /\ v = 0 => t = <<A[0]>>
    /\ v # 0 => t[1] # A[0]

(* Every value of the function is the code of its argument in this sense.  *)
LEMMA CodesAreCodes ==
    ASSUME NEW B, NEW A, IsSystem(B, A), NEW f, IsCoding(f, B, A)
    PROVE  \A v \in Nat : IsCodeOf(f[v], v, B, A)
    <1> DEFINE S == {v \in Nat : IsCodeOf(f[v], v, B, A)}
    <1>0. B \in Nat \ {0, 1}
        BY DEF IsSystem
    <1>1. ASSUME NEW v \in Nat, \A w \in 0 .. (v - 1) : w \in S
          PROVE  v \in S
        <2>1. f[v] = CodeStep(f, v, B, A)
            BY DEF IsCoding
        <2>2. CASE v < B
            <3>1. f[v] = <<A[v]>> /\ v \in 0 .. (B - 1) /\ 0 \in 0 .. (B - 1)
                BY <1>0, <2>1, <2>2 DEF CodeStep
            <3>2. A[v] \in CharsOf(B, A)
                BY <3>1, CharOfDigit
            <3>3. v # 0 => A[v] # A[0]
                BY <3>1 DEF IsSystem
            <3>4. <<A[v]>> \in Seq(CharsOf(B, A)) /\ <<A[v]>> # <<>> /\ <<A[v]>>[1] = A[v]
                BY <3>2
            <3> QED BY <3>1, <3>3, <3>4 DEF IsCodeOf
        <2>3. CASE v >= B
            <3>1. PICK q \in 0 .. (v - 1) : q = v \div B /\ q # 0
                <4>1. PICK q \in Nat : q = v \div B /\ q # 0 /\ q < v
                    BY <1>0, <2>3, Quotient
                <4> QED BY <4>1
            <3>2. PICK r \in 0 .. (B - 1) : r = v % B
                BY <1>0, Quotient
            <3>3. f[v] = Append(f[q], A[r])
                BY <1>0, <2>1, <2>3, <3>1, <3>2 DEF CodeStep
            <3>4. f[q] \in Seq(CharsOf(B, A)) /\ f[q] # <<>> /\ f[q][1] # A[0]
                BY <1>1, <3>1 DEF IsCodeOf
            <3>5. A[r] \in CharsOf(B, A)
                BY <3>2, CharOfDigit
            <3> DEFINE t == f[q]
                       c == A[r]
            <3>6. t \in Seq(CharsOf(B, A)) /\ c \in CharsOf(B, A) /\ t # <<>>
                BY <3>4, <3>5
            <3> HIDE DEF t, c
            <3>7. Append(t, c) \in Seq(CharsOf(B, A)) /\ Append(t, c) # <<>>
                  /\ Append(t, c)[1] = t[1]
                BY <3>6, EmptySeq
            <3>8. v # 0
                BY <1>0, <2>3
            <3> QED BY <3>3, <3>4, <3>7, <3>8 DEF IsCodeOf, t, c
        <2> QED BY <1>0, <2>2, <2>3
    <1> HIDE DEF S
    <1>2. \A v \in Nat : v \in S
        BY <1>1, StrongInduction
    <1> QED BY <1>2 DEF S

(* A smaller number has no larger quotient.                                *)
LEMMA QuotientsGrow ==
    ASSUME NEW B \in Nat \ {0, 1}, NEW v \in Nat, NEW w \in Nat, w <= v
    PROVE  w \div B <= v \div B
    <1>1. PICK q \in Nat, r \in 0 .. (B - 1) : q = v \div B /\ v = q * B + r
        BY Quotient
    <1>2. PICK p \in Nat, s \in 0 .. (B - 1) : p = w \div B /\ w = p * B + s
        BY Quotient
    <1> SUFFICES ASSUME p > q PROVE FALSE
        BY <1>1, <1>2
    <1>3. PICK c \in Nat : p = (q + 1) + c
        <2>1. p - (q + 1) \in Nat /\ p = (q + 1) + (p - (q + 1))
            BY <1>1, <1>2
        <2> QED BY <2>1
    <1>4. /\ p * B = (q * B + B) + c * B
          /\ p * B \in Nat /\ q * B \in Nat /\ c * B \in Nat
        BY <1>1, <1>2, <1>3
    <1>5. p * B >= q * B + B
        BY <1>4
    <1> QED BY <1>1, <1>2, <1>4, <1>5

(* A smaller number has no longer code.                                    *)
LEMMA CodesGrow ==
    ASSUME NEW B, NEW A, IsSystem(B, A), NEW f, IsCoding(f, B, A)
    PROVE  \A v \in Nat : \A w \in 0 .. v : Len(f[w]) <= Len(f[v])
    <1> DEFINE Grows(v) == \A w \in 0 .. v : Len(f[w]) <= Len(f[v])
               S == {v \in Nat : Grows(v)}
    <1>0. /\ B \in Nat \ {0, 1}
          /\ \A v \in Nat : f[v] = CodeStep(f, v, B, A)
        BY DEF IsSystem, IsCoding
    <1>1. ASSUME NEW v \in Nat
          PROVE  Len(f[v]) \in Nat /\ Len(f[v]) >= 1
        <2>1. f[v] \in Seq(CharsOf(B, A)) /\ f[v] # <<>>
            BY CodesAreCodes DEF IsCodeOf
        <2> QED BY <2>1, EmptySeq
    <1>2. ASSUME NEW v \in Nat, v < B
          PROVE  Len(f[v]) = 1
        <2>1. f[v] = <<A[v]>>
            BY <1>0, <1>2 DEF CodeStep
        <2> QED BY <2>1
    <1>3. ASSUME NEW v \in Nat, v >= B
          PROVE  /\ v \div B \in 0 .. (v - 1)
                 /\ Len(f[v]) = Len(f[v \div B]) + 1
        <2>1. v \div B \in Nat /\ v \div B < v /\ v % B \in 0 .. (B - 1)
            BY <1>0, <1>3, Quotient
        <2>2. f[v] = Append(f[v \div B], A[v % B])
            <3>1. f[v] = CodeStep(f, v, B, A) /\ ~ (v < B)
                BY <1>0, <1>3
            <3> QED BY <3>1 DEF CodeStep
        <2>3. f[v \div B] \in Seq(CharsOf(B, A)) /\ A[v % B] \in CharsOf(B, A)
            BY <2>1, CodesAreCodes, CharOfDigit DEF IsCodeOf
        <2> QED BY <2>1, <2>2, <2>3, AppendProperties
    <1>4. ASSUME NEW v \in Nat, \A w \in 0 .. (v - 1) : w \in S
          PROVE  v \in S
        <2> SUFFICES ASSUME NEW w \in 0 .. v PROVE Len(f[w]) <= Len(f[v])
            OBVIOUS
        <2>0. w \in Nat /\ w <= v
            OBVIOUS
        <2>1. CASE w < B
            <3>1. Len(f[w]) = 1
                BY <1>2, <2>0, <2>1
            <3> QED BY <1>1, <3>1
        <2>2. CASE w >= B
            <3>0. v >= B
                BY <1>0, <2>0, <2>2
            <3>1. /\ v \div B \in 0 .. (v - 1) /\ w \div B \in Nat
                  /\ Len(f[v]) = Len(f[v \div B]) + 1
                  /\ Len(f[w]) = Len(f[w \div B]) + 1
                BY <1>3, <2>0, <2>2, <3>0
            <3>2. w \div B <= v \div B
                BY <1>0, <2>0, QuotientsGrow
            <3> DEFINE p == w \div B
                       q == v \div B
            <3>3. q \in 0 .. (v - 1) /\ p \in Nat /\ p <= q
                BY <3>1, <3>2
            <3> HIDE DEF p, q
            <3>4. Len(f[p]) <= Len(f[q])
                <4>1. q \in S /\ p \in 0 .. q
                    BY <1>4, <3>3
                <4> QED BY <4>1
            <3>5. /\ Len(f[p]) \in Nat /\ Len(f[q]) \in Nat
                  /\ Len(f[v]) = Len(f[q]) + 1 /\ Len(f[w]) = Len(f[p]) + 1
                <4>1. q \in Nat
                    BY <3>3
                <4> QED BY <1>1, <3>1, <3>3, <4>1 DEF p, q
            <3> QED BY <3>4, <3>5
        <2> QED BY <1>0, <2>1, <2>2
    <1> HIDE DEF S
    <1>5. \A v \in Nat : v \in S
        BY <1>4, StrongInduction
    <1> QED BY <1>5 DEF S

-----------------------------------------------------------------------------
(* Every text of digits has a value.                                       *)
LEMMA PrefixesExist ==
    ASSUME NEW B, NEW A, IsSystem(B, A), NEW t \in Seq(CharsOf(B, A))
    PROVE  \E p : IsPrefixes(p, t, B, A)
    <1>0. B \in Nat /\ Len(t) \in Nat
        BY DEF IsSystem
    <1> DEFINE d == [k \in Nat |-> IF k \in 1 .. Len(t) THEN DigitIn(t[k], B, A) ELSE 0]
               step == [k \in Nat |-> [v \in Nat |-> v * B + d[k]]]
    <1>1. \A k \in 1 .. Len(t) : d[k] = DigitIn(t[k], B, A)
        BY <1>0
    <1>2. \A k \in Nat : d[k] \in Nat
        <2>1. \A k \in 1 .. Len(t) : DigitIn(t[k], B, A) \in Nat
            <3>1. ASSUME NEW k \in 1 .. Len(t) PROVE DigitIn(t[k], B, A) \in Nat
                <4>1. DigitIn(t[k], B, A) \in 0 .. (B - 1)
                    BY DigitOfChar
                <4> QED BY <1>0, <4>1
            <3> QED BY <3>1
        <2> QED BY <2>1
    <1> HIDE DEF d
    <1>3. \A k, v \in Nat : v * B + d[k] \in Nat
        <2> TAKE k, v \in Nat
        <2>1. PICK e \in Nat : e = d[k]
            BY <1>2
        <2>2. v * B + e \in Nat
            BY <1>0
        <2> QED BY <2>1, <2>2
    <1>4. step \in [Nat -> [Nat -> Nat]]
        BY <1>3
    <1>5. \A k, v \in Nat : step[k][v] = v * B + d[k]
        OBVIOUS
    <1> HIDE DEF step
    <1>6. PICK p : IsIterated(p, Len(t), Nat, 0, step)
        <2>1. IsStep(step, Nat)
            BY <1>4 DEF IsStep
        <2> QED BY <1>0, <2>1, Recursion
    <1>7. ASSUME NEW n \in 1 .. Len(t)
          PROVE  p[n] = p[n - 1] * B + DigitIn(t[n], B, A)
        <2>1. n \in Nat /\ n - 1 \in 0 .. Len(t)
            BY <1>0
        <2>2. p[n - 1] \in Nat
            BY <1>6, <2>1 DEF IsIterated
        <2> QED BY <1>1, <1>5, <1>6, <2>1, <2>2 DEF IsIterated
    <1>8. IsPrefixes(p, t, B, A)
        BY <1>6, <1>7 DEF IsPrefixes, IsIterated
    <1> QED BY <1>8

(* The recurrence of the prefixes, as the recursive function of a text.    *)
IsValuing(p, t, B, A) ==
    p = [n \in 0 .. Len(t) |-> IF n = 0 THEN 0
                               ELSE p[n - 1] * B + DigitIn(t[n], B, A)]

(* A function which satisfies it gives every prefix its value.             *)
LEMMA ValuingIsPrefixes ==
    ASSUME NEW B, NEW A, IsSystem(B, A), NEW t \in Seq(CharsOf(B, A)), NEW p,
           IsValuing(p, t, B, A)
    PROVE  IsPrefixes(p, t, B, A)
    <1>0. Len(t) \in Nat /\ p = [n \in 0 .. Len(t) |-> p[n]]
        BY DEF IsValuing
    <1>1. p[0] = 0
        BY <1>0 DEF IsValuing
    <1>2. \A n \in 1 .. Len(t) : p[n] = p[n - 1] * B + DigitIn(t[n], B, A)
        <2>1. \A n \in 1 .. Len(t) : n \in 0 .. Len(t) /\ n # 0
            BY <1>0
        <2> QED BY <2>1 DEF IsValuing
    <1>3. PICK q : IsPrefixes(q, t, B, A)
        BY PrefixesExist
    <1> DEFINE S == {n \in Nat : n <= Len(t) => p[n] = q[n]}
    <1>4. 0 \in S
        BY <1>1, <1>3 DEF IsPrefixes
    <1>5. ASSUME NEW n \in Nat, n \in S PROVE n + 1 \in S
        <2> SUFFICES ASSUME n + 1 <= Len(t) PROVE p[n + 1] = q[n + 1]
            OBVIOUS
        <2>1. n + 1 \in 1 .. Len(t) /\ (n + 1) - 1 = n /\ n <= Len(t)
            BY <1>0
        <2>2. q[n + 1] = q[n] * B + DigitIn(t[n + 1], B, A)
            BY <1>3, <2>1 DEF IsPrefixes
        <2>3. p[n + 1] = p[n] * B + DigitIn(t[n + 1], B, A)
            BY <1>2, <2>1
        <2> QED BY <1>5, <2>1, <2>2, <2>3
    <1> HIDE DEF S
    <1>6. \A n \in 0 .. Len(t) : p[n] = q[n]
        <2>1. \A n \in Nat : n \in S
            BY <1>4, <1>5, Induction
        <2> QED BY <1>0, <2>1 DEF S
    <1>7. p \in [0 .. Len(t) -> Nat]
        BY <1>0, <1>3, <1>6 DEF IsPrefixes
    <1> QED BY <1>1, <1>2, <1>7 DEF IsPrefixes

(* There is such a function.                                               *)
LEMMA ValuingExists ==
    ASSUME NEW B, NEW A, IsSystem(B, A), NEW t \in Seq(CharsOf(B, A))
    PROVE  \E p : IsValuing(p, t, B, A)
    <1>0. Len(t) \in Nat
        OBVIOUS
    <1>1. PICK q : IsPrefixes(q, t, B, A)
        BY PrefixesExist
    <1>2. q \in [0 .. Len(t) -> Nat]
        BY <1>1 DEF IsPrefixes
    <1>3. \A n \in 0 .. Len(t) :
             q[n] = IF n = 0 THEN 0 ELSE q[n - 1] * B + DigitIn(t[n], B, A)
        <2> TAKE n \in 0 .. Len(t)
        <2>1. CASE n = 0
            BY <1>1, <2>1 DEF IsPrefixes
        <2>2. CASE n # 0
            <3>1. n \in 1 .. Len(t)
                BY <1>0, <2>2
            <3> QED BY <1>1, <2>2, <3>1 DEF IsPrefixes
        <2> QED BY <2>1, <2>2
    <1>4. IsValuing(q, t, B, A)
        BY <1>2, <1>3 DEF IsValuing
    <1> QED BY <1>4

(* The value of a prefix does not depend on what follows it.               *)
LEMMA PrefixesAgree ==
    ASSUME NEW B, NEW A, NEW t, NEW u, NEW p, NEW q, NEW m \in Nat,
           IsPrefixes(p, t, B, A), IsPrefixes(q, u, B, A),
           Len(t) \in Nat, Len(u) \in Nat, m <= Len(t), m <= Len(u),
           \A i \in 1 .. m : t[i] = u[i]
    PROVE  p[m] = q[m]
    <1> DEFINE S == {n \in Nat : n <= m => p[n] = q[n]}
    <1>1. 0 \in S
        BY DEF IsPrefixes
    <1>2. ASSUME NEW n \in Nat, n \in S PROVE n + 1 \in S
        <2> SUFFICES ASSUME n + 1 <= m PROVE p[n + 1] = q[n + 1]
            OBVIOUS
        <2>1. /\ n + 1 \in 1 .. m /\ n + 1 \in 1 .. Len(t) /\ n + 1 \in 1 .. Len(u)
              /\ (n + 1) - 1 = n
            OBVIOUS
        <2>2. p[n] = q[n] /\ t[n + 1] = u[n + 1]
            BY <1>2, <2>1
        <2>3. /\ p[n + 1] = p[n] * B + DigitIn(t[n + 1], B, A)
              /\ q[n + 1] = q[n] * B + DigitIn(u[n + 1], B, A)
            BY <2>1 DEF IsPrefixes
        <2> QED BY <2>2, <2>3
    <1> HIDE DEF S
    <1>3. m \in S
        BY <1>1, <1>2, Induction
    <1> QED BY <1>3 DEF S

(* A longer prefix has no smaller value.                                   *)
LEMMA PrefixesGrow ==
    ASSUME NEW B, NEW A, IsSystem(B, A), NEW t \in Seq(CharsOf(B, A)), NEW p,
           IsPrefixes(p, t, B, A), NEW n \in Nat, NEW m \in Nat,
           n <= m, m <= Len(t)
    PROVE  p[n] <= p[m] /\ p[n] \in Nat /\ p[m] \in Nat
    <1>0. B \in Nat \ {0} /\ Len(t) \in Nat
        BY DEF IsSystem
    <1>1. \A k \in Nat : k <= m => p[k] \in Nat
        BY <1>0 DEF IsPrefixes
    <1> DEFINE S == {k \in Nat : n <= k /\ k <= m => p[n] <= p[k]}
    <1>2. 0 \in S
        <2> SUFFICES ASSUME n <= 0 PROVE p[n] <= p[0]
            OBVIOUS
        <2>1. n = 0
            OBVIOUS
        <2> QED BY <1>1, <2>1
    <1>3. ASSUME NEW k \in Nat, k \in S PROVE k + 1 \in S
        <2> SUFFICES ASSUME n <= k + 1, k + 1 <= m PROVE p[n] <= p[k + 1]
            OBVIOUS
        <2>1. CASE n = k + 1
            BY <1>1, <2>1
        <2>2. CASE n <= k
            <3>1. p[n] <= p[k] /\ p[n] \in Nat /\ p[k] \in Nat
                BY <1>1, <1>3, <2>2
            <3>2. k + 1 \in 1 .. Len(t) /\ (k + 1) - 1 = k
                BY <1>0
            <3>3. PICK d \in Nat : p[k + 1] = p[k] * B + d
                <4>1. DigitIn(t[k + 1], B, A) \in 0 .. (B - 1)
                    BY <3>2, ElementOfSeq, DigitOfChar
                <4> QED BY <1>0, <3>2, <4>1 DEF IsPrefixes
            <3>4. p[k] <= p[k + 1] /\ p[k + 1] \in Nat
                <4>1. B \in Nat \ {0}
                    BY <1>0
                <4> QED BY <3>1, <3>3, <4>1, ValueGrows
            <3> QED BY <3>1, <3>4
        <2> QED BY <2>1, <2>2
    <1> HIDE DEF S
    <1>4. m \in S
        BY <1>2, <1>3, Induction
    <1> QED BY <1>1, <1>4 DEF S

(* A text has one value.                                                   *)
LEMMA ValueIsUnique ==
    ASSUME NEW B, NEW A, NEW t, Len(t) \in Nat, NEW v, NEW w,
           Denotes(t, v, B, A), Denotes(t, w, B, A)
    PROVE  v = w
    <1>1. PICK p : IsPrefixes(p, t, B, A) /\ v = p[Len(t)]
        BY DEF Denotes
    <1>2. PICK q : IsPrefixes(q, t, B, A) /\ w = q[Len(t)]
        BY DEF Denotes
    <1> QED BY <1>1, <1>2, PrefixesAgree

(* The value of the empty text.                                            *)
LEMMA EmptyDenotes ==
    ASSUME NEW B, NEW A
    PROVE  Denotes(<<>>, 0, B, A)
    <1> DEFINE p == [n \in 0 .. 0 |-> 0]
    <1>1. Len(<<>>) = 0
        OBVIOUS
    <1>2. p \in [0 .. 0 -> Nat] /\ p[0] = 0 /\ \A n \in 1 .. 0 : FALSE
        OBVIOUS
    <1> HIDE DEF p
    <1> QED BY <1>1, <1>2 DEF Denotes, IsPrefixes

(* The value of a text with one more digit.                                *)
LEMMA DenotesAppend ==
    ASSUME NEW B, NEW A, IsSystem(B, A), NEW t \in Seq(CharsOf(B, A)),
           NEW d \in 0 .. (B - 1), NEW v, Denotes(t, v, B, A)
    PROVE  v \in Nat /\ Denotes(Append(t, A[d]), v * B + d, B, A)
    <1>0. B \in Nat \ {0, 1}
        BY DEF IsSystem
    <1>1. PICK p : IsPrefixes(p, t, B, A) /\ v = p[Len(t)]
        BY DEF Denotes
    <1>2. PICK m \in Nat : m = Len(t)
        OBVIOUS
    <1>3. p \in [0 .. m -> Nat] /\ v \in Nat /\ v = p[m]
        BY <1>1, <1>2 DEF IsPrefixes
    <1> DEFINE c == A[d]
               u == Append(t, c)
               q == [n \in 0 .. (m + 1) |-> IF n = m + 1 THEN v * B + d ELSE p[n]]
    <1>4. c \in CharsOf(B, A) /\ DigitIn(c, B, A) = d
        BY CharOfDigit
    <1> HIDE DEF c
    <1>5. Len(u) = m + 1 /\ u[m + 1] = c /\ \A i \in 1 .. m : u[i] = t[i]
        BY <1>2, <1>4, AppendProperties
    <1> HIDE DEF u
    <1>6. v * B + d \in Nat
        <2>1. d \in Nat
            BY <1>0
        <2> QED BY <1>0, <1>3, <2>1, ValueGrows
    <1>7. q[m + 1] = v * B + d /\ \A n \in 0 .. m : q[n] = p[n]
        OBVIOUS
    <1>8. q \in [0 .. (m + 1) -> Nat]
        BY <1>3, <1>6
    <1> HIDE DEF q
    <1>9. ASSUME NEW n \in 1 .. (m + 1)
          PROVE  q[n] = q[n - 1] * B + DigitIn(u[n], B, A)
        <2>1. CASE n = m + 1
            <3>1. n - 1 = m /\ m \in 0 .. m
                BY <2>1
            <3> QED BY <1>3, <1>4, <1>5, <1>7, <2>1, <3>1
        <2>2. CASE n \in 1 .. m
            <3>1. n \in 0 .. m /\ n - 1 \in 0 .. m
                BY <2>2
            <3>2. p[n] = p[n - 1] * B + DigitIn(t[n], B, A)
                BY <1>1, <1>2, <2>2 DEF IsPrefixes
            <3> QED BY <1>5, <1>7, <2>2, <3>1, <3>2
        <2> QED BY <2>1, <2>2
    <1>10. q[0] = 0
        BY <1>1, <1>7 DEF IsPrefixes
    <1>11. IsPrefixes(q, u, B, A)
        BY <1>5, <1>8, <1>9, <1>10 DEF IsPrefixes
    <1>12. Denotes(u, v * B + d, B, A)
        BY <1>5, <1>7, <1>11 DEF Denotes
    <1> QED BY <1>3, <1>12 DEF u, c

(* The code of a number has that value.                                    *)
THEOREM CodeDenotes ==
    ASSUME NEW B, NEW A, IsSystem(B, A), NEW f, IsCoding(f, B, A)
    PROVE  \A v \in Nat : Denotes(f[v], v, B, A)
    <1> DEFINE S == {v \in Nat : Denotes(f[v], v, B, A)}
    <1>0. B \in Nat \ {0, 1}
        BY DEF IsSystem
    <1>1. ASSUME NEW v \in Nat, \A w \in 0 .. (v - 1) : w \in S
          PROVE  v \in S
        <2>1. f[v] = CodeStep(f, v, B, A)
            BY DEF IsCoding
        <2>2. CASE v < B
            <3>1. f[v] = <<A[v]>> /\ v \in 0 .. (B - 1)
                BY <1>0, <2>1, <2>2 DEF CodeStep
            <3>2. <<>> \in Seq(CharsOf(B, A)) /\ Append(<<>>, A[v]) = <<A[v]>>
                OBVIOUS
            <3>3. Denotes(Append(<<>>, A[v]), 0 * B + v, B, A)
                BY <3>1, <3>2, EmptyDenotes, DenotesAppend
            <3>4. 0 * B + v = v
                BY <1>0
            <3> QED BY <3>1, <3>2, <3>3, <3>4
        <2>3. CASE v >= B
            <3>1. PICK q \in 0 .. (v - 1) : q = v \div B
                <4>1. PICK q \in Nat : q = v \div B /\ q < v
                    BY <1>0, <2>3, Quotient
                <4> QED BY <4>1
            <3>2. PICK r \in 0 .. (B - 1) : r = v % B
                BY <1>0, Quotient
            <3>3. f[v] = Append(f[q], A[r])
                BY <1>0, <2>1, <2>3, <3>1, <3>2 DEF CodeStep
            <3>4. Denotes(f[q], q, B, A)
                BY <1>1, <3>1
            <3>5. f[q] \in Seq(CharsOf(B, A))
                BY <3>1, CodesAreCodes DEF IsCodeOf
            <3>6. Denotes(Append(f[q], A[r]), q * B + r, B, A)
                BY <3>4, <3>5, DenotesAppend
            <3>7. v = q * B + r
                <4>1. v = (v \div B) * B + (v % B)
                    BY <1>0, Quotient
                <4> QED BY <3>1, <3>2, <4>1
            <3> QED BY <3>3, <3>6, <3>7
        <2> QED BY <1>0, <2>2, <2>3
    <1> HIDE DEF S
    <1>2. \A v \in Nat : v \in S
        BY <1>1, StrongInduction
    <1> QED BY <1>2 DEF S
(* A text which is not empty is a shorter text and a last digit.           *)
IsFront(u, d, t, n, A) ==
    t = Append(u, A[d]) /\ Len(u) = n /\ \A i \in 1 .. n : u[i] = t[i]

(* Every text of n + 1 characters has such a front of n characters.        *)
LEMMA LastDigit ==
    ASSUME NEW B, NEW A, IsSystem(B, A), NEW n \in Nat,
           NEW t \in Seq(CharsOf(B, A)), Len(t) = n + 1
    PROVE  \E u \in Seq(CharsOf(B, A)), d \in 0 .. (B - 1) :
              IsFront(u, d, t, n, A)
    <1> DEFINE S == CharsOf(B, A)
               c == t[n + 1]
               u == [i \in 1 .. n |-> t[i]]
    <1>1. c \in S
        BY ElementOfSeq
    <1>2. PICK d \in 0 .. (B - 1) : c = A[d]
        BY <1>1 DEF CharsOf
    <1>3. u \in Seq(S) /\ Len(u) = n /\ \A i \in 1 .. n : u[i] = t[i]
        <2>1. \A i \in 1 .. n : t[i] \in S
            BY ElementOfSeq
        <2>2. u \in [1 .. n -> S]
            BY <2>1
        <2> QED BY <2>2, SeqDef
    <1> HIDE DEF u
    <1>4. /\ Append(u, c) \in Seq(S) /\ Len(Append(u, c)) = n + 1
          /\ Append(u, c)[n + 1] = c /\ \A i \in 1 .. n : Append(u, c)[i] = u[i]
        BY <1>1, <1>3, AppendProperties
    <1>5. \A i \in 1 .. Len(t) : t[i] = Append(u, c)[i]
        BY <1>3, <1>4
    <1>6. t = Append(u, c)
        BY <1>4, <1>5, SeqEqual
    <1> QED BY <1>2, <1>3, <1>6 DEF IsFront

(* The value of a text with such a front is that of the front and a digit. *)
LEMMA DenotesFront ==
    ASSUME NEW B, NEW A, IsSystem(B, A), NEW n \in Nat, NEW t, NEW w, Denotes(t, w, B, A),
           NEW u \in Seq(CharsOf(B, A)), NEW d \in 0 .. (B - 1), IsFront(u, d, t, n, A)
    PROVE  \E v \in Nat : Denotes(u, v, B, A) /\ w = v * B + d
    <1>1. PICK p : IsPrefixes(p, u, B, A)
        BY PrefixesExist
    <1>2. PICK v : Denotes(u, v, B, A)
        BY <1>1 DEF Denotes
    <1>3. t = Append(u, A[d])
        BY DEF IsFront
    <1>4. v \in Nat /\ Denotes(t, v * B + d, B, A)
        BY <1>2, <1>3, DenotesAppend
    <1>5. Len(t) \in Nat
        <2>1. A[d] \in CharsOf(B, A)
            BY CharOfDigit
        <2> QED BY <1>3, <2>1
    <1>6. w = v * B + d
        BY <1>4, <1>5, ValueIsUnique
    <1> QED BY <1>2, <1>4, <1>6

(* A text without leading zeros is the code of its value.                  *)
THEOREM DenotesCode ==
    ASSUME NEW B, NEW A, IsSystem(B, A), NEW f, IsCoding(f, B, A)
    PROVE  \A n \in Nat : \A t \in Seq(CharsOf(B, A)) : \A v :
              /\ Len(t) = n + 1 /\ (n > 0 => t[1] # A[0])
              /\ Denotes(t, v, B, A)
              => v \in Nat /\ f[v] = t
    <1> DEFINE Claim(n) ==
            \A t \in Seq(CharsOf(B, A)) : \A v :
              /\ Len(t) = n + 1 /\ (n > 0 => t[1] # A[0])
              /\ Denotes(t, v, B, A)
              => v \in Nat /\ f[v] = t
        S == {n \in Nat : Claim(n)}
    <1>0. B \in Nat \ {0, 1} /\ \A w \in Nat : f[w] = CodeStep(f, w, B, A)
        BY DEF IsSystem, IsCoding
    <1>1. 0 \in S
        <2> SUFFICES ASSUME NEW t \in Seq(CharsOf(B, A)), NEW v,
                            Len(t) = 0 + 1, Denotes(t, v, B, A)
                     PROVE  v \in Nat /\ f[v] = t
            OBVIOUS
        <2>1. PICK u \in Seq(CharsOf(B, A)), d \in 0 .. (B - 1) :
                  IsFront(u, d, t, 0, A)
            BY LastDigit
        <2>2. u = <<>> /\ t = <<A[d]>>
            BY <2>1, EmptySeq DEF IsFront
        <2>3. Denotes(t, 0 * B + d, B, A)
            BY <2>1, <2>2, EmptyDenotes, DenotesAppend DEF IsFront
        <2>4. v = d /\ d \in Nat /\ d < B
            <3>1. v = 0 * B + d
                BY <2>3, ValueIsUnique
            <3> QED BY <1>0, <3>1
        <2>5. f[d] = <<A[d]>>
            BY <1>0, <2>4 DEF CodeStep
        <2> QED BY <2>2, <2>4, <2>5
    <1>2. ASSUME NEW n \in Nat, n \in S PROVE n + 1 \in S
        <2> SUFFICES ASSUME NEW t \in Seq(CharsOf(B, A)), NEW v,
                            Len(t) = (n + 1) + 1, t[1] # A[0], Denotes(t, v, B, A)
                     PROVE  v \in Nat /\ f[v] = t
            OBVIOUS
        <2>1. PICK u \in Seq(CharsOf(B, A)), d \in 0 .. (B - 1) :
                  IsFront(u, d, t, n + 1, A)
            BY LastDigit
        <2>2. PICK w \in Nat : Denotes(u, w, B, A) /\ v = w * B + d
            <3>1. n + 1 \in Nat
                OBVIOUS
            <3> QED BY <2>1, <3>1, DenotesFront
        <2>3. u[1] # A[0]
            BY <2>1 DEF IsFront
        <2>4. f[w] = u
            <3>1. Len(u) = n + 1
                BY <2>1 DEF IsFront
            <3> QED BY <1>2, <2>2, <2>3, <3>1
        <2>5. w # 0
            <3>1. f[0] = CodeStep(f, 0, B, A) /\ 0 < B
                BY <1>0
            <3>2. f[0] = <<A[0]>>
                BY <3>1 DEF CodeStep
            <3> QED BY <2>3, <2>4, <3>2
        <2>6. /\ v \in Nat /\ v >= B /\ v \div B = w /\ v % B = d
            <3>1. PICK x \in Nat : w = x + 1
                <4>1. w - 1 \in Nat /\ w = (w - 1) + 1
                    BY <2>2, <2>5
                <4> QED BY <4>1
            <3>2. PICK y \in Nat, z \in Nat : y = w * B /\ z = x * B /\ y = z + B
                BY <1>0, <3>1
            <3>3. d \in Nat /\ d < B
                BY <1>0
            <3>4. v = y + d
                BY <2>2, <3>2, Zenon
            <3>5. v \in Nat /\ v >= B
                BY <1>0, <3>2, <3>3, <3>4
            <3>6. (w * B + d) \div B = w /\ (w * B + d) % B = d
                BY <1>0, <3>3, DivUnique
            <3> QED BY <2>2, <3>5, <3>6, Zenon
        <2>7. f[v] = Append(f[v \div B], A[v % B])
            <3>1. f[v] = CodeStep(f, v, B, A) /\ ~ (v < B)
                BY <1>0, <2>6
            <3> QED BY <3>1 DEF CodeStep
        <2> QED BY <2>1, <2>4, <2>6, <2>7 DEF IsFront
    <1> HIDE DEF S
    <1>3. \A n \in Nat : n \in S
        BY <1>1, <1>2, Induction
    <1> QED BY <1>3 DEF S
=============================================================================
