-------------------------- MODULE ShortenerProofs ---------------------------
(***************************************************************************)
(* For every numeral system, every number of ids and all URLs and targets: *)
(* codes that are given out lead to their URLs for ever, and nothing else  *)
(* does.                                                                   *)
(***************************************************************************)
EXTENDS Shortener, FiniteSetTheorems, FunctionTheorems, NumeralTheorems

(* The records that belong to somebody who was told their codes.           *)
Owned == DOMAIN records \ (orphans \cup Pending)

Internal == Records!Failed("INTERNAL_ERROR")

(* What is stored, and what was promised of it.                            *)
DataInv ==
    /\ DOMAIN records \subseteq Records!Id
    /\ orphans \subseteq DOMAIN records
    /\ \A id \in DOMAIN records :
          /\ records[id] \in WellFormed
          /\ Length[records[id]] <= MaxUrlLength
    /\ \A id \in Owned : Codes!CodeOf[id] \in DOMAIN promised
    /\ \A c \in DOMAIN promised :
          \E id \in Owned : Codes!CodeOf[id] = c /\ promised[c] = records[id]

(* What is known of a creation under way.                                  *)
CreateInv ==
    /\ pc \in {"create", "insert", "inserted"} => exchange.method = "POST"
    /\ pc \in {"insert", "inserted"} =>
          /\ Acceptable /\ OffersRoom
          /\ request.op = "insert" /\ request.url = exchange.body
    /\ stored # 0 => /\ pc = "insert" /\ stored \in DOMAIN records \ orphans
                     /\ records[stored] = exchange.body
    /\ pc = "inserted" =>
          \/ reply = Internal
          \/ \E id \in DOMAIN records \ orphans :
                reply = Records!Stored(id) /\ records[id] = exchange.body

(* What is known of a resolution under way.                                *)
ResolveInv ==
    /\ pc \in {"resolve", "find", "found"} =>
          exchange.method = "GET" /\ IsCodePath(Path)
    /\ pc \in {"find", "found"} =>
          /\ Codes!IsCode(Code) /\ Codes!ValueOf(Code) \in Records!Id
          /\ request.op = "find" /\ request.id = Codes!ValueOf(Code)
          /\ request.capacity = FindCapacity
    /\ pc = "found" =>
          \/ reply = Internal
          \/ /\ reply = Records!Failed("NOT_FOUND")
             /\ request.id \notin DOMAIN records
          \/ /\ request.id \in DOMAIN records
             /\ reply = Records!Found(records[request.id])

(* Where the thread is between two exchanges, and within one.              *)
ControlInv ==
    /\ pc \in {"off", "idle", "route", "create", "insert", "inserted",
               "resolve", "find", "found"}
    /\ pc \notin {"off", "idle"} \/ response # None => exchange \in HttpRequest
    /\ response # None => pc = "idle"

AnswerInv == ShortUrlsResolve /\ OneCodeForARecord /\ MissingIsNotMalformed

Inv == DataInv /\ CreateInv /\ ResolveInv /\ ControlInv /\ AnswerInv

-----------------------------------------------------------------------------
(* Digits and characters form a numeral system.                            *)
LEMMA BaseSystem == IsSystem(Base, Alphabet)
    BY NumeralAssumption DEF IsSystem

(* The code of a number follows its recurrence.                            *)
LEMMA CodeOfIsCoding == IsCoding(Codes!CodeOf, Base, Alphabet)
    <1>1. \E f : IsCoding(f, Base, Alphabet)
        BY BaseSystem, CodingExists
    <1>2. \E f : f = [v \in Nat |-> IF v < Base THEN <<Alphabet[v]>>
                   ELSE Append(f[v \div Base], Alphabet[v % Base])]
        BY <1>1 DEF IsCoding, CodeStep
    <1>3. Codes!CodeOf = [v \in Nat |-> IF v < Base THEN <<Alphabet[v]>>
                   ELSE Append(Codes!CodeOf[v \div Base], Alphabet[v % Base])]
        BY <1>2, Zenon DEF Codes!CodeOf
    <1> QED BY <1>3, Zenon DEF IsCoding, CodeStep

(* A text of digits denotes its value.                                     *)
LEMMA ValueOfText ==
    ASSUME NEW t \in Seq(CharsOf(Base, Alphabet))
    PROVE  Denotes(t, Codes!ValueOf(t), Base, Alphabet) /\ Codes!ValueOf(t) \in Nat
    <1> DEFINE Is(p) == p = [n \in 0 .. Len(t) |-> IF n = 0 THEN 0
                  ELSE p[n - 1] * Base + Codes!DigitOf(t[n])]
    <1>1. ASSUME NEW c PROVE Codes!DigitOf(c) = DigitIn(c, Base, Alphabet)
        BY DEF Codes!DigitOf, Codes!Digit, DigitIn
    <1>2. \A p : Is(p) <=> IsValuing(p, t, Base, Alphabet)
        BY <1>1 DEF IsValuing
    <1>3. \E p : Is(p)
        <2>1. \E p : IsValuing(p, t, Base, Alphabet)
            BY BaseSystem, ValuingExists
        <2> HIDE DEF Is
        <2> QED BY <1>2, <2>1
    <1>4. PICK p : Is(p) /\ Codes!ValueOf(t) = p[Len(t)]
        BY <1>3, Zenon DEF Codes!ValueOf
    <1> HIDE DEF Is
    <1>5. IsPrefixes(p, t, Base, Alphabet)
        BY <1>2, <1>4, BaseSystem, ValuingIsPrefixes
    <1>6. p[Len(t)] \in Nat
        <2>1. Len(t) \in 0 .. Len(t)
            OBVIOUS
        <2> QED BY <1>5, <2>1 DEF IsPrefixes
    <1> QED BY <1>4, <1>5, <1>6 DEF Denotes

(* The code of a 64-bit number is a code, and that of no other number.     *)
LEMMA CodeOfNumber ==
    ASSUME NEW v \in 0 .. MaxValue
    PROVE  Codes!IsCode(Codes!CodeOf[v]) /\ Codes!ValueOf(Codes!CodeOf[v]) = v
    <1> DEFINE t == Codes!CodeOf[v]
    <1>0. v \in Nat /\ v <= MaxValue /\ 0 \in 0 .. (Base - 1)
        BY ShortenerAssumption, NumeralAssumption
    <1>1. IsCodeOf(t, v, Base, Alphabet) /\ Denotes(t, v, Base, Alphabet)
        BY <1>0, BaseSystem, CodeOfIsCoding, CodesAreCodes, CodeDenotes
    <1> HIDE DEF t
    <1>2. t \in Seq(CharsOf(Base, Alphabet)) /\ t # <<>>
        BY <1>1 DEF IsCodeOf
    <1>3. Codes!ValueOf(t) = v
        <2>1. Denotes(t, Codes!ValueOf(t), Base, Alphabet) /\ Len(t) \in Nat
            BY <1>2, ValueOfText
        <2> QED BY <1>1, <2>1, ValueIsUnique
    <1>4. Codes!AllDigits(t)
        <2>1. \A i \in DOMAIN t : t[i] \in CharsOf(Base, Alphabet)
            BY <1>2
        <2> QED BY <2>1 DEF Codes!AllDigits, Codes!Digit, CharsOf
    <1>5. t[1] = Alphabet[0] => Len(t) = 1
        <2>1. CASE v = 0
            <3>1. t = <<Alphabet[0]>>
                BY <1>1, <2>1 DEF IsCodeOf
            <3> QED BY <3>1
        <2>2. CASE v # 0
            BY <1>1, <2>2 DEF IsCodeOf
        <2> QED BY <2>1, <2>2
    <1>6. Codes!IsCode(t)
        BY <1>0, <1>2, <1>3, <1>4, <1>5 DEF Codes!IsCode
    <1> QED BY <1>3, <1>6 DEF t

(* A code is the code of its value, which has 64 bits.                     *)
LEMMA NumberOfCode ==
    ASSUME NEW S, NEW t \in Seq(S), Codes!IsCode(t)
    PROVE  /\ Codes!ValueOf(t) \in 0 .. MaxValue
           /\ Codes!CodeOf[Codes!ValueOf(t)] = t
    <1>1. t \in Seq(CharsOf(Base, Alphabet))
        <2>1. \A i \in 1 .. Len(t) : t[i] \in CharsOf(Base, Alphabet)
            BY DEF Codes!IsCode, Codes!AllDigits, Codes!Digit, CharsOf
        <2>2. t \in [1 .. Len(t) -> CharsOf(Base, Alphabet)]
            BY <2>1, LenProperties
        <2> QED BY <2>2, SeqDef
    <1>2. /\ Denotes(t, Codes!ValueOf(t), Base, Alphabet)
          /\ Codes!ValueOf(t) \in Nat
        BY <1>1, ValueOfText
    <1>3. PICK n \in Nat : Len(t) = n + 1
        <2>1. PICK l \in Nat : l = Len(t)
            OBVIOUS
        <2>2. l # 0
            BY <2>1, EmptySeq DEF Codes!IsCode
        <2>3. l - 1 \in Nat /\ l = (l - 1) + 1
            BY <2>2
        <2> QED BY <2>1, <2>3
    <1>4. n > 0 => t[1] # Alphabet[0]
        <2>1. t[1] = Alphabet[0] => n + 1 = 1
            BY <1>3 DEF Codes!IsCode
        <2> QED BY <2>1
    <1>5. Codes!CodeOf[Codes!ValueOf(t)] = t
        BY <1>1, <1>2, <1>3, <1>4, BaseSystem, CodeOfIsCoding, DenotesCode
    <1>6. Codes!ValueOf(t) <= MaxValue
        BY DEF Codes!IsCode
    <1> QED BY <1>2, <1>5, <1>6, ShortenerAssumption

-----------------------------------------------------------------------------
(* Different ids have different codes.                                     *)
LEMMA CodesDiffer ==
    ASSUME NEW v \in Records!Id, NEW w \in Records!Id,
           Codes!CodeOf[v] = Codes!CodeOf[w]
    PROVE  v = w
    <1>1. v \in 0 .. MaxValue /\ w \in 0 .. MaxValue
        BY ShortenerAssumption DEF Records!Id
    <1> QED BY <1>1, CodeOfNumber

(* The path of a target is a sequence.                                     *)
LEMMA PathIsSeq ==
    ASSUME NEW t \in Target
    PROVE  \E S : PathOf(t) \in Seq(S)
    <1>1. PICK S : t \in Seq(S)
        BY ShortenerAssumption
    <1> DEFINE marks == {i \in DOMAIN t : t[i] = Query}
               first == CHOOSE i \in marks : \A j \in marks : i <= j
    <1>2. CASE marks = {}
        BY <1>1, <1>2 DEF PathOf
    <1>3. CASE marks # {}
        <2>1. DOMAIN t = 1 .. Len(t) /\ Len(t) \in Nat
            BY <1>1
        <2>2. marks \subseteq Nat /\ marks \subseteq 1 .. Len(t)
            BY <2>1
        <2>3. \E i \in marks : \A j \in marks : i <= j
            <3> HIDE DEF marks
            <3> QED BY <1>3, <2>2, LeastNumber
        <2>4. first \in marks
            <3> HIDE DEF marks
            <3> QED BY <2>3
        <2>5. PathOf(t) = SubSeq(t, 1, first - 1)
            BY <1>3 DEF PathOf
        <2>6. first \in 1 .. Len(t)
            BY <2>2, <2>4
        <2> HIDE DEF first, marks
        <2>7. SubSeq(t, 1, first - 1) \in Seq(S)
            BY <1>1, <2>1, <2>6, SubSeqProperties
        <2> QED BY <2>5, <2>7
    <1> QED BY <1>2, <1>3

(* The code in the path of a GET that has one.                             *)
LEMMA CodeInPath ==
    ASSUME exchange \in HttpRequest, exchange.method = "GET",
           IsCodePath(Path), Codes!IsCode(Code)
    PROVE  /\ Codes!ValueOf(Code) \in 0 .. MaxValue
           /\ Codes!CodeOf[Codes!ValueOf(Code)] = Code
    <1>1. exchange.target \in Target
        BY DEF HttpRequest
    <1>2. PICK S : Path \in Seq(S)
        BY <1>1, PathIsSeq DEF Path
    <1>3. Code \in Seq(S)
        BY <1>2, HeadTailProperties DEF Code, CodeIn, IsCodePath
    <1> QED BY <1>3, NumberOfCode

(* The code of an id is a code with that value.                            *)
LEMMA CodeOfId ==
    ASSUME NEW id \in Records!Id
    PROVE  Codes!IsCode(Codes!CodeOf[id]) /\ Codes!ValueOf(Codes!CodeOf[id]) = id
    <1>1. id \in 0 .. MaxValue
        BY ShortenerAssumption DEF Records!Id
    <1> QED BY <1>1, CodeOfNumber

(* The code of an id, its short URL and the JSON text of both fit their    *)
(* buffers when there is room for the longest code.                        *)
LEMMA CodesOfIdsFit ==
    ASSUME NEW id \in Records!Id, OffersRoom
    PROVE  CreationFits(Codes!CodeOf[id])
    <1>1. id \in Nat /\ MaxId \in Nat /\ id \in 0 .. MaxId
        BY ShortenerAssumption DEF Records!Id
    <1>2. Len(Codes!CodeOf[id]) <= Len(Codes!CodeOf[MaxId])
        BY <1>1, BaseSystem, CodeOfIsCoding, CodesGrow
    <1>3. ASSUME NEW v \in Nat PROVE Len(Codes!CodeOf[v]) \in Nat
        <2>1. Codes!CodeOf[v] \in Seq(CharsOf(Base, Alphabet))
            BY BaseSystem, CodeOfIsCoding, CodesAreCodes DEF IsCodeOf
        <2> QED BY <2>1
    <1> DEFINE n == Len(Codes!CodeOf[id])
               m == Len(Codes!CodeOf[MaxId])
    <1>4. n \in Nat /\ m \in Nat /\ n <= m
        BY <1>1, <1>2, <1>3
    <1>5. m <= MaxEncodedLength
        BY LengthAssumption
    <1>0. /\ MaxEncodedLength \in Nat /\ MaxCodeLength \in Nat
          /\ BaseUrlLength \in Nat /\ JsonCapacity \in Nat /\ MaxBody \in Nat
          /\ 26 + BaseUrlLength + 1 + 2 * MaxCodeLength < JsonCapacity
          /\ 26 + BaseUrlLength + 1 + 2 * MaxCodeLength <= MaxBody
        BY LengthAssumption
    <1> HIDE DEF n, m
    <1>6. n <= MaxCodeLength
        BY <1>0, <1>4, <1>5 DEF OffersRoom, CodeCapacity
    <1>7. /\ n < CodeCapacity
          /\ BaseUrlLength + 1 + n < ShortUrlCapacity
          /\ 26 + n + (BaseUrlLength + 1 + n) < JsonCapacity
          /\ 26 + n + (BaseUrlLength + 1 + n) <= MaxBody
        BY <1>0, <1>4, <1>6 DEF CodeCapacity, ShortUrlCapacity
    <1> QED BY <1>7 DEF CreationFits, JsonLength, ShortUrlLength, n

(* What follows the slash of a route is its name.                          *)
LEMMA RouteName ==
    ASSUME NEW name \in Reserved, IsRoute(name)
    PROVE  Code \in Reserved
    <1>1. PICK S : name \in Seq(S)
        <2>1. CASE name = <<>>
            BY <2>1
        <2>2. CASE name \in {Health, Shorten}
            BY <2>2, ShortenerAssumption
        <2> QED BY <2>1, <2>2 DEF Reserved
    <1>2. Tail(<<Slash>> \o name) = name
        <2> DEFINE T == S \cup {Slash}
        <2>1. name \in Seq(T) /\ <<Slash>> \in Seq(T)
            BY <1>1
        <2> QED BY <2>1
    <1> QED BY <1>2 DEF IsRoute, Code, CodeIn

-----------------------------------------------------------------------------
(* Without a response there is nothing to say of it.                       *)
LEMMA NoAnswer ==
    ASSUME response' = None
    PROVE  AnswerInv'
    BY DEF AnswerInv, ShortUrlsResolve, OneCodeForARecord, MissingIsNotMalformed,
           IsAnsweredGet

(* Nor of the response to another method, unless it redirects.             *)
LEMMA OtherAnswer ==
    ASSUME (exchange.method # "GET" \/ ~IsCodePath(Path) \/ Code \in Reserved)',
           response'.status # 302
    PROVE  AnswerInv'
    <1>1. (Code \notin Reserved => ~IsAnsweredGet)'
        BY DEF IsAnsweredGet
    <1> QED BY <1>1 DEF AnswerInv, ShortUrlsResolve, OneCodeForARecord,
                        MissingIsNotMalformed

(* The records that a call under way has stored.                           *)
LEMMA PendingIs ==
    ASSUME CreateInv
    PROVE  /\ pc \notin {"insert", "inserted"} => Pending = {}
           /\ pc = "insert" => Pending = {stored} \ {0}
           /\ pc = "inserted" /\ reply = Internal => Pending = {}
           /\ \A id : pc = "inserted" /\ reply = Records!Stored(id) =>
                         Pending = {id}
           /\ Pending \subseteq DOMAIN records
    <1>1. Internal.status # "OK"
        BY DEF Internal, Records!Failed
    <1>2. ASSUME NEW id PROVE /\ Records!Stored(id).status = "OK"
                              /\ Records!Stored(id).id = id
        BY DEF Records!Stored
    <1>3. pc # "insert" => stored = 0
        BY DEF CreateInv
    <1> QED BY <1>1, <1>2, <1>3 DEF CreateInv, Pending

(* What is stored stays as it is when neither it nor what was promised     *)
(* changes.                                                                *)
LEMMA DataKept ==
    ASSUME DataInv, records' = records, promised' = promised, Owned' = Owned,
           orphans' \subseteq DOMAIN records
    PROVE  DataInv'
    BY DEF DataInv

(* A code that was given out is that of its record.                        *)
LEMMA PromisedRecord ==
    ASSUME DataInv, NEW c \in DOMAIN promised
    PROVE  \E id \in DOMAIN records :
              /\ id \in Records!Id /\ Codes!CodeOf[id] = c
              /\ promised[c] = records[id]
    BY DEF DataInv, Owned

-----------------------------------------------------------------------------
(* The inductive invariant holds initially.                                *)
LEMMA InitInv == Init => Inv
    <1> SUFFICES ASSUME Init PROVE Inv
        OBVIOUS
    <1>1. DOMAIN records = {} /\ stored = 0 /\ DOMAIN promised = {} /\ pc = "off"
          /\ response = None /\ orphans = {}
        BY DEF Init, Records!Init
    <1>2. DataInv
        BY <1>1 DEF DataInv, Owned
    <1>3. CreateInv /\ ResolveInv /\ ControlInv
        BY <1>1 DEF CreateInv, ResolveInv, ControlInv
    <1>4. AnswerInv
        BY <1>1 DEF AnswerInv, ShortUrlsResolve, OneCodeForARecord,
                    MissingIsNotMalformed, IsAnsweredGet
    <1> QED BY <1>2, <1>3, <1>4 DEF Inv

(* The process starts.                                                     *)
LEMMA StartInv == Inv /\ Start => Inv'
    <1> SUFFICES ASSUME Inv, Start PROVE Inv'
        OBVIOUS
    <1> USE DEF Start, repository, history
    <1>1. response' = None
        BY DEF Inv, ControlInv
    <1>2. CreateInv' /\ ResolveInv' /\ ControlInv'
        BY <1>1 DEF Inv, CreateInv, ResolveInv, ControlInv
    <1>3. Owned' = Owned
        BY DEF Owned, Pending
    <1>4. DataInv'
        BY <1>3, DataKept DEF Inv, DataInv
    <1>5. AnswerInv'
        BY <1>1, NoAnswer
    <1> QED BY <1>2, <1>4, <1>5 DEF Inv

(* A request arrives.                                                      *)
LEMMA ReceiveInv == Inv /\ Receive => Inv'
    <1> SUFFICES ASSUME Inv, Receive PROVE Inv'
        OBVIOUS
    <1> USE DEF Receive, repository, history
    <1>1. stored = 0
        BY DEF Inv, CreateInv
    <1>2. CreateInv' /\ ResolveInv' /\ ControlInv'
        BY <1>1 DEF Inv, CreateInv, ResolveInv, ControlInv
    <1>3. Owned' = Owned
        BY DEF Owned, Pending
    <1>4. DataInv'
        BY <1>3, DataKept DEF Inv, DataInv
    <1>5. AnswerInv'
        BY NoAnswer
    <1> QED BY <1>2, <1>4, <1>5 DEF Inv

(* A response other than a redirection that leaves everything else alone.  *)
LEMMA PlainResponse ==
    ASSUME Inv, NEW status \in {200, 400, 404, 405, 500},
           Respond(Plain(status)), UNCHANGED <<repository, promised>>,
           pc \in {"route", "create", "resolve"}
    PROVE  /\ DataInv' /\ CreateInv' /\ ResolveInv' /\ ControlInv'
           /\ response'.status = status
    <1> USE DEF Respond, repository
    <1>1. stored = 0
        BY DEF Inv, CreateInv
    <1>2. CreateInv' /\ ResolveInv' /\ ControlInv'
        BY <1>1 DEF Inv, CreateInv, ResolveInv, ControlInv
    <1>3. Owned' = Owned
        BY DEF Owned, Pending
    <1>4. DataInv'
        BY <1>3, DataKept DEF Inv, DataInv
    <1> QED BY <1>2, <1>4 DEF Plain

(* The router decides.                                                     *)
LEMMA RouteInv == Inv /\ Route => Inv'
    <1> SUFFICES ASSUME Inv, Route PROVE Inv'
        OBVIOUS
    <1>0. pc = "route" /\ stored = 0 /\ response = None /\ exchange \in HttpRequest
        BY DEF Route, Inv, CreateInv, ControlInv
    <1>1. ASSUME NEW status \in {200, 404, 405}, Respond(Plain(status)),
                 UNCHANGED promised,
                 exchange.method # "GET" \/ ~IsCodePath(Path) \/ Code \in Reserved
          PROVE  Inv'
        <2>1. UNCHANGED <<repository, promised, exchange>>
            BY <1>1 DEF Route, Respond
        <2>2. /\ DataInv' /\ CreateInv' /\ ResolveInv' /\ ControlInv'
              /\ response'.status = status
            BY <1>0, <1>1, <2>1, PlainResponse
        <2>3. (exchange.method # "GET" \/ ~IsCodePath(Path) \/ Code \in Reserved)'
            BY <1>1, <2>1 DEF Path, Code, CodeIn
        <2>4. AnswerInv'
            BY <2>2, <2>3, OtherAnswer
        <2> QED BY <2>2, <2>4 DEF Inv
    <1>2. CASE Destination = "nowhere"
        <2>1. ~IsCodePath(Path)
            BY <1>2 DEF Destination
        <2>2. Respond(Plain(404)) /\ UNCHANGED promised
            BY <1>2, <1>0 DEF Route
        <2> QED BY <2>1, <2>2, <1>1
    <1>3. ASSUME Destination \in {"constant", "create"} PROVE Code \in Reserved
        BY <1>3, RouteName DEF Destination, Reserved
    <1>4. CASE Destination # "nowhere" /\ exchange.method # Allowed
        <2>1. Respond(Plain(405)) /\ UNCHANGED promised
            BY <1>4, <1>0 DEF Route
        <2>2. exchange.method # "GET" \/ Code \in Reserved
            BY <1>4, <1>3 DEF Allowed
        <2> QED BY <2>1, <2>2, <1>1
    <1>5. CASE Destination = "constant" /\ exchange.method = Allowed
        <2>1. Respond(Plain(200)) /\ UNCHANGED promised
            BY <1>5, <1>0 DEF Route
        <2> QED BY <2>1, <1>3, <1>5, <1>1
    <1>6. CASE Destination \in {"create", "resolve"} /\ exchange.method = Allowed
        <2>1. Continue(Destination) /\ UNCHANGED repository
            BY <1>6, <1>0 DEF Route
        <2> USE <2>1 DEF Continue, repository, history
        <2>2. Destination = "create" => exchange.method = "POST"
            BY <1>6 DEF Allowed
        <2>3. Destination = "resolve" => exchange.method = "GET" /\ IsCodePath(Path)
            BY <1>6 DEF Allowed, Destination
        <2>4. CreateInv' /\ ControlInv'
            BY <1>0, <1>6, <2>2 DEF Inv, CreateInv, ControlInv
        <2>5. ResolveInv'
            BY <1>0, <1>6, <2>3 DEF Inv, ResolveInv, Path
        <2>6. Owned' = Owned
            BY <1>0, <1>6 DEF Owned, Pending
        <2>7. DataInv'
            BY <2>6, DataKept DEF Inv, DataInv
        <2>8. AnswerInv'
            BY <1>0, NoAnswer
        <2> QED BY <2>4, <2>5, <2>7, <2>8 DEF Inv
    <1> QED BY <1>0, <1>2, <1>4, <1>5, <1>6 DEF Route

-----------------------------------------------------------------------------
(* A creation begins, or is refused.                                       *)
LEMMA CreateStepInv == Inv /\ Create => Inv'
    <1> SUFFICES ASSUME Inv, Create PROVE Inv'
        OBVIOUS
    <1>0. /\ pc = "create" /\ stored = 0 /\ response = None
          /\ exchange \in HttpRequest /\ exchange.method = "POST"
        BY DEF Create, Inv, CreateInv, ControlInv
    <1>1. CASE \E status \in {400, 500} :
                  Respond(Plain(status)) /\ UNCHANGED <<repository, promised>>
        <2>1. PICK status \in {400, 500} :
                  Respond(Plain(status)) /\ UNCHANGED <<repository, promised>>
            BY <1>1
        <2>2. /\ DataInv' /\ CreateInv' /\ ResolveInv' /\ ControlInv'
              /\ response'.status = status
            BY <1>0, <2>1, PlainResponse
        <2>3. exchange'.method # "GET"
            BY <1>0, <2>1 DEF Respond
        <2>4. AnswerInv'
            BY <2>2, <2>3, OtherAnswer
        <2> QED BY <2>2, <2>4 DEF Inv
    <1>2. CASE /\ Acceptable
               /\ OffersRoom
               /\ Records!Invoke([op |-> "insert", url |-> exchange.body])
               /\ Continue("insert")
        <2> USE <1>2 DEF Records!Invoke, Continue, history
        <2>1. CreateInv' /\ ControlInv'
            BY <1>0 DEF Inv, CreateInv, ControlInv, Acceptable, OffersRoom,
                        CodeCapacity
        <2>2. ResolveInv'
            BY <1>0 DEF Inv, ResolveInv
        <2>3. Owned' = Owned
            BY <1>0 DEF Owned, Pending
        <2>4. DataInv'
            BY <2>3, DataKept DEF Inv, DataInv
        <2>5. AnswerInv'
            BY <1>0, NoAnswer
        <2> QED BY <2>1, <2>2, <2>4, <2>5 DEF Inv
    <1> QED BY <1>1, <1>2 DEF Create

(* A record is stored, or the insertion is answered.                       *)
LEMMA InsertInv == Inv /\ Insert => Inv'
    <1> SUFFICES ASSUME Inv, Insert PROVE Inv'
        OBVIOUS
    <1>0. /\ pc = "insert" /\ response = None /\ response' = None
          /\ UNCHANGED <<exchange, promised, orphans>>
          /\ Acceptable /\ OffersRoom
          /\ request.url = exchange.body /\ exchange.method = "POST"
        BY DEF Insert, Continue, history, Inv, CreateInv, ControlInv
    <1>1. AnswerInv'
        BY <1>0, NoAnswer
    <1>2. ControlInv' /\ ResolveInv'
        BY <1>0 DEF Insert, Continue, Inv, ControlInv, ResolveInv
    <1>3. CASE Records!Store /\ Continue("insert")
        <2>1. PICK id \in Records!Id :
                  /\ \A i \in DOMAIN records : i < id
                  /\ records' = Records!Added(records, id, request.url)
                  /\ stored' = id
            BY <1>3 DEF Records!Store
        <2>2. /\ stored = 0 /\ pc' = "insert" /\ UNCHANGED <<request, reply>>
            BY <1>3 DEF Records!Store, Continue
        <2>3. id \notin DOMAIN records /\ id # 0
            BY <2>1, ShortenerAssumption DEF Inv, DataInv, Records!Id
        <2>4. /\ DOMAIN records' = DOMAIN records \cup {id}
              /\ records'[id] = exchange.body
              /\ \A k \in DOMAIN records : records'[k] = records[k]
            <3>1. records' = Records!Added(records, id, exchange.body)
                BY <1>0, <2>1
            <3> QED BY <2>3, <3>1 DEF Records!Added
        <2>5. Pending = {} /\ Pending' = {id}
            BY <1>0, <2>1, <2>2, <2>3 DEF Pending
        <2>6. id \notin orphans
            BY <2>3 DEF Inv, DataInv
        <2>7. Owned' = Owned
            BY <2>3, <2>4, <2>5, <1>0 DEF Owned
        <2>8. DataInv'
            <3>1. exchange.body \in WellFormed /\ Length[exchange.body] <= MaxUrlLength
                BY <1>0 DEF Acceptable
            <3>2. \A k \in Owned : k \in DOMAIN records /\ records'[k] = records[k]
                BY <2>4 DEF Owned
            <3> QED BY <1>0, <2>1, <2>4, <2>7, <3>1, <3>2 DEF Inv, DataInv
        <2>9. CreateInv'
            BY <1>0, <2>1, <2>2, <2>4, <2>6
               DEF Inv, CreateInv, Acceptable, OffersRoom, CodeCapacity
        <2> QED BY <1>1, <1>2, <2>8, <2>9 DEF Inv
    <1>4. CASE Records!AnswerInsert /\ Continue("inserted")
        <2>1. /\ pc' = "inserted" /\ UNCHANGED <<records, request>> /\ stored' = 0
              /\ reply' = IF stored = 0 THEN Internal ELSE Records!Stored(stored)
            BY <1>4 DEF Records!AnswerInsert, Records!Answer, Continue, Internal
        <2>2. CreateInv'
            BY <1>0, <2>1
               DEF Inv, CreateInv, Acceptable, OffersRoom, CodeCapacity, Internal,
                   Records!Failed, Records!Stored
        <2>3. Pending = {stored} \ {0}
            BY <1>0, PendingIs DEF Inv
        <2>4. Pending' = Pending
            <3>1. Internal.status # "OK" /\ Records!Stored(stored).status = "OK"
                  /\ Records!Stored(stored).id = stored
                BY DEF Internal, Records!Failed, Records!Stored
            <3> QED BY <2>1, <2>3, <3>1 DEF Pending
        <2>5. DataInv'
            BY <1>0, <2>1, <2>4, DataKept DEF Inv, DataInv, Owned
        <2> QED BY <1>1, <1>2, <2>2, <2>5 DEF Inv
    <1> QED BY <1>3, <1>4 DEF Insert

(* The code is given out, or the failure is reported.                      *)
LEMMA InsertedInv == Inv /\ Inserted => Inv'
    <1> SUFFICES ASSUME Inv, Inserted PROVE Inv'
        OBVIOUS
    <1>0. /\ pc = "inserted" /\ response = None /\ stored = 0
          /\ pc' = "idle" /\ UNCHANGED <<repository, exchange, orphans>>
          /\ exchange.method = "POST" /\ exchange \in HttpRequest
          /\ Acceptable /\ OffersRoom
        BY DEF Inserted, Respond, Inv, CreateInv, ControlInv
    <1> USE DEF repository
    <1>1. CreateInv' /\ ResolveInv' /\ ControlInv'
        BY <1>0 DEF Inv, CreateInv, ResolveInv, ControlInv
    <1>2. Pending' = {}
        BY <1>0 DEF Pending
    <1>3. AnswerInv'
        <2>1. response'.status # 302
            BY DEF Inserted, Respond, Creation, Plain
        <2> QED BY <1>0, <2>1, OtherAnswer
    <1>4. CASE reply = Internal
        <2>1. promised' = promised
            BY <1>4 DEF Inserted, Internal, Records!Failed
        <2>2. Pending = {}
            BY <1>0, <1>4, PendingIs DEF Inv
        <2>3. Owned' = Owned
            BY <1>0, <1>2, <2>2 DEF Owned
        <2>4. DataInv'
            BY <1>0, <2>1, <2>3, DataKept DEF Inv, DataInv
        <2> QED BY <1>1, <1>3, <2>4 DEF Inv
    <1>5. CASE reply # Internal
        <2>1. PICK id \in DOMAIN records \ orphans :
                  reply = Records!Stored(id) /\ records[id] = exchange.body
            BY <1>0, <1>5 DEF Inv, CreateInv
        <2>2. /\ reply.status = "OK" /\ GivenCode = Codes!CodeOf[id]
              /\ CreationFits(Codes!CodeOf[id])
            BY <1>0, <2>1, CodesOfIdsFit DEF Records!Stored, GivenCode, Inv, DataInv
        <2>3. promised' = Records!Added(promised, Codes!CodeOf[id], exchange.body)
            BY <2>2 DEF Inserted
        <2>4. Pending = {id}
            BY <1>0, <2>1, PendingIs DEF Inv
        <2>5. Owned' = Owned \cup {id} /\ id \notin Owned /\ Owned \subseteq Records!Id
            BY <1>0, <1>2, <2>1, <2>4 DEF Owned, Inv, DataInv
        <2>6. /\ DOMAIN promised' = DOMAIN promised \cup {Codes!CodeOf[id]}
              /\ promised'[Codes!CodeOf[id]] = records[id]
              /\ \A c \in DOMAIN promised \ {Codes!CodeOf[id]} :
                    promised'[c] = promised[c]
            BY <2>1, <2>3 DEF Records!Added
        <2>7. \A k \in Owned' : Codes!CodeOf[k] \in DOMAIN promised'
            BY <2>5, <2>6 DEF Inv, DataInv
        <2>8. \A c \in DOMAIN promised' : \E k \in Owned' :
                  Codes!CodeOf[k] = c /\ promised'[c] = records[k]
            <3> SUFFICES ASSUME NEW c \in DOMAIN promised'
                         PROVE  \E k \in Owned' :
                                    Codes!CodeOf[k] = c /\ promised'[c] = records[k]
                OBVIOUS
            <3>1. CASE c = Codes!CodeOf[id]
                BY <2>5, <2>6, <3>1
            <3>2. CASE c # Codes!CodeOf[id]
                <4>1. c \in DOMAIN promised /\ promised'[c] = promised[c]
                    BY <2>6, <3>2
                <4> QED BY <2>5, <4>1 DEF Inv, DataInv
            <3> QED BY <3>1, <3>2
        <2>9. DataInv'
            BY <1>0, <2>7, <2>8 DEF Inv, DataInv
        <2> QED BY <1>1, <1>3, <2>9 DEF Inv
    <1> QED BY <1>4, <1>5

-----------------------------------------------------------------------------
(* A code that a GET asks for is looked at.                                *)
LEMMA ResolveStepInv == Inv /\ Resolve => Inv'
    <1> SUFFICES ASSUME Inv, Resolve PROVE Inv'
        OBVIOUS
    <1>0. /\ pc = "resolve" /\ stored = 0 /\ response = None
          /\ exchange \in HttpRequest /\ exchange.method = "GET"
          /\ IsCodePath(Path)
        BY DEF Resolve, Inv, CreateInv, ResolveInv, ControlInv
    <1>1. ASSUME Codes!IsCode(Code)
          PROVE  /\ Codes!ValueOf(Code) \in 0 .. MaxValue
                 /\ Codes!CodeOf[Codes!ValueOf(Code)] = Code
        BY <1>0, <1>1, CodeInPath
    <1>2. ASSUME NEW id \in DOMAIN records, Codes!CodeOf[id] = Code
          PROVE  Codes!IsCode(Code) /\ Codes!ValueOf(Code) \in Records!Id
        BY <1>2, CodeOfId DEF Inv, DataInv
    <1>3. ASSUME NEW status \in {400, 404}, Respond(Plain(status)),
                 UNCHANGED <<repository, promised>>,
                 \A id \in DOMAIN records : Codes!CodeOf[id] # Code,
                 status = 400 <=> \A v \in 0 .. MaxValue : Codes!CodeOf[v] # Code
          PROVE  Inv'
        <2>1. /\ DataInv' /\ CreateInv' /\ ResolveInv' /\ ControlInv'
              /\ response'.status = status
            BY <1>0, <1>3, PlainResponse
        <2>2. /\ Code' = Code /\ records' = records /\ promised' = promised
              /\ MaxValue' = MaxValue
            BY <1>3 DEF Respond, Code, Path, CodeIn, repository
        <2>3. Code \notin DOMAIN promised
            BY <1>3, PromisedRecord DEF Inv
        <2>4. AnswerInv'
            BY <1>3, <2>1, <2>2, <2>3
               DEF AnswerInv, ShortUrlsResolve, OneCodeForARecord,
                   MissingIsNotMalformed
        <2> QED BY <2>1, <2>4 DEF Inv
    <1>4. CASE ~Codes!IsCode(Code)
        <2>1. Respond(Plain(400)) /\ UNCHANGED <<repository, promised>>
            BY <1>4 DEF Resolve
        <2>2. \A v \in 0 .. MaxValue : Codes!CodeOf[v] # Code
            BY <1>4, CodeOfNumber
        <2>3. \A id \in DOMAIN records : Codes!CodeOf[id] # Code
            BY <1>2, <1>4
        <2> QED BY <2>1, <2>2, <2>3, <1>3
    <1>5. CASE Codes!IsCode(Code) /\ Codes!ValueOf(Code) \notin Records!Id
        <2>1. Respond(Plain(404)) /\ UNCHANGED <<repository, promised>>
            BY <1>5 DEF Resolve
        <2>2. ~ \A v \in 0 .. MaxValue : Codes!CodeOf[v] # Code
            BY <1>5, <1>1
        <2>3. \A id \in DOMAIN records : Codes!CodeOf[id] # Code
            BY <1>2, <1>5
        <2> QED BY <2>1, <2>2, <2>3, <1>3
    <1>6. CASE /\ Codes!IsCode(Code) /\ Codes!ValueOf(Code) \in Records!Id
               /\ Records!Invoke([op |-> "find", id |-> Codes!ValueOf(Code),
                                  capacity |-> FindCapacity])
               /\ Continue("find")
        <2> USE <1>6 DEF Records!Invoke, Continue, history
        <2>1. CreateInv' /\ ControlInv'
            BY <1>0 DEF Inv, CreateInv, ControlInv
        <2>2. ResolveInv'
            BY <1>0 DEF Inv, ResolveInv, Code, Path, FindCapacity
        <2>3. Owned' = Owned
            BY <1>0 DEF Owned, Pending
        <2>4. DataInv'
            BY <2>3, DataKept DEF Inv, DataInv
        <2>5. AnswerInv'
            BY <1>0, NoAnswer
        <2> QED BY <2>1, <2>2, <2>4, <2>5 DEF Inv
    <1> QED BY <1>4, <1>5, <1>6 DEF Resolve

(* The table is searched: URLs fit in the buffer, so that nothing but an   *)
(* internal error keeps a record from being found.                         *)
LEMMA FindInv == Inv /\ Find => Inv'
    <1> SUFFICES ASSUME Inv, Find PROVE Inv'
        OBVIOUS
    <1>0. /\ pc = "find" /\ pc' = "found" /\ response = None /\ stored = 0
          /\ stored' = 0
          /\ UNCHANGED <<records, request, exchange, response, promised, orphans>>
          /\ request.id \in Records!Id /\ request.capacity = FindCapacity
          /\ request.op = "find"
        BY DEF Find, Records!AnswerFind, Records!Answer, Continue, history,
               Inv, CreateInv, ResolveInv, ControlInv
    <1>1. CreateInv' /\ ControlInv'
        BY <1>0 DEF Inv, CreateInv, ControlInv
    <1>2. \/ reply' = Internal
          \/ /\ reply' = Records!Failed("NOT_FOUND")
             /\ request.id \notin DOMAIN records
          \/ /\ request.id \in DOMAIN records
             /\ reply' = Records!Found(records[request.id])
        <2>1. request.id # 0 /\ request.capacity # 0
            BY <1>0, ShortenerAssumption DEF Records!Id, FindCapacity
        <2>2. request.id \in DOMAIN records =>
                  Length[records[request.id]] < request.capacity
            BY <1>0, ShortenerAssumption DEF FindCapacity, Inv, DataInv
        <2> QED BY <2>1, <2>2
                DEF Find, Records!AnswerFind, Records!Answer, Internal
    <1>3. ResolveInv'
        BY <1>0, <1>2 DEF Inv, ResolveInv, Code, Path, FindCapacity, Internal
    <1>4. Owned' = Owned
        BY <1>0 DEF Owned, Pending
    <1>5. DataInv'
        BY <1>0, <1>4, DataKept DEF Inv, DataInv
    <1>6. AnswerInv'
        BY <1>0, NoAnswer
    <1> QED BY <1>1, <1>3, <1>5, <1>6 DEF Inv

(* The client is redirected, or told that there is no such record.         *)
LEMMA FoundInv == Inv /\ Found => Inv'
    <1> SUFFICES ASSUME Inv, Found PROVE Inv'
        OBVIOUS
    <1>0. /\ pc = "found" /\ pc' = "idle" /\ response = None /\ stored = 0
          /\ UNCHANGED <<repository, exchange, promised, orphans>>
          /\ exchange \in HttpRequest /\ exchange.method = "GET"
          /\ IsCodePath(Path)
          /\ Codes!IsCode(Code) /\ request.id = Codes!ValueOf(Code)
          /\ request.id \in Records!Id
        BY DEF Found, Respond, Inv, CreateInv, ResolveInv, ControlInv
    <1> USE DEF repository
    <1>1. CreateInv' /\ ResolveInv' /\ ControlInv'
        BY <1>0 DEF Inv, CreateInv, ResolveInv, ControlInv
    <1>2. Owned' = Owned
        BY <1>0 DEF Owned, Pending
    <1>3. DataInv'
        BY <1>0, <1>2, DataKept DEF Inv, DataInv
    <1>4. Codes!CodeOf[request.id] = Code /\ request.id \in 0 .. MaxValue
        BY <1>0, CodeInPath
    <1>5. Code' = Code
        BY <1>0 DEF Code, Path, CodeIn
    <1>6. ASSUME NEW id \in DOMAIN records, Codes!CodeOf[id] = Code
          PROVE  id = request.id
        BY <1>0, <1>4, <1>6, CodesDiffer DEF Inv, DataInv
    <1>7. ASSUME Code \in DOMAIN promised
          PROVE  request.id \in DOMAIN records
                 /\ promised[Code] = records[request.id]
        BY <1>6, <1>7, PromisedRecord DEF Inv
    <1>8. AnswerInv'
        <2>1. CASE reply = Internal
            <3>1. response' = Plain(500)
                BY <2>1 DEF Found, Respond, Internal, Records!Failed, StatusOf
            <3>2. response'.status = 500
                BY <3>1 DEF Plain
            <3> QED BY <1>0, <1>4, <1>5, <2>1, <3>1, <3>2
                    DEF AnswerInv, ShortUrlsResolve, OneCodeForARecord,
                        MissingIsNotMalformed, Internal
        <2>2. CASE /\ reply = Records!Failed("NOT_FOUND")
                   /\ request.id \notin DOMAIN records
            <3>1. response'.status = 404
                BY <2>2 DEF Found, Respond, Plain, Records!Failed, StatusOf
            <3>2. Code \notin DOMAIN promised
                BY <1>7, <2>2
            <3>3. \A id \in DOMAIN records : Codes!CodeOf[id] # Code
                BY <1>6, <2>2
            <3> QED BY <1>0, <1>4, <1>5, <3>1, <3>2, <3>3
                    DEF AnswerInv, ShortUrlsResolve, OneCodeForARecord,
                        MissingIsNotMalformed
        <2>3. CASE /\ request.id \in DOMAIN records
                   /\ reply = Records!Found(records[request.id])
            <3>1. response' = Redirection(records[request.id])
                BY <2>3 DEF Found, Respond, Records!Found
            <3>2. response'.status = 302 /\ response'.location = records[request.id]
                BY <3>1 DEF Redirection
            <3>3. ShortUrlsResolve'
                BY <1>0, <1>5, <1>7, <3>1 DEF ShortUrlsResolve, Redirection
            <3>4. OneCodeForARecord'
                BY <1>0, <1>4, <1>5, <2>3, <3>2 DEF OneCodeForARecord
            <3>5. MissingIsNotMalformed'
                BY <1>0, <1>4, <1>5, <3>2 DEF MissingIsNotMalformed
            <3> QED BY <3>3, <3>4, <3>5 DEF AnswerInv
        <2> QED BY <1>0, <2>1, <2>2, <2>3 DEF Inv, ResolveInv
    <1> QED BY <1>1, <1>3, <1>8 DEF Inv

(* The process dies: what it stored for nobody has no owner.               *)
LEMMA StopInv == Inv /\ Stop => Inv'
    <1> SUFFICES ASSUME Inv, Stop PROVE Inv'
        OBVIOUS
    <1>0. /\ pc' = "off" /\ response' = None /\ stored' = 0
          /\ records' = records /\ promised' = promised
          /\ orphans' = orphans \cup Pending
        BY DEF Stop, Records!Stop
    <1>1. CreateInv' /\ ResolveInv' /\ ControlInv'
        BY <1>0 DEF CreateInv, ResolveInv, ControlInv
    <1>2. Owned' = Owned /\ orphans' \subseteq DOMAIN records
        BY <1>0, PendingIs DEF Owned, Pending, Inv, DataInv
    <1>3. DataInv'
        BY <1>0, <1>2, DataKept DEF Inv
    <1>4. AnswerInv'
        BY <1>0, NoAnswer
    <1> QED BY <1>1, <1>3, <1>4 DEF Inv

(* Nothing happens.                                                        *)
LEMMA StutterInv == Inv /\ UNCHANGED vars => Inv'
    <1> SUFFICES ASSUME Inv, UNCHANGED vars PROVE Inv'
        OBVIOUS
    <1> USE DEF vars, repository, history
    <1>1. DataInv'
        BY DEF Inv, DataInv, Owned, Pending
    <1>2. CreateInv' /\ ResolveInv' /\ ControlInv'
        BY DEF Inv, CreateInv, ResolveInv, ControlInv, Acceptable, Path, Code
    <1>3. AnswerInv'
        BY DEF Inv, AnswerInv, ShortUrlsResolve, OneCodeForARecord,
               MissingIsNotMalformed, IsAnsweredGet, Path, Code
    <1> QED BY <1>1, <1>2, <1>3 DEF Inv

(* The invariant is inductive.                                             *)
LEMMA NextInv == Inv /\ [Next]_vars => Inv'
    BY StartInv, ReceiveInv, RouteInv, CreateStepInv, InsertInv, InsertedInv,
       ResolveStepInv, FindInv, FoundInv, StopInv, StutterInv DEF Next

(* It holds in every reachable state.                                      *)
LEMMA Invariance == Spec => []Inv
    BY InitInv, NextInv, PTL DEF Spec

-----------------------------------------------------------------------------
(* Codes that were given out lead to their own URLs (ShortUrlsResolve).    *)
THEOREM PromisedCodesResolve == Spec => []ShortUrlsResolve
    <1>1. Inv => ShortUrlsResolve
        BY DEF Inv, AnswerInv
    <1> QED BY <1>1, Invariance, PTL

(* Only its own code leads to a record (OneCodeForARecord).                *)
THEOREM RecordsHaveOneCode == Spec => []OneCodeForARecord
    <1>1. Inv => OneCodeForARecord
        BY DEF Inv, AnswerInv
    <1> QED BY <1>1, Invariance, PTL

(* 400 and 404 are never confused (MissingIsNotMalformed).                 *)
THEOREM MissingIsTold == Spec => []MissingIsNotMalformed
    <1>1. Inv => MissingIsNotMalformed
        BY DEF Inv, AnswerInv
    <1> QED BY <1>1, Invariance, PTL

(* Every record belongs to a code that was given out, or to an exchange    *)
(* that died: the codes of the owned records are those that were promised, *)
(* one for each (RecordsHaveCodes).                                        *)
THEOREM NoRecordWithoutCode == Spec => []RecordsHaveCodes
    <1>1. Inv => RecordsHaveCodes
        <2> SUFFICES ASSUME Inv PROVE RecordsHaveCodes
            OBVIOUS
        <2> DEFINE f == [id \in Owned |-> Codes!CodeOf[id]]
        <2>1. Owned \subseteq Records!Id
            BY DEF Inv, DataInv, Owned
        <2>2. IsFiniteSet(Owned)
            <3>1. IsFiniteSet(1 .. MaxId)
                BY FS_Interval, ShortenerAssumption
            <3> QED BY <2>1, <3>1, FS_Subset DEF Records!Id
        <2>3. f \in Bijection(Owned, DOMAIN promised)
            <3>1. f \in [Owned -> DOMAIN promised]
                BY DEF Inv, DataInv
            <3>2. \A a, b \in Owned : f[a] = f[b] => a = b
                BY <2>1, CodesDiffer
            <3>3. \A c \in DOMAIN promised : \E id \in Owned : f[id] = c
                BY DEF Inv, DataInv
            <3> QED BY <3>1, <3>2, <3>3, Fun_IsBij
        <2>4. Cardinality(DOMAIN promised) = Cardinality(Owned)
            BY <2>2, <2>3, FS_Bijection DEF ExistsBijection
        <2> QED BY <2>4 DEF RecordsHaveCodes, Owned, Inv, DataInv
    <1> QED BY <1>1, Invariance, PTL

(* A new code is no code that was given before (CodesAreFresh).            *)
THEOREM NewCodesAreFresh == Spec => CodesAreFresh
    <1> DEFINE Fresh ==
            pc = "inserted" /\ response' # None /\ response'.status = 201 =>
                /\ response'.code \notin DOMAIN promised
                /\ promised'[response'.code] = exchange.body
                /\ \A c \in DOMAIN promised : promised'[c] = promised[c]
    <1>1. Inv /\ [Next]_vars => [Fresh]_vars
        <2> SUFFICES ASSUME Inv, Next, pc = "inserted", response' # None,
                            response'.status = 201
                     PROVE  Fresh
            OBVIOUS
        <2>1. Inserted
            BY DEF Next, Start, Receive, Route, Create, Insert, Resolve, Find,
                   Found, Stop
        <2>2. reply # Internal
            BY <2>1 DEF Inserted, Respond, Plain, Internal, Records!Failed
        <2>3. PICK id \in DOMAIN records \ orphans :
                  reply = Records!Stored(id) /\ records[id] = exchange.body
            BY <2>2 DEF Inv, CreateInv
        <2>4. /\ response'.code = Codes!CodeOf[id]
              /\ promised' = Records!Added(promised, Codes!CodeOf[id], exchange.body)
            BY <2>1, <2>3
               DEF Inserted, Respond, Creation, Plain, GivenCode, Records!Stored
        <2>5. Codes!CodeOf[id] \notin DOMAIN promised
            <3>1. id \notin Owned
                BY <2>3, PendingIs DEF Owned, Inv
            <3>2. \A k \in Owned : Codes!CodeOf[k] = Codes!CodeOf[id] => k = id
                BY <2>3, CodesDiffer DEF Inv, DataInv, Owned
            <3> QED BY <3>1, <3>2 DEF Inv, DataInv
        <2> QED BY <2>3, <2>4, <2>5 DEF Records!Added
    <1> QED BY <1>1, Invariance, PTL DEF Spec, CodesAreFresh

-----------------------------------------------------------------------------
(* The types of what Inv leaves open.                                      *)
ReplyType == reply \in Records!Reply \cup {None}
RequestType == request \in Records!Request \cup {None} /\ stored \in 0 .. MaxId
ResponseType ==
    \/ response = None
    \/ response.status \in {200, 400, 404, 405, 500}
    \/ response.status = 201 /\ response.code \in DOMAIN promised
    \/ response.status = 302 /\ response.location \in WellFormed
ExchangeType == exchange \in HttpRequest \cup {None}
TypeInv == ReplyType /\ RequestType /\ ResponseType /\ ExchangeType

(* With the invariant they make up the type invariant.                     *)
LEMMA TypesAreEnough == Inv /\ TypeInv => TypeOK
    <1> SUFFICES ASSUME Inv, TypeInv PROVE TypeOK
        OBVIOUS
    <1>1. \A id \in DOMAIN records : records[id] \in WellFormed
        BY DEF Inv, DataInv
    <1>2. \A c \in DOMAIN promised : promised[c] \in WellFormed
        BY <1>1, PromisedRecord DEF Inv
    <1>3. orphans \subseteq Records!Id /\ DOMAIN records \subseteq Records!Id
        BY DEF Inv, DataInv
    <1> QED BY <1>1, <1>2, <1>3
            DEF TypeOK, TypeInv, ReplyType, RequestType, ResponseType,
                ExchangeType, Inv, ControlInv

(* What the repository answers is of its type.                             *)
LEMMA AnswersAreReplies ==
    /\ \A s \in Records!Failures : Records!Failed(s) \in Records!Reply
    /\ \A id \in Records!Id : Records!Stored(id) \in Records!Reply
    /\ \A url \in Url : Records!Found(url) \in Records!Reply
    BY DEF Records!Failed, Records!Stored, Records!Found, Records!Reply

(* Every step preserves the types.                                         *)
LEMMA NextTypes == Inv /\ TypeInv /\ [Next]_vars => TypeInv'
    <1> SUFFICES ASSUME Inv, TypeInv, [Next]_vars PROVE TypeInv'
        OBVIOUS
    <1> USE DEF repository, history, TypeInv
    <1>1. CASE Start \/ Receive
        BY <1>1 DEF Start, Receive, ReplyType, RequestType, ResponseType,
                    ExchangeType
    <1>2. ASSUME NEW status \in {200, 400, 404, 405, 500},
                 Respond(Plain(status)), UNCHANGED <<repository, promised>>
          PROVE  TypeInv'
        <2>1. response'.status = status /\ exchange' = exchange
            BY <1>2 DEF Respond, Plain
        <2> QED BY <1>2, <2>1
                DEF ReplyType, RequestType, ResponseType, ExchangeType
    <1>3. ASSUME NEW r \in Records!Request, Records!Invoke(r),
                 UNCHANGED <<exchange, response, promised>>
          PROVE  TypeInv'
        BY <1>3 DEF Records!Invoke, ReplyType, RequestType, ResponseType,
                    ExchangeType
    <1>4. CASE Route
        <2>1. CASE \E label : Continue(label)
            BY <1>4, <2>1 DEF Route, Continue, ReplyType, RequestType,
                              ResponseType, ExchangeType
        <2> QED BY <1>4, <1>2, <2>1 DEF Route
    <1>5. CASE Create
        <2>1. Acceptable => [op |-> "insert", url |-> exchange.body]
                                \in Records!Request
            BY ShortenerAssumption
               DEF Acceptable, Records!Request, Records!InsertRequest
        <2> QED BY <1>5, <1>2, <1>3, <2>1 DEF Create, Continue
    <1>6. CASE Insert
        <2>1. UNCHANGED <<exchange, response, promised, request>>
            BY <1>6 DEF Insert, Continue, Records!Store, Records!AnswerInsert,
                        Records!Answer
        <2>2. stored' \in 0 .. MaxId
            BY <1>6, ShortenerAssumption
               DEF Insert, Records!Store, Records!AnswerInsert, Records!Answer,
                   Records!Id, RequestType
        <2>3. stored # 0 => stored \in Records!Id
            BY ShortenerAssumption DEF RequestType, Records!Id
        <2>4. ReplyType'
            BY <1>6, <2>3, AnswersAreReplies
               DEF Insert, Records!Store, Records!AnswerInsert, Records!Answer,
                   Records!Failures, ReplyType
        <2> QED BY <2>1, <2>2, <2>4 DEF RequestType, ResponseType, ExchangeType
    <1>7. CASE Inserted
        <2>1. CASE Respond(Plain(500)) /\ UNCHANGED promised
            BY <1>2, <1>7, <2>1 DEF Inserted
        <2>2. CASE /\ Respond(Creation(GivenCode))
                   /\ promised' = Records!Added(promised, GivenCode, exchange.body)
            <3>1. response'.status = 201 /\ response'.code \in DOMAIN promised'
                BY <2>2 DEF Respond, Creation, Records!Added
            <3> QED BY <1>7, <2>2, <3>1
                    DEF Inserted, Respond, ReplyType, RequestType, ResponseType,
                        ExchangeType
        <2> QED BY <1>7, <2>1, <2>2 DEF Inserted
    <1>8. CASE Resolve
        <2>1. Codes!ValueOf(Code) \in Records!Id =>
                  [op |-> "find", id |-> Codes!ValueOf(Code),
                   capacity |-> FindCapacity] \in Records!Request
            BY ShortenerAssumption
               DEF Records!Request, Records!FindRequest, Records!Id, Capacity,
                   FindCapacity
        <2> QED BY <1>8, <1>2, <1>3, <2>1 DEF Resolve, Continue
    <1>9. CASE Find
        <2>1. UNCHANGED <<exchange, response, promised, request>> /\ stored' = 0
            BY <1>9 DEF Find, Continue, Records!AnswerFind, Records!Answer
        <2>2. \A id \in DOMAIN records : records[id] \in Url
            BY ShortenerAssumption DEF Inv, DataInv
        <2>3. ReplyType'
            BY <1>9, <2>2, AnswersAreReplies
               DEF Find, Records!AnswerFind, Records!Answer, Records!Failures,
                   ReplyType
        <2> QED BY <2>1, <2>3, ShortenerAssumption
                DEF RequestType, ResponseType, ExchangeType
    <1>10. CASE Found
        <2>1. \A s : StatusOf(s) \in {400, 404, 500}
            BY DEF StatusOf
        <2>2. CASE reply.status = "OK"
            <3>1. request.id \in DOMAIN records
                  /\ reply = Records!Found(records[request.id])
                BY <1>10, <2>2 DEF Found, Inv, ResolveInv, Internal,
                                   Records!Failed
            <3>2. reply.url \in WellFormed
                BY <3>1 DEF Inv, DataInv, Records!Found
            <3>3. response'.status = 302 /\ response'.location \in WellFormed
                BY <1>10, <2>2, <3>2 DEF Found, Respond, Redirection
            <3> QED BY <1>10, <3>3
                    DEF Found, Respond, ReplyType, RequestType, ResponseType,
                        ExchangeType
        <2> QED BY <1>2, <1>10, <2>1, <2>2 DEF Found
    <1>11. CASE Stop
        BY <1>11, ShortenerAssumption
           DEF Stop, Records!Stop, ReplyType, RequestType, ResponseType,
               ExchangeType
    <1>12. CASE UNCHANGED vars
        BY <1>12 DEF vars, ReplyType, RequestType, ResponseType, ExchangeType
    <1> QED BY <1>1, <1>4, <1>5, <1>6, <1>7, <1>8, <1>9, <1>10, <1>11, <1>12
            DEF Next

(* Type correctness of the shortener (TypeOK).                             *)
THEOREM TypeCorrect == Spec => []TypeOK
    <1>1. Init => TypeInv
        BY ShortenerAssumption
           DEF Init, Records!Init, TypeInv, ReplyType, RequestType, ResponseType,
               ExchangeType
    <1>2. Inv /\ TypeInv /\ [Next]_vars => TypeInv'
        BY NextTypes
    <1> QED BY <1>1, <1>2, TypesAreEnough, Invariance, PTL DEF Spec
=============================================================================
