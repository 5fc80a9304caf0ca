------------------------------ MODULE MCServer ------------------------------
(* One byte stands for many: a header section of at most three bytes and a *)
(* body of at most two leave room for every limit to be met, hit exactly   *)
(* and exceeded by one, with a byte to spare behind the request.           *)
EXTENDS Server, TLC

StreamOf(totals, lengths) ==
    UNION {[total : {n}, headerEnd : 0 .. n, badLine : 0 .. n,
            head : HeadVerdict, contentLength : lengths] : n \in totals}

(* Every stream of up to six bytes that differs for the parser.            *)
MCAllStreams ==
    {s \in StreamOf(0 .. 6, 0 .. 3) :
        /\ s.headerEnd = 0 => s.head = "OK"
        /\ s.head # "OK" \/ s.headerEnd = 0 => s.contentLength = 0
        /\ s.headerEnd # 1
        /\ s.badLine # 0 => s.badLine # s.headerEnd /\ s.head = "OK"
                            /\ s.contentLength \in {0, 1}}

(* Two of them, for the run with two clients: a complete GET and a POST    *)
(* whose body never comes whole.                                           *)
MCStream(total, headerEnd, head, contentLength) ==
    [total |-> total, headerEnd |-> headerEnd, badLine |-> 0, head |-> head,
     contentLength |-> contentLength]
MCSomeStreams ==
    {MCStream(1, 1, "OK", 0), MCStream(2, 1, "OK", 2)}
=============================================================================
