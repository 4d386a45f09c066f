----------------------------- MODULE RpcMessage -----------------------------
(***************************************************************************)
(* The messages of remote calls: remote/serialization/json.h and           *)
(* remote/serialization/boost.h.  A parameter is <<type, value>>, types    *)
(* and values as in JsonFormat.  The Json message is an object; a Boost    *)
(* archive is the sequence of <<name, value>> put into it, in order.       *)
(***************************************************************************)
EXTENDS XmlFormat

CONSTANT RightToLeft   \* the compiler evaluates function arguments from the last

ASSUME RightToLeftAssumption == RightToLeft \in BOOLEAN

HeaderTags == <<"uuid", "type", "instance", "interface", "method">>

\* What a caller of the serializer puts into a message: the header, the
\* parameters of the constructor, the ones put later (<<>>: not called, or
\* <<parameters>>) and the exception (<<>> or <<message>>).
Put(header, params, later, ex) ==
    [header |-> header, params |-> params, later |-> later, ex |-> ex]

\* The parameters the message stands for: the last ones that were put.
LastParams(m) == IF m.later = <<>> THEN m.params ELSE m.later[1]

ParamTypes(ps) == [i \in DOMAIN ps |-> ps[i][1]]
ParamValues(ps) == [i \in DOMAIN ps |-> ps[i][2]]

-----------------------------------------------------------------------------
\* Json.  PutParams replaces the "params" member.
JsonPutParams(o, ps) ==
    Fill(o, <<"params">>, <<ValueToJson(<<"tuple", ParamTypes(ps)>>, ParamValues(ps))>>)

JsonPutException(o, message) == Fill(o, <<"exception">>, <<(<<"string", message>>)>>)

\* Constructor, PutParams, PutException and GetBuffer; the text is compact.
JsonBuffer(m) ==
    LET ctor == Fill(EmptyObject, HeaderTags, [i \in 1 .. 5 |-> <<"string", m.header[i]>>])
        given == IF m.params = <<>> THEN ctor ELSE JsonPutParams(ctor, m.params)
        put == IF m.later = <<>> THEN given ELSE JsonPutParams(given, m.later[1])
    IN  Reparse(IF m.ex = <<>> THEN put ELSE JsonPutException(put, m.ex[1]), FALSE)

JsonGetParams(o, types) ==
    CASE types = <<>> -> <<(<<>>)>>
      [] types # <<>> /\ "params" \in DOMAIN o[2] -> ReadIndexed(types, o[2]["params"])
      [] OTHER -> Throws

JsonException(o) == IF "exception" \in DOMAIN o[2] THEN <<o[2]["exception"][2]>> ELSE <<>>

JsonHeader(o) == [i \in 1 .. 5 |-> o[2][HeaderTags[i]][2]]

-----------------------------------------------------------------------------
\* Boost.  A reflected struct is a tag and then its bases and its fields, by
\* the same operator in both directions; everything else is one item.
RECURSIVE Archive(_, _, _)
Archive(name, t, v) ==
    IF t[1] # "rec" THEN <<(<<name, v>>)>>
    ELSE <<(<<name, "struct">>)>> \o
         FlattenSeq([i \in DOMAIN t[3] |-> Archive(t[3][i][2], t[3][i], v[1][i])]) \o
         FlattenSeq([i \in DOMAIN t[4] |-> Archive(t[4][i][1], t[4][i][2], v[2][i])])

\* Reads one object at the head of the archive: <<value, rest>>, or Throws.
\* An XML archive compares the names.
RECURSIVE Extract(_, _, _, _)
ExtractAll(a, xml, names, types) ==
    FoldLeft(LAMBDA acc, i :
                 IF acc = Throws THEN Throws
                 ELSE LET e == Extract(acc[2], xml, names[i], types[i])
                      IN  IF e = Throws THEN Throws ELSE <<Append(acc[1], e[1]), e[2]>>,
             <<(<<>>), a>>, [i \in 1 .. Len(names) |-> i])
Extract(a, xml, name, t) ==
    CASE a = <<>> \/ (xml /\ a # <<>> /\ a[1][1] # name) -> Throws
      [] t[1] # "rec" -> <<a[1][2], Tail(a)>>
      [] OTHER ->
            LET bases == ExtractAll(Tail(a), xml, [i \in DOMAIN t[3] |-> t[3][i][2]], t[3])
            IN  IF bases = Throws THEN Throws
                ELSE LET fields == ExtractAll(bases[2], xml, [i \in DOMAIN t[4] |-> t[4][i][1]],
                                              [i \in DOMAIN t[4] |-> t[4][i][2]])
                     IN  IF fields = Throws THEN Throws ELSE <<(<<bases[1], fields[1]>>), fields[2]>>

ParamName(i) == <<"param", i>>

\* Mutant of SaveParams: the parameters are written from the first.
SaveParamsLeftToRight(ps) ==
    FlattenSeq([i \in DOMAIN ps |-> Archive(ParamName(i - 1), ps[i][1], ps[i][2])])

\* SaveTupleParams: one argument of Unused for each parameter, evaluated in
\* the order of the compiler, named from 0.
SaveParams(ps) ==
    LET order == IF RightToLeft THEN Reverse(ps) ELSE ps
        index(i) == IF RightToLeft THEN Len(ps) - i ELSE i - 1
    IN  FlattenSeq([i \in DOMAIN order |-> Archive(ParamName(index(i)), order[i][1], order[i][2])])

\* GetBuffer: the header, whether there is an exception, its message and the
\* parameters that were put last.
BoostBuffer(m) ==
    [i \in 1 .. 5 |-> <<HeaderTags[i], m.header[i]>>] \o
    <<(<<"has_exception", m.ex # <<>>>>)>> \o
    (IF m.ex = <<>> THEN <<>> ELSE <<(<<"exception", m.ex[1]>>)>>) \o
    SaveParams(LastParams(m))

\* The constructor of Deserializer: <<header, exception, rest of the archive>>.
BoostDeserializer(a) ==
    LET ex == IF a[6][2] THEN <<a[7][2]>> ELSE <<>>
    IN  <<[i \in 1 .. 5 |-> a[i][2]], ex, SubSeq(a, 7 + Len(ex), Len(a))>>

\* LoadParams: from the last parameter to the first, named from 1.
BoostGetParams(a, xml, types) ==
    LET n == Len(types)
        r == ExtractAll(a, xml, [i \in 1 .. n |-> ParamName(n + 1 - i)], Reverse(types))
    IN  IF r = Throws THEN Throws ELSE <<Reverse(r[1])>>

=============================================================================
