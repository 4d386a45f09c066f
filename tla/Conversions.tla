----------------------------- MODULE Conversions ----------------------------
(***************************************************************************)
(* The conversions of the library, one at a time: a job is an input from a *)
(* small set, its result what the code makes of it.  The properties relate *)
(* the result to the input, or to another conversion that has to agree.    *)
(***************************************************************************)
EXTENDS HttpPack, Interfaces, Config, ChainTransfer

CONSTANTS
    JsonSamples,   \* <<type, value>> written to and read from JSON
    ForeignTypes,  \* types that the documents of JsonSamples are read as
    XmlSamples,    \* <<type, value>> written to and read from XML
    Roots,         \* names of the root of a document
    Messages,      \* messages of remote calls
    Texts,         \* keys and values of the parameters of a request
    RequestPaths,  \* paths of requests
    HandlerSets,   \* sets of registered paths
    Lists,         \* lists of numbers given as one parameter
    Sizes, Chunks, \* lengths of bodies and of their portions
    Settings,      \* what a configuration file says, in either format
    SettingPaths,  \* paths that are asked for
    CrcInputs,     \* sequences of characters that have a checksum
    Registered     \* the registered interfaces, in order

vars == <<job, result>>

Init == job = Idle /\ result = <<>>

\* A document is written and read back as the same type.
ConvertJson ==
    /\ job = Idle
    /\ \E s \in JsonSamples, pretty \in BOOLEAN, root \in Roots \cup {""} :
           Convert([kind |-> "json", type |-> s[1], value |-> s[2]],
                   DeserializeJson(s[1], Reparse(SerializeJson(s[1], s[2], root), pretty), root))

\* A document is read as a type it was not written as.
ReadForeignJson ==
    /\ job = Idle
    /\ \E s \in JsonSamples, t \in ForeignTypes :
           Convert([kind |-> "foreign", type |-> t],
                   JsonToValue(t, Reparse(ValueToJson(s[1], s[2]), FALSE)))

ConvertXml ==
    /\ job = Idle
    /\ \E s \in XmlSamples, root \in Roots :
           LET name == IF s[1][1] = "rec" THEN "" ELSE root
           IN  Convert([kind |-> "xml", type |-> s[1], value |-> s[2]],
                       DeserializeXml(s[1], SerializeXml(s[1], s[2], name), root))

\* A message goes through one of the serializers; the receiver knows the
\* types of the parameters.
SendMessage ==
    /\ job = Idle
    /\ \E m \in Messages, codec \in {"json", "binary", "xml"} :
           LET types == ParamTypes(LastParams(m))
               json == JsonBuffer(m)
               boost == BoostDeserializer(BoostBuffer(m))
           IN  Convert([kind |-> "message", codec |-> codec, message |-> m],
                       IF codec = "json" THEN <<JsonHeader(json), JsonException(json), JsonGetParams(json, types)>>
                       ELSE <<boost[1], boost[2], BoostGetParams(boost[3], codec = "xml", types)>>)

\* A client asks for a path with two parameters, keys and values escaped; the
\* two may have one key, or be one parameter given twice.
Field(k, v) == EncodeUrl(k) \o <<(<<"=", FALSE>>)>> \o EncodeUrl(v)
Raw(text) == [i \in DOMAIN text |-> <<text[i], FALSE>>]
SendRequest ==
    /\ job = Idle
    /\ \E method \in ToSet(Methods), path \in RequestPaths, k1, k2, v1, v2 \in Texts :
           LET verb == VerbOf(method)[1]
               url == Raw(path) \o <<(<<"?", FALSE>>)>> \o Field(k1, v1) \o <<(<<"&", FALSE>>)>> \o Field(k2, v2)
           IN  /\ method \in {"Get", "Trqce"} \/ (k1 = k2 /\ v1 = v2)
               /\ Convert([kind |-> "request", method |-> method, path |-> path, params |-> <<(<<k1, v1>>), (<<k2, v2>>)>>],
                          InputPack(verb, url))

\* A list of numbers is one parameter, its items separated by ';'.
SendList ==
    /\ job = Idle
    /\ \E l \in Lists :
           LET text == FlattenSeq([i \in DOMAIN l |-> (IF i = 1 THEN <<>> ELSE <<";">>) \o l[i]])
           IN  Convert([kind |-> "list", value |-> l],
                       ParamPack(<<(<<"n", <<"list", <<"int", 32, TRUE>>>>>>), (<<"o", <<"opt", <<"string">>>>>>)>>,
                                 [k \in {"n"} |-> text]))

\* A client posts a value, the handler gives it back with its own headers.
PostValue ==
    /\ job = Idle
    /\ \E s \in JsonSamples, headers \in {{}, {<<"Content-Type", "text/plain">>}}, empty \in BOOLEAN :
           LET body == IF empty THEN <<>> ELSE <<Reparse(ValueToJson(s[1], s[2]), FALSE)>>
           IN  Convert([kind |-> "post", value |-> s[2], headers |-> headers, empty |-> empty],
                       LET r == ProcessRequest(s[1], body, headers)
                       IN  IF r = Throws THEN Throws
                           ELSE <<JsonToValue(s[1], r[1].data), r[1].headers>>)

\* A request reaches a web service, whose handler gives a value or throws.
ServeRequest ==
    /\ job = Idle
    /\ \E handlers \in HandlerSets, path \in RequestPaths, outcome \in {"value", "invalid_argument", "exception"} :
           Convert([kind |-> "serve", handlers |-> handlers, path |-> path, outcome |-> outcome],
                   LET r == OnRequest(handlers, path, outcome)
                   IN  <<FindHandler(handlers, path), r, CodeOf(StatusOf(r.code)[1])>>)

WriteBody ==
    /\ job = Idle
    /\ \E size \in Sizes, chunk \in Chunks :
           Convert([kind |-> "body", size |-> size, chunk |-> chunk], Portions(size, chunk))

Checksum == job = Idle /\ \E s \in CrcInputs : Convert([kind |-> "crc", chars |-> s], Crc32str(s))

\* The same settings as a JSON and as an XML document.  A setting is a group
\* <<"group", f>>, a list <<"list", s>>, <<"word", w>>, <<"number", n>>,
\* <<"real", n>> or <<"flag", b>>.
RECURSIVE AsJson(_)
AsJson(s) ==
    CASE s[1] = "group" -> <<"object", [k \in DOMAIN s[2] |-> AsJson(s[2][k])]>>
      [] s[1] = "list" -> <<"array", [i \in DOMAIN s[2] |-> AsJson(s[2][i])]>>
      [] s[1] = "word" -> <<"string", s>>
      [] s[1] = "number" -> <<"int", s[2]>>
      [] s[1] = "real" -> <<"double", s[2]>>
      [] s[1] = "flag" -> <<"bool", s[2]>>

RECURSIVE AsXml(_)
AsXml(s) ==
    CASE s[1] = "group" ->
            LET names == SetToSeq(DOMAIN s[2])
            IN  [NoElement EXCEPT !.children =
                    [i \in DOMAIN names |-> <<names[i], AsXml(s[2][names[i]])>>]]
      [] s[1] = "list" ->
            [NoElement EXCEPT !.children = [i \in DOMAIN s[2] |-> <<"item", AsXml(s[2][i])>>]]
      [] s[1] = "word" -> Leaf(s)
      [] s[1] = "number" -> Leaf(<<"digits", s[2]>>)
      [] s[1] = "real" -> Leaf(<<"decimal", s[2], 1>>)
      [] s[1] = "flag" -> Leaf(<<"word", IF s[2] THEN "true" ELSE "false">>)

RECURSIVE Setting(_, _)
Setting(s, path) ==
    IF path = <<>> THEN <<s>>
    ELSE IF s[1] # "group" \/ Head(path) \notin DOMAIN s[2] THEN <<>>
    ELSE Setting(s[2][Head(path)], Tail(path))

Items(collection) ==
    IF collection \in {Fails, <<Null>>} THEN <<>> ELSE Walk(collection[1][1])

\* An application asks for the setting at a path.
ReadConfig ==
    /\ job = Idle
    /\ \E s \in Settings, path \in SettingPaths :
           LET json == AsJson(s)
               xml == XmlRoot([NoElement EXCEPT !.children = <<(<<"document", AsXml(s)>>)>>])
               jv == JsonGetValue(json, path)
               xv == XmlGetValue(xml, path)
           IN  Convert([kind |-> "config", path |-> path, setting |-> Setting(s, path)],
                       [json |-> [exists |-> JsonExists(json, path), value |-> jv,
                                  number |-> As(jv, "uint"), flag |-> As(jv, "bool"),
                                  group |-> JsonGetConfig(json, path),
                                  items |-> Items(JsonGetCollection(json, path))],
                        xml |-> [exists |-> XmlExists(xml, path), value |-> xv,
                                 number |-> As(xv, "uint"), flag |-> As(xv, "bool"),
                                 group |-> XmlGetConfig(xml, path),
                                 items |-> Items(XmlGetCollection(xml, path))]])

\* A factory that had two classes added for one identifier creates a service,
\* and an interface of it is asked for: in the process, through a stub, and
\* through an External that holds the service of the other class as well.
QueryObject ==
    /\ job = Idle
    /\ \E first, second, target \in Interface \ {IService} :
           LET creators == AddClass(AddClass({}, 1, first), 1, second)
               impl == CreateService(creators, 1)
           IN  Convert([kind |-> "query", impl |-> first, other |-> second, target |-> target],
                       <<QueryService(impl, target), StubQuery(Registered, impl, target),
                         QueryExternal(<<impl, second>>, target)>>)

\* A request for a method of an interface reaches the stub of a service.
CallMethod ==
    /\ job = Idle
    /\ \E i, j \in Interface \ {IService}, m \in UNION Range(MethodsOf) :
           Convert([kind |-> "call", impl |-> i, id |-> j, method |-> m], StubCall(i, j, m))

Finish == job # Idle /\ job' = Idle /\ result' = <<>>

Next ==
    \/ ConvertJson \/ ReadForeignJson \/ ConvertXml \/ SendMessage \/ SendThroughChain
    \/ SendRequest \/ SendList \/ PostValue \/ ServeRequest \/ WriteBody \/ Checksum \/ ReadConfig
    \/ QueryObject \/ CallMethod \/ Finish

Spec == Init /\ [][Next]_vars

-----------------------------------------------------------------------------
(***************************************************************************)
(* A value written to JSON and read back as its own type is the same       *)
(* value, by the compact and by the pretty writer, under a root name or    *)
(* not: the number kinds of the text (an unsigned number comes back as     *)
(* int64 when it fits, a whole double as an integer when pretty) are taken *)
(* by the converters, at the limits of every width too.                    *)
(***************************************************************************)
JsonRoundTrip == job.kind = "json" => result = <<job.value>>

(***************************************************************************)
(* A document read as another type gives a value that type can hold, or    *)
(* fails: a number that is too wide is cast, a name that is no item of an  *)
(* enumeration throws, a struct has all its bases.                         *)
(***************************************************************************)
JsonReadsInType == job.kind = "foreign" /\ Value(result) => Holds(job.type, result[1])

(***************************************************************************)
(* A value written to XML and read back is the same value, for the types   *)
(* whose reader looks where the writer wrote: a struct is looked up by the *)
(* name of its type before its own name, in containers and as a field.     *)
(***************************************************************************)
XmlRoundTrip == job.kind = "xml" => result = <<job.value>>

(***************************************************************************)
(* Documents are read as they were written: JSON by every writer, XML, and *)
(* a document of another type without leaving the type it is read as.      *)
(***************************************************************************)
DocumentsRead == JsonRoundTrip /\ JsonReadsInType /\ XmlRoundTrip

Sent(m) == <<m.header, m.ex, <<ParamValues(LastParams(m))>>>>

(***************************************************************************)
(* A message of a remote call comes out of the deserializer as it was put  *)
(* in: its header, its exception and the parameters put last, each in its  *)
(* place although the archive is written by function arguments and read    *)
(* from the last parameter.  Parameters in an XML archive, which are read  *)
(* by other names than they are written by, are refused and never taken    *)
(* for others.                                                             *)
(***************************************************************************)
MessageIntact ==
    job.kind = "message" =>
        \/ result = Sent(job.message)
        \/ /\ job.codec = "xml" /\ LastParams(job.message) # <<>>
           /\ result = [Sent(job.message) EXCEPT ![3] = Throws]

\* The key of the i-th parameter without what the splitter between path and
\* query takes off the first one.
ShornKey(params, i) ==
    LET key == params[i][1]
        rest == {n \in DOMAIN key : key[n] \notin {"/", "?", "#"}}
    IN  IF i > 1 THEN key ELSE IF rest = {} THEN <<>> ELSE SubSeq(key, Min(rest), Len(key))

HasSeparator(text) == {"&", "="} \cap ToSet(text) # {}

(***************************************************************************)
(* The method and the path that a client sent are what the web service     *)
(* sees, whatever the parameters.  A parameter without '&' and '=' arrives *)
(* under its key (the first key shorn of leading '/', '?' and '#'), with   *)
(* its value or, when the request gives that key another, a lesser value:  *)
(* no other parameter hides it otherwise.  Two such parameters are all     *)
(* that arrives, and with two values of one key it is one of those.  Since *)
(* the target is decoded before it is split, no '&' or '=' ever arrives.   *)
(***************************************************************************)
RequestArrives ==
    job.kind = "request" =>
        LET got == result[1].params
            key(i) == ShornKey(job.params, i)
            clean == {i \in DOMAIN job.params : ~HasSeparator(job.params[i][1]) /\ ~HasSeparator(job.params[i][2])}
        IN  /\ Value(result)
            /\ result[1].type = job.method
            /\ result[1].path = job.path
            /\ \A i \in clean :
                 /\ key(i) \in DOMAIN got
                 /\ got[key(i)] = job.params[i][2] \/ Less(got[key(i)], job.params[i][2])
            /\ clean = DOMAIN job.params =>
                 /\ DOMAIN got = {key(i) : i \in clean}
                 /\ \A i \in clean : \E j \in clean : key(j) = key(i) /\ got[key(i)] = job.params[j][2]
            /\ \A k \in DOMAIN got : ~HasSeparator(k) /\ ~HasSeparator(got[k])

(***************************************************************************)
(* Of a list of numbers the handler gets every item, once, however often   *)
(* it was given.                                                           *)
(***************************************************************************)
ListItemsArrive ==
    job.kind = "list" =>
        LET items == {Number(job.value[i], 0) : i \in DOMAIN job.value}
        IN  /\ Value(result)
            /\ ToSet(result[1][1]) = items
            /\ Len(result[1][1]) = Cardinality(ToSet(job.value))
            /\ result[1][2] = <<>>


(***************************************************************************)
(* A value that is posted as JSON and returned by the handler is the value *)
(* the client reads, the response has one content type, the one of the     *)
(* handler if it gave one; a handler without a body has no value.          *)
(***************************************************************************)
PostedValueReturns ==
    job.kind = "post" =>
        IF job.empty THEN result = Throws
        ELSE /\ result[1] = <<job.value>>
             /\ Cardinality({h \in result[2] : h[1] = "Content-Type"}) = 1
             /\ job.headers \subseteq result[2]

(***************************************************************************)
(* A path goes to the handler registered for it, or to one that no other   *)
(* registered part of the path is deeper than; the client reads the code   *)
(* the service gave; a request is counted as bad exactly when its code is  *)
(* not Ok, and the counters of the resource agree with the general ones.   *)
(***************************************************************************)
RequestServed ==
    job.kind = "serve" =>
        LET handler == result[1]
            r == result[2]
        IN  /\ job.path \in job.handlers => handler = <<job.path>>
            /\ \A h \in job.handlers :
                   job.path \notin job.handlers /\ ContainsText(job.path, h) =>
                       Value(handler) /\ Slashes(h) <= Slashes(handler[1])
            /\ (handler = Throws) = (r.resource = 0)
            /\ result[3] = <<r.code>>
            /\ r.bad = (IF r.code = "Ok" THEN 0 ELSE 1)
            /\ r.badResource <= r.resource /\ r.badResource <= r.bad

(***************************************************************************)
(* The portions of a body are the body: nothing is left out or sent twice  *)
(* and none of them is empty or longer than a chunk, at a multiple of the  *)
(* chunk too.                                                              *)
(***************************************************************************)
BodyComplete ==
    job.kind = "body" =>
        /\ FoldLeft(+, 0, result) = job.size
        /\ \A i \in DOMAIN result : result[i] <= job.chunk /\ (i > 1 => result[i] > 0)

(***************************************************************************)
(* A request has one response, with the code of the service, the value of  *)
(* the handler and the whole body.                                         *)
(***************************************************************************)
ResponsesWhole == PostedValueReturns /\ RequestServed /\ BodyComplete

(***************************************************************************)
(* A setting reads the same from a JSON and from an XML file: a word, a    *)
(* number as a number type, a group, and every item of a list in order; a  *)
(* name that is there exists in both, one that is not is in neither.  Not  *)
(* so for flags (XML gives no true), dotted paths in Exists, and groups    *)
(* that are absent (JSON throws, XML returns a null pointer): see the      *)
(* hazards.                                                                *)
(***************************************************************************)
FormatsAgree ==
    job.kind = "config" =>
        LET s == job.setting
            j == result.json
            x == result.xml
            given == s # <<>>
        IN  /\ j.exists = given
            /\ Len(job.path) = 1 => x.exists = given
            /\ ~given => j.value = Fails /\ x.value = Fails /\ j.group = Fails /\ x.group = <<Null>>
            /\ given /\ s[1][1] = "word" => j.value = <<s[1]>> /\ x.value = <<s[1]>>
            /\ given /\ s[1][1] \in {"number", "real"} =>
                   LET n == IF s[1][2] > MaxUnsigned THEN MaxUnsigned ELSE s[1][2]
                   IN  j.number = <<n>> /\ x.number = <<n>>
            /\ given /\ s[1][1] = "flag" => j.flag = <<s[1][2]>>
            /\ given /\ s[1][1] = "group" => j.group = <<(<<AsJson(s[1])>>)>> /\ x.group = <<(<<AsXml(s[1])>>)>>
            /\ given /\ s[1][1] = "list" =>
                   /\ j.items = [i \in DOMAIN s[1][2] |-> <<AsJson(s[1][2][i])>>]
                   /\ x.items = [i \in DOMAIN s[1][2] |-> <<AsXml(s[1][2][i])>>]

CrcReference(chars) ==
    LET bits == FlattenSeq([i \in DOMAIN chars |-> [b \in 1 .. CharBits |-> (chars[i] \div 2 ^ (b - 1)) % 2]])
        step(crc, b) == IF (crc + b) % 2 = 1 THEN CrcPoly ^^ (crc \div 2) ELSE crc \div 2
    IN  FoldLeft(step, AllOnes, bits) ^^ AllOnes

(***************************************************************************)
(* The checksum that names services and parameters is the remainder that   *)
(* the polynomial gives bit by bit, although it is computed from a table.  *)
(***************************************************************************)
ChecksumIsRemainder == job.kind = "crc" => result = CrcReference(job.chars)

(***************************************************************************)
(* A service that implements an interface is found as that interface, and  *)
(* not as another one, by Service::Query, even when a base occurs twice;   *)
(* a service that does not implement it is not found; the class that was   *)
(* added first is the one created; a registered interface is found through *)
(* a stub exactly when it is found in the process.                         *)
(***************************************************************************)
QueryFindsInterface ==
    job.kind = "query" =>
        LET has == SubobjectsOf(job.impl, job.target) # {}
        IN  /\ result[1] = (IF has THEN job.target ELSE None)
            /\ job.target \in ToSet(Registered) => result[2] = result[1]
            /\ (result[3] = None) = ~ (has \/ SubobjectsOf(job.other, job.target) # {})

(***************************************************************************)
(* A stub runs the method of the interface that the request names, for     *)
(* every interface that the service implements and every method of it, and *)
(* refuses the interfaces the service does not implement.                  *)
(***************************************************************************)
CallReachesMethod ==
    job.kind = "call" =>
        /\ SubobjectsOf(job.impl, job.id) = {} => result = None
        /\ SubobjectsOf(job.impl, job.id) # {} /\ job.method \in MethodsOf[job.id] => result = job.id
        /\ IsInjective(StubChain(job.impl))

(***************************************************************************)
(* A remote caller reaches the object, the interface and the method that   *)
(* it names, and no other.                                                 *)
(***************************************************************************)
ObjectsFound == QueryFindsInterface /\ CallReachesMethod /\ ChecksumIsRemainder

=============================================================================
