------------------------------ MODULE HttpPack ------------------------------
(***************************************************************************)
(* What an HTTP request is turned into before a web service sees it, and   *)
(* its answer before it is sent: net/http/detail/utility.cpp, input_pack.h *)
(* and output_pack.h, the parameters of a handler (converter/url/param.h,  *)
(* detail/prm.h, param_pack.h, content.h, result.h) and WebService.        *)
(*                                                                         *)
(* A text is a sequence of characters.  A character of a URL on the wire   *)
(* is <<c, e>>, e telling whether it is written as %xx; <<"%", FALSE>> is a *)
(* percent sign that no two digits follow.                                 *)
(***************************************************************************)
EXTENDS RpcMessage, Bitwise

CONSTANTS
    Alphabet,     \* the characters in the order of char, as a sequence
    CrcBits,      \* width of a checksum
    CharBits,     \* width of a character in a checksum
    CrcPoly       \* the reversed polynomial

ASSUME CrcAssumption == CrcBits \in Nat /\ CharBits \in 1 .. CrcBits /\ CrcPoly \in 0 .. (2 ^ CrcBits - 1)

Unreserved == ToSet(Alphabet) \ {"/", "?", "#", "&", "=", ";", " ", "+", "%"}
Digits == {"0", "1", "2"}
DigitValue(c) == CASE c = "0" -> 0 [] c = "1" -> 1 [] c = "2" -> 2

-----------------------------------------------------------------------------
\* Method::Type and boost::beast::http::verb, Code and status: one table each.
Methods == <<"Get", "Post", "Head", "Put", "Delete", "Options", "Trqce", "Connect", "Patch">>
Verbs == <<"get", "post", "head", "put", "delete", "options", "trace", "connect", "patch">>
Codes == <<"Ok", "NoContent", "MovePerm", "MoveTemp", "NotModified", "BadRequest", "NotFound",
           "Unauthorized", "BadMethod", "Internal", "NotImplemented", "Unavaliable">>
Statuses == <<200, 204, 301, 302, 304, 400, 404, 401, 405, 500, 501, 503>>

\* A switch over a table: the entry of the same row, or an exception.
Lookup(from, to, x) ==
    LET at == {i \in DOMAIN from : from[i] = x} IN IF at = {} THEN Throws ELSE <<to[Min(at)]>>

VerbOf(method) == Lookup(Methods, Verbs, method)
MethodOf(verb) == Lookup(Verbs, Methods, verb)
StatusOf(code) == Lookup(Codes, Statuses, code)
CodeOf(status) == Lookup(Statuses, Codes, status)

-----------------------------------------------------------------------------
EncodeUrl(text) == [i \in DOMAIN text |-> <<text[i], text[i] \notin Unreserved>>]

DecodeUrl(url) ==
    IF \E i \in DOMAIN url : url[i] = <<"%", FALSE>> THEN Throws
    ELSE <<[i \in DOMAIN url |-> IF url[i] = <<"+", FALSE>> THEN " " ELSE url[i][1]]>>

\* Mutant of Target: the splitters are left in the query.
TargetKeepsSplitter(text) ==
    LET cuts == {i \in DOMAIN text : text[i] \in {"?", "#"}}
        cut == IF cuts = {} THEN Len(text) + 1 ELSE Min(cuts)
    IN  IF text = <<>> \/ text[1] # "/" THEN Throws
        ELSE <<[path |-> SubSeq(text, 1, cut - 1), query |-> SubSeq(text, cut, Len(text))]>>

\* Target: the path goes to the first '?' or '#', the splitters after it are
\* skipped, the rest is the query.
Target(text) ==
    LET cuts == {i \in DOMAIN text : text[i] \in {"?", "#"}}
        cut == IF cuts = {} THEN Len(text) + 1 ELSE Min(cuts)
        rest == {i \in cut .. Len(text) : text[i] \notin {"?", "#", "/"}}
    IN  IF text = <<>> \/ text[1] # "/" THEN Throws
        ELSE <<[path |-> SubSeq(text, 1, cut - 1),
                query |-> IF rest = {} THEN <<>> ELSE SubSeq(text, Min(rest), Len(text))]>>

\* boost::algorithm::split on one separator.
Split(text, sep) ==
    FoldLeft(LAMBDA acc, c : IF c = sep THEN Append(acc, <<>>)
                             ELSE [acc EXCEPT ![Len(acc)] = Append(@, c)],
             <<(<<>>)>>, text)

Rank(c) == CHOOSE i \in DOMAIN Alphabet : Alphabet[i] = c

\* operator < of std::string, the order of std::set.
Less(a, b) ==
    \/ Len(a) < Len(b) /\ \A i \in DOMAIN a : a[i] = b[i]
    \/ \E i \in DOMAIN a \cap DOMAIN b :
          /\ \A j \in 1 .. (i - 1) : a[j] = b[j]
          /\ Rank(a[i]) < Rank(b[i])

Least(S) == CHOOSE a \in S : \A b \in S \ {a} : Less(a, b)

\* A pair with two or more '=' becomes the pair of empty strings.
ParamPair(text) ==
    LET parts == Split(text, "=")
    IN  CASE Len(parts) = 2 -> parts
          [] Len(parts) = 1 -> <<parts[1], <<>>>>
          [] OTHER -> <<(<<>>), (<<>>)>>

\* Mutant of GetParams: a pair overwrites an earlier one with its key.
GetParamsOverwrites(query) ==
    LET pairs == IF query = <<>> THEN {} ELSE ToSet(Split(query, "&"))
        Greatest(S) == CHOOSE p \in S : \A q \in S \ {p} : Less(q, p)
    IN  [k \in {ParamPair(p)[1] : p \in pairs} |-> ParamPair(Greatest({p \in pairs : ParamPair(p)[1] = k}))[2]]

\* InputPack::GetParams: the pairs are put into a set, and then one by one
\* into the map: of two pairs with one key the least pair stays.
GetParams(query) ==
    LET pairs == IF query = <<>> THEN {} ELSE ToSet(Split(query, "&"))
        keys == {ParamPair(p)[1] : p \in pairs}
    IN  [k \in keys |-> ParamPair(Least({p \in pairs : ParamPair(p)[1] = k}))[2]]

\* InputPack: the whole target is decoded first, then taken apart.
InputPack(verb, url) ==
    LET text == DecodeUrl(url)
        target == IF text = Throws THEN Throws ELSE Target(text[1])
    IN  IF target = Throws \/ MethodOf(verb) = Throws THEN Throws
        ELSE <<[type |-> MethodOf(verb)[1], path |-> target[1].path, params |-> GetParams(target[1].query)]>>

-----------------------------------------------------------------------------

\* std::stoll reads the digits at the start and throws when there are none.
RECURSIVE Number(_, _)
Number(text, n) ==
    IF text = <<>> \/ Head(text) \notin Digits THEN n ELSE Number(Tail(text), 10 * n + DigitValue(Head(text)))
Stoll(text) == IF text = <<>> \/ Head(text) \notin Digits THEN Throws ELSE <<Number(text, 0)>>

\* Converter::Url::Param.  The items of a container are put into a set of
\* texts first: the order and the repetitions of the list are lost.
RECURSIVE ConvertParam(_, _)
ConvertParam(t, text) ==
    CASE t[1] = "string" -> <<text>>
      [] t[1] = "int"    -> LET n == Stoll(text) IN IF n = Throws THEN Throws ELSE <<Cast(n[1], t[2], t[3])>>
      [] t[1] = "enum"   -> FromString(t[2], text)
      [] t[1] = "list"   -> LET items == SetToSortSeq(ToSet(Split(text, ";")), Less)
                            IN  Gather([i \in DOMAIN items |-> ConvertParam(t[2], items[i])])

\* Prm: no value when the request has no such parameter.
GetPrm(t, params, name) ==
    IF name \notin DOMAIN params THEN <<(<<>>)>>
    ELSE LET r == ConvertParam(t, params[name]) IN IF r = Throws THEN Throws ELSE <<r>>

\* ParamPack: a field that is not optional has to be there.
GetParam(t, params, name) ==
    CASE t[1] = "opt" -> GetPrm(t[2], params, name)
      [] t[1] # "opt" /\ name \in DOMAIN params -> ConvertParam(t, params[name])
      [] OTHER -> Throws
ParamPack(fields, params) == Gather([i \in DOMAIN fields |-> GetParam(fields[i][2], params, fields[i][1])])

\* Content: no value without a body, otherwise what the converter reads.
Content(t, body) ==
    IF body = <<>> THEN <<(<<>>)>>
    ELSE LET r == DeserializeJson(t, body[1], "") IN IF Value(r) THEN <<r>> ELSE r

\* Mutant of Result: the headers of the handler are added to the default.
ResultOwnType(t, v, headers) ==
    [data |-> Reparse(ValueToJson(t, v), FALSE), headers |-> headers \cup {<<"Content-Type", "application/json">>}]

\* Result<Json>: the value as text; the content type unless the handler gave one.
Result(t, v, headers) ==
    [data |-> Reparse(ValueToJson(t, v), FALSE),
     headers |-> IF \E h \in headers : h[1] = "Content-Type" THEN headers
                 ELSE headers \cup {<<"Content-Type", "application/json">>}]

\* ProcessRequest of a handler that gives its content back: the arguments are
\* converted, the method runs, the headers and the data go to the response.
ProcessRequest(t, body, headers) ==
    LET c == Content(t, body)
    IN  IF ~ Value(c) \/ c = <<(<<>>)>> THEN Throws ELSE <<Result(t, c[1][1], headers)>>

-----------------------------------------------------------------------------
\* Crc32: the table of one character, and a step of the checksum.
RECURSIVE CalcCrcK(_, _)
CalcCrcK(c, k) ==
    IF k = CharBits THEN c
    ELSE CalcCrcK(IF c % 2 = 1 THEN CrcPoly ^^ (c \div 2) ELSE c \div 2, k + 1)

\* Mutant of CrcTable: a step short.
CrcTableShort(c) == CalcCrcK(c, 1)

CrcTable(c) == CalcCrcK(c, 0)

AllOnes == 2 ^ CrcBits - 1
Crc32str(chars) ==
    FoldLeft(LAMBDA crc, c : CrcTable((crc ^^ c) % 2 ^ CharBits) ^^ (crc \div 2 ^ CharBits), AllOnes, chars) ^^ AllOnes

-----------------------------------------------------------------------------
\* The handler of a path: the one registered for it, or, of the registered
\* paths that the path contains, the one with the most slashes (the first
\* such in the order of the map).
ContainsText(text, part) ==
    \E i \in 0 .. (Len(text) - Len(part)) : SubSeq(text, i + 1, i + Len(part)) = part
Slashes(text) == Cardinality({i \in DOMAIN text : text[i] = "/"})

\* Mutant of FindHandler: any registered path that the path contains.
FindHandlerAny(handlers, path) ==
    LET found == {h \in handlers : ContainsText(path, h)}
    IN  IF found = {} THEN Throws ELSE <<Least(found)>>

FindHandler(handlers, path) ==
    LET found == {h \in handlers : ContainsText(path, h) /\ Slashes(h) > 0}
        most == {h \in found : \A g \in found : Slashes(g) <= Slashes(h)}
    IN  CASE path \in handlers -> <<path>>
          [] path \notin handlers /\ found # {} -> <<Least(most)>>
          [] OTHER -> Throws

\* WebService::OnRequest: what the handler gave (a value, or the kind of the
\* exception), the code of the answer and how often each counter is raised.
OnRequest(handlers, path, outcome) ==
    LET handler == FindHandler(handlers, path)
    IN  CASE handler = Throws ->
                [code |-> "BadMethod", total |-> 1, bad |-> 1, resource |-> 0, badResource |-> 0]
          [] handler # Throws /\ outcome = "value" ->
                [code |-> "Ok", total |-> 1, bad |-> 0, resource |-> 1, badResource |-> 0]
          [] OTHER ->
                [code |-> IF outcome = "invalid_argument" THEN "BadRequest" ELSE "Internal",
                 total |-> 1, bad |-> 1, resource |-> 1, badResource |-> 1]

-----------------------------------------------------------------------------
\* OutputPack.  SetData sends a short body with the header; a body of a chunk
\* or more goes in portions.
SetData(size, chunk) == IF size < chunk THEN [sent |-> size, more |-> FALSE] ELSE [sent |-> 0, more |-> TRUE]

\* Mutant of NextPortion: an exact multiple of the chunk has one portion more.
NextPortionMore(size, chunk, ptr) ==
    [size |-> Min({size - ptr, chunk}), more |-> size - ptr >= chunk]

NextPortion(size, chunk, ptr) ==
    [size |-> Min({size - ptr, chunk}), more |-> size - ptr > chunk]

RECURSIVE PortionsFrom(_, _, _)
PortionsFrom(size, chunk, ptr) ==
    LET p == NextPortion(size, chunk, ptr)
    IN  <<p.size>> \o IF p.more THEN PortionsFrom(size, chunk, ptr + p.size) ELSE <<>>

\* The sizes of the pieces of the body, in the order they are written.
Portions(size, chunk) ==
    LET d == SetData(size, chunk) IN <<d.sent>> \o IF d.more THEN PortionsFrom(size, chunk, 0) ELSE <<>>

=============================================================================
