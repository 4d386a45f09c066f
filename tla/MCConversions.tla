---------------------------- MODULE MCConversions ---------------------------
\* Small types, values, messages, requests and interfaces for Conversions.
EXTENDS Conversions

\* Integers of 8, 16, 32 and 64 bits keep 3, 4, 5 and 6 bits.
MCBits == (8 :> 3) @@ (16 :> 4) @@ (32 :> 5) @@ (64 :> 6)

IntType(w, s) == <<"int", w, s>>
IntTypes == {IntType(w, s) : w \in {8, 16, 32, 64}, s \in BOOLEAN}
Limits(t) == IF t[3] THEN {-(2 ^ (MCBits[t[2]] - 1)), -1, 0, 2 ^ (MCBits[t[2]] - 1) - 1}
                     ELSE {0, 1, 2 ^ (MCBits[t[2]] - 1), 2 ^ MCBits[t[2]] - 1}
IntSamples == UNION {{<<t, v>> : v \in Limits(t)} : t \in IntTypes}

Str == <<"string">>
Int32 == IntType(32, TRUE)
Color == <<"enum", <<(<<"red", 1>>), (<<"green", 2>>), (<<"verde", 2>>)>>>>
\* struct Point { int x; optional<string> tag; }, struct Spot : Point { Color c; }
Point == <<"rec", "Point", <<>>, <<(<<"x", Int32>>), (<<"tag", <<"opt", Str>>>>)>>>>
Dot == <<"rec", "Dot", <<>>, <<(<<"x", Int32>>), (<<"tag", Str>>)>>>>
Spot == <<"rec", "Spot", <<Dot>>, <<(<<"c", Color>>), (<<"at", Dot>>)>>>>
Origin == <<(<<>>), (<<0, "o">>)>>
ASpot == <<(<<Origin>>), (<<2, <<(<<>>), (<<-3, "">>)>>>>)>>

Simple ==
    IntSamples \cup
    {<<(<<"bool">>), b>> : b \in BOOLEAN} \cup
    {<<(<<"double">>), d>> : d \in {0, 2, 4, 6}} \cup
    {<<Str, s>> : s \in {"", "red", "7"}} \cup
    {<<Color, 1>>, <<Color, 2>>} \cup
    {<<Dot, Origin>>, <<Spot, ASpot>>} \cup
    {<<(<<"list", IntType(16, FALSE)>>), l>> : l \in {<<>>, <<15>>, <<1, 1, 0>>}} \cup
    {<<(<<"list", Dot>>), <<Origin, <<(<<>>), (<<5, "a">>)>>>>>>, <<(<<"list", <<"list", Str>>>>), <<(<<>>), (<<"b">>)>>>>} \cup
    {<<(<<"set", <<"pair", Str, Int32>>>>), m>> : m \in {{}, {<<"a", 1>>, <<"b", -16>>}}}

MCJsonSamples ==
    Simple \cup
    {<<(<<"ptr", Int32>>), p>> : p \in {<<>>, <<3>>}} \cup
    {<<(<<"opt", Dot>>), p>> : p \in {<<>>, <<Origin>>}} \cup
    {<<Point, <<(<<>>), (<<1, <<>>>>)>>>>, <<Point, <<(<<>>), (<<1, <<"t">>>>)>>>>} \cup
    {<<(<<"array", 2, IntType(8, FALSE)>>), <<7, 0>>>>,
     <<(<<"tuple", <<Str, <<"double">>, Color>>>>), <<"s", 6, 1>>>>,
     <<(<<"pair", Int32, Dot>>), <<-1, Origin>>>>}

MCForeignTypes ==
    IntTypes \cup
    {<<"bool">>, <<"double">>, Str, Color, Dot, Point, Spot, <<"ptr", Int32>>, <<"list", IntType(8, TRUE)>>,
     <<"set", Str>>, <<"array", 2, Int32>>, <<"pair", Str, Str>>, <<"tuple", <<Str, Str, Str>>>>}

\* Without 8 bit integers, null pointers, optionals, tuples and pairs outside
\* of containers: see the hazards.
MCXmlSamples ==
    {s \in Simple : ~ (s[1][1] = "int" /\ s[1][2] = 8)} \cup {<<(<<"ptr", Dot>>), <<Origin>>>>}

MCRoots == {"root"}

Header(kind) == <<"uuid1", kind, "inst1", "IHuman", "GetName">>
ParamLists == {<<>>, <<(<<Int32, 3>>)>>, <<(<<Str, "a">>), (<<Str, "b">>), (<<Spot, ASpot>>)>>}
MCMessages ==
    {Put(Header(k), p, l, e) : k \in {"request", "response"}, p \in ParamLists,
                               l \in {<<>>} \cup {<<q>> : q \in ParamLists}, e \in {<<>>, <<"failed">>}}

MCAlphabet == <<" ", "#", "%", "&", "+", "/", "0", "1", "2", ";", "=", "?", "a", "b">>
\* Keys and values with blanks, signs, separators and splitters in and before
\* them.
MCTexts ==
    {<<"a">>, <<"b">>, <<" ", "%", "+">>, <<"a", "&">>, <<"=">>, <<"a", "#", "?">>, <<"/", "?", "a">>, <<"#">>}
MCRequestPaths == {<<"/">>, <<"/", "a">>, <<"/", "a", "/", "b">>, <<"/", "b", "/", "a">>, <<"/", "a", "b">>}
MCHandlerSets == SUBSET {<<"/">>, <<"/", "a">>, <<"/", "a", "/", "b">>, <<"/", "b">>}
Item == {<<"0">>, <<"1", "2">>, <<"0", "2">>, <<"2">>}
MCLists == {<<a>> : a \in Item} \cup {<<a, b, c>> : a, b, c \in Item}
MCSizes == 0 .. 7
MCChunks == 1 .. 4
MCCrcInputs == UNION {[1 .. n -> 0 .. 3] : n \in 0 .. 3}

Group(f) == <<"group", f>>
Word(w) == <<"word", w>>
Num(n) == <<"number", n>>
Server == Group(("host" :> Word("h")) @@ ("port" :> Num(9)) @@
                ("http" :> Group("limit" :> <<"real", 3>>)) @@ ("host2" :> Word("")))
MCSettings ==
    {Group("server" :> Server), Group(("server" :> Num(2)) @@ ("list" :> <<"list", <<Word("h"), Num(1), Word("h")>>>>)),
     Group(("server" :> Group("server" :> Server)) @@ ("list" :> <<"list", <<>>>>)), Group(<<>>),
     Group(("port" :> Num(9)) @@ ("server" :> Group(("port" :> <<"flag", TRUE>>) @@ ("http" :> <<"flag", FALSE>>))))}
SettingNames == {"server", "host", "port", "http", "limit", "list"}
MCSettingPaths == UNION {[1 .. n -> SettingNames] : n \in 1 .. 3}

\* The interfaces of the inheritance example: an employee is a developer and
\* a manager, and each of them is a human.
MCBases ==
    ("IService" :> <<>>) @@ ("IHuman" :> <<"IService">>) @@ ("IDeveloper" :> <<"IHuman">>) @@
    ("IManager" :> <<"IHuman">>) @@ ("IEmployee" :> <<"IDeveloper", "IManager">>) @@ ("IViewer" :> <<"IService">>)
MCMethodsOf ==
    ("IService" :> {}) @@ ("IHuman" :> {"GetName"}) @@ ("IDeveloper" :> {"GetLanguage"}) @@
    ("IManager" :> {"GetProject"}) @@ ("IEmployee" :> {"GetId", "GetPost"}) @@ ("IViewer" :> {"View"})
MCRegistered == <<"IHuman", "IManager", "IEmployee", "IViewer">>

=============================================================================
