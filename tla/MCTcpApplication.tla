--------------------------- MODULE MCTcpApplication -------------------------
(***************************************************************************)
(* Command lines for TcpApplication: with and without a configuration in   *)
(* either format, complete and incomplete, with options that the           *)
(* configuration repeats, and the ones that Run refuses.                   *)
(***************************************************************************)
EXTENDS TcpApplication, TLC

Plain == [valid |-> TRUE, show |-> FALSE, daemon |-> FALSE, config |-> <<>>, dir |-> <<>>, pattern |-> <<>>,
          level |-> <<>>, logged |-> FALSE, class |-> "http"]
With(format, file) == <<[format |-> format, file |-> file]>>

Object(f) == <<"object", f>>
JsonLog == Object(("dir" :> <<"string", <<"word", "d">>>>) @@ ("level" :> <<"int", 2>>))
JsonServer == Object(("host" :> <<"string", <<"word", "h">>>>) @@ ("port" :> <<"int", 9>>)
                        @@ ("workers" :> <<"int", 2>>) @@ ("timeout" :> <<"int", 5>>) @@ ("http" :> Object(<<>>)))
Json == Object(("common" :> Object(("daemon" :> <<"bool", TRUE>>) @@ ("log" :> JsonLog)))
                   @@ ("data" :> Object("server" :> JsonServer)))
JsonWithoutHttp == Object(("common" :> Object(<<>>)) @@ ("data" :> Object("other" :> <<"null">>)))

Element(children) == [text |-> <<"word", "">>, children |-> children]
Xml == Element(<<(<<"document", Element(<<
            <<"common", Element(<<(<<"daemon", Leaf(<<"digits", 0>>)>>), <<"log", Element(<<
                <<"level", Leaf(<<"digits", 3>>)>>, <<"pattern", Leaf(<<"word", "p">>)>> >>)>> >>)>>,
            <<"data", Element(<<(<<"server", Element(<<(<<"host", Leaf(<<"word", "h">>)>>)>>)>>)>>)>> >>)>>)>>)
XmlWithoutDocument == Element(<<(<<"common", Element(<<>>)>>)>>)
XmlLevel == Element(<<(<<"document", Element(<<
                <<"common", Element(<<(<<"log", Element(<<(<<"level", Leaf(<<"digits", 9>>)>>)>>)>>)>>)>> >>)>>)>>)

MCCommandLines ==
    {[Plain EXCEPT !.class = "tcp"],
     [Plain EXCEPT !.class = "tcp", !.config = With("json", <<Json>>), !.level = <<1>>],
     [Plain EXCEPT !.daemon = TRUE, !.dir = <<"d">>, !.pattern = <<"p">>],
     [Plain EXCEPT !.config = With("json", <<JsonWithoutHttp>>)],
     [Plain EXCEPT !.config = With("xml", <<Xml>>), !.level = <<0>>],
     [Plain EXCEPT !.config = With("xml", <<XmlWithoutDocument>>), !.level = <<3>>],
     [Plain EXCEPT !.config = With("xml", <<XmlLevel>>)],
     [Plain EXCEPT !.config = With("ini", <<Xml>>)],
     [Plain EXCEPT !.config = With("json", <<>>)],
     [Plain EXCEPT !.level = <<4>>], [Plain EXCEPT !.level = <<2>>],
     [Plain EXCEPT !.valid = FALSE], [Plain EXCEPT !.show = TRUE],
     [Plain EXCEPT !.logged = TRUE, !.level = <<2>>]}
=============================================================================
