------------------------------- MODULE Config -------------------------------
(***************************************************************************)
(* Mif::Application::IConfig over a JSON and over an XML document.         *)
(*                                                                         *)
(* A JSON value is <<"object", f>> with a function f from names to values, *)
(* <<"array", s>>, <<"string", text>>, <<"int", n>>, <<"double", n>>,      *)
(* <<"bool", b>> or <<"null">>.  An XML element (a property tree) has its  *)
(* text and the sequence of its named children.  A text is a word, the     *)
(* digits of a number, or a number with decimals: <<"word", w>>,           *)
(* <<"digits", n>>, <<"decimal", n, places>>.  A path is the sequence of   *)
(* its names, which the code separates by dots.                            *)
(*                                                                         *)
(* A pointer is <<v>> or Null; an operation returns <<result>>, or Fails   *)
(* when it throws.                                                         *)
(***************************************************************************)
EXTENDS Naturals, Sequences, SequencesExt

CONSTANTS
    MaxUnsigned  \* the largest number of the unsigned types that are read

Fails == <<>>
Null == <<>>

-----------------------------------------------------------------------------
(* config/json.cpp *)

IsObject(v) == v[1] = "object"
IfContains(f, name) == IF name \in DOMAIN f THEN <<f[name]>> ELSE Null

\* Mutant of FindItem: the last name is looked up in the root.
FindItemShort(root, path) ==
    IF ~IsObject(root) THEN Null ELSE IfContains(root[2], Last(path))

\* The loop goes down while it meets objects and has a name left.
FindItem(root, path) ==
    LET Visit(st, name) ==
            IF st.stop THEN st
            ELSE IF name \notin DOMAIN st.item THEN [st EXCEPT !.stop = TRUE, !.missing = TRUE]
            ELSE IF IsObject(st.item[name]) /\ Len(path) - st.level # 1
                 THEN [st EXCEPT !.item = st.item[name][2], !.level = @ + 1]
            ELSE [st EXCEPT !.stop = TRUE]
        end == FoldLeft(Visit, [item |-> root[2], level |-> 0, stop |-> FALSE, missing |-> FALSE], path)
    IN  IF ~IsObject(root) THEN Null
        ELSE IF end.missing \/ Len(path) - end.level # 1 THEN Null
        ELSE IfContains(end.item, Last(path))

JsonExists(root, path) == FindItem(root, path) # Null

JsonGetValue(root, path) ==
    LET item == FindItem(root, path)
        v == item[1]
    IN  IF item = Null THEN Fails
        ELSE CASE v[1] = "null" -> <<(<<"word", "">>)>>
               [] v[1] = "bool" -> <<(<<"digits", IF v[2] THEN 1 ELSE 0>>)>>
               [] v[1] = "double" -> <<(<<"decimal", v[2], 6>>)>>
               [] v[1] = "int" -> <<(<<"digits", v[2]>>)>>
               [] v[1] = "string" -> <<v[2]>>
               [] OTHER -> Fails

\* The item at a path as one kind of value: null gives a null pointer.
JsonItem(root, path, kind) ==
    LET item == FindItem(root, path)
    IN  IF item = Null THEN Fails
        ELSE IF item[1][1] = "null" THEN <<Null>>
        ELSE IF item[1][1] = kind THEN <<item>> ELSE Fails

JsonGetConfig(root, path) == JsonItem(root, path, "object")

JsonGetCollection(root, path) ==
    LET item == JsonItem(root, path, "array")
    IN  IF item \in {Fails, <<Null>>} THEN item ELSE <<(<<item[1][1][2]>>)>>

-----------------------------------------------------------------------------
(* config/xml.cpp *)

Leaf(text) == [text |-> text, children |-> <<>>]

NoElement == Leaf(<<"word", "">>)

ChildrenNamed(node, name) == SelectSeq(node.children, LAMBDA c : c[1] = name)

\* get_child_optional: the first child of each name.
GetChild(node, path) ==
    LET Visit(found, name) ==
            IF found = Null THEN Null
            ELSE LET kids == ChildrenNamed(found[1], name)
                 IN  IF kids = <<>> THEN Null ELSE <<kids[1][2]>>
    IN  FoldLeft(Visit, <<node>>, path)

\* The constructor keeps what is under <document>, or nothing.
XmlRoot(file) ==
    LET document == GetChild(file, <<"document">>)
    IN  IF document = Null THEN NoElement ELSE document[1]

\* find compares the whole path with the names of the children.
XmlExists(node, path) == Len(path) = 1 /\ ChildrenNamed(node, path[1]) # <<>>

XmlGetValue(node, path) ==
    LET child == GetChild(node, path)
    IN  IF child = Null THEN Fails ELSE <<child[1].text>>

XmlGetConfig(node, path) == <<GetChild(node, path)>>

XmlGetCollection(node, path) ==
    LET child == GetChild(node, path)
    IN  IF child = Null THEN <<Null>>
        ELSE <<(<<[i \in DOMAIN child[1].children |-> child[1].children[i][2]]>>)>>

-----------------------------------------------------------------------------
(* IConfig::GetValue<T>: a stream reads what it can, and zero if it cannot. *)

ReadUnsigned(text) ==
    IF text[1] = "word" THEN 0
    ELSE IF text[2] > MaxUnsigned THEN MaxUnsigned ELSE text[2]

ReadBool(text) == text[1] # "word" /\ text[2] # 0

As(value, type) ==
    IF value = Fails THEN Fails
    ELSE <<IF type = "bool" THEN ReadBool(value[1]) ELSE ReadUnsigned(value[1])>>

-----------------------------------------------------------------------------
(* ICollection, the same over both documents: an index into the items. *)

\* Next moves and tells whether an item is there.
NextItem(items, cur) ==
    LET moved == IF cur # Len(items) + 1 THEN cur + 1 ELSE cur
    IN  <<moved, moved # Len(items) + 1>>

GetItem(items, cur) ==
    IF items = <<>> \/ cur = Len(items) + 1 THEN Fails ELSE <<items[cur]>>

\* if (!IsEmpty()) do Get() while (Next()), after Reset.
Walk(items) ==
    LET Visit(st, i) ==
            IF ~st.more THEN st
            ELSE LET next == NextItem(items, st.cur)
                 IN  [got |-> Append(st.got, GetItem(items, st.cur)), cur |-> next[1], more |-> next[2]]
        start == [got |-> <<>>, cur |-> 1, more |-> items # <<>>]
    IN  FoldLeft(Visit, start, [i \in 1..(Len(items) + 1) |-> i]).got
=============================================================================
