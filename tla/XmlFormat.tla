----------------------------- MODULE XmlFormat ------------------------------
(***************************************************************************)
(* include/mif/serialization/xml.h: a C++ value as a property tree, and    *)
(* back.  Types and values are those of JsonFormat.  A node is a record of *)
(* its text and of its children, a sequence of <<name, node>>; the text is *)
(* a tuple, the kind of value to_string was given and the value.           *)
(***************************************************************************)
EXTENDS JsonFormat

NoText == <<"string", "">>
Node(text, kids) == [text |-> text, kids |-> kids]

\* Reflect<T>::FullName: the name of the type with its namespace.
FullName(t) == "Ns::" \o t[2]

\* The child that Serialize(node, object, name) adds to node.
RECURSIVE XmlChild(_, _, _)

\* SerializeBase and Serialize<I, N>: the bases under their full names, then
\* the fields.
StructChildren(t, v) ==
    [i \in DOMAIN t[3] |-> XmlChild(t[3][i], v[1][i], FullName(t[3][i]))] \o
    [i \in DOMAIN t[4] |-> XmlChild(t[4][i][2], v[2][i], t[4][i][1])]

\* Every item of a container is a child named "item".
ItemChildren(t, items) == [i \in DOMAIN items |-> XmlChild(t, items[i], "item")]

\* to_string, ToString or the string itself; the items of a tuple are written
\* into a copy of the node that was added and are lost.
XmlChild(t, v, name) ==
    CASE t[1] \in {"int", "string"} -> <<name, Node(<<t[1], v>>, <<>>)>>
      [] t[1] = "bool"   -> <<name, Node(<<"int", IF v THEN 1 ELSE 0>>, <<>>)>>
      [] t[1] = "double" -> <<name, Node(<<"double", (v \div Precision) * Precision>>, <<>>)>>
      [] t[1] = "enum"   -> <<name, Node(<<"string", EnumName(t[2], v)>>, <<>>)>>
      [] t[1] = "ptr"    -> IF v = <<>> THEN <<name, Node(NoText, <<>>)>> ELSE XmlChild(t[2], v[1], name)
      [] t[1] = "list"   -> <<name, Node(NoText, ItemChildren(t[2], v))>>
      [] t[1] = "set"    -> <<name, Node(NoText, ItemChildren(t[2], SetToSeq(v)))>>
      [] t[1] = "pair"   -> <<name, Node(NoText, <<XmlChild(t[2], v[1], "id"), XmlChild(t[3], v[2], "val")>>)>>
      [] t[1] = "tuple"  -> <<name, Node(NoText, <<>>)>>
      [] t[1] = "rec"    -> <<IF name = "" THEN t[2] ELSE name, Node(NoText, StructChildren(t, v))>>

\* Serialize: a document with one child.
SerializeXml(t, v, root) == Node(NoText, <<XmlChild(t, v, root)>>)

-----------------------------------------------------------------------------
\* ptree: the first child of that name; the empty path is the node itself.
Child(node, name) ==
    IF name = "" THEN <<node>>
    ELSE LET at == {i \in DOMAIN node.kids : node.kids[i][1] = name}
         IN  IF at = {} THEN Throws ELSE <<node.kids[Min(at)][2]>>

\* stringstream >> object: what cannot be read as a number is zero, and an
\* object of 8 bits takes the first character.
LeadDigit(n) == IF n < 10 THEN n ELSE n \div 10
ReadNumber(t, text) ==
    CASE t[1] = "double" -> IF text[1] \in {"int", "double"} THEN text[2] ELSE 0
      [] t[1] = "bool"   -> text = <<"int", 1>>
      [] t[1] = "int" /\ text[1] # "int" -> 0
      [] t[1] = "int" /\ t[2] = 8 -> Cast(IF text[2] < 0 THEN 45 ELSE 48 + LeadDigit(text[2]), 8, t[3])
      [] OTHER -> text[2]

\* Deserialize of simple values and enumerations: the node has to be there.
ReadLeaf(t, node, name) ==
    LET c == Child(node, name)
    IN  CASE c = Throws      -> Throws
          [] t[1] = "string" -> <<c[1].text[2]>>
          [] t[1] = "enum"   -> FromString(t[2], c[1].text[2])
          [] OTHER           -> <<ReadNumber(t, c[1].text)>>

RECURSIVE XmlRead(_, _, _)

\* Mutant of StructNode: only the name that was asked for.
StructNodeByName(t, node, name) == Child(node, name)

\* A struct is first looked up by the name of its type, then by its own name.
StructNode(t, node, name) ==
    LET byType == Child(node, t[2]) IN IF byType # Throws THEN byType ELSE Child(node, name)

ReadXmlStruct(t, node, name) ==
    LET c == StructNode(t, node, name)
    IN  IF c = Throws THEN Throws
        ELSE Gather(<<Gather([i \in DOMAIN t[3] |-> XmlRead(t[3][i], c[1], FullName(t[3][i]))]),
                      Gather([i \in DOMAIN t[4] |-> XmlRead(t[4][i][2], c[1], t[4][i][1])])>>)

\* All children of the node, each read as an item under the empty name.
ReadXmlItems(t, node, name) ==
    LET c == Child(node, name)
    IN  IF c = Throws THEN Throws
        ELSE LET g == Gather([i \in DOMAIN c[1].kids |-> XmlRead(t[2], c[1].kids[i][2], "")])
             IN  IF Value(g) /\ t[1] = "set" THEN <<Range(g[1])>> ELSE g

\* A pair is read from the node it is given, whatever its name; a pointer
\* always gets an object.
XmlRead(t, node, name) ==
    CASE t[1] \in {"int", "bool", "double", "string", "enum"} -> ReadLeaf(t, node, name)
      [] t[1] = "rec"  -> ReadXmlStruct(t, node, name)
      [] t[1] \in {"list", "set"} -> ReadXmlItems(t, node, name)
      [] t[1] = "pair" -> Gather(<<XmlRead(t[2], node, "id"), XmlRead(t[3], node, "val")>>)
      [] t[1] = "ptr"  -> LET r == XmlRead(t[2], node, name) IN IF Value(r) THEN <<r>> ELSE r

DeserializeXml(t, doc, root) == XmlRead(t, doc, root)

=============================================================================
