----------------------------- MODULE Interfaces -----------------------------
(***************************************************************************)
(* Interfaces and their bases: how a service finds one of its interfaces   *)
(* (service/iservice.h, service/detail/service.h), the list of interfaces  *)
(* that a stub and a proxy are made for (service/inherited_list.h) and how *)
(* a stub finds the method of a request (remote/ps.h, detail/ps_base.h).   *)
(*                                                                         *)
(* An object is laid out in the order of its bases: the first base of an   *)
(* interface begins where the interface begins, the others do not.         *)
(***************************************************************************)
EXTENDS Integers, Sequences, SequencesExt, FiniteSetsExt

CONSTANTS
    Bases,      \* the bases of an interface, in order: <<>> for IService
    MethodsOf   \* the names of the methods an interface declares

Interface == DOMAIN Bases
IService == "IService"

ASSUME BasesAssumption ==
    /\ IService \in Interface /\ Bases[IService] = <<>>
    /\ \A i \in Interface : Bases[i] \in Seq(Interface) /\ (i # IService => Bases[i] # <<>>)
    /\ MethodsOf \in [Interface -> SUBSET STRING]

None == "none"

-----------------------------------------------------------------------------
\* The subobjects of a service that implements i: the ways down to a base.
RECURSIVE Paths(_)
Paths(i) == {<<i>>} \cup
            UNION {{<<i>> \o p : p \in Paths(Bases[i][k])} : k \in DOMAIN Bases[i]}
SubobjectsOf(i, target) == {p \in Paths(i) : Last(p) = target}

\* The subobject is at the beginning of the object.
RECURSIVE AtStart(_)
AtStart(p) == Len(p) = 1 \/ (Bases[p[1]][1] = p[2] /\ AtStart(Tail(p)))

\* Detail::QueryInterface goes through the tree depth first, and returns the
\* pointer it was given as a pointer to the interface it found: the path of
\* that interface, or <<>>.
RECURSIVE QueryInterface(_, _)
QueryInterface(i, target) ==
    IF i = target THEN <<i>>
    ELSE LET found == {k \in DOMAIN Bases[i] : QueryInterface(Bases[i][k], target) # <<>>}
         IN  IF found = {} THEN <<>> ELSE <<i>> \o QueryInterface(Bases[i][Min(found)], target)

\* The member Query of a service that implements i, asked for target: the
\* kind of subobject its pointer refers to.
MemberQuery(i, target) ==
    LET p == QueryInterface(i, target)
    IN  CASE target = IService -> IService
          [] target # IService /\ p = <<>> -> None
          [] OTHER -> IF AtStart(p) THEN target ELSE "another interface"

\* Mutant of QueryService: no dynamic_cast.
QueryServiceMember(i, target) == MemberQuery(i, target)

\* Service::Query: dynamic_cast, which finds a base that occurs once, and
\* then the member.
QueryService(i, target) ==
    IF Cardinality(SubobjectsOf(i, target)) = 1 THEN target ELSE MemberQuery(i, target)

\* External::Query asks the services it was given one after another.
QueryExternal(services, target) ==
    LET found == {k \in DOMAIN services : MemberQuery(services[k], target) # None}
    IN  IF found = {} THEN None ELSE MemberQuery(services[Min(found)], target)

\* Factory: insert keeps the creator an identifier has; Create throws (None)
\* when there is none.
AddClass(creators, id, impl) ==
    IF \E c \in creators : c[1] = id THEN creators ELSE creators \cup {<<id, impl>>}
CreateService(creators, id) ==
    LET found == {c \in creators : c[1] = id} IN IF found = {} THEN None ELSE (CHOOSE c \in found : TRUE)[2]

-----------------------------------------------------------------------------
\* UniqueTuple: the first occurrences, the last of them first.
MakeUniqueTuple(s) ==
    FoldLeft(LAMBDA acc, x : IF x \in ToSet(acc) THEN acc ELSE <<x>> \o acc, <<>>, s)

RECURSIVE ExpandInterfaceBase(_)

\* Mutant of ExpandBases: the bases of the bases are left out.
ExpandBasesFlat(is) == IF is = <<IService>> \/ is = <<>> THEN <<>> ELSE MakeUniqueTuple(is)

\* The bases of an interface, and the bases of the bases; IService is not in
\* the list.
ExpandBases(is) ==
    IF is = <<IService>> \/ is = <<>> THEN <<>>
    ELSE MakeUniqueTuple(is \o FlattenSeq([k \in DOMAIN is |-> ExpandInterfaceBase(is[k])]))
ExpandInterfaceBase(i) == IF i = IService THEN <<>> ELSE MakeUniqueTuple(ExpandBases(Bases[i]))

MakeInheritedList(i) == ExpandInterfaceBase(i)

\* A stub for i is a chain of items: i first, then the list.
StubChain(i) == <<i>> \o MakeInheritedList(i)

\* ContainInterfaceId of the chain.
ContainInterfaceId(i, id) == id \in ToSet(StubChain(i))

\* InvokeMethod: the first item of the chain that has a method of that name,
\* whatever the interface of the request is.
InvokeMethod(i, method) ==
    LET found == {k \in DOMAIN StubChain(i) : method \in MethodsOf[StubChain(i)[k]]}
    IN  IF found = {} THEN None ELSE StubChain(i)[Min(found)]

\* Stub::Call: the interface whose method runs, or None when the response
\* carries an exception.
StubCall(i, id, method) == IF ContainInterfaceId(i, id) THEN InvokeMethod(i, method) ELSE None

\* Registry::Visitor: the registered items in order, up to the first that
\* gives a result.
Accept(registered, id) ==
    LET found == {k \in DOMAIN registered : registered[k] = id}
    IN  IF found = {} THEN None ELSE registered[Min(found)]

\* Stub::Query: the object of the registered interface of that name.
StubQuery(registered, impl, id) ==
    IF Accept(registered, id) = None THEN None ELSE QueryService(impl, id)

=============================================================================
