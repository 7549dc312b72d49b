---------------------------- MODULE MCKeyedStore ----------------------------
(***************************************************************************)
(* KeyedStore with files of each shape the stores tell apart: a map of     *)
(* maps, a list at the root, a list of texts, a list of maps, empty        *)
(* containers and null values; and additions that extend these, fill holes *)
(* in lists or claim a place that another unit has.                        *)
(***************************************************************************)
EXTENDS KeyedStore

K(name) == <<"key", name>>
I(i) == <<"index", i>>
T(text) == Leaf("str", text)
JsonFiles ==
  { Map(K("a") :> T("x") @@ K("b") :> Map(K("c") :> T("y"))),
    List(<<T("x"), T("y"), Leaf("bool", "False")>>),
    Map(K("a") :> List(<<T("x"), EmptyMap, Map(K("c") :> T("y"))>>) @@ K("b") :> Null),
    List(<<List(<<T("x")>>), T("y")>>) }
YamlFiles ==
  { Map(K("a") :> Map(K("b") :> T("x") @@ K("c") :> Leaf("bool", "True"))),
    Map(K("a") :> List(<<T("x"), T("y"), T("z")>>)),
    Map(K("a") :> List(<<Map(K("b") :> T("x")), Map(K("b") :> T("y")), Map(K("b") :> T("z"))>>)),
    List(<<T("x"), T("y")>>),
    Map(K("a") :> Null @@ K("b") :> EmptyMap) }
AllFiles == {[kind |-> "json", root |-> f] : f \in JsonFiles}
              \cup {[kind |-> "yaml", root |-> f] : f \in YamlFiles}
AllAdditions == { <<K("a")>>, <<K("d")>>, <<K("a"), K("b")>>, <<K("a"), I(1)>>, <<I(0)>>, <<I(3)>>,
  <<K("d"), I(1), K("b")>>, <<K("b"), K("c")>>, <<I(0), I(1)>>, <<K("a"), I(1), K("b")>> }
=============================================================================
