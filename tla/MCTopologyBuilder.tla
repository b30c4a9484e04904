------------------------ MODULE MCTopologyBuilder ------------------------
(***************************************************************************)
(* Instances of TopologyBuilder: two goroutines, "g1" and "g2", and the        *)
(* statements they execute.                                                *)
(***************************************************************************)
EXTENDS TopologyBuilder, TLC

MCLoadable == {"L"}
MCStorages == {"memory", "files"}
MCInitialNodes == [src |-> "source", out |-> "sink"]

Programs2(first, second) == {("g1" :> p @@ "g2" :> q) : p \in first, q \in second}

(* Statements on states: a state is created and saved, then everything races.  *)
CreateOf(type) == [op |-> "createState", type |-> type, valid |-> TRUE]
CreateInvalid == [op |-> "createState", type |-> "A", valid |-> FALSE]
Drop == [op |-> "dropState"]
UpdateIt == [op |-> "updateState"]
SaveIt == [op |-> "saveState"]
LoadOf(type) == [op |-> "loadState", type |-> type, orCreate |-> FALSE, valid |-> TRUE]
LoadOrCreate == [op |-> "loadState", type |-> "A", orCreate |-> TRUE, valid |-> TRUE]

StatePrograms ==
    Programs2({<<CreateOf(t), SaveIt, a>> : t \in {"A", "L"},
                   a \in {Drop, SaveIt, LoadOf("A"), LoadOf("L")}},
              {<<b, c>> : b \in {Drop, UpdateIt, SaveIt, LoadOf("A")},
                          c \in {CreateOf("A"), CreateInvalid, SaveIt, LoadOf("L"), LoadOrCreate}})

(* Statements on nodes: one goroutine builds, the other one interferes.         *)
S(name) == [udsf |-> FALSE, name |-> name, inputs |-> {}]
U(inputs) == [udsf |-> TRUE, name |-> "udsf", inputs |-> inputs]
Stream(name, relations) == [op |-> "createStream", name |-> name, selects |-> <<relations>>]
Union(name, selects) == [op |-> "createUnion", name |-> name, selects |-> selects]
Select(selects) == [op |-> "select", selects |-> selects]
On(op, name) == [op |-> op, name |-> name]
Insert(name, from) == [op |-> "insert", name |-> name, from |-> from]

Builds ==
    {Stream("s", <<S("src"), S("src")>>), Stream("s", <<S("src"), S("x")>>), Stream("s", <<S("s")>>),
     Stream("s", <<U({}), S("src")>>), Stream("s", <<U({"src", "x"})>>), Stream("s", <<U({"src"}), U({})>>),
     Union("s", <<<<S("src")>>, <<U({"src"})>>>>), Union("s", <<<<S("src")>>, <<S("x")>>>>),
     Select(<<<<U({})>>>>), Select(<<<<S("src")>>, <<S("x")>>>>)}

Interferences ==
    {<<On("createSource", "x"), On("dropSource", "x")>>, <<On("dropSource", "src")>>,
     <<On("dropStream", "s")>>, <<Stream("s", <<S("src")>>), On("dropStream", "s")>>,
     <<On("createSource", "x"), On("dropStream", "s")>>, <<Stream("x", <<S("s")>>)>>,
     <<On("pause", "src"), On("resume", "src")>>,
     <<Insert("out", "s"), On("dropSink", "out"), On("createSink", "out")>>}

NodePrograms == Programs2({<<b>> : b \in Builds}, Interferences)

MCPrograms == StatePrograms \cup NodePrograms

(* One SELECT ... UNION ALL whose first part is connected to a source.         *)
UnionSelect == {("g1" :> <<Select(<<<<S("src")>>, <<S("src")>>>>)>>)}
=============================================================================
