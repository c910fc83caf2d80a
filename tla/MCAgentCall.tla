----------------------------- MODULE MCAgentCall -----------------------------
(* Documents for a node with two pieces of evidence and one category.      *)
EXTENDS AgentCall

Sub(deps, rubric, evidence, refs) ==
  [deps |-> deps, rubric |-> rubric, evidence |-> evidence, refs |-> refs]

Plan(sub, node, strategy) == [sub |-> sub, node |-> node, strategy |-> strategy]

TwoEvidence == {"e1", "e2"}
OneCategory == {"style"}

ThePlans ==
  [split   |-> Plan([a |-> Sub({}, {"style"}, <<"e1">>, TRUE),
                     b |-> Sub({"a"}, {}, <<"e2">>, TRUE)], TRUE, TRUE),
   kept    |-> Plan([s \in {"a", "Z-99"} |->
                       IF s = "a" THEN Sub({}, {"style"}, <<"e1", "e2">>, TRUE)
                       ELSE Sub({"a"}, {}, <<>>, TRUE)], TRUE, TRUE),
   bare    |-> Plan([a |-> Sub({}, {}, <<>>, TRUE)], TRUE, TRUE),
   twice   |-> Plan([a |-> Sub({}, {}, <<"e1", "e2", "e1">>, TRUE)], TRUE, TRUE),
   shared  |-> Plan([a |-> Sub({}, {}, <<"e1", "e2">>, TRUE),
                     b |-> Sub({}, {}, <<"e2">>, TRUE)], TRUE, TRUE),
   foreign |-> Plan([a |-> Sub({}, {"speed"}, <<"e1", "e2", "other">>, FALSE)], TRUE, TRUE),
   loop    |-> Plan([a |-> Sub({"b"}, {}, <<"e1">>, TRUE),
                     b |-> Sub({"a"}, {}, <<"e2">>, TRUE)], TRUE, TRUE)]

AllIds ==
  {<<"rubric", "category", "style">>, <<"rubric", "gap", "style">>,
   <<"standards", "finding", "f">>, <<"standards", "finding", "g">>,
   <<"architecture", "finding", "f">>, <<"architecture", "finding", "g">>,
   <<"behavior", "evidence", "e1">>, <<"behavior", "gap", "c">>}

Fixup(own, addressed, notes) ==
  [own |-> own, addressed |-> addressed, notes |-> notes, builds |-> TRUE, refs |-> TRUE]

TheFixups ==
  [listed  |-> Fixup([x |-> {<<"rubric", "target", "style">>}], AllIds, {}),
   owner   |-> Fixup([x |-> {<<"behavior", "evidence", "e1">>, <<"behavior", "gap", "c">>},
                      y |-> {<<"rubric", "target", "style">>}], {}, {}),
   rivals  |-> Fixup([x |-> {<<"behavior", "evidence", "e1">>},
                      y |-> {<<"behavior", "evidence", "e1">>}], AllIds, {}),
   noted   |-> Fixup([x |-> {}], {}, AllIds)]

TheGrades ==
  [rubric       |-> [fine  |-> [below |-> {}, gaps |-> {"style"}],
                     poor  |-> [below |-> {"style"}, gaps |-> {"style"}]],
   standards    |-> [clean |-> [f \in {} |-> "low"],
                     grave |-> [f |-> "critical", g |-> "critical"]],
   architecture |-> [minor |-> [f |-> "medium", g |-> "low"],
                     major |-> [f |-> "critical"]],
   behavior     |-> [shown |-> [verified |-> {"e1", "e2"}, unverified |-> {}, gaps |-> {}],
                     unshown |-> [verified |-> {}, unverified |-> {"e1"}, gaps |-> {"c"}]]]

Budgets  == [medium |-> 1, high |-> 0, critical |-> 0]
GlmChain == <<"client_side", "cli_native">>
GptChain == <<"cli_native">>
=============================================================================
