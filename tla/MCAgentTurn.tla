---------------------------- MODULE MCAgentTurn ----------------------------
(* Instance of AgentTurn for TLC: one question of each sort, and two         *)
(* backends, one cheap and one dear, whose priority is so low that it only   *)
(* serves complex questions.                                                 *)
EXTENDS AgentTurn

MCQuestions  == {"ask", "help", "look"}
MCClass      == [q \in MCQuestions |-> CASE q = "ask" -> "simple" [] q = "help" -> "fast"
                                       [] q = "look" -> "complex"]
MCPictures   == {"look"}
MCKey        == [q \in MCQuestions |-> q]
MCLoaded     == <<[priority |-> 0, tier |-> 1], [priority |-> 11, tier |-> 5]>>
MCPresets    == {3}
MCCalls      == {<<"set_rgb", "red">>, <<"read_file", "notes">>}
MCLocalTools == {"read_file"}
MCPauses     == {5, 300}
=============================================================================
