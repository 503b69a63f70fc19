------------------------------ MODULE MCDispatch ------------------------------
(* A form with two products and a shop customer whose second order is large   *)
(* and comes from the same address written differently.                       *)
EXTENDS Dispatch, TLC

CONSTANTS h1, h2
SymHandlers == Permutations(Handlers)

MCContents == {"tea", "oil", "small", "large"}
MCForms == {"tea", "oil"}
MCFirstProduct == [f \in MCForms |-> "tea"]
MCEmail == [tea |-> "x", oil |-> "x", small |-> "a", large |-> "A"]
MCPerson == [x |-> "x", a |-> "a", A |-> "a"]
MCTotal == [tea |-> 100, oil |-> 60, small |-> 10, large |-> 40]
MCGiven == [f \in MCForms |-> 1]
Shop(id, content, raw) ==
    [via |-> "webhook", id |-> id, content |-> content, raw |-> raw]
MCShop == {Shop("woo-1", "small", "sent"), Shop("woo-1", "small", "again"),
           Shop("woo-2", "large", "sent")}
=============================================================================
