------------------------------ MODULE MCPolicy ------------------------------
(* A shop of five products of one group, at most two units of each. *)
EXTENDS SellOut

\* 2 and 3 have one list price, 1 and 5 only one price once it is discounted.
ShopProducts == 1..5
ShopPrice == <<100, 105, 105, 94, 99>>
ShopGroup == <<"tea", "tea", "tea", "tea", "tea">>
ShopBrand == <<"a", "b", "b", "c", "a">>
ShopLikings == {{}, {"b"}, {"c", "b"}}
=============================================================================
