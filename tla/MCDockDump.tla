----------------------------- MODULE MCDockDump -----------------------------
(* DockDump on two stores: the second has no more than one soup.           *)
EXTENDS DockDump

TwoStores == <<2, 1>>
SmallSoups ==
    [d \in {<<1, 1>>, <<1, 2>>, <<2, 1>>} |->
        CASE d = <<1, 1>> -> <<"a", "b">> [] d = <<1, 2>> -> <<"c">> [] OTHER -> <<"d">>]
=============================================================================
