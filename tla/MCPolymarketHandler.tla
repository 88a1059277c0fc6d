------------------------ MODULE MCPolymarketHandler ------------------------
(***************************************************************************)
(* Three Polymarket token ids under every APIConfig shape; the configs    *)
(* NewAPIHandler accepts bin one to a query or two to a query (then        *)
(* CreateURL refuses the bin of two); midpoints zero, 0.325 and 1.         *)
(***************************************************************************)
EXTENDS PolymarketHandler, TLC

\* Configs with either name, enabled or not, 0 to 2 endpoints and bin
\* sizes 1 and 2; only the enabled Polymarket ones with one endpoint build.
MCAPIConfigs == [name : {Name, "other"}, enabled : BOOLEAN, valid : {TRUE},
                 endpoints : 0..2, maxIds : {1, 2}]

MCIdSeq == <<"t1", "t2", "t3">>

=============================================================================
