---------------------------- MODULE MCStorePush ----------------------------
(* Small instances of StorePush for TLC: who runs beside whom.             *)
EXTENDS StorePush

MCCasts == {{"push", "edit"}, {"push", "split"}, {"check", "import"},
            {"push", "check"}, {"create", "split"}, {"create", "push"}}

MCWallets == {<<>>, <<5>>, <<9>>, <<3, 12>>, <<14>>, <<1, 20>>}
=============================================================================
