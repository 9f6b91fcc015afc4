---------------------------- MODULE MCUpdateGroup ----------------------------
(* Buffers of four rows in minibatches of three: the last one is a row.      *)
EXTENDS UpdateGroup

Lengths == <<2, 1, 3, 1>>
Heads   == <<"mode", "net_id", "mode", "net_id">>
Draws   == {<<1, 2, 3, 4>>, <<4, 3, 1, 2>>}

Setup(world, mode, warm) == [world |-> world, mode |-> mode, warm |-> warm]

AllSetups    == {Setup(1, "reactive", 1), Setup(1, "planned", 0), Setup(2, "ddp", 0), Setup(3, "ddp", 0)}
WarmupSetups == {Setup(2, "ddp", 1)}
=============================================================================
