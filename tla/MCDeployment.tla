---------------------------- MODULE MCDeployment ----------------------------
(* A model of four layers and two heads that is too large for one GPU.     *)
EXTENDS Deployment

MCRunnable == {<<1, 2>>, <<1, 4>>, <<2, 1>>}

\* One node too small for any configuration, one with room, two nodes that
\* a configuration has to be cut for, and the searches that ignore the nodes.
MCCommands ==
    {"distserve"} \X {FALSE} \X {<<1, 3>>, <<1, 4>>, <<2, 2>>, <<2, 3>>}
        \cup {"distserve", "vllm"} \X {TRUE} \X {<<2, 2>>}
=============================================================================
