------------------------------ MODULE MCFence ------------------------------
(* Sockets of one kind (nothing branches on it), the calls that leave the table  *)
(* alone on one descriptor, and one way to duplicate a descriptor onto itself.    *)
EXTENDS Fence

MCProgram ==
    {c \in Trapped : /\ c.kind = "stream"
                     /\ c.op \in {"send", "dupfd"} \/ c.fd = c.to => c.fd \in {0, NoFd}}

=============================================================================
