------------------------------ MODULE MCTcpEcho ------------------------------
(* The module that TLC checks TcpEcho with.  Clients are not interchangeable: *)
(* Cut holds some of them.                                                    *)
EXTENDS TcpEcho
=============================================================================
