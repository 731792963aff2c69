---------------------------- MODULE MCTcpStream ----------------------------
(* TLC instances of TcpStream: one byte fits a buffer, the client writes two
   and the server one, or the client alone writes one. *)
EXTENDS TcpStream

OneByte == [e \in End |-> IF e = "client" THEN 1 ELSE 0]

Bytes == [e \in End |-> IF e = "client" THEN 2 ELSE 1]
============================================================================
