----------------------------- MODULE MCConnection -----------------------------
(* The uses of a connection.  Server: only its pumps use it, the hub writes to *)
(* the websocket, the context is that of the HTTP request.  Peer: main sends   *)
(* (cmd/), pion's callback writes to the websocket.  Shared: several           *)
(* goroutines close it, as transport.Client.Close allows.                      *)
EXTENDS Connection

CONSTANTS hub, main, pion, app, admin

Server == [senders |-> {}, closers |-> {}, rawWriters |-> {hub}, requestScoped |-> TRUE]
Peer == [senders |-> {main}, closers |-> {}, rawWriters |-> {pion}, requestScoped |-> FALSE]
Shared == [senders |-> {main}, closers |-> {app, admin}, rawWriters |-> {},
           requestScoped |-> FALSE]

MCUses == {Server, Peer, Shared}
MCPeer == {Peer}
=============================================================================
