------------------------------ MODULE TcpLink ------------------------------
(***************************************************************************)
(* The one TCP connection between the client and the server, as the        *)
(* programs of application/ see it through the socket calls.  This is      *)
(* kernel code, modelled from how the programs use it: connect(2) succeeds *)
(* as soon as the server listens, bytes arrive in order, an exiting        *)
(* process closes its end, and the other end notices when it next reads    *)
(* or writes.  A token is one element of rx; how a token is cut into       *)
(* pieces is the subject of TokenFraming.                                  *)
(*                                                                         *)
(* ended[s] says how the kernel of side s ended the connection:            *)
(*   "fin"  in order.  The peer reads what is left and then 0 bytes; what  *)
(*          it writes is lost, or the RST that answers its first write     *)
(*          makes the next one raise SIGPIPE;                              *)
(*   "rst"  with bytes unread.  The peer's next call at the end of its     *)
(*          data fails with ECONNRESET; an error is reported once, after   *)
(*          which the connection looks as after "fin".                     *)
(***************************************************************************)
EXTENDS Naturals, Sequences

VARIABLES
    listening,  \* listen(2) has been called on the server's port
    linked,     \* connect(2) succeeded: the connection exists
    rx,         \* rx[s]: the tokens side s can still read
    ended       \* ended[s]: how side s ended the connection

linkVars == <<listening, linked, rx, ended>>

Side == {"client", "server"}
Peer(s) == IF s = "client" THEN "server" ELSE "client"

LinkInit ==
    /\ listening = FALSE /\ linked = FALSE
    /\ rx = [s \in Side |-> <<>>]
    /\ ended = [s \in Side |-> "open"]

Listen == listening' = TRUE /\ UNCHANGED <<linked, rx, ended>>

\* A connection waits in the backlog until the server accepts it.
Connectable == listening /\ ended["server"] = "open"
Connect == linked' = TRUE /\ UNCHANGED <<listening, rx, ended>>

\* write(2) took the whole token; a side that has ended will not read it.
Put(s, token) ==
    /\ rx' = IF ended[Peer(s)] = "open"
             THEN [rx EXCEPT ![Peer(s)] = Append(@, token)]
             ELSE rx
    /\ UNCHANGED <<listening, linked, ended>>

\* read(2) took the first token.
Take(s) ==
    /\ rx[s] # <<>>
    /\ rx' = [rx EXCEPT ![s] = Tail(@)]
    /\ UNCHANGED <<listening, linked, ended>>

\* read(2) of side s can return 0.
AtEof(s) == rx[s] = <<>> /\ ended[Peer(s)] = "fin"

\* read(2) or write(2) of side s can fail with ECONNRESET; it does so once.
SendBroken(s) == ended[Peer(s)] = "rst"
RecvBroken(s) == rx[s] = <<>> /\ ended[Peer(s)] = "rst"

ErrorReported(s) ==
    /\ ended' = [ended EXCEPT ![Peer(s)] = "fin"]
    /\ UNCHANGED <<listening, linked, rx>>

\* write(2) of side s can raise SIGPIPE, which neither program handles.
Sigpipe(s) == ended[Peer(s)] # "open"

\* Side s closes its socket or its process ends.  With tokens unread the
\* kernel may send RST, and then what the peer has not received yet is lost;
\* if they reach the closed socket only later, FIN goes first.
Close(s) ==
    /\ \/ /\ ended' = [ended EXCEPT ![s] = "fin"]
          /\ rx' = [rx EXCEPT ![s] = <<>>]
       \/ /\ rx[s] # <<>>
          /\ ended' = [ended EXCEPT ![s] = "rst"]
          /\ \E n \in 0 .. Len(rx[Peer(s)]) :
                rx' = [rx EXCEPT ![s] = <<>>, ![Peer(s)] = SubSeq(@, 1, n)]
    /\ UNCHANGED <<listening, linked>>

\* The server's process ends before accept(2): the connection in the backlog
\* is reset.
CloseUnaccepted ==
    /\ ended' = [ended EXCEPT !["server"] = IF linked THEN "rst" ELSE "fin"]
    /\ rx' = [rx EXCEPT !["server"] = <<>>]
    /\ UNCHANGED <<listening, linked>>
=============================================================================
