--------------------------------- MODULE Tcp ---------------------------------
(***************************************************************************)
(* The TCP responder of drivers/rtl8139.c (handle_tcp_packet): one         *)
(* connection, on one port, that only ever answers.  The other end is an   *)
(* ordinary client with a window: it sends the pieces of data in it, each  *)
(* again until it is acknowledged, it may crash at any time, and then      *)
(* comes back with another port and another initial number.  The network   *)
(* loses, repeats and reorders.  Segments for another port are dropped and *)
(* are left out.                                                           *)
(*                                                                         *)
(* Segments carry a flag set and a sequence number, modulo SeqMod.  What   *)
(* the client sends are MaxItems pieces of data of DataLen bytes each; the *)
(* responder prints the first PrintLimit bytes of a piece.                 *)
(***************************************************************************)
EXTENDS Integers, FiniteSets

CONSTANTS
  SeqMod,       \* the sequence numbers wrap around here (2^32)
  Conns,        \* the connections of the client, one after the other
  Isns,         \* the initial numbers that they may have: functions of Conns
  MaxWindow,    \* the pieces that a client may have under way
  MaxItems,     \* the data that a connection carries
  DataLen,      \* bytes in a piece
  PrintLimit,   \* bytes of a segment that handle_tcp_packet prints (128)
  MaxFlight,    \* bound: segments under way, in each direction
  MaxLosses     \* bound: segments that the network loses

Plus(a, b) == (a + b) % SeqMod

ASSUME TcpAssumption ==
  /\ SeqMod \in Nat \ {0} /\ MaxItems \in Nat /\ DataLen \in Nat \ {0} /\ PrintLimit \in Nat
  /\ MaxWindow \in Nat \ {0} /\ MaxFlight \in Nat /\ MaxLosses \in Nat
  /\ Conns = 1 .. Cardinality(Conns) /\ Isns \subseteq [Conns -> 0 .. (SeqMod - 1)]

VARIABLES
  tcp_state, tcp_remote_port, tcp_seq, tcp_ack,
  cstate,     \* the client: its state
  conn,       \*   its connection, which is also its port
  item,       \*   the first piece of data that is not acknowledged
  isn,        \*   isn[c]: the initial number of its connection c
  window,     \*   the pieces that it may have under way
  toServer, toClient,
  losses,
  printed     \* the bytes that handle_tcp_packet has printed: <<connection, piece, byte>>

server == <<tcp_state, tcp_remote_port, tcp_seq, tcp_ack>>
client == <<cstate, conn, item>>
chosen == <<isn, window>>
tcpVars == <<server, client, chosen, toServer, toClient, losses, printed>>

ServerIsn == 2000
Flag == {"SYN", "ACK", "PSH", "FIN"}
Segment == [port : Conns, flags : SUBSET Flag, seq : 0 .. (SeqMod - 1), item : 0 .. MaxItems,
            len : {0, DataLen}]
Reply == [port : Conns, flags : SUBSET Flag, seq : {ServerIsn, ServerIsn + 1},
          ack : 0 .. (SeqMod - 1)]

TcpInit ==
  /\ tcp_state = "LISTEN" /\ tcp_remote_port = 0 /\ tcp_seq = 1000 /\ tcp_ack = 0
  /\ cstate = "closed" /\ conn = 0 /\ item = 0
  /\ isn \in Isns /\ window \in 1 .. MaxWindow
  /\ toServer = {} /\ toClient = {} /\ losses = 0 /\ printed = {}
-----------------------------------------------------------------------------
\* Mutant: a connection that is open is not given up for a new one.
IsSynUnlessOpen(s) == "SYN" \in s.flags /\ tcp_state # "ESTABLISHED"

\* Which branch of handle_tcp_packet a segment takes
IsSyn(s) == "SYN" \in s.flags
Establishes(s) == ~IsSyn(s) /\ "ACK" \in s.flags /\ tcp_state = "SYN_RCVD"
Delivers(s) ==
  /\ ~IsSyn(s) /\ ~Establishes(s)
  /\ {"PSH", "ACK"} \cap s.flags # {}
  /\ s.len > 0
IsFin(s) == "FIN" \in s.flags

\* send_tcp_packet
Out(port, seq, ack, flags) == {[port |-> port, flags |-> flags, seq |-> seq, ack |-> ack]}

\* The acknowledgement number that the branches set and send; a FIN comes last.
AckOfBranch(s) == IF IsSyn(s) THEN Plus(s.seq, 1) ELSE Plus(s.seq, s.len)
NewAck(s) ==
  IF IsFin(s) THEN Plus(s.seq, 1)
  ELSE IF IsSyn(s) \/ Delivers(s) THEN AckOfBranch(s)
  ELSE tcp_ack

NewState(s) ==
  IF IsFin(s) THEN "CLOSED"
  ELSE IF IsSyn(s) THEN "SYN_RCVD"
  ELSE IF Establishes(s) THEN "ESTABLISHED"
  ELSE tcp_state

\* Mutant: the segment that completes the handshake is acknowledged with its data.
AnswersEarly(s) ==
  LET port == IF IsSyn(s) THEN s.port ELSE tcp_remote_port
      seq  == IF IsSyn(s) THEN ServerIsn + 1 ELSE tcp_seq
  IN  (IF IsSyn(s) THEN Out(port, ServerIsn, AckOfBranch(s), {"SYN", "ACK"}) ELSE {})
        \cup (IF Delivers(s) \/ Establishes(s) THEN Out(port, seq, AckOfBranch(s), {"ACK"}) ELSE {})
        \cup (IF IsFin(s) THEN Out(port, seq, Plus(s.seq, 1), {"FIN", "ACK"}) ELSE {})

Answers(s) ==
  LET port == IF IsSyn(s) THEN s.port ELSE tcp_remote_port
      seq  == IF IsSyn(s) THEN ServerIsn + 1 ELSE tcp_seq
  IN  (IF IsSyn(s) THEN Out(port, ServerIsn, AckOfBranch(s), {"SYN", "ACK"}) ELSE {})
        \cup (IF Delivers(s) THEN Out(port, seq, AckOfBranch(s), {"ACK"}) ELSE {})
        \cup (IF IsFin(s) THEN Out(port, seq, Plus(s.seq, 1), {"FIN", "ACK"}) ELSE {})

\* The bytes that the loop prints: it ends at the data's end or at the limit.
Shown(len) == {b \in 0 .. (len - 1) : b < PrintLimit}
Prints(s) == {<<s.port, s.item, b>> : b \in Shown(s.len)}

handle_tcp_packet ==
  \E s \in toServer :
    /\ Cardinality(toClient \cup Answers(s)) <= MaxFlight
    /\ tcp_state' = NewState(s)
    /\ tcp_remote_port' = IF IsSyn(s) THEN s.port ELSE tcp_remote_port
    /\ tcp_seq' = IF IsSyn(s) THEN ServerIsn + 1 ELSE tcp_seq
    /\ tcp_ack' = NewAck(s)
    /\ printed' = IF Delivers(s) THEN printed \cup Prints(s) ELSE printed
    /\ toServer' = toServer \ {s}
    /\ toClient' = toClient \cup Answers(s)
    /\ UNCHANGED <<client, chosen, losses>>
-----------------------------------------------------------------------------
(* The client. *)

\* The number of the first byte of a piece of the connection
NumberOf(n) == Plus(isn[conn], 1 + n * DataLen)

Sent(flags, seq, n, len) ==
  {[port |-> conn, flags |-> flags, seq |-> seq, item |-> n, len |-> len]}

\* The pieces in the client's window
Window == {n \in item .. (MaxItems - 1) : n < item + window}

\* The segments that wait for their acknowledgement
Current ==
  CASE cstate = "syn_sent" -> Sent({"SYN"}, isn[conn], 0, 0)
    [] cstate = "established" ->
         UNION {Sent({"PSH", "ACK"}, NumberOf(n), n, DataLen) : n \in Window}
    [] cstate = "fin_wait" -> Sent({"FIN", "ACK"}, NumberOf(MaxItems), MaxItems, 0)
    [] OTHER -> {}

BareAck == Sent({"ACK"}, NumberOf(item), item, 0)

Connect ==
  /\ cstate = "closed" /\ conn + 1 \in Conns
  /\ cstate' = "syn_sent" /\ conn' = conn + 1 /\ item' = 0
  /\ UNCHANGED <<server, chosen, toServer, toClient, losses, printed>>

\* The client, or its timer, sends one of them, for the first time or again.
ClientSend ==
  \E s \in Current :
    /\ Cardinality(toServer \cup {s}) <= MaxFlight
    /\ toServer' = toServer \cup {s}
    /\ UNCHANGED <<server, client, chosen, toClient, losses, printed>>

AfterItem(n) == IF n = MaxItems THEN "fin_wait" ELSE "established"

\* What does not belong to the connection, or does not carry the number that it expects,
\* is dropped.  An acknowledgement stands for all that precedes it.  SYN and FIN are
\* acknowledged, each time they come.
ClientReceive ==
  \E r \in toClient, n \in 0 .. MaxItems :
    LET fits == /\ cstate # "closed" /\ r.port = conn
                /\ r.seq = IF "SYN" \in r.flags THEN ServerIsn ELSE ServerIsn + 1
        syn  == /\ fits /\ cstate = "syn_sent" /\ {"SYN", "ACK"} \subseteq r.flags
                /\ r.ack = NumberOf(0)
        data == {k \in Window : /\ fits /\ cstate = "established" /\ "SYN" \notin r.flags
                                /\ r.ack = NumberOf(k + 1)}
        fin  == /\ fits /\ cstate = "fin_wait" /\ "FIN" \in r.flags
                /\ r.ack = Plus(NumberOf(MaxItems), 1)
        acks == fits /\ (syn \/ (cstate # "syn_sent" /\ {"SYN", "FIN"} \cap r.flags # {}))
    IN  /\ IF data = {} THEN n = item ELSE n - 1 \in data
        /\ item' = n
        /\ cstate' = IF syn \/ data # {} THEN AfterItem(n)
                     ELSE IF fin THEN "done" ELSE cstate
        /\ toServer' = IF acks /\ Cardinality(toServer \cup BareAck) <= MaxFlight
                         THEN toServer \cup BareAck ELSE toServer
        /\ toClient' = toClient \ {r}
        /\ UNCHANGED <<server, conn, chosen, losses, printed>>

\* The client crashes and has forgotten its connection, if it may come back.
ClientCrash ==
  /\ cstate # "closed" /\ conn + 1 \in Conns
  /\ cstate' = "closed"
  /\ UNCHANGED <<server, conn, item, chosen, toServer, toClient, losses, printed>>

TcpLose ==
  /\ losses < MaxLosses
  /\ losses' = losses + 1
  /\ \/ \E s \in toServer : toServer' = toServer \ {s} /\ UNCHANGED toClient
     \/ \E r \in toClient : toClient' = toClient \ {r} /\ UNCHANGED toServer
  /\ UNCHANGED <<server, client, chosen, printed>>

TcpNext == \/ handle_tcp_packet \/ Connect \/ ClientSend \/ ClientReceive \/ ClientCrash
           \/ TcpLose

\* The interrupt handler runs when a frame has come, and the client is alive.
TcpFairness == /\ WF_tcpVars(handle_tcp_packet)
               /\ WF_tcpVars(ClientSend) /\ WF_tcpVars(ClientReceive)

TcpSpec == TcpInit /\ [][TcpNext]_tcpVars /\ TcpFairness
-----------------------------------------------------------------------------
\* Both ends and the segments under way have their types; numbers stay in their word.
TcpTypeOK ==
  /\ tcp_state \in {"CLOSED", "LISTEN", "SYN_RCVD", "ESTABLISHED"}
  /\ tcp_remote_port \in Conns \cup {0} /\ tcp_ack \in 0 .. (SeqMod - 1)
  /\ tcp_seq \in {1000, ServerIsn + 1}
  /\ cstate \in {"closed", "syn_sent", "established", "fin_wait", "done"}
  /\ conn \in Conns \cup {0} /\ item \in 0 .. MaxItems
  /\ isn \in Isns /\ window \in 1 .. MaxWindow
  /\ toServer \subseteq Segment /\ toClient \subseteq Reply
  /\ losses \in 0 .. MaxLosses
  /\ printed \subseteq Conns \X (0 .. MaxItems) \X (0 .. (DataLen - 1))

\* A piece has been printed: as much of it as the responder ever prints.
IsPrinted(c, n) == \A b \in Shown(DataLen) : <<c, n, b>> \in printed

\* The number behind a piece of a connection, and behind its FIN
Behind(c, n) == Plus(isn[c], 1 + (n + 1) * DataLen)
BehindFin(c) == Plus(isn[c], MaxItems * DataLen + 2)

(* Whatever the network repeats or swaps, whatever numbers the connections have and      *)
(* however much the client sends ahead: no answer acknowledges data but by the number    *)
(* behind a piece that handle_tcp_packet has printed, up to the limit of its loop; above *)
(* all not the data of the segment that completes the handshake, which is dropped.       *)
AcksFollowPrints ==
  \A r \in toClient :
    \/ "SYN" \in r.flags
    \/ "FIN" \in r.flags /\ \E c \in Conns : r.ack = BehindFin(c)
    \/ \E c \in Conns, n \in 0 .. (MaxItems - 1) : r.ack = Behind(c, n) /\ IsPrinted(c, n)

\* handle_tcp_packet does not look at where a segment comes from once a connection is open:
\* what is left of an earlier connection is told from the present one by its numbers alone.
\* Here those that a connection uses, from its SYN up to behind its FIN, are its own.
NumbersApart ==
  \A c, d \in Conns : \A j, k \in 0 .. (MaxItems * DataLen + 2) :
    Plus(isn[c], j) = Plus(isn[d], k) => c = d /\ j = k

(* The piece up to which the client has had its data acknowledged was printed, if the    *)
(* numbers of its connections are apart.  Only that piece: the responder acknowledges    *)
(* what it gets without looking for a gap before it, and a client that sends ahead       *)
(* takes this for an acknowledgement of the gap as well.                                 *)
LastAckedIsPrinted ==
  NumbersApart /\ cstate # "closed" /\ item > 0 => IsPrinted(conn, item - 1)

\* A client that sends a piece when the one before it has been acknowledged
StopAndWait == window = 1 /\ NumbersApart

(* To a client that sends one piece at a time nothing is lost but what is over the limit: *)
(* all that it has had acknowledged was printed.                                          *)
AckedIsPrinted ==
  StopAndWait /\ cstate # "closed" => \A n \in 0 .. (item - 1) : IsPrinted(conn, n)

(* To such a client data is first printed in the order in which it was sent: no piece    *)
(* before the ones that precede it.                                                       *)
PrintedWithoutGaps ==
  StopAndWait => \A p \in printed : \A n \in 0 .. (p[2] - 1) : IsPrinted(p[1], n)

(* A late SYN of an earlier connection takes the port of the responder away. *)
TakenOver == cstate \in {"established", "fin_wait"} /\ tcp_remote_port # conn

(* A client that connects, whatever state an earlier connection was left in, gets all its *)
(* data acknowledged and its connection closed, unless it crashes or the responder is     *)
(* taken over by a late SYN.                                                              *)
ConnectionCompletes == cstate = "syn_sent" ~> cstate \in {"done", "closed"} \/ TakenOver

(* The responder acknowledges only what it prints; to a client that sends one piece at a  *)
(* time, with numbers of its own, it acknowledges and prints everything in order.         *)
TcpInv ==
  TcpTypeOK /\ AcksFollowPrints /\ LastAckedIsPrinted /\ AckedIsPrinted /\ PrintedWithoutGaps
=============================================================================
