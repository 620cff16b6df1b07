------------------------------ MODULE SocketKids ------------------------------
(* Kids on a socket: tcpthrow and tcpcatch (include/tcp_rw.h), udpgen_in,    *)
(* udpgen_in_buf.  The other ends of the sockets are inputs of their own.    *)
EXTENDS KidBase

\* A message on a connection: a header with its length, in HEADER bytes, and its bytes.
HEADER == 2
MAX_CLIENTS == 2
Message(v) == [i \in 1..HEADER |-> Len(v)] \o v
Payload(s, id) == Members(s, id)[1].v

\* -------- tcpthrow: every message is sent to all clients, as far as their sockets take it;
\* what is left is sent with the next messages, which are dropped until it is gone.
\* fds: the connections of the clients 1, 2, ..; buf: per client the message that is partly
\* sent (wsd) and how far (at); wire, room, broken: per connection what was written, how
\* much it takes now, whether the peer is gone; backlog: peers to accept; up: the
\* server that hostname names listens (coin: a second has passed since the last try).
tcpthrow_cfgs == [hostname : {FALSE}, ports : {{"BINARY", "CONNECT", "ROOM", "RESET", "EXIT"}}]
                 \cup [hostname : {TRUE}, ports : {{"BINARY", "LISTEN", "ROOM", "RESET", "EXIT"}}]
NoClient == [wsd |-> 0, at |-> 0]
tcpthrow_init(c) ==
    KidInit @@ [fds |-> <<>>, buf |-> [i \in 1..MAX_CLIENTS |-> NoClient], wire |-> <<>>, room |-> <<>>, broken |-> {},
                backlog |-> 0, up |-> FALSE, ended |-> FALSE, sent |-> 0, dropped |-> 0, coin |-> FALSE]
Connection(s) == [s EXCEPT !.fds = Append(@, Len(s.wire) + 1), !.wire = Append(@, <<>>), !.room = Append(@, 3)]
\* One peer is accepted; one too many is closed, and the call is given up.
check_connection_status(c, s) ==
    CASE c.hostname -> Hit(IF s.fds = <<>> /\ s.up /\ s.coin THEN Connection(s) ELSE s, TRUE)
      [] ~c.hostname /\ s.backlog > 0 /\ Len(s.fds) < MAX_CLIENTS -> Hit(Connection([s EXCEPT !.backlog = @ - 1]), TRUE)
      [] ~c.hostname /\ s.backlog > 0 /\ Len(s.fds) = MAX_CLIENTS -> Hit([s EXCEPT !.backlog = @ - 1], FALSE)
      [] ~c.hostname /\ s.backlog = 0 -> Hit(s, TRUE)
\* As many of these bytes as the socket takes; the client is at the end of them then.
Write(s, idx, v) ==
    LET fd == s.fds[idx]
        n == Min({s.room[fd], Len(v)})
    IN  [s EXCEPT !.wire[fd] = @ \o SubSeq(v, 1, n), !.room[fd] = @ - n, !.buf[idx].at = @ + n]
Rest(s, idx) == LET m == Message(Payload(s, s.buf[idx].wsd)) IN SubSeq(m, s.buf[idx].at + 1, Len(m))
Drops(s) == [s EXCEPT !.dropped = @ + 1]
FinishMessage(s, idx) ==
    LET a == Write(s, idx, Rest(s, idx))
    IN  IF Rest(a, idx) # <<>> THEN Drops(a)
        ELSE [wsdata_delete(a, <<s.buf[idx].wsd, 0>>) EXCEPT !.buf[idx] = NoClient, !.sent = @ + 1]
StartMessage(s, idx, id) ==
    LET a == [s EXCEPT !.buf[idx] = [wsd |-> id, at |-> 0]]
        b == Write(a, idx, Rest(a, idx))
    IN  CASE b.buf[idx].at = 0 -> Drops(s)
          [] b.buf[idx].at > 0 /\ Rest(b, idx) # <<>> -> wsdata_add_reference(b, <<id, 0>>)
          [] b.buf[idx].at > 0 /\ Rest(b, idx) = <<>> -> [b EXCEPT !.buf[idx] = NoClient, !.sent = @ + 1]
tcp_throw_send_msg(s, idx, id) ==
    LET a == IF s.buf[idx].wsd = 0 THEN s ELSE FinishMessage(s, idx)
    IN  IF a.buf[idx].wsd = 0 THEN StartMessage(a, idx, id) ELSE a
\* A client that is gone: the connections behind it move up by one, not so what is
\* partly sent to them; the reference to its own message is not given back.
RemoveClient(s, idx) == [s EXCEPT !.fds = RemoveAt(@, idx), !.buf[idx] = NoClient]
tcp_throw_data(c, s, id) ==
    LET a == check_connection_status(c, s)
        Send(x) == IF x.s.fds[x.i] \in s.broken THEN [x EXCEPT !.s = RemoveClient(@, x.i)]
                   ELSE [s |-> tcp_throw_send_msg(x.s, x.i, id), i |-> x.i + 1]
    IN  IF ~a.found THEN a.s ELSE While(LAMBDA x : x.i <= Len(x.s.fds), Send, [s |-> a.s, i |-> 1], MAX_CLIENTS).s
\* At exit what is partly sent is finished, however long the peer takes.
tcp_throw_destroy(s) ==
    LET Drain(x, idx) == IF x.buf[idx].wsd = 0 \/ x.fds[idx] \in x.broken THEN x
                         ELSE FinishMessage([x EXCEPT !.room[x.fds[idx]] = Len(Rest(x, idx))], idx)
    IN  [Each(Drain, s, [idx \in 1..Len(s.fds) |-> idx]) EXCEPT !.ended = TRUE]
tcpthrow_input_set(c, s, port, id) ==
    CASE s.ended \/ port = "FLUSH" -> s
      [] ~s.ended /\ port = "BINARY" -> tcp_throw_data(c, s, id)
      [] ~s.ended /\ port = "CONNECT" -> [s EXCEPT !.backlog = @ + 1]
      [] ~s.ended /\ port = "LISTEN" -> [s EXCEPT !.up = TRUE]
      [] ~s.ended /\ port = "ROOM" -> [s EXCEPT !.room = [fd \in 1..Len(@) |-> @[fd] + Payload(s, id)[1]]]
      [] ~s.ended /\ port = "RESET" -> [s EXCEPT !.broken = 1..Len(s.wire)]
      [] ~s.ended /\ port = "EXIT" -> tcp_throw_destroy(s)

\* -------- tcpcatch: a message is read as a whole, however long that takes (spins: for ever,
\* if the peer is gone before the last byte).
tcpcatch_cfgs == [wait : {TRUE}]
tcpcatch_init(c) == KidInit @@ [wire |-> <<>>, connected |-> FALSE, closed |-> FALSE, spins |-> FALSE, coin |-> FALSE]
tcp_catch_recv_msg(s) ==
    LET len == s.wire[1]
        whole == Len(s.wire) >= HEADER /\ Len(s.wire) >= HEADER + len
        out == wsdata_alloc(s, <<Bare("bin", SubSeq(s.wire, HEADER + 1, HEADER + len))>>)
    IN  CASE s.wire = <<>> /\ ~s.closed -> s
          [] Len(s.wire) < HEADER /\ s.closed -> [s EXCEPT !.connected = FALSE, !.wire = <<>>]
          [] s.wire # <<>> /\ whole -> [ws_set_outdata(out, Newest(out)) EXCEPT !.wire = SubSeq(@, HEADER + len + 1, Len(@))]
          [] Len(s.wire) >= HEADER /\ ~whole /\ s.closed -> [s EXCEPT !.spins = TRUE]
          [] s.wire # <<>> /\ ~whole /\ ~s.closed -> s
tcpcatch_input_set(c, s, port, id) ==
    LET a == IF ~s.connected /\ s.coin THEN [s EXCEPT !.connected = TRUE, !.closed = FALSE] ELSE s
    IN  CASE s.spins -> s
          [] ~s.spins /\ port = "ARRIVE" -> IF s.connected /\ ~s.closed THEN [s EXCEPT !.wire = @ \o Payload(s, id)] ELSE s
          [] ~s.spins /\ port = "CLOSE" -> [s EXCEPT !.closed = TRUE]
          [] ~s.spins /\ port = "SOURCE" -> IF a.connected THEN tcp_catch_recv_msg(a) ELSE a
          [] ~s.spins /\ port = "FLUSH" -> s

\* -------- udpgen_in: frames of records, numbered.  A frame is a tuple of its number and its
\* records; one with a member ODD is none, and ends the source.
udpgen_in_cfgs == [blocking : BOOLEAN]
udpgen_in_init(c) == KidInit @@ [expected_frameid |-> 0, missed_frame |-> 0, ended |-> FALSE]
udpgen_in_read_csv_udp(s, id) ==
    LET frameid == First(s, id, "FRAME").v
        gap == IF frameid > s.expected_frameid THEN frameid - s.expected_frameid ELSE 0
        Line(x, m) == ws_set_outdata(wsdata_alloc(x, <<Member("KEY", "uint64", m.v[1]), Member("VALUE", "uint", m.v[2]), Member("BIAS", "uint", m.v[3])>>), Newest(x) + 1)
    IN  Each(Line, [s EXCEPT !.expected_frameid = frameid + 1, !.missed_frame = @ + gap], tuple_find_label(s, id, "LINE"))
udpgen_in_input_set(c, s, port, id) ==
    CASE s.ended \/ port # "SOURCE" \/ Members(s, id) = <<>> -> s
      [] ~s.ended /\ port = "SOURCE" /\ Members(s, id) # <<>> ->
            IF Has(s, id, "ODD") THEN [s EXCEPT !.ended = TRUE] ELSE udpgen_in_read_csv_udp(s, id)

\* -------- udpgen_in_buf: the same frames, given out as they are.  A generator that shuts
\* down says so; the source ends with the last of them.
udpgen_in_buf_cfgs == [generators : {1, 2}]
udpgen_in_buf_init(c) == KidInit @@ [gen_shutdown |-> {}, ended |-> FALSE]
udpgen_in_buf_input_set(c, s, port, id) ==
    LET i == First(s, id, "SHUT").v
        try_shutdown(x) == IF i >= c.generators \/ i \in x.gen_shutdown THEN x
                           ELSE [x EXCEPT !.gen_shutdown = @ \cup {i}, !.ended = Cardinality(x.gen_shutdown) + 1 = c.generators]
    IN  CASE s.ended \/ port # "SOURCE" \/ Members(s, id) = <<>> -> s
          [] ~s.ended /\ port = "SOURCE" /\ Members(s, id) # <<>> ->
                CASE Has(s, id, "SHUT") -> try_shutdown(s)
                  [] Has(s, id, "ODD") -> [s EXCEPT !.ended = TRUE]
                  [] Has(s, id, "FRAME") -> ws_set_outdata(s, id)
=============================================================================
