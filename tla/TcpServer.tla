------------------------------ MODULE TcpServer ------------------------------
(***************************************************************************)
(* The network service (lib/net/service.cpp), the one-client TCP byte      *)
(* stream on top of it (lib/net/tcp_server.cpp) and a consumer of that     *)
(* stream that collects messages (lib/console/tcp.hpp).                    *)
(*                                                                         *)
(* External: the Ethernet driver and lwIP.  lwIP delivers the bytes of a   *)
(* connection once and in order, no more than the receive window allows,   *)
(* and calls back only inside Service::poll().  One poll handles several   *)
(* frames; here each frame is a poll of its own.                           *)
(*                                                                         *)
(* A byte is named by its connection and its place in the stream.          *)
(***************************************************************************)
EXTENDS Integers, Sequences

CONSTANTS
    TcRing,            \* size of rx_, also TCP_WND
    TcQueue,           \* size of tx_
    TcMaxConnections,  \* bound on the connections of a behaviour
    TcMaxBytes,        \* bound on the bytes of a connection, each way
    TcRecords          \* sizes of an output record

VARIABLES
    nw,          \* Service: attempted_, active_, snapshot_ and the interface
    nwDhcp,      \* config_.dhcp
    tc,          \* TcpServer
    tcPeer,      \* lwIP's side of the accepted connection
    tcNumber,    \* connections accepted so far (history)
    tcApp        \* the consumer: session_ and the message being collected

tcVars == <<nw, nwDhcp, tc, tcPeer, tcNumber, tcApp>>

NwLinks == {"down", "up", "fault"}

\* Nothing buffered, nobody connected.
TcEmpty == [listening |-> FALSE, client |-> 0, session |-> 0,
            rx |-> [i \in 0 .. TcRing - 1 |-> <<0, 0>>], head |-> 0,
            received |-> 0, tx |-> <<>>]

\* sent: bytes the peer has sent; delivered: handed to Receive; window:
\* rcv_wnd; taken: bytes consumed; out: bytes given to tcp_write.
TcNoPeer == [sent |-> 0, delivered |-> 0, window |-> TcRing, taken |-> 0, out |-> 0]

TcInit ==
    /\ nw = [attempted |-> FALSE, active |-> FALSE, link |-> "down", up |-> FALSE,
             address |-> FALSE, dhcp |-> FALSE, state |-> "stopped"]
    /\ nwDhcp \in BOOLEAN
    /\ tc = TcEmpty /\ tcPeer = TcNoPeer /\ tcNumber = 0
    /\ tcApp = [session |-> 0, from |-> {}]

-----------------------------------------------------------------------------
\* TcpServer.

\* Mutant: a link loss leaves unsent output behind.
TcDisconnectedKeeps(t) ==
    IF t.client = 0 THEN t
    ELSE [t EXCEPT !.client = 0, !.session = @ + 1, !.head = 0, !.received = 0]

\* Disconnect(): the session ends and everything buffered is discarded.
TcDisconnected(t) ==
    [t EXCEPT !.client = 0, !.session = IF t.client = 0 THEN @ ELSE @ + 1,
              !.head = 0, !.received = 0, !.tx = <<>>]

\* stop()
TcStopped(t) == [TcDisconnected(t) EXCEPT !.listening = FALSE]

\* poll(): listen when the network is ready (lwIP may have no room), then hand
\* queued output to lwIP, as much as it takes.
TcPolled(t, listens, size) ==
    IF nw.state # "ready" THEN TcStopped(t)
    ELSE [t EXCEPT !.listening = @ \/ listens,
                   !.tx = IF t.client # 0 THEN SubSeq(@, size + 1, Len(@)) ELSE @]

\* Mutant: an index that does not wrap at the end of the ring.
TcPlaceUnwrapped(place) == IF place < TcRing THEN place ELSE TcRing - 1

TcPlace(place) == place % TcRing

\* Accept(): a second client is reset.
TcAccept ==
    /\ tc.listening /\ tcNumber < TcMaxConnections
    /\ tcNumber' = tcNumber + 1
    /\ IF tc.client = 0
       THEN /\ tc' = [tc EXCEPT !.client = tcNumber', !.session = @ + 1]
            /\ tcPeer' = TcNoPeer
       ELSE UNCHANGED <<tc, tcPeer>>

\* Receive(): copy the packet behind what is buffered; a packet that does not
\* fit is refused, and lwIP offers it again.
TcReceive(size) ==
    /\ tc.client # 0 /\ size <= tcPeer.window
    /\ tcPeer.delivered + size <= tcPeer.sent
    /\ size <= TcRing - tc.received
    /\ LET first == tc.head + tc.received
           byte(i) == <<tc.client, tcPeer.delivered + i + 1>>
       IN  tc' = [tc EXCEPT !.received = @ + size,
                            !.rx = [p \in DOMAIN @ |->
                                IF \E i \in 0 .. size - 1 : TcPlace(first + i) = p
                                THEN byte(CHOOSE i \in 0 .. size - 1 :
                                              TcPlace(first + i) = p)
                                ELSE @[p]]]
    /\ tcPeer' = [tcPeer EXCEPT !.delivered = @ + size, !.window = @ - size]
    /\ UNCHANGED tcNumber

\* Receive() without a packet (FIN), and Error().
TcEnd ==
    /\ tc.client # 0
    /\ tc' = TcDisconnected(tc) /\ tcPeer' = TcNoPeer
    /\ UNCHANGED tcNumber

\* Mutant: consumed bytes are not given back to the window.
TcAckedNot(t, size) == 0

\* tcp_recved() in consume(), while there is a client.
TcAcked(t, size) == IF t.client # 0 THEN size ELSE 0

\* consume()
TcConsumed(t, size) == [t EXCEPT !.head = TcPlace(@ + size), !.received = @ - size]

\* write(): the whole record, or nothing.
TcWrite(size) ==
    /\ tc.client # 0 /\ tcPeer.out + Len(tc.tx) + size <= TcMaxBytes
    /\ tc' = IF size > TcQueue - Len(tc.tx) THEN tc
             ELSE [tc EXCEPT !.tx = @ \o
                       [i \in 1 .. size |-> <<tc.client, tcPeer.out + Len(tc.tx) + i>>]]
    /\ UNCHANGED <<nw, nwDhcp, tcPeer, tcNumber, tcApp>>

-----------------------------------------------------------------------------
\* Service.

\* init(): once; the driver may fail.
NwInit ==
    /\ ~nw.attempted
    /\ \/ nw' = [nw EXCEPT !.attempted = TRUE, !.state = "fault"]
       \/ nw' = [nw EXCEPT !.attempted = TRUE, !.active = TRUE,
                           !.address = ~nwDhcp, !.state = "link_down"]
    /\ UNCHANGED <<nwDhcp, tc, tcPeer, tcNumber, tcApp>>

\* CheckLink(), when 250 ms have passed: follow the link, start DHCP (which
\* may fail and is tried again).
NwChecked(n, link) ==
    LET moved == IF link = n.link THEN n
                 ELSE IF link = "up" THEN [n EXCEPT !.link = link, !.up = TRUE]
                 ELSE [n EXCEPT !.link = link, !.up = FALSE,
                                !.dhcp = @ /\ ~nwDhcp,
                                !.address = @ /\ ~nwDhcp]
    IN  {moved} \union
        (IF nwDhcp /\ moved.up THEN {[moved EXCEPT !.dhcp = TRUE]} ELSE {})

NwState(n) ==
    IF n.link = "fault" THEN "fault"
    ELSE IF ~n.up THEN "link_down"
    ELSE IF ~n.address THEN "addressing"
    ELSE "ready"

\* poll() without a frame.  An address that goes away takes the connection
\* with it, through Error().
NwPoll ==
    /\ nw.active
    /\ \E link \in NwLinks : \E n \in NwChecked(nw, link) \union {nw} :
        /\ nw' = [n EXCEPT !.state = NwState(n)]
        /\ tc' = IF nw.address /\ ~n.address THEN TcDisconnected(tc) ELSE tc
    /\ tcPeer' = IF tc'.client = 0 THEN TcNoPeer ELSE tcPeer
    /\ UNCHANGED <<nwDhcp, tcNumber, tcApp>>

\* poll() with a DHCP answer, and the end of a lease (a timer of lwIP).
NwLease ==
    /\ nw.active /\ nw.up /\ nw.dhcp
    /\ LET n == [nw EXCEPT !.address = ~nw.address] IN
       /\ nw' = [n EXCEPT !.state = NwState(n)]
       /\ tc' = IF nw.address THEN TcDisconnected(tc) ELSE tc
    /\ tcPeer' = IF tc'.client = 0 THEN TcNoPeer ELSE tcPeer
    /\ UNCHANGED <<nwDhcp, tcNumber, tcApp>>

\* poll() with a frame for the server; frames are dropped while the link is
\* down.
NwFrame(action) ==
    /\ nw.active /\ nw.up /\ action
    /\ nw' = [nw EXCEPT !.state = NwState(nw)]
    /\ UNCHANGED <<nwDhcp, tcApp>>

NwDeliver == NwFrame(\E size \in 1 .. TcRing : TcReceive(size))

\* stop(), after the server was stopped.
NwStop ==
    /\ nw.active
    /\ nw' = [nw EXCEPT !.active = FALSE, !.up = FALSE, !.dhcp = FALSE,
                        !.address = FALSE, !.link = "down", !.state = "stopped"]
    /\ tc' = TcStopped(tc) /\ tcPeer' = TcNoPeer
    /\ UNCHANGED <<nwDhcp, tcNumber, tcApp>>

\* The peer sends more (lwIP keeps what the window does not admit).
TcPeerSends ==
    /\ tc.client # 0 /\ tcPeer.sent < TcMaxBytes
    /\ tcPeer' = [tcPeer EXCEPT !.sent = @ + 1]
    /\ UNCHANGED <<nw, nwDhcp, tc, tcNumber, tcApp>>

-----------------------------------------------------------------------------
\* poll_line() of TcpConsole.

\* Mutant: the consumer notices only that a client left.
TcNoticedLate(app, t) ==
    IF app.session # t.session /\ t.client = 0
    THEN [session |-> t.session, from |-> {}] ELSE app

\* A new session number discards the message being collected.
TcNoticed(app, t) ==
    IF app.session # t.session THEN [session |-> t.session, from |-> {}] ELSE app

\* Poll the server, notice a new session, then take bytes up to the end of
\* what is contiguous or of a message.
TcAppPoll ==
    /\ \E listens \in BOOLEAN, size \in 0 .. Len(tc.tx) :
        LET t == TcPolled(tc, listens, size)
            peer == IF t.client = 0 THEN TcNoPeer
                    ELSE [tcPeer EXCEPT !.out = @ + Len(tc.tx) - Len(t.tx)]
            app == TcNoticed(tcApp, t)
            span == IF t.received <= TcRing - t.head THEN t.received
                    ELSE TcRing - t.head
        IN  IF span = 0
            THEN tc' = t /\ tcPeer' = peer /\ tcApp' = app
            ELSE \E n \in 1 .. span, complete \in BOOLEAN :
                    /\ n < span => complete
                    /\ tc' = TcConsumed(t, n)
                    /\ tcPeer' = [peer EXCEPT !.taken = @ + n,
                                              !.window = @ + TcAcked(t, n)]
                    /\ tcApp' = [app EXCEPT !.from =
                           IF complete THEN {}
                           ELSE @ \union {t.rx[t.head + i][1] : i \in 0 .. n - 1}]
    /\ UNCHANGED <<nw, nwDhcp, tcNumber>>

-----------------------------------------------------------------------------

TcNext ==
    \/ NwInit \/ NwPoll \/ NwLease \/ NwStop
    \/ NwFrame(TcAccept) \/ NwDeliver \/ NwFrame(TcEnd)
    \/ TcPeerSends
    \/ \E size \in TcRecords : TcWrite(size)
    \/ TcAppPoll

\* The tasks are periodic; TCP retransmits what is not delivered.
TcFairness == WF_tcVars(TcAppPoll) /\ WF_tcVars(NwDeliver)

TcSpec == TcInit /\ [][TcNext]_tcVars /\ TcFairness

-----------------------------------------------------------------------------

TcTypeOK ==
    /\ nw \in [attempted : BOOLEAN, active : BOOLEAN, link : NwLinks,
               up : BOOLEAN, address : BOOLEAN, dhcp : BOOLEAN,
               state : {"stopped", "link_down", "addressing", "ready", "fault"}]
    /\ nwDhcp \in BOOLEAN
    /\ tc.listening \in BOOLEAN /\ tc.client \in 0 .. TcMaxConnections
    /\ tc.head \in 0 .. TcRing - 1 /\ tc.received \in 0 .. TcRing
    /\ Len(tc.tx) <= TcQueue
    /\ tcPeer \in [sent : 0 .. TcMaxBytes, delivered : 0 .. TcMaxBytes,
                   window : 0 .. TcRing, taken : 0 .. TcMaxBytes,
                   out : 0 .. TcMaxBytes]
    /\ tcApp.from \subseteq 1 .. TcMaxConnections

\* The consumer gets the bytes of the present connection, each once and in
\* order, across the wrap of the ring; the window lwIP advertises is exactly
\* the free part of the ring, so a packet is never refused.
TcStream ==
    tc.client # 0 =>
        /\ \A i \in 0 .. tc.received - 1 :
               tc.rx[(tc.head + i) % TcRing] = <<tc.client, tcPeer.taken + i + 1>>
        /\ tcPeer.delivered = tcPeer.taken + tc.received
        /\ tcPeer.window + tc.received = TcRing

\* Output reaches only the client it was written for, whole and in order, and
\* a session that ends, also inside a callback, leaves nothing buffered.
TcOutput ==
    /\ \A i \in 1 .. Len(tc.tx) : tc.tx[i] = <<tc.client, tcPeer.out + i>>
    /\ tc.client = 0 => tc.received = 0 /\ tc.tx = <<>>

\* A message is never put together from bytes of two connections.
TcOneClient == \A a, b \in tcApp.from : a = b

\* The client has sent bytes that were not consumed yet.
TcUnread == tc.client # 0 /\ nw.state = "ready" /\ tcPeer.taken < tcPeer.sent

\* Both directions of a session, and its end.
TcSessions == TcTypeOK /\ TcStream /\ TcOutput /\ TcOneClient

==============================================================================
