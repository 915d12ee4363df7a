----------------------------- MODULE TcpServers -----------------------------
(***************************************************************************)
(* UnixPrograming/TCP: the clients of tcp_client.cpp against one of the    *)
(* two servers, tcp_server.cpp ("single": one connection, blocking) or     *)
(* tcp_server_select.cpp ("select": a table of connections).  A message is *)
(* short and a read takes all that has arrived, so a channel is the number *)
(* of messages in it.  The kernel is external: it completes connections    *)
(* before accept(), reports a vanished peer, and raises SIGPIPE on a send  *)
(* to a connection that has been reset.                                    *)
(***************************************************************************)
EXTENDS Integers, Sequences, SequencesExt, FiniteSetsExt

CONSTANTS Client,     \* the processes running tcp_client
          NoClient,   \* no connection
          Slots,      \* max_num_clients (30)
          Times       \* messages a client sends (15)

ASSUME TcpAssumption ==
  /\ IsFiniteSet(Client)
  /\ NoClient \notin Client
  /\ Slots \in Nat \ {0} /\ Times \in Nat \ {0}

VARIABLES
  server,       \* which of the two programs
  spc,          \* the server is at "select", in the "scan" of the table, or "killed"
  established,  \* established_fd, as the client behind it
  table,        \* client_fds
  ready,        \* fds after select()
  index,        \* i of the scan
  backlog,      \* connected, not accepted
  peer,         \* the server's socket of each client
  toServer,     \* messages on their way
  toClient,
  cpc,          \* client: "connect", "send", "recv" or "done"
  left          \* messages it has still to send

vars == <<server, spc, established, table, ready, index, backlog, peer,
          toServer, toClient, cpc, left>>
round == <<spc, ready, index>>
clients == <<cpc, left>>

Slot == 1 .. Slots

TypeOK ==
  /\ server \in {"single", "select"}
  /\ spc \in {"select", "scan", "killed"}
  /\ established \in Client \cup {NoClient}
  /\ table \in [Slot -> Client \cup {NoClient}]
  /\ ready \subseteq Client
  /\ index \in 1 .. Slots
  /\ backlog \in Seq(Client)
  /\ peer \in [Client -> {"none", "up", "fin", "reset", "dead", "closed"}]
  /\ toServer \in [Client -> 0 .. Times]
  /\ toClient \in [Client -> 0 .. Times * Cardinality(Client) + 1]
  /\ cpc \in [Client -> {"connect", "send", "recv", "done"}]
  /\ left \in [Client -> 0 .. Times]

Init ==
  /\ server \in {"single", "select"}
  /\ spc = "select"
  /\ established = NoClient
  /\ table = [s \in Slot |-> NoClient]
  /\ ready = {}
  /\ index = 1
  /\ backlog = <<>>
  /\ peer = [c \in Client |-> "none"]
  /\ toServer = [c \in Client |-> 0]
  /\ toClient = [c \in Client |-> 0]
  /\ cpc = [c \in Client |-> "connect"]
  /\ left = [c \in Client |-> Times]

-----------------------------------------------------------------------------
(* The client.                                                             *)

Connect(c) ==
  /\ cpc[c] = "connect"
  /\ cpc' = [cpc EXCEPT ![c] = "send"]
  /\ backlog' = Append(backlog, c)
  /\ peer' = [peer EXCEPT ![c] = "up"]
  /\ UNCHANGED <<server, round, established, table, toServer, toClient, left>>

ClientSend(c) ==
  /\ cpc[c] = "send"
  /\ left[c] > 0
  /\ left' = [left EXCEPT ![c] = @ - 1]
  /\ cpc' = [cpc EXCEPT ![c] = "recv"]
  /\ toServer' = [toServer EXCEPT ![c] = @ + 1]
  /\ UNCHANGED <<server, round, established, table, backlog, peer, toClient>>

\* recv() blocks until something is there; whatever it is counts as the answer.
ClientRecv(c) ==
  /\ cpc[c] = "recv"
  /\ toClient[c] > 0
  /\ toClient' = [toClient EXCEPT ![c] = 0]
  /\ cpc' = [cpc EXCEPT ![c] = "send"]
  /\ UNCHANGED <<server, round, established, table, backlog, peer, toServer, left>>

\* close(): with unread bytes the kernel sends a reset instead of a FIN.
ClientClose(c) ==
  /\ cpc[c] = "send"
  /\ left[c] = 0
  /\ cpc' = [cpc EXCEPT ![c] = "done"]
  /\ peer' = [peer EXCEPT ![c] = IF toClient[c] > 0 THEN "reset" ELSE "fin"]
  /\ toClient' = [toClient EXCEPT ![c] = 0]
  /\ UNCHANGED <<server, round, established, table, backlog, toServer, left>>

ClientStep(c) == Connect(c) \/ ClientSend(c) \/ ClientRecv(c) \/ ClientClose(c)

-----------------------------------------------------------------------------
(* send() on the server's socket of c: pe and tc are peer and toClient     *)
(* before it.  To a FIN-ed peer the bytes are answered with a reset, which *)
(* may take its time; the pending error of a reset is reported once, and   *)
(* after that the process gets SIGPIPE.                                    *)

SendKills(c, pe) == pe[c] = "dead"

Send(c, pe, tc) ==
  \/ /\ pe[c] = "up"
     /\ toClient' = [tc EXCEPT ![c] = @ + 1]
     /\ peer' = pe
  \/ /\ pe[c] = "fin"
     /\ \E p \in {"fin", "dead"} : peer' = [pe EXCEPT ![c] = p]
     /\ toClient' = tc
  \/ /\ pe[c] = "reset"
     /\ peer' = [pe EXCEPT ![c] = "dead"]
     /\ toClient' = tc
  \/ pe[c] \in {"dead", "closed"} /\ peer' = pe /\ toClient' = tc

\* A socket select() reports as readable.
Readable(c) == toServer[c] > 0 \/ peer[c] \in {"fin", "reset", "dead"}

(* tcp_server_select.cpp                                                   *)

Free == {s \in Slot : table[s] = NoClient}

\* Faulty variant: with no free slot a connection is left waiting in the backlog.
AcceptWhileFree ==
  /\ server = "select"
  /\ spc = "select"
  /\ backlog # <<>> /\ Free # {}
  /\ LET c == Head(backlog) IN
       /\ established' = c
       /\ backlog' = Tail(backlog)
       /\ Send(c, peer, toClient)
       /\ table' = [table EXCEPT ![Min(Free)] = c]
  /\ UNCHANGED <<server, round, toServer, clients>>

\* Master socket ready: accept, greet, enter in the first free slot.  With no
\* free slot the connection is forgotten, but stays open.
AcceptRound ==
  /\ server = "select"
  /\ spc = "select"
  /\ backlog # <<>>
  /\ LET c == Head(backlog) IN
       /\ established' = c
       /\ backlog' = Tail(backlog)
       /\ Send(c, peer, toClient)
       /\ table' = IF Free = {} THEN table ELSE [table EXCEPT ![Min(Free)] = c]
  /\ UNCHANGED <<server, round, toServer, clients>>

\* No connection waiting: remember which sockets of the table are readable.
SelectRound ==
  /\ server = "select"
  /\ spc = "select"
  /\ backlog = <<>>
  /\ ready' = {c \in ToSet(table) \ {NoClient} : Readable(c)}
  /\ ready' # {}
  /\ spc' = "scan"
  /\ index' = 1
  /\ UNCHANGED <<server, established, table, backlog, peer, toServer, toClient, clients>>

\* Faulty variant: the scan goes one slot too far.
NextSlotPastEnd ==
  IF index > Slots
  THEN spc' = "select" /\ index' = 1 /\ ready' = {}
  ELSE index' = index + 1 /\ UNCHANGED <<spc, ready>>

\* Faulty variant: the scan leaves out the last slot.
NextSlotStopsEarly ==
  IF index + 1 >= Slots
  THEN spc' = "select" /\ index' = 1 /\ ready' = {}
  ELSE index' = index + 1 /\ UNCHANGED <<spc, ready>>

NextSlot ==
  IF index = Slots
  THEN spc' = "select" /\ index' = 1 /\ ready' = {}
  ELSE index' = index + 1 /\ UNCHANGED <<spc, ready>>

SkipSlot ==
  /\ spc = "scan"
  /\ table[index] \notin ready
  /\ NextSlot
  /\ UNCHANGED <<server, established, table, backlog, peer, toServer, toClient, clients>>

\* Something was read from c: the reply goes to the connection accepted last.
ReplyToNewest(c) ==
  /\ toServer[c] > 0
  /\ toServer' = [toServer EXCEPT ![c] = 0]
  /\ Send(established, peer, toClient)
  /\ IF SendKills(established, peer) THEN spc' = "killed" /\ UNCHANGED <<ready, index>>
                                     ELSE NextSlot
  /\ UNCHANGED <<server, established, table, backlog, clients>>

\* Faulty variant: the slot keeps the closed descriptor.
CloseOnly(c) ==
  /\ toServer[c] = 0
  /\ peer[c] \in {"fin", "dead"}
  /\ peer' = [peer EXCEPT ![c] = "closed"]
  /\ NextSlot
  /\ UNCHANGED <<server, established, table, backlog, toServer, toClient, clients>>

\* read() returns 0.
Disconnect(c) ==
  /\ toServer[c] = 0
  /\ peer[c] \in {"fin", "dead"}
  /\ peer' = [peer EXCEPT ![c] = "closed"]
  /\ table' = [table EXCEPT ![index] = NoClient]
  /\ NextSlot
  /\ UNCHANGED <<server, established, backlog, toServer, toClient, clients>>

\* read() returns -1 for a reset connection: nothing is done about it.
ReadError(c) ==
  /\ toServer[c] = 0
  /\ peer[c] = "reset"
  /\ peer' = [peer EXCEPT ![c] = "dead"]
  /\ NextSlot
  /\ UNCHANGED <<server, established, table, backlog, toServer, toClient, clients>>

ScanSlot ==
  /\ spc = "scan"
  /\ table[index] \in ready
  /\ LET c == table[index] IN ReplyToNewest(c) \/ Disconnect(c) \/ ReadError(c)

(* tcp_server.cpp                                                          *)

\* The one accept() of the program.
AcceptOnce ==
  /\ server = "single"
  /\ established = NoClient
  /\ backlog # <<>>
  /\ established' = Head(backlog)
  /\ backlog' = Tail(backlog)
  /\ UNCHANGED <<server, round, table, peer, toServer, toClient, clients>>

\* recv() and the reply.  After the peer's FIN recv() returns 0 for ever and
\* the loop spins without changing anything.  A recv() that fails falls through to
\* send(); that takes a reset connection, and the client never resets this one: it
\* reads the one answer to each of its messages before it sends the next or closes.
ServeOnly ==
  /\ server = "single"
  /\ spc = "select"
  /\ established # NoClient
  /\ toServer[established] > 0
  /\ toServer' = [toServer EXCEPT ![established] = 0]
  /\ Send(established, peer, toClient)
  /\ UNCHANGED <<server, round, established, table, backlog, clients>>

-----------------------------------------------------------------------------
ServerStep ==
  AcceptRound \/ SelectRound \/ SkipSlot \/ ScanSlot \/ AcceptOnce \/ ServeOnly

Next ==
  /\ spc # "killed"
  /\ ServerStep \/ \E c \in Client : ClientStep(c)

\* Every process is scheduled and the network delivers.
Spec ==
  /\ Init /\ [][Next]_vars
  /\ WF_vars(spc # "killed" /\ ServerStep)
  /\ \A c \in Client : WF_vars(spc # "killed" /\ ClientStep(c))
-----------------------------------------------------------------------------
Accepted == {c \in Client : peer[c] # "none"} \ ToSet(backlog)
Forgotten == {c \in Accepted : peer[c] # "closed"} \ ToSet(table)

\* A descriptor is in at most one slot, and never after it was closed; an open
\* connection is missing from the table only if more were accepted than it has
\* slots.  SIGPIPE kills the server only on behalf of a client that has left.
TableSound ==
  server = "select" =>
    /\ \A s, t \in Slot : table[s] = table[t] /\ table[s] # NoClient => s = t
    /\ \A s \in Slot : table[s] # NoClient => peer[table[s]] \notin {"none", "closed"}
    /\ Forgotten # {} => Cardinality(Accepted) > Slots

KilledByLeaver == spc = "killed" => cpc[established] = "done"

ServerSound == TableSound /\ KilledByLeaver

\* The select server greets everyone: the first recv() of a client ends even if
\* the table is full when it connects, however busy the scan is, unless SIGPIPE
\* has killed the server by then.
EveryoneGreeted ==
  \A c \in Client :
    server = "select" /\ cpc[c] = "recv" /\ left[c] = Times - 1 ~>
      cpc[c] # "recv" \/ spc = "killed"

\* The connection accepted last is answered, as long as it is in the table and
\* the server lives: other clients that connect or leave only delay it.
NewestServed ==
  \A c \in Client :
    cpc[c] = "recv" /\ established = c ~>
      \/ cpc[c] # "recv"
      \/ established # c
      \/ c \in Forgotten
      \/ spc = "killed"
=============================================================================
