--------------------------- MODULE TcpServersProofs ---------------------------
(***************************************************************************)
(* The select server's table agrees with the connections that are open,    *)
(* SIGPIPE comes only from a client that has left, and the channels are    *)
(* bounded by what the clients send, for every finite set of clients and   *)
(* every size of the table.                                                *)
(***************************************************************************)
EXTENDS TcpServers, SumLemmas, SequenceTheorems, TLAPS

-----------------------------------------------------------------------------
(* A queue without repetitions, as the set of its elements.                *)

LEMMA QueuedSet ==
  ASSUME NEW S, NEW q \in Seq(S)
  PROVE  ToSet(q) = {q[i] : i \in 1 .. Len(q)} /\ ToSet(q) \subseteq S /\ Len(q) \in Nat
BY LenProperties, ElementOfSeq DEF ToSet

LEMMA Queued ==
  ASSUME NEW S, NEW q \in Seq(S), IsInjective(q), NEW e \in S, e \notin ToSet(q)
  PROVE  /\ Append(q, e) \in Seq(S) /\ IsInjective(Append(q, e))
         /\ ToSet(Append(q, e)) = ToSet(q) \cup {e}
<1> DEFINE r == Append(q, e)
<1>1. /\ r \in Seq(S) /\ Len(q) \in Nat /\ Len(r) = Len(q) + 1
      /\ DOMAIN q = 1 .. Len(q) /\ DOMAIN r = 1 .. Len(q) + 1
      /\ \A i \in 1 .. Len(q) : r[i] = q[i]
      /\ r[Len(q) + 1] = e
  BY AppendProperties, LenProperties
<1> HIDE DEF r
<1>2. \A i \in 1 .. Len(q) : q[i] # e
  BY QueuedSet
<1>3. IsInjective(r)
  BY <1>1, <1>2 DEF IsInjective
<1>4. ToSet(r) = ToSet(q) \cup {e}
  BY <1>1 DEF ToSet
<1>5. QED
  BY <1>1, <1>3, <1>4 DEF r

LEMMA Dequeued ==
  ASSUME NEW S, NEW q \in Seq(S), IsInjective(q), q # <<>>
  PROVE  /\ Head(q) \in S /\ Head(q) \in ToSet(q)
         /\ Tail(q) \in Seq(S) /\ IsInjective(Tail(q))
         /\ ToSet(Tail(q)) = ToSet(q) \ {Head(q)}
<1> DEFINE r == Tail(q)
<1>1. /\ Len(q) \in Nat \ {0} /\ Head(q) = q[1] /\ Head(q) \in S
      /\ r \in Seq(S) /\ Len(r) = Len(q) - 1
      /\ DOMAIN q = 1 .. Len(q) /\ DOMAIN r = 1 .. Len(q) - 1
      /\ \A i \in 1 .. Len(q) - 1 : r[i] = q[i + 1]
  BY HeadTailProperties, LenProperties, EmptySeq
<1> HIDE DEF r
<1>2. ASSUME NEW i \in DOMAIN r, NEW k \in DOMAIN r, r[i] = r[k]
      PROVE  i = k
  <2>1. i + 1 \in DOMAIN q /\ k + 1 \in DOMAIN q /\ q[i + 1] = q[k + 1]
    BY <1>1, <1>2
  <2>2. i + 1 = k + 1
    BY <2>1 DEF IsInjective
  <2>3. QED
    BY <1>1, <2>2
<1>3. ASSUME NEW i \in DOMAIN r
      PROVE  r[i] \in ToSet(q) \ {Head(q)}
  <2>1. i + 1 \in DOMAIN q /\ r[i] = q[i + 1] /\ i + 1 # 1 /\ 1 \in DOMAIN q
    BY <1>1
  <2>2. q[i + 1] # q[1]
    BY <2>1 DEF IsInjective
  <2>3. QED
    BY <1>1, <2>1, <2>2 DEF ToSet
<1>4. ASSUME NEW k \in DOMAIN q, q[k] # Head(q)
      PROVE  q[k] \in ToSet(r)
  <2>1. k - 1 \in DOMAIN r /\ r[k - 1] = q[k]
    BY <1>1, <1>4
  <2>2. QED
    BY <2>1 DEF ToSet
<1>5. ToSet(r) = ToSet(q) \ {Head(q)}
  BY <1>3, <1>4 DEF ToSet
<1>6. QED
  BY <1>1, <1>2, <1>5 DEF r, IsInjective, ToSet

\* Min picks one of the free slots.
LEMMA SlotPicked ==
  ASSUME NEW F, F \subseteq Slot, F # {}
  PROVE  Min(F) \in F
<1>1. F \subseteq Nat
  BY TcpAssumption DEF Slot
<1>2. \E n \in F : \A k \in F : n <= k
  BY <1>1, LeastOf
<1>3. QED
  BY <1>2 DEF Min

-----------------------------------------------------------------------------
(* The inductive invariant.                                                *)

PeerState == {"none", "up", "fin", "reset", "dead", "closed"}

\* TypeOK, but for the bound of the channels to the clients.
Typed ==
  /\ server \in {"single", "select"}
  /\ spc \in {"select", "scan", "killed"}
  /\ established \in Client \cup {NoClient}
  /\ table \in [Slot -> Client \cup {NoClient}]
  /\ ready \subseteq Client
  /\ index \in Slot
  /\ backlog \in Seq(Client)
  /\ peer \in [Client -> PeerState]
  /\ toServer \in [Client -> Nat]
  /\ toClient \in [Client -> Nat]
  /\ cpc \in [Client -> {"connect", "send", "recv", "done"}]
  /\ left \in [Client -> Nat]

\* A connection is in the backlog, or in at most one slot, and the server's side
\* of it tells how far its client is.
Places ==
  /\ IsInjective(backlog)
  /\ \A c \in ToSet(backlog) : peer[c] \notin {"none", "closed"}
  /\ \A c \in Client \ Accepted : c # established /\ \A s \in Slot : table[s] # c
  /\ \A c \in Client :
       /\ peer[c] = "none" <=> cpc[c] = "connect"
       /\ peer[c] = "up" <=> cpc[c] \in {"send", "recv"}
  /\ \A s \in Slot : table[s] # NoClient => established # NoClient
  /\ spc # "select" => server = "select"

\* What the clients have not sent yet or the server has not read: each of these
\* messages can still cause one answer.
Owed == [c \in Client |-> left[c] + toServer[c]]
Pending == SumFunctionOnSet(Owed, Client)
Greeting(c) == IF c \in Accepted THEN 1 ELSE 0

Traffic ==
  /\ \A c \in Client : left[c] + toServer[c] <= Times
  /\ \A c \in Client : toClient[c] + Pending <= Times * Cardinality(Client) + Greeting(c)

Control == Typed /\ Places

LEMMA ControlInit == Init => Control
<1> SUFFICES ASSUME Init PROVE Control
  OBVIOUS
<1>1. <<>> \in Seq(Client) /\ IsInjective(<<>>) /\ ToSet(<<>>) = {}
  BY EmptySeq DEF IsInjective, ToSet
<1>2. Typed
  BY <1>1, TcpAssumption DEF Init, Typed, PeerState, Slot
<1>3. Places
  BY <1>1, TcpAssumption DEF Init, Places
<1>4. QED
  BY <1>2, <1>3 DEF Control

-----------------------------------------------------------------------------
(* What parts of the steps do.                                             *)

\* A send changes nothing of any other client; its own peer may turn dead.
LEMMA SendEffect ==
  ASSUME Typed, NEW d \in Client, Send(d, peer, toClient)
  PROVE  /\ peer' \in [Client -> PeerState] /\ toClient' \in [Client -> Nat]
         /\ \A c \in Client :
              \/ peer'[c] = peer[c]
              \/ c = d /\ peer[c] \in {"fin", "reset"} /\ peer'[c] = "dead"
         /\ \A c \in Client :
              \/ toClient'[c] = toClient[c]
              \/ c = d /\ toClient'[c] = toClient[c] + 1
<1>1. peer \in [Client -> PeerState] /\ toClient \in [Client -> Nat]
  BY DEF Typed
<1>2. CASE peer[d] = "up"
  BY <1>1, <1>2 DEF Send
<1>3. CASE peer[d] # "up"
  <2>1. toClient' = toClient
    BY <1>3 DEF Send
  <2>2. \/ peer' = peer
        \/ peer[d] \in {"fin", "reset"} /\ peer' = [peer EXCEPT ![d] = "dead"]
        \/ peer[d] = "fin" /\ peer' = [peer EXCEPT ![d] = "fin"]
    BY <1>3 DEF Send
  <2>3. QED
    BY <1>1, <2>1, <2>2 DEF PeerState
<1>4. QED
  BY <1>2, <1>3

LEMMA SlotEffect ==
  ASSUME Typed, spc = "scan", NextSlot
  PROVE  /\ spc' \in {"select", "scan"} /\ index' \in Slot /\ ready' \subseteq Client
BY TcpAssumption DEF NextSlot, Typed, Slot

\* The scan looks at connections only, and there was an accepted one.
LEMMA ScanEffect ==
  ASSUME Control, ScanSlot
  PROVE  /\ spc = "scan" /\ server = "select"
         /\ table[index] \in Client /\ established \in Client
         /\ \/ ReplyToNewest(table[index])
            \/ Disconnect(table[index])
            \/ ReadError(table[index])
BY TcpAssumption DEF ScanSlot, Control, Typed, Places

LEMMA ControlStep == Control /\ [Next]_vars => Control'
<1> SUFFICES ASSUME Control, [Next]_vars PROVE Control'
  OBVIOUS
<1> USE TcpAssumption
<1>1. Typed /\ Places
  BY DEF Control
<1>2. /\ backlog \in Seq(Client) /\ IsInjective(backlog) /\ ToSet(backlog) \subseteq Client
      /\ peer \in [Client -> PeerState] /\ cpc \in [Client -> {"connect", "send", "recv", "done"}]
      /\ table \in [Slot -> Client \cup {NoClient}] /\ toServer \in [Client -> Nat]
  BY <1>1, QueuedSet DEF Typed, Places
<1>3. ASSUME NEW c \in Client, Connect(c)
      PROVE  Control'
  <2>1. /\ cpc[c] = "connect" /\ peer[c] = "none" /\ backlog' = Append(backlog, c)
        /\ cpc' = [cpc EXCEPT ![c] = "send"] /\ peer' = [peer EXCEPT ![c] = "up"]
        /\ UNCHANGED <<server, spc, ready, index, established, table, toServer, toClient, left>>
    BY <1>1, <1>3 DEF Connect, Places, round
  <2>2. c \notin ToSet(backlog)
    BY <1>1, <2>1 DEF Places
  <2>3. /\ backlog' \in Seq(Client) /\ IsInjective(backlog')
        /\ ToSet(backlog') = ToSet(backlog) \cup {c}
    BY <1>2, <2>1, <2>2, Queued
  <2>4. Accepted' = Accepted
    BY <1>2, <2>1, <2>3 DEF Accepted, PeerState
  <2>5. Typed'
    BY <1>1, <2>1, <2>3 DEF Typed, PeerState
  <2>6. Places'
    BY <1>1, <1>2, <2>1, <2>3, <2>4 DEF Places
  <2>7. QED
    BY <2>5, <2>6 DEF Control
<1>4. ASSUME NEW c \in Client, ClientSend(c) \/ ClientRecv(c)
      PROVE  Control'
  <2>1. /\ cpc[c] \in {"send", "recv"}
        /\ \E to \in {"send", "recv"} : cpc' = [cpc EXCEPT ![c] = to]
        /\ UNCHANGED <<server, spc, ready, index, established, table, backlog, peer>>
    BY <1>4 DEF ClientSend, ClientRecv, round
  <2>2. toServer' \in [Client -> Nat] /\ left' \in [Client -> Nat] /\ toClient' \in [Client -> Nat]
    <3>1. CASE ClientSend(c)
      BY <1>1, <3>1 DEF ClientSend, Typed
    <3>2. CASE ClientRecv(c)
      BY <1>1, <3>2 DEF ClientRecv, Typed
    <3>3. QED
      BY <1>4, <3>1, <3>2
  <2>3. Typed'
    BY <1>1, <2>1, <2>2 DEF Typed
  <2>4. Accepted' = Accepted
    BY <2>1 DEF Accepted
  <2>5. Places'
    BY <1>1, <1>2, <2>1, <2>4 DEF Places
  <2>6. QED
    BY <2>3, <2>5 DEF Control
<1>5. ASSUME NEW c \in Client, ClientClose(c)
      PROVE  Control'
  <2>1. /\ cpc[c] = "send" /\ cpc' = [cpc EXCEPT ![c] = "done"]
        /\ \E p \in {"reset", "fin"} : peer' = [peer EXCEPT ![c] = p]
        /\ toClient' = [toClient EXCEPT ![c] = 0]
        /\ UNCHANGED <<server, spc, ready, index, established, table, backlog, toServer, left>>
    BY <1>5 DEF ClientClose, round
  <2>2. Typed'
    BY <1>1, <2>1 DEF Typed, PeerState
  <2>3. peer[c] = "up"
    BY <1>1, <2>1 DEF Places
  <2>4. Accepted' = Accepted
    BY <1>2, <2>1, <2>3 DEF Accepted
  <2>5. Places'
    BY <1>1, <1>2, <2>1, <2>4 DEF Places
  <2>6. QED
    BY <2>2, <2>5 DEF Control
<1>6. CASE AcceptRound
  <2> DEFINE c == Head(backlog)
  <2>1. /\ server = "select" /\ backlog # <<>> /\ established' = c /\ backlog' = Tail(backlog)
        /\ Send(c, peer, toClient)
        /\ table' = IF Free = {} THEN table ELSE [table EXCEPT ![Min(Free)] = c]
        /\ UNCHANGED <<server, spc, ready, index, toServer, cpc, left>>
    BY <1>6 DEF AcceptRound, round, clients
  <2>2. /\ c \in Client /\ c \in ToSet(backlog)
        /\ backlog' \in Seq(Client) /\ IsInjective(backlog')
        /\ ToSet(backlog') = ToSet(backlog) \ {c}
    BY <1>2, <2>1, Dequeued
  <2> HIDE DEF c
  <2>3. /\ peer' \in [Client -> PeerState] /\ toClient' \in [Client -> Nat]
        /\ \A d \in Client : \/ peer'[d] = peer[d]
                             \/ peer[d] \in {"fin", "reset"} /\ peer'[d] = "dead"
    BY <1>1, <2>1, <2>2, SendEffect
  <2>4. /\ table' \in [Slot -> Client \cup {NoClient}]
        /\ \A s \in Slot : table'[s] \in {table[s], c}
    BY <1>2, <2>1, <2>2, SlotPicked DEF Free
  <2>5. Accepted' = Accepted \cup {c}
    <3>1. peer[c] # "none" /\ \A d \in Client : peer'[d] = "none" <=> peer[d] = "none"
      BY <1>1, <2>2, <2>3 DEF Places
    <3>2. QED
      BY <2>2, <3>1 DEF Accepted
  <2>6. Typed'
    BY <1>1, <2>1, <2>2, <2>3, <2>4 DEF Typed
  <2>7. Places'
    <3>1. \A d \in ToSet(backlog') : peer'[d] \notin {"none", "closed"}
      BY <1>1, <1>2, <2>2, <2>3 DEF Places
    <3>2. \A d \in Client \ Accepted' : d # established' /\ \A s \in Slot : table'[s] # d
      BY <1>1, <2>1, <2>4, <2>5 DEF Places
    <3>3. \A d \in Client : /\ peer'[d] = "none" <=> cpc'[d] = "connect"
                            /\ peer'[d] = "up" <=> cpc'[d] \in {"send", "recv"}
      BY <1>1, <2>1, <2>3 DEF Places
    <3>4. established' # NoClient
      BY <2>1, <2>2
    <3>5. QED
      BY <1>1, <2>1, <2>2, <3>1, <3>2, <3>3, <3>4 DEF Places
  <2>8. QED
    BY <2>6, <2>7 DEF Control
<1>7. CASE SelectRound
  <2>1. /\ server = "select" /\ spc' = "scan" /\ index' = 1 /\ ready' \subseteq Client
        /\ UNCHANGED <<server, established, table, backlog, peer, toServer, toClient, cpc, left>>
    <3>1. ToSet(table) \ {NoClient} \subseteq Client
      BY <1>2 DEF ToSet
    <3>2. QED
      BY <1>7, <3>1 DEF SelectRound, clients
  <2>2. Typed'
    BY <1>1, <2>1 DEF Typed, Slot
  <2>3. Accepted' = Accepted
    BY <2>1 DEF Accepted
  <2>4. Places'
    BY <1>1, <2>1, <2>3 DEF Places
  <2>5. QED
    BY <2>2, <2>4 DEF Control
<1>8. CASE SkipSlot
  <2>1. /\ spc = "scan" /\ NextSlot
        /\ UNCHANGED <<server, established, table, backlog, peer, toServer, toClient, cpc, left>>
    BY <1>8 DEF SkipSlot, clients
  <2>2. spc' \in {"select", "scan"} /\ index' \in Slot /\ ready' \subseteq Client
    BY <1>1, <2>1, SlotEffect
  <2>3. Typed'
    BY <1>1, <2>1, <2>2 DEF Typed
  <2>4. Accepted' = Accepted
    BY <2>1 DEF Accepted
  <2>5. Places'
    BY <1>1, <2>1, <2>4 DEF Places
  <2>6. QED
    BY <2>3, <2>5 DEF Control
<1>9. CASE ScanSlot /\ ReplyToNewest(table[index])
  <2>1. /\ spc = "scan" /\ server = "select" /\ established \in Client /\ table[index] \in Client
    BY <1>9, ScanEffect
  <2>2. /\ Send(established, peer, toClient)
        /\ toServer' = [toServer EXCEPT ![table[index]] = 0]
        /\ NextSlot \/ (spc' = "killed" /\ UNCHANGED <<ready, index>>)
        /\ UNCHANGED <<server, established, table, backlog, cpc, left>>
    BY <1>9 DEF ReplyToNewest, clients
  <2>3. /\ peer' \in [Client -> PeerState] /\ toClient' \in [Client -> Nat]
        /\ \A d \in Client : \/ peer'[d] = peer[d]
                             \/ peer[d] \in {"fin", "reset"} /\ peer'[d] = "dead"
    BY <1>1, <2>1, <2>2, SendEffect
  <2>4. spc' \in {"select", "scan", "killed"} /\ index' \in Slot /\ ready' \subseteq Client
    BY <1>1, <2>1, <2>2, SlotEffect DEF Typed
  <2>5. Typed'
    BY <1>1, <2>1, <2>2, <2>3, <2>4 DEF Typed
  <2>6. Accepted' = Accepted
    BY <1>2, <2>2, <2>3 DEF Accepted
  <2>7. Places'
    BY <1>1, <1>2, <2>1, <2>2, <2>3, <2>6 DEF Places
  <2>8. QED
    BY <2>5, <2>7 DEF Control
<1>10. CASE ScanSlot /\ (Disconnect(table[index]) \/ ReadError(table[index]))
  <2> DEFINE c == table[index]
  <2>1. spc = "scan" /\ server = "select" /\ c \in Client
    BY <1>10, ScanEffect
  <2>2. /\ \/ peer[c] \in {"fin", "dead"} /\ peer' = [peer EXCEPT ![c] = "closed"]
           \/ peer[c] = "reset" /\ peer' = [peer EXCEPT ![c] = "dead"]
        /\ table' = table \/ table' = [table EXCEPT ![index] = NoClient]
        /\ NextSlot
        /\ UNCHANGED <<server, established, backlog, toServer, toClient, cpc, left>>
    BY <1>10 DEF Disconnect, ReadError, clients
  <2>3. c \in Accepted
    BY <1>1, <2>1 DEF Places, Typed
  <2> HIDE DEF c
  <2>4. spc' \in {"select", "scan"} /\ index' \in Slot /\ ready' \subseteq Client
    BY <1>1, <2>1, <2>2, SlotEffect
  <2>5. /\ table' \in [Slot -> Client \cup {NoClient}]
        /\ \A s \in Slot : table'[s] \in {table[s], NoClient}
    BY <1>1, <1>2, <2>2 DEF Typed
  <2>6. /\ peer' \in [Client -> PeerState]
        /\ \A d \in Client :
             \/ peer'[d] = peer[d]
             \/ d = c /\ peer[d] \in {"fin", "dead", "reset"} /\ peer'[d] \in {"closed", "dead"}
    BY <1>2, <2>1, <2>2 DEF PeerState
  <2>7. Typed'
    BY <1>1, <2>2, <2>4, <2>5, <2>6 DEF Typed
  <2>8. Accepted' = Accepted
    BY <1>2, <2>2, <2>6 DEF Accepted
  <2>9. Places'
    <3>1. \A d \in ToSet(backlog') : peer'[d] \notin {"none", "closed"}
      BY <1>1, <1>2, <2>2, <2>3, <2>6 DEF Places, Accepted
    <3>2. \A d \in Client \ Accepted' : d # established' /\ \A s \in Slot : table'[s] # d
      BY <1>1, <2>2, <2>5, <2>8 DEF Places
    <3>3. \A d \in Client : /\ peer'[d] = "none" <=> cpc'[d] = "connect"
                            /\ peer'[d] = "up" <=> cpc'[d] \in {"send", "recv"}
      BY <1>1, <2>2, <2>6 DEF Places
    <3>4. QED
      BY <1>1, <2>1, <2>2, <2>5, <3>1, <3>2, <3>3 DEF Places
  <2>10. QED
    BY <2>7, <2>9 DEF Control
<1>11. CASE AcceptOnce
  <2>1. /\ server = "single" /\ established = NoClient /\ backlog # <<>>
        /\ established' = Head(backlog) /\ backlog' = Tail(backlog)
        /\ UNCHANGED <<server, spc, ready, index, table, peer, toServer, toClient, cpc, left>>
    BY <1>11 DEF AcceptOnce, round, clients
  <2>2. /\ Head(backlog) \in Client /\ Head(backlog) \in ToSet(backlog)
        /\ backlog' \in Seq(Client) /\ IsInjective(backlog')
        /\ ToSet(backlog') = ToSet(backlog) \ {Head(backlog)}
    BY <1>2, <2>1, Dequeued
  <2>3. Accepted' = Accepted \cup {Head(backlog)}
    BY <1>1, <1>2, <2>1, <2>2 DEF Accepted, Places
  <2>4. Typed'
    BY <1>1, <2>1, <2>2 DEF Typed
  <2>5. Places'
    BY <1>1, <1>2, <2>1, <2>2, <2>3 DEF Places
  <2>6. QED
    BY <2>4, <2>5 DEF Control
<1>12. CASE ServeOnly
  <2>1. /\ established \in Client /\ Send(established, peer, toClient)
        /\ toServer' = [toServer EXCEPT ![established] = 0]
        /\ UNCHANGED <<server, spc, ready, index, established, table, backlog, cpc, left>>
    BY <1>1, <1>12 DEF ServeOnly, round, clients, Typed
  <2>2. /\ peer' \in [Client -> PeerState] /\ toClient' \in [Client -> Nat]
        /\ \A d \in Client : \/ peer'[d] = peer[d]
                             \/ peer[d] \in {"fin", "reset"} /\ peer'[d] = "dead"
    BY <1>1, <2>1, SendEffect
  <2>3. Typed'
    BY <1>1, <2>1, <2>2 DEF Typed
  <2>4. Accepted' = Accepted
    BY <1>2, <2>1, <2>2 DEF Accepted
  <2>5. Places'
    BY <1>1, <1>2, <2>1, <2>2, <2>4 DEF Places
  <2>6. QED
    BY <2>3, <2>5 DEF Control
<1>13. CASE UNCHANGED vars
  <2>1. Typed'
    BY <1>1, <1>13 DEF vars, round, clients, Typed
  <2>2. Accepted' = Accepted
    BY <1>13 DEF vars, Accepted
  <2>3. Places'
    BY <1>1, <1>13, <2>2 DEF vars, Places
  <2>4. QED
    BY <2>1, <2>3 DEF Control
<1>14. CASE ScanSlot
  BY <1>9, <1>10, <1>14, ScanEffect
<1>15. QED
  BY <1>3, <1>4, <1>5, <1>6, <1>7, <1>8, <1>11, <1>12, <1>13, <1>14
     DEF Next, ServerStep, ClientStep

LEMMA ControlHolds == Spec => []Control
BY ControlInit, ControlStep, PTL DEF Spec

-----------------------------------------------------------------------------
(* The table, and who kills the server.                                    *)

\* An accepted connection stays accepted and a closed one closed; the table, and
\* what it is compared with, change with an accept and a disconnect only.
LEMMA PeersStep ==
  ASSUME Control, [Next]_vars
  PROVE  /\ server' = server
         /\ Accepted \subseteq Accepted'
         /\ \A c \in Client : peer[c] = "closed" => peer'[c] = "closed"
         /\ \/ AcceptRound
            \/ AcceptOnce
            \/ ScanSlot /\ Disconnect(table[index])
            \/ /\ UNCHANGED <<table, established>> /\ Accepted' = Accepted
               /\ \A c \in Client : peer'[c] = "closed" => peer[c] = "closed"
<1> USE TcpAssumption
<1>1. Typed /\ Places
  BY DEF Control
<1>2. /\ backlog \in Seq(Client) /\ IsInjective(backlog) /\ ToSet(backlog) \subseteq Client
      /\ peer \in [Client -> PeerState]
  BY <1>1, QueuedSet DEF Typed, Places
<1> DEFINE Quiet == /\ server' = server /\ UNCHANGED <<table, established>>
                    /\ Accepted' = Accepted
                    /\ \A c \in Client : peer'[c] = "closed" <=> peer[c] = "closed"
<1>3. ASSUME NEW c \in Client, Connect(c)
      PROVE  Quiet
  <2>1. /\ cpc[c] = "connect" /\ peer[c] = "none" /\ backlog' = Append(backlog, c)
        /\ peer' = [peer EXCEPT ![c] = "up"]
        /\ UNCHANGED <<server, table, established>>
    BY <1>1, <1>3 DEF Connect, Places, round
  <2>2. c \notin ToSet(backlog)
    BY <1>1, <2>1 DEF Places
  <2>3. ToSet(backlog') = ToSet(backlog) \cup {c}
    BY <1>2, <2>1, <2>2, Queued
  <2>4. QED
    BY <1>2, <2>1, <2>3 DEF Accepted, PeerState
<1>4. ASSUME NEW c \in Client, ClientClose(c)
      PROVE  Quiet
  <2>1. /\ peer[c] = "up" /\ \E p \in {"reset", "fin"} : peer' = [peer EXCEPT ![c] = p]
        /\ UNCHANGED <<server, table, established, backlog>>
    BY <1>1, <1>4 DEF ClientClose, Places, round
  <2>2. QED
    BY <1>2, <2>1 DEF Accepted
<1>5. ASSUME \/ \E c \in Client : ClientSend(c) \/ ClientRecv(c)
             \/ SelectRound \/ SkipSlot \/ UNCHANGED vars
      PROVE  Quiet
  <2>1. UNCHANGED <<server, table, established, backlog, peer>>
    BY <1>5 DEF ClientSend, ClientRecv, SelectRound, SkipSlot, vars, round
  <2>2. QED
    BY <2>1 DEF Accepted
<1>6. ASSUME (ScanSlot /\ (ReplyToNewest(table[index]) \/ ReadError(table[index]))) \/ ServeOnly
      PROVE  Quiet
  <2>1. UNCHANGED <<server, table, established, backlog>>
    BY <1>6 DEF ReplyToNewest, ReadError, ServeOnly, round
  <2>2. \A c \in Client : \/ peer'[c] = peer[c]
                          \/ peer[c] \in {"fin", "reset"} /\ peer'[c] = "dead"
    <3>1. CASE ScanSlot /\ ReplyToNewest(table[index])
      BY <1>1, <3>1, ScanEffect, SendEffect DEF ReplyToNewest
    <3>2. CASE ScanSlot /\ ReadError(table[index])
      BY <1>2, <3>2, ScanEffect DEF ReadError
    <3>3. CASE ServeOnly
      <4>1. established \in Client /\ Send(established, peer, toClient)
        BY <1>1, <3>3 DEF ServeOnly, Typed
      <4>2. QED
        BY <1>1, <4>1, SendEffect
    <3>4. QED
      BY <1>6, <3>1, <3>2, <3>3
  <2>3. QED
    BY <1>2, <2>1, <2>2 DEF Accepted
<1>7. ASSUME ScanSlot, Disconnect(table[index])
      PROVE  /\ server' = server /\ Accepted' = Accepted
             /\ \A c \in Client : peer[c] = "closed" => peer'[c] = "closed"
  <2>1. table[index] \in Client /\ peer[table[index]] \in {"fin", "dead"}
        /\ peer' = [peer EXCEPT ![table[index]] = "closed"] /\ UNCHANGED <<server, backlog>>
    BY <1>7, ScanEffect DEF Disconnect
  <2>2. QED
    BY <1>2, <2>1 DEF Accepted
<1>8. ASSUME AcceptRound \/ AcceptOnce
      PROVE  /\ server' = server /\ Accepted \subseteq Accepted'
             /\ \A c \in Client : peer[c] = "closed" => peer'[c] = "closed"
  <2>1. backlog # <<>> /\ backlog' = Tail(backlog) /\ server' = server
    BY <1>8 DEF AcceptRound, AcceptOnce
  <2>2. Head(backlog) \in Client /\ ToSet(backlog') = ToSet(backlog) \ {Head(backlog)}
    BY <1>2, <2>1, Dequeued
  <2>3. \A c \in Client : \/ peer'[c] = peer[c]
                          \/ peer[c] \in {"fin", "reset"} /\ peer'[c] = "dead"
    <3>1. CASE AcceptRound
      BY <1>1, <2>2, <3>1, SendEffect DEF AcceptRound
    <3>2. CASE AcceptOnce
      BY <3>2 DEF AcceptOnce
    <3>3. QED
      BY <1>8, <3>1, <3>2
  <2>4. QED
    BY <2>1, <2>2, <2>3 DEF Accepted
<1>9. CASE ScanSlot
  BY <1>6, <1>7, <1>9, ScanEffect
<1>10. CASE ServeOnly
  BY <1>6, <1>10
<1>11. QED
  BY <1>3, <1>4, <1>5, <1>8, <1>9, <1>10 DEF Next, ServerStep, ClientStep

\* With no free slot the table holds as many accepted clients as it has slots.
LEMMA FullTable ==
  ASSUME Control, TableSound, server = "select", Free = {}
  PROVE  Slots <= Cardinality(Accepted)
<1>1. Typed /\ Places /\ IsFiniteSet(Accepted)
  <2>1. Accepted \subseteq Client
    BY DEF Accepted
  <2>2. QED
    BY <2>1, TcpAssumption, FS_Subset DEF Control
<1>2. \A s \in Slot : table[s] # NoClient /\ table[s] \in Client
  BY <1>1 DEF Free, Typed
<1>3. \A s \in Slot : table[s] \in Accepted
  BY <1>1, <1>2 DEF Places
<1>4. table \in [Slot -> Accepted]
  BY <1>1, <1>3 DEF Typed
<1>5. table \in Injection(Slot, Accepted)
  <2>1. \A s, t \in Slot : table[s] = table[t] => s = t
    BY <1>2 DEF TableSound
  <2>2. QED
    BY <1>4, <2>1 DEF Injection, IsInjective
<1>6. Cardinality(Slot) <= Cardinality(Accepted)
  BY <1>1, <1>5, FS_Injection
<1>7. Cardinality(Slot) = Slots
  BY TcpAssumption, FS_Interval DEF Slot
<1>8. QED
  BY <1>6, <1>7

LEMMA TableStep ==
  ASSUME Control, Control', [Next]_vars, TableSound
  PROVE  TableSound'
<1> USE TcpAssumption
<1> SUFFICES ASSUME server = "select"
             PROVE  /\ \A s, t \in Slot : table'[s] = table'[t] /\ table'[s] # NoClient => s = t
                    /\ \A s \in Slot : table'[s] # NoClient => peer'[table'[s]] \notin {"none", "closed"}
                    /\ Forgotten' # {} => Cardinality(Accepted') > Slots
  BY PeersStep DEF TableSound
<1>1. Typed /\ Places /\ Typed' /\ Places'
  BY DEF Control
<1>2. /\ \A s, t \in Slot : table[s] = table[t] /\ table[s] # NoClient => s = t
      /\ \A s \in Slot : table[s] # NoClient => peer[table[s]] \notin {"none", "closed"}
      /\ Forgotten # {} => Cardinality(Accepted) > Slots
  BY DEF TableSound
<1>3. /\ IsFiniteSet(Accepted') /\ IsFiniteSet(Accepted)
      /\ Cardinality(Accepted) \in Nat /\ Cardinality(Accepted') \in Nat
      /\ Cardinality(Accepted) <= Cardinality(Accepted')
  <2>1. Accepted' \subseteq Client /\ Accepted \subseteq Accepted'
    BY PeersStep DEF Accepted
  <2>2. IsFiniteSet(Accepted') /\ IsFiniteSet(Accepted)
    BY <2>1, FS_Subset
  <2>3. QED
    BY <2>1, <2>2, FS_Subset, FS_CardinalityType
<1>4. \A s \in Slot : table'[s] # NoClient => peer'[table'[s]] # "none"
  BY <1>1 DEF Places, Accepted, Typed
<1>5. \A c \in Client : peer[c] = "closed" => peer'[c] = "closed"
  BY PeersStep
<1>6. CASE AcceptRound
  <2> DEFINE c == Head(backlog)
  <2>1. /\ backlog # <<>> /\ backlog' = Tail(backlog)
        /\ Send(c, peer, toClient)
        /\ table' = IF Free = {} THEN table ELSE [table EXCEPT ![Min(Free)] = c]
    BY <1>6 DEF AcceptRound
  <2>2. /\ c \in Client /\ c \in ToSet(backlog) /\ c \notin Accepted
        /\ ToSet(backlog') = ToSet(backlog) \ {c}
    BY <1>1, <2>1, Dequeued DEF Typed, Places, Accepted
  <2> HIDE DEF c
  <2>3. \A s \in Slot : table[s] # c
    BY <1>1, <2>2 DEF Places
  <2>4. \A d \in Client : \/ peer'[d] = peer[d]
                          \/ peer[d] \in {"fin", "reset"} /\ peer'[d] = "dead"
    BY <1>1, <2>1, <2>2, SendEffect
  <2>5. Accepted' = Accepted \cup {c}
    <3>1. peer[c] # "none" /\ \A d \in Client : peer'[d] = "none" <=> peer[d] = "none"
      BY <1>1, <2>2, <2>4 DEF Places
    <3>2. QED
      BY <2>2, <3>1 DEF Accepted
  <2>6. peer'[c] # "closed"
    BY <1>1, <2>2, <2>4 DEF Places
  <2>7. CASE Free = {}
    <3>1. table' = table
      BY <2>1, <2>7
    <3>2. \A s \in Slot : table[s] # NoClient => table[s] \in Client
      BY <1>1 DEF Typed
    <3>3. \A s \in Slot : table'[s] # NoClient => peer'[table'[s]] # "closed"
      BY <1>2, <2>4, <3>1, <3>2
    <3>4. Slots <= Cardinality(Accepted)
      BY <2>7, FullTable
    <3>5. Cardinality(Accepted') = Cardinality(Accepted) + 1
      BY <1>3, <2>2, <2>5, FS_AddElement
    <3>6. Cardinality(Accepted') > Slots
      BY <1>3, <3>4, <3>5
    <3>7. QED
      BY <1>2, <1>4, <3>1, <3>3, <3>6
  <2>8. CASE Free # {}
    <3>1. Min(Free) \in Slot /\ table[Min(Free)] = NoClient
      BY <2>8, SlotPicked DEF Free
    <3>2. /\ table' = [table EXCEPT ![Min(Free)] = c]
          /\ \A s \in Slot : table'[s] = IF s = Min(Free) THEN c ELSE table[s]
      BY <1>1, <2>1, <2>8, <3>1 DEF Typed
    <3>3. \A s, t \in Slot : table'[s] = table'[t] /\ table'[s] # NoClient => s = t
      BY <1>2, <2>3, <3>2
    <3>4. \A s \in Slot : table[s] # NoClient => table[s] \in Client
      BY <1>1 DEF Typed
    <3>5. \A s \in Slot : table'[s] # NoClient => peer'[table'[s]] # "closed"
      BY <1>2, <2>4, <2>6, <3>2, <3>4
    <3>6. ToSet(table') = ToSet(table) \cup {c} \/ ToSet(table') = (ToSet(table) \ {NoClient}) \cup {c}
      <4>1. DOMAIN table = Slot /\ DOMAIN table' = Slot
        BY <1>1 DEF Typed
      <4>2. QED
        BY <3>1, <3>2, <4>1 DEF ToSet
    <3>7. Forgotten' \subseteq Forgotten
      BY <1>5, <2>5, <3>6 DEF Forgotten, Accepted
    <3>8. QED
      BY <1>2, <1>3, <1>4, <3>3, <3>5, <3>7
  <2>9. QED
    BY <2>7, <2>8
<1>7. CASE ScanSlot /\ Disconnect(table[index])
  <2> DEFINE c == table[index]
  <2>1. /\ c \in Client /\ index \in Slot
        /\ peer' = [peer EXCEPT ![c] = "closed"] /\ table' = [table EXCEPT ![index] = NoClient]
        /\ peer[c] \in {"fin", "dead"} /\ backlog' = backlog
    BY <1>1, <1>7, ScanEffect DEF Disconnect, Typed
  <2>2. \A s \in Slot : table'[s] = IF s = index THEN NoClient ELSE table[s]
    BY <1>1, <2>1 DEF Typed
  <2>3. \A d \in Client : peer'[d] = IF d = c THEN "closed" ELSE peer[d]
    BY <1>1, <2>1 DEF Typed
  <2>4. \A s \in Slot : table[s] # NoClient => table[s] \in Client
    BY <1>1 DEF Typed
  <2>5. \A s, t \in Slot : table'[s] = table'[t] /\ table'[s] # NoClient => s = t
    BY <1>2, <2>2
  <2>6. \A s \in Slot : table'[s] # NoClient => table'[s] # c
    BY <1>2, <2>1, <2>2
  <2>7. \A s \in Slot : table'[s] # NoClient => peer'[table'[s]] # "closed"
    BY <1>2, <2>2, <2>3, <2>4, <2>6
  <2>8. Accepted' = Accepted
    BY <1>1, <2>1, <2>3 DEF Accepted
  <2>9. ToSet(table) \subseteq ToSet(table') \cup {c}
    <3>1. DOMAIN table = Slot /\ DOMAIN table' = Slot
      BY <1>1 DEF Typed
    <3>2. QED
      BY <2>2, <3>1 DEF ToSet
  <2>10. Forgotten' \subseteq Forgotten
    BY <2>3, <2>8, <2>9 DEF Forgotten, Accepted
  <2>11. QED
    BY <1>2, <1>3, <1>4, <2>5, <2>7, <2>10
<1>8. CASE /\ UNCHANGED <<table, established>> /\ Accepted' = Accepted
           /\ \A c \in Client : peer'[c] = "closed" => peer[c] = "closed"
  <2>1. \A s \in Slot : table[s] # NoClient => table[s] \in Client
    BY <1>1 DEF Typed
  <2>2. \A s \in Slot : table'[s] # NoClient => peer'[table'[s]] # "closed"
    BY <1>2, <1>8, <2>1
  <2>3. Forgotten' \subseteq Forgotten
    BY <1>5, <1>8 DEF Forgotten, Accepted
  <2>4. QED
    BY <1>2, <1>3, <1>4, <1>8, <2>2, <2>3
<1>9. ~AcceptOnce
  BY DEF AcceptOnce
<1>10. QED
  BY <1>6, <1>7, <1>8, <1>9, PeersStep

LEMMA KilledStep ==
  ASSUME Control, [Next]_vars, KilledByLeaver
  PROVE  KilledByLeaver'
<1> SUFFICES ASSUME spc' = "killed"
             PROVE  cpc'[established'] = "done"
  BY DEF KilledByLeaver
<1>1. Typed /\ Places
  BY DEF Control
<1>2. CASE UNCHANGED vars
  BY <1>2 DEF vars, round, clients, KilledByLeaver
<1>3. CASE Next
  <2>1. spc # "killed"
    BY <1>3 DEF Next
  <2>2. ASSUME spc = "scan", NextSlot
        PROVE  FALSE
    BY <1>1, <2>2, SlotEffect
  <2>3. ScanSlot /\ ReplyToNewest(table[index]) /\ SendKills(established, peer)
    <3>1. ~AcceptRound /\ ~SelectRound /\ ~AcceptOnce /\ ~ServeOnly
          /\ \A c \in Client : ~ClientStep(c)
      BY <2>1 DEF AcceptRound, SelectRound, AcceptOnce, ServeOnly, ClientStep, Connect,
                  ClientSend, ClientRecv, ClientClose, round
    <3>2. ~SkipSlot /\ (ScanSlot => ~Disconnect(table[index]) /\ ~ReadError(table[index]))
      BY <2>2 DEF SkipSlot, ScanSlot, Disconnect, ReadError
    <3>3. ScanSlot /\ ReplyToNewest(table[index])
      BY <1>3, <3>1, <3>2, ScanEffect DEF Next, ServerStep
    <3>4. QED
      BY <2>2, <3>3 DEF ReplyToNewest, ScanSlot
  <2>4. /\ established \in Client /\ peer[established] = "dead"
        /\ established' = established /\ cpc' = cpc
    BY <2>3, ScanEffect DEF SendKills, ReplyToNewest, clients
  <2>5. QED
    BY <1>1, <2>4 DEF Places, Typed
<1>4. QED
  BY <1>2, <1>3

\* The select server's table agrees with the open connections, and only a client
\* that left has the server killed.
THEOREM ServerStaysSound == Spec => []ServerSound
<1> DEFINE Inv == Control /\ ServerSound
<1>1. Init => Inv
  <2> SUFFICES ASSUME Init PROVE Inv
    OBVIOUS
  <2>1. Accepted = {} /\ Forgotten = {}
    BY DEF Init, Accepted, Forgotten
  <2>2. QED
    BY <2>1, ControlInit DEF Init, ServerSound, TableSound, KilledByLeaver
<1>2. Inv /\ [Next]_vars => Inv'
  BY ControlStep, TableStep, KilledStep DEF ServerSound
<1>3. Inv => ServerSound
  OBVIOUS
<1>4. QED
  BY <1>1, <1>2, <1>3, PTL DEF Spec

-----------------------------------------------------------------------------
(* The channels.                                                           *)

LEMMA PendingIsNat ==
  ASSUME Typed
  PROVE  /\ Pending \in Nat /\ Owed \in [Client -> Nat] /\ Cardinality(Client) \in Nat
         /\ Times * Cardinality(Client) \in Nat /\ \A c \in Client : Greeting(c) \in {0, 1}
<1>1. \A c \in Client : left[c] \in Nat /\ toServer[c] \in Nat
  BY DEF Typed
<1>2. Owed \in [Client -> Nat]
  BY <1>1 DEF Owed
<1>3. Pending \in Nat
  BY <1>2, TcpAssumption, SumIsNat DEF Pending
<1>4. Cardinality(Client) \in Nat /\ Times \in Nat
  BY TcpAssumption, FS_CardinalityType
<1>5. Times * Cardinality(Client) \in Nat
  BY <1>4
<1>6. QED
  BY <1>2, <1>3, <1>4, <1>5 DEF Greeting

LEMMA TrafficInit == Init => Traffic
<1> SUFFICES ASSUME Init PROVE Traffic
  OBVIOUS
<1>1. Typed
  BY ControlInit DEF Control
<1>2. \A c \in Client : left[c] = Times /\ toServer[c] = 0 /\ toClient[c] = 0
  BY DEF Init
<1>3. \A c \in Client : Owed[c] = Times
  BY <1>2, TcpAssumption DEF Owed
<1>4. Pending = Times * Cardinality(Client)
  BY <1>3, TcpAssumption, SumOfConstant DEF Pending
<1>5. \A c \in Client : toClient[c] + Pending <= Times * Cardinality(Client) + Greeting(c)
  BY <1>1, <1>2, <1>4, PendingIsNat
<1>6. QED
  BY <1>2, <1>5, TcpAssumption DEF Traffic

\* Reading a client's messages takes them from what is pending.
LEMMA PendingShrinks ==
  ASSUME Typed, Typed', NEW c \in Client, toServer[c] > 0,
         toServer' = [toServer EXCEPT ![c] = 0], left' = left
  PROVE  Pending' <= Pending - 1
<1>1. \A d \in Client : Owed[d] = left[d] + toServer[d] /\ Owed'[d] = left'[d] + toServer'[d]
  BY DEF Owed
<1>2. /\ \A d \in Client : Owed[d] \in Int /\ Owed'[d] \in Int
      /\ \A d \in Client \ {c} : Owed'[d] = Owed[d]
      /\ Owed'[c] - Owed[c] <= -1
  BY <1>1 DEF Typed
<1>3. SumFunctionOnSet(Owed', Client) = SumFunctionOnSet(Owed, Client) + Owed'[c] - Owed[c]
  BY <1>2, TcpAssumption, SumOfOneChange
<1>4. Pending' = Pending + Owed'[c] - Owed[c]
  BY <1>3 DEF Pending
<1>5. QED
  BY <1>2, <1>4, PendingIsNat

LEMMA TrafficStep ==
  ASSUME Control, Control', [Next]_vars, Traffic
  PROVE  Traffic'
<1> USE TcpAssumption
<1>1. Typed /\ Places /\ Typed'
  BY DEF Control
<1>2. /\ Pending \in Nat /\ Pending' \in Nat /\ Times * Cardinality(Client) \in Nat
      /\ \A c \in Client : Greeting(c) \in {0, 1} /\ Greeting(c)' \in {0, 1}
      /\ \A c \in Client : toClient[c] \in Nat /\ toClient'[c] \in Nat
      /\ \A c \in Client : left[c] \in Nat /\ toServer[c] \in Nat
  <2>1. (/\ Pending \in Nat /\ Owed \in [Client -> Nat] /\ Cardinality(Client) \in Nat
         /\ Times * Cardinality(Client) \in Nat /\ \A c \in Client : Greeting(c) \in {0, 1})'
    BY <1>1, PendingIsNat, PTL
  <2>2. QED
    BY <1>1, <2>1, PendingIsNat DEF Typed
<1>3. \A c \in Client : Greeting(c) <= Greeting(c)'
  BY <1>2, PeersStep DEF Greeting
<1>4. ASSUME NEW d \in Client, ClientSend(d)
      PROVE  Traffic'
  <2>1. /\ left' = [left EXCEPT ![d] = @ - 1] /\ toServer' = [toServer EXCEPT ![d] = @ + 1]
        /\ toClient' = toClient
    BY <1>4 DEF ClientSend
  <2>2. \A c \in Client : left'[c] + toServer'[c] = left[c] + toServer[c]
    BY <1>1, <1>2, <2>1 DEF Typed
  <2>3. Owed' = Owed
    BY <2>2 DEF Owed
  <2>4. Pending' = Pending
    BY <2>3 DEF Pending
  <2>5. QED
    BY <1>2, <1>3, <2>1, <2>2, <2>4 DEF Traffic
<1>5. ASSUME UNCHANGED <<left, toServer>>,
             \A c \in Client : toClient'[c] - Greeting(c)' <= toClient[c] - Greeting(c)
      PROVE  Traffic'
  <2>1. Owed' = Owed
    BY <1>5 DEF Owed
  <2>2. Pending' = Pending
    BY <2>1 DEF Pending
  <2>3. QED
    BY <1>2, <1>5, <2>2 DEF Traffic
<1>6. ASSUME NEW c \in Client, toServer[c] > 0, toServer' = [toServer EXCEPT ![c] = 0],
             left' = left, NEW d \in Client, Send(d, peer, toClient)
      PROVE  Traffic'
  <2>1. Pending' <= Pending - 1
    BY <1>1, <1>6, PendingShrinks
  <2>2. \A e \in Client : toClient'[e] <= toClient[e] + 1
    BY <1>1, <1>2, <1>6, SendEffect
  <2>3. \A e \in Client : left'[e] + toServer'[e] <= left[e] + toServer[e]
    <3>1. \A e \in Client : toServer'[e] = IF e = c THEN 0 ELSE toServer[e]
      BY <1>1, <1>6 DEF Typed
    <3>2. QED
      BY <1>2, <1>6, <3>1
  <2>4. \A e \in Client : left'[e] + toServer'[e] <= Times
    <3>1. \A e \in Client : left'[e] \in Nat /\ toServer'[e] \in Nat
      BY <1>1 DEF Typed
    <3>2. \A e \in Client : left[e] + toServer[e] <= Times
      BY DEF Traffic
    <3>3. QED
      BY <1>2, <2>3, <3>1, <3>2
  <2>5. \A e \in Client : toClient'[e] + Pending' <= Times * Cardinality(Client) + Greeting(e)'
    BY <1>2, <1>3, <2>1, <2>2 DEF Traffic
  <2>6. QED
    BY <2>4, <2>5 DEF Traffic
<1>7. CASE AcceptRound
  <2>1. PICK c \in Client :
          /\ c \in ToSet(backlog) /\ ToSet(backlog') = ToSet(backlog) \ {c}
          /\ Send(c, peer, toClient) /\ UNCHANGED <<left, toServer>>
    BY <1>1, <1>7, Dequeued DEF AcceptRound, Typed, Places, clients
  <2>2. /\ \A d \in Client : d # c => toClient'[d] = toClient[d]
        /\ toClient'[c] <= toClient[c] + 1
        /\ peer[c] # "none" => peer'[c] # "none"
    BY <1>1, <1>2, <2>1, SendEffect
  <2>3. Greeting(c) = 0 /\ Greeting(c)' = 1
    <3>1. c \notin Accepted /\ c \in Accepted'
      BY <1>1, <2>1, <2>2 DEF Accepted, Places
    <3>2. QED
      BY <3>1 DEF Greeting
  <2>4. ASSUME NEW d \in Client
        PROVE  toClient'[d] - Greeting(d)' <= toClient[d] - Greeting(d)
    <3>1. /\ toClient[d] \in Nat /\ toClient'[d] \in Nat /\ Greeting(d) <= Greeting(d)'
          /\ Greeting(d) \in {0, 1} /\ Greeting(d)' \in {0, 1}
      BY <1>2, <1>3
    <3>2. CASE d = c
      BY <2>2, <2>3, <3>1, <3>2
    <3>3. CASE d # c
      BY <2>2, <3>1, <3>3
    <3>4. QED
      BY <3>2, <3>3
  <2>5. QED
    BY <1>5, <2>1, <2>4
<1>8. ASSUME \/ \E c \in Client : Connect(c) \/ ClientRecv(c) \/ ClientClose(c)
             \/ SelectRound \/ SkipSlot \/ AcceptOnce \/ UNCHANGED vars
             \/ ScanSlot /\ (Disconnect(table[index]) \/ ReadError(table[index]))
      PROVE  Traffic'
  <2>1. UNCHANGED <<left, toServer>>
    BY <1>8 DEF Connect, ClientRecv, ClientClose, SelectRound, SkipSlot, AcceptOnce, vars,
                Disconnect, ReadError, clients
  <2>2. toClient' = toClient \/ \E c \in Client : toClient' = [toClient EXCEPT ![c] = 0]
    BY <1>8 DEF Connect, ClientRecv, ClientClose, SelectRound, SkipSlot, AcceptOnce, vars,
                Disconnect, ReadError
  <2>3. \A c \in Client : toClient'[c] <= toClient[c]
    <3>1. CASE toClient' = toClient
      BY <1>2, <3>1
    <3>2. ASSUME NEW d \in Client, toClient' = [toClient EXCEPT ![d] = 0]
          PROVE  \A c \in Client : toClient'[c] <= toClient[c]
      <4>1. \A c \in Client : toClient'[c] = IF c = d THEN 0 ELSE toClient[c]
        BY <1>1, <3>2 DEF Typed
      <4>2. QED
        BY <1>2, <4>1
    <3>3. QED
      BY <2>2, <3>1, <3>2
  <2>4. \A c \in Client : toClient'[c] - Greeting(c)' <= toClient[c] - Greeting(c)
    BY <1>2, <1>3, <2>3
  <2>5. QED
    BY <1>5, <2>1, <2>4
<1>9. CASE ServeOnly
  <2>1. /\ established \in Client /\ toServer[established] > 0
        /\ toServer' = [toServer EXCEPT ![established] = 0]
        /\ left' = left /\ Send(established, peer, toClient)
    BY <1>1, <1>9 DEF ServeOnly, clients, Typed
  <2>2. QED
    BY <1>6, <2>1
<1>10. CASE ScanSlot /\ ReplyToNewest(table[index])
  <2>1. /\ established \in Client /\ table[index] \in Client /\ toServer[table[index]] > 0
        /\ toServer' = [toServer EXCEPT ![table[index]] = 0]
        /\ left' = left /\ Send(established, peer, toClient)
    BY <1>10, ScanEffect DEF ReplyToNewest, clients
  <2>2. QED
    BY <1>6, <2>1
<1>11. QED
  BY <1>4, <1>7, <1>8, <1>9, <1>10, ScanEffect DEF Next, ServerStep, ClientStep

\* Nothing is longer than what the clients send: no client is ever owed more
\* than one greeting and one answer for each message.
THEOREM ServerTypeCorrect == Spec => []TypeOK
<1> DEFINE Inv == Control /\ Traffic
<1>1. Init => Inv
  BY ControlInit, TrafficInit
<1>2. Inv /\ [Next]_vars => Inv'
  BY ControlStep, TrafficStep
<1>3. Inv => TypeOK
  <2> SUFFICES ASSUME Inv PROVE TypeOK
    OBVIOUS
  <2> DEFINE most == Times * Cardinality(Client)
  <2>1. Typed /\ Pending \in Nat /\ most \in Nat /\ \A c \in Client : Greeting(c) \in {0, 1}
    BY PendingIsNat DEF Control
  <2>2. \A c \in Client : toClient[c] + Pending <= most + Greeting(c)
    BY DEF Traffic
  <2> HIDE DEF most
  <2>3. ASSUME NEW c \in Client PROVE toClient[c] \in 0 .. most + 1
    <3>1. toClient[c] \in Nat /\ toClient[c] + Pending <= most + Greeting(c) /\ Greeting(c) \in {0, 1}
      BY <2>1, <2>2 DEF Typed
    <3>2. QED
      BY <2>1, <3>1
  <2>4. \A c \in Client : toServer[c] \in 0 .. Times /\ left[c] \in 0 .. Times
    BY <2>1, TcpAssumption DEF Traffic, Typed
  <2>5. /\ toClient \in [Client -> 0 .. most + 1]
        /\ toServer \in [Client -> 0 .. Times] /\ left \in [Client -> 0 .. Times]
    BY <2>1, <2>3, <2>4 DEF Typed
  <2>6. QED
    BY <2>1, <2>5 DEF Typed, TypeOK, PeerState, Slot, most
<1>4. QED
  BY <1>1, <1>2, <1>3, PTL DEF Spec
=============================================================================
