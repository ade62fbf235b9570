------------------------------- MODULE E1000 -------------------------------
(***************************************************************************)
(* The network card: the descriptor rings of kernel/drivers/e1000.c and    *)
(* the program of net_test in kernel/main.c, which resolves the gateway,   *)
(* pings it, asks the name server and opens a connection, polling for each *)
(* answer.  The card works on its side of the rings at any time; a packet  *)
(* is known by its kind.                                                   *)
(***************************************************************************)
EXTENDS Integers, Sequences

CONSTANTS
    NUM_RX_DESC, NUM_TX_DESC,
    Tries,          \* polls per answer
    Packets         \* kinds of packet the network may bring

ASSUME E1000Assumption ==
    /\ {NUM_RX_DESC, NUM_TX_DESC, Tries} \subseteq Nat
    /\ NUM_RX_DESC > 1 /\ NUM_TX_DESC > 4 /\ Tries >= NUM_RX_DESC - 1

VARIABLES
    rx_ring, rx_status,         \* what a receive descriptor's buffer holds, and its DD bit
    rdh, rdt, rx_cur,           \* head and tail registers, the driver's index
    tx_ring, tdh, tdt, tx_cur,
    stage, tries,               \* net_test: which answer it is after, polls left (0: to send)
    dns_result,                 \* whether the name was resolved
    taken,                      \* observer: what e1000_recv returned last
    rxcall,                     \* observer: the last packet or poll, as BoundedQueue has it
    asked,                      \* observer: the packets handed to e1000_send
    wire,                       \* observer: the packets the card has sent
    due                         \* observer: the answer was there when the polling began

nvars == <<rx_ring, rx_status, rdh, rdt, rx_cur, tx_ring, tdh, tdt, tx_cur, stage, tries,
           dns_result, taken, rxcall, asked, wire, due>>
rxvars == <<rx_ring, rx_status, rdh, rdt, rx_cur, taken, rxcall>>
txvars == <<tx_ring, tdh, tdt, tx_cur, asked, wire>>

RxSlots == 0..(NUM_RX_DESC - 1)
TxSlots == 0..(NUM_TX_DESC - 1)
After == [arp |-> "icmp", icmp |-> "dns", dns |-> "tcp", tcp |-> "over"]

(***************************************************************************)
(* The answers each stage takes.  A DNS answer that does not parse ends    *)
(* the stage too, and any TCP packet does.                                 *)
(***************************************************************************)
Answers == [arp |-> {"arp_reply"}, icmp |-> {"echo_reply"}, dns |-> {"dns_a", "dns_error"},
            tcp |-> {"tcp"}, over |-> {}]

Arrived ==
    [i \in 1..((rdh - rx_cur) % NUM_RX_DESC) |-> rx_ring[(rx_cur + i - 1) % NUM_RX_DESC]]

Unsent ==
    [i \in 1..((tdt - tdh) % NUM_TX_DESC) |-> tx_ring[(tdh + i - 1) % NUM_TX_DESC]]

(***************************************************************************)
(* e1000_init.                                                             *)
(***************************************************************************)
NInit ==
    /\ rx_ring = [i \in RxSlots |-> "none"] /\ rx_status = [i \in RxSlots |-> FALSE]
    /\ rdh = 0 /\ rdt = NUM_RX_DESC - 1 /\ rx_cur = 0
    /\ tx_ring = [i \in TxSlots |-> "none"]
    /\ tdh = 0 /\ tdt = 0 /\ tx_cur = 0
    /\ stage = "arp" /\ tries = 0 /\ dns_result = FALSE
    /\ taken = << >> /\ rxcall = <<"none", "none", 0>> /\ asked = << >> /\ wire = << >> /\ due = FALSE

-----------------------------------------------------------------------------
(***************************************************************************)
(* The card: it fills the descriptor at the head unless that is the tail,  *)
(* where it drops the packet, and sends up to the transmit tail.           *)
(***************************************************************************)
CardReceives(p) ==
    /\ rdh # rdt
    /\ rx_ring' = [rx_ring EXCEPT ![rdh] = p]
    /\ rx_status' = [rx_status EXCEPT ![rdh] = TRUE]
    /\ rdh' = (rdh + 1) % NUM_RX_DESC
    /\ rxcall' = <<"offer", p, 1 - rxcall[3]>>
    /\ UNCHANGED <<rdt, rx_cur, taken, txvars, stage, tries, dns_result, due>>

CardDrops(p) ==
    /\ rdh = rdt
    /\ rxcall' = <<"offer", p, 1 - rxcall[3]>>
    /\ UNCHANGED <<rx_ring, rx_status, rdh, rdt, rx_cur, taken, txvars, stage, tries, dns_result, due>>

CardSends ==
    /\ tdh # tdt
    /\ wire' = Append(wire, tx_ring[tdh])
    /\ tdh' = (tdh + 1) % NUM_TX_DESC
    /\ UNCHANGED <<rxvars, tx_ring, tdt, tx_cur, asked, stage, tries, dns_result, due>>

-----------------------------------------------------------------------------
(***************************************************************************)
(* The packets that are built.  Without an address from the name server    *)
(* the connection goes to the gateway.                                     *)
(***************************************************************************)
ArpRequest == "arp_request"
Ping == "echo_request"
DnsQuery == "query"
TcpSyn == IF dns_result THEN "syn_host" ELSE "syn_gateway"

Request == [arp |-> ArpRequest, icmp |-> Ping, dns |-> DnsQuery, tcp |-> TcpSyn]

(***************************************************************************)
(* e1000_send does not ask whether the card is done with the descriptor.   *)
(***************************************************************************)
OldIndex(cur) == cur                            \* mutant: the tail is the descriptor just written

TailAfterSend(cur) == (cur + 1) % NUM_TX_DESC

SendRequest ==
    /\ stage # "over" /\ tries = 0
    /\ tx_ring' = [tx_ring EXCEPT ![tx_cur] = Request[stage]]
    /\ tx_cur' = (tx_cur + 1) % NUM_TX_DESC
    /\ tdt' = TailAfterSend(tx_cur)
    /\ asked' = Append(asked, Request[stage])
    /\ tries' = -1          \* and a pause before the first poll
    /\ UNCHANGED <<rxvars, tdh, wire, stage, dns_result, due>>

(***************************************************************************)
(* The pause after the request is over: what has come in by now is waiting *)
(* for the polls.                                                          *)
(***************************************************************************)
TooFew == NUM_RX_DESC - 2                       \* mutant: fewer polls than the ring holds packets

Polls == Tries

BeginPolling ==
    /\ tries = -1
    /\ tries' = Polls
    /\ due' = \E i \in DOMAIN Arrived : Arrived[i] \in Answers[stage]
    /\ UNCHANGED <<rxvars, txvars, stage, dns_result>>

(***************************************************************************)
(* e1000_recv finds a packet if the card's head has moved past the         *)
(* driver's index and DD is set, and gives the descriptor back.            *)
(***************************************************************************)
AnyDescriptor == TRUE                           \* mutant: neither is looked at

HasPacket == rdh # rx_cur /\ rx_status[rx_cur]

(***************************************************************************)
(* e1000_dns_parse_reply: "dns_error" is an answer without an address.     *)
(***************************************************************************)
Resolved(p) == p = "dns_a"

Found == HasPacket /\ rx_ring[rx_cur] \in Answers[stage]

GivesUp == tries = 1

(***************************************************************************)
(* One round of a polling loop.  Without a gateway net_test ends; another  *)
(* answer that never comes only costs the polls.                           *)
(***************************************************************************)
PollCard ==
    /\ tries > 0
    /\ IF HasPacket
       THEN /\ taken' = <<rx_ring[rx_cur]>>
            /\ rxcall' = <<"take", "none", 1 - rxcall[3]>>
            /\ rx_status' = [rx_status EXCEPT ![rx_cur] = FALSE]
            /\ rdt' = rx_cur
            /\ rx_cur' = (rx_cur + 1) % NUM_RX_DESC
       ELSE UNCHANGED <<taken, rxcall, rx_status, rdt, rx_cur>>
    /\ dns_result' = (dns_result \/ (Found /\ Resolved(rx_ring[rx_cur])))
    /\ stage' = CASE Found -> After[stage]
                  [] ~Found /\ ~GivesUp -> stage
                  [] ~Found /\ GivesUp -> IF stage = "arp" THEN "over" ELSE After[stage]
    /\ tries' = IF Found \/ GivesUp THEN 0 ELSE tries - 1
    /\ due' = (due /\ ~Found)
    /\ UNCHANGED <<rx_ring, rdh, txvars>>

NNext ==
    \/ \E p \in Packets : CardReceives(p) \/ CardDrops(p)
    \/ CardSends
    \/ SendRequest \/ BeginPolling \/ PollCard

NSpec == NInit /\ [][NNext]_nvars

-----------------------------------------------------------------------------
RxQueue == INSTANCE BoundedQueue
             WITH Items <- Packets, Capacity <- NUM_RX_DESC - 1, q <- Arrived, out <- taken,
                  call <- rxcall, NoItem <- "none"

(***************************************************************************)
(* The receive ring is a queue although the card and the driver move their *)
(* ends of it independently: e1000_recv returns the packets in the order   *)
(* of their arrival, each once, a descriptor is not given back to the card *)
(* before its packet has been taken, and the card drops a packet only when *)
(* the driver has one less to take than there are descriptors.             *)
(***************************************************************************)
RxImplements == [][RxQueue!Flow]_<<Arrived, taken, rxcall>>

(***************************************************************************)
(* e1000_send, which never waits for the card, loses, repeats or reorders  *)
(* no request of net_test however far the card is behind.                  *)
(***************************************************************************)
TxInOrder == wire \o Unsent = asked

(***************************************************************************)
(* A stage does not give up on an answer that was in the ring before its   *)
(* first poll, whatever else the card had put in front of it.              *)
(***************************************************************************)
NoReplyMissed == tries = 0 => ~due
=============================================================================
