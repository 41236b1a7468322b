----------------------------- MODULE NetvscInit -----------------------------
(***************************************************************************)
(* NetvscDevice::init after the channel is open: the NVSP version, the two *)
(* shared buffers, the RNDIS requests (initialise, MAC, MTU, filter), and  *)
(* the request for a single queue.  The channel's rings are FIFOs (module  *)
(* VmbusRing) that do not fill up here; creating a GPADL is part of module *)
(* VmbusBoot.                                                              *)
(*                                                                         *)
(* NVSP answers arrive as packets of their own.  An RNDIS request is put   *)
(* into section 0 of the send buffer; the host reads it there, completes   *)
(* it (a SEND_RNDIS_PKT_COMPLETE) and answers it (a transfer-page packet   *)
(* that occupies a slot of the receive buffer until it is completed).      *)
(* The host is external.                                                   *)
(***************************************************************************)
EXTENDS Naturals, Sequences, FiniteSets, SequencesExt, RndisMessage

CONSTANTS HostVersions,  \* the newest NVSP version a host accepts, one per host
          Unsolicited,   \* what a host sends unasked: "indicate", "keepalive", "frame"
          MaxUnsolicited,
          Mtus           \* the MTUs it may report

VARIABLES
  pc, ver,               \* the driver's next step; index of the version tried
  req, req_id,           \* the RNDIS request at hand, its id
  ctrl_resp,             \* the response slot, None when not ready
  section, free,         \* the request in section 0; send_section_free
  mtu,
  ring, inbox,           \* host to guest, guest to host
  todo,                  \* what the host still has to send for requests it read
  host_max, host_version, filter_on, slots, unsolicited,
  acked,                 \* the packet taken for the answer to the subchannel request
  answered,              \* <<request, answer>> pairs of ids the driver matched
  overlap                \* section 0 was written while a keepalive reply used it

guest == <<pc, ver, req, req_id, ctrl_resp, section, free, mtu, acked, answered,
           overlap>>
host == <<todo, host_max, host_version, filter_on, unsolicited>>
vars == <<guest, ring, inbox, host, slots>>
-----------------------------------------------------------------------------
NegotiateOrder == <<61, 60, 50, 40, 20, 10>>
MacInfo == 65536         \* a MAC address read as an MTU: out of any range
None == [id |-> 0]
Keepalive == [id |-> 0, kind |-> "keepalive"]

Xfer(p) == p.type = "xfer"
Response(r, ok, info) ==
  [type |-> "xfer", rndis |-> "response", kind |-> r.kind, id |-> r.id,
   ok |-> ok, info |-> info]

Init ==
  /\ pc = "negotiate" /\ ver = 1 /\ req = "init" /\ req_id = 0
  /\ ctrl_resp = None /\ section = Keepalive /\ free = TRUE /\ mtu = 1514
  /\ ring = <<>> /\ inbox = <<>> /\ todo = <<>>
  /\ host_max \in HostVersions /\ host_version = 0
  /\ filter_on = FALSE /\ slots = 0 /\ unsolicited = 0 /\ acked = "none"
  /\ answered = {} /\ overlap = FALSE
-----------------------------------------------------------------------------
Post(m) == inbox' = Append(inbox, m)

(* recv_with_timeout: the next packet, whatever it is, or a timeout *)
TakeNext == ring # <<>> /\ ring' = Tail(ring)
TimedOut == ring = <<>>

Fail == pc' = "failed"

negotiate_send ==
  /\ pc = "negotiate" /\ pc' = "negotiate_wait"
  /\ Post([msg |-> "nvsp_init", version |-> NegotiateOrder[ver]])
  /\ UNCHANGED <<ver, req, req_id, ctrl_resp, section, free, mtu, acked,
                 answered, overlap, ring, host, slots>>

Mutant_negotiate_stuck ==
  /\ pc = "negotiate_wait" /\ TakeNext
  /\ pc' = IF Head(ring).type = "nvsp_init" /\ Head(ring).ok THEN "recv_buf" ELSE "negotiate"
  /\ UNCHANGED <<ver, req, req_id, ctrl_resp, section, free, mtu, acked,
                 answered, overlap, inbox, host, slots>>

(* The next version is tried after a rejection.  NDIS_CONFIG and NDIS_VER  *)
(* are sent without waiting for anything.                                  *)
negotiate_recv ==
  /\ pc = "negotiate_wait" /\ TakeNext
  /\ IF Head(ring).type = "nvsp_init" /\ Head(ring).ok
       THEN pc' = "recv_buf" /\ UNCHANGED ver
     ELSE IF ver < Len(NegotiateOrder)
       THEN pc' = "negotiate" /\ ver' = ver + 1
       ELSE Fail /\ UNCHANGED ver
  /\ UNCHANGED <<req, req_id, ctrl_resp, section, free, mtu, acked, answered,
                 overlap, inbox, host, slots>>

nvsp_version == NegotiateOrder[ver]

Wait(b) == IF b = "recv_buf" THEN "recv_buf_wait" ELSE "send_buf_wait"
AfterBuf(b) == IF b = "recv_buf" THEN "send_buf" ELSE "rndis_send"

buf_send(b) ==
  /\ pc = b /\ pc' = Wait(b)
  /\ Post([msg |-> b])
  /\ UNCHANGED <<ver, req, req_id, ctrl_resp, section, free, mtu, acked,
                 answered, overlap, ring, host, slots>>

(* SEND_RECV_BUF_COMPLETE, SEND_SEND_BUF_COMPLETE *)
buf_recv(b) ==
  /\ pc = Wait(b) /\ TakeNext
  /\ IF Head(ring).type = b /\ Head(ring).ok THEN pc' = AfterBuf(b) ELSE Fail
  /\ UNCHANGED <<ver, req, req_id, ctrl_resp, section, free, mtu, acked,
                 answered, overlap, inbox, host, slots>>
-----------------------------------------------------------------------------
(* poll_channel, one packet of its loop: handle_xfer_page completes the    *)
(* packet, stores a control response, answers a keepalive through section  *)
(* 0 if that is free (send_rndis_control_inner), and skips the rest; the   *)
(* completion of a request frees the section.                              *)
Polling == {"section_wait", "response", "drain"}

(* A reply to a keepalive that the host has not read, or whose completion  *)
(* the driver has not seen; it does not mark the section as taken.         *)
ReplyInFlight ==
  \/ \E i \in DOMAIN inbox : inbox[i].msg = "rndis" /\ inbox[i].r = Keepalive
  \/ \E i \in DOMAIN todo : todo[i].r = Keepalive
  \/ \E i \in DOMAIN ring : ring[i].type = "pkt_complete" /\ ring[i].id = Keepalive.id

Overlap == overlap' = (overlap \/ ReplyInFlight)

Mutant_poll_ignores ==
  /\ pc \in Polling /\ TakeNext
  /\ LET p == Head(ring) IN
       /\ slots' = IF Xfer(p) THEN slots - 1 ELSE slots
       /\ free' = (free \/ (pc = "section_wait" /\ p.type = "pkt_complete"))
       /\ ctrl_resp' = IF Xfer(p) /\ p.rndis = "response" THEN p ELSE ctrl_resp
       /\ IF Xfer(p) /\ p.rndis = "keepalive" /\ free
            THEN /\ section' = Keepalive /\ Overlap
                 /\ Post([msg |-> "rndis", r |-> Keepalive])
            ELSE UNCHANGED <<section, inbox, overlap>>
  /\ UNCHANGED <<pc, ver, req, req_id, mtu, acked, answered, host>>

poll_packet ==
  /\ pc \in Polling /\ TakeNext
  /\ LET p == Head(ring) IN
       /\ slots' = IF Xfer(p) THEN slots - 1 ELSE slots
       /\ free' = (free \/ p.type = "pkt_complete")
       /\ ctrl_resp' = IF Xfer(p) /\ p.rndis = "response" THEN p ELSE ctrl_resp
       /\ IF Xfer(p) /\ p.rndis = "keepalive" /\ free
            THEN /\ section' = Keepalive /\ Overlap
                 /\ Post([msg |-> "rndis", r |-> Keepalive])
            ELSE UNCHANGED <<section, inbox, overlap>>
  /\ UNCHANGED <<pc, ver, req, req_id, mtu, acked, answered, host>>

(* send_rndis_control polls the channel only when the section is not free ... *)
wait_for_send_section ==
  /\ pc = "rndis_send" /\ ~free /\ pc' = "section_wait"
  /\ UNCHANGED <<ver, req, req_id, ctrl_resp, section, free, mtu, acked,
                 answered, overlap, ring, inbox, host, slots>>

(* ... and sends; recv_rndis_response then resets the response slot.       *)
send_rndis_control ==
  /\ pc = "rndis_send" \/ (pc = "section_wait" /\ ring = <<>>)
  /\ free /\ free' = FALSE
  /\ req_id' = req_id + 1 /\ section' = [id |-> req_id', kind |-> req]
  /\ ctrl_resp' = None /\ pc' = "response" /\ Overlap
  /\ Post([msg |-> "rndis", r |-> section'])
  /\ UNCHANGED <<ver, req, mtu, acked, answered, ring, host, slots>>

(* The assertion at the end of init *)
Finish(m) == IF m + 14 <= RX_FRAME_MAX THEN "ready" ELSE "panicked"

Go(next, r) == pc' = next /\ req' = r

(* What follows a response, after poll_channel has emptied the ring: ... *)
rndis_init ==
  /\ pc = "response" /\ ring = <<>> /\ ctrl_resp # None /\ req = "init"
  /\ answered' = answered \cup {<<req_id, ctrl_resp.id>>} /\ ctrl_resp' = None
  /\ IF ctrl_resp.kind = "init" /\ ctrl_resp.ok THEN Go("drain", "mac")
                                               ELSE Fail /\ UNCHANGED req
  /\ UNCHANGED <<ver, req_id, section, free, mtu, acked, overlap, ring, inbox,
                 host, slots>>

(* ... the ring is drained once, ... *)
drained ==
  /\ pc = "drain" /\ ring = <<>> /\ pc' = "rndis_send"
  /\ UNCHANGED <<ver, req, req_id, ctrl_resp, section, free, mtu, acked,
                 answered, overlap, ring, inbox, host, slots>>

(* ... the MAC is asked for by a second OID when the response to the first *)
(* is not a query's that succeeded with at least 6 bytes, ...              *)
rndis_query_mac ==
  /\ pc = "response" /\ ring = <<>> /\ ctrl_resp # None /\ req \in {"mac", "mac2"}
  /\ answered' = answered \cup {<<req_id, ctrl_resp.id>>} /\ ctrl_resp' = None
  /\ Go("rndis_send",
        IF req = "mac" /\ ~(ctrl_resp.ok /\ ctrl_resp.kind \in {"mac", "mac2"})
          THEN "mac2" ELSE "mtu")
  /\ UNCHANGED <<ver, req_id, section, free, mtu, acked, overlap, ring, inbox,
                 host, slots>>

(* ... the MTU is the first 4 bytes of a query's response, ... *)
rndis_query_mtu ==
  /\ pc = "response" /\ ring = <<>> /\ ctrl_resp # None /\ req = "mtu"
  /\ answered' = answered \cup {<<req_id, ctrl_resp.id>>} /\ ctrl_resp' = None
  /\ mtu' = IF ctrl_resp.ok /\ ctrl_resp.kind \in {"mac", "mac2", "mtu"}
               THEN ctrl_resp.info ELSE mtu
  /\ Go("rndis_send", "filter")
  /\ UNCHANGED <<acked, overlap, ver, req_id, section, free, ring, inbox, host,
                 slots>>

(* ... and the packet filter may be refused. *)
rndis_set_packet_filter ==
  /\ pc = "response" /\ ring = <<>> /\ ctrl_resp # None /\ req = "filter"
  /\ answered' = answered \cup {<<req_id, ctrl_resp.id>>} /\ ctrl_resp' = None
  /\ pc' = IF ctrl_resp.kind # "filter" THEN "failed"
           ELSE IF nvsp_version >= 50 THEN "subchannel" ELSE Finish(mtu)
  /\ UNCHANGED <<ver, req, req_id, section, free, mtu, acked, overlap, ring,
                 inbox, host, slots>>

(* nvsp_request_single_queue: the next packet is taken for the answer.     *)
nvsp_request_single_queue ==
  /\ pc = "subchannel" /\ pc' = "subchannel_wait"
  /\ Post([msg |-> "subchannel"])
  /\ UNCHANGED <<ver, req, req_id, ctrl_resp, section, free, mtu, acked,
                 answered, overlap, ring, host, slots>>

subchannel_recv ==
  /\ pc = "subchannel_wait" /\ TakeNext /\ pc' = Finish(mtu)
  /\ acked' = Head(ring).type
  /\ UNCHANGED <<ver, req, req_id, ctrl_resp, section, free, mtu, answered,
                 overlap, inbox, host, slots>>

Mutant_timeout ==
  /\ TimedOut /\ pc = "response" /\ ctrl_resp = None
  /\ Go("rndis_send", IF req = "mac" THEN "mac2" ELSE IF req = "init" THEN "mac" ELSE "filter")
  /\ UNCHANGED <<ver, req_id, ctrl_resp, section, free, mtu, acked, answered,
                 overlap, ring, inbox, host, slots>>

(* Every wait ends with an error when its time is over. *)
timeout ==
  /\ TimedOut
  /\ \/ pc \in {"negotiate_wait", "recv_buf_wait", "send_buf_wait", "subchannel_wait"}
     \/ pc = "section_wait" /\ ~free
     \/ pc = "response" /\ ctrl_resp = None
  /\ Fail
  /\ UNCHANGED <<ver, req, req_id, ctrl_resp, section, free, mtu, acked,
                 answered, overlap, ring, inbox, host, slots>>
-----------------------------------------------------------------------------
(* The host: it answers NVSP messages, ... *)
HostNvsp ==
  /\ inbox # <<>> /\ inbox' = Tail(inbox)
  /\ LET m == Head(inbox) IN
       \/ /\ m.msg = "nvsp_init"
          /\ LET ok == m.version <= host_max IN
               /\ ring' = Append(ring, [type |-> "nvsp_init", ok |-> ok])
               /\ host_version' = IF ok THEN m.version ELSE host_version
       \/ /\ m.msg \in {"recv_buf", "send_buf", "subchannel"}
          /\ \E ok \in BOOLEAN :
               ring' = Append(ring, [type |-> m.msg, ok |-> ok])
          /\ UNCHANGED host_version
  /\ UNCHANGED <<guest, todo, host_max, filter_on, unsolicited, slots>>

(* ... reads a request, which it finds in section 0, ... *)
HostReads ==
  /\ inbox # <<>> /\ Head(inbox).msg = "rndis" /\ inbox' = Tail(inbox)
  /\ todo' = todo \o <<[step |-> "complete", r |-> section]>>
                  \o (IF section = Keepalive THEN <<>>
                      ELSE <<[step |-> "respond", r |-> section]>>)
  /\ UNCHANGED <<guest, ring, host_max, host_version, filter_on, unsolicited, slots>>

(* ... completes it, ... *)
HostCompletes(i) ==
  /\ todo[i].step = "complete" /\ todo' = RemoveAt(todo, i)
  /\ ring' = Append(ring, [type |-> "pkt_complete", id |-> todo[i].r.id])
  /\ UNCHANGED <<guest, inbox, host_max, host_version, filter_on, unsolicited, slots>>

(* ... and responds to it, before or after. *)
HostResponds(i) ==
  /\ todo[i].step = "respond" /\ todo' = RemoveAt(todo, i)
  /\ slots' = slots + 1
  /\ LET r == todo[i].r IN
       /\ \E ok \in BOOLEAN, n \in Mtus :
            ring' = Append(ring, Response(r, ok, IF r.kind = "mtu" THEN n ELSE MacInfo))
       /\ filter_on' = (filter_on \/ r.kind = "filter")
  /\ UNCHANGED <<guest, inbox, host_max, host_version, unsolicited>>

(* init is over; what comes next is module NetvscDataPath. *)
Over == pc \in {"ready", "failed", "panicked"}

(* Once RNDIS is initialised it may send messages of its own, once the     *)
(* filter is set frames.                                                   *)
HostSends(k) ==
  /\ unsolicited < MaxUnsolicited /\ unsolicited' = unsolicited + 1
  /\ ~Over /\ req # "init" /\ (k = "frame" => filter_on)
  /\ slots' = slots + 1
  /\ ring' = Append(ring, [type |-> "xfer", rndis |-> k])
  /\ UNCHANGED <<guest, inbox, todo, host_max, host_version, filter_on>>

Guest ==
  \/ negotiate_send \/ negotiate_recv
  \/ \E b \in {"recv_buf", "send_buf"} : buf_send(b) \/ buf_recv(b)
  \/ poll_packet \/ wait_for_send_section \/ send_rndis_control
  \/ rndis_init \/ drained \/ rndis_query_mac \/ rndis_query_mtu
  \/ rndis_set_packet_filter \/ nvsp_request_single_queue \/ subchannel_recv
  \/ timeout

Host == \/ HostNvsp \/ HostReads
        \/ \E i \in DOMAIN todo : HostCompletes(i) \/ HostResponds(i)

Next == Guest \/ Host \/ (\E k \in Unsolicited : HostSends(k))
        \/ (Over /\ UNCHANGED vars)

Spec == Init /\ [][Next]_vars

(* The driver runs on; the host answers in the end, in time or not. *)
FairSpec == Spec /\ WF_vars(Guest) /\ WF_vars(Host)
-----------------------------------------------------------------------------
(* The steps, and no more packets in the receive buffer than were sent. *)
TypeOK ==
  /\ ver \in 1 .. Len(NegotiateOrder) /\ req_id \in 0 .. 5 /\ slots \in Nat
  /\ req \in {"init", "mac", "mac2", "mtu", "filter"}
  /\ pc \in Polling \cup {"rndis_send", "ready", "negotiate", "negotiate_wait",
                          "recv_buf", "recv_buf_wait",
                          "send_buf", "send_buf_wait", "subchannel",
                          "subchannel_wait", "failed", "panicked"}
  /\ free \in BOOLEAN /\ section.id \in 0 .. 5

(* The response slot has no request id to compare with, and still every    *)
(* response the driver uses is the one to the request it has just sent,    *)
(* as long as no keepalive reply was in flight when one was sent.          *)
AnswersInStep == overlap \/ \A a \in answered : a[1] = a[2]

(* When init succeeds, driver and host speak the same version.             *)
VersionAgreed == pc = "ready" => nvsp_version = host_version

(* Every transfer-page packet taken off the ring was completed, so that    *)
(* the host has its receive-buffer slot back; the exception is one that    *)
(* nvsp_request_single_queue took for its answer.                          *)
SlotsReturned ==
  slots = Cardinality({i \in DOMAIN ring : Xfer(ring[i])})
          + (IF acked = "xfer" THEN 1 ELSE 0)

(* Only one control message is in flight at a time (netvsc.rs, the comment *)
(* on ctrl_resp), so the host finds each one in section 0 as it was        *)
(* written; true unless a keepalive reply overlapped with another message. *)
OneControlInFlight ==
  overlap \/ \A i \in DOMAIN inbox : inbox[i].msg = "rndis" => inbox[i].r = section

(* A device that init returns can receive a full frame, the Ethernet       *)
(* header and an MTU: extract_eth_frame finds the whole of it in the       *)
(* RX_FRAME_MAX bytes that are copied of its message.                      *)
(* The assertion at the end of init leaves the RNDIS header out, so the    *)
(* MTUs of that margin are the exception.                                  *)
FullFramesFit ==
  pc = "ready" =>
    \/ LET m == PacketMessage(0, mtu + 14)
       IN extract_eth_frame(m, CopyLen(m)) = FrameOf(m)
    \/ mtu \in RX_FRAME_MAX - RNDIS_PACKET_HDR_SIZE - 13 .. RX_FRAME_MAX - 14

(* After init the completion of the last request reaches the data path, so *)
(* that frames can be sent, unless nvsp_request_single_queue swallowed it. *)
SectionComesBack ==
  pc = "ready" ~>
    \/ free \/ acked = "pkt_complete"
    \/ \E i \in DOMAIN ring : ring[i].type = "pkt_complete"

(* init comes to an end. *)
InitFinishes == <>Over

(* The handshake, over late answers, late completions and unsolicited      *)
(* messages: each answer used belongs to the request just sent, the        *)
(* request the host reads is the one written, the versions agree, the      *)
(* receive buffer has all its slots, and full frames fit.                  *)
HandshakeInv ==
  /\ TypeOK /\ VersionAgreed /\ FullFramesFit
  /\ AnswersInStep /\ OneControlInFlight /\ SlotsReturned
=============================================================================
