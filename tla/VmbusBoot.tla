----------------------------- MODULE VmbusBoot -----------------------------
(***************************************************************************)
(* The VMBus control plane at boot: version negotiation and channel offers *)
(* (embclox-hyperv/src/vmbus.rs, called by init in lib.rs), then, for each *)
(* offer the registry probes, the GPADLs and the OPENCHANNEL of            *)
(* NetvscDevice::init (channel.rs, netvsc.rs).                             *)
(*                                                                         *)
(* Requests are hypercalls the host handles in order and at its own pace;  *)
(* its messages come back through a FIFO (SynicMessage implements one).    *)
(* Every wait of the guest takes messages off that FIFO until one has the  *)
(* type it waits for, and may time out while the FIFO is empty.  The       *)
(* exchanges on the open channel (NVSP, RNDIS) succeed or fail.            *)
(***************************************************************************)
EXTENDS Integers, Sequences, FiniteSets

CONSTANTS HostOffers,      \* the devices the host offers, in its order
          RingPages,       \* pages of a channel's ring buffer
          BufPages,        \* pages of the receive and of the send buffer
          PostsFail,       \* whether a hypercall may fail
          MaxUnsolicited   \* bound on messages the host sends unasked

ASSUME HostOffersAssumption ==
  HostOffers \in Seq([relid : Nat \ {0}, type : {"netvsc", "other"}])
ASSUME PagesAssumption == RingPages \in Nat \ {0} /\ BufPages \in Nat \ {0}
ASSUME SwitchAssumption == PostsFail \in BOOLEAN
ASSUME UnsolicitedAssumption == MaxUnsolicited \in Nat

VARIABLES
  host_versions,     \* versions the host accepts
  host_slow,         \* whether the host may answer after the deadline
  host_version,      \* the version the host agreed to
  host_gpadls,       \* handle -> the pages the host was told, and its verdict
  host_open,         \* relid -> the GPADL of the ring the host uses, or 0
  requests,          \* messages posted and not yet handled by the host
  inbox,             \* messages for the guest
  unsolicited,       \* messages the host sent unasked so far
  pc,
  attempt,           \* connect: index into Versions
  version, offers,   \* fields of VmBus
  all_delivered,     \* history: ALLOFFERS_DELIVERED was seen
  probe,             \* index of the offer being probed
  buffer,            \* which buffer of the device create_gpadl describes
  gpadl, described,  \* create_gpadl: handle, pages described so far
  next_gpadl,        \* NEXT_GPADL
  channels,          \* channels open_channel returned Ok for
  gave_up            \* history: a wait for a GPADL or a channel timed out

hostVars == <<host_versions, host_slow, host_version, host_gpadls, host_open, unsolicited>>
vmbusVars == <<attempt, version, offers, all_delivered>>
gpadlVars == <<buffer, gpadl, described, next_gpadl>>
vars == <<hostVars, requests, inbox, pc, vmbusVars, probe, gpadlVars, channels, gave_up>>
-----------------------------------------------------------------------------
Versions == <<"WIN10", "WIN8_1">>

max_pfns_in_header == (240 - 28) \div 8

max_pfns_per_body == (240 - 16) \div 8

LesserOf(m, n) == IF m < n THEN m ELSE n

Pages(b) == IF b = "ring" THEN RingPages ELSE BufPages

(* build_pfn_list, pfn_list: consecutive page frames; the frames of pages  *)
(* first to first+n-1 of a buffer                                          *)
build_pfn_list(first, n) == [i \in 1..n |-> first + i - 1]

(* find_offer: the first offer with the device's GUID *)
find_offer(type) ==
  LET found == {i \in DOMAIN offers : offers[i].type = type}
  IN offers[CHOOSE i \in found : \A j \in found : i <= j]

Relids == {HostOffers[i].relid : i \in DOMAIN HostOffers}
Handles == 1..(3 * Len(HostOffers))
NoGpadl == [count |-> 0, pfns |-> << >>, created |-> FALSE]

Init ==
  /\ host_versions \in SUBSET {"WIN10", "WIN8_1"} /\ host_version = "none"
  /\ host_slow \in BOOLEAN
  /\ host_gpadls = [h \in Handles |-> NoGpadl]
  /\ host_open = [r \in Relids |-> 0]
  /\ requests = << >> /\ inbox = << >> /\ unsolicited = 0
  /\ pc = "try_version" /\ attempt = 1 /\ version = "none"
  /\ offers = << >> /\ all_delivered = FALSE
  /\ probe = 0 /\ buffer = "ring" /\ gpadl = 0 /\ described = 0 /\ next_gpadl = 1
  /\ channels = {} /\ gave_up = FALSE
-----------------------------------------------------------------------------
(* post_message: the host has the message, or the call fails, after its    *)
(* retries or at once, and the caller returns the error.                   *)
post_message(m, next, onErr) ==
  \/ requests' = Append(requests, m) /\ pc' = next
  \/ PostsFail /\ requests' = requests /\ pc' = onErr

(* wait_for_match: one message is taken off the FIFO and acked, whether it *)
(* is of the type waited for or not; the deadline counts only when there   *)
(* is none.                                                                *)
Matches(type) == inbox # << >> /\ Head(inbox).type = type /\ inbox' = Tail(inbox)
Discards(types) ==
  /\ inbox # << >> /\ Head(inbox).type \notin types
  /\ inbox' = Tail(inbox) /\ pc' = pc
TimesOut == host_slow /\ inbox = << >> /\ inbox' = inbox

(* connect: try_version for each version *)
try_version ==
  /\ pc = "try_version"
  /\ post_message([type |-> "INITIATE_CONTACT", version |-> Versions[attempt]],
                  "wait_version", "failed")
  /\ UNCHANGED <<hostVars, inbox, vmbusVars, probe, gpadlVars, channels, gave_up>>

Mutant_connect_retry ==
  /\ Matches("VERSION_RESPONSE")
  /\ attempt' = attempt
  /\ IF Head(inbox).supported
       THEN version' = Versions[attempt] /\ pc' = "request_offers"
       ELSE version' = version /\ pc' = "try_version"

(* The next version is tried only after VersionRejected *)
connect ==
  /\ Matches("VERSION_RESPONSE")
  /\ IF Head(inbox).supported
       THEN version' = Versions[attempt] /\ attempt' = attempt /\ pc' = "request_offers"
       ELSE /\ version' = version /\ attempt' = LesserOf(attempt + 1, Len(Versions))
            /\ pc' = IF attempt < Len(Versions) THEN "try_version" ELSE "failed"

WaitVersion ==
  /\ pc = "wait_version"
  /\ \/ connect
     \/ Discards({"VERSION_RESPONSE"}) /\ UNCHANGED <<version, attempt>>
     \/ TimesOut /\ pc' = "failed" /\ UNCHANGED <<version, attempt>>
  /\ UNCHANGED <<hostVars, requests, offers, all_delivered, probe, gpadlVars, channels, gave_up>>

request_offers ==
  /\ pc = "request_offers"
  /\ post_message([type |-> "REQUEST_OFFERS"], "wait_offers", "failed")
  /\ UNCHANGED <<hostVars, inbox, vmbusVars, probe, gpadlVars, channels, gave_up>>

(* The matcher collects offers and goes on waiting *)
collect_offer ==
  /\ Matches("OFFERCHANNEL")
  /\ offers' = Append(offers, Head(inbox).offer)
  /\ UNCHANGED <<pc, all_delivered>>

(* On a timeout the offers collected so far are used, if there are any *)
WaitOffers ==
  /\ pc = "wait_offers"
  /\ \/ collect_offer
     \/ Matches("ALLOFFERS_DELIVERED") /\ pc' = "probe" /\ all_delivered' = TRUE
        /\ UNCHANGED offers
     \/ Discards({"OFFERCHANNEL", "ALLOFFERS_DELIVERED"}) /\ UNCHANGED <<offers, all_delivered>>
     \/ TimesOut /\ pc' = (IF offers # << >> THEN "probe" ELSE "failed")
        /\ UNCHANGED <<offers, all_delivered>>
  /\ UNCHANGED <<hostVars, requests, attempt, version, probe, gpadlVars, channels, gave_up>>
-----------------------------------------------------------------------------
(* alloc_gpadl_handle for the next buffer of the device *)
StartGpadl(b) ==
  /\ buffer' = b /\ gpadl' = next_gpadl /\ next_gpadl' = next_gpadl + 1
  /\ described' = 0 /\ pc' = "gpadl_header"

(* probe_all takes the next offer; NetvscDevice::init opens a channel.     *)
(* NetvscDriver::probe does not pass its offer on: init looks one up.      *)
probe_next ==
  /\ pc = "probe"
  /\ IF probe = Len(offers)
       THEN pc' = "done" /\ UNCHANGED <<probe, gpadlVars>>
       ELSE /\ probe' = probe + 1
            /\ IF offers[probe + 1].type = "netvsc"
                 THEN StartGpadl("ring")
                 ELSE pc' = pc /\ UNCHANGED gpadlVars
  /\ UNCHANGED <<hostVars, requests, inbox, vmbusVars, channels, gave_up>>

DescribePages(type, n) ==
  /\ post_message([type |-> type, handle |-> gpadl, count |-> Pages(buffer),
                   pfns |-> build_pfn_list(described + 1, n)],
                  IF described + n < Pages(buffer) THEN "gpadl_body" ELSE "wait_gpadl",
                  "probe")
  /\ described' = described + n
  /\ UNCHANGED <<hostVars, inbox, vmbusVars, probe, buffer, gpadl, next_gpadl, channels, gave_up>>

(* create_gpadl: a header with the first page frames, bodies with the rest *)
gpadl_header ==
  /\ pc = "gpadl_header"
  /\ DescribePages("GPADL_HEADER", LesserOf(Pages(buffer), max_pfns_in_header))

gpadl_body ==
  /\ pc = "gpadl_body"
  /\ DescribePages("GPADL_BODY", LesserOf(Pages(buffer) - described, max_pfns_per_body))

Mutant_WaitGpadl ==
  /\ pc = "wait_gpadl"
  /\ pc' = IF buffer = "ring" THEN "open_channel" ELSE "netvsc_init"
  /\ UNCHANGED <<hostVars, requests, inbox, vmbusVars, probe, gpadlVars, channels, gave_up>>

(* Any GPADL_CREATED will do: its handle is not looked at *)
WaitGpadl ==
  /\ pc = "wait_gpadl"
  /\ \/ /\ Matches("GPADL_CREATED")
        /\ pc' = IF Head(inbox).status # 0 THEN "probe"
                 ELSE IF buffer = "ring" THEN "open_channel" ELSE "netvsc_init"
     \/ Discards({"GPADL_CREATED"})
     \/ TimesOut /\ pc' = "probe"
  /\ gave_up' = (gave_up \/ inbox = << >>)
  /\ UNCHANGED <<hostVars, requests, vmbusVars, probe, gpadlVars, channels>>

open_channel_msg ==
  /\ pc = "open_channel"
  /\ post_message([type |-> "OPENCHANNEL", relid |-> find_offer("netvsc").relid,
                   handle |-> gpadl], "wait_open", "probe")
  /\ UNCHANGED <<hostVars, inbox, vmbusVars, probe, gpadlVars, channels, gave_up>>

(* Any OPENCHANNEL_RESULT will do: its relid is not looked at *)
open_channel ==
  /\ Matches("OPENCHANNEL_RESULT")
  /\ IF Head(inbox).status = 0
       THEN /\ pc' = "netvsc_init"
            /\ channels' = channels \cup
                 {[relid |-> find_offer("netvsc").relid, handle |-> gpadl]}
       ELSE pc' = "probe" /\ UNCHANGED channels

WaitOpen ==
  /\ pc = "wait_open"
  /\ \/ open_channel
     \/ Discards({"OPENCHANNEL_RESULT"}) /\ UNCHANGED channels
     \/ TimesOut /\ pc' = "probe" /\ UNCHANGED channels
  /\ gave_up' = (gave_up \/ inbox = << >>)
  /\ UNCHANGED <<hostVars, requests, vmbusVars, probe, gpadlVars>>

(* NetvscDevice::init between and after its GPADLs, on the open channel *)
netvsc_init ==
  /\ pc = "netvsc_init"
  /\ \/ buffer = "ring" /\ StartGpadl("recv_buf")
     \/ buffer = "recv_buf" /\ StartGpadl("send_buf")
     \/ pc' = "probe" /\ UNCHANGED gpadlVars
  /\ UNCHANGED <<hostVars, requests, inbox, vmbusVars, probe, channels, gave_up>>
-----------------------------------------------------------------------------
(* The host handles the oldest request and answers it.                     *)
HostOffer(i) == [type |-> "OFFERCHANNEL", offer |-> HostOffers[i]]
AllOffers == Append([i \in DOMAIN HostOffers |-> HostOffer(i)], [type |-> "ALLOFFERS_DELIVERED"])

HostContact(m) ==
  LET ok == m.version \in host_versions
  IN /\ inbox' = Append(inbox, [type |-> "VERSION_RESPONSE", supported |-> ok])
     /\ host_version' = IF ok THEN m.version ELSE host_version
     /\ UNCHANGED <<host_gpadls, host_open>>

HostSendsOffers ==
  inbox' = inbox \o AllOffers /\ UNCHANGED <<host_version, host_gpadls, host_open>>

(* Header and bodies add page frames; the last one is answered *)
HostGpadl(m) ==
  LET pfns == host_gpadls[m.handle].pfns \o m.pfns
      Answer(status) == Append(inbox, [type |-> "GPADL_CREATED", handle |-> m.handle,
                                       status |-> status])
  IN /\ \/ /\ Len(pfns) >= m.count
           /\ \E status \in {0, 1} :
                /\ inbox' = Answer(status)
                /\ host_gpadls' = [host_gpadls EXCEPT ![m.handle] =
                     [count |-> m.count, pfns |-> pfns, created |-> status = 0]]
        \/ /\ Len(pfns) < m.count
           /\ inbox' = inbox
           /\ host_gpadls' = [host_gpadls EXCEPT ![m.handle] =
                [count |-> m.count, pfns |-> pfns, created |-> FALSE]]
     /\ UNCHANGED <<host_version, host_open>>

(* A channel is opened once, on a ring the host knows *)
HostOpens(m) ==
  LET ok == host_open[m.relid] = 0 /\ host_gpadls[m.handle].created
  IN /\ inbox' = Append(inbox, [type |-> "OPENCHANNEL_RESULT", relid |-> m.relid,
                                status |-> IF ok THEN 0 ELSE 1])
     /\ host_open' = IF ok THEN [host_open EXCEPT ![m.relid] = m.handle] ELSE host_open
     /\ UNCHANGED <<host_version, host_gpadls>>

Host ==
  /\ requests # << >>
  /\ requests' = Tail(requests)
  /\ LET m == Head(requests)
     IN \/ m.type = "INITIATE_CONTACT" /\ HostContact(m)
        \/ m.type = "REQUEST_OFFERS" /\ HostSendsOffers
        \/ m.type \in {"GPADL_HEADER", "GPADL_BODY"} /\ HostGpadl(m)
        \/ m.type = "OPENCHANNEL" /\ HostOpens(m)
  /\ UNCHANGED <<host_versions, host_slow, unsolicited, pc, vmbusVars, probe,
                 gpadlVars, channels, gave_up>>

HostUnsolicited ==
  /\ unsolicited < MaxUnsolicited /\ unsolicited' = unsolicited + 1
  /\ inbox' = Append(inbox, [type |-> "RESCIND_CHANNELOFFER"])
  /\ UNCHANGED <<host_versions, host_slow, host_version, host_gpadls, host_open, requests,
                 pc, vmbusVars, probe, gpadlVars, channels, gave_up>>
-----------------------------------------------------------------------------
Guest ==
  \/ try_version \/ WaitVersion \/ request_offers \/ WaitOffers \/ probe_next
  \/ gpadl_header \/ gpadl_body \/ WaitGpadl \/ open_channel_msg \/ WaitOpen
  \/ netvsc_init

Finished == pc \in {"done", "failed"} /\ UNCHANGED vars

Next == Guest \/ Host \/ HostUnsolicited \/ Finished

Spec == Init /\ [][Next]_vars

(* block_on_hlt polls each wait again at every timer interrupt, and the    *)
(* host answers every request some time.                                   *)
FairSpec == Spec /\ WF_vars(Guest) /\ WF_vars(Host)
-----------------------------------------------------------------------------
MessageTypes ==
  {"INITIATE_CONTACT", "REQUEST_OFFERS", "GPADL_HEADER", "GPADL_BODY", "OPENCHANNEL",
   "VERSION_RESPONSE", "OFFERCHANNEL", "ALLOFFERS_DELIVERED", "GPADL_CREATED",
   "OPENCHANNEL_RESULT", "RESCIND_CHANNELOFFER"}

(* Types of the messages and of the guest's state: never more pages are    *)
(* described than the buffer has, and a handle is never used twice.        *)
TypeOK ==
  /\ \A i \in DOMAIN requests : requests[i].type \in MessageTypes
  /\ \A i \in DOMAIN inbox : inbox[i].type \in MessageTypes
  /\ version \in {"none", "WIN10", "WIN8_1"} /\ attempt \in DOMAIN Versions
  /\ probe \in 0..Len(offers) /\ next_gpadl \in 1..(Len(HostOffers) * 3 + 1)
  /\ described \in 0..Pages(buffer)
  /\ host_slow \in BOOLEAN /\ gave_up \in BOOLEAN
  /\ channels \subseteq [relid : Relids, handle : Handles]

(* connect: the version VmBus records is the one the host last agreed to,  *)
(* and the first of the list that the host accepts.                        *)
VersionAgreed ==
  version # "none" =>
    /\ version = host_version
    /\ \A i \in 1..(attempt - 1) : Versions[i] \notin host_versions

(* request_offers: the device list is the beginning of the host's, all of  *)
(* it unless the wait timed out, and it does not change while devices are  *)
(* probed.                                                                 *)
OffersFaithful ==
  /\ Len(offers) <= Len(HostOffers)
  /\ offers = SubSeq(HostOffers, 1, Len(offers))
  /\ all_delivered => offers = HostOffers

(* create_gpadl: whatever the number of messages, the host has been told   *)
(* every page of the buffer once and in order when it creates the GPADL.   *)
GpadlComplete ==
  \A h \in Handles : host_gpadls[h].created =>
    host_gpadls[h].pfns = build_pfn_list(1, host_gpadls[h].count)

(* open_channel, "Channel opened successfully": the host reads and writes  *)
(* the ring of every channel the guest holds open, as long as no wait for  *)
(* an earlier answer was given up.                                         *)
OpenMeansOpened == ~gave_up => \A c \in channels : host_open[c.relid] = c.handle

(* Answers carry no request id the code checks, so they must arrive in     *)
(* step: the answer a wait takes is the answer to the request just posted. *)
(* They do as long as no wait was given up before its answer came.         *)
AnswersInStep ==
  inbox # << >> /\ ~gave_up =>
    /\ pc = "wait_gpadl" /\ Head(inbox).type = "GPADL_CREATED" => Head(inbox).handle = gpadl
    /\ pc = "wait_open" /\ Head(inbox).type = "OPENCHANNEL_RESULT" =>
         Head(inbox).relid = find_offer("netvsc").relid
    /\ pc \in {"gpadl_header", "open_channel"} =>
         Head(inbox).type \notin {"GPADL_CREATED", "OPENCHANNEL_RESULT"}

(* Boot does not hang: every wait ends, so init and the probes do, by its  *)
(* deadline when the host is slow, and without one when it is prompt.      *)
BootFinishes == <>(pc \in {"done", "failed"})

(* What the guest and the host believe of each other agrees: the version,  *)
(* the device list, and the pages of every GPADL, on every path through    *)
(* retries, late answers and failed hypercalls.                            *)
GuestKnows == TypeOK /\ VersionAgreed /\ OffersFaithful /\ GpadlComplete

(* Requests and answers keep in step although no id is compared, so that a *)
(* channel that open_channel returned is open on the host's side too; both *)
(* hold as long as no wait was given up.                                   *)
InStep == AnswersInStep /\ OpenMeansOpened

(* The boot protocol: guest and host agree on what they know of each       *)
(* other, and requests and answers keep in step.                           *)
BootInv == GuestKnows /\ InStep
=============================================================================
