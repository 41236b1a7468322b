------------------------------ MODULE Synthvid ------------------------------
(***************************************************************************)
(* The synthetic video device (crates/embclox-hyperv/src/synthvid.rs): the *)
(* version is negotiated, the host is told where the VRAM is and what is   *)
(* on it, and dirty rectangles make it look at the VRAM again.  The driver *)
(* waits twice, and takes the next packet for the answer whatever it is;   *)
(* between the stages it drains the receive ring.  The rings are FIFOs     *)
(* (module VmbusRing), of which the receive ring does not fill up; opening *)
(* the channel is part of module VmbusBoot.  The host is external: it may  *)
(* answer late and send messages of its own.  The model ends at the VRAM   *)
(* as the host reads it.  What the host puts on a display is not modelled: *)
(* docs/design/vmbus.md reports that the display of a Gen2 machine stays   *)
(* black although the host accepts every message.                          *)
(***************************************************************************)
EXTENDS Naturals, Sequences, TLC

CONSTANTS Width, Height,   \* the resolution, in pixels
          HostVersions,    \* the newest version a host accepts, one per host
          Rects,           \* the rectangles the program reports: <<x, y, w, h>>
          MaxStray,        \* bound on the host's messages of its own
          SendRoom         \* messages the send ring holds

ASSUME ResolutionAssumption == Width \in Nat \ {0} /\ Height \in Nat \ {0}

VARIABLES
  pc, ver,                 \* the driver's next step; index of the version tried
  region,                  \* the VRAM: "gop" (existing framebuffer) or "heap"
  bytes,                   \* the offsets in it that put_pixel has written
  recv, send,              \* the channel's rings, host to guest and back
  taken,                   \* the packet the last wait took for its answer
  host_max, host_version, host_vram, host_pitch, strays,
  found,                   \* the pixels the host has found in the VRAM
  drawn                    \* history: the pixels of the screen drawn so far

driver == <<pc, ver, region, bytes, drawn>>
host == <<host_max, host_version, host_vram, host_pitch, found>>
vars == <<driver, recv, send, taken, host, strays>>
-----------------------------------------------------------------------------
Versions == <<35, 32>>     \* SYNTHVID_VERSION_WIN10, SYNTHVID_VERSION_WIN8
None == [type |-> "none"]
NoVram == "unknown"

Init ==
  /\ pc = "start" /\ ver = 1 /\ region = NoVram /\ bytes = {} /\ drawn = {}
  /\ recv = <<>> /\ send = <<>> /\ taken = None
  /\ host_max \in HostVersions /\ host_version = 0 /\ host_vram = NoVram
  /\ host_pitch = 0 /\ strays = 0 /\ found = {}

(* How far the driver has come: messages the host sends carry the stage in *)
(* which they arrive.                                                      *)
Stage ==
  IF pc \in {"start", "negotiate", "negotiate_wait", "negotiated"} THEN "version"
  ELSE IF pc \in {"vram", "vram_wait", "located"} THEN "vram" ELSE "picture"
-----------------------------------------------------------------------------
(* init_display: without an offer the machine is headless; opening the     *)
(* channel may fail.  init: the framebuffer of the firmware is used when   *)
(* its two addresses are known, else VRAM is allocated.                    *)
init_display ==
  /\ pc = "start"
  /\ \/ pc' \in {"headless", "failed"} /\ UNCHANGED region
     \/ pc' = "negotiate" /\ region' \in {"gop", "heap"}
  /\ UNCHANGED <<ver, bytes, drawn, recv, send, taken, host, strays>>

(* send_raw: an error when the ring is full *)
HasRoom == Len(send) < SendRoom
send_raw(m, then) ==
  /\ send' = IF HasRoom THEN Append(send, m) ELSE send
  /\ pc' = IF HasRoom THEN then ELSE "failed"

(* recv_with_timeout: the next packet, whatever it is; the wait is over    *)
(* when the ring stays empty.                                              *)
TakeNext ==
  recv # <<>> /\ recv' = Tail(recv) /\ taken' = [wait |-> Stage] @@ Head(recv)

timeout ==
  /\ pc \in {"negotiate_wait", "vram_wait"} /\ recv = <<>>
  /\ pc' = "failed" /\ taken' = None
  /\ UNCHANGED <<ver, region, bytes, drawn, recv, send, host, strays>>

Mutant_drain_recv ==
  /\ \/ pc = "negotiated" /\ pc' = "vram"
     \/ pc = "located" /\ pc' = "situation"
     \/ pc = "situated" /\ pc' = "dirt"
     \/ pc = "reported" /\ pc' = "ready"
  /\ taken' = None
  /\ UNCHANGED <<ver, region, bytes, drawn, recv, send, host, strays>>

(* drain_recv, after each of the four stages of init: what arrives within  *)
(* its 10 ms is discarded.                                                 *)
drain_recv ==
  /\ \/ pc = "negotiated" /\ pc' = "vram"
     \/ pc = "located" /\ pc' = "situation"
     \/ pc = "situated" /\ pc' = "dirt"
     \/ pc = "reported" /\ pc' = "ready"
  /\ recv' = <<>> /\ taken' = None
  /\ UNCHANGED <<ver, region, bytes, drawn, send, host, strays>>

negotiate_send ==
  /\ pc = "negotiate"
  /\ send_raw([type |-> "version_request", version |-> Versions[ver]], "negotiate_wait")
  /\ UNCHANGED <<ver, region, bytes, drawn, recv, taken, host, strays>>

(* A rejection and an unexpected packet both lead to the next version.  An *)
(* acceptance is not compared with the version that was asked for.         *)
negotiate_recv ==
  /\ pc = "negotiate_wait" /\ TakeNext
  /\ IF Head(recv).type = "version_response" /\ Head(recv).ok
       THEN pc' = "negotiated" /\ UNCHANGED ver
     ELSE IF ver < Len(Versions) THEN pc' = "negotiate" /\ ver' = ver + 1
     ELSE pc' = "failed" /\ UNCHANGED ver
  /\ UNCHANGED <<region, bytes, drawn, send, host, strays>>

set_vram_location ==
  /\ pc = "vram"
  /\ send_raw([type |-> "vram_location", gpa |-> region], "vram_wait")
  /\ UNCHANGED <<ver, region, bytes, drawn, recv, taken, host, strays>>

vram_location_ack ==
  /\ pc = "vram_wait" /\ TakeNext
  /\ pc' = IF Head(recv).type = "vram_location_ack" THEN "located" ELSE "failed"
  /\ UNCHANGED <<ver, region, bytes, drawn, send, host, strays>>

Mutant_set_situation ==
  /\ pc = "situation"
  /\ send_raw([type |-> "situation", pitch |-> Width], "situated")
  /\ UNCHANGED <<ver, region, bytes, drawn, recv, taken, host, strays>>

(* The pitch is in bytes: four for each pixel of a row. *)
set_situation ==
  /\ pc = "situation"
  /\ send_raw([type |-> "situation", pitch |-> Width * 4], "situated")
  /\ UNCHANGED <<ver, region, bytes, drawn, recv, taken, host, strays>>

Dirt(r) == [type |-> "dirt", x1 |-> r[1], y1 |-> r[2], x2 |-> r[1] + r[3], y2 |-> r[2] + r[4]]

(* dirt_full: the last message of init *)
dirt_full ==
  /\ pc = "dirt" /\ send_raw(Dirt(<<0, 0, Width, Height>>), "reported")
  /\ UNCHANGED <<ver, region, bytes, drawn, recv, taken, host, strays>>

(* The program draws (pixels off the screen are ignored) ...               *)
stride == Width
OnScreen(x, y) == x < Width /\ y < Height

put_pixel(x, y) ==
  /\ pc = "ready"
  /\ bytes' = IF OnScreen(x, y) THEN bytes \cup {(y * stride + x) * 4} ELSE bytes
  /\ drawn' = IF OnScreen(x, y) THEN drawn \cup {<<x, y>>} ELSE drawn
  /\ UNCHANGED <<pc, ver, region, recv, send, taken, host, strays>>

(* ... and reports what it has drawn; its call fails when the ring is full. *)
dirty_rect(r) ==
  /\ pc = "ready"
  /\ send' = IF HasRoom THEN Append(send, Dirt(r)) ELSE send
  /\ UNCHANGED <<driver, recv, taken, host, strays>>
-----------------------------------------------------------------------------
Deliver(m) == recv' = Append(recv, [sent |-> Stage] @@ m)

(* The host answers a version request and the location of the VRAM, ... *)
HostAnswers ==
  /\ send # <<>> /\ send' = Tail(send)
  /\ LET m == Head(send) IN
       \/ /\ m.type = "version_request"
          /\ Deliver([type |-> "version_response", ok |-> m.version <= host_max])
          /\ host_version' = IF m.version <= host_max THEN m.version ELSE host_version
          /\ UNCHANGED host_vram
       \/ /\ m.type = "vram_location"
          /\ Deliver([type |-> "vram_location_ack"])
          /\ host_vram' = m.gpa /\ UNCHANGED host_version
  /\ UNCHANGED <<driver, taken, host_max, host_pitch, found, strays>>

(* The pixels of rectangle d as the host finds them in the VRAM it was told of *)
Look(d, pitch) ==
  {p \in (d.x1 .. d.x2 - 1) \X (d.y1 .. d.y2 - 1) :
     OnScreen(p[1], p[2]) /\ host_vram = region /\ p[2] * pitch + p[1] * 4 \in bytes}

(* ... and reads, once there is a situation, what is reported as dirty. *)
HostReads ==
  /\ send # <<>> /\ send' = Tail(send)
  /\ LET m == Head(send) IN
       \/ m.type = "situation" /\ host_pitch' = m.pitch /\ UNCHANGED found
       \/ /\ m.type = "dirt" /\ UNCHANGED host_pitch
          /\ found' = IF host_pitch = 0 THEN found ELSE found \cup Look(m, host_pitch)
  /\ UNCHANGED <<driver, recv, taken, host_max, host_version, host_vram, strays>>

(* It has messages of its own (a change of features, for one). *)
HostSends ==
  /\ strays < MaxStray /\ strays' = strays + 1
  /\ pc \notin {"start", "headless", "failed", "ready"}
  /\ Deliver([type |-> "feature_change"])
  /\ UNCHANGED <<driver, send, taken, host>>

InitStep ==
  \/ init_display \/ timeout \/ drain_recv \/ negotiate_send \/ negotiate_recv
  \/ set_vram_location \/ vram_location_ack \/ set_situation \/ dirt_full

Program == \/ \E x \in 0 .. Width, y \in 0 .. Height : put_pixel(x, y)
           \/ \E r \in Rects : dirty_rect(r)

Over == pc \in {"headless", "failed"}

Next == InitStep \/ Program \/ HostAnswers \/ HostReads \/ HostSends
        \/ (Over /\ UNCHANGED vars)

Spec == Init /\ [][Next]_vars

(* init runs on and the host reads its ring, in time or not; the program   *)
(* need not draw anything.                                                 *)
FairSpec == Spec /\ WF_vars(InitStep) /\ WF_vars(HostAnswers \/ HostReads)
-----------------------------------------------------------------------------
TypeOK ==
  /\ ver \in 1 .. Len(Versions) /\ region \in {NoVram, "gop", "heap"}
  /\ Len(send) <= SendRoom /\ strays \in 0 .. MaxStray
  /\ bytes \subseteq 0 .. Width * Height * 4 - 4

(* What a wait takes has arrived in the same stage: a message that lay in  *)
(* the ring when the negotiation ended is never taken for the answer to    *)
(* the VRAM location (drain_recv between the stages).  A message that      *)
(* arrives after the drain counts for the later stage, late answer or not; *)
(* vram_location_ack then fails on its type.                               *)
NothingLeftOver == taken # None => taken.sent = taken.wait

(* init fails only when the host accepts neither version, a wait times     *)
(* out, the channel cannot be opened, or the host sent a message of its    *)
(* own that a wait took.                                                   *)
FailsForAReason ==
  pc = "failed" /\ taken # None =>
    strays > 0 \/ \A v \in 1 .. Len(Versions) : Versions[v] > host_max

(* The host has the version and the VRAM before it hears of a picture.     *)
HostPrepared ==
  (pc = "ready" \/ host_pitch # 0) =>
    host_version # 0 /\ host_vram = region /\ region # NoVram

(* The host finds a pixel only where the program has drawn one: offsets of *)
(* put_pixel and the pitch of set_situation agree.                         *)
PictureIsTrue == found \subseteq drawn

(* The display protocol, whatever the host's timing: no leftover message   *)
(* is taken for an answer, init fails only for a reason, the host is       *)
(* prepared for the picture, and finds only what was drawn.                *)
DisplayInv ==
  TypeOK /\ NothingLeftOver /\ FailsForAReason /\ HostPrepared /\ PictureIsTrue

Reported(p) ==
  \E i \in DOMAIN send :
    /\ send[i].type = "dirt" /\ p[1] \in send[i].x1 .. send[i].x2 - 1
    /\ p[2] \in send[i].y1 .. send[i].y2 - 1

(* init comes to an end, and the host finds, in the VRAM it was told of    *)
(* and at the pitch it was told, each pixel that put_pixel has drawn and   *)
(* dirty_rect has reported.                                                *)
PictureReported ==
  /\ <>(Over \/ pc = "ready")
  /\ \A p \in (0 .. Width - 1) \X (0 .. Height - 1) :
       (p \in drawn /\ Reported(p)) ~> p \in found
=============================================================================
