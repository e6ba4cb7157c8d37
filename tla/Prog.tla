-------------------------------- MODULE Prog --------------------------------
(****************************************************************************)
(* main/services/prog.c and the dispatcher of usb_bridge.c that calls it: a *)
(* configuration is staged by WRITE, made active and saved by COMMIT, and   *)
(* read back by READ, over a stream of USB packets some of which are lost   *)
(* when s_usb_rx_queue is full.                                             *)
(*                                                                          *)
(* A command or a CAN frame of the host is one packet; a WRITE is two, one  *)
(* with the header and the matrix and one with the column properties and    *)
(* the end mark.  No other part of a payload is taken for a frame of the    *)
(* programming protocol or for an end mark, but it may be taken for the     *)
(* start of a CAN frame, which then swallows what follows.                  *)
(*                                                                          *)
(* The host is external: it sends one command at a time, compares the echo  *)
(* of a WRITE with what it sent before it sends COMMIT, and repeats COMMIT  *)
(* when no answer can come any more.  NVS is external: a blob is written as *)
(* a whole or not at all.                                                   *)
(****************************************************************************)
EXTENDS Naturals, Sequences

CONSTANTS Upload,               \* configurations the host may upload
          Factory,              \* the configuration of zeros
          NoUpload,
          USB_RX_QUEUE_DEPTH    \* 8 in the firmware

ASSUME DepthAssumption == USB_RX_QUEUE_DEPTH \in Nat \ {0}

Half   == Upload \cup {Factory}
Config == [matrix : Half, props : Half]
Whole(u) == [matrix |-> u, props |-> u]

ASSUME UploadAssumption ==
    Factory \notin Upload /\ NoUpload \notin Half \cup Config

Command == {"commit", "abort", "read"}
Packet  == ({"open", "close"} \X Upload) \cup ((Command \cup {"can"}) \X {NoUpload})
Reply   == ({"write"} \X Config) \cup (Command \X {NoUpload})
NoReply == <<"none", NoUpload>>

VARIABLES s_usb_rx_queue,
          pc,          \* where usb_to_can_task is
          part,        \* the first half of a payload, NoUpload if shifted
          staged,      \* s_stage_matrix and s_stage_props if s_has_staged
          active,      \* s_matrix and s_col_props
          flash,       \* the two blobs in NVS
          live,        \* what can_latest_configure() last read
          reply,       \* the frame on its way to the host
          host,        \* what the host does
          want,        \* the upload it is about
          acked,       \* the last upload whose COMMIT was acknowledged
          unsaved      \* a save failed since a save succeeded

device  == <<pc, part, staged, active, live>>
outside == <<host, want, acked>>
vars    == <<s_usb_rx_queue, device, flash, reply, outside, unsaved>>

Init ==
    /\ s_usb_rx_queue = <<>> /\ pc = "idle" /\ part = NoUpload
    /\ staged = NoUpload
    /\ active = Whole(Factory) /\ flash = active /\ live = active
    /\ reply = NoReply /\ host = "ready" /\ want = NoUpload
    /\ acked = NoUpload /\ unsaved = FALSE

------------------------------------------------------------------------------
(* The host, and usbd_cdc_acm_bulk_out(), which drops a packet when the     *)
(* queue is full.                                                           *)

Sent(packet) ==
    s_usb_rx_queue' = IF Len(s_usb_rx_queue) < USB_RX_QUEUE_DEPTH
                      THEN Append(s_usb_rx_queue, packet)
                      ELSE s_usb_rx_queue

InQueue(p) == \E i \in 1..Len(s_usb_rx_queue) : s_usb_rx_queue[i] = p

(* An echo of u, or of a part of it, may still come.                        *)
EchoMayCome(u) ==
    \/ InQueue(<<"open", u>>) \/ InQueue(<<"close", u>>) \/ part = u
    \/ pc = "echo" /\ u \in {staged.matrix, staged.props}
    \/ reply[1] = "write" /\ u \in {reply[2].matrix, reply[2].props}

HostWrite(u) ==
    /\ host = "ready" /\ ~EchoMayCome(u)
    /\ Sent(<<"open", u>>)
    /\ host' = "half" /\ want' = u
    /\ UNCHANGED <<device, flash, reply, acked, unsaved>>

HostWriteRest ==
    /\ host = "half"
    /\ Sent(<<"close", want>>)
    /\ host' = "wrote"
    /\ UNCHANGED <<device, flash, reply, want, acked, unsaved>>

(* It gives up on an echo at any time.                                      *)
HostGivesUp ==
    /\ host = "wrote"
    /\ host' = "ready" /\ want' = NoUpload
    /\ UNCHANGED <<s_usb_rx_queue, device, flash, reply, acked, unsaved>>

(* What it makes of the answer to an ABORT or a READ does not matter here.  *)
HostAsks(c) ==
    /\ c \in {"abort", "read"} /\ host \in {"ready", "echoed"}
    /\ Sent(<<c, NoUpload>>)
    /\ host' = "ready" /\ want' = NoUpload
    /\ UNCHANGED <<device, flash, reply, acked, unsaved>>

HandlesCommit == pc \in {"commit", "open", "matrix", "props", "ack", "nothing"}

AckMayCome ==
    InQueue(<<"commit", NoUpload>>) \/ HandlesCommit \/ reply[1] = "commit"

HostCommits ==
    /\ host \in {"echoed", "committing"} /\ ~AckMayCome
    /\ Sent(<<"commit", NoUpload>>)
    /\ host' = "committing"
    /\ UNCHANGED <<device, flash, reply, want, acked, unsaved>>

(* Another program on the host sends a CAN frame through the bridge.        *)
HostSendsCan ==
    /\ host # "half"
    /\ Sent(<<"can", NoUpload>>)
    /\ UNCHANGED <<device, flash, reply, outside, unsaved>>

HostReads ==
    /\ reply # NoReply
    /\ reply' = NoReply
    /\ host' = IF host = "committing" /\ reply[1] = "commit" THEN "ready"
               ELSE IF host = "wrote" /\ reply = <<"write", Whole(want)>>
                    THEN "echoed"
               ELSE IF host = "wrote" /\ reply[1] = "write" THEN "ready"
               ELSE host
    /\ acked' = IF host = "committing" /\ reply[1] = "commit" THEN want
                ELSE acked
    /\ want' = IF host' = "ready" THEN NoUpload ELSE want
    /\ UNCHANGED <<s_usb_rx_queue, device, flash, unsaved>>

------------------------------------------------------------------------------
(* usb_to_can_task takes the next packet.                                   *)

Takes(packet) ==
    /\ s_usb_rx_queue # <<>> /\ packet = Head(s_usb_rx_queue)
    /\ s_usb_rx_queue' = Tail(s_usb_rx_queue)
    /\ UNCHANGED <<active, live, flash, reply, outside, unsaved>>

(* Bytes nobody expects are skipped up to the next 0xBB or 0x55; a 0x55     *)
(* among them starts a CAN frame.                                           *)
Scanned == pc' \in {"idle", "canframe"} /\ part' = NoUpload

DispatchCommand ==
    /\ pc = "idle"
    /\ \E c \in Command : Takes(<<c, NoUpload>>) /\ pc' = c
    /\ UNCHANGED <<part, staged>>

DispatchWrite ==
    /\ pc = "idle"
    /\ \E u \in Upload : Takes(<<"open", u>>) /\ part' = u
    /\ pc' = "payload"
    /\ UNCHANGED staged

(* Variant: a CAN frame discards what is staged.                            *)
DispatchCanDiscards ==
    /\ pc = "idle" /\ Takes(<<"can", NoUpload>>)
    /\ staged' = NoUpload
    /\ UNCHANGED <<pc, part>>

(* can_service_send() of a frame of the host.                               *)
DispatchCan ==
    /\ pc = "idle" /\ Takes(<<"can", NoUpload>>)
    /\ UNCHANGED <<pc, part, staged>>

DispatchNoise ==
    /\ pc = "idle"
    /\ \E u \in Upload : Takes(<<"close", u>>)
    /\ Scanned
    /\ UNCHANGED staged

(* What was taken for a CAN frame swallows the start of the next packet.    *)
Swallow ==
    /\ pc = "canframe"
    /\ \E p \in Packet : Takes(p)
    /\ Scanned
    /\ UNCHANGED staged

(* handle_write(): the other half.  It may be that of another upload.       *)
RestOfPayload ==
    /\ pc = "payload" /\ part # NoUpload
    /\ \E u \in Upload :
          /\ Takes(<<"close", u>>)
          /\ staged' = [matrix |-> part, props |-> u]
    /\ pc' = "echo" /\ part' = NoUpload

(* Something else follows: the rest of the payload is shifted, and sooner   *)
(* or later its end mark is not in its place.                               *)
Garbled ==
    /\ pc = "payload"
    /\ \E p \in Packet : /\ Takes(p)
                         /\ part = NoUpload \/ p[1] # "close"
    /\ \/ pc' = pc /\ part' = NoUpload /\ UNCHANGED staged
       \/ staged' = NoUpload /\ Scanned

(* cdc_read_byte() gives up after 500 ms in the middle of a frame.          *)
ReadTimeout ==
    /\ pc \in {"payload", "canframe"} /\ s_usb_rx_queue = <<>>
    /\ staged' = IF pc = "payload" THEN NoUpload ELSE staged
    /\ pc' = "idle" /\ part' = NoUpload
    /\ UNCHANGED <<s_usb_rx_queue, active, live, flash, reply,
                   outside, unsaved>>

------------------------------------------------------------------------------
(* The handlers, each up to its answer.                                     *)

(* send_frame() with the return value of cdc_write() dropped: the answer is *)
(* on its way, or lost because the last one was not read in time.           *)
Answer(r, to) ==
    /\ \/ reply = NoReply /\ reply' = r
       \/ UNCHANGED reply
    /\ pc' = to
    /\ UNCHANGED <<s_usb_rx_queue, part, active, live, flash,
                   outside, unsaved>>

Echo == pc = "echo" /\ Answer(<<"write", staged>>, "idle") /\ UNCHANGED staged

(* handle_read(); what it reads back is not told apart.                     *)
ReadBack ==
    pc = "read" /\ Answer(<<"read", NoUpload>>, "idle") /\ UNCHANGED staged

Abort ==
    /\ pc = "abort" /\ Answer(<<"abort", NoUpload>>, "idle")
    /\ staged' = NoUpload

(* Variants: COMMIT does not look at s_has_staged; only the matrix is made  *)
(* active; a COMMIT with nothing staged gets no answer.                     *)
CommitUnstaged ==
    /\ pc = "commit"
    /\ active' = staged
    /\ pc' = "open"
    /\ UNCHANGED <<s_usb_rx_queue, part, staged, live, flash, reply, outside,
                   unsaved>>

CommitMatrixOnly ==
    /\ pc = "commit"
    /\ active' = IF staged # NoUpload
                 THEN [active EXCEPT !.matrix = staged.matrix] ELSE active
    /\ pc' = IF staged # NoUpload THEN "open" ELSE "nothing"
    /\ UNCHANGED <<s_usb_rx_queue, part, staged, live, flash, reply, outside,
                   unsaved>>

CommitSilent ==
    /\ pc = "commit"
    /\ active' = IF staged # NoUpload THEN staged ELSE active
    /\ pc' = IF staged # NoUpload THEN "open" ELSE "idle"
    /\ UNCHANGED <<s_usb_rx_queue, part, staged, live, flash, reply, outside,
                   unsaved>>

(* handle_commit(): what is staged becomes active.                          *)
Commit ==
    /\ pc = "commit"
    /\ active' = IF staged # NoUpload THEN staged ELSE active
    /\ pc' = IF staged # NoUpload THEN "open" ELSE "nothing"
    /\ UNCHANGED <<s_usb_rx_queue, part, staged, live, flash, reply, outside,
                   unsaved>>

(* nvs_save(): no result of it reaches the caller.                          *)
OpenNvs ==
    /\ pc = "open"
    /\ \/ pc' = "matrix" /\ UNCHANGED <<staged, unsaved>>
       \/ pc' = "ack" /\ staged' = NoUpload /\ unsaved' = TRUE
    /\ UNCHANGED <<s_usb_rx_queue, part, active, live, flash, reply,
                   outside>>

SaveMatrix ==
    /\ pc = "matrix"
    /\ \/ /\ flash' = [flash EXCEPT !.matrix = active.matrix]
          /\ unsaved' = FALSE
       \/ unsaved' = TRUE /\ UNCHANGED flash
    /\ pc' = "props"
    /\ UNCHANGED <<s_usb_rx_queue, part, staged, active, live,
                   reply, outside>>

SaveProps ==
    /\ pc = "props"
    /\ \/ /\ flash' = [flash EXCEPT !.props = active.props]
          /\ UNCHANGED unsaved
       \/ unsaved' = TRUE /\ UNCHANGED flash
    /\ staged' = NoUpload
    /\ pc' = "ack"
    /\ UNCHANGED <<s_usb_rx_queue, part, active, live, reply,
                   outside>>

(* The answer goes out whether or not anything was staged or saved.         *)
Acknowledge ==
    /\ \/ pc = "ack"     /\ Answer(<<"commit", NoUpload>>, "notify")
       \/ pc = "nothing" /\ Answer(<<"commit", NoUpload>>, "idle")
    /\ UNCHANGED staged

(* Variant: the registered callback is not called.                          *)
NotifyNobody ==
    /\ pc = "notify"
    /\ pc' = "idle"
    /\ UNCHANGED <<s_usb_rx_queue, part, staged, active, live, flash,
                   reply, outside, unsaved>>

(* can_latest_reconfigure()                                                 *)
Notify ==
    /\ pc = "notify"
    /\ live' = active
    /\ pc' = "idle"
    /\ UNCHANGED <<s_usb_rx_queue, part, staged, active, flash,
                   reply, outside, unsaved>>

(* Power is lost; prog_init() and can_latest_reconfigure() run at boot.     *)
PowerLoss ==
    /\ s_usb_rx_queue' = <<>> /\ pc' = "idle" /\ part' = NoUpload
    /\ staged' = NoUpload
    /\ active' = flash /\ live' = flash
    /\ reply' = NoReply /\ host' = "ready" /\ want' = NoUpload
    /\ acked' = NoUpload /\ unsaved' = FALSE
    /\ UNCHANGED flash

------------------------------------------------------------------------------
Dispatch ==
    \/ DispatchCommand \/ DispatchWrite \/ DispatchCan \/ DispatchNoise
    \/ Swallow \/ RestOfPayload \/ Garbled \/ ReadTimeout

Handle ==
    \/ Echo \/ ReadBack \/ Abort
    \/ Commit \/ OpenNvs \/ SaveMatrix \/ SaveProps \/ Acknowledge \/ Notify

Next ==
    \/ \E u \in Upload : HostWrite(u)
    \/ \E c \in Command : HostAsks(c)
    \/ HostWriteRest \/ HostGivesUp \/ HostCommits \/ HostSendsCan \/ HostReads
    \/ Dispatch \/ Handle
    \/ PowerLoss

Spec == Init /\ [][Next]_vars

(* usb_to_can_task runs on; a host that commits repeats the command and     *)
(* reads the answers; not every packet meets a full queue, and not every    *)
(* answer an endpoint that is still busy.                                   *)
Fairness ==
    /\ WF_vars(Dispatch) /\ WF_vars(Handle) /\ WF_vars(HostReads)
    /\ SF_vars(HostCommits /\ Len(s_usb_rx_queue) < USB_RX_QUEUE_DEPTH)
    /\ SF_vars(Acknowledge /\ reply' # reply)

FairSpec == Spec /\ Fairness

------------------------------------------------------------------------------
(* Type invariant.                                                          *)
TypeOK ==
    /\ s_usb_rx_queue \in Seq(Packet)
    /\ Len(s_usb_rx_queue) <= USB_RX_QUEUE_DEPTH
    /\ pc \in Command \cup {"idle", "canframe", "payload", "echo", "open",
                            "matrix", "props", "ack", "nothing", "notify"}
    /\ part \in Upload \cup {NoUpload}
    /\ staged \in Config \cup {NoUpload}
    /\ active \in Config /\ flash \in Config /\ live \in Config
    /\ reply \in Reply \cup {NoReply}
    /\ host \in {"ready", "half", "wrote", "echoed", "committing"}
    /\ want \in Upload \cup {NoUpload} /\ acked \in Upload \cup {NoUpload}
    /\ unsaved \in BOOLEAN

(* An acknowledged COMMIT means that the upload is the active one, although *)
(* the acknowledgement tells nothing: packets and answers get lost, COMMITs *)
(* are repeated, two uploads may be spliced (prog.h:23).                    *)
AckedIsActive ==
    acked # NoUpload /\ host # "committing" => active = Whole(acked)

(* What is active is one upload as a whole, whatever was spliced on the     *)
(* way to the staging area, or what a save that was cut or failed between   *)
(* its two blobs left for the next boot.                                    *)
ActiveIsOneUpload == active.matrix = active.props \/ active = flash

(* Outside of COMMIT the flash holds what is active (prog.h:43), unless NVS *)
(* failed, and the columns are configured from it.                          *)
SavedAndLive ==
    ~HandlesCommit =>
        /\ flash = active \/ unsaved
        /\ pc # "notify" => live = active

(* A host that repeats its COMMIT gets its answer: no lost packet or answer *)
(* leaves the dispatcher where it takes no command.                         *)
CommitIsAnswered == host = "committing" ~> host # "committing"
==============================================================================
