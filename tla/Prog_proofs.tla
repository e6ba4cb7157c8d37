----------------------------- MODULE Prog_proofs -----------------------------
(****************************************************************************)
(* Theorems about Prog, for any set of uploads and any depth of the packet  *)
(* queue: what was acknowledged is active, and what is active is one        *)
(* upload.                                                                  *)
(*                                                                          *)
(* Neither is inductive.  That staged data belongs to the upload the host   *)
(* is about to commit follows from where the packets of a WRITE can still   *)
(* be (HostInv), and that an acknowledgement belongs to the COMMIT that the *)
(* host waits for, from there being only one COMMIT under way (OneCommit).  *)
(****************************************************************************)
EXTENDS Prog, SequenceTheorems, TLAPS

Can == <<"can", NoUpload>>
Cmt == <<"commit", NoUpload>>

USE UploadAssumption, DepthAssumption DEF device, outside, Can, Cmt

------------------------------------------------------------------------------
(* The queue.                                                               *)

(* A packet that is sent becomes the last one, or is dropped.               *)
LEMMA SentFacts ==
    ASSUME s_usb_rx_queue \in Seq(Packet),
           Len(s_usb_rx_queue) <= USB_RX_QUEUE_DEPTH,
           NEW p \in Packet, Sent(p)
    PROVE  /\ s_usb_rx_queue' \in Seq(Packet)
           /\ Len(s_usb_rx_queue') <= USB_RX_QUEUE_DEPTH
           /\ Len(s_usb_rx_queue) \in Nat /\ Len(s_usb_rx_queue') \in Nat
           /\ \/ s_usb_rx_queue' = s_usb_rx_queue
              \/ /\ Len(s_usb_rx_queue') = Len(s_usb_rx_queue) + 1
                 /\ s_usb_rx_queue'[Len(s_usb_rx_queue) + 1] = p
                 /\ \A i \in 1..Len(s_usb_rx_queue) :
                       s_usb_rx_queue'[i] = s_usb_rx_queue[i]
BY DEF Sent

(* A packet that is taken was the first one.                                *)
LEMMA TakesFacts ==
    ASSUME s_usb_rx_queue \in Seq(Packet),
           Len(s_usb_rx_queue) <= USB_RX_QUEUE_DEPTH,
           NEW p, Takes(p)
    PROVE  /\ s_usb_rx_queue' \in Seq(Packet)
           /\ Len(s_usb_rx_queue') <= USB_RX_QUEUE_DEPTH
           /\ Len(s_usb_rx_queue) \in Nat /\ Len(s_usb_rx_queue') \in Nat
           /\ Len(s_usb_rx_queue) = Len(s_usb_rx_queue') + 1
           /\ p \in Packet /\ p = s_usb_rx_queue[1]
           /\ \A i \in 1..Len(s_usb_rx_queue') :
                 s_usb_rx_queue'[i] = s_usb_rx_queue[i + 1]
BY DEF Takes

------------------------------------------------------------------------------
(* Types.                                                                   *)

(* A WRITE is echoed only if it was staged.                                 *)
EchoHasStage == pc = "echo" => staged \in Config

(* The host knows what it is about.                                         *)
WantKnown == host # "ready" => want \in Upload

TInv == TypeOK /\ EchoHasStage /\ WantKnown

LEMMA InitTInv == Init => TInv
<1> SUFFICES ASSUME Init PROVE TInv
  OBVIOUS
<1>1. s_usb_rx_queue \in Seq(Packet) /\ Len(s_usb_rx_queue) <= USB_RX_QUEUE_DEPTH
  BY DEF Init
<1>2. Whole(Factory) \in Config
  BY DEF Whole, Config, Half
<1> QED BY <1>1, <1>2, Zenon DEF Init, TInv, TypeOK, EchoHasStage, WantKnown

(* The packets there are.                                                   *)
LEMMA PacketType ==
    /\ \A c \in Command \cup {"can"} : <<c, NoUpload>> \in Packet
    /\ \A u \in Upload : <<"open", u>> \in Packet /\ <<"close", u>> \in Packet
    /\ {"commit", "abort", "read"} = Command
BY DEF Packet, Command

(* What the host does keeps the types.                                      *)
LEMMA HostTInv ==
    ASSUME TInv,
           \/ \E u \in Upload : HostWrite(u)
           \/ \E c \in Command : HostAsks(c)
           \/ HostWriteRest \/ HostGivesUp \/ HostCommits \/ HostSendsCan
           \/ HostReads
    PROVE  TInv'
<1> USE DEF TInv, TypeOK, EchoHasStage, WantKnown
<1>1. ASSUME NEW u \in Upload, HostWrite(u) PROVE TInv'
  BY <1>1, SentFacts, PacketType DEF HostWrite
<1>2. ASSUME NEW c \in Command, HostAsks(c) PROVE TInv'
  BY <1>2, SentFacts, PacketType DEF HostAsks
<1>3. CASE HostWriteRest
  BY <1>3, SentFacts, PacketType DEF HostWriteRest
<1>4. CASE HostGivesUp
  BY <1>4 DEF HostGivesUp
<1>5. CASE HostCommits
  BY <1>5, SentFacts, PacketType DEF HostCommits
<1>6. CASE HostSendsCan
  BY <1>6, SentFacts, PacketType DEF HostSendsCan
<1>7. CASE HostReads
  BY <1>7 DEF HostReads
<1> QED BY <1>1, <1>2, <1>3, <1>4, <1>5, <1>6, <1>7

(* So does the dispatcher.                                                  *)
LEMMA DispatchTInv ==
    ASSUME TInv, Dispatch
    PROVE  TInv'
<1> USE TakesFacts DEF TInv, TypeOK, EchoHasStage, WantKnown
<1>1. ASSUME NEW p, Takes(p), staged' \in {staged, NoUpload},
             part' \in Upload \cup {NoUpload},
             pc' \in Command \cup {"idle", "canframe", "payload"}
      PROVE  TInv'
  BY <1>1 DEF Takes, Command
<1>2. CASE DispatchCommand
  BY <1>1, <1>2 DEF DispatchCommand
<1>3. CASE DispatchWrite
  BY <1>1, <1>3 DEF DispatchWrite
<1>4. CASE DispatchCan
  BY <1>1, <1>4 DEF DispatchCan
<1>5. CASE DispatchNoise
  BY <1>1, <1>5 DEF DispatchNoise, Scanned
<1>6. CASE Swallow
  BY <1>1, <1>6 DEF Swallow, Scanned
<1>7. CASE RestOfPayload
  <2>1. PICK u \in Upload : Takes(<<"close", u>>)
                            /\ staged' = [matrix |-> part, props |-> u]
    BY <1>7 DEF RestOfPayload
  <2>2. staged' \in Config /\ part' = NoUpload /\ pc' = "echo"
    BY <1>7, <2>1 DEF RestOfPayload, Config, Half
  <2> QED BY <2>1, <2>2 DEF Takes
<1>8. CASE Garbled
  BY <1>1, <1>8 DEF Garbled, Scanned
<1>9. CASE ReadTimeout
  BY <1>9 DEF ReadTimeout
<1> QED BY <1>2, <1>3, <1>4, <1>5, <1>6, <1>7, <1>8, <1>9 DEF Dispatch

(* So do the handlers.                                                      *)
LEMMA HandleTInv ==
    ASSUME TInv, Handle
    PROVE  TInv'
<1> USE DEF TInv, TypeOK, EchoHasStage, WantKnown
<1>1. ASSUME NEW r \in Reply, NEW to \in {"idle", "notify"}, Answer(r, to),
             staged' \in {staged, NoUpload}
      PROVE  TInv'
  BY <1>1 DEF Answer
<1>2. CASE Echo
  <2>1. <<"write", staged>> \in Reply
    BY <1>2 DEF Echo, Reply
  <2> QED BY <1>1, <1>2, <2>1 DEF Echo
<1>3. \A c \in Command : <<c, NoUpload>> \in Reply
  BY DEF Reply
<1>4. CASE ReadBack \/ Abort \/ Acknowledge
  BY <1>1, <1>3, <1>4, PacketType DEF ReadBack, Abort, Acknowledge
<1>5. CASE Commit
  BY <1>5 DEF Commit
<1>6. CASE OpenNvs
  BY <1>6 DEF OpenNvs
<1>7. CASE SaveMatrix
  <2>1. flash' \in Config
    BY <1>7 DEF SaveMatrix, Config
  <2> QED BY <1>7, <2>1 DEF SaveMatrix
<1>8. CASE SaveProps
  <2>1. flash' \in Config
    BY <1>8 DEF SaveProps, Config
  <2> QED BY <1>8, <2>1 DEF SaveProps
<1>9. CASE Notify
  BY <1>9 DEF Notify
<1> QED BY <1>2, <1>4, <1>5, <1>6, <1>7, <1>8, <1>9 DEF Handle

LEMMA PowerLossTInv ==
    ASSUME TInv, PowerLoss
    PROVE  TInv'
<1>1. s_usb_rx_queue' \in Seq(Packet) /\ Len(s_usb_rx_queue') <= USB_RX_QUEUE_DEPTH
  BY DEF PowerLoss
<1> QED
  BY <1>1, Zenon DEF PowerLoss, TInv, TypeOK, EchoHasStage, WantKnown

LEMMA NextTInv == TInv /\ [Next]_vars => TInv'
<1> SUFFICES ASSUME TInv, [Next]_vars PROVE TInv'
  OBVIOUS
<1>1. CASE Next
  BY <1>1, HostTInv, DispatchTInv, HandleTInv, PowerLossTInv DEF Next
<1>2. CASE UNCHANGED vars
  BY <1>2 DEF vars, TInv, TypeOK, EchoHasStage, WantKnown
<1> QED BY <1>1, <1>2

LEMMA TInvariance == Spec => []TInv
BY InitTInv, NextTInv, PTL DEF Spec

(* The staging area, the two copies of the configuration, the packets and   *)
(* the answers keep their types.                                            *)
THEOREM TypeCorrectness == Spec => []TypeOK
<1>1. TInv => TypeOK
  BY DEF TInv
<1> QED BY <1>1, TInvariance, PTL

------------------------------------------------------------------------------
(* One COMMIT is under way at a time.                                       *)

OneCommit ==
    /\ AckMayCome => host = "committing"
    /\ \A i, j \in 1..Len(s_usb_rx_queue) :
          s_usb_rx_queue[i] = Cmt /\ s_usb_rx_queue[j] = Cmt => i = j
    /\ InQueue(Cmt) => ~HandlesCommit /\ reply[1] # "commit"
    /\ HandlesCommit => reply[1] # "commit"

(* A packet that is not a COMMIT changes nothing.                           *)
LEMMA SentOneCommit ==
    ASSUME TInv, OneCommit, NEW p \in Packet \ {Cmt}, Sent(p),
           UNCHANGED <<pc, reply>>, host = "committing" => host' = host
    PROVE  OneCommit'
<1> DEFINE n == Len(s_usb_rx_queue)
           m == Len(s_usb_rx_queue')
<1>0. /\ n \in Nat /\ m \in Nat
      /\ \A i \in 1..m : s_usb_rx_queue'[i] = Cmt =>
            i \in 1..n /\ s_usb_rx_queue[i] = Cmt
  <2>1. /\ n \in Nat /\ m \in Nat
        /\ \/ s_usb_rx_queue' = s_usb_rx_queue
           \/ /\ m = n + 1
              /\ s_usb_rx_queue'[n + 1] = p
              /\ \A i \in 1..n : s_usb_rx_queue'[i] = s_usb_rx_queue[i]
    <3>1. /\ s_usb_rx_queue \in Seq(Packet) /\ p \in Packet
          /\ Len(s_usb_rx_queue) <= USB_RX_QUEUE_DEPTH
      BY DEF TInv, TypeOK
    <3> QED BY <3>1, SentFacts
  <2>2. CASE s_usb_rx_queue' = s_usb_rx_queue
    BY <2>1, <2>2
  <2>3. CASE s_usb_rx_queue' # s_usb_rx_queue
    <3>1. m = n + 1 /\ s_usb_rx_queue'[n + 1] # Cmt
      BY <2>1, <2>3
    <3>2. \A i \in 1..n : s_usb_rx_queue'[i] = s_usb_rx_queue[i]
      BY <2>1, <2>3
    <3> HIDE DEF n, m
    <3>3. \A i \in 1..m : i \in 1..n \/ i = n + 1
      BY <2>1, <3>1
    <3> QED BY <2>1, <3>1, <3>2, <3>3
  <2> QED BY <2>2, <2>3
<1>1. InQueue(Cmt)' => InQueue(Cmt)
  BY <1>0 DEF InQueue
<1>2. \A i, j \in 1..m :
         s_usb_rx_queue'[i] = Cmt /\ s_usb_rx_queue'[j] = Cmt => i = j
  BY <1>0 DEF OneCommit
<1> QED BY <1>1, <1>2 DEF OneCommit, AckMayCome, HandlesCommit

(* Nor does taking a packet without handling it.                            *)
LEMMA TakesOneCommit ==
    ASSUME TInv, OneCommit, NEW p, Takes(p)
    PROVE  /\ InQueue(Cmt)' => InQueue(Cmt) /\ p # Cmt
           /\ p = Cmt => InQueue(Cmt)
           /\ ~HandlesCommit' => OneCommit'
<1> DEFINE n == Len(s_usb_rx_queue)
           m == Len(s_usb_rx_queue')
<1>0. /\ n \in Nat /\ m \in Nat /\ n = m + 1 /\ p = s_usb_rx_queue[1]
      /\ \A i \in 1..m : s_usb_rx_queue'[i] = s_usb_rx_queue[i + 1]
  BY TakesFacts DEF TInv, TypeOK
<1>1. /\ InQueue(Cmt)' => InQueue(Cmt) /\ p # Cmt
      /\ p = Cmt => InQueue(Cmt)
  <2>1. ASSUME NEW i \in 1..m, s_usb_rx_queue'[i] = Cmt
        PROVE  i + 1 \in 1..n /\ 1 \in 1..n /\ s_usb_rx_queue[i + 1] = Cmt
    BY <1>0, <2>1
  <2>2. ASSUME NEW i \in 1..m, s_usb_rx_queue'[i] = Cmt PROVE p # Cmt
    BY <1>0, <2>1, <2>2 DEF OneCommit
  <2>3. 1 \in 1..n
    BY <1>0
  <2> QED BY <1>0, <2>1, <2>2, <2>3 DEF InQueue
<1>2. \A i, j \in 1..m :
         s_usb_rx_queue'[i] = Cmt /\ s_usb_rx_queue'[j] = Cmt => i = j
  <2> SUFFICES ASSUME NEW i \in 1..m, NEW j \in 1..m,
                      s_usb_rx_queue'[i] = Cmt, s_usb_rx_queue'[j] = Cmt
               PROVE  i = j
    OBVIOUS
  <2>1. i + 1 \in 1..n /\ j + 1 \in 1..n
    BY <1>0
  <2>2. s_usb_rx_queue[i + 1] = Cmt /\ s_usb_rx_queue[j + 1] = Cmt
    BY <1>0
  <2>3. i + 1 = j + 1
    BY <2>1, <2>2 DEF OneCommit
  <2> QED BY <2>3
<1>3. host' = host /\ reply' = reply
  BY DEF Takes
<1>4. ASSUME ~HandlesCommit' PROVE OneCommit'
  BY <1>1, <1>2, <1>3, <1>4 DEF OneCommit, AckMayCome
<1> QED BY <1>1, <1>4

LEMMA HostOneCommit ==
    ASSUME TInv, OneCommit,
           \/ \E u \in Upload : HostWrite(u)
           \/ \E c \in Command : HostAsks(c)
           \/ HostWriteRest \/ HostGivesUp \/ HostCommits \/ HostSendsCan
           \/ HostReads
    PROVE  OneCommit'
<1>1. ASSUME NEW u \in Upload, HostWrite(u) PROVE OneCommit'
  <2>1. <<"open", u>> \in Packet \ {Cmt}
    BY <1>1, PacketType
  <2>2. Sent(<<"open", u>>) /\ UNCHANGED <<pc, reply>> /\ host # "committing"
    BY <1>1 DEF HostWrite
  <2> QED BY <2>1, <2>2, SentOneCommit
<1>2. ASSUME NEW c \in Command, HostAsks(c) PROVE OneCommit'
  <2>1. <<c, NoUpload>> \in Packet \ {Cmt}
    BY <1>2, PacketType DEF HostAsks
  <2>2. Sent(<<c, NoUpload>>) /\ UNCHANGED <<pc, reply>> /\ host # "committing"
    BY <1>2 DEF HostAsks
  <2> QED BY <2>1, <2>2, SentOneCommit
<1>3. CASE HostWriteRest
  <2>1. <<"close", want>> \in Packet \ {Cmt}
    BY <1>3, PacketType DEF HostWriteRest, TInv, WantKnown
  <2>2. Sent(<<"close", want>>) /\ UNCHANGED <<pc, reply>> /\ host # "committing"
    BY <1>3 DEF HostWriteRest
  <2> QED BY <2>1, <2>2, SentOneCommit
<1>4. CASE HostGivesUp
  BY <1>4 DEF HostGivesUp, OneCommit, AckMayCome, InQueue, HandlesCommit
<1>5. CASE HostCommits
  <2>1. ~InQueue(Cmt) /\ ~HandlesCommit /\ reply[1] # "commit"
    BY <1>5 DEF HostCommits, AckMayCome
  <2>2. \A i, j \in 1..Len(s_usb_rx_queue') :
           s_usb_rx_queue'[i] = Cmt /\ s_usb_rx_queue'[j] = Cmt => i = j
    <3> DEFINE n == Len(s_usb_rx_queue)
               m == Len(s_usb_rx_queue')
    <3>1. Cmt \in Packet /\ Sent(Cmt)
      BY <1>5, PacketType DEF HostCommits
    <3>2. /\ n \in Nat /\ m \in Nat
          /\ \/ s_usb_rx_queue' = s_usb_rx_queue
             \/ /\ m = n + 1
                /\ \A i \in 1..n : s_usb_rx_queue'[i] = s_usb_rx_queue[i]
      BY <3>1, SentFacts DEF TInv, TypeOK
    <3>3. \A i \in 1..n : s_usb_rx_queue[i] # Cmt
      BY <2>1 DEF InQueue
    <3>4. CASE s_usb_rx_queue' = s_usb_rx_queue
      BY <3>3, <3>4
    <3>5. CASE s_usb_rx_queue' # s_usb_rx_queue
      <4>1. m = n + 1 /\ \A i \in 1..n : s_usb_rx_queue'[i] # Cmt
        BY <3>2, <3>3, <3>5
      <4> HIDE DEF n, m
      <4>2. \A i \in 1..m : i \in 1..n \/ i = m
        BY <3>2, <4>1
      <4> QED BY <4>1, <4>2 DEF m
    <3> QED BY <3>4, <3>5
  <2> QED BY <1>5, <2>1, <2>2 DEF HostCommits, OneCommit, HandlesCommit
<1>6. CASE HostSendsCan
  <2>1. Can \in Packet \ {Cmt}
    BY PacketType
  <2>2. Sent(Can) /\ UNCHANGED <<pc, reply, host>>
    BY <1>6 DEF HostSendsCan
  <2> QED BY <2>1, <2>2, SentOneCommit
<1>7. CASE HostReads
  <2>1. reply'[1] # "commit" /\ UNCHANGED <<s_usb_rx_queue, pc>>
    BY <1>7 DEF HostReads, NoReply
  <2>2. AckMayCome' => AckMayCome /\ reply[1] # "commit"
    BY <2>1 DEF AckMayCome, OneCommit, HandlesCommit, InQueue
  <2>3. AckMayCome' => host' = "committing"
    BY <1>7, <2>2 DEF HostReads, OneCommit
  <2> QED BY <2>1, <2>3 DEF OneCommit, HandlesCommit, InQueue
<1> QED BY <1>1, <1>2, <1>3, <1>4, <1>5, <1>6, <1>7

LEMMA DispatchOneCommit ==
    ASSUME TInv, OneCommit, Dispatch
    PROVE  OneCommit'
<1>1. ASSUME NEW c \in Command, pc = "idle", Takes(<<c, NoUpload>>), pc' = c
      PROVE  OneCommit'
  <2>1. CASE c = "commit"
    <3>1. ~InQueue(Cmt)' /\ InQueue(Cmt)
      BY <1>1, <2>1, TakesOneCommit
    <3>2. /\ host' = "committing" /\ reply' = reply /\ reply[1] # "commit"
          /\ \A i \in 1..Len(s_usb_rx_queue') : s_usb_rx_queue'[i] # Cmt
      BY <1>1, <3>1 DEF OneCommit, AckMayCome, Takes, InQueue
    <3> QED BY <3>1, <3>2 DEF OneCommit
  <2>2. CASE c # "commit"
    BY <1>1, <2>2, TakesOneCommit DEF HandlesCommit, Command
  <2> QED BY <2>1, <2>2
<1>2. CASE DispatchCommand
  BY <1>1, <1>2 DEF DispatchCommand
<1>3. CASE DispatchWrite \/ DispatchCan \/ DispatchNoise \/ Swallow
  BY <1>3, TakesOneCommit
     DEF DispatchWrite, DispatchCan, DispatchNoise, Swallow, Scanned,
         HandlesCommit
<1>4. CASE RestOfPayload \/ Garbled
  BY <1>4, TakesOneCommit DEF RestOfPayload, Garbled, Scanned, HandlesCommit
<1>5. CASE ReadTimeout
  BY <1>5 DEF ReadTimeout, OneCommit, AckMayCome, InQueue, HandlesCommit
<1> QED BY <1>2, <1>3, <1>4, <1>5 DEF Dispatch

LEMMA HandleOneCommit ==
    ASSUME TInv, OneCommit, Handle
    PROVE  OneCommit'
<1>1. s_usb_rx_queue' = s_usb_rx_queue /\ host' = host
  BY DEF Handle, Echo, ReadBack, Abort, Commit, OpenNvs, SaveMatrix,
         SaveProps, Acknowledge, Notify, Answer
<1>2. InQueue(Cmt)' = InQueue(Cmt)
  BY <1>1 DEF InQueue
<1>3. CASE Echo \/ ReadBack \/ Abort
  <2>1. ~HandlesCommit' /\ (reply'[1] = "commit" => reply[1] = "commit")
    BY <1>3 DEF Echo, ReadBack, Abort, Answer, HandlesCommit
  <2> QED BY <1>1, <1>2, <2>1 DEF OneCommit, AckMayCome
<1>4. CASE Commit \/ OpenNvs \/ SaveMatrix \/ SaveProps
  <2>1. HandlesCommit /\ HandlesCommit' /\ reply' = reply
    BY <1>4 DEF Commit, OpenNvs, SaveMatrix, SaveProps, HandlesCommit
  <2> QED BY <1>1, <1>2, <2>1 DEF OneCommit, AckMayCome
<1>5. CASE Acknowledge
  <2>1. HandlesCommit /\ ~HandlesCommit'
    BY <1>5 DEF Acknowledge, Answer, HandlesCommit
  <2> QED BY <1>1, <1>2, <2>1 DEF OneCommit, AckMayCome
<1>6. CASE Notify
  <2>1. ~HandlesCommit /\ ~HandlesCommit' /\ reply' = reply
    BY <1>6 DEF Notify, HandlesCommit
  <2> QED BY <1>1, <1>2, <2>1 DEF OneCommit, AckMayCome
<1> QED BY <1>3, <1>4, <1>5, <1>6 DEF Handle

(* At boot nothing is under way.                                            *)
LEMMA InitOneCommit == Init => OneCommit
BY DEF Init, OneCommit, AckMayCome, InQueue, HandlesCommit, NoReply

LEMMA NextOneCommit == TInv /\ OneCommit /\ [Next]_vars => OneCommit'
<1> SUFFICES ASSUME TInv, OneCommit, [Next]_vars PROVE OneCommit'
  OBVIOUS
<1>1. CASE PowerLoss
  BY <1>1 DEF PowerLoss, OneCommit, AckMayCome, InQueue, HandlesCommit, NoReply
<1>2. CASE Next /\ ~PowerLoss
  BY <1>2, HostOneCommit, DispatchOneCommit, HandleOneCommit DEF Next
<1>3. CASE UNCHANGED vars
  BY <1>3 DEF vars, OneCommit, AckMayCome, InQueue, HandlesCommit
<1> QED BY <1>1, <1>2, <1>3
------------------------------------------------------------------------------
(* What the host waits for is what the device has staged.                   *)

OnlyCan == \A i \in 1..Len(s_usb_rx_queue) : s_usb_rx_queue[i] = Can

(* The end of the WRITE is not on its way yet.                              *)
WhileHalf ==
    host = "half" =>
       /\ \A i \in 1..Len(s_usb_rx_queue) : s_usb_rx_queue[i] # <<"close", want>>
       /\ pc = "echo" => staged.props # want
       /\ reply[1] = "write" => reply[2].props # want

(* After the end of the WRITE nothing can change what it staged.            *)
WhileWrote ==
    host = "wrote" =>
       /\ \A i \in 1..Len(s_usb_rx_queue) :
             s_usb_rx_queue[i] = <<"close", want>> =>
                \A j \in i+1..Len(s_usb_rx_queue) : s_usb_rx_queue[j] = Can
       /\ pc = "echo" /\ staged.props = want => OnlyCan
       /\ reply = <<"write", Whole(want)>> =>
             staged = Whole(want) /\ pc = "idle" /\ OnlyCan

WhileEchoed ==
    host = "echoed" => staged = Whole(want) /\ pc = "idle" /\ OnlyCan

(* The upload is staged until it is active.                                 *)
WhileCommitting ==
    host = "committing" =>
       /\ \A i \in 1..Len(s_usb_rx_queue) : s_usb_rx_queue[i] \in {Can, Cmt}
       /\ HandlesCommit \/ pc \in {"idle", "notify"}
       /\ \/ active = Whole(want)
          \/ staged = Whole(want) /\ pc \in {"idle", "commit"}
       /\ \/ staged = NoUpload
          \/ /\ staged = Whole(want)
             /\ pc \in {"idle", "commit", "open", "matrix", "props"}
       /\ pc \in {"open", "matrix", "props"} => active = Whole(want)
       /\ reply[1] = "commit" => staged = NoUpload /\ active = Whole(want)

HostInv == WhileHalf /\ WhileWrote /\ WhileEchoed /\ WhileCommitting

(* What holds of all packets in the queue goes on to hold of the rest.      *)
LEMMA TakesQueue ==
    ASSUME TInv, NEW p, Takes(p)
    PROVE  /\ \A w : (\A i \in 1..Len(s_usb_rx_queue) :
                         s_usb_rx_queue[i] # <<"close", w>>)
                => /\ p # <<"close", w>>
                   /\ \A i \in 1..Len(s_usb_rx_queue') :
                         s_usb_rx_queue'[i] # <<"close", w>>
           /\ \A w : (\A i \in 1..Len(s_usb_rx_queue) :
                         s_usb_rx_queue[i] = <<"close", w>> =>
                            \A j \in i+1..Len(s_usb_rx_queue) :
                               s_usb_rx_queue[j] = Can)
                => /\ \A i \in 1..Len(s_usb_rx_queue') :
                         s_usb_rx_queue'[i] = <<"close", w>> =>
                            \A j \in i+1..Len(s_usb_rx_queue') :
                               s_usb_rx_queue'[j] = Can
                   /\ p = <<"close", w>> => OnlyCan'
           /\ OnlyCan => p = Can /\ OnlyCan'
           /\ (\A i \in 1..Len(s_usb_rx_queue) : s_usb_rx_queue[i] \in {Can, Cmt})
                => /\ p \in {Can, Cmt}
                   /\ \A i \in 1..Len(s_usb_rx_queue') :
                         s_usb_rx_queue'[i] \in {Can, Cmt}
<1> DEFINE n == Len(s_usb_rx_queue)
           m == Len(s_usb_rx_queue')
<1>1. /\ n \in Nat /\ m \in Nat /\ n = m + 1 /\ p = s_usb_rx_queue[1]
      /\ \A i \in 1..m : s_usb_rx_queue'[i] = s_usb_rx_queue[i + 1]
  BY TakesFacts DEF TInv, TypeOK
<1> HIDE DEF n, m
<1>2. 1 \in 1..n /\ \A i \in 1..m : i + 1 \in 1..n /\ i + 1 \in 2..n
  BY <1>1
<1>3. \A i \in 1..m : \A j \in i+1..m : j \in 1..m /\ j + 1 \in (i+1)+1..n
  BY <1>1
<1>4. \A i \in 1..m : i + 1 \in 1+1..n
  BY <1>1
<1>5. ASSUME NEW w, \A i \in 1..n : s_usb_rx_queue[i] = <<"close", w>> =>
                       \A j \in i+1..n : s_usb_rx_queue[j] = Can
      PROVE  /\ \A i \in 1..m : s_usb_rx_queue'[i] = <<"close", w>> =>
                   \A j \in i+1..m : s_usb_rx_queue'[j] = Can
             /\ p = <<"close", w>> => \A i \in 1..m : s_usb_rx_queue'[i] = Can
  <2>1. ASSUME NEW i \in 1..m, s_usb_rx_queue'[i] = <<"close", w>>,
               NEW j \in i+1..m
        PROVE  s_usb_rx_queue'[j] = Can
    <3>1. i + 1 \in 1..n /\ s_usb_rx_queue[i + 1] = <<"close", w>>
      BY <1>1, <1>2, <2>1
    <3>2. j \in 1..m /\ j + 1 \in (i+1)+1..n
      BY <1>3
    <3>3. s_usb_rx_queue[j + 1] = Can
      BY <1>5, <3>1, <3>2
    <3> QED BY <1>1, <3>2, <3>3
  <2>2. ASSUME p = <<"close", w>>, NEW i \in 1..m
        PROVE  s_usb_rx_queue'[i] = Can
    BY <1>1, <1>2, <1>4, <1>5, <2>2
  <2> QED BY <2>1, <2>2
<1>6. OnlyCan => p = Can /\ OnlyCan'
  BY <1>1, <1>2 DEF OnlyCan, n, m
<1>7. \A w : (\A i \in 1..n : s_usb_rx_queue[i] # <<"close", w>>)
         => /\ p # <<"close", w>>
            /\ \A i \in 1..m : s_usb_rx_queue'[i] # <<"close", w>>
  BY <1>1, <1>2
<1>8. (\A i \in 1..n : s_usb_rx_queue[i] \in {Can, Cmt})
         => /\ p \in {Can, Cmt}
            /\ \A i \in 1..m : s_usb_rx_queue'[i] \in {Can, Cmt}
  BY <1>1, <1>2
<1> QED BY <1>5, <1>6, <1>7, <1>8 DEF OnlyCan, n, m

(* A packet that is sent is the only one that may be new, and the last.     *)
LEMMA SentQueue ==
    ASSUME TInv, NEW p \in Packet, Sent(p)
    PROVE  /\ \A w : p # <<"close", w>>
                     /\ (\A i \in 1..Len(s_usb_rx_queue) :
                           s_usb_rx_queue[i] # <<"close", w>>)
                => \A i \in 1..Len(s_usb_rx_queue') :
                      s_usb_rx_queue'[i] # <<"close", w>>
           /\ \A w : (\A i \in 1..Len(s_usb_rx_queue) :
                        s_usb_rx_queue[i] # <<"close", w>>)
                => \A i \in 1..Len(s_usb_rx_queue') :
                      \A j \in i+1..Len(s_usb_rx_queue') :
                         s_usb_rx_queue'[i] # <<"close", w>>
           /\ p = Can => \A w :
                (\A i \in 1..Len(s_usb_rx_queue) :
                    s_usb_rx_queue[i] = <<"close", w>> =>
                       \A j \in i+1..Len(s_usb_rx_queue) :
                          s_usb_rx_queue[j] = Can)
                => \A i \in 1..Len(s_usb_rx_queue') :
                      s_usb_rx_queue'[i] = <<"close", w>> =>
                         \A j \in i+1..Len(s_usb_rx_queue') :
                            s_usb_rx_queue'[j] = Can
           /\ p = Can /\ OnlyCan => OnlyCan'
           /\ p \in {Can, Cmt} /\ (\A i \in 1..Len(s_usb_rx_queue) :
                                      s_usb_rx_queue[i] \in {Can, Cmt})
                => \A i \in 1..Len(s_usb_rx_queue') :
                      s_usb_rx_queue'[i] \in {Can, Cmt}
<1> DEFINE n == Len(s_usb_rx_queue)
           m == Len(s_usb_rx_queue')
<1>1. /\ n \in Nat /\ m \in Nat
      /\ \/ s_usb_rx_queue' = s_usb_rx_queue
         \/ /\ m = n + 1
            /\ s_usb_rx_queue'[n + 1] = p
            /\ \A i \in 1..n : s_usb_rx_queue'[i] = s_usb_rx_queue[i]
  BY SentFacts DEF TInv, TypeOK
<1>2. CASE s_usb_rx_queue' = s_usb_rx_queue
  <2>1. OnlyCan' = OnlyCan
    BY <1>2 DEF OnlyCan
  <2>2. \A i \in 1..n : \A j \in i+1..n : i \in 1..n
    OBVIOUS
  <2> QED BY <1>2, <2>1, <2>2
<1>3. CASE s_usb_rx_queue' # s_usb_rx_queue
  <2>1. /\ m = n + 1 /\ s_usb_rx_queue'[n + 1] = p
        /\ \A i \in 1..n : s_usb_rx_queue'[i] = s_usb_rx_queue[i]
    BY <1>1, <1>3
  <2> HIDE DEF n, m
  <2>2. \A i \in 1..m : i \in 1..n \/ i = n + 1
    BY <1>1, <2>1
  <2>3. \A i \in 1..m : \A j \in i+1..m :
           i \in 1..n /\ (j \in i+1..n \/ j = n + 1) /\ j \in 1..m
    BY <1>1, <2>1
  <2>4. \A w : p # <<"close", w>>
               /\ (\A i \in 1..n : s_usb_rx_queue[i] # <<"close", w>>)
          => \A i \in 1..m : s_usb_rx_queue'[i] # <<"close", w>>
    BY <2>1, <2>2
  <2>5. \A w : (\A i \in 1..n : s_usb_rx_queue[i] # <<"close", w>>)
          => \A i \in 1..m : \A j \in i+1..m :
                s_usb_rx_queue'[i] # <<"close", w>>
    BY <2>1, <2>3
  <2>6. ASSUME p = Can, NEW w,
               \A i \in 1..n : s_usb_rx_queue[i] = <<"close", w>> =>
                  \A j \in i+1..n : s_usb_rx_queue[j] = Can,
               NEW i \in 1..m, s_usb_rx_queue'[i] = <<"close", w>>,
               NEW j \in i+1..m
        PROVE  s_usb_rx_queue'[j] = Can
    <3>1. i \in 1..n /\ s_usb_rx_queue[i] = <<"close", w>>
      BY <2>1, <2>3, <2>6
    <3>2. CASE j = n + 1
      BY <2>1, <2>6, <3>2
    <3>3. CASE j \in i+1..n
      <4>1. j \in 1..n /\ s_usb_rx_queue[j] = Can
        BY <1>1, <2>6, <3>1, <3>3
      <4> QED BY <2>1, <4>1
    <3> QED BY <2>3, <3>2, <3>3
  <2>7. p = Can /\ OnlyCan => OnlyCan'
    BY <2>1, <2>2 DEF OnlyCan, n, m
  <2>8. p \in {Can, Cmt} /\ (\A i \in 1..n : s_usb_rx_queue[i] \in {Can, Cmt})
          => \A i \in 1..m : s_usb_rx_queue'[i] \in {Can, Cmt}
    BY <2>1, <2>2
  <2> QED BY <2>4, <2>5, <2>6, <2>7, <2>8 DEF n, m
<1> QED BY <1>2, <1>3

(* What the host does.                                                      *)
LEMMA HostHostInv ==
    ASSUME TInv, OneCommit, HostInv,
           \/ \E u \in Upload : HostWrite(u)
           \/ \E c \in Command : HostAsks(c)
           \/ HostWriteRest \/ HostGivesUp \/ HostCommits \/ HostSendsCan
           \/ HostReads
    PROVE  HostInv'
<1> USE DEF HostInv, WhileHalf, WhileWrote, WhileEchoed, WhileCommitting
<1>1. ASSUME NEW u \in Upload, HostWrite(u) PROVE HostInv'
  <2>1. /\ \A i \in 1..Len(s_usb_rx_queue) : s_usb_rx_queue[i] # <<"close", u>>
        /\ pc = "echo" => staged.props # u
        /\ reply[1] = "write" => reply[2].props # u
    BY <1>1 DEF HostWrite, EchoMayCome, InQueue
  <2>2. \A i \in 1..Len(s_usb_rx_queue') : s_usb_rx_queue'[i] # <<"close", u>>
    <3>1. <<"open", u>> \in Packet /\ <<"open", u>> # <<"close", u>>
      BY PacketType
    <3>2. Sent(<<"open", u>>)
      BY <1>1 DEF HostWrite
    <3> QED BY <2>1, <3>1, <3>2, SentQueue
  <2>3. host' = "half" /\ want' = u /\ UNCHANGED <<pc, staged, reply>>
    BY <1>1 DEF HostWrite
  <2> QED BY <2>1, <2>2, <2>3
<1>2. ASSUME NEW c \in Command, HostAsks(c) PROVE HostInv'
  BY <1>2 DEF HostAsks
<1>3. CASE HostWriteRest
  <2>1. PICK w \in Upload : want = w
    BY <1>3 DEF HostWriteRest, TInv, WantKnown
  <2>2. /\ \A i \in 1..Len(s_usb_rx_queue) : s_usb_rx_queue[i] # <<"close", w>>
        /\ pc = "echo" => staged.props # w
        /\ reply[1] = "write" => reply[2].props # w
    BY <1>3, <2>1 DEF HostWriteRest
  <2>3. \A i \in 1..Len(s_usb_rx_queue') :
           \A j \in i+1..Len(s_usb_rx_queue') :
              s_usb_rx_queue'[i] # <<"close", w>>
    BY <1>3, <2>1, <2>2, SentQueue, PacketType DEF HostWriteRest
  <2>4. reply # <<"write", Whole(w)>>
    BY <2>2 DEF Whole
  <2>5. host' = "wrote" /\ want' = w /\ UNCHANGED <<pc, staged, reply>>
    BY <1>3, <2>1 DEF HostWriteRest
  <2> QED BY <2>2, <2>3, <2>4, <2>5
<1>4. CASE HostGivesUp
  BY <1>4 DEF HostGivesUp
<1>5. CASE HostCommits
  <2>1. /\ Cmt \in Packet /\ Sent(Cmt) /\ ~AckMayCome
        /\ host' = "committing"
        /\ UNCHANGED <<pc, staged, active, reply, want>>
    BY <1>5, PacketType DEF HostCommits
  <2>2. \A i \in 1..Len(s_usb_rx_queue) : s_usb_rx_queue[i] \in {Can, Cmt}
    BY <1>5 DEF HostCommits, OnlyCan
  <2>3. \A i \in 1..Len(s_usb_rx_queue') : s_usb_rx_queue'[i] \in {Can, Cmt}
    BY <2>1, <2>2, SentQueue
  <2>4. reply'[1] # "commit" /\ ~HandlesCommit /\ HandlesCommit' = HandlesCommit
    BY <2>1 DEF AckMayCome, HandlesCommit
  <2>5. CASE host = "echoed"
    BY <2>1, <2>3, <2>4, <2>5
  <2>6. CASE host = "committing"
    BY <2>1, <2>3, <2>4, <2>6
  <2> QED BY <1>5, <2>5, <2>6 DEF HostCommits
<1>6. CASE HostSendsCan
  <2>1. /\ Can \in Packet /\ Sent(Can) /\ host # "half" /\ HandlesCommit' = HandlesCommit
        /\ UNCHANGED <<pc, staged, active, reply, want, host>>
    BY <1>6, PacketType DEF HostSendsCan, HandlesCommit
  <2>2. PICK w : w = want
    OBVIOUS
  <2>3. want' = w
    BY <2>1, <2>2
  <2>4. CASE host = "wrote"
    BY <2>1, <2>2, <2>3, <2>4, SentQueue
  <2>5. CASE host = "echoed"
    BY <2>1, <2>2, <2>3, <2>5, SentQueue
  <2>6. CASE host = "committing"
    BY <2>1, <2>2, <2>3, <2>6, SentQueue
  <2> QED BY <2>1, <2>4, <2>5, <2>6
<1>7. CASE HostReads
  <2>1. /\ reply' = NoReply /\ reply'[1] = "none"
        /\ UNCHANGED <<s_usb_rx_queue, pc, staged, active>>
        /\ OnlyCan' = OnlyCan /\ HandlesCommit' = HandlesCommit
    BY <1>7 DEF HostReads, NoReply, OnlyCan, HandlesCommit
  <2>2. host' # "ready" => want' = want
    BY <1>7 DEF HostReads
  <2>3. CASE host' = host
    BY <1>7, <2>1, <2>2, <2>3
  <2>4. CASE host' = "ready"
    BY <2>4
  <2>5. CASE host' = "echoed" /\ host # host'
    <3>1. host = "wrote" /\ reply = <<"write", Whole(want)>>
      BY <1>7, <2>5 DEF HostReads
    <3> QED BY <2>1, <2>2, <2>5, <3>1
  <2> QED BY <1>7, <2>3, <2>4, <2>5 DEF HostReads
<1> QED BY <1>1, <1>2, <1>3, <1>4, <1>5, <1>6, <1>7

(* The dispatcher gives up, or takes a packet: the end of a WRITE leads to  *)
(* its echo, a CAN frame to nothing and a COMMIT to its handler.            *)
LEMMA DispatchFacts ==
    ASSUME Dispatch
    PROVE  \/ ReadTimeout
           \/ \E p : /\ Takes(p) /\ pc \in {"idle", "canframe", "payload"}
                     /\ pc' = "echo" => p = <<"close", staged'.props>>
                     /\ pc = "idle" /\ p = Can =>
                           pc' = "idle" /\ staged' = staged
                     /\ pc = "idle" /\ p = Cmt =>
                           pc' = "commit" /\ staged' = staged
<1>1. CASE DispatchCommand
  <2>1. PICK c \in Command : Takes(<<c, NoUpload>>) /\ pc' = c
    BY <1>1 DEF DispatchCommand
  <2> QED BY <1>1, <2>1 DEF DispatchCommand, Command
<1>2. CASE DispatchWrite
  BY <1>2 DEF DispatchWrite
<1>3. CASE DispatchCan
  BY <1>3 DEF DispatchCan
<1>4. CASE DispatchNoise
  BY <1>4 DEF DispatchNoise, Scanned
<1>5. CASE Swallow
  BY <1>5 DEF Swallow, Scanned
<1>6. CASE RestOfPayload
  BY <1>6 DEF RestOfPayload
<1>7. CASE Garbled
  BY <1>7 DEF Garbled, Scanned
<1> QED BY <1>1, <1>2, <1>3, <1>4, <1>5, <1>6, <1>7 DEF Dispatch

LEMMA DispatchHostInv ==
    ASSUME TInv, OneCommit, HostInv, Dispatch
    PROVE  HostInv'
<1> USE DEF HostInv, WhileHalf, WhileWrote, WhileEchoed, WhileCommitting
<1>1. CASE ReadTimeout
  <2>1. /\ UNCHANGED <<s_usb_rx_queue, active, reply, host, want>>
        /\ pc \in {"payload", "canframe"} /\ pc' = "idle"
    BY <1>1 DEF ReadTimeout
  <2>2. ~HandlesCommit
    BY <2>1 DEF HandlesCommit
  <2> QED BY <2>1, <2>2
<1>2. ASSUME NEW p, Takes(p), pc \in {"idle", "canframe", "payload"},
             pc' = "echo" => p = <<"close", staged'.props>>,
             pc = "idle" /\ p = Can => pc' = "idle" /\ staged' = staged,
             pc = "idle" /\ p = Cmt => pc' = "commit" /\ staged' = staged
      PROVE  HostInv'
  <2>1. UNCHANGED <<active, reply, host, want>>
    BY <1>2 DEF Takes
  <2>2. PICK w : w = want
    OBVIOUS
  <2>3. want' = w
    BY <2>1, <2>2
  <2>4. CASE host = "half"
    BY <1>2, <2>1, <2>2, <2>3, <2>4, TakesQueue
  <2>5. CASE host = "wrote"
    <3>1. /\ \A i \in 1..Len(s_usb_rx_queue') :
                s_usb_rx_queue'[i] = <<"close", w>> =>
                   \A j \in i+1..Len(s_usb_rx_queue') : s_usb_rx_queue'[j] = Can
          /\ p = <<"close", w>> => OnlyCan'
      BY <1>2, <2>2, <2>5, TakesQueue
    <3>2. ASSUME reply = <<"write", Whole(w)>>
          PROVE  pc' = "idle" /\ OnlyCan' /\ staged' = Whole(w)
      BY <1>2, <2>2, <2>5, <3>2, TakesQueue
    <3> QED BY <1>2, <2>1, <2>2, <2>3, <2>5, <3>1, <3>2
  <2>6. CASE host = "echoed"
    BY <1>2, <2>1, <2>6, TakesQueue
  <2>7. CASE host = "committing"
    <3>1. pc = "idle"
      BY <1>2, <2>7 DEF HandlesCommit
    <3>2. /\ p \in {Can, Cmt}
          /\ \A i \in 1..Len(s_usb_rx_queue') : s_usb_rx_queue'[i] \in {Can, Cmt}
      BY <1>2, <2>7, TakesQueue
    <3>3. staged' = staged /\ pc' \in {"idle", "commit"}
      BY <1>2, <3>1, <3>2
    <3> QED BY <2>1, <2>7, <3>1, <3>2, <3>3 DEF HandlesCommit
  <2> QED BY <2>1, <2>4, <2>5, <2>6, <2>7
<1> QED BY <1>1, <1>2, DispatchFacts

(* What the handlers do.                                                    *)
LEMMA HandleHostInv ==
    ASSUME TInv, OneCommit, HostInv, Handle
    PROVE  HostInv'
<1> USE DEF HostInv, WhileHalf, WhileWrote, WhileEchoed, WhileCommitting
<1>1. UNCHANGED <<s_usb_rx_queue, host, want>> /\ OnlyCan' = OnlyCan
  BY DEF Handle, Echo, ReadBack, Abort, Commit, OpenNvs, SaveMatrix,
         SaveProps, Acknowledge, Notify, Answer, OnlyCan
<1>2. pc # "idle"
  BY DEF Handle, Echo, ReadBack, Abort, Commit, OpenNvs, SaveMatrix,
         SaveProps, Acknowledge, Notify
<1>3. CASE Echo
  <2>1. /\ pc = "echo" /\ pc' = "idle" /\ staged' = staged
        /\ reply' \in {reply, <<"write", staged>>} /\ active' = active
    BY <1>3 DEF Echo, Answer
  <2>2. PICK w : w = want
    OBVIOUS
  <2>3. CASE host = "half"
    BY <1>1, <2>1, <2>3
  <2>4. CASE host = "wrote"
    <3>1. ASSUME reply' = <<"write", Whole(w)>>
          PROVE  staged = Whole(w) /\ OnlyCan
      <4>1. reply # <<"write", Whole(w)>>
        BY <2>1, <2>2, <2>4
      <4>2. staged = Whole(w)
        BY <2>1, <3>1, <4>1
      <4>3. staged.props = w
        BY <4>2 DEF Whole
      <4> QED BY <2>1, <2>2, <2>4, <4>2, <4>3
    <3> QED BY <1>1, <2>1, <2>2, <2>4, <3>1
  <2>5. CASE host = "committing"
    BY <2>1, <2>5 DEF HandlesCommit
  <2> QED BY <1>1, <1>2, <2>3, <2>4, <2>5
<1>4. CASE ReadBack \/ Abort
  <2>1. /\ pc \in {"read", "abort"} /\ pc' = "idle" /\ active' = active
        /\ reply' \in {reply, <<"read", NoUpload>>, <<"abort", NoUpload>>}
    BY <1>4 DEF ReadBack, Abort, Answer
  <2>2. CASE host = "committing"
    BY <2>1, <2>2 DEF HandlesCommit
  <2>3. CASE host \in {"half", "wrote"}
    BY <1>1, <1>2, <2>1, <2>3
  <2> QED BY <1>1, <1>2, <2>2, <2>3
<1>5. CASE HandlesCommit
  <2>1. host = "committing"
    BY <1>5 DEF OneCommit, AckMayCome
  <2>2. CASE Commit \/ OpenNvs \/ SaveMatrix \/ SaveProps
    <3>1. reply' = reply /\ reply[1] # "commit" /\ HandlesCommit'
      BY <1>5, <2>2 DEF Commit, OpenNvs, SaveMatrix, SaveProps, HandlesCommit,
                        OneCommit
    <3>2. Whole(want) # NoUpload
      <4>1. Whole(want) \in Config
        BY <2>1 DEF Whole, TInv, WantKnown, Config, Half
      <4> QED BY <4>1
    <3>3. CASE Commit
      BY <1>1, <2>1, <3>1, <3>2, <3>3 DEF Commit
    <3>4. CASE OpenNvs
      BY <1>1, <2>1, <3>1, <3>4 DEF OpenNvs
    <3>5. CASE SaveMatrix \/ SaveProps
      BY <1>1, <2>1, <3>1, <3>5 DEF SaveMatrix, SaveProps
    <3> QED BY <2>2, <3>3, <3>4, <3>5
  <2>3. CASE Acknowledge
    <3>1. /\ pc \in {"ack", "nothing"} /\ pc' \in {"idle", "notify"}
          /\ staged' = staged /\ active' = active
      BY <2>3 DEF Acknowledge, Answer
    <3>2. staged = NoUpload /\ active = Whole(want)
      BY <2>1, <3>1
    <3> QED BY <1>1, <2>1, <3>1, <3>2
  <2>4. ~Echo /\ ~ReadBack /\ ~Abort /\ ~Notify
    BY <1>5 DEF HandlesCommit, Echo, ReadBack, Abort, Notify
  <2> QED BY <2>2, <2>3, <2>4 DEF Handle
<1>6. CASE Notify
  <2>1. pc = "notify" /\ pc' = "idle" /\ UNCHANGED <<staged, active, reply>>
    BY <1>6 DEF Notify
  <2> QED BY <1>1, <2>1
<1>7. Commit \/ OpenNvs \/ SaveMatrix \/ SaveProps \/ Acknowledge => HandlesCommit
  BY DEF Commit, OpenNvs, SaveMatrix, SaveProps, Acknowledge, HandlesCommit
<1> QED BY <1>3, <1>4, <1>5, <1>6, <1>7 DEF Handle

LEMMA InitHostInv == Init => HostInv
BY DEF Init, HostInv, WhileHalf, WhileWrote, WhileEchoed, WhileCommitting

LEMMA NextHostInv == TInv /\ OneCommit /\ HostInv /\ [Next]_vars => HostInv'
<1> SUFFICES ASSUME TInv, OneCommit, HostInv, [Next]_vars PROVE HostInv'
  OBVIOUS
<1> USE DEF HostInv, WhileHalf, WhileWrote, WhileEchoed, WhileCommitting
<1>1. CASE PowerLoss
  BY <1>1 DEF PowerLoss
<1>2. CASE Next /\ ~PowerLoss
  BY <1>2, HostHostInv, DispatchHostInv, HandleHostInv DEF Next
<1>3. CASE UNCHANGED vars
  BY <1>3 DEF vars, OnlyCan, HandlesCommit
<1> QED BY <1>1, <1>2, <1>3

------------------------------------------------------------------------------
(* What is acknowledged, active, saved and live.                            *)

(* How far a COMMIT has come.                                               *)
SavedInv ==
    /\ pc \notin {"open", "matrix", "props"} => flash = active \/ unsaved
    /\ pc = "props" => flash.matrix = active.matrix \/ unsaved
    /\ pc \notin {"open", "matrix", "props", "ack", "notify"} => live = active

IInv ==
    /\ TInv /\ OneCommit /\ HostInv
    /\ SavedInv /\ ActiveIsOneUpload /\ AckedIsActive

LEMMA InitIInv == Init => IInv
<1> SUFFICES ASSUME Init PROVE IInv
  OBVIOUS
<1>1. SavedInv /\ ActiveIsOneUpload /\ AckedIsActive
  BY DEF Init, SavedInv, ActiveIsOneUpload, AckedIsActive
<1> QED BY <1>1, InitTInv, InitOneCommit, InitHostInv DEF IInv

(* Whatever is saved last, flash holds what is active when both are done.   *)
LEMMA NextSavedInv == IInv /\ [Next]_vars => SavedInv'
<1> SUFFICES ASSUME IInv, [Next]_vars PROVE SavedInv'
  OBVIOUS
<1> USE DEF SavedInv
<1>1. CASE UNCHANGED <<pc, active, live, flash, unsaved>>
  BY <1>1 DEF IInv
<1>2. CASE \/ \E u \in Upload : HostWrite(u)
           \/ \E c \in Command : HostAsks(c)
           \/ HostWriteRest \/ HostGivesUp \/ HostCommits \/ HostSendsCan
           \/ HostReads
  BY <1>1, <1>2 DEF HostWrite, HostAsks, HostWriteRest, HostGivesUp,
                    HostCommits, HostSendsCan, HostReads
<1>3. CASE Dispatch
  <2>1. /\ UNCHANGED <<active, live, flash, unsaved>>
        /\ pc \in {"idle", "canframe", "payload"}
        /\ pc' \notin {"open", "matrix", "props", "ack", "notify"}
    BY <1>3 DEF Dispatch, DispatchCommand, DispatchWrite, DispatchCan,
                DispatchNoise, Swallow, RestOfPayload, Garbled, ReadTimeout,
                Scanned, Takes, Command
  <2> QED BY <2>1 DEF IInv
<1>4. CASE Echo \/ ReadBack \/ Abort \/ Acknowledge
  BY <1>4 DEF Echo, ReadBack, Abort, Acknowledge, Answer, IInv
<1>5. CASE Commit
  BY <1>5 DEF Commit, IInv
<1>6. CASE OpenNvs
  BY <1>6 DEF OpenNvs
<1>7. CASE SaveMatrix
  <2>1. \/ flash' = [flash EXCEPT !.matrix = active.matrix]
        \/ unsaved' = TRUE
    BY <1>7 DEF SaveMatrix
  <2>2. flash \in Config /\ active' = active /\ pc' = "props"
    BY <1>7 DEF SaveMatrix, IInv, TInv, TypeOK
  <2>3. flash'.matrix = active'.matrix \/ unsaved'
    BY <2>1, <2>2 DEF Config
  <2> QED BY <2>2, <2>3
<1>8. CASE SaveProps
  <2>1. /\ flash \in Config /\ active \in Config /\ active' = active
        /\ pc = "props" /\ pc' = "ack"
    BY <1>8 DEF SaveProps, IInv, TInv, TypeOK
  <2>2. CASE unsaved' = TRUE
    BY <2>1, <2>2
  <2>3. CASE unsaved' # TRUE
    <3>1. /\ flash' = [flash EXCEPT !.props = active.props]
          /\ unsaved' = unsaved
      BY <1>8, <2>3 DEF SaveProps
    <3>2. flash.matrix = active.matrix
      BY <2>1, <2>3, <3>1 DEF IInv, TInv, TypeOK
    <3>3. flash' = active
      BY <2>1, <3>1, <3>2 DEF Config
    <3> QED BY <2>1, <3>3
  <2> QED BY <2>2, <2>3
<1>9. CASE Notify
  BY <1>9 DEF Notify, IInv
<1>10. CASE PowerLoss
  BY <1>10 DEF PowerLoss
<1>11. CASE UNCHANGED vars
  BY <1>1, <1>11 DEF vars
<1> QED
  BY <1>2, <1>3, <1>4, <1>5, <1>6, <1>7, <1>8, <1>9, <1>10, <1>11
     DEF Next, Handle

(* Only COMMIT makes something active, and only what the host has checked.  *)
LEMMA NextActive ==
    IInv /\ [Next]_vars => ActiveIsOneUpload' /\ AckedIsActive'
<1> SUFFICES ASSUME IInv, [Next]_vars
             PROVE  ActiveIsOneUpload' /\ AckedIsActive'
  OBVIOUS
<1> USE DEF ActiveIsOneUpload, AckedIsActive
<1>1. CASE HostReads
  <2>1. CASE host = "committing" /\ reply[1] = "commit"
    BY <1>1, <2>1 DEF HostReads, IInv, HostInv, WhileCommitting
  <2>2. CASE ~(host = "committing" /\ reply[1] = "commit")
    <3>1. /\ UNCHANGED <<active, flash, acked>>
          /\ host = "committing" => host' = "committing"
      BY <1>1, <2>2 DEF HostReads
    <3> QED BY <3>1 DEF IInv
  <2> QED BY <2>1, <2>2
<1>2. CASE \/ \E u \in Upload : HostWrite(u)
           \/ \E c \in Command : HostAsks(c)
           \/ HostWriteRest \/ HostGivesUp \/ HostCommits \/ HostSendsCan
  <2>1. /\ UNCHANGED <<active, flash, acked>>
        /\ host = "committing" => host' = "committing"
    BY <1>2 DEF HostWrite, HostAsks, HostWriteRest, HostGivesUp, HostCommits,
                HostSendsCan
  <2> QED BY <2>1 DEF IInv
<1>3. CASE Dispatch \/ Echo \/ ReadBack \/ Abort \/ Acknowledge \/ Notify
  <2>1. UNCHANGED <<active, flash, acked, host>>
    BY <1>3 DEF Dispatch, DispatchCommand, DispatchWrite, DispatchCan,
                DispatchNoise, Swallow, RestOfPayload, Garbled, ReadTimeout,
                Takes, Echo, ReadBack, Abort, Acknowledge, Notify, Answer
  <2> QED BY <2>1 DEF IInv
<1>4. CASE Commit \/ OpenNvs \/ SaveMatrix \/ SaveProps
  <2>1. host = "committing" /\ host' = host /\ acked' = acked
    BY <1>4 DEF Commit, OpenNvs, SaveMatrix, SaveProps, IInv, OneCommit,
                AckMayCome, HandlesCommit
  <2>2. \/ active' = Whole(want)
        \/ active' = active /\ flash' = flash
    BY <1>4, <2>1 DEF Commit, OpenNvs, SaveMatrix, SaveProps, IInv, HostInv,
                      WhileCommitting
  <2>3. Whole(want).matrix = Whole(want).props
    BY DEF Whole
  <2> QED BY <2>1, <2>2, <2>3 DEF IInv
<1>5. CASE PowerLoss
  BY <1>5 DEF PowerLoss
<1>6. CASE UNCHANGED vars
  BY <1>6 DEF vars, IInv
<1> QED BY <1>1, <1>2, <1>3, <1>4, <1>5, <1>6 DEF Next, Handle

LEMMA Invariance == Spec => []IInv
<1>1. IInv /\ [Next]_vars => IInv'
  BY NextTInv, NextOneCommit, NextHostInv, NextSavedInv, NextActive DEF IInv
<1> QED BY <1>1, InitIInv, PTL DEF Spec

(* A host that got the answer to its COMMIT finds its upload active,        *)
(* whatever was lost, spliced, repeated or timed out on the way.            *)
THEOREM AcknowledgedIsActive == Spec => []AckedIsActive
<1>1. IInv => AckedIsActive
  BY DEF IInv
<1> QED BY <1>1, Invariance, PTL

(* prog_get_matrix() and prog_get_column_properties() belong to one upload, *)
(* or are what the flash holds.                                             *)
THEOREM NoMixedUpload == Spec => []ActiveIsOneUpload
<1>1. IInv => ActiveIsOneUpload
  BY DEF IInv
<1> QED BY <1>1, Invariance, PTL

(* Outside of COMMIT, flash and columns have what is active, unless a save  *)
(* failed.                                                                  *)
THEOREM ActiveIsSaved == Spec => []SavedAndLive
<1>1. IInv => SavedAndLive
  BY DEF IInv, SavedInv, SavedAndLive, HandlesCommit
<1> QED BY <1>1, Invariance, PTL
==============================================================================
