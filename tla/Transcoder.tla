----------------------------- MODULE Transcoder -----------------------------
(***************************************************************************)
(* ffmpeg/ffmpeg_encoder.cpp: reads the packets of a video file, decodes   *)
(* them, and encodes every frame into test.h264 with EncoderH264.          *)
(* ffmpeg/ffmpeg_test.cpp: the same without an encoder.                    *)
(*                                                                         *)
(* The codecs are pipelines: a decoder or encoder may keep frames back up  *)
(* to its delay and gives out the rest.  A packet of the video holds any   *)
(* number of frames (ffmpeg_encoder.cpp:285), each known by its place in   *)
(* the video.  Any call on a codec or on the output may fail; main looks   *)
(* at the result of some, not of others.                                   *)
(***************************************************************************)
EXTENDS Naturals, Sequences, FiniteSets

CONSTANTS Input,        \* the packets, each with its stream and its frames
          DecoderDelay, \* frames the decoder may keep back
          EncoderDelay, \* frames the encoder may keep back
          MaxErrors     \* bound on the calls that fail

VARIABLES
    program,    \* which of the two runs
    pc,         \* the call main is about to make
    avPacket,   \* packets read
    packetNum,  \* packets of the video among them
    codecCtx,   \* frames in the decoder
    picture,    \* the frame sws_scale has put in avFrameYUV420P
    pts,        \* frames decoded: main counts frameNum and the picture's pts up together
    m_codecCtx, \* frames in the encoder, each with its pts
    pkt,        \* the packet encode has at hand: none or one
    file,       \* the packets in the output file
    frames,     \* history: frames of the packets that were sent to the decoder
    lastRet,    \* history: what ended the inner loop the last time, "EAGAIN" or an error
    undecoded,  \* history: frames an error has cost before they were decoded
    lost,       \* history: frames an error has cost after that
    errors

codecs == <<codecCtx, picture, pts, m_codecCtx, pkt>>
sent == <<frames, lastRet>>
vars == <<program, pc, avPacket, packetNum, codecs, file, sent, undecoded, lost, errors>>

Init ==
    /\ program \in {"ffmpeg_encoder", "ffmpeg_test"}
    /\ pc = "setup"
    /\ avPacket = 0 /\ packetNum = 0
    /\ codecCtx = << >> /\ picture = 0 /\ pts = 0
    /\ m_codecCtx = << >> /\ pkt = {}
    /\ file = << >>
    /\ frames = 0 /\ lastRet = "EAGAIN" /\ undecoded = {} /\ lost = {}
    /\ errors = 0

Goto(from, to) == pc = from /\ pc' = to /\ UNCHANGED program

\* What comes after the loop over the packets.
AfterLoop == IF program = "ffmpeg_encoder" THEN "writeTrailer" ELSE "returned"

\* A call fails, and the control goes on at label to.
Fails(from, to) ==
    /\ Goto(from, to) /\ errors < MaxErrors
    /\ errors' = errors + 1

-----------------------------------------------------------------------------
(* main *)

\* The input and the decoder are open, and the encoder's header is written.
SetUp ==
    /\ program = "ffmpeg_encoder"
    /\ Goto("setup", "av_read_frame")
    /\ UNCHANGED <<avPacket, packetNum, codecs, file, sent, undecoded, lost, errors>>

\* The input and the decoder are open.
SetUpTest ==
    /\ program = "ffmpeg_test"
    /\ Goto("setup", "av_read_frame")
    /\ UNCHANGED <<avPacket, packetNum, codecs, file, sent, undecoded, lost, errors>>

\* An early return, or a failed assertion.
SetUpFails ==
    /\ Fails("setup", "failed")
    /\ UNCHANGED <<avPacket, packetNum, codecs, file, sent, undecoded, lost>>

ReadFrame ==
    /\ avPacket < Len(Input)
    /\ avPacket' = avPacket + 1
    /\ IF Input[avPacket'].stream = "video"
         THEN Goto("av_read_frame", "avcodec_send_packet") /\ packetNum' = packetNum + 1
         ELSE Goto("av_read_frame", "av_read_frame") /\ UNCHANGED packetNum
    /\ UNCHANGED <<codecs, file, sent, undecoded, lost, errors>>

ReadEnds ==
    /\ avPacket = Len(Input)
    /\ Goto("av_read_frame", AfterLoop)
    /\ UNCHANGED <<avPacket, packetNum, codecs, file, sent, undecoded, lost, errors>>

\* To main an error looks like the end of the input.
ReadFails ==
    /\ avPacket < Len(Input)
    /\ Fails("av_read_frame", AfterLoop)
    /\ UNCHANGED <<avPacket, packetNum, codecs, file, sent, undecoded, lost>>

\* The frames of the packet at hand, and how many frames there are with them.
PacketFrames == [k \in 1..Input[avPacket].holds |-> frames + k]
FramesSent == frames + Input[avPacket].holds

SendPacket ==
    /\ Goto("avcodec_send_packet", "avcodec_receive_frame")
    /\ codecCtx' = codecCtx \o PacketFrames /\ frames' = FramesSent
    /\ UNCHANGED <<avPacket, packetNum, picture, pts, m_codecCtx, pkt, file, lastRet, undecoded,
                   lost, errors>>

\* A packet the decoder refuses ends the loop.
SendPacketFails ==
    /\ Fails("avcodec_send_packet", AfterLoop)
    /\ undecoded' = undecoded \cup (frames + 1)..FramesSent /\ frames' = FramesSent
    /\ UNCHANGED <<avPacket, packetNum, codecs, file, lastRet, lost>>

\* Mutant: the pts is that of the packet.
ReceiveFrameOfPacket ==
    /\ program = "ffmpeg_encoder"
    /\ Goto("avcodec_receive_frame", "avcodec_send_frame")
    /\ codecCtx # << >>
    /\ picture' = Head(codecCtx) /\ codecCtx' = Tail(codecCtx)
    /\ pts' = packetNum
    /\ UNCHANGED <<avPacket, packetNum, m_codecCtx, pkt, file, sent, undecoded, lost, errors>>

\* A frame out of the decoder, scaled into the frame main encodes from.
ReceiveFrame ==
    /\ program = "ffmpeg_encoder"
    /\ Goto("avcodec_receive_frame", "avcodec_send_frame")
    /\ codecCtx # << >>
    /\ picture' = Head(codecCtx) /\ codecCtx' = Tail(codecCtx)
    /\ pts' = pts + 1
    /\ UNCHANGED <<avPacket, packetNum, m_codecCtx, pkt, file, sent, undecoded, lost, errors>>

\* The same frame in the program without an encoder: it is counted.
CountFrame ==
    /\ program = "ffmpeg_test"
    /\ Goto("avcodec_receive_frame", "avcodec_receive_frame")
    /\ codecCtx # << >>
    /\ picture' = Head(codecCtx) /\ codecCtx' = Tail(codecCtx)
    /\ pts' = pts + 1
    /\ UNCHANGED <<avPacket, packetNum, m_codecCtx, pkt, file, sent, undecoded, lost, errors>>

\* The decoder wants another packet first.
ReceiveFrameAgain ==
    /\ Goto("avcodec_receive_frame", "av_read_frame")
    /\ Len(codecCtx) <= DecoderDelay
    /\ lastRet' = "EAGAIN"
    /\ UNCHANGED <<avPacket, packetNum, codecs, file, frames, undecoded, lost, errors>>

\* A frame that cannot be decoded ends the inner loop like one that is not there
\* yet: those behind it stay in the decoder until another packet has come.
ReceiveFrameFails ==
    /\ codecCtx # << >>
    /\ Fails("avcodec_receive_frame", "av_read_frame")
    /\ undecoded' = undecoded \cup {Head(codecCtx)}
    /\ codecCtx' = Tail(codecCtx)
    /\ lastRet' = "error"
    /\ UNCHANGED <<avPacket, packetNum, picture, pts, m_codecCtx, pkt, file, frames, lost>>

\* The file is complete; main releases what it has allocated.
WriteTrailer ==
    /\ Goto("writeTrailer", "returned")
    /\ UNCHANGED <<avPacket, packetNum, codecs, file, sent, undecoded, lost, errors>>

-----------------------------------------------------------------------------
(* EncoderH264::encode, whose result main does not look at *)

SendFrame ==
    /\ Goto("avcodec_send_frame", "avcodec_receive_packet")
    /\ m_codecCtx' = Append(m_codecCtx, <<picture, pts>>)
    /\ UNCHANGED <<avPacket, packetNum, codecCtx, picture, pts, pkt, file, sent, undecoded, lost, errors>>

SendFrameFails ==
    /\ Fails("avcodec_send_frame", "avcodec_receive_frame")
    /\ lost' = lost \cup {picture}
    /\ UNCHANGED <<avPacket, packetNum, codecs, file, sent, undecoded>>

ReceivePacket ==
    /\ Goto("avcodec_receive_packet", "av_interleaved_write_frame")
    /\ m_codecCtx # << >>
    /\ pkt' = {Head(m_codecCtx)} /\ m_codecCtx' = Tail(m_codecCtx)
    /\ UNCHANGED <<avPacket, packetNum, codecCtx, picture, pts, file, sent, undecoded, lost, errors>>

\* Mutant: main ends the loop when encode returns false.
ReceivePacketEnds ==
    /\ Goto("avcodec_receive_packet", "writeTrailer")
    /\ Len(m_codecCtx) <= EncoderDelay
    /\ UNCHANGED <<avPacket, packetNum, codecs, file, sent, undecoded, lost, errors>>

\* The encoder wants another frame first; encode returns false.
ReceivePacketAgain ==
    /\ Goto("avcodec_receive_packet", "avcodec_receive_frame")
    /\ Len(m_codecCtx) <= EncoderDelay
    /\ UNCHANGED <<avPacket, packetNum, codecs, file, sent, undecoded, lost, errors>>

\* The frame that could not be encoded is gone.
ReceivePacketFails ==
    /\ m_codecCtx # << >>
    /\ Fails("avcodec_receive_packet", "avcodec_receive_frame")
    /\ lost' = lost \cup {Head(m_codecCtx)[1]}
    /\ m_codecCtx' = Tail(m_codecCtx)
    /\ UNCHANGED <<avPacket, packetNum, codecCtx, picture, pts, pkt, file, sent, undecoded>>

\* The packet is in the file, and encode asks for the next.
WriteFrame ==
    /\ Goto("av_interleaved_write_frame", "avcodec_receive_packet")
    /\ \E p \in pkt : file' = Append(file, p)
    /\ pkt' = {}
    /\ UNCHANGED <<avPacket, packetNum, codecCtx, picture, pts, m_codecCtx, sent, undecoded, lost, errors>>

WriteFrameFails ==
    /\ Fails("av_interleaved_write_frame", "avcodec_receive_frame")
    /\ lost' = lost \cup {p[1] : p \in pkt}
    /\ pkt' = {}
    /\ UNCHANGED <<avPacket, packetNum, codecCtx, picture, pts, m_codecCtx, file, sent, undecoded>>
-----------------------------------------------------------------------------
Main == \/ SetUp \/ SetUpTest \/ SetUpFails \/ ReadFrame \/ ReadEnds \/ ReadFails
        \/ SendPacket \/ SendPacketFails \/ ReceiveFrame \/ CountFrame \/ ReceiveFrameAgain \/ ReceiveFrameFails
        \/ WriteTrailer

Encode == \/ SendFrame \/ SendFrameFails
          \/ ReceivePacket \/ ReceivePacketAgain \/ ReceivePacketFails
          \/ WriteFrame \/ WriteFrameFails

Next == Main \/ Encode

Spec == Init /\ [][Next]_vars

-----------------------------------------------------------------------------
Written == {file[i][1] : i \in DOMAIN file}
VideoPackets == Cardinality({i \in DOMAIN Input : Input[i].stream = "video"})

\* The packets of the file come in the order of the video, and each carries as
\* its pts the place of its frame among those decoded, whatever calls have
\* failed before: main counts the pts up for a decoded frame, not for a packet
\* read or written.
InStep ==
    /\ \A i \in DOMAIN file :
         file[i][2] = file[i][1] - Cardinality({f \in undecoded : f < file[i][1]})
    /\ \A i, j \in DOMAIN file : i < j => file[i][2] < file[j][2]

\* Neither codec is flushed.  What that costs is the end of the video and no
\* more than the codecs keep back: a frame missing without an error comes after
\* all that are written, and the frames counted are short of those sent by no
\* more, unless an error has kept main from asking for the last packet's.  If no
\* call failed, the whole input was read.
OnlyTailMissing ==
    pc = "returned" =>
        LET missing == (1..frames) \ (Written \cup lost \cup undecoded)
        IN  /\ lastRet = "EAGAIN" => frames - (pts + Cardinality(undecoded)) \in 0..DecoderDelay
            /\ errors = 0 => packetNum = VideoPackets
            /\ program = "ffmpeg_encoder" =>
                 /\ \A m \in missing, w \in Written : w < m
                 /\ lastRet = "EAGAIN" => Cardinality(missing) <= DecoderDelay + EncoderDelay
=============================================================================
