---------------------------- MODULE FrameChannel ----------------------------
(***************************************************************************)
(* What a handler of the controller may rely on, however the stream of a    *)
(* connection is cut into segments and reads: the frames are handed over    *)
(* whole, in order, each once, and the connection is given up only after    *)
(* the frame that asks for it, for a frame that is malformed, for more      *)
(* unread bytes than the loop buffers, or because the peer is gone.         *)
(***************************************************************************)
EXTENDS Frames

VARIABLES sent, delivered, open, gone

channel_vars == <<sent, delivered, open, gone>>

Init ==
    /\ sent = <<>>
    /\ delivered = <<>>
    /\ open = TRUE
    /\ gone = FALSE

Pending == Len(delivered) < Len(sent)

NextFrame == sent[Len(delivered) + 1]

Send(header) ==
    /\ ~gone
    /\ Len(sent) < MaxFrames
    /\ sent' = Append(sent, BuildFrame(EndOfFirst(sent, Len(sent)), header))
    /\ UNCHANGED <<delivered, open, gone>>

Leave ==
    /\ ~gone
    /\ gone' = TRUE
    /\ UNCHANGED <<sent, delivered, open>>

Deliver ==
    /\ open
    /\ Pending
    /\ Acceptable(NextFrame.header)
    /\ delivered' = Append(delivered, NextFrame)
    /\ open' = ~NextFrame.header.final
    /\ UNCHANGED <<sent, gone>>

Unread == EndOfFirst(sent, Len(sent)) - EndOfFirst(sent, Len(delivered))

Close ==
    /\ open
    /\ \/ gone
       \/ Pending /\ ~Acceptable(NextFrame.header)
       \/ Unread > BufferLimit
    /\ open' = FALSE
    /\ UNCHANGED <<sent, delivered, gone>>

Next == (\E header \in Header : Send(header)) \/ Leave \/ Deliver \/ Close

Spec == Init /\ [][Next]_channel_vars
=============================================================================
