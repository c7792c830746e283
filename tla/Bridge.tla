------------------------------- MODULE Bridge -------------------------------
(***************************************************************************)
(* A session over a WebSocket: bridge_ws_reencrypt of proxy/bridge.py with  *)
(* its two tasks, and send, send_batch, recv and close of RawWebSocket      *)
(* (proxy/raw_websocket.py), which the tasks share.  The splitter is the    *)
(* one of MsgSplitter; without one every chunk is a frame, which is what a  *)
(* disabled splitter does.                                                 *)
(*                                                                         *)
(* Code between two awaits is one step: an await is a value of up, down or  *)
(* main.  Bytes from Telegram are only counted.  An operator X_Y is a       *)
(* faulty variant of X that some property must catch.                       *)
(***************************************************************************)
EXTENDS MsgSplitter

CONSTANTS
  MaxMessage,   \* MAX_MESSAGE_LEN
  MaxDown       \* bound: the bytes Telegram sends in one session

ASSUME DownAssumption == MaxMessage \in Nat /\ MaxDown \in Nat

VARIABLES
  up,         \* where tcp_to_ws is
  down,       \* where ws_to_tcp is
  main,       \* where bridge_ws_reencrypt is
  closedBy,   \* who closed the WebSocket; _closed is closedBy # "none"
  wire,       \* how many of the splitter's frames were written to it
  conn,       \* whether its transport was closed, or close() was cancelled
  frag,       \* the length of _frag
  received,   \* bytes of data frames read from the WebSocket
  delivered   \* bytes written to the client

upVars == <<up, wire, splitVars>>
downVars == <<down, frag, received, delivered>>
vars == <<upVars, downVars, main, closedBy, conn>>

Ended == {"eof", "error", "cancelled", "closed"}
Closed == closedBy # "none"

Init ==
  /\ plain \in Streams /\ proto \in Protos
  /\ fed = 0 /\ ends = <<>> /\ flushed = FALSE
  /\ disabled \in BOOLEAN
  /\ up = "read" /\ down = "recv" /\ main = "wait"
  /\ closedBy = "none" /\ wire = 0 /\ conn = "open"
  /\ frag = 0 /\ received = 0 /\ delivered = 0

-----------------------------------------------------------------------------
(* tcp_to_ws.                                                              *)

(* send() or send_batch() of the frames the splitter just returned.        *)
Send_Unchecked(next) == wire' = Len(ends') /\ up' = next
Send(next) ==
  IF Closed THEN up' = "error" /\ UNCHANGED wire
  ELSE wire' = Len(ends') /\ up' = next

UpChunk(n) ==
  /\ up = "read"
  /\ Split(n)
  /\ IF ends' = ends THEN UNCHANGED <<up, wire>> ELSE Send("drain")

UpEof_NoFlush ==
  /\ up = "read" /\ up' = "eof"
  /\ UNCHANGED <<wire, splitVars>>
UpEof ==
  /\ up = "read"
  /\ Flush
  /\ IF ends' = ends THEN up' = "eof" /\ UNCHANGED wire ELSE Send("flush")

UpDrained ==
  /\ up \in {"drain", "flush"}
  /\ up' = IF up = "flush" THEN "eof" ELSE "read"
  /\ UNCHANGED <<wire, splitVars>>

(* The client's connection or the drain of the WebSocket's fails.          *)
UpFails ==
  /\ up \in {"read", "drain", "flush"}
  /\ up' = "error"
  /\ UNCHANGED <<wire, splitVars>>

UpStep ==
  /\ \/ \E n \in 1..(Len(plain) - fed) : UpChunk(n)
     \/ UpEof \/ UpDrained \/ UpFails
  /\ UNCHANGED <<downVars, main, closedBy, conn>>

-----------------------------------------------------------------------------
(* ws_to_tcp.                                                              *)

(* recv() reads a data frame of n bytes.                                   *)
DownFrame_Restarts(n, fin) ==
  /\ down = "recv"
  /\ received' = received + n
  /\ IF fin THEN delivered' = delivered + n /\ frag' = 0 /\ down' = "drain"
     ELSE frag' = frag + n /\ UNCHANGED <<delivered, down>>
  /\ UNCHANGED closedBy
DownFrame(n, fin) ==
  LET size == frag + n
      whole == fin /\ frag = 0
  IN  /\ down = "recv"
      /\ received' = received + n
      /\ \/ /\ size > MaxMessage /\ ~whole
            /\ frag' = size /\ down' = "error" /\ UNCHANGED delivered
         \/ /\ size <= MaxMessage /\ ~fin
            /\ frag' = size /\ UNCHANGED <<down, delivered>>
         \/ /\ fin /\ (whole \/ size <= MaxMessage)
            /\ delivered' = delivered + size /\ frag' = 0 /\ down' = "drain"
      /\ UNCHANGED closedBy

(* A PING, whose PONG is written and drained before recv() goes on, or an  *)
(* OP_CLOSE, which is answered and drained before recv() returns None.     *)
DownPing == down = "recv" /\ down' = "pong" /\ UNCHANGED <<frag, received, delivered, closedBy>>
DownClose ==
  /\ down = "recv" /\ down' = "bye"
  /\ closedBy' = "peer"
  /\ UNCHANGED <<frag, received, delivered>>

DownDrained ==
  /\ down \in {"drain", "pong", "bye"}
  /\ down' = IF down = "bye" THEN "closed" ELSE "recv"
  /\ UNCHANGED <<frag, received, delivered, closedBy>>

(* The connection ends, or the client's drain fails; a failed drain of a   *)
(* PONG or of the answer to OP_CLOSE is swallowed.                         *)
DownFails ==
  /\ down \in {"recv", "drain"}
  /\ down' = "error"
  /\ UNCHANGED <<frag, received, delivered, closedBy>>

DownStep ==
  /\ \/ \E n \in 0..(MaxDown - received), fin \in BOOLEAN :
           n <= MaxMessage /\ DownFrame(n, fin)
     \/ DownPing \/ DownClose \/ DownDrained \/ DownFails
  /\ UNCHANGED <<upVars, main, conn>>

-----------------------------------------------------------------------------
(* The session itself.                                                     *)

Over_Both == up \in Ended /\ down \in Ended
Over == up \in Ended \/ down \in Ended

(* asyncio.wait returns, or the handler is cancelled in it.                *)
CancelTasks(stopped) ==
  /\ main = "wait"
  /\ stopped \/ Over
  /\ main' = "cancel"
  /\ UNCHANGED <<upVars, downVars, closedBy, conn>>

(* A task ends when its cancellation reaches it.                           *)
UpCancelled ==
  /\ main = "cancel" /\ up \notin Ended
  /\ up' = "cancelled"
  /\ UNCHANGED <<wire, splitVars, downVars, main, closedBy, conn>>
DownCancelled ==
  /\ main = "cancel" /\ down \notin Ended
  /\ down' = "cancelled"
  /\ UNCHANGED <<frag, received, delivered, upVars, main, closedBy, conn>>

(* Both were awaited: ws.close(), which returns at once when the WebSocket *)
(* is closed already.                                                      *)
CloseWs_ClientOnly ==
  /\ main = "cancel" /\ up \in Ended /\ down \in Ended
  /\ main' = "client"
  /\ UNCHANGED <<upVars, downVars, closedBy, conn>>
CloseWs ==
  /\ main = "cancel" /\ up \in Ended /\ down \in Ended
  /\ IF Closed THEN main' = "client" /\ UNCHANGED closedBy
     ELSE main' = "ws" /\ closedBy' = "us"
  /\ UNCHANGED <<upVars, downVars, conn>>

(* The drain of OP_CLOSE ends or fails, then writer.close(); a             *)
(* cancellation of the handler in that drain skips it.                     *)
WsClosed(stopped) ==
  /\ main = "ws" /\ main' = "client"
  /\ conn' = IF stopped THEN "cancelled" ELSE "closed"
  /\ UNCHANGED <<upVars, downVars, closedBy>>

CloseClient ==
  /\ main = "client" /\ main' = "done"
  /\ UNCHANGED <<upVars, downVars, closedBy, conn>>

Done == main = "done" /\ UNCHANGED vars

Teardown == CancelTasks(FALSE) \/ UpCancelled \/ DownCancelled \/ CloseWs \/ CloseClient

Next ==
  \/ UpStep \/ DownStep
  \/ Teardown \/ CancelTasks(TRUE)
  \/ \E stopped \in BOOLEAN : WsClosed(stopped)
  \/ Done

(* The event loop runs what is ready: no peer is needed for these steps.   *)
Spec == Init /\ [][Next]_vars /\ WF_vars(Teardown)

-----------------------------------------------------------------------------
(* Every variable has its type; no byte is delivered twice.                *)
TypeOK ==
  /\ up \in {"read", "drain", "flush"} \cup Ended
  /\ down \in {"recv", "drain", "pong", "bye"} \cup Ended
  /\ main \in {"wait", "cancel", "ws", "client", "done"}
  /\ closedBy \in {"none", "peer", "us"} /\ conn \in {"open", "closed", "cancelled"}
  /\ wire \in 0..Len(ends) /\ received \in 0..MaxDown
  /\ frag \in 0..MaxDown /\ delivered \in 0..(MaxDown - frag)

(* The client's bytes reach Telegram.  A frame the splitter returned is    *)
(* missing on the wire only if Telegram had closed the WebSocket, and then *)
(* tcp_to_ws is over; when it ends at the client's EOF every byte the      *)
(* client sent was written, a cut-off last packet included.                *)
FramesWritten ==
  /\ up = "eof" => wire = Len(ends)
  /\ wire # Len(ends) => closedBy = "peer" /\ up = "error"
UplinkExact == FramesWritten /\ (up = "eof" => Sent = fed)

(* Every data byte read is delivered or part of the message being put      *)
(* together, whatever PINGs come between its fragments; a message above    *)
(* the limit ends ws_to_tcp.                                               *)
DownlinkExact ==
  /\ received = delivered + frag
  /\ frag > MaxMessage => down = "error"

(* No data frame follows an OP_CLOSE, of whichever side.                   *)
NoFrameAfterClose == [][Closed => wire' = wire]_vars

(* When the session is over its WebSocket is closed, and its transport too *)
(* unless Telegram closed first, whose answer to recv() leaves the         *)
(* transport to Telegram, or the handler was cancelled in ws.close().      *)
Released == main = "done" => Closed /\ (conn = "open" => closedBy = "peer")

(* Once one direction ends, the other one does, and the bridge gets to     *)
(* closing both connections without waiting for a peer.                    *)
TearsDown == up \in Ended \/ down \in Ended ~> main \in {"ws", "client", "done"}
=============================================================================
