------------------------------- MODULE UsbdBulk -------------------------------
(***************************************************************************)
(* The asynchronous bulk transfers of the USB host service,                *)
(* usb/hal/service/src/usbd_dispatcher.c: a client shares a buffer, the    *)
(* requests (nodes) of the pipe's list carry it a packet at a time, each   *)
(* completion submits its node again while data is left, and the client's  *)
(* callback is told once at the end.  The dispatcher's thread and the      *)
(* thread that completes requests interleave at the locks elock and        *)
(* asmHandle.lock.                                                         *)
(***************************************************************************)
EXTENDS Integers, FiniteSets

CONSTANTS
    Node,           \* the nodes of the list, USBD_BULKASYNCREQ_NUM_MAX of them
    maxPacketSize,
    Sizes           \* of the buffers that clients share

ASSUME BulkAssumption ==
    /\ IsFiniteSet(Node) /\ Node # {}
    /\ maxPacketSize \in Nat \ {0}
    /\ Sizes \subseteq Nat

VARIABLES
    dir,        \* of the pipe, "read" or "write"
    handle,     \* asmHandle: the buffer and how far it has been asked for and filled
    cb,         \* is a callback registered?
    tcb,        \* what FunBulkCancel puts back
    use,        \* of each node
    eList,      \* the nodes that are free
    flight,     \* of each node, the length of its submitted request, or 0
    cancelled,  \* the nodes whose request is being cancelled
    disp,       \* the dispatcher's thread
    comp,       \* the completion thread
    ghost       \* what became of the client's transfer

bulkVars == <<dir, handle, cb, tcb, use, eList, flight, cancelled, disp, comp, ghost>>

NUM_MAX == Cardinality(Node)
closed == [size |-> 0, cur |-> 0, rcur |-> 0, open |-> FALSE, cbflg |-> FALSE]
idle == [pc |-> "idle"]
InFlight == {n \in Node : flight[n] > 0}
DispHolds == {n \in Node : disp.pc \in {"ask", "submit", "put back"} /\ disp.node = n}
CompHolds == {n \in Node : comp.pc \in {"put", "ask", "submit", "put back"} /\ comp.node = n}

BulkTypeOK ==
    /\ dir \in {"read", "write"}
    /\ handle \in [size : Nat, cur : Nat, rcur : Nat, open : BOOLEAN, cbflg : BOOLEAN]
    /\ cb \in BOOLEAN /\ tcb \in BOOLEAN
    /\ use \in [Node -> {"init", "nouse", "other"}]
    /\ eList \subseteq Node
    /\ flight \in [Node -> 0 .. maxPacketSize]
    /\ cancelled \subseteq Node

\* told: how often the client was told; moved: what the device took or gave;
\* asked: a request was submitted.  Then what excuses: refused, the dispatcher
\* answered with an error; raced, the nodes were counted while the dispatcher held
\* one; stale, requests of the transfer before were still about; late, FunBulkCancel
\* gave up waiting for a completion; deaf, no callback was registered; lost, the
\* message to the client could not be built or sent.
BulkInit ==
    /\ dir \in {"read", "write"}
    /\ handle = closed
    /\ cb = TRUE
    /\ tcb = FALSE
    /\ use = [n \in Node |-> "init"]
    /\ eList = Node
    /\ flight = [n \in Node |-> 0]
    /\ cancelled = {}
    /\ disp = idle
    /\ comp = idle
    /\ ghost = [active |-> FALSE, told |-> 0, moved |-> 0, honest |-> TRUE, asked |-> FALSE, refused |-> FALSE,
                raced |-> FALSE, stale |-> FALSE, late |-> FALSE, deaf |-> FALSE, lost |-> FALSE]

------------------------------------------------------------------------------
(***************************************************************************)
(* The buffer, under asmHandle.lock: the next piece to ask for, and what a *)
(* read returned.                                                          *)
(***************************************************************************)
Least(a, b) == IF a < b THEN a ELSE b
Piece == Least(handle.size - handle.cur, maxPacketSize)

UsbdBulkAsyncGetAsmReqLen ==
    IF handle.size < 1 \/ handle.cur >= handle.size THEN [len |-> 0, ret |-> "nodata"]
    ELSE [len |-> Piece, ret |-> "ok"]
UsbdBulkAsyncGetAsmData ==
    IF handle.size < 1 THEN [len |-> 0, ret |-> "io"]
    ELSE IF handle.cur < handle.size THEN [len |-> Piece, ret |-> "ok"]
    ELSE [len |-> 0, ret |-> "nodata"]
Ask == IF dir = "read" THEN UsbdBulkAsyncGetAsmReqLen ELSE UsbdBulkAsyncGetAsmData

UsbdBulkASyncPutAsmData(len) ==
    IF len < 1 THEN [handle |-> handle, ret |-> "invalid"]
    ELSE IF ~handle.open THEN [handle |-> handle, ret |-> "bad fd"]
    ELSE [handle |-> [handle EXCEPT !.rcur = @ + Least(handle.size - @, len)], ret |-> "ok"]

UsbdBulkASyncReqNodeSetNoUse(n) ==
    /\ use' = [use EXCEPT ![n] = "nouse"]
    /\ eList' = eList \cup {n}

ReleaseAsmBufferHandle == handle' = closed

------------------------------------------------------------------------------
(***************************************************************************)
(* The dispatcher: a transfer is started with as many nodes as there is    *)
(* data for, whatever became of the one before.                            *)
(***************************************************************************)
\* FunBulkRead and FunBulkWrite: the old buffer is let go of first.  What was told is
\* counted from here, as cbflg is cleared.
FunBulk(size) ==
    /\ disp = idle
    /\ ReleaseAsmBufferHandle
    /\ disp' = [pc |-> "map", size |-> size]
    /\ ghost' = [ghost EXCEPT !.told = 0, !.stale = @ \/ InFlight # {} \/ comp # idle]
    /\ UNCHANGED <<dir, cb, tcb, use, eList, flight, cancelled, comp>>

\* InitAsmBufferHandle takes over the new one without the lock: requests of the
\* transfer before may still ask, store or tell between its assignments.
InitAsmBufferHandle ==
    /\ \/ /\ disp.pc = "map"
          /\ handle' = [handle EXCEPT !.open = TRUE, !.size = disp.size]
          /\ disp' = [pc |-> "reset"]
          /\ UNCHANGED ghost
       \/ /\ disp.pc = "reset"
          /\ handle' = [handle EXCEPT !.cur = 0, !.rcur = 0, !.cbflg = FALSE]
          /\ disp' = [pc |-> "take", turns |-> 0]
          /\ ghost' = [ghost EXCEPT !.active = TRUE, !.told = 0, !.moved = 0, !.honest = TRUE, !.asked = FALSE,
                                    !.refused = FALSE, !.raced = FALSE, !.lost = FALSE, !.deaf = ~cb,
                                    !.stale = InFlight # {} \/ comp # idle]
    /\ UNCHANGED <<dir, cb, tcb, use, eList, flight, cancelled, comp>>

\* As UsbdBulkASyncReqGetENode, leaving the node on the list.
GetENodeListed ==
    /\ disp.pc = "take"
    /\ \E n \in eList :
        /\ use' = [use EXCEPT ![n] = "other"]
        /\ disp' = [pc |-> "ask", turns |-> disp.turns + 1, node |-> n]
    /\ UNCHANGED <<dir, handle, cb, tcb, eList, flight, cancelled, comp, ghost>>

UsbdBulkASyncReqGetENode ==
    /\ disp.pc = "take"
    /\ \/ /\ eList = {}
          /\ disp' = idle
          /\ UNCHANGED <<use, eList>>
       \/ \E n \in eList :
            /\ use' = [use EXCEPT ![n] = "other"]
            /\ eList' = eList \ {n}
            /\ disp' = [pc |-> "ask", turns |-> disp.turns + 1, node |-> n]
    /\ UNCHANGED <<dir, handle, cb, tcb, flight, cancelled, comp, ghost>>

\* UsbdBulkASyncReqReadSubmit and UsbdBulkASyncReqWriteSubmit: the next piece, then
\* the request; a node that has nothing to carry goes back.
DispAsk ==
    /\ disp.pc = "ask"
    /\ handle' = [handle EXCEPT !.cur = @ + Ask.len]
    /\ disp' = IF Ask.ret = "ok" THEN [pc |-> "submit", turns |-> disp.turns, node |-> disp.node, len |-> Ask.len]
               ELSE [pc |-> "put back", node |-> disp.node, ret |-> Ask.ret]
    /\ UNCHANGED <<dir, cb, tcb, use, eList, flight, cancelled, comp, ghost>>

DispSubmit ==
    /\ disp.pc = "submit"
    /\ \/ /\ flight' = [flight EXCEPT ![disp.node] = disp.len]
          /\ cancelled' = cancelled \ {disp.node}
          /\ ghost' = [ghost EXCEPT !.asked = TRUE]
          /\ disp' = IF disp.turns > NUM_MAX \/ eList = {} THEN idle ELSE [pc |-> "take", turns |-> disp.turns]
       \/ /\ disp' = [pc |-> "put back", node |-> disp.node, ret |-> "io"]
          /\ UNCHANGED <<flight, cancelled, ghost>>
    /\ UNCHANGED <<dir, handle, cb, tcb, use, eList, comp>>

DispPutBack ==
    /\ disp.pc = "put back"
    /\ UsbdBulkASyncReqNodeSetNoUse(disp.node)
    /\ disp' = idle
    /\ ghost' = [ghost EXCEPT !.refused = @ \/ disp.ret # "nodata",
                              !.active = @ /\ disp.ret = "nodata"]
    /\ UNCHANGED <<dir, handle, cb, tcb, flight, cancelled, comp>>

------------------------------------------------------------------------------
(***************************************************************************)
(* Completions: UsbdBulkASyncReadCallbackAutoSubmit, with                  *)
(* UsbdBulkASyncReqReadAutoSubmit, and their twins for writing.            *)
(***************************************************************************)
\* The request of a node comes back: carried out, with what it moved, or not.
Completed(n) ==
    /\ comp = idle
    /\ flight[n] > 0
    /\ flight' = [flight EXCEPT ![n] = 0]
    /\ cancelled' = cancelled \ {n}
    /\ \/ \E act \in IF dir = "read" THEN 0 .. flight[n] ELSE {flight[n]} :
            /\ comp' = IF dir = "read" THEN [pc |-> "put", node |-> n, act |-> act] ELSE [pc |-> "ask", node |-> n]
            /\ ghost' = [ghost EXCEPT !.moved = @ + act]
       \/ \E status \in {IF n \in cancelled THEN "cancelled" ELSE "error"} :
            /\ comp' = [pc |-> "put back", node |-> n, ret |-> status]
            /\ UNCHANGED ghost
    /\ UNCHANGED <<dir, handle, cb, tcb, use, eList, disp>>

CompPut ==
    /\ comp.pc = "put"
    /\ LET put == UsbdBulkASyncPutAsmData(comp.act)
       IN  /\ handle' = put.handle
           /\ comp' = IF put.ret = "ok" THEN [pc |-> "ask", node |-> comp.node]
                      ELSE [pc |-> "put back", node |-> comp.node, ret |-> put.ret]
    /\ UNCHANGED <<dir, cb, tcb, use, eList, flight, cancelled, disp, ghost>>

CompAsk ==
    /\ comp.pc = "ask"
    /\ handle' = [handle EXCEPT !.cur = @ + Ask.len]
    /\ comp' = IF Ask.ret = "ok" THEN [pc |-> "submit", node |-> comp.node, len |-> Ask.len]
               ELSE [pc |-> "put back", node |-> comp.node, ret |-> Ask.ret]
    /\ UNCHANGED <<dir, cb, tcb, use, eList, flight, cancelled, disp, ghost>>

CompSubmit ==
    /\ comp.pc = "submit"
    /\ \/ /\ flight' = [flight EXCEPT ![comp.node] = comp.len]
          /\ comp' = idle
       \/ /\ comp' = [pc |-> "put back", node |-> comp.node, ret |-> "io"]
          /\ UNCHANGED flight
    /\ UNCHANGED <<dir, handle, cb, tcb, use, eList, cancelled, disp, ghost>>

CompPutBack ==
    /\ comp.pc = "put back"
    /\ UsbdBulkASyncReqNodeSetNoUse(comp.node)
    /\ comp' = [pc |-> "tell", ret |-> comp.ret]
    /\ UNCHANGED <<dir, handle, cb, tcb, flight, cancelled, disp, ghost>>

\* As RemoteCallback, without remembering that it was called.
RemoteCallbackAgain(ret) ==
    /\ ghost' = IF ~cb THEN [ghost EXCEPT !.deaf = TRUE] ELSE [ghost EXCEPT !.active = FALSE, !.told = @ + 1]
    /\ UNCHANGED handle

\* UsbdBulkReadRemoteCallback and UsbdBulkWriteRemoteCallback: the first to come
\* tells the client how much was read, or asked to be written.  It says so in cbflg
\* before it has a buffer for the message and sends it, either of which may fail:
\* then nobody tells the client.
RemoteCallback(ret) ==
    LET length == IF dir = "read" THEN handle.rcur ELSE handle.cur
    IN  \/ /\ ~cb
           /\ ghost' = [ghost EXCEPT !.deaf = TRUE]
           /\ UNCHANGED handle
        \/ /\ cb /\ handle.cbflg
           /\ UNCHANGED <<handle, ghost>>
        \/ /\ cb /\ ~handle.cbflg
           /\ handle' = [handle EXCEPT !.cbflg = TRUE]
           /\ \/ ghost' = [ghost EXCEPT !.active = FALSE, !.told = @ + 1,
                                        !.honest = ret = "ok" => InFlight = {} /\ length = ghost.moved]
              \/ ghost' = [ghost EXCEPT !.lost = TRUE]

\* As CompTell, counting the node of its own as still out.
CompTellUncounted ==
    /\ comp.pc = "tell"
    /\ comp' = idle
    /\ IF comp.ret # "nodata" THEN RemoteCallback(comp.ret)
       ELSE IF Cardinality(eList) > NUM_MAX THEN RemoteCallback("ok")
       ELSE /\ ghost' = [ghost EXCEPT !.raced = @ \/ DispHolds # {}]
            /\ UNCHANGED handle
    /\ UNCHANGED <<dir, cb, tcb, use, eList, flight, cancelled, disp>>

\* Without data left, the node that finds every node free speaks for the transfer.
CompTell ==
    /\ comp.pc = "tell"
    /\ comp' = idle
    /\ IF comp.ret # "nodata" THEN RemoteCallback(comp.ret)
       ELSE IF Cardinality(eList) >= NUM_MAX THEN RemoteCallback("ok")
       ELSE /\ ghost' = [ghost EXCEPT !.raced = @ \/ DispHolds # {}]
            /\ UNCHANGED handle
    /\ UNCHANGED <<dir, cb, tcb, use, eList, flight, cancelled, disp>>

------------------------------------------------------------------------------
(***************************************************************************)
(* Cancelling, and the callback.                                           *)
(***************************************************************************)
\* FunBulkCancel: the callback is put away and the buffer unmapped;
FunBulkCancel ==
    /\ disp = idle
    /\ tcb' = cb
    /\ cb' = FALSE
    /\ ReleaseAsmBufferHandle
    /\ disp' = [pc |-> "cancel"]
    /\ ghost' = [ghost EXCEPT !.active = FALSE]
    /\ UNCHANGED <<dir, use, eList, flight, cancelled, comp>>

\* BulkRequestCancel: the requests of the nodes that are out are cancelled, and a
\* second later those nodes are free, whether or not their requests have come back.
BulkRequestCancel ==
    \/ /\ disp.pc = "cancel"
       /\ cancelled' = {n \in InFlight : use[n] = "other"}
       /\ disp' = [pc |-> "sleep"]
       /\ UNCHANGED <<cb, tcb, use, eList, ghost>>
    \/ /\ disp.pc = "sleep"
       /\ LET out == {n \in Node : use[n] = "other"}
          IN  /\ use' = [n \in Node |-> IF n \in out THEN "nouse" ELSE use[n]]
              /\ eList' = eList \cup out
              /\ ghost' = [ghost EXCEPT !.late = @ \/ out # {} \/ comp # idle]
       /\ cb' = tcb
       /\ tcb' = FALSE
       /\ disp' = idle
       /\ UNCHANGED cancelled

BulkCancel ==
    /\ BulkRequestCancel
    /\ UNCHANGED <<dir, handle, flight, comp>>

FunRegBulkCallback ==
    /\ disp = idle
    /\ cb' = TRUE
    /\ UNCHANGED <<dir, handle, tcb, use, eList, flight, cancelled, disp, comp, ghost>>
FunUnRegBulkCallback ==
    /\ disp = idle
    /\ cb' = FALSE
    /\ UNCHANGED <<dir, handle, tcb, use, eList, flight, cancelled, disp, comp, ghost>>

BulkNext ==
    \/ \E size \in Sizes : FunBulk(size)
    \/ InitAsmBufferHandle
    \/ UsbdBulkASyncReqGetENode \/ DispAsk \/ DispSubmit \/ DispPutBack
    \/ \E n \in Node : Completed(n)
    \/ CompPut \/ CompAsk \/ CompSubmit \/ CompPutBack \/ CompTell
    \/ FunBulkCancel \/ BulkCancel
    \/ FunRegBulkCallback \/ FunUnRegBulkCallback

BulkSpec == BulkInit /\ [][BulkNext]_bulkVars

------------------------------------------------------------------------------
\* A client is told at most once of a transfer, whichever of its completions come
\* first and however it is cancelled (cbflg); unless FunBulkCancel gave up waiting.
ToldOnce == ghost.late \/ ghost.told <= 1

\* A client is told of success only when all that was asked for has come back and is
\* what it is told of; and when everything has come to rest it has been told of its
\* transfer, unless the message to it was lost (cbflg keeps the others from trying
\* again) or the nodes were counted while the dispatcher still held one that it had
\* found no data for: that client waits for ever.  Excepted are transfers that were
\* answered with an error, meet requests of an earlier one or a cancellation that gave
\* up, or went unheard; and an empty buffer.
ToldRight ==
    \/ ghost.late \/ ghost.stale \/ ghost.refused \/ ghost.deaf
    \/ /\ ghost.honest
       /\ disp = idle /\ comp = idle /\ InFlight = {} /\ ghost.active /\ ghost.asked => ghost.raced \/ ghost.lost

\* Every node is in exactly one place: free, with one of the two threads, or with the
\* device; so no request is submitted again while it is in flight.
NodesAccounted ==
    ~ghost.late =>
        /\ Node = eList \cup InFlight \cup DispHolds \cup CompHolds
        /\ eList \cap InFlight = {}
        /\ eList \cap (DispHolds \cup CompHolds) = {}
        /\ InFlight \cap (DispHolds \cup CompHolds) = {}
        /\ DispHolds \cap CompHolds = {}
=============================================================================
