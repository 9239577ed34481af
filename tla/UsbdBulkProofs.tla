---------------------------- MODULE UsbdBulkProofs ----------------------------
(***************************************************************************)
(* Proofs about UsbdBulk, for any number of nodes and any buffers.         *)
(***************************************************************************)
EXTENDS UsbdBulk, FiniteSetTheorems, TLAPS

(***************************************************************************)
(* What the steps rely on of the shape of the state: a thread that holds a *)
(* node names one, and a request that is about to be submitted has a       *)
(* length.                                                                 *)
(***************************************************************************)
HandleShape ==
    /\ handle = [size |-> handle.size, cur |-> handle.cur, rcur |-> handle.rcur, open |-> handle.open,
                 cbflg |-> handle.cbflg]
    /\ handle.size \in Int /\ handle.cur \in Int /\ handle.rcur \in Int
GhostShape ==
    /\ ghost = [active |-> ghost.active, told |-> ghost.told, moved |-> ghost.moved, honest |-> ghost.honest,
                asked |-> ghost.asked, refused |-> ghost.refused, raced |-> ghost.raced, stale |-> ghost.stale,
                late |-> ghost.late, deaf |-> ghost.deaf, lost |-> ghost.lost]
    /\ ghost.told \in Nat
NodeShape ==
    /\ eList \subseteq Node
    /\ flight \in [Node -> Int]
    /\ use \in [Node -> {"init", "nouse", "other"}]
ThreadShape ==
    /\ disp.pc \in {"ask", "submit", "put back"} => disp.node \in Node
    /\ comp.pc \in {"put", "ask", "submit", "put back"} => comp.node \in Node
    /\ disp.pc = "map" => disp.size \in Int
    /\ disp.pc = "submit" => disp.len \in Int /\ disp.len > 0
    /\ comp.pc = "submit" => comp.len \in Int /\ comp.len > 0
    /\ comp.pc = "put" => comp.act \in Int
    /\ comp.pc = "idle" <=> comp = idle
    /\ disp.pc = "idle" <=> disp = idle
Shape == HandleShape /\ GhostShape /\ NodeShape /\ ThreadShape

\* Every node is in one place.
DispHas(n) == disp.pc \in {"ask", "submit", "put back"} /\ disp.node = n
CompHas(n) == comp.pc \in {"put", "ask", "submit", "put back"} /\ comp.node = n
Placed ==
    \A n \in Node :
        /\ n \in eList \/ flight[n] > 0 \/ DispHas(n) \/ CompHas(n)
        /\ n \in eList => ~(flight[n] > 0) /\ ~DispHas(n) /\ ~CompHas(n)
        /\ flight[n] > 0 => ~DispHas(n) /\ ~CompHas(n)
        /\ ~(DispHas(n) /\ CompHas(n))
        /\ n \notin eList => use[n] = "other"

\* Once told, the client is not told again: cbflg says so, or the callback is put
\* away while the transfer is cancelled, or nothing of it is left to complete.
Resting == disp.pc \in {"idle", "map", "reset"} /\ comp = idle /\ eList = Node
Told ==
    /\ ghost.told <= 1
    /\ ghost.told = 1 => \/ handle.cbflg = TRUE
                         \/ disp.pc \in {"cancel", "sleep"} /\ cb = FALSE
                         \/ Resting

Inv == Shape /\ (ghost.late = TRUE \/ (Placed /\ Told))

------------------------------------------------------------------------------
\* The invariant holds when the service has set up the list of a pipe.
LEMMA InitInv == BulkInit => Inv
<1> SUFFICES ASSUME BulkInit PROVE Inv
  OBVIOUS
<1>1. HandleShape
  BY DEF BulkInit, HandleShape, closed
<1>2. GhostShape
  BY DEF BulkInit, GhostShape
<1>3. NodeShape /\ ThreadShape
  BY DEF BulkInit, NodeShape, ThreadShape, idle
<1>4. Placed
  BY DEF BulkInit, Placed, DispHas, CompHas, idle
<1>5. Told
  BY DEF BulkInit, Told
<1> QED BY <1>1, <1>2, <1>3, <1>4, <1>5 DEF Inv, Shape

\* The next piece of the buffer is an integer, and positive when there is one.
LEMMA AskFact ==
    ASSUME HandleShape
    PROVE  /\ Ask.len \in Int
           /\ Ask.ret = "ok" => Ask.len > 0
<1>1. maxPacketSize \in Nat /\ maxPacketSize > 0
  BY BulkAssumption
<1>2. handle.size \in Int /\ handle.cur \in Int
  BY DEF HandleShape
<1> QED BY <1>1, <1>2 DEF Ask, UsbdBulkAsyncGetAsmReqLen, UsbdBulkAsyncGetAsmData, Piece, Least

\* Starting a transfer resets what was told.
LEMMA StartStep ==
    ASSUME Inv, NEW size \in Sizes, FunBulk(size)
    PROVE  Inv'
<1> USE DEF Inv, Shape
<1>0. /\ handle' = closed /\ UNCHANGED <<use, eList, flight, comp>>
      /\ disp = idle /\ disp' = [pc |-> "map", size |-> size] /\ size \in Int
      /\ ghost'.late = ghost.late /\ ghost'.told = 0
  BY BulkAssumption DEF FunBulk, ReleaseAsmBufferHandle, GhostShape
<1>1. HandleShape'
  BY <1>0 DEF HandleShape, closed
<1>2. GhostShape'
  BY DEF FunBulk, GhostShape
<1>3. NodeShape'
  BY <1>0 DEF NodeShape
<1>4. ThreadShape'
  BY <1>0 DEF idle, ThreadShape
<1>5. ghost'.late = TRUE \/ Placed'
  BY <1>0 DEF idle, Placed, DispHas, CompHas
<1>6. Told'
  BY <1>0 DEF Told
<1> QED BY <1>1, <1>2, <1>3, <1>4, <1>5, <1>6 DEF Inv, Shape

\* Taking over the buffer moves no node.
LEMMA MapStep ==
    ASSUME Inv, InitAsmBufferHandle
    PROVE  Inv'
<1> USE DEF Inv, Shape
<1>0. UNCHANGED <<cb, use, eList, flight, comp>>
  BY DEF InitAsmBufferHandle
<1>1. CASE /\ disp.pc = "map" /\ disp' = [pc |-> "reset"] /\ UNCHANGED ghost
           /\ handle' = [handle EXCEPT !.open = TRUE, !.size = disp.size]
  <2>1. HandleShape' /\ handle'.cbflg = handle.cbflg
    BY <1>1 DEF HandleShape, ThreadShape
  <2>2. GhostShape' /\ NodeShape'
    BY <1>0, <1>1 DEF GhostShape, NodeShape
  <2>3. ThreadShape'
    BY <1>0, <1>1 DEF idle, ThreadShape
  <2>4. ghost'.late = TRUE \/ Placed'
    BY <1>0, <1>1 DEF Placed, DispHas, CompHas
  <2>5. ghost'.late = TRUE \/ Told'
    BY <1>0, <1>1, <2>1 DEF Told, Resting
  <2> QED BY <2>1, <2>2, <2>3, <2>4, <2>5
<1>2. CASE /\ disp.pc = "reset" /\ disp' = [pc |-> "take", turns |-> 0]
           /\ handle' = [handle EXCEPT !.cur = 0, !.rcur = 0, !.cbflg = FALSE]
           /\ ghost' = [ghost EXCEPT !.active = TRUE, !.told = 0, !.moved = 0, !.honest = TRUE, !.asked = FALSE,
                                     !.refused = FALSE, !.raced = FALSE, !.lost = FALSE, !.deaf = ~cb,
                                     !.stale = InFlight # {} \/ comp # idle]
  <2>1. HandleShape'
    <3>1. handle' = [size |-> handle.size, cur |-> 0, rcur |-> 0, open |-> handle.open, cbflg |-> FALSE]
      BY <1>2 DEF HandleShape
    <3> QED BY <3>1 DEF HandleShape
  <2>2. GhostShape' /\ NodeShape' /\ ghost'.late = ghost.late /\ ghost'.told = 0
    BY <1>0, <1>2 DEF GhostShape, NodeShape
  <2>3. ThreadShape'
    BY <1>0, <1>2 DEF idle, ThreadShape
  <2>4. ghost'.late = TRUE \/ Placed'
    BY <1>0, <1>2, <2>2 DEF Placed, DispHas, CompHas
  <2>5. Told'
    BY <2>2 DEF Told
  <2> QED BY <2>1, <2>2, <2>3, <2>4, <2>5
<1> QED BY <1>1, <1>2 DEF InitAsmBufferHandle

\* Taking a node moves it from the list to the dispatcher.
LEMMA TakeStep ==
    ASSUME Inv, UsbdBulkASyncReqGetENode
    PROVE  Inv'
<1> USE DEF Inv, Shape
<1>0. UNCHANGED <<handle, cb, flight, comp, ghost>> /\ disp.pc = "take"
  BY DEF UsbdBulkASyncReqGetENode
<1>1. CASE eList = {} /\ disp' = idle /\ UNCHANGED <<use, eList>>
<2>1. HandleShape'
  BY <1>0, <1>1 DEF idle, HandleShape
<2>2. GhostShape'
  BY <1>0, <1>1 DEF idle, GhostShape
<2>3. NodeShape'
  BY <1>0, <1>1 DEF idle, NodeShape, ThreadShape
<2>4. ThreadShape'
  BY <1>0, <1>1 DEF idle, ThreadShape, NodeShape
<2>5. ghost'.late = TRUE \/ Placed'
  BY <1>0, <1>1 DEF idle, Placed, NodeShape, ThreadShape, GhostShape, DispHas, CompHas
<2>6. ghost'.late = TRUE \/ Told'
  BY <1>0, <1>1 DEF idle, Told, Resting, Placed, NodeShape, ThreadShape, HandleShape, GhostShape,
       DispHas, CompHas
<2> QED BY <2>1, <2>2, <2>3, <2>4, <2>5, <2>6 DEF Inv, Shape
<1>2. CASE \E n \in eList : /\ use' = [use EXCEPT ![n] = "other"]
                      /\ eList' = eList \ {n}
                      /\ disp' = [pc |-> "ask", turns |-> disp.turns + 1, node |-> n]
<2>a. PICK n \in eList : /\ use' = [use EXCEPT ![n] = "other"]
                        /\ eList' = eList \ {n}
                        /\ disp' = [pc |-> "ask", turns |-> disp.turns + 1, node |-> n]
  BY <1>2
<2>b. n \in Node
  BY DEF NodeShape
<2>1. HandleShape'
  BY <1>0, <2>a, <2>b DEF idle, HandleShape
<2>2. GhostShape'
  BY <1>0, <2>a, <2>b DEF idle, GhostShape
<2>3. NodeShape'
  BY <1>0, <2>a, <2>b DEF idle, NodeShape, ThreadShape
<2>4. ThreadShape'
  BY <1>0, <2>a, <2>b DEF idle, ThreadShape, NodeShape
<2>5. ghost'.late = TRUE \/ Placed'
  BY <1>0, <2>a, <2>b DEF idle, Placed, NodeShape, ThreadShape, GhostShape, DispHas, CompHas
<2>6. ghost'.late = TRUE \/ Told'
  BY <1>0, <2>a, <2>b DEF idle, Told, Resting, Placed, NodeShape, ThreadShape, HandleShape, GhostShape,
       DispHas, CompHas
<2> QED BY <2>1, <2>2, <2>3, <2>4, <2>5, <2>6 DEF Inv, Shape
<1> QED BY <1>1, <1>2 DEF UsbdBulkASyncReqGetENode

\* Asking for a piece leaves the node where it is.
LEMMA DispAskStep ==
    ASSUME Inv, DispAsk
    PROVE  Inv'
<1> USE DEF Inv, Shape
<1>0. Ask.len \in Int /\ (Ask.ret = "ok" => Ask.len > 0)
  BY AskFact
<1>1. CASE Ask.ret = "ok"
<2>1. HandleShape'
  <3>1. handle' = [handle EXCEPT !.cur = handle.cur + Ask.len]
    BY DEF DispAsk
  <3> QED BY <1>0, <3>1 DEF HandleShape
<2>2. GhostShape'
  BY <1>0, <1>1 DEF DispAsk, idle, GhostShape
<2>3. NodeShape'
  BY <1>0, <1>1 DEF DispAsk, idle, NodeShape, ThreadShape
<2>4. ThreadShape'
  BY <1>0, <1>1 DEF DispAsk, idle, ThreadShape, NodeShape
<2>5. ghost'.late = TRUE \/ Placed'
  BY <1>0, <1>1 DEF DispAsk, idle, Placed, NodeShape, ThreadShape, GhostShape, DispHas, CompHas
<2>6. ghost'.late = TRUE \/ Told'
  BY <1>0, <1>1 DEF DispAsk, idle, Told, Resting, Placed, NodeShape, ThreadShape, HandleShape,
       GhostShape, DispHas, CompHas
<2> QED BY <2>1, <2>2, <2>3, <2>4, <2>5, <2>6 DEF Inv, Shape
<1>2. CASE Ask.ret # "ok"
<2>1. HandleShape'
  <3>1. handle' = [handle EXCEPT !.cur = handle.cur + Ask.len]
    BY DEF DispAsk
  <3> QED BY <1>0, <3>1 DEF HandleShape
<2>2. GhostShape'
  BY <1>0, <1>2 DEF DispAsk, idle, GhostShape
<2>3. NodeShape'
  BY <1>0, <1>2 DEF DispAsk, idle, NodeShape, ThreadShape
<2>4. ThreadShape'
  BY <1>0, <1>2 DEF DispAsk, idle, ThreadShape, NodeShape
<2>5. ghost'.late = TRUE \/ Placed'
  BY <1>0, <1>2 DEF DispAsk, idle, Placed, NodeShape, ThreadShape, GhostShape, DispHas, CompHas
<2>6. ghost'.late = TRUE \/ Told'
  BY <1>0, <1>2 DEF DispAsk, idle, Told, Resting, Placed, NodeShape, ThreadShape, HandleShape,
       GhostShape, DispHas, CompHas
<2> QED BY <2>1, <2>2, <2>3, <2>4, <2>5, <2>6 DEF Inv, Shape
<1> QED BY <1>1, <1>2

\* Submitting moves the node to the device.
LEMMA DispSubmitStep ==
    ASSUME Inv, DispSubmit
    PROVE  Inv'
<1> USE DEF Inv, Shape
<1>0. /\ UNCHANGED <<handle, cb, use, eList, comp>> /\ disp.pc = "submit"
      /\ ghost'.late = ghost.late /\ ghost'.told = ghost.told
  BY DEF DispSubmit, GhostShape
<1>g. GhostShape'
  BY DEF DispSubmit, GhostShape
<1>n. disp.node \in Node /\ disp.len \in Int /\ disp.len > 0
  BY <1>0 DEF ThreadShape
<1>1. CASE flight' = [flight EXCEPT ![disp.node] = disp.len] /\ disp' = idle
<2>1. HandleShape'
  BY <1>0, <1>n, <1>1 DEF idle, HandleShape
<2>2. GhostShape'
  BY <1>g
<2>3. NodeShape'
  BY <1>0, <1>n, <1>1 DEF idle, NodeShape, ThreadShape
<2>4. ThreadShape'
  BY <1>0, <1>n, <1>1 DEF idle, ThreadShape, NodeShape
<2>5. ghost'.late = TRUE \/ Placed'
  BY <1>0, <1>n, <1>1 DEF idle, Placed, NodeShape, ThreadShape, GhostShape, DispHas, CompHas
<2>6. ghost'.late = TRUE \/ Told'
  BY <1>0, <1>n, <1>1 DEF idle, Told, Resting, Placed, NodeShape, ThreadShape, HandleShape, GhostShape,
       DispHas, CompHas
<2> QED BY <2>1, <2>2, <2>3, <2>4, <2>5, <2>6 DEF Inv, Shape
<1>3. CASE flight' = [flight EXCEPT ![disp.node] = disp.len] /\ disp' = [pc |-> "take", turns |-> disp.turns]
<2>1. HandleShape'
  BY <1>0, <1>n, <1>3 DEF idle, HandleShape
<2>2. GhostShape'
  BY <1>g
<2>3. NodeShape'
  BY <1>0, <1>n, <1>3 DEF idle, NodeShape, ThreadShape
<2>4. ThreadShape'
  BY <1>0, <1>n, <1>3 DEF idle, ThreadShape, NodeShape
<2>5. ghost'.late = TRUE \/ Placed'
  BY <1>0, <1>n, <1>3 DEF idle, Placed, NodeShape, ThreadShape, GhostShape, DispHas, CompHas
<2>6. ghost'.late = TRUE \/ Told'
  BY <1>0, <1>n, <1>3 DEF idle, Told, Resting, Placed, NodeShape, ThreadShape, HandleShape, GhostShape,
       DispHas, CompHas
<2> QED BY <2>1, <2>2, <2>3, <2>4, <2>5, <2>6 DEF Inv, Shape
<1>2. CASE UNCHANGED flight /\ disp' = [pc |-> "put back", node |-> disp.node, ret |-> "io"]
<2>1. HandleShape'
  BY <1>0, <1>n, <1>2 DEF idle, HandleShape
<2>2. GhostShape'
  BY <1>g
<2>3. NodeShape'
  BY <1>0, <1>n, <1>2 DEF idle, NodeShape, ThreadShape
<2>4. ThreadShape'
  BY <1>0, <1>n, <1>2 DEF idle, ThreadShape, NodeShape
<2>5. ghost'.late = TRUE \/ Placed'
  BY <1>0, <1>n, <1>2 DEF idle, Placed, NodeShape, ThreadShape, GhostShape, DispHas, CompHas
<2>6. ghost'.late = TRUE \/ Told'
  BY <1>0, <1>n, <1>2 DEF idle, Told, Resting, Placed, NodeShape, ThreadShape, HandleShape, GhostShape,
       DispHas, CompHas
<2> QED BY <2>1, <2>2, <2>3, <2>4, <2>5, <2>6 DEF Inv, Shape
<1> QED BY <1>1, <1>2, <1>3 DEF DispSubmit

\* Putting a node back moves it to the list.
LEMMA DispPutBackStep ==
    ASSUME Inv, DispPutBack
    PROVE  Inv'
<1> USE DEF Inv, Shape
<1>1. HandleShape'
  BY DEF DispPutBack, UsbdBulkASyncReqNodeSetNoUse, idle, HandleShape
<1>2. GhostShape'
  BY DEF DispPutBack, UsbdBulkASyncReqNodeSetNoUse, idle, GhostShape
<1>3. NodeShape'
  BY DEF DispPutBack, UsbdBulkASyncReqNodeSetNoUse, idle, NodeShape, ThreadShape
<1>4. ThreadShape'
  BY DEF DispPutBack, UsbdBulkASyncReqNodeSetNoUse, idle, ThreadShape, NodeShape
<1>5. ghost'.late = TRUE \/ Placed'
  BY DEF DispPutBack, UsbdBulkASyncReqNodeSetNoUse, idle, Placed, NodeShape, ThreadShape, GhostShape,
       DispHas, CompHas
<1>6. ghost'.late = TRUE \/ Told'
  BY DEF DispPutBack, UsbdBulkASyncReqNodeSetNoUse, idle, Told, Resting, Placed, NodeShape, ThreadShape,
       HandleShape, GhostShape, DispHas, CompHas
<1> QED BY <1>1, <1>2, <1>3, <1>4, <1>5, <1>6 DEF Inv, Shape

\* A completion moves the node from the device to the thread.
LEMMA CompletedStep ==
    ASSUME Inv, NEW n \in Node, Completed(n)
    PROVE  Inv'
<1> USE DEF Inv, Shape
<1>0. /\ UNCHANGED <<handle, cb, use, eList, disp>> /\ comp = idle /\ flight[n] > 0
      /\ flight' = [flight EXCEPT ![n] = 0]
      /\ ghost'.late = ghost.late /\ ghost'.told = ghost.told
  BY DEF Completed, GhostShape
<1>g. GhostShape'
  BY DEF Completed, GhostShape
<1>p. comp'.pc \in {"put", "ask", "put back"} /\ comp'.node = n /\ (comp'.pc = "put" => comp'.act \in Int) /\ comp' # idle
  <2>1. CASE \E act \in 0 .. flight[n] : comp' = [pc |-> "put", node |-> n, act |-> act]
    <3>1. PICK act \in 0 .. flight[n] : comp' = [pc |-> "put", node |-> n, act |-> act]
      BY <2>1
    <3>2. act \in Int
      BY DEF NodeShape
    <3> QED BY <3>1, <3>2 DEF idle
  <2>2. CASE comp' = [pc |-> "ask", node |-> n]
    BY <2>2 DEF idle
  <2>3. CASE comp' = [pc |-> "put back", node |-> n, ret |-> IF n \in cancelled THEN "cancelled" ELSE "error"]
    BY <2>3 DEF idle
  <2> QED BY <2>1, <2>2, <2>3 DEF Completed
<1>1. HandleShape'
  BY <1>0, <1>p DEF idle, HandleShape
<1>2. GhostShape'
  BY <1>g
<1>3. NodeShape'
  BY <1>0 DEF NodeShape
<1>4. ThreadShape'
  BY <1>0, <1>p DEF idle, ThreadShape, NodeShape
<1>5. ghost'.late = TRUE \/ Placed'
  <2> SUFFICES ASSUME ghost.late # TRUE, NEW m \in Node
               PROVE  /\ m \in eList' \/ flight'[m] > 0 \/ DispHas(m)' \/ CompHas(m)'
                      /\ m \in eList' => ~(flight'[m] > 0) /\ ~DispHas(m)' /\ ~CompHas(m)'
                      /\ flight'[m] > 0 => ~DispHas(m)' /\ ~CompHas(m)'
                      /\ ~(DispHas(m)' /\ CompHas(m)')
                      /\ m \notin eList' => use'[m] = "other"
    BY <1>0 DEF Placed
  <2>0. ~CompHas(m) /\ (CompHas(m)' <=> m = n) /\ (DispHas(m)' <=> DispHas(m)) /\ eList' = eList /\ use' = use
    BY <1>0, <1>p DEF CompHas, DispHas, idle
  <2>1. CASE m = n
    <3>1. ~(flight'[m] > 0)
      BY <1>0, <2>1 DEF NodeShape
    <3> QED BY <1>0, <2>0, <2>1, <3>1 DEF Placed
  <2>2. CASE m # n
    <3>1. flight'[m] = flight[m]
      BY <1>0, <2>2 DEF NodeShape
    <3> QED BY <2>0, <2>2, <3>1 DEF Placed
  <2> QED BY <2>1, <2>2
<1>6. ghost'.late = TRUE \/ Told'
  BY <1>0, <1>p DEF idle, Told, Resting, Placed, NodeShape, ThreadShape, HandleShape, GhostShape,
       DispHas, CompHas
<1> QED BY <1>1, <1>2, <1>3, <1>4, <1>5, <1>6 DEF Inv, Shape

\* Storing what was read leaves the node where it is.
LEMMA CompPutStep ==
    ASSUME Inv, CompPut
    PROVE  Inv'
<1> USE DEF Inv, Shape
<1>0. /\ UNCHANGED <<cb, use, eList, flight, disp, ghost>> /\ comp.pc = "put"
      /\ comp' = [pc |-> "ask", node |-> comp.node]
            \/ comp' = [pc |-> "put back", node |-> comp.node, ret |-> UsbdBulkASyncPutAsmData(comp.act).ret]
  BY DEF CompPut
<1>p. comp'.pc \in {"ask", "put back"} /\ comp'.node = comp.node /\ comp.node \in Node /\ comp' # idle /\ comp # idle
  <2>1. CASE comp' = [pc |-> "ask", node |-> comp.node]
    BY <1>0, <2>1 DEF idle, ThreadShape
  <2>2. CASE comp' = [pc |-> "put back", node |-> comp.node, ret |-> UsbdBulkASyncPutAsmData(comp.act).ret]
    BY <1>0, <2>2 DEF idle, ThreadShape
  <2> QED BY <1>0, <2>1, <2>2
<1>h. HandleShape' /\ handle'.cbflg = handle.cbflg
  <2>1. comp.act \in Int
    BY <1>0 DEF ThreadShape
  <2>2. handle' = handle \/ handle' = [handle EXCEPT !.rcur = handle.rcur + Least(handle.size - handle.rcur, comp.act)]
    BY DEF CompPut, UsbdBulkASyncPutAsmData
  <2>3. Least(handle.size - handle.rcur, comp.act) \in Int
    BY <2>1 DEF Least, HandleShape
  <2> QED BY <2>2, <2>3 DEF HandleShape
<1>1. HandleShape'
  BY <1>h
<1>2. GhostShape'
  BY <1>0, <1>p, <1>h DEF idle, GhostShape
<1>3. NodeShape'
  BY <1>0, <1>p, <1>h DEF idle, NodeShape, ThreadShape
<1>4. ThreadShape'
  BY <1>0, <1>p, <1>h DEF idle, ThreadShape, NodeShape
<1>5. ghost'.late = TRUE \/ Placed'
  BY <1>0, <1>p, <1>h DEF idle, Placed, NodeShape, ThreadShape, GhostShape, DispHas, CompHas
<1>6. ghost'.late = TRUE \/ Told'
  BY <1>0, <1>p, <1>h DEF idle, Told, Resting, Placed, NodeShape, ThreadShape, HandleShape, GhostShape,
       DispHas, CompHas
<1> QED BY <1>1, <1>2, <1>3, <1>4, <1>5, <1>6 DEF Inv, Shape

\* Asking for the next piece leaves the node where it is.
LEMMA CompAskStep ==
    ASSUME Inv, CompAsk
    PROVE  Inv'
<1> USE DEF Inv, Shape
<1>0. Ask.len \in Int /\ (Ask.ret = "ok" => Ask.len > 0)
  BY AskFact
<1>1. CASE Ask.ret = "ok"
<2>1. HandleShape'
  <3>1. handle' = [handle EXCEPT !.cur = handle.cur + Ask.len]
    BY DEF CompAsk
  <3> QED BY <1>0, <3>1 DEF HandleShape
<2>2. GhostShape'
  BY <1>0, <1>1 DEF CompAsk, idle, GhostShape
<2>3. NodeShape'
  BY <1>0, <1>1 DEF CompAsk, idle, NodeShape, ThreadShape
<2>4. ThreadShape'
  BY <1>0, <1>1 DEF CompAsk, idle, ThreadShape, NodeShape
<2>5. ghost'.late = TRUE \/ Placed'
  BY <1>0, <1>1 DEF CompAsk, idle, Placed, NodeShape, ThreadShape, GhostShape, DispHas, CompHas
<2>6. ghost'.late = TRUE \/ Told'
  BY <1>0, <1>1 DEF CompAsk, idle, Told, Resting, Placed, NodeShape, ThreadShape, HandleShape,
       GhostShape, DispHas, CompHas
<2> QED BY <2>1, <2>2, <2>3, <2>4, <2>5, <2>6 DEF Inv, Shape
<1>2. CASE Ask.ret # "ok"
<2>1. HandleShape'
  <3>1. handle' = [handle EXCEPT !.cur = handle.cur + Ask.len]
    BY DEF CompAsk
  <3> QED BY <1>0, <3>1 DEF HandleShape
<2>2. GhostShape'
  BY <1>0, <1>2 DEF CompAsk, idle, GhostShape
<2>3. NodeShape'
  BY <1>0, <1>2 DEF CompAsk, idle, NodeShape, ThreadShape
<2>4. ThreadShape'
  BY <1>0, <1>2 DEF CompAsk, idle, ThreadShape, NodeShape
<2>5. ghost'.late = TRUE \/ Placed'
  BY <1>0, <1>2 DEF CompAsk, idle, Placed, NodeShape, ThreadShape, GhostShape, DispHas, CompHas
<2>6. ghost'.late = TRUE \/ Told'
  BY <1>0, <1>2 DEF CompAsk, idle, Told, Resting, Placed, NodeShape, ThreadShape, HandleShape,
       GhostShape, DispHas, CompHas
<2> QED BY <2>1, <2>2, <2>3, <2>4, <2>5, <2>6 DEF Inv, Shape
<1> QED BY <1>1, <1>2

\* Submitting again moves the node to the device.
LEMMA CompSubmitStep ==
    ASSUME Inv, CompSubmit
    PROVE  Inv'
<1> USE DEF Inv, Shape
<1>0. /\ UNCHANGED <<handle, cb, use, eList, disp>> /\ comp.pc = "submit"
      /\ ghost'.late = ghost.late /\ ghost'.told = ghost.told
  BY DEF CompSubmit, GhostShape
<1>g. GhostShape'
  BY DEF CompSubmit, GhostShape
<1>n. comp.node \in Node /\ comp.len \in Int /\ comp.len > 0
  BY <1>0 DEF ThreadShape
<1>1. CASE flight' = [flight EXCEPT ![comp.node] = comp.len] /\ comp' = idle
<2>1. HandleShape'
  BY <1>0, <1>n, <1>1 DEF idle, HandleShape
<2>2. GhostShape'
  BY <1>g
<2>3. NodeShape'
  BY <1>0, <1>n, <1>1 DEF idle, NodeShape, ThreadShape
<2>4. ThreadShape'
  BY <1>0, <1>n, <1>1 DEF idle, ThreadShape, NodeShape
<2>5. ghost'.late = TRUE \/ Placed'
  BY <1>0, <1>n, <1>1 DEF idle, Placed, NodeShape, ThreadShape, GhostShape, DispHas, CompHas
<2>6. ghost'.late = TRUE \/ Told'
  BY <1>0, <1>n, <1>1 DEF idle, Told, Resting, Placed, NodeShape, ThreadShape, HandleShape, GhostShape,
       DispHas, CompHas
<2> QED BY <2>1, <2>2, <2>3, <2>4, <2>5, <2>6 DEF Inv, Shape
<1>2. CASE UNCHANGED flight /\ comp' = [pc |-> "put back", node |-> comp.node, ret |-> "io"]
<2>1. HandleShape'
  BY <1>0, <1>n, <1>2 DEF idle, HandleShape
<2>2. GhostShape'
  BY <1>g
<2>3. NodeShape'
  BY <1>0, <1>n, <1>2 DEF idle, NodeShape, ThreadShape
<2>4. ThreadShape'
  BY <1>0, <1>n, <1>2 DEF idle, ThreadShape, NodeShape
<2>5. ghost'.late = TRUE \/ Placed'
  BY <1>0, <1>n, <1>2 DEF idle, Placed, NodeShape, ThreadShape, GhostShape, DispHas, CompHas
<2>6. ghost'.late = TRUE \/ Told'
  BY <1>0, <1>n, <1>2 DEF idle, Told, Resting, Placed, NodeShape, ThreadShape, HandleShape, GhostShape,
       DispHas, CompHas
<2> QED BY <2>1, <2>2, <2>3, <2>4, <2>5, <2>6 DEF Inv, Shape
<1> QED BY <1>1, <1>2 DEF CompSubmit

\* A node that is done moves to the list.
LEMMA CompPutBackStep ==
    ASSUME Inv, CompPutBack
    PROVE  Inv'
<1> USE DEF Inv, Shape
<1>1. HandleShape'
  BY DEF CompPutBack, UsbdBulkASyncReqNodeSetNoUse, idle, HandleShape
<1>2. GhostShape'
  BY DEF CompPutBack, UsbdBulkASyncReqNodeSetNoUse, idle, GhostShape
<1>3. NodeShape'
  BY DEF CompPutBack, UsbdBulkASyncReqNodeSetNoUse, idle, NodeShape, ThreadShape
<1>4. ThreadShape'
  BY DEF CompPutBack, UsbdBulkASyncReqNodeSetNoUse, idle, ThreadShape, NodeShape
<1>5. ghost'.late = TRUE \/ Placed'
  BY DEF CompPutBack, UsbdBulkASyncReqNodeSetNoUse, idle, Placed, NodeShape, ThreadShape, GhostShape,
       DispHas, CompHas
<1>6. ghost'.late = TRUE \/ Told'
  BY DEF CompPutBack, UsbdBulkASyncReqNodeSetNoUse, idle, Told, Resting, Placed, NodeShape, ThreadShape,
       HandleShape, GhostShape, DispHas, CompHas
<1> QED BY <1>1, <1>2, <1>3, <1>4, <1>5, <1>6 DEF Inv, Shape

\* The client is told by the first to come, which sets cbflg.
LEMMA CompTellStep ==
    ASSUME Inv, CompTell
    PROVE  Inv'
<1> USE DEF Inv, Shape
<1>0. UNCHANGED <<cb, use, eList, flight, disp>> /\ comp.pc = "tell" /\ comp' = idle
  BY DEF CompTell
<1>h. HandleShape'
  BY DEF CompTell, RemoteCallback, HandleShape
<1>g. /\ \/ ghost'.told = ghost.told /\ handle' = handle
         \/ ghost'.told = ghost.told /\ handle'.cbflg = TRUE
         \/ ghost'.told = ghost.told + 1 /\ handle'.cbflg = TRUE /\ handle.cbflg # TRUE /\ cb # FALSE
      /\ ghost'.late = ghost.late
  <2>1. CASE UNCHANGED handle
    BY <2>1 DEF CompTell, RemoteCallback, GhostShape, HandleShape
  <2>2. CASE handle' = [handle EXCEPT !.cbflg = TRUE]
    BY <2>2 DEF CompTell, RemoteCallback, GhostShape, HandleShape
  <2> QED BY <2>1, <2>2 DEF CompTell, RemoteCallback
<1>s. GhostShape'
  <2>1. ghost.told + 1 \in Nat
    BY DEF GhostShape
  <2> QED BY <2>1 DEF CompTell, RemoteCallback, GhostShape
<1>1. HandleShape'
  BY <1>h
<1>2. GhostShape'
  BY <1>s
<1>3. NodeShape'
  BY <1>0, <1>g DEF idle, NodeShape, ThreadShape
<1>4. ThreadShape'
  BY <1>0, <1>g DEF idle, ThreadShape, NodeShape
<1>5. ghost'.late = TRUE \/ Placed'
  BY <1>0, <1>g DEF idle, Placed, NodeShape, ThreadShape, GhostShape, DispHas, CompHas
<1>6. ghost'.late = TRUE \/ Told'
  <2>0. ghost.late # TRUE => comp # idle /\ ghost.told \in Nat /\ Told
    BY <1>0 DEF ThreadShape, GhostShape, idle
  <2>1. CASE ghost'.told = ghost.told /\ handle' = handle
    BY <1>0, <1>g, <2>0, <2>1 DEF Told, Resting
  <2>2. CASE ghost'.told = ghost.told /\ handle'.cbflg = TRUE
    BY <1>0, <1>g, <2>0, <2>2 DEF Told, Resting
  <2>3. CASE ghost'.told = ghost.told + 1 /\ handle'.cbflg = TRUE /\ handle.cbflg # TRUE /\ cb # FALSE
    <3>1. ghost.late # TRUE => ghost.told = 0
      <4>1. ASSUME ghost.late # TRUE PROVE ghost.told # 1
        BY <4>1, <2>0, <2>3, Zenon DEF Told, Resting
      <4>2. ASSUME ghost.late # TRUE PROVE ghost.told \in Nat /\ ghost.told <= 1
        BY <4>2, <2>0 DEF Told
      <4> QED BY <4>1, <4>2
    <3>2. ASSUME ghost.late # TRUE PROVE Told'
      <4>1. ghost'.told = 1
        BY <3>1, <3>2, <2>3
      <4> QED BY <4>1, <2>3 DEF Told
    <3> QED BY <1>g, <3>2
  <2> QED BY <1>g, <2>1, <2>2, <2>3
<1> QED BY <1>1, <1>2, <1>3, <1>4, <1>5, <1>6 DEF Inv, Shape

\* Cancelling puts the callback away.
LEMMA CancelStartStep ==
    ASSUME Inv, FunBulkCancel
    PROVE  Inv'
<1> USE DEF Inv, Shape
<1>1. HandleShape'
  BY DEF FunBulkCancel, ReleaseAsmBufferHandle, closed, idle, HandleShape
<1>2. GhostShape'
  BY DEF FunBulkCancel, ReleaseAsmBufferHandle, closed, idle, GhostShape
<1>3. NodeShape'
  BY DEF FunBulkCancel, ReleaseAsmBufferHandle, closed, idle, NodeShape, ThreadShape
<1>4. ThreadShape'
  BY DEF FunBulkCancel, ReleaseAsmBufferHandle, closed, idle, ThreadShape, NodeShape
<1>5. ghost'.late = TRUE \/ Placed'
  BY DEF FunBulkCancel, ReleaseAsmBufferHandle, closed, idle, Placed, NodeShape, ThreadShape, GhostShape,
       DispHas, CompHas
<1>6. ghost'.late = TRUE \/ Told'
  BY DEF FunBulkCancel, ReleaseAsmBufferHandle, closed, idle, Told, Resting, Placed, NodeShape,
       ThreadShape, HandleShape, GhostShape, DispHas, CompHas
<1> QED BY <1>1, <1>2, <1>3, <1>4, <1>5, <1>6 DEF Inv, Shape

\* A cancellation that finds a node out has given up on it.
LEMMA CancelStep ==
    ASSUME Inv, BulkCancel
    PROVE  Inv'
<1> USE DEF Inv, Shape
<1>0. UNCHANGED <<handle, flight, comp>>
  BY DEF BulkCancel
<1>1. CASE disp.pc = "cancel" /\ disp' = [pc |-> "sleep"] /\ UNCHANGED <<cb, use, eList, ghost>>
<2>1. HandleShape'
  BY <1>0, <1>1 DEF idle, HandleShape
<2>2. GhostShape'
  BY <1>0, <1>1 DEF idle, GhostShape
<2>3. NodeShape'
  BY <1>0, <1>1 DEF idle, NodeShape, ThreadShape
<2>4. ThreadShape'
  BY <1>0, <1>1 DEF idle, ThreadShape, NodeShape
<2>5. ghost'.late = TRUE \/ Placed'
  BY <1>0, <1>1 DEF idle, Placed, NodeShape, ThreadShape, GhostShape, DispHas, CompHas
<2>6. ghost'.late = TRUE \/ Told'
  BY <1>0, <1>1 DEF idle, Told, Resting, Placed, NodeShape, ThreadShape, HandleShape, GhostShape,
       DispHas, CompHas
<2> QED BY <2>1, <2>2, <2>3, <2>4, <2>5, <2>6 DEF Inv, Shape
<1>2. CASE /\ disp.pc = "sleep" /\ disp' = idle
           /\ LET out == {n \in Node : use[n] = "other"}
              IN  /\ use' = [n \in Node |-> IF n \in out THEN "nouse" ELSE use[n]]
                  /\ eList' = eList \cup out
                  /\ ghost' = [ghost EXCEPT !.late = @ \/ out # {} \/ comp # idle]
<2>1. HandleShape'
  BY <1>0, <1>2 DEF idle, HandleShape
<2>2. GhostShape'
  BY <1>0, <1>2 DEF idle, GhostShape
<2>3. NodeShape'
  BY <1>0, <1>2 DEF idle, NodeShape, ThreadShape
<2>4. ThreadShape'
  BY <1>0, <1>2 DEF idle, ThreadShape, NodeShape
<2>5. ghost'.late = TRUE \/ Placed'
  BY <1>0, <1>2 DEF idle, Placed, NodeShape, ThreadShape, GhostShape, DispHas, CompHas
<2>6. ghost'.late = TRUE \/ Told'
  BY <1>0, <1>2 DEF idle, Told, Resting, Placed, NodeShape, ThreadShape, HandleShape, GhostShape,
       DispHas, CompHas
<2> QED BY <2>1, <2>2, <2>3, <2>4, <2>5, <2>6 DEF Inv, Shape
<1> QED BY <1>1, <1>2 DEF BulkCancel, BulkRequestCancel

\* The callback changes only between requests.
LEMMA RegisterStep ==
    ASSUME Inv, FunRegBulkCallback \/ FunUnRegBulkCallback
    PROVE  Inv'
<1> USE DEF Inv, Shape
<1>1. HandleShape'
  BY DEF FunRegBulkCallback, FunUnRegBulkCallback, idle, HandleShape
<1>2. GhostShape'
  BY DEF FunRegBulkCallback, FunUnRegBulkCallback, idle, GhostShape
<1>3. NodeShape'
  BY DEF FunRegBulkCallback, FunUnRegBulkCallback, idle, NodeShape, ThreadShape
<1>4. ThreadShape'
  BY DEF FunRegBulkCallback, FunUnRegBulkCallback, idle, ThreadShape, NodeShape
<1>5. ghost'.late = TRUE \/ Placed'
  BY DEF FunRegBulkCallback, FunUnRegBulkCallback, idle, Placed, NodeShape, ThreadShape, GhostShape,
       DispHas, CompHas
<1>6. ghost'.late = TRUE \/ Told'
  BY DEF FunRegBulkCallback, FunUnRegBulkCallback, idle, Told, Resting, Placed, NodeShape, ThreadShape,
       HandleShape, GhostShape, DispHas, CompHas
<1> QED BY <1>1, <1>2, <1>3, <1>4, <1>5, <1>6 DEF Inv, Shape

------------------------------------------------------------------------------
\* Every step, and every stutter, preserves the invariant.
LEMMA NextInv == Inv /\ [BulkNext]_bulkVars => Inv'
<1> SUFFICES ASSUME Inv, [BulkNext]_bulkVars PROVE Inv'
  OBVIOUS
<1>1. CASE UNCHANGED bulkVars
  BY <1>1 DEF bulkVars, Inv, Shape, HandleShape, GhostShape, NodeShape, ThreadShape, Placed, Told, Resting,
              DispHas, CompHas, idle
<1>2. CASE BulkNext
  BY <1>2, StartStep, MapStep, TakeStep, DispAskStep, DispSubmitStep, DispPutBackStep, CompletedStep, CompPutStep,
     CompAskStep, CompSubmitStep, CompPutBackStep, CompTellStep, CancelStartStep, CancelStep, RegisterStep
     DEF BulkNext
<1> QED BY <1>1, <1>2

\* The places of the invariant are those of NodesAccounted.
LEMMA PlacedAccounted == Inv => NodesAccounted
<1> SUFFICES ASSUME Inv, ~ghost.late
             PROVE  /\ Node = eList \cup InFlight \cup DispHolds \cup CompHolds
                    /\ eList \cap InFlight = {}
                    /\ eList \cap (DispHolds \cup CompHolds) = {}
                    /\ InFlight \cap (DispHolds \cup CompHolds) = {}
                    /\ DispHolds \cap CompHolds = {}
  BY DEF NodesAccounted
<1>1. Placed /\ eList \subseteq Node
  BY DEF Inv, Shape, NodeShape
<1>2. \A n \in Node : /\ n \in InFlight <=> flight[n] > 0
                      /\ n \in DispHolds <=> DispHas(n)
                      /\ n \in CompHolds <=> CompHas(n)
  BY DEF InFlight, DispHolds, CompHolds, DispHas, CompHas
<1>3. InFlight \subseteq Node /\ DispHolds \subseteq Node /\ CompHolds \subseteq Node
  BY DEF InFlight, DispHolds, CompHolds
<1> QED BY <1>1, <1>2, <1>3 DEF Placed

\* At any time, for any number of nodes, a node is in exactly one place: free, with
\* the dispatcher, with the completion thread or with the device, until FunBulkCancel
\* gives up on one; so UsbdBulkASyncReqGetENode never hands out a request in flight.
THEOREM NodesAccountedHolds == BulkSpec => []NodesAccounted
<1>1. BulkSpec => []Inv
  BY InitInv, NextInv, PTL DEF BulkSpec
<1> QED BY <1>1, PlacedAccounted, PTL

\* The client's callback is called at most once for each FunBulkRead or FunBulkWrite,
\* for any number of nodes and any buffers, until FunBulkCancel gives up on a node.
THEOREM ToldOnceHolds == BulkSpec => []ToldOnce
<1>1. BulkSpec => []Inv
  BY InitInv, NextInv, PTL DEF BulkSpec
<1>2. Inv => ToldOnce
  BY DEF Inv, Told, ToldOnce
<1> QED BY <1>1, <1>2, PTL

------------------------------------------------------------------------------
(***************************************************************************)
(* What the client is told: the amounts, and that it is told at all.  The  *)
(* bytes in flight are counted as a set of pairs of a node and a byte.     *)
(***************************************************************************)
OutOf(f) == {x \in Node \X (1 .. maxPacketSize) : x[2] <= f[x[1]]}
Out == OutOf(flight)
DispLen == IF disp.pc = "submit" THEN disp.len ELSE 0
CompLen == IF comp.pc = "submit" THEN comp.len ELSE 0
CompAct == IF comp.pc = "put" THEN comp.act ELSE 0
Failing == \/ comp.pc \in {"put back", "tell"} /\ comp.ret # "nodata"
           \/ disp.pc = "put back" /\ disp.ret # "nodata"

\* What was asked for has been moved, or a thread or the device has it.
Amounts ==
    /\ disp.pc \notin {"map", "reset"}
    /\ handle.open = TRUE /\ handle.cur <= handle.size
    /\ dir = "read" => /\ ghost.moved = handle.rcur + CompAct
                       /\ handle.rcur + CompAct + CompLen + DispLen + Cardinality(Out) <= handle.cur
    /\ dir = "write" => Failing \/ handle.cur = ghost.moved + CompLen + DispLen + Cardinality(Out)

\* The amounts are right unless nobody will be told of them: the client was told already,
\* the transfer is being cancelled, or everything rests.
Reckoned == \/ handle.cbflg = TRUE
            \/ disp.pc \in {"cancel", "sleep"}
            \/ Resting
            \/ Amounts

\* A transfer that was begun and not told of is still out.
Pending == ghost.active = TRUE /\ ghost.asked = TRUE =>
               ghost.raced = TRUE \/ ghost.lost = TRUE \/ comp # idle \/ \E n \in Node : flight[n] > 0

Excused == ghost.late = TRUE \/ ghost.stale = TRUE \/ ghost.refused = TRUE \/ ghost.deaf = TRUE
Lengths ==
    /\ flight \in [Node -> 0 .. maxPacketSize]
    /\ disp.pc = "submit" => disp.len \in 1 .. maxPacketSize
    /\ comp.pc = "submit" => comp.len \in 1 .. maxPacketSize
    /\ comp.pc = "put" => comp.act \in Nat /\ dir = "read"
    /\ handle.rcur \in Nat /\ handle.size \in Nat
    /\ disp.pc = "map" => disp.size \in Nat
    /\ ghost.moved \in Nat
Flags ==
    /\ dir \in {"read", "write"}
    /\ cb \in BOOLEAN /\ tcb \in BOOLEAN /\ handle.open \in BOOLEAN
    /\ handle.cbflg \in BOOLEAN
    /\ ghost.active \in BOOLEAN /\ ghost.asked \in BOOLEAN /\ ghost.raced \in BOOLEAN
    /\ ghost.refused \in BOOLEAN /\ ghost.stale \in BOOLEAN /\ ghost.late \in BOOLEAN
    /\ ghost.deaf \in BOOLEAN /\ ghost.honest \in BOOLEAN /\ ghost.lost \in BOOLEAN
    /\ handle.cbflg = TRUE => ghost.active = FALSE \/ ghost.lost = TRUE
    /\ disp.pc \in {"cancel", "sleep"} => cb = FALSE /\ ghost.active = FALSE
    /\ disp.pc = "reset" => handle.open = TRUE
Said == comp.pc \in {"put back", "tell"} => comp.ret # "ok"
Right == Lengths /\ Flags /\ (~Excused => ghost.honest = TRUE /\ Pending /\ Reckoned)

\* The bytes out are finitely many, and none only if no request is.
LEMMA OutFinite ==
    ASSUME NEW f \in [Node -> 0 .. maxPacketSize]
    PROVE  /\ IsFiniteSet(OutOf(f))
           /\ Cardinality(OutOf(f)) \in Nat
           /\ (\A n \in Node : f[n] = 0) => Cardinality(OutOf(f)) = 0
<1>1. maxPacketSize \in Nat /\ IsFiniteSet(Node)
  BY BulkAssumption
<1>2. IsFiniteSet(1 .. maxPacketSize)
  BY <1>1, FS_Interval
<1>3. IsFiniteSet(Node \X (1 .. maxPacketSize))
  BY <1>1, <1>2, FS_Product
<1>4. IsFiniteSet(OutOf(f))
  BY <1>3, FS_Subset DEF OutOf
<1>5. ASSUME \A n \in Node : f[n] = 0  PROVE OutOf(f) = {}
  BY <1>5 DEF OutOf
<1> QED  BY <1>4, <1>5, FS_CardinalityType, FS_EmptySet

\* A request adds its length.
LEMMA OutAdded ==
    ASSUME NEW f \in [Node -> 0 .. maxPacketSize], NEW n \in Node, f[n] = 0,
           NEW len \in 0 .. maxPacketSize
    PROVE  Cardinality(OutOf([f EXCEPT ![n] = len])) = Cardinality(OutOf(f)) + len
<1>0. SUFFICES ASSUME NEW g, g = [f EXCEPT ![n] = len]
               PROVE  Cardinality(OutOf(g)) = Cardinality(OutOf(f)) + len
  OBVIOUS
<1>1. maxPacketSize \in Nat /\ g \in [Node -> 0 .. maxPacketSize]
  BY <1>0, BulkAssumption
<1>2. SUFFICES ASSUME NEW S, S = {n} \X (1 .. len)
               PROVE  Cardinality(OutOf(g)) = Cardinality(OutOf(f)) + len
  OBVIOUS
<1>3. IsFiniteSet(1 .. len) /\ Cardinality(1 .. len) = len
  <2>1. len \in Nat /\ 1 \in Int
    BY <1>1
  <2>2. IsFiniteSet(1 .. len) /\ Cardinality(1 .. len) = IF 1 > len THEN 0 ELSE len - 1 + 1
    BY <2>1, FS_Interval
  <2> QED  BY <2>1, <2>2
<1>4. IsFiniteSet({n}) /\ Cardinality({n}) = 1
  BY FS_Singleton
<1>5. IsFiniteSet(S) /\ Cardinality(S) = 1 * len
  BY <1>2, <1>3, <1>4, FS_Product
<1>6. IsFiniteSet(OutOf(f)) /\ Cardinality(OutOf(f)) \in Nat
  BY OutFinite
<1>7. OutOf(g) = OutOf(f) \cup S
  BY <1>0, <1>1, <1>2 DEF OutOf
<1>8. OutOf(f) \cap S = {}
  BY <1>0, <1>1, <1>2 DEF OutOf
<1>9. Cardinality(OutOf(f) \cup S) = Cardinality(OutOf(f)) + Cardinality(S) - Cardinality(OutOf(f) \cap S)
  BY <1>5, <1>6, FS_Union
<1>10. Cardinality(OutOf(f) \cap S) = 0
  BY <1>8, FS_EmptySet
<1>11. Cardinality(S) = len
  BY <1>1, <1>5
<1>12. Cardinality(OutOf(g)) = Cardinality(OutOf(f)) + len - 0
  BY <1>7, <1>9, <1>10, <1>11, Zenon
<1>13. len \in Int
  BY <1>1
<1> QED  BY <1>6, <1>12, <1>13

\* A completion that ends does so for a reason.
LEMMA SaidStays ==
    /\ BulkInit => Said
    /\ Said /\ [BulkNext]_bulkVars => Said'
<1>1. BulkInit => Said
  BY DEF BulkInit, Said, idle
<1>2. ASSUME Said, [BulkNext]_bulkVars  PROVE Said'
  <2>1. CASE comp' = comp
    BY <1>2, <2>1 DEF Said
  <2>2. CASE \E n \in Node : Completed(n)
    <3>1. comp'.pc \in {"put", "ask"} \/ comp'.ret \in {"cancelled", "error"}
      <4>1. PICK n \in Node : Completed(n)
        BY <2>2
      <4>2. ASSUME NEW act, comp' = IF dir = "read" THEN [pc |-> "put", node |-> n, act |-> act]
                                    ELSE [pc |-> "ask", node |-> n]
            PROVE  comp'.pc \in {"put", "ask"}
        BY <4>2
      <4>3. ASSUME NEW status \in {"cancelled", "error"}, comp' = [pc |-> "put back", node |-> n, ret |-> status]
            PROVE  comp'.ret \in {"cancelled", "error"}
        BY <4>3
      <4> QED  BY <4>1, <4>2, <4>3 DEF Completed
    <3> QED  BY <3>1 DEF Said
  <2>3. CASE CompPut \/ CompAsk \/ CompSubmit
    <3>1. CASE CompPut
      BY <3>1 DEF CompPut, Said
    <3>2. CASE CompAsk
      <4>1. SUFFICES ASSUME NEW r, r = Ask.ret  PROVE Said'
        OBVIOUS
      <4>2. comp'.pc = "submit" \/ (comp'.ret = r /\ r # "ok")
        BY <3>2, <4>1 DEF CompAsk
      <4> QED  BY <4>2 DEF Said
    <3>3. CASE CompSubmit
      <4>1. comp'.pc = "idle" \/ comp'.ret = "io"
        <5>1. comp' = idle \/ comp' = [pc |-> "put back", node |-> comp.node, ret |-> "io"]
          BY <3>3 DEF CompSubmit
        <5>2. idle.pc = "idle"
          BY DEF idle
        <5>3. CASE comp' = [pc |-> "put back", node |-> comp.node, ret |-> "io"]
          BY <5>3
        <5> QED  BY <5>1, <5>2, <5>3
      <4> QED  BY <4>1 DEF Said
    <3> QED  BY <2>3, <3>1, <3>2, <3>3
  <2>4. CASE CompPutBack
    BY <1>2, <2>4 DEF CompPutBack, Said
  <2>5. CASE CompTell
    BY <2>5 DEF CompTell, Said, idle
  <2>6. comp' = comp \/ (\E n \in Node : Completed(n)) \/ CompPut \/ CompAsk \/ CompSubmit \/ CompPutBack \/ CompTell
    BY <1>2 DEF BulkNext, bulkVars, FunBulk, InitAsmBufferHandle, UsbdBulkASyncReqGetENode, DispAsk, DispSubmit, DispPutBack,
                FunBulkCancel, BulkCancel, FunRegBulkCallback, FunUnRegBulkCallback
  <2> QED  BY <2>1, <2>2, <2>3, <2>4, <2>5, <2>6
<1> QED  BY <1>1, <1>2

\* In the beginning nothing is asked for and nothing is out.
LEMMA InitRight == BulkInit => Right
<1> SUFFICES ASSUME BulkInit PROVE Right
  OBVIOUS
<1>1. Lengths
  BY BulkAssumption DEF BulkInit, Lengths, closed, idle
<1>2. Flags
  BY DEF BulkInit, Flags, closed, idle
<1>3. Pending /\ Reckoned /\ ghost.honest = TRUE
  BY DEF BulkInit, idle, Pending, Reckoned, Resting
<1> QED  BY <1>1, <1>2, <1>3 DEF Right

\* A transfer that starts finds everything at rest, or meets requests of the one before.
LEMMA StartRight ==
    ASSUME Inv, Right, NEW size \in Sizes, FunBulk(size)
    PROVE  Right'
<1>1. /\ handle' = closed /\ size \in Nat /\ disp = idle /\ disp' = [pc |-> "map", size |-> size]
      /\ UNCHANGED <<dir, cb, tcb, eList, flight, comp>>
  BY BulkAssumption DEF FunBulk, ReleaseAsmBufferHandle
<1>2. /\ ghost'.active = ghost.active /\ ghost'.asked = ghost.asked /\ ghost'.refused = ghost.refused
      /\ ghost'.raced = ghost.raced /\ ghost'.lost = ghost.lost /\ ghost'.deaf = ghost.deaf
      /\ ghost'.moved = ghost.moved /\ ghost'.honest = ghost.honest /\ ghost'.late = ghost.late
      /\ ghost'.stale = (ghost.stale \/ InFlight # {} \/ comp # idle)
  BY DEF FunBulk, Inv, Shape, GhostShape
<1>3. Lengths'
  BY <1>1, <1>2 DEF Right, Lengths, closed
<1>4. Flags'
  BY <1>1, <1>2 DEF Right, Flags, closed
<1>5. ASSUME ~Excused'  PROVE ghost'.honest = TRUE /\ Pending' /\ Reckoned'
  <2>1. ~Excused /\ comp = idle /\ InFlight = {}
    BY <1>2, <1>5 DEF Excused, Right, Flags
  <2>2. ghost.honest = TRUE /\ Pending
    BY <2>1 DEF Right
  <2>3. eList = Node
    <3>1. \A n \in Node : ~(flight[n] > 0) /\ ~DispHas(n) /\ ~CompHas(n)
      BY <1>1, <2>1 DEF InFlight, DispHas, CompHas, idle
    <3> QED BY <2>1, <3>1 DEF Excused, Inv, Shape, NodeShape, Placed
  <2>4. Resting'
    BY <1>1, <2>1, <2>3 DEF Resting
  <2>5. Pending'
    BY <1>1, <1>2, <2>2 DEF Pending
  <2> QED BY <1>2, <2>2, <2>4, <2>5 DEF Reckoned
<1> QED  BY <1>3, <1>4, <1>5 DEF Right

\* The new buffer is taken over with nothing asked for.
LEMMA MapRight ==
    ASSUME Inv, Right, InitAsmBufferHandle
    PROVE  Right'
<1>0. UNCHANGED <<dir, cb, tcb, eList, flight, comp>> /\ HandleShape /\ GhostShape
  BY DEF InitAsmBufferHandle, Inv, Shape
<1>1. CASE /\ disp.pc = "map" /\ disp' = [pc |-> "reset"] /\ UNCHANGED ghost
           /\ handle' = [handle EXCEPT !.open = TRUE, !.size = disp.size]
  <2>1. /\ handle'.cbflg = handle.cbflg /\ handle'.open = TRUE /\ handle'.rcur = handle.rcur
        /\ handle'.size = disp.size
    BY <1>0, <1>1 DEF HandleShape
  <2>2. Lengths'
    BY <1>0, <1>1, <2>1 DEF Right, Lengths
  <2>3. Flags'
    BY <1>0, <1>1, <2>1 DEF Right, Flags
  <2>4. Excused' = Excused /\ (Pending => Pending')
    BY <1>0, <1>1 DEF Excused, Pending
  <2>5. Reckoned => Reckoned'
    BY <1>0, <1>1, <2>1 DEF Reckoned, Resting, Amounts
  <2> QED BY <1>1, <2>2, <2>3, <2>4, <2>5 DEF Right
<1>2. CASE /\ disp.pc = "reset" /\ disp' = [pc |-> "take", turns |-> 0]
           /\ handle' = [handle EXCEPT !.cur = 0, !.rcur = 0, !.cbflg = FALSE]
           /\ ghost' = [ghost EXCEPT !.active = TRUE, !.told = 0, !.moved = 0, !.honest = TRUE, !.asked = FALSE,
                                     !.refused = FALSE, !.raced = FALSE, !.lost = FALSE, !.deaf = ~cb,
                                     !.stale = InFlight # {} \/ comp # idle]
  <2>1. /\ handle'.cbflg = FALSE /\ handle'.open = handle.open /\ handle'.rcur = 0 /\ handle'.cur = 0
        /\ handle'.size = handle.size
    BY <1>0, <1>2 DEF HandleShape
  <2>2. /\ ghost'.active = TRUE /\ ghost'.asked = FALSE /\ ghost'.refused = FALSE /\ ghost'.raced = FALSE
        /\ ghost'.deaf = ~cb /\ ghost'.moved = 0 /\ ghost'.honest = TRUE /\ ghost'.late = ghost.late
        /\ ghost'.lost = FALSE /\ ghost'.stale = (InFlight # {} \/ comp # idle)
    BY <1>0, <1>2 DEF GhostShape
  <2>3. Lengths'
    BY <1>0, <1>2, <2>1, <2>2 DEF Right, Lengths
  <2>4. Flags'
    BY <1>0, <1>2, <2>1, <2>2 DEF Right, Flags
  <2>5. Pending'
    BY <2>2 DEF Pending
  <2>6. ASSUME ~Excused'  PROVE Amounts'
    <3>1. comp = idle /\ \A n \in Node : flight[n] = 0
      <4>1. comp = idle /\ InFlight = {}
        BY <2>2, <2>6 DEF Excused
      <4>2. \A n \in Node : ~(flight[n] > 0) /\ flight[n] \in 0 .. maxPacketSize
        BY <4>1 DEF InFlight, Right, Lengths
      <4> QED  BY <4>1, <4>2
    <3>2. Cardinality(OutOf(flight)) = 0
      BY <3>1, OutFinite DEF Right, Lengths
    <3>3. Cardinality(Out') = 0
      BY <1>0, <3>2 DEF Out
    <3>4. CompLen' = 0 /\ CompAct' = 0 /\ DispLen' = 0
      BY <1>0, <1>2, <3>1 DEF CompLen, CompAct, DispLen, idle
    <3>5. handle'.open = TRUE
      BY <1>2, <2>1 DEF Right, Flags
    <3> QED  BY <1>0, <1>2, <2>1, <2>2, <3>3, <3>4, <3>5 DEF Amounts, Right, Lengths
  <2> QED  BY <2>2, <2>3, <2>4, <2>5, <2>6 DEF Right, Reckoned
<1> QED BY <1>1, <1>2 DEF InitAsmBufferHandle

\* A free node taken by the dispatcher carries no bytes yet.
LEMMA TakeRight ==
    ASSUME Inv, Right, UsbdBulkASyncReqGetENode
    PROVE  Right'
<1>1. disp.pc = "take" /\ UNCHANGED <<dir, handle, cb, tcb, flight, comp, ghost>>
  BY DEF UsbdBulkASyncReqGetENode
<1>2. disp'.pc \in {"idle", "ask"}
  BY DEF UsbdBulkASyncReqGetENode, idle
<1>3. Lengths' /\ Flags'
  BY <1>1, <1>2 DEF Right, Lengths, Flags
<1>4. Excused' = Excused /\ (Pending => Pending')
  BY <1>1 DEF Excused, Pending
<1>5. Amounts => Amounts'
  BY <1>1, <1>2 DEF Amounts, Failing, CompAct, CompLen, DispLen, Out
<1>6. ~Resting
  BY <1>1 DEF Resting, idle
<1> QED  BY <1>1, <1>3, <1>4, <1>5, <1>6 DEF Right, Reckoned

\* The next piece fits the buffer and the pipe.
LEMMA AskBound ==
    ASSUME HandleShape
    PROVE  /\ Ask.len \in 0 .. maxPacketSize
           /\ Ask.ret # "ok" => Ask.len = 0
           /\ Ask.ret = "ok" => Ask.len \in 1 .. maxPacketSize
           /\ handle.cur <= handle.size => handle.cur + Ask.len <= handle.size
<1>1. maxPacketSize \in Nat /\ maxPacketSize > 0
  BY BulkAssumption
<1>2. handle.size \in Int /\ handle.cur \in Int
  BY DEF HandleShape
<1> QED BY <1>1, <1>2 DEF Ask, UsbdBulkAsyncGetAsmReqLen, UsbdBulkAsyncGetAsmData, Piece, Least

\* What the dispatcher assigns to its node leaves the rest of the buffer, and so the sum, as it was.
LEMMA DispAskRight ==
    ASSUME Inv, Right, DispAsk
    PROVE  Right'
<1>1. disp.pc = "ask" /\ UNCHANGED <<dir, cb, tcb, flight, comp, ghost>>
  BY DEF DispAsk
<1>2. HandleShape
  BY DEF Inv, Shape
<1>3. /\ handle'.cur = handle.cur + Ask.len /\ handle'.size = handle.size /\ handle'.rcur = handle.rcur
      /\ handle'.open = handle.open /\ handle'.cbflg = handle.cbflg
  BY <1>2 DEF DispAsk, HandleShape
<1>4. SUFFICES ASSUME NEW a, a = Ask.len, NEW r, r = Ask.ret  PROVE Right'
  OBVIOUS
<1>5. /\ a \in 0 .. maxPacketSize /\ a \in Int /\ (r # "ok" => a = 0) /\ (r = "ok" => a \in 1 .. maxPacketSize)
      /\ handle.cur <= handle.size => handle.cur + a <= handle.size
  BY <1>2, <1>4, AskBound, AskFact
<1>6. \/ r = "ok" /\ disp'.pc = "submit" /\ disp'.len = a
      \/ r # "ok" /\ disp'.pc = "put back" /\ disp'.ret = r
  BY <1>4 DEF DispAsk
<1>7. Lengths' /\ Flags'
  <2>1. Lengths'
    BY <1>1, <1>3, <1>5, <1>6 DEF Right, Lengths
  <2>2. ghost' = ghost /\ dir' = dir /\ cb' = cb /\ tcb' = tcb /\ disp'.pc \notin {"cancel", "sleep", "reset"}
    BY <1>1, <1>6
  <2>3. Flags'
    BY <1>3, <2>2 DEF Right, Flags
  <2> QED  BY <2>1, <2>3
<1>8. Excused' = Excused /\ (Pending => Pending')
  BY <1>1 DEF Excused, Pending
<1>9. Amounts => Amounts'
  <2>1. SUFFICES ASSUME Amounts  PROVE Amounts'
    OBVIOUS
  <2>2. Out' = Out /\ Cardinality(Out) \in Nat /\ CompLen' = CompLen /\ CompAct' = CompAct
    BY <1>1, OutFinite DEF Right, Lengths, Out, CompLen, CompAct
  <2>3. CompLen \in Int /\ CompAct \in Int /\ handle.rcur \in Int /\ handle.cur \in Int /\ handle.size \in Int
    BY <1>2 DEF Right, Lengths, CompLen, CompAct, HandleShape
  <2>4. DispLen = 0 /\ DispLen' = a
    BY <1>1, <1>5, <1>6 DEF DispLen
  <2>5. Failing => Failing'
    BY <1>1 DEF Failing
  <2>6. ghost'.moved = ghost.moved /\ ghost.moved \in Int
    BY <1>1 DEF Right, Lengths
  <2>7. disp'.pc \notin {"map", "reset"}
    BY <1>6
  <2> QED  BY <1>1, <1>3, <1>4, <1>5, <2>1, <2>2, <2>3, <2>4, <2>5, <2>6, <2>7 DEF Amounts
<1>10. ~Resting
  BY <1>1 DEF Resting, idle
<1> QED  BY <1>1, <1>3, <1>7, <1>8, <1>9, <1>10 DEF Right, Reckoned

\* The bytes of the dispatcher's node go to the device, or the transfer is answered with an error.
LEMMA DispSubmitRight ==
    ASSUME Inv, Right, DispSubmit
    PROVE  Right'
<1>1. disp.pc = "submit" /\ UNCHANGED <<dir, handle, cb, tcb, comp>>
  BY DEF DispSubmit
<1>2. disp.node \in Node /\ disp.len \in 1 .. maxPacketSize /\ disp.len \in Int /\ GhostShape
  BY <1>1 DEF Inv, Shape, ThreadShape, Right, Lengths
<1>3. ~Resting
  BY <1>1 DEF Resting, idle
<1>4. /\ handle.rcur \in Int /\ handle.cur \in Int /\ handle.size \in Int /\ ghost.moved \in Int
      /\ CompLen \in Int /\ CompAct \in Int /\ CompLen' = CompLen /\ CompAct' = CompAct
      /\ DispLen = disp.len
  BY <1>1 DEF Right, Lengths, CompLen, CompAct, DispLen, Inv, Shape, HandleShape
<1>5. CASE /\ flight' = [flight EXCEPT ![disp.node] = disp.len]
           /\ ghost' = [ghost EXCEPT !.asked = TRUE]
           /\ disp'.pc \in {"idle", "take"}
  <2>1. /\ flight' \in [Node -> 0 .. maxPacketSize] /\ flight'[disp.node] > 0
    BY <1>2, <1>5 DEF Right, Lengths
  <2>2. /\ ghost'.asked = TRUE /\ ghost'.active = ghost.active /\ ghost'.refused = ghost.refused
        /\ ghost'.raced = ghost.raced /\ ghost'.lost = ghost.lost /\ ghost'.stale = ghost.stale /\ ghost'.late = ghost.late
        /\ ghost'.deaf = ghost.deaf /\ ghost'.honest = ghost.honest /\ ghost'.moved = ghost.moved
    BY <1>2, <1>5 DEF GhostShape
  <2>3. Lengths' /\ Flags'
    BY <1>1, <1>5, <2>1, <2>2 DEF Right, Lengths, Flags
  <2>4. Excused' = Excused /\ Pending'
    BY <1>2, <2>1, <2>2 DEF Excused, Pending
  <2>5. ASSUME ~Excused, Amounts  PROVE Amounts'
    <3>1. flight[disp.node] = 0
      <4>1. ~(flight[disp.node] > 0)
        BY <1>1, <1>2, <2>5 DEF Inv, Excused, Placed, DispHas
      <4> QED  BY <1>2, <4>1 DEF Right, Lengths
    <3>2. Cardinality(Out') = Cardinality(Out) + disp.len
      <4>1. SUFFICES ASSUME NEW n, n = disp.node, NEW len, len = disp.len
                     PROVE  Cardinality(Out') = Cardinality(Out) + disp.len
        OBVIOUS
      <4>2. flight \in [Node -> 0 .. maxPacketSize] /\ len \in 0 .. maxPacketSize
        BY <1>2, <4>1 DEF Right, Lengths
      <4>3. flight' = [flight EXCEPT ![n] = len] /\ n \in Node /\ flight[n] = 0
        BY <1>2, <1>5, <3>1, <4>1
      <4>4. Cardinality(OutOf([flight EXCEPT ![n] = len])) = Cardinality(OutOf(flight)) + len
        BY <4>2, <4>3, OutAdded
      <4> QED  BY <4>1, <4>3, <4>4 DEF Out
    <3>3. Cardinality(Out) \in Nat
      BY OutFinite DEF Right, Lengths, Out
    <3>4. DispLen' = 0
      BY <1>5 DEF DispLen
    <3>5. Failing => Failing'
      BY <1>1 DEF Failing
    <3> QED  BY <1>1, <1>2, <1>4, <1>5, <2>2, <2>5, <3>2, <3>3, <3>4, <3>5 DEF Amounts
  <2> QED  BY <1>1, <1>3, <2>2, <2>3, <2>4, <2>5 DEF Right, Reckoned
<1>6. CASE disp' = [pc |-> "put back", node |-> disp.node, ret |-> "io"] /\ UNCHANGED <<flight, ghost>>
  <2>1. Lengths' /\ Flags'
    <3>1. Lengths'
      BY <1>1, <1>6 DEF Right, Lengths
    <3>2. Flags'
      <4>1. ghost' = ghost /\ dir' = dir /\ cb' = cb /\ tcb' = tcb /\ handle' = handle /\ disp'.pc = "put back"
        BY <1>1, <1>6
      <4>2. Flags
        BY DEF Right
      <4> QED  BY <1>1, <4>1, <4>2, Zenon DEF Flags
    <3> QED  BY <3>1, <3>2
  <2>2. Excused' = Excused /\ (Pending => Pending')
    BY <1>1, <1>6 DEF Excused, Pending
  <2>3. Amounts => Amounts'
    <3>1. Out' = Out /\ Cardinality(Out) \in Nat /\ DispLen' = 0 /\ Failing'
      BY <1>6, OutFinite DEF Right, Lengths, Out, DispLen, Failing
    <3>2. ghost' = ghost /\ handle' = handle /\ dir' = dir
      BY <1>1, <1>6
    <3>3. disp'.pc \notin {"map", "reset"}
      BY <1>6
    <3> QED  BY <1>2, <1>4, <3>1, <3>2, <3>3 DEF Amounts
  <2> QED  BY <1>1, <1>3, <1>6, <2>1, <2>2, <2>3 DEF Right, Reckoned
<1>7. /\ idle.pc = "idle" /\ \A n : [pc |-> "take", turns |-> n].pc = "take"
  BY DEF idle
<1> QED  BY <1>5, <1>6, <1>7 DEF DispSubmit

\* A node that the dispatcher had no data for goes back and takes no bytes along.
LEMMA DispPutBackRight ==
    ASSUME Inv, Right, DispPutBack
    PROVE  Right'
<1>1. disp.pc = "put back" /\ disp' = idle /\ UNCHANGED <<dir, handle, cb, tcb, flight, comp>>
  BY DEF DispPutBack
<1>2. /\ ghost'.asked = ghost.asked /\ ghost'.raced = ghost.raced /\ ghost'.lost = ghost.lost /\ ghost'.stale = ghost.stale
      /\ ghost'.late = ghost.late /\ ghost'.deaf = ghost.deaf /\ ghost'.honest = ghost.honest
      /\ ghost'.moved = ghost.moved /\ ghost'.refused = (ghost.refused \/ disp.ret # "nodata")
      /\ ghost'.active = (ghost.active /\ disp.ret = "nodata")
  BY DEF DispPutBack, Inv, Shape, GhostShape
<1>3. Lengths'
  BY <1>1, <1>2 DEF Right, Lengths, idle
<1>4. Flags'
  BY <1>1, <1>2 DEF Right, Flags, idle
<1>5. ASSUME ~Excused'  PROVE ~Excused /\ disp.ret = "nodata" /\ ghost'.active = ghost.active
  BY <1>2, <1>5 DEF Right, Flags, Excused
<1>6. ASSUME disp.ret = "nodata", Amounts  PROVE Amounts'
  BY <1>1, <1>2, <1>6 DEF Amounts, Failing, CompAct, CompLen, DispLen, Out, idle
<1>7. ~Resting
  BY <1>1 DEF Resting, Inv, Shape, ThreadShape
<1>8. ASSUME Pending, ghost'.active = ghost.active  PROVE Pending'
  BY <1>1, <1>2, <1>8 DEF Pending
<1> QED  BY <1>1, <1>2, <1>3, <1>4, <1>5, <1>6, <1>7, <1>8 DEF Right, Reckoned

\* A completion takes its length from what is out, and what it moved is no more than that.
LEMMA CompletedRight ==
    ASSUME Inv, Right, NEW n \in Node, Completed(n)
    PROVE  Right'
<1>1. comp = idle /\ flight[n] > 0 /\ UNCHANGED <<dir, handle, cb, tcb, eList, disp>>
  BY DEF Completed
<1>2. SUFFICES ASSUME NEW len, len = flight[n]  PROVE Right'
  OBVIOUS
<1>3. flight' = [flight EXCEPT ![n] = 0] /\ flight \in [Node -> 0 .. maxPacketSize]
  BY DEF Completed, Right, Lengths
<1>4. flight' \in [Node -> 0 .. maxPacketSize] /\ len \in 0 .. maxPacketSize /\ len \in Nat
  BY <1>2, <1>3, BulkAssumption
<1>5. Cardinality(Out) = Cardinality(Out') + len /\ Cardinality(Out') \in Nat
  <2>1. SUFFICES ASSUME NEW f, f = flight'
                 PROVE  Cardinality(OutOf(flight)) = Cardinality(OutOf(f)) + len /\ Cardinality(OutOf(f)) \in Nat
    BY DEF Out
  <2>2. f \in [Node -> 0 .. maxPacketSize] /\ f[n] = 0 /\ flight = [f EXCEPT ![n] = len]
    BY <1>2, <1>3, <1>4, <2>1
  <2>3. Cardinality(OutOf([f EXCEPT ![n] = len])) = Cardinality(OutOf(f)) + len
    BY <1>4, <2>2, OutAdded
  <2> QED  BY <2>2, <2>3, OutFinite
<1>6. ~Excused => ~Resting
  BY <1>1 DEF Excused, Inv, Placed, Resting
<1>7. /\ handle.rcur \in Int /\ handle.cur \in Int /\ handle.size \in Int /\ ghost.moved \in Nat
      /\ DispLen \in Int /\ DispLen' = DispLen /\ CompLen = 0 /\ CompAct = 0 /\ GhostShape
  BY <1>1 DEF Right, Lengths, CompLen, CompAct, DispLen, Inv, Shape, HandleShape, idle
<1>8. ASSUME NEW act, act \in IF dir = "read" THEN 0 .. len ELSE {len},
             comp' = IF dir = "read" THEN [pc |-> "put", node |-> n, act |-> act] ELSE [pc |-> "ask", node |-> n],
             ghost' = [ghost EXCEPT !.moved = @ + act]
      PROVE  Right'
  <2>1. act \in Nat /\ act <= len /\ (dir # "read" => act = len)
    BY <1>4, <1>8
  <2>2. /\ ghost'.asked = ghost.asked /\ ghost'.active = ghost.active /\ ghost'.refused = ghost.refused
        /\ ghost'.raced = ghost.raced /\ ghost'.lost = ghost.lost /\ ghost'.stale = ghost.stale /\ ghost'.late = ghost.late
        /\ ghost'.deaf = ghost.deaf /\ ghost'.honest = ghost.honest /\ ghost'.moved = ghost.moved + act
    BY <1>7, <1>8 DEF GhostShape
  <2>3. /\ comp'.pc \in {"put", "ask"} /\ comp' # idle /\ CompLen' = 0
        /\ dir = "read" => comp'.pc = "put" /\ comp'.act = act /\ CompAct' = act
        /\ dir # "read" => comp'.pc = "ask"
    BY <1>8 DEF idle, CompLen, CompAct
  <2>4. Lengths'
    BY <1>1, <1>4, <1>7, <2>1, <2>2, <2>3 DEF Right, Lengths
  <2>5. Flags'
    BY <1>1, <2>2 DEF Right, Flags
  <2>6. Excused' = Excused /\ Pending'
    BY <2>2, <2>3 DEF Excused, Pending
  <2>7. Failing' <=> Failing
    BY <1>1, <2>3 DEF Failing, idle
  <2>8. Amounts => Amounts'
    BY <1>1, <1>4, <1>5, <1>7, <2>1, <2>2, <2>3, <2>7 DEF Amounts
  <2> QED  BY <1>1, <1>6, <2>2, <2>4, <2>5, <2>6, <2>8 DEF Right, Reckoned
<1>9. ASSUME NEW status, status \in {"cancelled", "error"}, UNCHANGED ghost,
             comp' = [pc |-> "put back", node |-> n, ret |-> status]
      PROVE  Right'
  <2>1. comp'.pc = "put back" /\ comp' # idle /\ CompLen' = 0 /\ CompAct' = 0 /\ Failing'
    BY <1>9 DEF idle, CompLen, CompAct, Failing
  <2>2. Lengths'
    BY <1>1, <1>4, <1>7, <1>9, <2>1 DEF Right, Lengths
  <2>3. Flags'
    <3>1. ghost' = ghost /\ dir' = dir /\ cb' = cb /\ tcb' = tcb /\ disp' = disp /\ handle' = handle
      BY <1>1, <1>9
    <3> QED  BY <3>1 DEF Right, Flags
  <2>4. Excused' = Excused /\ Pending'
    BY <1>9, <2>1 DEF Excused, Pending
  <2>5. Amounts => Amounts'
    <3>1. ghost'.moved = ghost.moved /\ handle' = handle /\ dir' = dir /\ DispLen' = DispLen
      BY <1>1, <1>7, <1>9
    <3>2. Cardinality(Out') <= Cardinality(Out) /\ Cardinality(Out) \in Nat
      BY <1>4, <1>5
    <3>3. SUFFICES ASSUME Amounts  PROVE Amounts'
      OBVIOUS
    <3>4. handle'.open = TRUE /\ handle'.cur <= handle'.size
      BY <3>1, <3>3 DEF Amounts
    <3>5. ASSUME dir = "read"
          PROVE  /\ ghost'.moved = handle'.rcur + CompAct'
                 /\ handle'.rcur + CompAct' + CompLen' + DispLen' + Cardinality(Out') <= handle'.cur
      <4>1. /\ ghost.moved = handle.rcur + 0
            /\ handle.rcur + 0 + 0 + DispLen + Cardinality(Out) <= handle.cur
        BY <1>7, <3>3, <3>5 DEF Amounts
      <4>2. ghost'.moved = handle'.rcur + CompAct'
        BY <1>7, <2>1, <3>1, <4>1
      <4>3. handle'.rcur = handle.rcur /\ handle'.cur = handle.cur
        BY <3>1
      <4>4. handle.rcur + 0 + 0 + DispLen + Cardinality(Out') <= handle.cur
        BY <1>5, <1>7, <3>2, <4>1
      <4> QED  BY <2>1, <3>1, <4>2, <4>3, <4>4
    <3> QED  BY <1>1, <2>1, <3>1, <3>3, <3>4, <3>5 DEF Amounts
  <2> QED  BY <1>1, <1>6, <1>9, <2>2, <2>3, <2>4, <2>5 DEF Right, Reckoned
<1> QED  BY <1>2, <1>8, <1>9 DEF Completed

\* What a read returned fits the buffer, and is stored in full.
LEMMA CompPutRight ==
    ASSUME Inv, Right, CompPut
    PROVE  Right'
<1>1. comp.pc = "put" /\ UNCHANGED <<dir, cb, tcb, flight, disp, ghost>>
  BY DEF CompPut
<1>2. /\ HandleShape /\ comp.act \in Nat /\ ghost.moved \in Nat /\ dir = "read"
      /\ handle.open \in BOOLEAN
  BY <1>1 DEF Inv, Shape, Right, Lengths, Flags
<1>3. SUFFICES ASSUME NEW act, act = comp.act, NEW put, put = UsbdBulkASyncPutAsmData(act)  PROVE Right'
  OBVIOUS
<1>4. /\ handle' = put.handle
      /\ \/ put.ret = "ok" /\ comp'.pc = "ask"
         \/ put.ret # "ok" /\ comp'.pc = "put back" /\ comp'.ret = put.ret
  BY <1>3 DEF CompPut
<1>5. /\ handle'.cur = handle.cur /\ handle'.size = handle.size
      /\ handle'.open = handle.open /\ handle'.cbflg = handle.cbflg
      /\ \/ act < 1 /\ handle'.rcur = handle.rcur /\ put.ret = "invalid"
         \/ handle.open # TRUE /\ handle'.rcur = handle.rcur /\ put.ret = "bad fd"
         \/ act >= 1 /\ handle'.rcur = handle.rcur + Least(handle.size - handle.rcur, act) /\ put.ret = "ok"
  <2>1. CASE act < 1
    BY <1>3, <1>4, <2>1 DEF UsbdBulkASyncPutAsmData
  <2>2. CASE ~(act < 1) /\ handle.open = FALSE
    BY <1>3, <1>4, <2>2 DEF UsbdBulkASyncPutAsmData
  <2>3. CASE ~(act < 1) /\ handle.open = TRUE
    <3>1. /\ handle' = [handle EXCEPT !.rcur = @ + Least(handle.size - @, act)]
          /\ put.ret = "ok"
      BY <1>3, <1>4, <2>3 DEF UsbdBulkASyncPutAsmData
    <3>2. act >= 1
      BY <1>2, <1>3, <2>3
    <3> QED  BY <1>2, <3>1, <3>2 DEF HandleShape
  <2> QED  BY <1>2, <2>1, <2>2, <2>3
<1>6. Lengths'
  <2>1. handle'.rcur \in Nat
    <3>1. handle.rcur \in Nat /\ handle.size \in Nat /\ act \in Nat
      BY <1>2, <1>3 DEF Right, Lengths
    <3>2. handle.rcur + Least(handle.size - handle.rcur, act) \in Nat
      BY <3>1 DEF Least
    <3> QED  BY <1>5, <3>1, <3>2
  <2> QED  BY <1>1, <1>4, <1>5, <2>1 DEF Right, Lengths
<1>7. Flags'
  <2>1. ghost' = ghost /\ dir' = dir /\ cb' = cb /\ tcb' = tcb /\ disp' = disp
    BY <1>1
  <2>2. handle'.open = handle.open /\ handle'.cbflg = handle.cbflg
    BY <1>5
  <2> QED  BY <2>1, <2>2 DEF Right, Flags
<1>8. Excused' = Excused /\ Pending'
  <2>1. Excused' = Excused
    BY <1>1 DEF Excused
  <2>2. idle.pc = "idle"
    BY DEF idle
  <2>3. comp' # idle
    BY <1>4, <2>2
  <2> QED  BY <2>1, <2>3 DEF Pending
<1>9. ~Resting
  BY <1>1 DEF Resting, Inv, Shape, ThreadShape
<1>10. Amounts => Amounts'
  <2>1. SUFFICES ASSUME Amounts  PROVE Amounts'
    OBVIOUS
  <2>2. Out' = Out /\ Cardinality(Out) \in Nat /\ DispLen' = DispLen
    BY <1>1, OutFinite DEF Right, Lengths, Out, DispLen
  <2>3. /\ DispLen \in Nat /\ handle.rcur \in Nat /\ handle.cur \in Int /\ handle.size \in Int
        /\ CompLen = 0 /\ CompAct = act /\ CompLen' = 0 /\ CompAct' = 0
    <3>1. comp'.pc \in {"ask", "put back"}
      BY <1>4
    <3>2. DispLen \in Nat /\ handle.rcur \in Nat /\ handle.cur \in Int /\ handle.size \in Int
      BY <1>2 DEF Right, Lengths, DispLen, HandleShape
    <3> QED  BY <1>1, <1>3, <3>1, <3>2 DEF CompLen, CompAct
  <2>4. handle'.open = TRUE /\ handle'.cur <= handle'.size
    BY <1>5, <2>1 DEF Amounts
  <2>5. /\ ghost.moved = handle.rcur + act
        /\ handle.rcur + act + 0 + DispLen + Cardinality(Out) <= handle.cur
    BY <1>2, <2>1, <2>3 DEF Amounts
  <2>6. handle'.rcur = handle.rcur + act
    <3>1. act \in Nat
      BY <1>2, <1>3
    <3>2. Least(handle.size - handle.rcur, act) = act /\ handle.open = TRUE
      BY <2>1, <2>2, <2>3, <2>5, <3>1 DEF Amounts, Least
    <3>3. act < 1 => act = 0
      BY <3>1
    <3>4. \/ act < 1 /\ handle'.rcur = handle.rcur
          \/ handle'.rcur = handle.rcur + Least(handle.size - handle.rcur, act)
      BY <1>5, <3>2
    <3> QED  BY <2>3, <3>1, <3>2, <3>3, <3>4
  <2>7. /\ ghost'.moved = handle'.rcur + CompAct'
        /\ handle'.rcur + CompAct' + CompLen' + DispLen' + Cardinality(Out') <= handle'.cur
    <3>1. act \in Nat /\ ghost'.moved = ghost.moved
      BY <1>1, <1>2, <1>3
    <3>2. handle'.cur = handle.cur
      BY <1>5
    <3> QED  BY <2>2, <2>3, <2>5, <2>6, <3>1, <3>2
  <2> QED  BY <1>1, <1>2, <2>1, <2>4, <2>7 DEF Amounts
<1> QED  BY <1>1, <1>5, <1>7, <1>6, <1>8, <1>9, <1>10 DEF Right, Reckoned

\* What the completing thread assigns to its node leaves the sum as it was.
LEMMA CompAskRight ==
    ASSUME Inv, Right, CompAsk
    PROVE  Right'
<1>1. comp.pc = "ask" /\ UNCHANGED <<dir, cb, tcb, flight, disp, ghost>>
  BY DEF CompAsk
<1>2. HandleShape
  BY DEF Inv, Shape
<1>3. /\ handle'.cur = handle.cur + Ask.len /\ handle'.size = handle.size /\ handle'.rcur = handle.rcur
      /\ handle'.open = handle.open /\ handle'.cbflg = handle.cbflg
  BY <1>2 DEF CompAsk, HandleShape
<1>4. SUFFICES ASSUME NEW a, a = Ask.len, NEW r, r = Ask.ret  PROVE Right'
  OBVIOUS
<1>5. /\ a \in 0 .. maxPacketSize /\ a \in Int /\ (r # "ok" => a = 0) /\ (r = "ok" => a \in 1 .. maxPacketSize)
      /\ handle.cur <= handle.size => handle.cur + a <= handle.size
  BY <1>2, <1>4, AskBound, AskFact
<1>6. \/ r = "ok" /\ comp'.pc = "submit" /\ comp'.len = a
      \/ r # "ok" /\ comp'.pc = "put back" /\ comp'.ret = r
  BY <1>4 DEF CompAsk
<1>7. Lengths' /\ Flags'
  <2>1. Lengths'
    BY <1>1, <1>3, <1>5, <1>6 DEF Right, Lengths
  <2>2. ghost' = ghost /\ dir' = dir /\ cb' = cb /\ tcb' = tcb /\ disp' = disp
    BY <1>1
  <2>3. Flags'
    BY <1>3, <2>2 DEF Right, Flags
  <2> QED  BY <2>1, <2>3
<1>8. Excused' = Excused /\ Pending'
  <2>1. Excused' = Excused
    BY <1>1 DEF Excused
  <2>2. idle.pc = "idle"
    BY DEF idle
  <2>3. comp' # idle
    BY <1>6, <2>2
  <2> QED  BY <2>1, <2>3 DEF Pending
<1>9. Amounts => Amounts'
  <2>1. SUFFICES ASSUME Amounts  PROVE Amounts'
    OBVIOUS
  <2>2. Out' = Out /\ Cardinality(Out) \in Nat /\ DispLen' = DispLen
    BY <1>1, OutFinite DEF Right, Lengths, Out, DispLen
  <2>3. DispLen \in Int /\ handle.rcur \in Int /\ handle.cur \in Int /\ handle.size \in Int
    BY <1>2 DEF Right, Lengths, DispLen, HandleShape
  <2>4. CompLen = 0 /\ CompLen' = a /\ CompAct = 0 /\ CompAct' = 0
    BY <1>1, <1>5, <1>6 DEF CompLen, CompAct
  <2>5. Failing => Failing'
    BY <1>1 DEF Failing
  <2>6. ghost'.moved = ghost.moved /\ ghost.moved \in Int
    BY <1>1 DEF Right, Lengths
  <2> QED  BY <1>1, <1>3, <1>4, <1>5, <2>1, <2>2, <2>3, <2>4, <2>5, <2>6 DEF Amounts
<1>10. ~Resting
  BY <1>1 DEF Resting, Inv, Shape, ThreadShape
<1> QED  BY <1>1, <1>3, <1>7, <1>8, <1>9, <1>10 DEF Right, Reckoned

\* The bytes of the completing thread's node go to the device, or it must tell of the failure.
LEMMA CompSubmitRight ==
    ASSUME Inv, Right, CompSubmit
    PROVE  Right'
<1>1. comp.pc = "submit" /\ UNCHANGED <<dir, handle, cb, tcb, disp, ghost>>
  BY DEF CompSubmit
<1>2. comp.node \in Node /\ comp.len \in 1 .. maxPacketSize /\ comp.len \in Int
  BY <1>1 DEF Inv, Shape, ThreadShape, Right, Lengths
<1>3. ~Resting
  BY <1>1 DEF Resting, Inv, Shape, ThreadShape
<1>4. /\ handle.rcur \in Int /\ handle.cur \in Int /\ handle.size \in Int /\ ghost.moved \in Int
      /\ DispLen \in Int /\ DispLen' = DispLen /\ CompLen = comp.len /\ CompAct = 0
  BY <1>1 DEF Right, Lengths, CompLen, CompAct, DispLen, Inv, Shape, HandleShape
<1>5. Flags' /\ Excused' = Excused
  <2>1. ghost' = ghost /\ dir' = dir /\ cb' = cb /\ tcb' = tcb /\ disp' = disp /\ handle' = handle
    BY <1>1
  <2> QED  BY <2>1 DEF Right, Flags, Excused
<1>6. CASE flight' = [flight EXCEPT ![comp.node] = comp.len] /\ comp' = idle
  <2>1. flight' \in [Node -> 0 .. maxPacketSize] /\ flight'[comp.node] > 0
    BY <1>2, <1>6 DEF Right, Lengths
  <2>2. Lengths'
    BY <1>1, <1>6, <2>1 DEF Right, Lengths, idle
  <2>3. Pending'
    BY <1>2, <2>1 DEF Pending
  <2>4. ASSUME ~Excused, Amounts  PROVE Amounts'
    <3>1. flight[comp.node] = 0
      <4>1. ~(flight[comp.node] > 0)
        BY <1>1, <1>2, <2>4 DEF Inv, Excused, Placed, CompHas
      <4> QED  BY <1>2, <4>1 DEF Right, Lengths
    <3>2. Cardinality(Out') = Cardinality(Out) + comp.len
      <4>1. SUFFICES ASSUME NEW n, n = comp.node, NEW len, len = comp.len
                     PROVE  Cardinality(Out') = Cardinality(Out) + comp.len
        OBVIOUS
      <4>2. flight \in [Node -> 0 .. maxPacketSize] /\ len \in 0 .. maxPacketSize
        BY <1>2, <4>1 DEF Right, Lengths
      <4>3. flight' = [flight EXCEPT ![n] = len] /\ n \in Node /\ flight[n] = 0
        BY <1>2, <1>6, <3>1, <4>1
      <4>4. Cardinality(OutOf([flight EXCEPT ![n] = len])) = Cardinality(OutOf(flight)) + len
        BY <4>2, <4>3, OutAdded
      <4> QED  BY <4>1, <4>3, <4>4 DEF Out
    <3>3. Cardinality(Out) \in Nat
      BY OutFinite DEF Right, Lengths, Out
    <3>4. CompLen' = 0 /\ CompAct' = 0
      BY <1>6 DEF CompLen, CompAct, idle
    <3>5. Failing => Failing'
      BY <1>1 DEF Failing
    <3> QED  BY <1>1, <1>2, <1>4, <2>4, <3>2, <3>3, <3>4, <3>5 DEF Amounts
  <2> QED  BY <1>1, <1>3, <1>5, <2>2, <2>3, <2>4 DEF Right, Reckoned
<1>7. CASE comp' = [pc |-> "put back", node |-> comp.node, ret |-> "io"] /\ UNCHANGED flight
  <2>1. Lengths'
    BY <1>1, <1>7 DEF Right, Lengths
  <2>2. Pending' /\ Failing'
    BY <1>7 DEF Pending, Failing, idle
  <2>3. Amounts => Amounts'
    <3>1. Out' = Out /\ Cardinality(Out) \in Nat /\ CompLen' = 0 /\ CompAct' = 0
      BY <1>7, OutFinite DEF Right, Lengths, Out, CompLen, CompAct
    <3>2. ghost' = ghost /\ handle' = handle /\ dir' = dir
      BY <1>1
    <3> QED  BY <1>1, <1>2, <1>4, <2>2, <3>1, <3>2 DEF Amounts
  <2> QED  BY <1>1, <1>3, <1>5, <2>1, <2>2, <2>3 DEF Right, Reckoned
<1> QED  BY <1>6, <1>7 DEF CompSubmit

\* The completing thread puts back a node that carries nothing.
LEMMA CompPutBackRight ==
    ASSUME Inv, Right, CompPutBack
    PROVE  Right'
<1>1. comp.pc = "put back" /\ UNCHANGED <<dir, handle, cb, tcb, flight, disp, ghost>>
  BY DEF CompPutBack
<1>2. comp'.pc = "tell" /\ comp'.ret = comp.ret
  BY DEF CompPutBack
<1>3. Lengths'
  BY <1>1, <1>2 DEF Right, Lengths
<1>4. Flags' /\ Excused' = Excused
  <2>1. ghost' = ghost /\ dir' = dir /\ cb' = cb /\ tcb' = tcb /\ disp' = disp /\ handle' = handle
    BY <1>1
  <2> QED  BY <2>1 DEF Right, Flags, Excused
<1>5. Pending'
  <2>1. idle.pc = "idle"
    BY DEF idle
  <2> QED  BY <1>2, <2>1 DEF Pending
<1>6. Amounts => Amounts'
  <2>1. CompLen' = CompLen /\ CompAct' = CompAct /\ (Failing' <=> Failing)
    BY <1>1, <1>2 DEF CompLen, CompAct, Failing
  <2> QED  BY <1>1, <2>1 DEF Amounts, Out, DispLen
<1>7. ~Resting
  BY <1>1 DEF Resting, Inv, Shape, ThreadShape
<1> QED  BY <1>1, <1>3, <1>4, <1>5, <1>6, <1>7 DEF Right, Reckoned

\* The count of the free nodes says whether all of them are.
LEMMA AllFree ==
    ASSUME eList \subseteq Node
    PROVE  Cardinality(eList) >= NUM_MAX <=> eList = Node
<1>1. IsFiniteSet(Node)
  BY BulkAssumption
<1>2. /\ Cardinality(eList) <= Cardinality(Node) /\ IsFiniteSet(eList)
      /\ Cardinality(Node) = Cardinality(eList) => Node = eList
  BY <1>1, FS_Subset
<1>3. Cardinality(Node) \in Nat /\ Cardinality(eList) \in Nat
  BY <1>1, <1>2, FS_CardinalityType
<1> QED  BY <1>2, <1>3 DEF NUM_MAX

\* The client is told of success when every node is free, so that nothing is out.
LEMMA CompTellRight ==
    ASSUME Inv, Said, Right, CompTell
    PROVE  Right'
<1>1. comp.pc = "tell" /\ comp' = idle /\ UNCHANGED <<dir, cb, tcb, eList, flight, disp>>
  BY DEF CompTell
<1>2. HandleShape /\ GhostShape /\ eList \subseteq Node
  BY DEF Inv, Shape, NodeShape
<1>3. ~Resting
  BY <1>1 DEF Resting, Inv, Shape, ThreadShape
<1>4. Lengths /\ Flags
  BY DEF Right
<1>5. CASE cb = FALSE /\ ghost' = [ghost EXCEPT !.deaf = TRUE] /\ UNCHANGED handle
  <2>1. /\ ghost'.deaf = TRUE /\ ghost'.active = ghost.active /\ ghost'.asked = ghost.asked
        /\ ghost'.raced = ghost.raced /\ ghost'.lost = ghost.lost /\ ghost'.refused = ghost.refused /\ ghost'.stale = ghost.stale
        /\ ghost'.late = ghost.late /\ ghost'.honest = ghost.honest /\ ghost'.moved = ghost.moved
    BY <1>2, <1>5 DEF GhostShape
  <2>2. Lengths'
    BY <1>1, <1>4, <1>5, <2>1 DEF Lengths, idle
  <2>3. Flags'
    BY <1>1, <1>4, <1>5, <2>1 DEF Flags
  <2> QED  BY <2>1, <2>2, <2>3 DEF Right, Excused
<1>6. CASE handle' = handle /\ ghost' = ghost /\ handle.cbflg = TRUE
  <2>1. handle' = handle
    BY <1>6
  <2>2. Lengths'
    BY <1>1, <1>4, <1>6, <2>1 DEF Lengths, idle
  <2>3. Flags'
    BY <1>1, <1>4, <1>6, <2>1 DEF Flags
  <2>4. Excused' = Excused
    BY <1>6 DEF Excused
  <2>5. Pending' /\ Reckoned'
    BY <1>4, <1>6, <2>1 DEF Flags, Pending, Reckoned
  <2> QED  BY <1>6, <2>2, <2>3, <2>4, <2>5 DEF Right
<1>7. ASSUME NEW ret, cb # FALSE, handle.cbflg # TRUE, handle' = [handle EXCEPT !.cbflg = TRUE],
             ret = "ok" => comp.ret = "nodata" /\ Cardinality(eList) >= NUM_MAX,
             ghost' = [ghost EXCEPT !.active = FALSE, !.told = @ + 1,
                          !.honest = ret = "ok" => /\ InFlight = {}
                                                   /\ (IF dir = "read" THEN handle.rcur ELSE handle.cur) = ghost.moved]
      PROVE  Right'
  <2>1. /\ ghost'.active = FALSE /\ ghost'.asked = ghost.asked /\ ghost'.deaf = ghost.deaf
        /\ ghost'.raced = ghost.raced /\ ghost'.lost = ghost.lost /\ ghost'.refused = ghost.refused /\ ghost'.stale = ghost.stale
        /\ ghost'.late = ghost.late /\ ghost'.moved = ghost.moved
        /\ ghost'.honest = (ret = "ok" => /\ InFlight = {}
                                          /\ (IF dir = "read" THEN handle.rcur ELSE handle.cur) = ghost.moved)
    BY <1>2, <1>7 DEF GhostShape
  <2>2. /\ handle'.cbflg = TRUE /\ handle'.rcur = handle.rcur /\ handle'.size = handle.size
        /\ handle'.open = handle.open /\ handle'.cur = handle.cur
    BY <1>2, <1>7 DEF HandleShape
  <2>3. Lengths'
    BY <1>1, <1>4, <2>1, <2>2 DEF Lengths, idle
  <2>4. Flags'
    BY <1>1, <1>4, <2>1, <2>2 DEF Flags
  <2>5. Excused' = Excused
    BY <2>1 DEF Excused
  <2>6. Pending' /\ Reckoned'
    BY <2>1, <2>2 DEF Pending, Reckoned
  <2>7. ASSUME ~Excused  PROVE ghost'.honest = TRUE
    <3>1. SUFFICES ASSUME ret = "ok"
                   PROVE  InFlight = {} /\ (IF dir = "read" THEN handle.rcur ELSE handle.cur) = ghost.moved
      BY <2>1
    <3>2. Amounts
      BY <1>3, <1>4, <1>7, <2>7 DEF Right, Reckoned, Flags
    <3>3. eList = Node
      BY <1>2, <1>7, <3>1, AllFree
    <3>4. \A n \in Node : ~(flight[n] > 0) /\ ~DispHas(n)
      BY <2>7, <3>3 DEF Excused, Inv, Placed
    <3>5. InFlight = {}
      BY <3>4 DEF InFlight
    <3>6. Cardinality(Out) = 0
      <4>1. \A n \in Node : flight[n] = 0
        BY <1>4, <3>4 DEF Lengths
      <4> QED  BY <1>4, <4>1, OutFinite DEF Lengths, Out
    <3>7. DispLen = 0 /\ ~Failing /\ CompLen = 0 /\ CompAct = 0
      <4>1. disp.pc \notin {"submit", "put back"}
        BY <3>4 DEF DispHas, Inv, Shape, ThreadShape
      <4> QED  BY <1>1, <1>7, <3>1, <4>1 DEF DispLen, CompLen, CompAct, Failing
    <3>8. handle.rcur \in Int /\ handle.cur \in Int /\ ghost.moved \in Int
      BY <1>2, <1>4 DEF HandleShape, Lengths
    <3> QED  BY <1>4, <3>2, <3>5, <3>6, <3>7, <3>8 DEF Amounts, Flags
  <2> QED  BY <2>3, <2>4, <2>5, <2>6, <2>7 DEF Right
<1>8. CASE /\ comp.ret = "nodata" /\ ~(Cardinality(eList) >= NUM_MAX) /\ UNCHANGED handle
           /\ ghost' = [ghost EXCEPT !.raced = @ \/ DispHolds # {}]
  <2>1. /\ ghost'.active = ghost.active /\ ghost'.asked = ghost.asked /\ ghost'.deaf = ghost.deaf
        /\ ghost'.raced = (ghost.raced \/ DispHolds # {}) /\ ghost'.lost = ghost.lost /\ ghost'.refused = ghost.refused
        /\ ghost'.stale = ghost.stale /\ ghost'.late = ghost.late /\ ghost'.moved = ghost.moved
        /\ ghost'.honest = ghost.honest
    BY <1>2, <1>8 DEF GhostShape
  <2>2. Lengths'
    BY <1>1, <1>4, <1>8, <2>1 DEF Lengths, idle
  <2>3. Flags'
    BY <1>1, <1>4, <1>8, <2>1 DEF Flags
  <2>4. Excused' = Excused
    BY <2>1 DEF Excused
  <2>5. ASSUME ~Excused  PROVE Pending'
    <3>1. PICK n \in Node : n \notin eList
      BY <1>2, <1>8, AllFree
    <3>2. flight[n] > 0 \/ DispHas(n)
      BY <1>1, <2>5, <3>1 DEF Excused, Inv, Placed, CompHas
    <3>3. CASE flight[n] > 0
      BY <1>1, <3>3 DEF Pending
    <3>4. CASE DispHas(n)
      <4>1. DispHolds # {}
        BY <3>4 DEF DispHolds, DispHas
      <4>2. ghost'.raced = TRUE
        BY <1>4, <2>1, <4>1 DEF Flags
      <4> QED  BY <4>2 DEF Pending
    <3> QED  BY <3>2, <3>3, <3>4
  <2>6. Amounts => Amounts'
    <3>1. CompLen' = CompLen /\ CompAct' = CompAct /\ (Failing' <=> Failing)
      BY <1>1, <1>8 DEF CompLen, CompAct, Failing, idle
    <3> QED  BY <1>1, <1>8, <2>1, <3>1 DEF Amounts, Out, DispLen
  <2>7. Reckoned /\ ~Resting => Reckoned'
    BY <1>1, <1>8, <2>6 DEF Reckoned
  <2> QED  BY <1>3, <2>1, <2>2, <2>3, <2>4, <2>5, <2>7 DEF Right
<1>10. CASE handle' = [handle EXCEPT !.cbflg = TRUE] /\ ghost' = [ghost EXCEPT !.lost = TRUE]
  <2>1. /\ ghost'.active = ghost.active /\ ghost'.asked = ghost.asked /\ ghost'.deaf = ghost.deaf
        /\ ghost'.raced = ghost.raced /\ ghost'.lost = TRUE /\ ghost'.refused = ghost.refused
        /\ ghost'.stale = ghost.stale /\ ghost'.late = ghost.late /\ ghost'.moved = ghost.moved
        /\ ghost'.honest = ghost.honest
    BY <1>2, <1>10 DEF GhostShape
  <2>2. /\ handle'.cbflg = TRUE /\ handle'.rcur = handle.rcur /\ handle'.size = handle.size
        /\ handle'.open = handle.open
    BY <1>2, <1>10 DEF HandleShape
  <2>3. Lengths'
    BY <1>1, <1>4, <2>1, <2>2 DEF Lengths, idle
  <2>4. Flags'
    BY <1>1, <1>4, <2>1, <2>2 DEF Flags
  <2>5. Excused' = Excused
    BY <2>1 DEF Excused
  <2>6. Pending' /\ Reckoned'
    BY <2>1, <2>2 DEF Pending, Reckoned
  <2> QED  BY <2>1, <2>3, <2>4, <2>5, <2>6 DEF Right
<1>9. CASE comp.ret # "nodata" \/ Cardinality(eList) >= NUM_MAX
  <2>1. PICK ret : /\ RemoteCallback(ret)
                   /\ ret = "ok" => comp.ret = "nodata" /\ Cardinality(eList) >= NUM_MAX
    <3>1. comp.ret # "ok"
      BY <1>1 DEF Said
    <3> QED  BY <1>9, <3>1 DEF CompTell
  <2>2. CASE cb = FALSE
    BY <1>5, <2>1, <2>2 DEF RemoteCallback
  <2>3. CASE cb = TRUE /\ handle.cbflg = TRUE
    BY <1>6, <2>1, <2>3 DEF RemoteCallback
  <2>4. CASE cb = TRUE /\ handle.cbflg # TRUE
    <3>1. handle.cbflg = FALSE
      BY <1>4, <2>4 DEF Flags
    <3> QED  BY <1>7, <1>10, <2>1, <2>4, <3>1 DEF RemoteCallback
  <2> QED  BY <1>4, <2>2, <2>3, <2>4 DEF Flags
<1> QED  BY <1>8, <1>9 DEF CompTell

\* The beginning of a cancellation closes the buffer and puts the callback away.
LEMMA CancelStartRight ==
    ASSUME Inv, Right, FunBulkCancel
    PROVE  Right'
<1>1. /\ handle' = closed /\ disp' = [pc |-> "cancel"] /\ tcb' = cb /\ cb' = FALSE
      /\ UNCHANGED <<dir, flight, comp>>
  BY DEF FunBulkCancel, ReleaseAsmBufferHandle
<1>2. /\ ghost'.active = FALSE /\ ghost'.asked = ghost.asked /\ ghost'.deaf = ghost.deaf
      /\ ghost'.raced = ghost.raced /\ ghost'.lost = ghost.lost /\ ghost'.refused = ghost.refused /\ ghost'.stale = ghost.stale
      /\ ghost'.late = ghost.late /\ ghost'.moved = ghost.moved /\ ghost'.honest = ghost.honest
  BY DEF FunBulkCancel, Inv, Shape, GhostShape
<1>3. Lengths'
  BY <1>1, <1>2 DEF Right, Lengths, closed
<1>4. Flags'
  BY <1>1, <1>2 DEF Right, Flags, closed
<1>5. Excused' = Excused
  BY <1>2 DEF Excused
<1>6. Pending' /\ Reckoned'
  BY <1>1, <1>2 DEF Pending, Reckoned
<1> QED  BY <1>2, <1>3, <1>4, <1>5, <1>6 DEF Right

\* A cancellation ends with every node free, or has given up on one.
LEMMA CancelRight ==
    ASSUME Inv, Right, BulkCancel
    PROVE  Right'
<1>1. UNCHANGED <<dir, handle, flight, comp>>
  BY DEF BulkCancel
<1>2. CASE disp.pc = "cancel" /\ disp' = [pc |-> "sleep"] /\ UNCHANGED <<cb, tcb, ghost>>
  <2>1. Lengths'
    BY <1>1, <1>2 DEF Right, Lengths
  <2>2. ghost' = ghost /\ dir' = dir /\ cb' = cb /\ tcb' = tcb /\ handle' = handle /\ disp'.pc = "sleep"
    BY <1>1, <1>2
  <2>3. Flags' /\ Excused' = Excused
    BY <1>2, <2>2 DEF Right, Flags, Excused
  <2>4. Pending' /\ Reckoned'
    BY <1>2, <2>2 DEF Right, Flags, Pending, Reckoned
  <2> QED  BY <2>1, <2>2, <2>3, <2>4 DEF Right
<1>3. CASE /\ disp.pc = "sleep" /\ disp' = idle /\ cb' = tcb /\ tcb' = FALSE
           /\ eList' = eList \cup {n \in Node : use[n] = "other"}
           /\ ghost' = [ghost EXCEPT !.late = @ \/ {n \in Node : use[n] = "other"} # {} \/ comp # idle]
  <2>1. /\ ghost'.active = ghost.active /\ ghost'.asked = ghost.asked /\ ghost'.deaf = ghost.deaf
        /\ ghost'.raced = ghost.raced /\ ghost'.lost = ghost.lost /\ ghost'.refused = ghost.refused /\ ghost'.stale = ghost.stale
        /\ ghost'.moved = ghost.moved /\ ghost'.honest = ghost.honest
        /\ ghost'.late = (ghost.late \/ {n \in Node : use[n] = "other"} # {} \/ comp # idle)
    BY <1>3 DEF Inv, Shape, GhostShape
  <2>2. Lengths'
    BY <1>1, <1>3, <2>1 DEF Right, Lengths, idle
  <2>3. Flags'
    BY <1>1, <1>3, <2>1 DEF Right, Flags, idle
  <2>4. Pending'
    BY <1>3, <2>1 DEF Right, Flags, Pending
  <2>5. ASSUME ~Excused'  PROVE ~Excused /\ Reckoned'
    <3>1. {n \in Node : use[n] = "other"} = {} /\ comp = idle /\ ghost.late # TRUE
      BY <2>1, <2>5 DEF Excused
    <3>2. eList = Node
      BY <3>1 DEF Inv, Shape, NodeShape, Placed
    <3>3. Resting'
      BY <1>1, <1>3, <3>1, <3>2 DEF Resting, idle
    <3>4. ~Excused
      BY <2>1, <2>5, <3>1 DEF Excused
    <3> QED  BY <3>3, <3>4 DEF Reckoned
  <2> QED  BY <2>1, <2>2, <2>3, <2>4, <2>5 DEF Right
<1> QED  BY <1>2, <1>3 DEF BulkCancel, BulkRequestCancel

\* Registering or removing the callback changes no transfer.
LEMMA RegisterRight ==
    ASSUME Inv, Right, FunRegBulkCallback \/ FunUnRegBulkCallback
    PROVE  Right'
<1>1. /\ disp = idle /\ cb' \in BOOLEAN
      /\ UNCHANGED <<dir, handle, tcb, eList, flight, disp, comp, ghost>>
  BY DEF FunRegBulkCallback, FunUnRegBulkCallback
<1>2. idle.pc = "idle"
  BY DEF idle
<1>3. Lengths'
  BY <1>1 DEF Right, Lengths
<1>4. Flags'
  <2>1. ghost' = ghost /\ dir' = dir /\ tcb' = tcb /\ handle' = handle /\ disp'.pc = "idle"
    BY <1>1, <1>2
  <2> QED  BY <1>1, <2>1 DEF Right, Flags
<1>5. Excused' = Excused /\ (Pending => Pending')
  BY <1>1 DEF Excused, Pending
<1>6. Reckoned => Reckoned'
  BY <1>1 DEF Reckoned, Resting, Amounts, Failing, CompAct, CompLen, DispLen, Out
<1> QED  BY <1>1, <1>3, <1>4, <1>5, <1>6 DEF Right

\* Every step of the dispatcher, the completing thread and the device keeps the amounts right.
LEMMA NextRight == Inv /\ Said /\ Right /\ [BulkNext]_bulkVars => Right'
<1> SUFFICES ASSUME Inv, Said, Right, [BulkNext]_bulkVars PROVE Right'
  OBVIOUS
<1>1. CASE UNCHANGED bulkVars
  <2>1. UNCHANGED <<dir, handle, cb, tcb, eList, flight, disp, comp, ghost>>
    BY <1>1 DEF bulkVars
  <2>2. Lengths'
    BY <2>1 DEF Right, Lengths
  <2>3. Flags'
    BY <2>1 DEF Right, Flags
  <2>4. Excused' = Excused /\ (Pending => Pending')
    BY <2>1 DEF Excused, Pending
  <2>5. Reckoned => Reckoned'
    BY <2>1 DEF Reckoned, Resting, Amounts, Failing, CompAct, CompLen, DispLen, Out
  <2> QED  BY <2>1, <2>2, <2>3, <2>4, <2>5 DEF Right
<1>2. CASE BulkNext
  BY <1>2, StartRight, MapRight, TakeRight, DispAskRight, DispSubmitRight, DispPutBackRight, CompletedRight,
     CompPutRight, CompAskRight, CompSubmitRight, CompPutBackRight, CompTellRight, CancelStartRight,
     CancelRight, RegisterRight
     DEF BulkNext
<1> QED BY <1>1, <1>2

\* The amounts say that the client is told rightly.
LEMMA RightIsToldRight == Inv /\ Right => ToldRight
<1> SUFFICES ASSUME Right, ~Excused  PROVE ToldRight
  BY DEF Excused, ToldRight
<1>1. ghost.honest = TRUE /\ Pending
  BY DEF Right
<1>2. ASSUME comp = idle, InFlight = {}, ghost.active, ghost.asked  PROVE ghost.raced \/ ghost.lost
  BY <1>1, <1>2 DEF Right, Flags, Pending, InFlight
<1> QED  BY <1>1, <1>2 DEF ToldRight

\* A client whose transfer is not excused is told of success only when nothing is out and of the
\* amount that was moved, and it is told: when the last node comes back the transfer is told of, or
\* the message was lost, or the nodes were counted while the dispatcher held one.
THEOREM ToldRightHolds == BulkSpec => []ToldRight
<1>1. BulkInit => Inv /\ Said /\ Right
  BY InitInv, InitRight, SaidStays
<1>2. Inv /\ Said /\ Right /\ [BulkNext]_bulkVars => (Inv /\ Said /\ Right)'
  BY NextInv, NextRight, SaidStays
<1> QED  BY <1>1, <1>2, RightIsToldRight, PTL DEF BulkSpec
=============================================================================
