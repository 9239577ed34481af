-------------------------- MODULE UsbInterfacePool --------------------------
(***************************************************************************)
(* Claims of the interfaces of one USB device by several clients of one    *)
(* session of the host kit: the device list of the Linux adapter, the list *)
(* of interface pools, and the four reference counts that keep a device, a *)
(* pool, an interface and the I/O threads alive.                           *)
(*                                                                         *)
(* A client claims an interface, opens and closes handles of it, and       *)
(* releases it, and a plug-and-play notice adds or removes an interface.   *)
(* session->lock and interfaceLock are each held for one step; between the *)
(* steps, so between finding a pool and using it, the callers interleave.  *)
(* A caller that goes on with an object another one has freed is           *)
(* "undefined".                                                            *)
(***************************************************************************)
EXTENDS Integers, Sequences, FiniteSets, TLC

CONSTANTS Clients,
          Ifaces,       \* interfaces of the device, the control interface left out
          PoolIds,      \* memory for interface pools: their number bounds allocation
          DevIds,       \* memory for devices and their handles
          NoPool, NoDev, NoIface,
          MaxCount      \* bound: no claim is begun once a pool counts this many references

ASSUME HeapAssumption == NoPool \notin PoolIds /\ NoDev \notin DevIds /\ NoIface \notin Ifaces
ASSUME ClientsAssumption == IsFiniteSet(Clients)

VARIABLES devs,         \* struct UsbDevice with its UsbDeviceHandle
          pools,        \* struct UsbInterfacePool with its interfaces
          list,         \* session->ifacePoolList
          client,       \* where each client is, and the locals of its call
          notice,       \* the call of UsbAddOrRemoveInterface, and its locals
          gone,         \* the device was unplugged
          overlap,      \* history: calls overlapped while a pool or a device was made or destroyed
          lost          \* history: a count or a request was lost

vars == <<devs, pools, list, client, notice, gone, overlap, lost>>

FreeDev == [st |-> "free", refcnt |-> 0, private |-> NoPool, claimed |-> {}]
FreePool == [st |-> "free", dev |-> NoDev, ref |-> 0, ioRef |-> 0, io |-> "off", ifaces |-> {},
             ifRef |-> [i \in Ifaces |-> 0], removed |-> {}, queue |-> {}]
Idle == [pc |-> "idle", iface |-> NoIface, pool |-> NoPool, via |-> NoPool, dev |-> NoDev, flag |-> FALSE]
NoNotice == [pc |-> "idle", iface |-> NoIface, pool |-> NoPool]

\* Between a claim and the end of its release, and with a handle.
Claimant == {"held", "opening", "opened", "closing", "releasing"}
Opener == {"opened", "closing"}

TypeOK ==
    /\ devs \in [DevIds -> [st : {"free", "listed"}, refcnt : Int,
                            private : PoolIds \cup {NoPool}, claimed : SUBSET Ifaces]]
    /\ \A p \in PoolIds :
          /\ pools[p].st \in {"free", "listed", "unlisted"}
          /\ pools[p].dev \in DevIds \cup {NoDev}
          /\ pools[p].ref \in Nat
          /\ pools[p].ioRef \in Int
          /\ pools[p].io \in {"off", "on", "died"}
          /\ pools[p].ifRef \in [Ifaces -> Int]
          /\ pools[p].removed \subseteq pools[p].ifaces
          /\ pools[p].queue \subseteq Clients
    /\ list \in Seq(PoolIds)
    /\ \A c \in Clients :
          /\ client[c].pc \in {"idle", "lookup", "alloc", "create", "link", "parse", "refind", "iface",
                               "claim", "drop", "close", "unlist", "undefined"} \cup Claimant
          /\ client[c].pc \in {"iface", "claim"} \cup Claimant => client[c].pool \in PoolIds
    /\ notice \in [pc : {"idle", "found", "notify", "undefined"}, iface : Ifaces \cup {NoIface},
                   pool : PoolIds \cup {NoPool}]
    /\ gone \in BOOLEAN
    /\ overlap \in BOOLEAN
    /\ lost \in BOOLEAN

Init ==
    /\ devs = [d \in DevIds |-> FreeDev]
    /\ pools = [p \in PoolIds |-> FreePool]
    /\ list = <<>>
    /\ client = [c \in Clients |-> Idle]
    /\ notice = NoNotice
    /\ gone = FALSE
    /\ overlap = FALSE
    /\ lost = FALSE

-----------------------------------------------------------------------------
(* The heap. *)

Referenced == {client[c].pool : c \in Clients} \cup {client[c].via : c \in Clients} \cup {notice.pool}
              \cup {devs[d].private : d \in DevIds}
FreshPools == {p \in PoolIds : pools[p].st = "free"} \ Referenced
FreshDevs == {d \in DevIds : devs[d].st = "free"}
             \ ({client[c].dev : c \in Clients} \cup {pools[p].dev : p \in PoolIds})
UsbDevs == {d \in DevIds : devs[d].st = "listed"}

\* Whether the objects the next step of a client uses still exist.
Alive(c) ==
    LET me == client[c] IN
    /\ me.pc \in {"parse", "iface", "claim", "drop"} \cup Claimant => pools[me.pool].st # "free"
    /\ me.pc \in {"create", "link", "refind", "close", "unlist"} => devs[me.dev].st # "free"
    /\ me.pc \in {"claim", "held", "opening", "releasing"} =>
          me.iface \in pools[me.pool].ifaces /\ devs[pools[me.pool].dev].st # "free"
    /\ me.pc = "opened" => /\ devs[me.dev].st # "free"
                           /\ pools[devs[me.dev].private].st # "free"
    /\ me.pc = "closing" => pools[me.via].st # "free" /\ me.iface \in pools[me.via].ifaces

\* Bounds: after an overlap the clients close and release what they hold and begin nothing
\* new; after a loss they still claim.
MayClaim == ~overlap
MayBegin == ~overlap /\ ~lost

\* A step of client c that may use its objects and ends with locals l.
At(c, pc) == client[c].pc = pc /\ Alive(c)
Go(c, l) == client' = [client EXCEPT ![c] = l]
Step(c, pc) == Go(c, [client[c] EXCEPT !.pc = pc])
Overlaps(b) == overlap' = (overlap \/ b)
Loses(b) == lost' = (lost \/ b)

UseAfterFree(c) ==
    /\ client[c].pc # "undefined"
    /\ ~Alive(c)
    /\ Step(c, "undefined")
    /\ UNCHANGED <<devs, pools, list, notice, gone, overlap, lost>>

-----------------------------------------------------------------------------
(* UsbClaimInterface. *)

\* Mutant: the pool is found with refCountFlag FALSE.
FindPoolUncounted(c, i, found, missing) ==
    IF list = <<>>
    THEN /\ Go(c, [missing EXCEPT !.iface = i])
         /\ UNCHANGED <<pools, overlap, lost>>
    ELSE LET p == Head(list)
             linked == pools[p].dev # NoDev
             early == \E b \in Clients \ {c} : client[b].pool = p /\ client[b].pc \in {"parse", "refind"}
         IN /\ pools' = pools
            /\ Go(c, [IF linked THEN [found EXCEPT !.pool = p] ELSE missing EXCEPT !.iface = i])
            /\ Overlaps(early)
            /\ Loses(~linked)

\* IfFindInterfacePool with refCountFlag: the first pool of the list, counted. A pool that
\* another client has not yet linked to its device is counted as well, and given up.
FindPool(c, i, found, missing) ==
    IF list = <<>>
    THEN /\ Go(c, [missing EXCEPT !.iface = i])
         /\ UNCHANGED <<pools, overlap, lost>>
    ELSE LET p == Head(list)
             linked == pools[p].dev # NoDev
             early == \E b \in Clients \ {c} : client[b].pool = p /\ client[b].pc \in {"parse", "refind"}
         IN /\ pools' = [pools EXCEPT ![p].ref = @ + 1]
            /\ Go(c, [IF linked THEN [found EXCEPT !.pool = p] ELSE missing EXCEPT !.iface = i])
            /\ Overlaps(early)
            /\ Loses(~linked)

UsbClaimInterface(c, i) ==
    /\ At(c, "idle")
    /\ MayClaim
    /\ \A p \in PoolIds : pools[p].ref < MaxCount
    /\ FindPool(c, i, [Idle EXCEPT !.pc = "iface"], [Idle EXCEPT !.pc = "lookup"])
    /\ UNCHANGED <<devs, list, notice, gone>>

OsGetDeviceHandle(c) ==
    /\ At(c, "lookup")
    /\ \/ /\ UsbDevs = {}
          /\ Step(c, "alloc")
          /\ UNCHANGED <<devs, overlap>>
       \/ \E d \in UsbDevs :
             /\ devs' = [devs EXCEPT ![d].refcnt = @ + 1]
             /\ Go(c, [client[c] EXCEPT !.pc = "create", !.dev = d])
             /\ Overlaps(devs[d].refcnt = 0)
    /\ UNCHANGED <<pools, list, notice, gone, lost>>

\* The device is opened and its descriptors are read outside of session->lock.
AdapterOpenDevice(c) ==
    /\ At(c, "alloc")
    /\ \/ /\ Go(c, Idle)
          /\ UNCHANGED <<devs, overlap>>
       \/ /\ ~gone
          /\ \E d \in FreshDevs :
                /\ devs' = [devs EXCEPT ![d] = [FreeDev EXCEPT !.st = "listed", !.refcnt = 1]]
                /\ Go(c, [client[c] EXCEPT !.pc = "create", !.dev = d])
          /\ Overlaps(UsbDevs # {})
    /\ UNCHANGED <<pools, list, notice, gone, lost>>

\* When no memory is left the claim fails and the device is closed.
UsbIfCreatInterfacePool(c) ==
    /\ At(c, "create")
    /\ \/ \E p \in FreshPools :
             /\ pools' = [pools EXCEPT ![p] = [FreePool EXCEPT !.st = "listed"]]
             /\ list' = Append(list, p)
             /\ Go(c, [client[c] EXCEPT !.pc = "link", !.pool = p])
             /\ Overlaps(list # <<>>)
       \/ /\ FreshPools = {}
          /\ Step(c, "close")
          /\ UNCHANGED <<pools, list, overlap>>
    /\ UNCHANGED <<devs, notice, gone, lost>>

LinkPool(c) ==
    /\ At(c, "link")
    /\ pools' = [pools EXCEPT ![client[c].pool].dev = client[c].dev]
    /\ devs' = [devs EXCEPT ![client[c].dev].private = client[c].pool]
    /\ Step(c, "parse")
    /\ UNCHANGED <<list, notice, gone, overlap, lost>>

\* The interfaces of the active configuration are added one by one. When a descriptor cannot
\* be read they are dropped and the device is closed; the pool stays in the list.
UsbProtocalParseDescriptor(c) ==
    LET p == client[c].pool IN
    /\ At(c, "parse")
    /\ \/ \E i \in Ifaces \ pools[p].ifaces :
             /\ pools' = [pools EXCEPT ![p].ifaces = @ \cup {i}]
             /\ Step(c, IF pools'[p].ifaces = Ifaces THEN "refind" ELSE "parse")
             /\ UNCHANGED overlap
       \/ /\ pools' = [pools EXCEPT ![p].ifaces = {}, ![p].removed = {}]
          /\ Step(c, "close")
          /\ Overlaps(TRUE)
    /\ UNCHANGED <<devs, list, notice, gone, lost>>

IfGetInterfacePool(c) ==
    /\ At(c, "refind")
    /\ FindPool(c, client[c].iface, [client[c] EXCEPT !.pc = "iface"],
                [client[c] EXCEPT !.pc = "drop", !.pool = devs[client[c].dev].private, !.flag = FALSE])
    /\ UNCHANGED <<devs, list, notice, gone>>

\* The interface is counted before its status is looked at. A claim that found its pool in
\* the list has no devHandle yet, and IfDestoryDevice returns at once without one.
IfFindInterfaceObj(c) ==
    LET me == client[c]
        p == me.pool
        i == me.iface
        known == i \in pools[p].ifaces
    IN
    /\ At(c, "iface")
    /\ pools' = IF known THEN [pools EXCEPT ![p].ifRef[i] = @ + 1] ELSE pools
    /\ IF known /\ i \notin pools[p].removed
       THEN /\ Step(c, IF pools[p].ifRef[i] = 0 THEN "claim" ELSE "held")
            /\ UNCHANGED lost
       ELSE /\ IF me.dev = NoDev THEN Go(c, Idle) ELSE Go(c, [me EXCEPT !.pc = "drop", !.flag = TRUE])
            /\ Loses(me.dev = NoDev \/ known)
    /\ UNCHANGED <<devs, list, notice, gone, overlap>>

RawClaimInterface(c) ==
    LET me == client[c]
        p == me.pool
        d == pools[p].dev
    IN
    /\ At(c, "claim")
    /\ \/ /\ me.iface \in devs[d].claimed \/ ~gone
          /\ devs' = [devs EXCEPT ![d].claimed = @ \cup {me.iface}]
          /\ Step(c, "held")
          /\ UNCHANGED <<pools, lost>>
       \/ /\ me.iface \notin devs[d].claimed
          /\ pools' = [pools EXCEPT ![p].ifRef[me.iface] = @ - 1]
          /\ Go(c, [me EXCEPT !.pc = "drop", !.dev = d, !.flag = TRUE])
          /\ Loses(pools[p].ifRef[me.iface] > 1)
          /\ UNCHANGED devs
    /\ UNCHANGED <<list, notice, gone, overlap>>

-----------------------------------------------------------------------------
(* IfDestoryDevice, of a claim that failed and of a release. *)

\* DListRemove of the pool's node.
Unlink(s, p) ==
    LET k == CHOOSE j \in 1..Len(s) : s[j] = p
    IN SubSeq(s, 1, k - 1) \o SubSeq(s, k + 1, Len(s))

\* Mutant: the device is closed while the pool is still counted.
DestroyClosesAlways(c) ==
    LET me == client[c]
        p == me.pool
        n == pools[p].ref - (IF me.flag THEN 1 ELSE 0)
        listed == pools[p].st = "listed"
        empty == pools[p].queue = {}
    IN
    /\ At(c, "drop")
    /\ IF n > 0 \/ ~listed
       THEN /\ pools' = [pools EXCEPT ![p].ref = n]
            /\ Step(c, "close")
            /\ UNCHANGED <<list, lost>>
       ELSE /\ list' = Unlink(list, p)
            /\ pools' = [pools EXCEPT ![p] = IF empty THEN [FreePool EXCEPT !.io = pools[p].io]
                                             ELSE [pools[p] EXCEPT !.st = "unlisted", !.ref = n]]
            /\ IF empty THEN Step(c, "close") ELSE Go(c, Idle)
            /\ Loses(~empty)
    /\ UNCHANGED <<devs, notice, gone, overlap>>

\* UsbIoDestroyQueue refuses a queue with requests: the pool is then off the list, not freed.
\* A pool that is off the list is left, and its device is closed if the list is empty.
IfDestoryDevice(c) ==
    LET me == client[c]
        p == me.pool
        n == pools[p].ref - (IF me.flag THEN 1 ELSE 0)
        listed == pools[p].st = "listed"
        empty == pools[p].queue = {}
    IN
    /\ At(c, "drop")
    /\ IF n > 0 \/ ~listed
       THEN /\ pools' = [pools EXCEPT ![p].ref = n]
            /\ IF n <= 0 /\ list = <<>> THEN Step(c, "close") ELSE Go(c, Idle)
            /\ UNCHANGED <<list, lost>>
       ELSE /\ list' = Unlink(list, p)
            /\ pools' = [pools EXCEPT ![p] = IF empty THEN [FreePool EXCEPT !.io = pools[p].io]
                                             ELSE [pools[p] EXCEPT !.st = "unlisted", !.ref = n]]
            /\ IF empty THEN Step(c, "close") ELSE Go(c, Idle)
            /\ Loses(~empty)
    /\ UNCHANGED <<devs, notice, gone, overlap>>

\* The count is taken down without session->lock.
AdapterCloseDevice(c) ==
    LET d == client[c].dev IN
    /\ At(c, "close")
    /\ devs' = [devs EXCEPT ![d].refcnt = @ - 1]
    /\ IF devs[d].refcnt > 1 THEN Go(c, Idle) ELSE Step(c, "unlist")
    /\ UNCHANGED <<pools, list, notice, gone, overlap, lost>>

\* The kernel drops the claims with the descriptor.
UnlistDevice(c) ==
    /\ At(c, "unlist")
    /\ devs' = [devs EXCEPT ![client[c].dev] = FreeDev]
    /\ Go(c, Idle)
    /\ UNCHANGED <<pools, list, notice, gone, overlap, lost>>

-----------------------------------------------------------------------------
(* Handles, requests and release. *)

\* The pool of a claimed interface is found in the list, and not counted.
FindClaimed(c, pc) ==
    /\ At(c, "held")
    /\ pools[client[c].pool].st = "listed"
    /\ Step(c, pc)
    /\ UNCHANGED <<devs, pools, list, notice, gone, overlap, lost>>

UsbOpenInterface(c) ==
    /\ MayBegin
    /\ client[c].pc = "held" => client[c].iface \notin pools[client[c].pool].removed
    /\ FindClaimed(c, "opening")

\* The threads are started with the first handle.
OpenHandle(c) ==
    LET p == client[c].pool
        i == client[c].iface
    IN
    /\ At(c, "opening")
    /\ pools' = [pools EXCEPT ![p].io = IF pools[p].ioRef = 0 THEN "on" ELSE @,
                              ![p].ioRef = @ + 1,
                              ![p].ifRef[i] = @ + 1]
    /\ Go(c, [client[c] EXCEPT !.pc = "opened", !.dev = pools[p].dev])
    /\ UNCHANGED <<devs, list, notice, gone, overlap, lost>>

\* The pool a handle works on is the one its device points to.
PoolOf(c) == devs[client[c].dev].private

\* A client closes its handle once its request was taken from the queue, or the device is gone.
\* The pool is read from privateObject without a lock.
UsbCloseInterface(c) ==
    /\ At(c, "opened")
    /\ c \notin pools[PoolOf(c)].queue \/ gone
    /\ client[c].iface \in pools[PoolOf(c)].ifaces
    /\ Go(c, [client[c] EXCEPT !.pc = "closing", !.via = PoolOf(c)])
    /\ UNCHANGED <<devs, pools, list, notice, gone, overlap, lost>>


\* The threads are stopped with the last handle.
CloseHandle(c) ==
    LET q == client[c].via
        i == client[c].iface
    IN
    /\ At(c, "closing")
    /\ pools' = [pools EXCEPT ![q].io = IF pools[q].ioRef = 1 THEN "off" ELSE @,
                              ![q].ioRef = @ - 1,
                              ![q].ifRef[i] = @ - 1]
    /\ Go(c, [client[c] EXCEPT !.pc = "held", !.via = NoPool, !.dev = NoDev])
    /\ UNCHANGED <<devs, list, notice, gone, overlap, lost>>

IfSubmitRequestToQueue(c) ==
    /\ At(c, "opened")
    /\ MayBegin
    /\ c \notin pools[PoolOf(c)].queue
    /\ pools' = [pools EXCEPT ![PoolOf(c)].queue = @ \cup {c}]
    /\ UNCHANGED <<devs, list, client, notice, gone, overlap, lost>>

UsbReleaseInterface(c) == FindClaimed(c, "releasing")

\* Mutant: every release unbinds the interface.
ReleaseUnbinds(c) ==
    LET me == client[c]
        p == me.pool
        d == pools[p].dev
        i == me.iface
        last == pools[p].ifRef[i] <= 1
    IN
    /\ At(c, "releasing")
    /\ last => i \in devs[d].claimed
    /\ pools' = [pools EXCEPT ![p].ifRef[i] = @ - 1]
    /\ devs' = IF ~gone THEN [devs EXCEPT ![d].claimed = @ \ {i}] ELSE devs
    /\ Go(c, [me EXCEPT !.pc = "drop", !.dev = d, !.flag = TRUE])
    /\ UNCHANGED <<list, notice, gone, overlap, lost>>

\* Mutant: the release does not give the count of the pool back.
ReleaseKeepsCount(c) ==
    LET me == client[c]
        p == me.pool
        d == pools[p].dev
        i == me.iface
        last == pools[p].ifRef[i] <= 1
    IN
    /\ At(c, "releasing")
    /\ last => i \in devs[d].claimed
    /\ pools' = [pools EXCEPT ![p].ifRef[i] = @ - 1]
    /\ devs' = IF last /\ ~gone THEN [devs EXCEPT ![d].claimed = @ \ {i}] ELSE devs
    /\ Go(c, [me EXCEPT !.pc = "drop", !.dev = d, !.flag = FALSE])
    /\ UNCHANGED <<list, notice, gone, overlap, lost>>

\* The last release unbinds the interface in the kernel; ENODEV counts as success.
ReleaseClaim(c) ==
    LET me == client[c]
        p == me.pool
        d == pools[p].dev
        i == me.iface
        last == pools[p].ifRef[i] <= 1
    IN
    /\ At(c, "releasing")
    /\ last => i \in devs[d].claimed
    /\ pools' = [pools EXCEPT ![p].ifRef[i] = @ - 1]
    /\ devs' = IF last /\ ~gone THEN [devs EXCEPT ![d].claimed = @ \ {i}] ELSE devs
    /\ Go(c, [me EXCEPT !.pc = "drop", !.dev = d, !.flag = TRUE])
    /\ UNCHANGED <<list, notice, gone, overlap, lost>>

-----------------------------------------------------------------------------
(* The I/O threads, the plug-and-play notices and the device. *)

IoSendProcess(p) ==
    /\ pools[p].io = "on"
    /\ \E c \in pools[p].queue : pools' = [pools EXCEPT ![p].queue = @ \ {c}]
    /\ UNCHANGED <<devs, list, client, notice, gone, overlap, lost>>

Unplug ==
    /\ ~gone
    /\ gone' = TRUE
    /\ UNCHANGED <<devs, pools, list, client, notice, overlap, lost>>

\* Reaping urbs fails, and both threads end.
IoAsyncReceiveProcess(p) ==
    /\ gone
    /\ pools[p].io = "on"
    /\ pools' = [pools EXCEPT ![p].io = "died"]
    /\ UNCHANGED <<devs, list, client, notice, gone, overlap, lost>>

-----------------------------------------------------------------------------
(* UsbAddOrRemoveInterface: its caller has claimed nothing, and counts nothing. *)

UsbAddOrRemoveInterface(i) ==
    /\ notice.pc = "idle"
    /\ MayBegin
    /\ list # <<>>
    /\ notice' = [pc |-> "found", iface |-> i, pool |-> Head(list)]
    /\ UNCHANGED <<devs, pools, list, client, gone, overlap, lost>>

\* Whether the pool that the notice found, and then the interface, still exist.
NoticeAlive ==
    /\ notice.pc \in {"found", "notify"} => pools[notice.pool].st # "free"
    /\ notice.pc = "notify" => notice.iface \in pools[notice.pool].ifaces

\* A notice of the status that the interface has is refused, and left out.
NoticeInterface ==
    /\ notice.pc = "found"
    /\ NoticeAlive
    /\ notice' = IF notice.iface \in pools[notice.pool].ifaces THEN [notice EXCEPT !.pc = "notify"] ELSE NoNotice
    /\ UNCHANGED <<devs, pools, list, client, gone, overlap, lost>>

\* The status is written once RawInitPnpService has come back, with success.
RawInitPnpService ==
    LET p == notice.pool
        i == notice.iface
    IN
    /\ notice.pc = "notify"
    /\ NoticeAlive
    /\ \/ UNCHANGED pools
       \/ pools' = [pools EXCEPT ![p].removed = IF i \in @ THEN @ \ {i} ELSE @ \cup {i}]
    /\ notice' = NoNotice
    /\ UNCHANGED <<devs, list, client, gone, overlap, lost>>

\* The last claim was released meanwhile, and the pool with its interfaces freed.
NoticeAfterFree ==
    /\ notice.pc # "undefined"
    /\ ~NoticeAlive
    /\ notice' = [notice EXCEPT !.pc = "undefined"]
    /\ Overlaps(TRUE)
    /\ UNCHANGED <<devs, pools, list, client, gone, lost>>

NoticeNext ==
    \/ \E i \in Ifaces : UsbAddOrRemoveInterface(i)
    \/ NoticeInterface \/ RawInitPnpService \/ NoticeAfterFree

ClientNext(c) ==
    \/ \E i \in Ifaces : UsbClaimInterface(c, i)
    \/ OsGetDeviceHandle(c) \/ AdapterOpenDevice(c)
    \/ UsbIfCreatInterfacePool(c) \/ LinkPool(c) \/ UsbProtocalParseDescriptor(c)
    \/ IfGetInterfacePool(c) \/ IfFindInterfaceObj(c) \/ RawClaimInterface(c)
    \/ IfDestoryDevice(c) \/ AdapterCloseDevice(c) \/ UnlistDevice(c)
    \/ UsbOpenInterface(c) \/ OpenHandle(c) \/ IfSubmitRequestToQueue(c)
    \/ UsbCloseInterface(c) \/ CloseHandle(c)
    \/ UsbReleaseInterface(c) \/ ReleaseClaim(c)
    \/ UseAfterFree(c)

Next ==
    \/ \E c \in Clients : ClientNext(c)
    \/ \E p \in PoolIds : IoSendProcess(p) \/ IoAsyncReceiveProcess(p)
    \/ NoticeNext
    \/ Unplug

Spec == Init /\ [][Next]_vars

-----------------------------------------------------------------------------
(* Properties. *)

Holds(c) == client[c].pc \in {"iface", "claim"} \cup Claimant
            \/ (client[c].pc = "drop" /\ client[c].flag)

\* However the clients interleave, and whatever fails, a pool that a client has counted in
\* IfFindInterfacePool stays in the list until that client gives it up in IfDestoryDevice.
CountedPoolStays ==
    \A c \in Clients : Holds(c) => pools[client[c].pool].st = "listed"

\* As long as no second pool or device was made, no device was revived while it was being
\* closed and no descriptor failed to parse, the device of a counted pool is open.
DeviceStaysOpen ==
    ~overlap =>
        \A c \in Clients : Holds(c) => devs[pools[client[c].pool].dev].st = "listed"

Users(p, i) == {c \in Clients : Holds(c) /\ client[c].pool = p /\ client[c].iface = i
                                /\ client[c].pc \in {"claim"} \cup Claimant}
Handles(p) == {c \in Clients : client[c].pc \in Opener /\ client[c].pool = p}

\* With no overlap and nothing lost, the count of an interface is its claims and open handles, and a
\* claimed interface is bound in the kernel or about to be by the client that claimed first.
ClaimsCounted ==
    ~overlap /\ ~lost =>
        \A c \in Clients : client[c].pc \in Claimant =>
            LET p == client[c].pool
                i == client[c].iface
                users == Users(p, i)
            IN /\ pools[p].ifRef[i] = Cardinality(users) + Cardinality(users \cap Handles(p))
               /\ \/ i \in devs[pools[p].dev].claimed
                  \/ \E b \in users : client[b].pc = "claim"


\* With no overlap and nothing lost, the release of the last claim leaves no pool and no device behind.
NothingLeftBehind ==
    (~overlap /\ ~lost /\ \A c \in Clients : client[c].pc = "idle") => (list = <<>> /\ UsbDevs = {})

\* UsbOpenInterface, UsbCloseInterface and UsbReleaseInterface use a pool that they found without
\* counting it after the lock was given back, and still never a freed pool, interface or device:
\* the claim their caller holds keeps all three, until a second pool or device was made, a device
\* was revived while it was closed, a descriptor failed to parse, or a notice, which holds no
\* claim, was caught with a freed pool. A queue is stranded only by an unplugged device or by one
\* of these.
NoUseAfterFree ==
    /\ (\E c \in Clients : client[c].pc = "undefined") => overlap
    /\ (\E p \in PoolIds : pools[p].st = "unlisted") => gone \/ overlap

\* What the clients see: the interface each has claimed, the open handles, the interfaces bound
\* in the kernel, and whether the threads run.
Claiming == [c \in Clients |-> IF client[c].pc \in Claimant THEN client[c].iface ELSE NoIface]
Opened == {c \in Clients : client[c].pc \in Opener}
Bound == UNION {devs[d].claimed : d \in DevIds}
Serving == \E p \in PoolIds : pools[p].io # "off"
Broken == overlap \/ lost

\* The contract of UsbClaim, up to the first overlap or loss.
Contract == INSTANCE UsbClaim WITH
    claim <- Claiming, opened <- Opened, bound <- Bound, serving <- Serving, broken <- Broken

\* The pools, devices and counts together keep the promise of UsbClaim to every client.
KeepsContract == Contract!Spec

\* The clients, the interfaces and the places of the heap are alike.
PoolSymmetry ==
    Permutations(Clients) \cup Permutations(Ifaces) \cup Permutations(PoolIds) \cup Permutations(DevIds)
=============================================================================
