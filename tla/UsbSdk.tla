-------------------------------- MODULE UsbSdk --------------------------------
(***************************************************************************)
(* The objects behind the USB host SDK: the pool of a device with its      *)
(* interface and pipe objects, the handles opened on its interfaces and    *)
(* the requests, usb/ddk/host/src/usb_interface_pool.c, usb_protocol.c and *)
(* the threads of usb_io_manage.c.  A device has its control interface,    *)
(* "ctrl", and one other, "if"; a reference that the pool counts is a flag *)
(* named for who holds it.  "device" is the device and its raw handle,     *)
(* which the pool only borrows.                                            *)
(***************************************************************************)
EXTENDS Paths, TLC

iface(i) == IF i = "ctrl" THEN "interface.ctrl" ELSE "interface.if"
pipe(i) == IF i = "ctrl" THEN "pipe.ctrl" ELSE "pipe.if"
ref(i) == IF i = "ctrl" THEN "ref.ctrl" ELSE "ref.if"
claimed(i) == IF i = "ctrl" THEN "claimed.ctrl" ELSE "claimed.if"
ifaces == <<"ctrl", "if">>
IfFreePipeObj(i) == Free(pipe(i)) & Null(pipe(i))
IfDestroyPipeObj(i) == When(pipe(i), Locked("listLock", IfFreePipeObj(i)))
IfInterfaceObjInit == Ok
IfFreeInterfaceObj(i) == IfDestroyPipeObj(i) & Clear(iface(i))

IoQueue ==
    [UsbIoCreateQueue |-> Ok,
     \* A queue with a request left in it is not given up.
     UsbIoDestroyQueue |-> MayFail,
     UsbIoSendRequest |-> Use("pool") & Locked("queue.mutex", Ok)]

UsbIfDestroyInterfaceObj ==
    Use("pool") & Locked("interfaceLock",
        Each(LAMBDA i : When(iface(i), IfFreeInterfaceObj(i)), ifaces))

Pools(api) ==
    \* The pool is off the session's list by then; ioStopLock is not destroyed with it.
    LET IfFreeInterfacePool ==
            OnError(api.UsbIoDestroyQueue & UsbIfDestroyInterfaceObj,
                    Each(LAMBDA i : Null(iface(i)) & Null(pipe(i)), ifaces) & Null("pool")
                    & Null("ioStopLock"))
            & Clear("pool") & Null("ioStopLock")
    IN  api @@
        [IfInterfacePoolInit |-> Heedless(Get("ioStopLock")) & Guarded("ioStopLock", Ok)
             & api.UsbIoCreateQueue,
         IfDestroyInterfacePool |-> Use("pool") & IfFreeInterfacePool]

IfInterfaceRefCount(i) == Ok
IfFindPipeObj(i) == Needs(iface(i)) & Needs(pipe(i)) & Locked("listLock", Ok) & MayFail
IfFindInterfaceObj(i) == Needs("pool") & Use("pool") & Needs(iface(i))
    & Locked("interfaceLock", IfInterfaceRefCount(i))

\* The pool goes with its last reference; then the device is closed.
IfDestoryDevice(api, drop) ==
    Locked("session.lock", Use("pool") & drop & If("ref.ctrl", Ok, If("ref.if", Ok, If("ref.lost", Ok,
                               api.IfDestroyInterfacePool & Set("last")))))
    & When("last", Unset("last") & Clear("device"))

------------------------------------------------------------------------------
UsbIfCreatPipeObj(i) == Use(iface(i)) & Get(pipe(i)) & Locked("listLock", Ok)
UsbIfCreatInterfaceObj(i) == Use("pool") & Get(iface(i)) & IfInterfaceObjInit
    & Locked("interfaceLock", Ok)

HostSdk(api) ==
    api @@
    [UsbIfCreatInterfacePool |-> Get("pool") & api.IfInterfacePoolInit & Locked("session.lock", Ok),
     UsbInitHostSdk |-> Get("session"),
     UsbExitHostSdk |-> Free("session") & Null("session")]

DescriptorReading ==
    [UsbProtocalFillControlSetup |-> MayFail,
     CreateCtrPipe |-> UsbIfCreatInterfaceObj("ctrl") & UsbIfCreatPipeObj("ctrl"),
     UsbInterfaceInit |-> Ok,
     UsbPipeInit |-> Ok,
     UsbGetInterfaceFromConfig |-> MayFail,
     UsbGetInterfaceDesc |-> Use("config"),
     UsbGetEpDesc |-> MayFail]

ControlFilling(api) ==
    api @@
    [IfFindInterfacePool |-> Locked("session.lock", Needs("pool")),
     IfGetRequestPipeType |-> Use("device") & Needs("pool") & IfFindInterfaceObj("if")
         & IfFindPipeObj("if"),
     IfFillControlRequest |-> api.UsbProtocalFillControlSetup & MayFail]

DescriptorParsing(api) ==
    \* An interface without endpoints returns what happens to be in ret.
    LET UsbProtocalCreatePipeObj == MayFail
            | (api.UsbGetEpDesc & UsbIfCreatPipeObj("if") & api.UsbPipeInit)
        UsbProtocalCreatInterfaceObj ==
            Use("config")
            & (MayFail | (api.UsbGetInterfaceFromConfig
                          & api.UsbGetInterfaceDesc & UsbIfCreatInterfaceObj("if")
                          & api.UsbInterfaceInit & UsbProtocalCreatePipeObj))
    \* On an error the pool loses its interfaces and stays on the session's list.
    IN  api @@
        [UsbProtocalParseDescriptor |->
             Use("device") & api.UsbIfCreatInterfacePool
             & OnError(api.CreateCtrPipe & MayFail
                       & Finally(Get("config") & UsbProtocalCreatInterfaceObj, Clear("config")),
                       UsbIfDestroyInterfaceObj)]

IfGetInterfacePool(api) ==
    Get("device") & OnError(api.UsbProtocalParseDescriptor, Clear("device"))
    & api.IfFindInterfacePool

\* When the interface of a pool that is already there is not found, no device is at
\* hand to destroy, and the reference is not given back.
UsbClaimInterface(api, i) ==
    Needs("session")
    & If("pool",
         api.IfFindInterfacePool
         & OnError(IfFindInterfaceObj(i) & Use("device"), Set("ref.lost")),
         IfGetInterfacePool(api) & OnError(IfFindInterfaceObj(i), IfDestoryDevice(api, Ok)))
    & Set(ref(i))
    & IF i = "ctrl" THEN Ok
      ELSE OnError(Locked("interfaceLock", Use("device") & Get(claimed(i))),
                   IfDestoryDevice(api, Unset(ref(i))))

\* The interface object is looked at before it is known that there is one.
UsbClaimInterfaceUnforce(api, i) == Heedless(UsbClaimInterface(api, i)) & Use(iface(i))

UsbReleaseInterface(api, i) ==
    Needs(iface(i)) & Use(iface(i)) & api.IfFindInterfacePool & Use("device")
    & Locked("interfaceLock", When(claimed(i), MayFail & Clear(claimed(i))))
    & IfDestoryDevice(api, Unset(ref(i)))

------------------------------------------------------------------------------
IoThreads ==
    \* The two labels that undo it are the wrong way round.
    [UsbIoStart |->
         LET Send == Get("ioSendProcess")
             Receive == Get("ioAsyncReceiveProcess")
         IN  Guarded("ioStopLock", Ok) & Send
             & OnError(MayFail & Receive, Clear("ioAsyncReceiveProcess") & Clear("ioSendProcess"))
             & OnError(MayFail, Clear("ioSendProcess")),
     \* The lock is destroyed here, also when the second thread cannot be, though only
     \* a new pool makes one.
     UsbIoStop |->
         Use("pool") & Use("device") & May(Guarded("ioStopLock", Ok))
         & MayFail & Clear("ioSendProcess")
         & Finally(MayFail & Clear("ioAsyncReceiveProcess"), Clear("ioStopLock"))]

ifHandle(i) == IF i = "ctrl" THEN "handle.ctrl" ELSE "handle.if"

\* The first handle starts the threads of the pool, the last one stops them.
UsbOpenInterface(api, i) ==
    Needs(iface(i)) & Use(iface(i)) & api.IfFindInterfacePool & Use("device")
    & Locked("interfaceLock",
             Get(ifHandle(i))
             & OnError(If("io.ctrl", Ok, If("io.if", Ok, api.UsbIoStart)), Clear(ifHandle(i))))
    & Set(IF i = "ctrl" THEN "io.ctrl" ELSE "io.if")

UsbCloseInterface(api, i) ==
    LET mine == IF i = "ctrl" THEN "io.ctrl" ELSE "io.if"
        other == IF i = "ctrl" THEN "io.if" ELSE "io.ctrl"
    IN  Needs(ifHandle(i)) & Use(ifHandle(i)) & Use("device") & IfFindInterfaceObj(i)
        & Locked("interfaceLock", If(other, Ok, api.UsbIoStop) & Unset(mine) & Clear(ifHandle(i)))

UsbSelectInterfaceSetting(i) ==
    Needs(ifHandle(i)) & Use("device") & Use("pool") & MayFail & Locked("interfaceLock", Ok)
    & IfFindInterfaceObj(i)

UsbGetPipeInfo(i) == Needs(ifHandle(i)) & Use("device") & IfFindInterfaceObj(i) & IfFindPipeObj(i)
UsbClearInterfaceHalt(i) == Needs(ifHandle(i)) & Use("device") & MayFail
UsbAddOrRemoveInterface(api, i) == api.IfFindInterfacePool & IfFindInterfaceObj(i) & MayFail

RequestFilling(api) ==
    api @@
    [IfFillIsoRequest |-> MayFail,
     IfFillBulkRequest |-> MayFail,
     IfFillInterrupteRequest |-> MayFail,
     IfSubmitRequestToQueue |-> Use("hostRequest") & Use("device") & Needs("pool")
         & api.UsbIoSendRequest]

IfFillRequestByPipeType(api) ==
    MayFail & Use("hostRequest")
    & AnyOf(<<api.IfFillControlRequest, api.IfFillIsoRequest,
              api.IfFillBulkRequest, api.IfFillInterrupteRequest, Fail>>)

------------------------------------------------------------------------------
RequestApi(api) ==
    \* Requests are allocated on the handle of the other interface.
    api @@
    [UsbAllocRequest |->
         Needs("handle.if") & Use("device") & Get("requestObj")
         & OnError(Get("hostRequest"), Clear("requestObj")),
     \* The raw API does not free a request that is still in flight.
     UsbFreeRequest |->
         Needs("requestObj") & Use("requestObj") & MayFail & Clear("hostRequest") & Clear("requestObj"),
     UsbSubmitRequestAsync |-> Needs("requestObj") & Use("requestObj") & MayFail
         & api.IfSubmitRequestToQueue,
     UsbFillRequest |->
         Needs("requestObj") & Needs("handle.if") & Use("requestObj")
         & api.IfGetRequestPipeType & IfFillRequestByPipeType(api),
     UsbCancelRequest |-> Needs("requestObj") & Use("hostRequest") & MayFail]

SyncApi(api) ==
    api @@
    [UsbSubmitRequestSync |->
         Needs("requestObj") & Use("requestObj") & Get("sem")
         & Finally(api.IfSubmitRequestToQueue
                   & May(Heedless(api.UsbCancelRequest)) & MayFail, Clear("sem")),
     UsbMemTestTrigger |-> MayFail]

------------------------------------------------------------------------------
\* A driver claims an interface it has not claimed, opens one that it has not
\* opened, and gives requests, handles and claims back in that order.
Unless(r) == If(r, Never, Ok)

Entries ==
    LET Of(api) ==
            [Init |-> api.UsbInitHostSdk,
             Claim |-> LET Once(i) == Unless(ref(i)) & UsbClaimInterface(api, i)
                       IN  AnyOf(<<Once("ctrl"), Once("if"), Unless("ref.if")
                                   & UsbClaimInterfaceUnforce(api, "if")>>),
             Open |-> LET Once(i) == Given(ref(i)) & Unless(ifHandle(i))
                 & UsbOpenInterface(api, i) IN Once("ctrl")
                 | Once("if"),
             Handle |-> AnyOf(<<Given("handle.if") & UsbSelectInterfaceSetting("if"),
                                Given("handle.ctrl")
                                & UsbGetPipeInfo("ctrl"),
                                Given("handle.if") & UsbClearInterfaceHalt("if"),
                                UsbAddOrRemoveInterface(api, "if"),
                                api.UsbMemTestTrigger>>),
             Alloc |-> Given("handle.if") & api.UsbAllocRequest,
             Request |-> api.UsbFillRequest
                 & AnyOf(<<api.UsbSubmitRequestAsync & May(api.UsbCancelRequest),
                           api.UsbSubmitRequestSync>>),
             Free |-> api.UsbFreeRequest,
             Close |-> LET Opened(i) == Given(ifHandle(i)) & UsbCloseInterface(api, i) IN Opened("ctrl")
                 | Opened("if"),
             Release |-> LET Closed(i) == Given(ref(i)) & Unless(ifHandle(i))
                 & UsbReleaseInterface(api, i)
                         IN  Closed("ctrl") | Closed("if"),
             Exit |-> Unless("ref.ctrl") & Unless("ref.if") & api.UsbExitHostSdk]
    IN  Of(SyncApi(RequestApi(RequestFilling(DescriptorParsing(ControlFilling(HostSdk(Pools(
           IoQueue @@ DescriptorReading @@ IoThreads))))))))

Lives ==
    {<<"new", "Init", "ready", "new">>,
     <<"ready", "Claim", "ready", "ready">>,
     <<"ready", "Open", "ready", "ready">>,
     <<"ready", "Handle", "ready", "ready">>,
     <<"ready", "Alloc", "request", "ready">>,
     <<"request", "Request", "request", "request">>,
     <<"request", "Free", "ready", "request">>,
     <<"ready", "Close", "ready", "ready">>,
     <<"ready", "Release", "ready", "ready">>,
     <<"ready", "Exit", "gone", "gone">>}
==============================================================================
