--------------------------------- MODULE Cdc ---------------------------------
(***************************************************************************)
(* The CDC functions of the gadget, usb/gadget/function/acm and ecm.       *)
(***************************************************************************)
EXTENDS Paths, TLC

------------------------------------------------------------------------------
(***************************************************************************)
(* What the serial port of cdcacm.c and the ethernet port of cdcecm.c have *)
(* in common: pools of requests, of which one stands for all of a pool's,  *)
(* and FIFOs.  A request is in its pool or in flight; readAllocated and    *)
(* writeAllocated count the requests, so they are zero when there is none. *)
(***************************************************************************)
\* The port is in use: the lock is a field of it.
OnPort(F) == Use("port") & Locked("port.lock", F)

\* UsbFnSubmitRequestAsync either takes the request or leaves it in the pool.
Submit(req, busy, sends) ==
    When(req, If(busy, Ok, sends & (Ok | (Use("dataHandle") & Set(busy)))))

Arrive(busy) == Given(busy) & Unset(busy)
StartTx(read) == When("port.dev", When("writeFifo", Submit("writeReq", "writeFlight", read)))

------------------------------------------------------------------------------
(***************************************************************************)
(* The CDC ACM gadget, usb/gadget/function/acm/cdcacm.c.                   *)
(***************************************************************************)
SerialStart ==
    LET StartRx == Submit("readReq", "readFlight", Ok)
    IN  [UsbSerialStartTx |-> StartTx(Ok),
         StartRx |-> StartRx,
         UsbSerialStartRx |-> StartRx]

RxPush(api, push) == May(When("readFifo", push)) & May(When("port.dev", api.StartRx))
ReadComplete(api, push) == Arrive("readFlight") & OnPort(RxPush(api, push))
WriteComplete(read) == Arrive("writeFlight") & OnPort(May(StartTx(read)))

\* Some requests are enough: the allocation fails when there is none at all.
AllocRequests(req) == Use("dataHandle") & Get(req)

FreeRequests(req, busy) == When(req, If(busy, Ok, Clear(req)))

StartIo(api, read) ==
    LET FreeRead == FreeRequests("readReq", "readFlight")
        FreeWrite == FreeRequests("writeReq", "writeFlight")
    IN  If("readReq", Ok, AllocRequests("readReq"))
        & If("writeReq", Ok, OnError(AllocRequests("writeReq"), FreeRead))
        & api.StartRx
        & If("readFlight", StartTx(read), FreeRead & FreeWrite & Fail)

AllocFifo(fifo) == If(fifo, Ok, Get(fifo))

\* As FreeFifo, leaving the pointer to the buffer.
FreeFifoDangling(fifo) == Free(fifo)

FreeFifo(fifo) == Clear(fifo)

\* The port goes, and what it refers to is out of reach.
PortGone ==
    Drop(<<"readReq", "writeReq", "readFifo", "writeFifo">>)
    & Reset(<<"readFlight", "writeFlight", "port.dev", "suspended", "startDelayed">>)

UsbSerialRxPush(api) == RxPush(api, Ok)
UsbSerialFreeRequests(req, busy) == FreeRequests(req, busy)

ReadSpeed(api) ==
    LET StartThreadReadSpeed == Get("g_threadRead") & MayFail
    IN  api @@
        [UsbSerialReadComplete |-> ReadComplete(api, Ok),
         SpeedReadThread |-> Given("g_threadRead"),
         UsbSerialGetTempReadSpeed |-> MayFail,
         UsbSerialGetTempReadSpeedInt |-> MayFail,
         UsbSerialReadSpeedDone |-> Ok,
         UsbSerialReadSpeedStart |-> StartThreadReadSpeed]

UsbSerialWriteComplete == WriteComplete(Ok)

SerialRequests ==
    [UsbSerialAllocReadRequests |-> AllocRequests("readReq"),
     UsbSerialAllocWriteRequests |-> AllocRequests("writeReq")]

UsbSerialStartIo(api) == StartIo(api, Ok)
UsbSerialAllocFifo(fifo) == AllocFifo(fifo)
UsbSerialFreeFifo(fifo) == FreeFifo(fifo)

------------------------------------------------------------------------------
AcmNotices ==
    \* The notification request: NULL in the device while it is in flight.
    LET AcmSendNotifyRequest ==
            Needs("notifyReq") & Unset("pending")
            & ((Null("notifyReq") & Fail) | Move("notifyReq", "notifyFlight") | Fail)
        AcmNotifySerialState ==
            Locked("acm.lock", If("notifyReq", AcmSendNotifyRequest, Set("pending")))
    IN  [AcmNotifySerialState |-> AcmNotifySerialState,
         AcmConnect |-> Heedless(AcmNotifySerialState),
         AcmDisconnect |-> Heedless(AcmNotifySerialState)]

AcmRequests(api) ==
    api @@
    [AcmDeviceDestroy |-> Free("acm"),
     AcmCtrlComplete |-> Arrive("ctrlFlight") & Use("ctrlInfo"),
     \* Control requests, each with a context; one stands for the pool.  A context
     \* whose request cannot be allocated is out of reach.
     AcmAllocCtrlRequests |->
         Drop(<<"ctrlReq", "ctrlInfo">>) & Get("ctrlInfo") & Use("ctrlHandle")
         & OnError(Get("ctrlReq"), Null("ctrlInfo")),
     AcmFreeCtrlRequests |-> When("ctrlReq",
                                  If("ctrlFlight", Ok, Clear("ctrlInfo") & Clear("ctrlReq"))),
     AcmNotifyComplete |->
         Given("notifyFlight") & Locked("acm.lock", Move("notifyFlight", "notifyReq"))
         & May(When("pending", Heedless(api.AcmNotifySerialState))),
     AcmAllocNotifyRequest |-> Use("ctrlHandle") & Get("notifyReq"),
     AcmFreeNotifyRequest |-> When("notifyReq", Clear("notifyReq"))]

------------------------------------------------------------------------------
AcmEvents(api) ==
    LET AcmGetCtrlReq == Needs("ctrlReq") & If("ctrlFlight", Fail, Ok)
    IN  api @@
        [AcmEnable |->
             Needs("port") & Use("port") & Lock("port.lock") & Set("port.dev")
             & UsbSerialAllocFifo("writeFifo") & UsbSerialAllocFifo("readFifo")
             & Heedless(UsbSerialStartIo(api)) & api.AcmConnect & Unlock("port.lock"),
         AcmDisable |->
             Needs("port") & OnPort(UsbSerialFreeFifo("writeFifo") & UsbSerialFreeFifo("readFifo")),
         \* GET_LINE_CODING reads the port's coding and may fail to copy, which leaves
         \* the request out of the pool; so does a submission that fails.
         AcmSetup |->
             Heedless(AcmGetCtrlReq & May(Use("port"))
                 & ((Drop(<<"ctrlReq", "ctrlInfo">>) & Fail) | (Use("ctrlInfo") & Set("ctrlFlight"))
                    | (Use("ctrlInfo") & Drop(<<"ctrlReq", "ctrlInfo">>) & Fail))),
         AcmSuspend |-> When("port", OnPort(Set("suspended")))]

------------------------------------------------------------------------------
SerialPort(api) ==
    api @@
    [UsbSerialOpen |->
         OnPort(Heedless(UsbSerialAllocFifo("writeFifo") & UsbSerialAllocFifo("readFifo")
             & When("port.dev",
                    If("suspended", Set("startDelayed"), UsbSerialStartIo(api) & api.AcmConnect)))),
     UsbSerialClose |->
         OnPort(When("port.dev", If("suspended", Ok, api.AcmDisconnect))
                & Unset("startDelayed"))]

SerialIo(api) ==
    api @@
    [UsbSerialRead |->
         OnPort(When("readFifo", Ok
                     | (Get("buf") & When("port.dev", api.UsbSerialStartRx) & Clear("buf")
                        & MayFail))),
     \* The string is read, copied and queued with the lock taken, and the failures
     \* of reading and copying it return as they are.
     UsbSerialWrite |->
         Use("port") & Lock("port.lock") & MayFail & Get("buf") & OnError(MayFail, Clear("buf"))
         & When("port.dev", api.UsbSerialStartTx) & Unlock("port.lock") & Clear("buf"),
     UsbSerialGetBaudrate |-> Try("port"),
     UsbSerialSetBaudrate |-> MayFail & Use("port"),
     UsbSerialGetProp |-> Try("ctrlHandle")]

UsbSerialSetProp == MayFail & Try("ctrlHandle")

WriteSpeed ==
    LET StartThreadSpeed == Get("g_thread") & Unset("g_isWriteDone") & MayFail
    IN  [UsbSerialWriteSpeedComplete |->
             Arrive("speedFlight") & (Ok | If("g_isWriteDone", Free("g_req"), Ok | Set("speedFlight"))),
         \* The speed tests: a thread that keeps requests in flight until it is done.
         SpeedThread |->
             Given("g_thread") & Use("port") & Use("dataHandle") & Get("g_req")
             & May(Set("speedFlight")),
         UsbSerialGetTempSpeed |-> MayFail,
         UsbSerialGetTempSpeedInt |-> MayFail,
         UsbSerialSpeedDone |-> Set("g_isWriteDone"),
         UsbSerialSpeed |-> Heedless(StartThreadSpeed)]

SerialCommands(api) ==
    LET UsbSerialRegistProp == MayFail & Try("ctrlHandle")
    IN  api @@
        [PortCmd |->
             AnyOf(<<api.UsbSerialOpen, api.UsbSerialClose, api.UsbSerialRead,
                     api.UsbSerialWrite, api.UsbSerialGetBaudrate,
                     api.UsbSerialSetBaudrate, UsbSerialSetProp, api.UsbSerialGetProp,
                     UsbSerialRegistProp>>),
         SpeedCmd |->
             AnyOf(<<api.UsbSerialSpeed, api.UsbSerialGetTempSpeed,
                     api.UsbSerialSpeedDone, api.UsbSerialGetTempSpeedInt,
                     api.UsbSerialReadSpeedStart, api.UsbSerialGetTempReadSpeed,
                     api.UsbSerialReadSpeedDone,
                     api.UsbSerialGetTempReadSpeedInt>>)]

\* The port is only compared with NULL.
AcmDeviceDispatch(AcmSerialCmd) == Use("acm") & Needs("port") & AcmSerialCmd

AcmCallback(api) ==
    LET AcmResume ==
            When("port", OnPort(Unset("suspended")
                & When("startDelayed", Heedless(UsbSerialStartIo(api)) & api.AcmConnect
                       & Unset("startDelayed"))))
    IN  api @@
        [UsbAcmEventCallback |->
             Use("acm") & AnyOf(<<api.AcmEnable, api.AcmDisable, api.AcmSetup,
                                  api.AcmSuspend, AcmResume>>)]

------------------------------------------------------------------------------
AcmFuncDevice(api) ==
    \* The interface is opened before its pipes are read; what fails later leaves
    \* it open, and the caller does not look at the result.
    LET AcmParseEachPipe(pipe) == Take(pipe) | Failing(Lose(pipe))
        AcmParseAcmIface(pipe) == Fail | AcmParseEachPipe(pipe)
        AcmParseEachIface ==
            MayFail & Heedless(AcmParseAcmIface("ctrlHandle")) & MayFail
            & Heedless(AcmParseAcmIface("dataHandle"))
    IN  api @@
        [AcmCreateFuncDevice |-> MayFail & AcmParseEachIface & Set("fnDev"),
         AcmReleaseFuncDevice |->
             Needs("fnDev") & api.AcmFreeCtrlRequests & api.AcmFreeNotifyRequest
             & Free("ctrlHandle") & Free("dataHandle") & Unset("events")]

AcmDriver(api) ==
    LET UsbSerialAlloc == Get("port.new") & OnError(MayFail, Null("port.new"))
            & Move("port.new", "port")
        UsbSerialFree == When("port", Free("port") & PortGone)
    IN  api @@
        [AcmDriverBind |-> Get("acm") & OnError(MayFail, Clear("acm")),
         UsbSerialInit |->
             If("initFlag", Fail, MayFail & api.AcmCreateFuncDevice
                 & OnError(UsbSerialAlloc & api.AcmAllocCtrlRequests
                           & api.AcmAllocNotifyRequest
                           & MayFail & Set("initFlag"),
                           UsbSerialFree & Heedless(api.AcmReleaseFuncDevice))),
         UsbSerialRelease |->
             Needs("initFlag") & Heedless(api.AcmReleaseFuncDevice) & UsbSerialFree
             & Unset("initFlag")]

AcmDriverRelease(api) == When("acm", api.AcmDeviceDestroy)

\* The speed tests share nothing with the port but its presence, so they are
\* driven on their own.
AcmEntries ==
    LET Of(api) ==
            [AcmDriverBind |-> api.AcmDriverBind, UsbSerialInit |-> api.UsbSerialInit,
             UsbSerialRelease |-> api.UsbSerialRelease, AcmDriverRelease |-> AcmDriverRelease(api),
             PortCmd |-> AcmDeviceDispatch(api.PortCmd),
             SpeedCmd |-> AcmDeviceDispatch(api.SpeedCmd),
             UsbAcmEventCallback |-> api.UsbAcmEventCallback,
             Complete |-> AnyOf(<<api.UsbSerialReadComplete, UsbSerialWriteComplete,
                                  api.AcmNotifyComplete,
                                  api.AcmCtrlComplete>>),
             Speed |-> AnyOf(<<api.UsbSerialWriteSpeedComplete, api.SpeedThread,
                               api.SpeedReadThread>>)]
    IN  Of(AcmDriver(AcmFuncDevice(AcmCallback(SerialCommands(SerialIo(SerialPort(AcmEvents(
           AcmRequests(ReadSpeed(SerialStart @@ AcmNotices @@ WriteSpeed))))))))))

Driver ==
    {<<"new", "AcmDriverBind", "bound", "gone">>,
     <<"bound", "UsbSerialInit", "ready", "bound">>,
     <<"ready", "UsbSerialRelease", "bound", "bound">>,
     <<"bound", "AcmDriverRelease", "gone", "gone">>}

AcmLives ==
    Driver \cup
    {<<"bound", "PortCmd", "bound", "bound">>,
     <<"ready", "UsbSerialInit", "ready", "ready">>,
     <<"ready", "PortCmd", "ready", "ready">>,
     <<"ready", "UsbAcmEventCallback", "ready", "ready">>,
     <<"ready", "Complete", "ready", "ready">>}

SpeedLives ==
    Driver \cup
    {<<"ready", "SpeedCmd", "ready", "ready">>,
     <<"ready", "Speed", "ready", "ready">>}

------------------------------------------------------------------------------
(***************************************************************************)
(* The CDC ECM gadget, usb/gadget/function/ecm/cdcecm.c.                   *)
(***************************************************************************)
ReadFifo(F) == Locked("lockReadFifo", F)
WriteFifo(F) == Locked("lockWriteFifo", F)

EcmStart(api) ==
    LET UsbEcmFreeRequests(req, busy) == FreeRequests(req, busy)
    IN  api @@
        [UsbEcmStartTx |-> StartTx(WriteFifo(Ok)),
         UsbEcmStartRx |-> api.StartRx,
         UsbEcmRxPush |-> RxPush(api, ReadFifo(Ok)),
         UsbEcmReadComplete |-> ReadComplete(api, ReadFifo(Ok))]

EcmRequests(api) ==
    api @@
    [UsbEcmWriteComplete |-> WriteComplete(WriteFifo(Ok)),
     UsbEcmAllocReadRequests |-> AllocRequests("readReq"),
     UsbEcmAllocWriteRequests |-> AllocRequests("writeReq"),
     UsbEcmStartIo |-> StartIo(api, WriteFifo(Ok))]

UsbEcmAllocFifo(fifo) == AllocFifo(fifo)
UsbEcmFreeFifo(fifo) == FreeFifo(fifo)

EcmPort(api) ==
    \* refCount is told apart as zero or not.  Opening counts up, closing counts
    \* down from any value, so a close too many leaves it below zero and an open
    \* may bring it back.
    api @@
    [UsbEcmOpen |->
         OnPort(Heedless(UsbEcmAllocFifo("writeFifo") & UsbEcmAllocFifo("readFifo")
             & If("refCount", May(Unset("refCount")), Set("refCount")
                  & When("port.dev", api.UsbEcmStartIo)))),
     UsbEcmClose |-> OnPort(If("refCount", May(Unset("refCount")), Set("refCount"))),
     UsbEcmRead |->
         OnPort(ReadFifo(When("readFifo", Ok | Get("buf")))
                & When("buf", When("port.dev", api.UsbEcmStartRx) & Clear("buf") & MayFail)),
     UsbEcmWrite |-> MayFail & OnPort(May(WriteFifo(Ok)) & When("port.dev", api.UsbEcmStartTx))]

------------------------------------------------------------------------------
EcmNotices ==
    \* CONNECT is followed by SPEED, SPEED by nothing.
    LET EcmDoNotify ==
            LET sent == Move("notifyReq", "notifyFlight") | Ok
            IN  When("notifyReq",
                     If("notifyConnect", Unset("notifyConnect") & Set("notifySpeed") & sent,
                        When("notifySpeed", Unset("notifySpeed") & sent)))
    IN  [EcmNotify |-> Set("notifyConnect") & Unset("notifySpeed") & EcmDoNotify,
         EcmNotifyComplete |-> Given("notifyFlight") & Move("notifyFlight", "notifyReq")
             & May(EcmDoNotify),
         EcmSetup |-> Ok | Use("ep0Req")]

EcmEvents(api) ==
    LET EcmEnable ==
            Needs("port")
            & OnPort(Set("port.dev") & When("refCount", Heedless(api.UsbEcmStartIo))
                     & api.EcmNotify)
        EcmDisable ==
            When("port", OnPort(If("refCount", Ok, UsbEcmFreeFifo("writeFifo")
                                   & UsbEcmFreeFifo("readFifo"))))
    IN  api @@
        [EcmDeviceDispatch |->
             Use("ecm") & Needs("port") & Use("port")
             & Locked("lockRW",
                      AnyOf(<<api.UsbEcmOpen, api.UsbEcmClose, api.UsbEcmRead,
                              api.UsbEcmWrite>>)),
         UsbEcmEventCallback |-> Use("ecm") & AnyOf(<<EcmEnable, EcmDisable, api.EcmSetup>>)]

------------------------------------------------------------------------------
EcmParse ==
    LET EcmParseEachPipe(pipe) == Take(pipe) | Failing(Lose(pipe))
        EcmParseEcmIface(pipe) == Fail | EcmParseEachPipe(pipe)
    IN  [EcmAllocNotifyRequest |-> Use("ctrlHandle") & Get("notifyReq"),
         EcmAllocEp0Request |-> Use("ctrlHandle") & Get("ep0Req"),
         EcmParseEachIface |->
             MayFail & Heedless(EcmParseEcmIface("ctrlHandle")) & MayFail
             & Heedless(EcmParseEcmIface("dataHandle"))]

EcmFuncDevice(api) ==
    api @@
    [EcmCreateFuncDevice |->
         MayFail & api.EcmParseEachIface & api.EcmAllocEp0Request
         & api.EcmAllocNotifyRequest & MayFail & Set("fnDev"),
     EcmReleaseFuncDevice |-> Needs("fnDev") & Free("ctrlHandle") & Free("dataHandle"),
     UsbEcmAlloc |-> Get("newPort") & OnError(MayFail, Clear("newPort")) & Move("newPort", "port"),
     EcmDriverBind |-> Get("ecm") & OnError(MayFail, Clear("ecm"))]

EcmDriver(api) ==
    api @@
    [EcmInit |->
         Needs("ecm") & If("initFlag", Fail, Ok) & MayFail & api.UsbEcmAlloc
         & api.EcmCreateFuncDevice & Set("initFlag"),
     EcmRelease |->
         Needs("initFlag") & Heedless(api.EcmReleaseFuncDevice)
         & When("port", Clear("port") & PortGone & Reset(<<"refCount">>)) & Unset("initFlag")]

EcmDriverRelease == When("ecm", Free("ecm"))

EcmEntries ==
    LET Of(api) ==
            [EcmDriverBind |-> api.EcmDriverBind, EcmInit |-> api.EcmInit,
             EcmRelease |-> api.EcmRelease,
             EcmDriverRelease |-> EcmDriverRelease, EcmDeviceDispatch |-> api.EcmDeviceDispatch,
             UsbEcmEventCallback |-> api.UsbEcmEventCallback,
             Complete |-> AnyOf(<<api.UsbEcmReadComplete, api.UsbEcmWriteComplete,
                                  api.EcmNotifyComplete>>)]
    IN  Of(EcmDriver(EcmFuncDevice(EcmEvents(EcmPort(EcmRequests(EcmStart(SerialStart @@
           EcmNotices @@ EcmParse)))))))

EcmLives ==
    {<<"new", "EcmDriverBind", "bound", "gone">>,
     <<"bound", "EcmInit", "ready", "bound">>,
     <<"bound", "EcmDeviceDispatch", "bound", "bound">>,
     <<"ready", "EcmInit", "ready", "ready">>,
     <<"ready", "EcmDeviceDispatch", "ready", "ready">>,
     <<"ready", "UsbEcmEventCallback", "ready", "ready">>,
     <<"ready", "Complete", "ready", "ready">>,
     <<"ready", "EcmRelease", "bound", "bound">>,
     <<"bound", "EcmDriverRelease", "gone", "gone">>}
==============================================================================
