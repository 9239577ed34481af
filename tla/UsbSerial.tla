----------------------------- MODULE UsbSerial ------------------------------
(***************************************************************************)
(* The host drivers of the CDC devices on the host SDK: the serial device and*)
(* the network device.                                                     *)
(***************************************************************************)
EXTENDS Paths, TLC

(***************************************************************************)
(* The host driver of a CDC ACM serial device on the host SDK,             *)
(* usb/serial/src/usb_serial.c.  The arrays of write buffers and of read   *)
(* requests have two elements; the data interface is one.  A write slot    *)
(* (wb[i].use) is a resource too: who takes it must give it back.  Clients *)
(* read and write between open and close.  A device that was released can  *)
(* be plugged again, and finds the static variables as they were left.     *)
(***************************************************************************)
bufs == <<"wb0.buf", "wb1.buf">>
writeReqs == <<"wb0.request", "wb1.request">>
readReqs == <<"readReq0", "readReq1">>

WriteBuffers ==
    LET InterfaceIdToHandle == Use("iface") & Use("devHandle")
    IN  [AcmWbAlloc |-> Take("wb.use"),
         UsbSerialAllocFifo |-> If("readFifo", Ok, Get("readFifo")),
         UsbSerialFreeFifo |-> Clear("readFifo"),
         AcmWbIsAvail |-> Locked("writeLock", If("wb.flight", Fail, MayFail)),
         InterfaceIdToHandle |-> InterfaceIdToHandle,
         \* A request that cannot be filled keeps the slot.
         AcmStartWb |->
             Use("dataOutPipe") & Use("wb0.request") & InterfaceIdToHandle & MayFail
             & (Move("wb.use", "wb.flight") | Failing(Clear("wb.use"))),
         AcmStartWbSync |->
             Use("dataOutPipe") & Use("wb0.request") & InterfaceIdToHandle & MayFail
             & Finally(MayFail, Clear("wb.use")),
         AcmWriteBufAlloc |-> Get(bufs[1]) & OnError(Get(bufs[2]), EachBack(Clear, SubSeq(bufs, 1, 1)))]

------------------------------------------------------------------------------
WriteCallback ==
    [AcmWriteBufFree |-> Each(Clear, bufs),
     AcmWriteBulk |-> Given("wb.flight") & Use("wb0.request")
         & (Clear("wb.flight") | Null("wb.flight")),
     \* The control requests fill the request and wait for it.
     UsbControlSetUp |-> Ok]

Control(api, request) == Needs("ctrDevHandle") & Needs(request) & api.UsbControlSetUp
    & Use(request) & MayFail
UsbGetDescriptor(api, request) == Control(api, request) & MayFail
GetDeviceDescriptor(api, request) == UsbGetDescriptor(api, request)
UsbGetStatus(api, request) == Control(api, request) & MayFail
UsbGetInterface(api, request) == Control(api, request)
UsbGetConfig(api, request) == Control(api, request)
SerialCtrlMsg(api) == Needs("intPipe") & If("ctrlReq", Ok, Get("ctrlReq"))
    & api.UsbControlSetUp & Use("ctrlReq") & MayFail
SerialCtrlAsyncMsg(api, request) == Control(api, request)

PortRecords(api) ==
    \* A port whose mutex cannot be made is not freed.
    api @@
    [UsbSerialDeviceAlloc |-> Local(<<"port.new">>, Get("port.new") & MayFail
                                    & Move("port.new", "port")),
     UsbSeriaDevicelFree |-> Free("port"),
     \* The lock is kept when the read buffer cannot be cleared.
     UsbSerialRead |->
         Use("readReq0") & MayFail & Lock("readLock")
         & OnError(Needs("g_acmReadBuffer"), Unlock("readLock"))
         & MayFail & Use("g_acmReadBuffer") & Finally(MayFail, Unlock("readLock")),
     SerialSetBaudrate |-> MayFail & May(SerialCtrlMsg(api)),
     UsbCtrlMsg |-> SerialCtrlMsg(api),
     SerialGetBaudrate |-> Use("port") & MayFail]

SyncRead(api) ==
    api @@
    [UsbSerialReadSync |->
         Local(<<"data">>,
               If("g_syncRequest", Ok, Use("dataInPipe") & api.InterfaceIdToHandle
                  & Get("g_syncRequest"))
               & Use("dataInPipe") & api.InterfaceIdToHandle & MayFail
               & Use("g_syncRequest") & MayFail
               & Get("data") & MayFail & Clear("data")),
     UsbStdCtrlCmd |->
         If("g_ctrlCmdRequest", Ok, Use("ctrDevHandle") & Get("g_ctrlCmdRequest"))
         & LET r == "g_ctrlCmdRequest"
           IN  AnyOf(<<GetDeviceDescriptor(api, r), SerialCtrlAsyncMsg(api, r),
                       UsbGetStatus(api, r), UsbGetConfig(api, r),
                       UsbGetInterface(api, r)>>) & MayFail]

------------------------------------------------------------------------------
AcmFreePipes == Each(Clear, <<"ctrPipe", "intPipe", "dataInPipe", "dataOutPipe">>)
EnumePipe(pipe) == Use("ctrIface") & Use("ctrDevHandle") & Get(pipe)
GetPipe(api, pipe) == Use("iface") & api.InterfaceIdToHandle & Get(pipe)
GetUsbInterfaceById(iface) == Get(iface)

------------------------------------------------------------------------------
------------------------------------------------------------------------------
Notifications ==
    LET AcmProcessNotification == Ok
    IN  [UsbSerialDriverBind |-> Get("acm") & OnError(MayFail, Clear("acm")),
         AcmProcessNotification |-> AcmProcessNotification,
         \* A notification that comes in pieces is gathered in a buffer that grows.
         AcmCtrlIrqCheckSize |->
             May((When("notificationBuffer", Free("notificationBuffer")) & Get("notificationBuffer"))
                 | (Given("notificationBuffer") & Use("notificationBuffer")))
             & AcmProcessNotification]

Callbacks(api) ==
    api @@
    [AcmCtrlIrq |-> Given("notifying") & Use("notifyReq") & Use("acm")
     & (Ok | api.AcmCtrlIrqCheckSize),
     AcmReadBulk |->
         Given("reading") & Use("readReq0") & Needs("port")
         & (Unset("reading") | (May(Use("port") & Locked("readLock", Ok)) & MayFail)),
     \* The writes under way have been cancelled: their slots stay taken.
     AcmFreeWriteRequests |-> When("wb.flight", Null("wb.flight")) & Each(Clear, writeReqs),
     AcmFreeReadRequests |-> Each(Clear, readReqs),
     AcmFreeNotifyReqeust |-> May(Clear("notifyReq"))]

Interfaces(api) ==
    LET AcmReleaseInterfaces == Each(Clear, <<"iface", "ctrIface">>)
        \* The SDK stops its threads with the last handle: no completion comes later.
        AcmCloseInterfaces == Each(Clear, <<"devHandle", "ctrDevHandle">>)
            & Reset(<<"reading", "notifying">>)
    IN  api @@
        [AcmAllocReadRequests |->
             LET Alloc(r) == Use("dataInPipe") & api.InterfaceIdToHandle & Get(r) & MayFail
             IN  OnError(Each(Alloc, readReqs), api.AcmFreeReadRequests),
         AcmAllocNotifyRequest |->
             Use("intPipe") & api.InterfaceIdToHandle & Get("notifyReq")
             & OnError(MayFail, api.AcmFreeNotifyReqeust),
         AcmReleaseInterfaces |-> AcmReleaseInterfaces,
         AcmClaimInterfaces |->
             OnError(GetUsbInterfaceById("iface") & GetUsbInterfaceById("ctrIface"),
                     AcmReleaseInterfaces),
         AcmCloseInterfaces |-> AcmCloseInterfaces,
         AcmOpenInterfaces |->
             OnError(Use("iface") & Get("devHandle") & Use("ctrIface") & Get("ctrDevHandle"),
                     AcmCloseInterfaces)]

Requests(api) ==
    api @@
    [AcmGetPipes |->
         OnError(GetPipe(api, "dataInPipe") & GetPipe(api, "dataOutPipe") & EnumePipe("ctrPipe")
                 & GetPipe(api, "intPipe"),
                 AcmFreePipes),
     AcmFreeRequests |->
         When("g_syncRequest", Clear("g_syncRequest")) & api.AcmFreeReadRequests
         & api.AcmFreeNotifyReqeust
         & api.AcmFreeWriteRequests & api.AcmWriteBufFree,
     \* The error codes are negative: AcmWriteBufAlloc returns one negated, which the
     \* test against zero takes for success.
     AcmAllocRequests |->
         LET Alloc(r) == Use("dataOutPipe") & api.InterfaceIdToHandle & Get(r)
         IN  Heedless(api.AcmWriteBufAlloc)
             & OnError(Each(Alloc, writeReqs)
                       & OnError(api.AcmAllocNotifyRequest
                                 & OnError(api.AcmAllocReadRequests,
                                           api.AcmFreeNotifyReqeust),
                                 api.AcmFreeWriteRequests),
                       api.AcmWriteBufFree)]

Driver(api) ==
    LET AcmRelease ==
            When("initFlag", api.AcmCloseInterfaces & api.AcmReleaseInterfaces
                 & api.AcmFreeRequests & AcmFreePipes
                             & Clear("session") & Unset("initFlag"))
        \* With the device go its fields, and the fifo with the port.
        AcmGone ==
            Drop(<<"port", "readFifo", "ctrlReq", "notifyReq",
                   "notificationBuffer">> \o bufs \o writeReqs \o readReqs)
            & Reset(<<"initFlag">>)
    IN  api @@
        [AcmInit |->
             If("initFlag", Ok,
                Get("session")
                & OnError(api.AcmClaimInterfaces
                          & OnError(api.AcmOpenInterfaces
                                    & OnError(api.AcmGetPipes
                                              & OnError(api.AcmAllocRequests, AcmFreePipes),
                                              api.AcmCloseInterfaces),
                                    api.AcmReleaseInterfaces),
                          Clear("session"))
                & Set("initFlag")),
         AcmRelease |-> AcmRelease,
         UsbSerialDriverInit |-> Needs("acm")
             & Finally(api.UsbSerialDeviceAlloc, Reset(<<"initFlag", "g_acmReleaseFlag">>)),
         AcmGone |-> AcmGone,
         UsbSerialDriverRelease |->
             Needs("acm") & Set("g_acmReleaseFlag") & AcmRelease & api.UsbSeriaDevicelFree
             & Clear("acm") & AcmGone]

PortOpening(api) ==
    api @@
    [SerialWriteSync |->
         Local(<<"wb.use">>, api.AcmWbIsAvail & api.AcmWbAlloc & MayFail
               & Needs("dataOutPipe") & Heedless(api.AcmStartWbSync)),
     SerialOpen |->
         MayFail & api.AcmInit
         & May(If("g_acmReadBuffer", Ok, Get("g_acmReadBuffer")) & api.UsbSerialAllocFifo
               & OnError(Each(Use, readReqs) & MayFail & Set("reading"),
                         Clear("g_acmReadBuffer") & api.UsbSerialFreeFifo)),
     SerialClose |-> MayFail
         & May(Clear("g_acmReadBuffer") & api.UsbSerialFreeFifo & api.AcmRelease)]

Commands(api) ==
    LET SerialWrite == Local(<<"wb.use">>, api.AcmWbIsAvail & api.AcmWbAlloc
                             & MayFail & Heedless(api.AcmStartWb))
        SerialAddOrRemoveInterface == MayFail
        \* Everything but opening and closing is for clients that have opened.
        UsbSerialCheckCmd ==
            AnyOf(<<api.SerialOpen, api.SerialClose, api.SerialGetBaudrate,
                    Given("initFlag")
                    & AnyOf(<<SerialWrite, api.UsbSerialRead, api.SerialSetBaudrate,
                              api.SerialWriteSync, api.UsbSerialReadSync,
                              api.UsbCtrlMsg, api.UsbStdCtrlCmd,
                              SerialAddOrRemoveInterface>>)>>)
    IN  api @@
        [SerialAddOrRemoveInterface |-> SerialAddOrRemoveInterface,
         UsbSerialDeviceDispatch |->
             Use("acm") & Needs("port") & If("g_acmReleaseFlag", Fail, Ok) & UsbSerialCheckCmd]

\* The functions, each with the ones it calls.
Functions ==
    Commands(PortOpening(Driver(Requests(Interfaces(Callbacks(SyncRead(PortRecords(
        WriteBuffers @@ WriteCallback @@ Notifications))))))))

Entries ==
    LET Of(api) ==
            [UsbSerialDriverBind |-> api.UsbSerialDriverBind,
             UsbSerialDriverInit |-> api.UsbSerialDriverInit,
             UsbSerialDeviceDispatch |-> api.UsbSerialDeviceDispatch,
             UsbSerialDriverRelease |-> api.UsbSerialDriverRelease,
             Callback |-> AnyOf(<<api.AcmWriteBulk, api.AcmReadBulk, api.AcmCtrlIrq>>)]
    IN  Of(Functions)

Lives ==
    {<<"new", "UsbSerialDriverBind", "bound", "new">>,
     <<"bound", "UsbSerialDriverInit", "ready", "bound">>,
     <<"ready", "UsbSerialDeviceDispatch", "ready", "ready">>,
     <<"ready", "Callback", "ready", "ready">>,
     <<"bound", "UsbSerialDriverRelease", "new", "new">>,
     <<"ready", "UsbSerialDriverRelease", "new", "new">>}

------------------------------------------------------------------------------
(***************************************************************************)
(* The host driver of a CDC ECM network device, usb/net/src/cdc_ether.c.   *)
(* Arrays and write slots are as above; it differs in when the requests    *)
(* are made: with each open, and with no result.                           *)
(***************************************************************************)
EcmWriteBuffers(api) ==
    api @@
    [EcmWbAlloc |-> Locked("writeLock", Take("wb.use")),
     EcmAllocFifo |-> api.UsbSerialAllocFifo,
     EcmFreeFifo |-> Clear("readFifo"),
     EcmWbIsAvail |-> api.AcmWbIsAvail,
     EcmStartWb |->
         Use("dataOutPipe") & api.InterfaceIdToHandle & Needs("wb0.request") & Use("wb0.request")
         & MayFail
         & (Move("wb.use", "wb.flight") | Failing(Locked("writeLock", Clear("wb.use")))),
     EcmWriteBufAlloc |-> api.AcmWriteBufAlloc,
     EcmWriteBufFree |-> api.AcmWriteBufFree]

EcmWriteCallback ==
    \* A completion knows its request, even when another open has replaced it.
    [EcmWriteBulk |->
         Given("wb.flight") & When("wb0.request", Use("wb0.request")) & Use("ecm")
         & (Locked("writeLock", Clear("wb.flight")) | Null("wb.flight")),
     EcmUsbControlMsg |-> Ok]

------------------------------------------------------------------------------
EcmPipes ==
    LET EcmFreePipes == AcmFreePipes
        EcmEnumePipe(pipe) == EnumePipe(pipe)
        EcmGetPipe(pipe) == Use("iface") & Use("devHandle") & Get(pipe)
    IN  [EcmFreePipes |-> EcmFreePipes,
         EcmGetPipes |->
             OnError(EcmGetPipe("dataInPipe") & EcmGetPipe("dataOutPipe") & EcmEnumePipe("ctrPipe")
                     & EcmGetPipe("intPipe"),
                     EcmFreePipes)]

EcmNotifications ==
    LET EcmProcessNotification == Ok
    IN  [EcmDriverBind |-> Get("ecm") & OnError(MayFail, Clear("ecm")),
         EcmCtrlIrq |->
             Given("notifying") & Use("notifyReq") & Use("ecm")
             & May((When("notificationBuffer", Free("notificationBuffer")) & Get("notificationBuffer"))
                   | (Given("notificationBuffer") & Use("notificationBuffer")))
             & EcmProcessNotification & MayFail]

EcmRequests(api) ==
    api @@
    [EcmReadBulk |->
         Given("reading") & When("readReq0", Use("readReq0")) & Use("ecm")
         & (Unset("reading")
            | (Locked("readLock", Ok) & If("openFlag", May(Unset("reading")), Unset("reading")))),
     EcmAllocWriteReq |->
         LET Alloc(r) == Use("dataOutPipe") & api.InterfaceIdToHandle & Get(r)
         IN  Heedless(api.EcmWriteBufAlloc)
         & OnError(Each(Alloc, writeReqs), api.EcmWriteBufFree),
     \* The requests are freed and the array keeps the pointers.
     EcmFreeWriteReq |->
         Locked("writeLock", When("wb.flight", Clear("wb.flight")) & Each(Free, writeReqs))
         & api.EcmWriteBufFree,
     EcmAllocIntReq |-> Needs("intPipe") & api.InterfaceIdToHandle & Get("notifyReq")
         & MayFail,
     EcmAllocReadReq |->
         LET Alloc(r) == Use("dataInPipe") & api.InterfaceIdToHandle & Get(r)
                 & MayFail IN Each(Alloc, readReqs),
     \* The first request that is not there ends the loop.
     EcmFreeReadReq |-> LET FreeReq(r) == Needs(r) & Free(r) IN Each(FreeReq, readReqs)]

EcmGetUsbInterfaceById(iface) == Get(iface)

EcmInterfaces(api) ==
    LET EcmReleaseInterfaces == api.AcmReleaseInterfaces
        EcmCloseInterfaces == api.AcmCloseInterfaces
    IN  api @@
        [UsbFreeNotifyReqeust |-> May(Clear("notifyReq")),
         EcmReleaseInterfaces |-> EcmReleaseInterfaces,
         EcmClaimInterfaces |->
             OnError(EcmGetUsbInterfaceById("iface") & EcmGetUsbInterfaceById("ctrIface"),
                     EcmReleaseInterfaces),
         EcmCloseInterfaces |-> EcmCloseInterfaces,
         EcmOpenInterfaces |->
             OnError(Use("iface") & Get("devHandle") & Use("ctrIface") & Get("ctrDevHandle"),
                     EcmCloseInterfaces)]

EcmDriver(api) ==
    \* Bind has refused a device with more interfaces than USB_MAX_INTERFACES.
    api @@
    [EcmInit |->
         If("initFlag", Ok,
            Get("session")
            & OnError(api.EcmClaimInterfaces
                      & OnError(api.EcmOpenInterfaces
                                & OnError(Use("devHandle") & MayFail
                                          & api.EcmGetPipes
                                          & OnError(api.EcmAllocIntReq, api.EcmFreePipes),
                                          api.EcmCloseInterfaces),
                                api.EcmReleaseInterfaces),
                      Clear("session"))
            & Set("initFlag")),
     EcmRelease |->
         When("initFlag", api.EcmCloseInterfaces & api.EcmReleaseInterfaces
              & api.UsbFreeNotifyReqeust & api.EcmFreePipes
                          & Clear("session") & Unset("initFlag")),
     EcmDriverInit |-> Needs("ecm") & Reset(<<"openFlag", "initFlag", "g_ecmReleaseFlag">>),
     EcmGone |->
         Drop(<<"readFifo", "notifyReq", "notificationBuffer">> \o bufs \o writeReqs \o readReqs)]

------------------------------------------------------------------------------
EcmPortOpening(api) ==
    \* The FIFO is looked at and read under two holds of the lock.
    api @@
    [EcmRead |->
         Local(<<"buf">>,
               Needs("openFlag") & Use("readReq0") & MayFail & Locked("readLock", Ok)
               & May(Get("buf") & Locked("readLock", Ok) & Finally(MayFail, Clear("buf")))),
     EcmOpen |->
         MayFail & api.EcmInit
         & May(api.EcmAllocFifo & Set("openFlag") & Heedless(api.EcmAllocWriteReq)
               & Heedless(api.EcmAllocReadReq)
               & OnError(Each(Needs, readReqs) & Each(Use, readReqs) & MayFail & Set("reading"),
                         api.EcmFreeFifo)),
     \* The wait for the cancelled requests ends after 20 turns, whether or not they
     \* have completed; one that has not may complete after the request is freed.
     EcmClostRelease |->
         When("openFlag",
              May(Unset("reading") & When("wb.flight", api.EcmWriteBulk))
              & Heedless(api.EcmFreeWriteReq)
              & Heedless(api.EcmFreeReadReq) & May(When("reading", api.EcmReadBulk))
              & api.EcmFreeFifo & Unset("openFlag"))]

EcmPortClosing(api) ==
    api @@
    [EcmClose |-> MayFail & May(api.EcmClostRelease & api.EcmRelease),
     \* A slot whose buffer is missing is skipped, not given back.
     EcmWrite |->
         Local(<<"wb.use">>,
               Needs("openFlag") & MayFail & api.EcmWbIsAvail & api.EcmWbAlloc
               & When("wb0.buf", MayFail & Heedless(api.EcmStartWb))),
     EcmGetMac |-> Ok,
     EcmAddOrRemoveInterface |-> MayFail]

EcmDeviceDispatch(api) ==
    If("g_ecmReleaseFlag", Fail, Ok) & Use("ecm")
    & AnyOf(<<api.EcmOpen, api.EcmClose, api.EcmRead, api.EcmWrite,
              api.EcmGetMac, api.EcmAddOrRemoveInterface>>)

EcmDriverRelease(api) ==
    Needs("ecm") & Set("g_ecmReleaseFlag") & api.EcmClostRelease & api.EcmRelease
    & Clear("ecm") & api.EcmGone

EcmEntries ==
    LET Of(api) ==
            [EcmDriverBind |-> api.EcmDriverBind, EcmDriverInit |-> api.EcmDriverInit,
             EcmDeviceDispatch |-> EcmDeviceDispatch(api), EcmDriverRelease |-> EcmDriverRelease(api),
             Callback |-> AnyOf(<<api.EcmWriteBulk, api.EcmReadBulk, api.EcmCtrlIrq>>)]
    IN  Of(EcmPortClosing(EcmPortOpening(EcmDriver(EcmInterfaces(EcmRequests(EcmWriteBuffers(
           Interfaces(Callbacks(WriteBuffers @@ WriteCallback @@ Notifications @@
           EcmWriteCallback @@ EcmPipes @@ EcmNotifications)))))))))

EcmLives ==
    {<<"new", "EcmDriverBind", "bound", "new">>,
     <<"bound", "EcmDriverInit", "ready", "bound">>,
     <<"ready", "EcmDeviceDispatch", "ready", "ready">>,
     <<"ready", "Callback", "ready", "ready">>,
     <<"bound", "EcmDriverRelease", "new", "new">>,
     <<"ready", "EcmDriverRelease", "new", "new">>}
==============================================================================
