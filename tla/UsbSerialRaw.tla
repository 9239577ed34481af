----------------------------- MODULE UsbSerialRaw -----------------------------
(***************************************************************************)
(* The host driver of a CDC ACM serial device on the raw API,              *)
(* usb/serial/src/usb_serial_rawapi.c.  What it shares with the driver on  *)
(* the SDK is taken from there.  The driver runs the I/O thread itself and *)
(* gives up waiting for its end after USB_RAW_IO_STOP_WAIT_MAX_TIME turns. *)
(***************************************************************************)
EXTENDS Paths, TLC

LOCAL S == INSTANCE UsbSerial

WriteBuffers(api) ==
    api @@
    [AcmWbAlloc |-> api.sdk.AcmWbAlloc,
     UsbSerialAllocFifo |-> api.sdk.UsbSerialAllocFifo,
     UsbSerialFreeFifo |-> api.sdk.UsbSerialFreeFifo,
     AcmWbIsAvail |-> api.sdk.AcmWbIsAvail,
     AcmStartWb |->
         Each(Needs, <<"dataOutEp", "devHandle", "wb0.request">>) & Use("wb0.request") & MayFail
         & (Move("wb.use", "wb.flight") | Failing(Clear("wb.use"))),
     AcmWriteBufAlloc |-> Use("dataOutEp") & api.sdk.AcmWriteBufAlloc,
     AcmWriteBufFree |-> api.sdk.AcmWriteBufFree,
     AcmWriteBulkCallback |-> Given("wb.flight") & Use("wb0.request") & Clear("wb.flight")]

------------------------------------------------------------------------------
PortRecords(api) ==
    api @@
    [SerialSendCtrlMsg |->
         If("ctrlReq", Ok, Use("devHandle") & Get("ctrlReq")) & Use("devHandle") & Use("ctrlReq")
         & MayFail,
     UsbSerialDeviceAlloc |-> api.sdk.UsbSerialDeviceAlloc,
     UsbSeriaDevicelFree |-> api.sdk.UsbSeriaDevicelFree,
     UsbSerialRead |->
         Local(<<"buf">>,
               Use("readReq0") & MayFail
               & May(Get("buf") & Locked("readLock", Ok) & Finally(MayFail, Clear("buf"))))]

------------------------------------------------------------------------------
Notifications(api) ==
    api @@
    [UsbSerialDriverBind |-> api.sdk.UsbSerialDriverBind,
     AcmProcessNotification |-> api.sdk.AcmProcessNotification,
     AcmNotificationBufferProcess |->
         (When("notificationBuffer", Free("notificationBuffer")) & Get("notificationBuffer"))
         | (Given("notificationBuffer") & Use("notificationBuffer"))]

------------------------------------------------------------------------------
IoThread ==
    \* One turn of the thread; it ends when told to or on an error.
    [UsbIoThread |->
         Given("ioThread.running")
         & When("devHandle", Use("devHandle") & May(Unset("ioThread.running"))),
     UsbStartIo |-> Get("ioThread") & MayFail & Set("ioThread.running"),
     UsbStopIo |-> May(Unset("ioThread.running")) & Clear("ioThread"),
     UsbGetConfigDescriptor |-> Needs("devHandle") & Use("devHandle") & MayFail & Get("config")]

Endpoints ==
    \* An endpoint that cannot be allocated stops the parsing of its interface only.
    LET UsbGetBulkEndpoint(ep) == Get(ep)
        UsbParseConfigDescriptorProcess(iface) ==
            IF iface = "ctrlIface" THEN Heedless(Get("notifyEp"))
            ELSE Heedless(UsbGetBulkEndpoint("dataInEp") & UsbGetBulkEndpoint("dataOutEp"))
    IN  [UsbParseConfigDescriptor |->
             LET Parse(iface) == Use("config")
                     & Heedless(Get(iface) & UsbParseConfigDescriptorProcess(iface))
             IN  Needs("config") & Each(Parse, <<"ctrlIface", "dataIface">>),
         UsbReleaseInterfaces |->
             When("devHandle",
                  Use("devHandle")
                  & Each(Clear, <<"ctrlIface", "dataIface", "notifyEp", "dataInEp", "dataOutEp">>)),
         UsbAllocWriteRequests |->
             LET Alloc(r) == Use("devHandle") & Use("dataOutEp") & Get(r) IN Each(Alloc, S!writeReqs),
         UsbFreeWriteRequests |-> Each(Clear, S!writeReqs)]

Writing(api) ==
    LET AcmStartWbSync == Use("dataOutEp") & Use("wb0.request") & Use("devHandle")
            & Finally(MayFail, Clear("wb.use"))
    IN  api @@
        [SerialWrite |->
             Local(<<"wb.use">>, api.AcmWbIsAvail & api.AcmWbAlloc & MayFail
                   & Heedless(api.AcmStartWb)),
         SerialWriteSync |->
             Local(<<"wb.use">>, api.AcmWbIsAvail & api.AcmWbAlloc
                   & Needs("wb0.buf") & MayFail & Needs("dataOutEp")
                                 & Heedless(AcmStartWbSync))]

Callbacks(api) ==
    api @@
    [AcmNotifyReqCallback |->
         Given("notifying") & Use("notifyReq") & Use("acm")
         & (Unset("notifying")
            | (May(api.AcmNotificationBufferProcess)
               & api.AcmProcessNotification & MayFail)),
     AcmReadBulkCallback |->
         Given("reading") & Use("readReq0") & Needs("port")
         & (Unset("reading") | (May(Use("port") & Locked("readLock", Ok)) & MayFail)),
     UsbAllocReadRequests |->
         LET Alloc(r) == Use("devHandle") & Get(r) & MayFail IN Use("dataInEp")
                 & Each(Alloc, S!readReqs),
     UsbFreeReadRequests |-> Each(Clear, S!readReqs)]

Starting(api) ==
    LET UsbAllocNotifyRequest == Use("notifyEp") & Use("devHandle") & Get("notifyReq") & MayFail
        UsbFreeNotifyReqeust == May(Clear("notifyReq"))
    IN  api @@
        [UsbFreeNotifyReqeust |-> UsbFreeNotifyReqeust,
         \* A failure of AcmWriteBufAlloc passes for success, as in the driver on the SDK.
         UsbSerialInit |->
             LET Requests ==
                     api.UsbAllocWriteRequests
                     & OnError(UsbAllocNotifyRequest
                               & OnError(api.UsbAllocReadRequests
                                         & OnError(api.UsbStartIo
                                                   & OnError(Use("notifyReq") & MayFail
                                                             & Set("notifying"), api.UsbStopIo),
                                                   api.UsbFreeReadRequests),
                                         UsbFreeNotifyReqeust),
                               api.UsbFreeWriteRequests)
                 Parsed ==
                     api.UsbParseConfigDescriptor
                     & OnError(Heedless(api.AcmWriteBufAlloc)
                               & OnError(Requests, api.AcmWriteBufFree),
                               api.UsbReleaseInterfaces)
             IN  If("initFlag", Ok,
                    Get("session")
                    & OnError(Get("devHandle")
                              & OnError(api.UsbGetConfigDescriptor
                                        & OnError(Parsed, Clear("config")), Free("devHandle")),
                              Clear("session"))
                    & Set("initFlag"))]

Driver(api) ==
    \* The requests under way end with the I/O thread.
    LET UsbSerialRelease ==
            When("initFlag",
                 api.UsbStopIo & When("g_syncRequest", Clear("g_syncRequest"))
                 & api.UsbFreeReadRequests & api.UsbFreeNotifyReqeust
                 & api.UsbFreeWriteRequests & api.AcmWriteBufFree
                 & api.UsbReleaseInterfaces & Free("devHandle") & Clear("config")
                 & Clear("session")
                 & When("wb.flight", Null("wb.flight")) & Reset(<<"initFlag", "reading", "notifying">>))
    IN  api @@
        [UsbSerialRelease |-> UsbSerialRelease,
         UsbSerialDriverInit |-> Needs("acm")
             & Finally(api.UsbSerialDeviceAlloc, Reset(<<"initFlag", "g_rawAcmReleaseFlag">>)),
         UsbSerialDriverRelease |->
             Needs("acm") & Set("g_rawAcmReleaseFlag") & UsbSerialRelease
             & api.UsbSeriaDevicelFree & Clear("acm")
             & api.sdk.AcmGone]

PortOpening(api) ==
    api @@
    [SerialSetBaudrate |-> MayFail & May(api.SerialSendCtrlMsg),
     SerialGetBaudrate |-> api.sdk.SerialGetBaudrate,
     SerialOpen |->
         MayFail & api.UsbSerialInit
         & May(api.UsbSerialAllocFifo
               & OnError(Each(Use, S!readReqs) & MayFail & Set("reading"),
                         api.UsbSerialFreeFifo)),
     SerialClose |-> MayFail
         & May(Locked("readLock", api.UsbSerialFreeFifo) & api.UsbSerialRelease)]

Commands(api) ==
    LET SerialAddOrRemoveInterface == api.sdk.SerialAddOrRemoveInterface
        UsbSerialReadSync ==
            Local(<<"data">>,
                  If("g_syncRequest", Ok, Use("devHandle") & Use("dataInEp") & Get("g_syncRequest"))
                  & Use("dataInEp") & Use("g_syncRequest") & Use("devHandle") & MayFail
                  & Get("data") & Clear("data"))
    IN  api @@
        [UsbSerialDeviceDispatch |->
             If("g_rawAcmReleaseFlag", Fail, Ok) & Use("acm") & Needs("port")
             & AnyOf(<<api.SerialOpen, api.SerialClose,
                       api.SerialGetBaudrate, SerialAddOrRemoveInterface,
                       Given("initFlag")
                       & AnyOf(<<api.SerialWrite, api.UsbSerialRead,
                                 api.SerialSetBaudrate, api.SerialWriteSync,
                                 UsbSerialReadSync>>)>>)]

\* A completion is delivered by the I/O thread.
Entries ==
    LET Of(api) ==
            [UsbSerialDriverBind |-> api.UsbSerialDriverBind,
             UsbSerialDriverInit |-> api.UsbSerialDriverInit,
             UsbSerialDeviceDispatch |-> api.UsbSerialDeviceDispatch,
             UsbSerialDriverRelease |-> api.UsbSerialDriverRelease,
             UsbIoThread |-> api.UsbIoThread,
             Callback |-> Given("ioThread.running")
                          & AnyOf(<<api.AcmWriteBulkCallback, api.AcmReadBulkCallback,
                                    api.AcmNotifyReqCallback>>)]
    IN  Of(Commands(PortOpening(Driver(Starting(Callbacks(Writing(Notifications(PortRecords(
           WriteBuffers([sdk |-> S!Functions] @@ IoThread @@ Endpoints))))))))))

Lives ==
    {<<"new", "UsbSerialDriverBind", "bound", "new">>,
     <<"bound", "UsbSerialDriverInit", "ready", "bound">>,
     <<"ready", "UsbSerialDeviceDispatch", "ready", "ready">>,
     <<"ready", "UsbIoThread", "ready", "ready">>,
     <<"ready", "Callback", "ready", "ready">>,
     <<"bound", "UsbSerialDriverRelease", "new", "new">>,
     <<"ready", "UsbSerialDriverRelease", "new", "new">>}
==============================================================================
