------------------------------ MODULE UsbdService ------------------------------
(***************************************************************************)
(* The USB host service, usb/hal/service/src/usbd.c and usbd_dispatcher.c, *)
(* with usbd_function.c's and usbd_publisher.c's calls to other services:  *)
(* what it holds for one attached device, "port".  iface and devHandle     *)
(* stand for one interface that a client claims; syncReq, asyncReq and     *)
(* bulkList for the requests that it keeps for a pipe, the last with the   *)
(* first and the last of its request nodes.  The calls of the host SDK are *)
(* taken for what they acquire and give up (UsbSdk has their insides).     *)
(***************************************************************************)
EXTENDS Paths, TLC

Unless(r) == If(r, Never, Ok)

Callbacks ==
    [UsbdAllocFifo |-> If("readFifo", Ok, Get("readFifo")),
     UsbdFreeFifo |-> Clear("readFifo"),
     \* Only a request without its owner is woken.
     UsbdReadCallback |-> Use("asyncReq.request") & May(Ok),
     UsbdWriteCallback |-> Use("asyncReq.request"),
     InterfaceIdToHandle |-> Needs("devHandle"),
     UsbControlSetUp |-> Ok]

GetUsbInterfaceById(r) == Get(r)

Pipes(api) ==
    LET GetInterfacePipe == Needs("iface") & api.InterfaceIdToHandle & MayFail
    IN  api @@
        [GetPipe |-> Use("port") & GetInterfacePipe]

\* As UsbdFreeCtrlPipe, forgetting the pipe without freeing it.
ForgetCtrlPipe == Null("ctrPipe")

UsbdFreeCtrlPipe == Clear("ctrPipe")
UsbdGetCtrlPipe == Get("pipe") & OnError(MayFail & Use("ctrDevHandle") & MayFail, Clear("pipe"))
    & Move("pipe", "ctrPipe")

------------------------------------------------------------------------------
(***************************************************************************)
(* Synchronous transfers: a request for each pipe, made when it is first   *)
(* used and kept on the device's list.                                     *)
(***************************************************************************)
SyncReading ==
    LET UsbRequestParamsWSyncInit == Ok
    \* Fills and submits until enough has come, a timeout or an error.
    IN  [UsbdBulkReadSyncBase |-> Use("syncReq") & Use("syncReq.request")
         & Locked("syncReq.lock", Use("devHandle") & MayFail),
         UsbdFindRequestSync |-> Locked("reqSyncLock", Needs("syncReq")),
         UsbdRequestSyncAlloc |-> Get("syncReq.new") & OnError(MayFail, Clear("syncReq.new")),
         UsbdRequestSyncInit |->
             Use("devHandle") & Get("syncReq.request") & UsbRequestParamsWSyncInit
             & Locked("reqSyncLock", Move("syncReq.new", "syncReq"))]

UsbdRequestSyncRelease(req) == Use(req) & Locked("syncReq.lock", Clear("syncReq.request")) & Clear(req)

UsbdFindRequestSyncAndCreat(api) ==
    Otherwise(api.UsbdFindRequestSync,
              MayFail & api.GetPipe & api.InterfaceIdToHandle & api.UsbdRequestSyncAlloc
              & OnError(api.UsbdRequestSyncInit, UsbdRequestSyncRelease("syncReq.new")))

SyncWriting ==
    [UsbdRequestSyncReleaseList |-> Locked("reqSyncLock",
                                           When("syncReq", UsbdRequestSyncRelease("syncReq"))),
     UsbdBulkWriteSyncBase |-> Use("syncReq")
         & Locked("syncReq.lock", Use("syncReq.request") & Use("devHandle") & MayFail)]

------------------------------------------------------------------------------
(***************************************************************************)
(* Control transfers.                                                      *)
(***************************************************************************)
ControlEx(api) ==
    LET UsbRequestParamsInit == Ok
    IN  api @@
        [UsbControlTransferEx |->
             MayFail & Needs("ctrDevHandle") & If("ctrlReq", Ok, Get("ctrlReq"))
             & UsbRequestParamsInit & api.UsbControlSetUp
             & Locked("port.lock", Use("ctrlReq") & Use("ctrDevHandle") & MayFail),
         \* What a client reads is in a buffer of the service, what it writes in its message.
         CtrlTranParamGetReqType |-> MayFail
             | (Get("data") & OnError(MayFail, Free("data") & Null("data")))]

------------------------------------------------------------------------------
(***************************************************************************)
(* Interfaces, and a device as a whole.                                    *)
(***************************************************************************)
ControlTransfers(api) ==
    LET CtrlTransferParamInit == MayFail & OnError(api.CtrlTranParamGetReqType, Clear("data"))
    IN  api @@
        [FunControlTransfer |->
             Needs("ctrDevHandle") & MayFail
             & OnError(CtrlTransferParamInit, Clear("data"))
             & Finally(api.UsbControlTransferEx, Clear("data")),
         UsbdReleaseInterfaces |-> Clear("iface") & Clear("ctrIface"),
         UsbdCloseInterfaces |-> Clear("devHandle") & Clear("ctrDevHandle")]

InterfaceCommands(api) ==
    LET MakeUsbControlParams == Ok
    IN  api @@
        [FunClaimInterface |-> MayFail & If("iface", Ok, Get("iface"))
         & If("devHandle", Ok, Get("devHandle")),
         FunReleaseInterface |-> MayFail,
         UsbdOpenInterfaces |-> MayFail
             & OnError(Use("ctrIface") & Get("ctrDevHandle"), api.UsbdCloseInterfaces),
         FunGetDescriptor |-> MayFail & MakeUsbControlParams & api.UsbControlTransferEx & MayFail]

------------------------------------------------------------------------------
(***************************************************************************)
(* Asynchronous transfers: requests that a client queues and waits for.    *)
(* status is set while a request is taken.                                 *)
(***************************************************************************)
UsbdRequestASyncReleaseData == Clear("asyncReq.clientData") & Unset("status")

UsbdRequestASyncRelease(req) ==
    Use(req) & Locked("asyncReq.lock", UsbdRequestASyncReleaseData & Clear("asyncReq.request"))
    & Clear(req)

AsyncReleases ==
    [UsbdRequestASyncReleaseList |->
         Locked("reqASyncLock", When("asyncReq", UsbdRequestASyncRelease("asyncReq"))),
     UsbdBulkASyncReqRelease |-> Clear("node0") & Clear("nodeN")]

AsyncRequests(api) ==
    LET FillReqAyncParams == Use("devHandle")
        UsbdRequestASyncAlloc == Get("asyncReq.new") & OnError(MayFail, Clear("asyncReq.new"))
            & Unset("status")
        UsbdRequestASyncInit ==
            Use("devHandle") & Get("asyncReq.request") & FillReqAyncParams
            & Locked("reqASyncLock", Move("asyncReq.new", "asyncReq"))
    IN  api @@
        [FillReqAyncParams |-> FillReqAyncParams,
         UsbdRequestASyncCreatAndInsert |->
             MayFail & api.GetPipe & api.InterfaceIdToHandle & UsbdRequestASyncAlloc
             & OnError(UsbdRequestASyncInit, UsbdRequestASyncRelease("asyncReq.new"))]

\* One request stands for as many as a pipe may have.
UsbdFindRequestASync(api) ==
    Locked("reqASyncLock", Ok)
    & If("asyncReq", If("status", Fail, Ok), api.UsbdRequestASyncCreatAndInsert)
    & Locked("asyncReq.lock", Set("status"))

RequestQueue(api) ==
    \* A failure forgets the client's data in the request; the caller frees it.
    LET FunRequestQueueFillAndSubmit ==
            OnError(api.FillReqAyncParams & Use("asyncReq.request") & Use("devHandle")
                    & MayFail,
                    Locked("asyncReq.lock", Move("asyncReq.clientData", "clientData")
                           & Unset("status")))
            & Locked("requestLock", Set("queued"))
    IN  api @@
        [FunRequestQueue |->
             MayFail
             & OnError(Get("clientData") & Get("buffer") & UsbdFindRequestASync(api), Clear("buffer")
                       & Clear("clientData"))
             & Move("clientData", "asyncReq.clientData")
             & Finally(OnError(FunRequestQueueFillAndSubmit, Clear("clientData")), Clear("buffer")),
         GetRequestMsgFromQueue |-> Locked("requestLock", Needs("queued") & Unset("queued")),
         \* A wait that runs out puts the request back.
         GetRequestMsgData |->
             Use("asyncReq.request") & OnError(MayFail, Locked("requestLock", Set("queued")))
             & Locked("asyncReq.lock", Unset("status"))]

RequestCommands(api) ==
    api @@
    [FunRequestWait |->
         MayFail & api.GetRequestMsgFromQueue & Use("asyncReq") & Use("asyncReq.request")
         & OnError(MayFail, Locked("requestLock", Set("queued")))
         & api.GetRequestMsgData & Finally(MayFail, UsbdRequestASyncReleaseData),
     FunRequestCancel |->
         MayFail
         & Otherwise(api.GetRequestMsgFromQueue & Use("asyncReq") & Use("asyncReq.request")
                     & Locked("asyncReq.lock", UsbdRequestASyncReleaseData), Ok),
     FunOpenDevice |-> Set("initFlag"),
     FunCloseDevice |-> Unset("initFlag")]

UsbdBulkASyncListRelease(api, reqs) == Use(reqs) & api.UsbdBulkASyncReqRelease & Clear(reqs)
UsbdBulkASyncReqFillParams == Ok

BulkRemoteCallbacks ==
    \* A transfer that ends is reported to the callback, if there is one.
    LET UsbdBulkReadRemoteCallback ==
            When("bulk.cb", Use("bulk.cb") & Locked("asm.lock", Ok)
                            & Finally(Heedless(Get("data")) & Get("reply") & Needs("data") & MayFail,
                                      Clear("data") & Clear("reply")))
    IN  [UsbdBulkReadRemoteCallback |-> UsbdBulkReadRemoteCallback,
         UsbdBulkWriteRemoteCallback |-> UsbdBulkReadRemoteCallback]

\* The SDK counts its users: one exit for each initialisation.
UsbInitHostSdk == Get("sdk")

UsbExitHostSdk == Release("sdk")

DeviceInit(api) ==
    LET MakeGetActiveUsbControlParams == Ok
        UsbdClaimInterfaces == MayFail
            & OnError(GetUsbInterfaceById("ctrIface"), api.UsbdReleaseInterfaces)
        ReturnGetPipes == api.UsbdCloseInterfaces
            & api.UsbdReleaseInterfaces & UsbExitHostSdk
        ReturnOpenInterfaces == api.UsbdReleaseInterfaces & UsbExitHostSdk
        ReturnClainInterfaces == UsbExitHostSdk
    IN  api @@
        [FunGetActiveConfig |-> MakeGetActiveUsbControlParams & api.UsbControlTransferEx
         & MayFail,
         RemoveDevFromService |-> Use("service") & Locked("service.lock", Unset("listed")),
         UsbdInit |->
             If("initFlag", Ok,
                UsbInitHostSdk & OnError(UsbdClaimInterfaces, ReturnClainInterfaces)
                & OnError(api.UsbdOpenInterfaces, ReturnOpenInterfaces)
                & OnError(UsbdGetCtrlPipe, ReturnGetPipes))]

\* The memory of the device goes; what its fields refer to stays.
PortGone == Clear("port") & Drop(<<"readFifo">>)

DeviceRelease(api) ==
    LET MakeSetActiveUsbControlParams == Ok
        \* A buffer that is still mapped is not unmapped, a callback not recycled.
        UsbdBulkASyncListReleasePort ==
            When("bulkList", UsbdBulkASyncListRelease(api, "bulkList")
                 & Drop(<<"bulk.map", "bulk.cb">>))
        \* The SDK is left also when the initialisation that failed has left it.
        UsbdRelease ==
            api.UsbdCloseInterfaces & api.UsbdReleaseInterfaces
            & UsbdFreeCtrlPipe & api.UsbdRequestSyncReleaseList
            & api.UsbdRequestASyncReleaseList & UsbdBulkASyncListReleasePort
            & Clear("ctrlReq") & UsbExitHostSdk
            & Unset("initFlag")
        ReOpenDevice ==
            UsbdRelease & Unset("queued")
            & OnError(api.UsbdInit, UsbdRelease & api.RemoveDevFromService & PortGone)
            & Set("initFlag")
    IN  api @@
        [UsbdBulkASyncListReleasePort |-> UsbdBulkASyncListReleasePort, UsbdRelease |-> UsbdRelease,
         FunSetActiveConfig |->
             MayFail & api.UsbControlTransferEx
             & (Ok | (MakeSetActiveUsbControlParams & api.UsbControlTransferEx
                      & api.UsbControlTransferEx & MayFail & May(ReOpenDevice)))]

DeviceAttach(api) ==
    LET HostDeviceInit == MayFail & Reset(<<"initFlag", "queued">>)
    IN  api @@
        [HostDeviceCreate |-> Get("port") & OnError(MayFail & HostDeviceInit, Clear("port")),
         UsbdRealseDevices |->
             Use("service")
             & Locked("service.lock",
                      When("listed", Unset("listed") & api.UsbdRelease & PortGone)),
         FunAttachDevice |->
             If("initFlag", Ok,
                OnError(api.UsbdInit, api.UsbdRelease
                        & api.RemoveDevFromService & PortGone)
                & OnError(api.UsbdAllocFifo, api.UsbdFreeFifo
                          & api.UsbdRelease & api.RemoveDevFromService & PortGone)
                & Set("initFlag"))]

DeviceDetach(api) ==
    api @@
    [UsbdDeviceCreateAndAttach |->
         Unless("port") & api.HostDeviceCreate & Locked("service.lock", Set("listed"))
         & api.FunAttachDevice,
     FunDetachDevice |-> Needs("port") & api.RemoveDevFromService & api.UsbdRelease
         & api.UsbdFreeFifo & PortGone]

Notices ==
    LET NotifySubscriberDevice ==
            When("subscriber", Use("remoteService") & Local(<<"data", "reply">>,
                Heedless(MayFail
                         & Finally(Heedless(Get("data")) & Get("reply") & Needs("data") & MayFail,
                                          Clear("data") & Clear("reply")))))
    IN  [NotifySubscriberDevice |-> NotifySubscriberDevice,
         NotifyUsbPortSubscriber |-> NotifySubscriberDevice]

FunSetInterface(api) ==
    MayFail & api.InterfaceIdToHandle
    & (Ok | (MayFail & api.UsbdRequestSyncReleaseList
             & api.UsbdRequestASyncReleaseList & api.UsbdBulkASyncListReleasePort))

DevicesOnStart(api) ==
    LET HdfReadDevice == MayFail
            & May(Heedless(api.UsbdDeviceCreateAndAttach) & api.NotifySubscriberDevice)
        UsbdAddDevicesOnStart ==
            Local(<<"usbPnpServ">>,
                  Get("usbPnpServ") & Get("list")
                  & Finally(Get("list.reply") & Finally(MayFail & HdfReadDevice, Clear("list.reply")),
                            Clear("list") & Clear("usbPnpServ")))
    \* A subscriber that is there is overwritten.
    IN  api @@
        [BindUsbSubscriber |->
             Move("new", "subscriber") & Move("remote.new", "remoteService")
             & Heedless(UsbdAddDevicesOnStart),
         UnbindUsbSubscriber |-> When("subscriber", Clear("subscriber"))]

SubscriberCommands(api) ==
    api @@
    [DispatchBindUsbSubscriber |->
         Local(<<"remote.new">>, MayFail & Get("remote.new") & Get("new")
               & OnError(MayFail, Clear("new")) & api.BindUsbSubscriber),
     DispatchUnbindUsbSubscriber |-> api.UnbindUsbSubscriber & Drop(<<"remoteService">>),
     FunGetRawDeviceDescriptor |-> Needs("ctrDevHandle") & Locked("devHandle.lock", MayFail),
     FunGetFileDescriptor |-> Needs("ctrDevHandle") & Locked("devHandle.lock", Ok) & MayFail,
     FindDevFromService |-> Use("service") & Locked("service.lock", Needs("listed"))]

------------------------------------------------------------------------------
(***************************************************************************)
(* The lists of the bulk transfers (UsbdBulk has how they run).            *)
(***************************************************************************)
BulkLists(api) ==
    \* Counts back over the nodes that were made, from the one that could not be.
    LET UsbdBulkASyncReqInit == OnError(Get("node0") & Get("nodeN"), Clear("nodeN") & Clear("node0"))
        UsbdFindDevForBusNum == Use("service")
            & Locked("service.lock", Needs("listed") & Unset("listed"))
    IN  api @@
        [UsbdDeviceDettach |-> Otherwise(api.FindDevFromService, Fail)
         & api.FunDetachDevice,
         UsbdRemoveBusDev |->
             Otherwise(UsbdFindDevForBusNum & api.NotifySubscriberDevice
                       & api.UsbdRelease & api.UsbdFreeFifo & PortGone, Ok),
         UsbdBulkASyncListAlloc |->
             MayFail & api.GetPipe & api.InterfaceIdToHandle & Get("bulkList.new")
             & OnError(MayFail, Clear("bulkList.new"))
             & UsbdBulkASyncReqFillParams
             & OnError(UsbdBulkASyncReqInit, UsbdBulkASyncListRelease(api, "bulkList.new"))]

BulkListInit(api) ==
    LET UsbdBulkASyncListFind == Needs("bulkList")
    IN  api @@
        [UsbdBulkASyncListInit |->
             Otherwise(UsbdBulkASyncListFind, api.UsbdBulkASyncListAlloc
                       & Move("bulkList.new", "bulkList"))]

BulkCallbackCommands(api) ==
    \* A callback that was registered before is overwritten, and one that is refused is
    \* recycled and still referred to.
    api @@
    [FunRegBulkCallback |->
         MayFail & api.UsbdBulkASyncListInit & Get("bulk.cb")
         & OnError(MayFail, Free("bulk.cb")),
     FunUnRegBulkCallback |-> MayFail & When("bulkList", Null("bulk.cb")),
     ReleaseAsmBufferHandle |-> Locked("asm.lock", Clear("bulk.map"))]

BulkCancelCommands(api) ==
    api @@
    [FunBulkCancel |->
         MayFail & When("bulkList", api.ReleaseAsmBufferHandle & Use("node0")
                        & Use("nodeN")),
     UsbdGetBulkParams |-> MayFail & Get("fd") & OnError(MayFail, Null("fd")),
     \* The descriptor is closed once its buffer is mapped; a mapping that fails is not NULL.
     InitAsmBufferHandle |->
         api.ReleaseAsmBufferHandle & OnError(MayFail, Null("fd"))
         & (Take("bulk.map") | Ok) & Clear("fd")]

Bulk(api, F) ==
    api.UsbdGetBulkParams & OnError(api.UsbdBulkASyncListInit, Null("fd"))
    & api.InitAsmBufferHandle
    & Use("node0") & F

------------------------------------------------------------------------------
(***************************************************************************)
(* The driver, its subscriber, and the gadget services it commands.        *)
(***************************************************************************)
Driver(api) ==
    \* A listener that cannot be registered leaves the service bound.
    LET UsbdEventHandle == Get("g_usbPnpServ") & MayFail
        UsbdEventHandleRelease == When("g_usbPnpServ", Clear("g_usbPnpServ")) & MayFail
    IN  api @@
        [UsbdPnpLoaderEventReceived |->
             api.NotifySubscriberDevice
             | (MayFail & AnyOf(<<api.UsbdRemoveBusDev,
                                  Heedless(api.UsbdDeviceCreateAndAttach)
                                  & api.NotifySubscriberDevice,
                                  Heedless(api.UsbdDeviceDettach)
                                  & api.NotifySubscriberDevice>>)),
         UsbdDriverBind |->
             Get("dev") & OnError(MayFail, Clear("dev")) & Move("dev", "service")
             & May(Heedless(api.UsbdDeviceCreateAndAttach))
             & OnError(MayFail, Clear("service"))
             & UsbdEventHandle,
         UsbdDriverInit |-> Ok,
         \* The devices go, the service does not.
         UsbdDriverRelease |-> Heedless(UsbdEventHandleRelease) & api.UsbdRealseDevices]

SendCmdToService ==
    Local(<<"cmdService", "data", "reply">>,
          MayFail & Get("cmdService") & MayFail
          & Finally(Heedless(Get("data")) & Heedless(Get("reply"))
                    & If("data", If("reply", Ok, Clear("cmdService") & Fail), Clear("cmdService")
                         & Fail)
                    & Finally(MayFail, Clear("data") & Clear("reply")),
                    Clear("cmdService")))

\* A request that names a device needs it attached and, but for opening and closing
\* it, open.
DispatchCheckParam == Needs("service")

UsbdServiceDispatch(api, F) == DispatchCheckParam & MayFail & api.FindDevFromService
    & Needs("initFlag") & F

Entries ==
    LET Of(api) ==
            [Bind |-> api.UsbdDriverBind, Init |-> api.UsbdDriverInit,
             Release |-> api.UsbdDriverRelease,
             Event |-> api.UsbdPnpLoaderEventReceived,
             Subscriber |-> AnyOf(<<api.DispatchBindUsbSubscriber,
                                    api.DispatchUnbindUsbSubscriber,
                                    api.NotifyUsbPortSubscriber>>),
             Function |-> SendCmdToService,
             Open |-> api.FindDevFromService
                 & (api.FunOpenDevice | api.FunCloseDevice),
             Device |-> UsbdServiceDispatch(api, AnyOf(<<api.FunControlTransfer,
                                                    api.FunGetActiveConfig,
                                                    api.FunGetDescriptor,
                                                    api.FunClaimInterface,
                                                    api.FunReleaseInterface,
                                                    api.FunGetRawDeviceDescriptor,
                                                    api.FunGetFileDescriptor>>)),
             Config |-> UsbdServiceDispatch(api, api.FunSetActiveConfig | FunSetInterface(api)),
             Sync |-> UsbdServiceDispatch(api, UsbdFindRequestSyncAndCreat(api) & MayFail
                                          & (api.UsbdBulkReadSyncBase
                                             | api.UsbdBulkWriteSyncBase)),
             Async |-> UsbdServiceDispatch(api, AnyOf(<<api.FunRequestQueue,
                                                   api.FunRequestWait,
                                                   api.FunRequestCancel>>)),
             Done |-> Given("queued")
                 & When("asyncReq.request", api.UsbdReadCallback | api.UsbdWriteCallback),
             Bulk |-> UsbdServiceDispatch(api, AnyOf(<<Bulk(api, MayFail), api.FunRegBulkCallback,
                                                  api.FunUnRegBulkCallback,
                                                  api.FunBulkCancel>>)),
             BulkDone |-> Given("bulkList")
                 & (api.UsbdBulkReadRemoteCallback
                    | api.UsbdBulkWriteRemoteCallback)]
    IN  Of(Driver(BulkCancelCommands(BulkCallbackCommands(BulkListInit(BulkLists(
           SubscriberCommands(DevicesOnStart(DeviceDetach(DeviceAttach(DeviceRelease(
           DeviceInit(RequestCommands(RequestQueue(AsyncRequests(InterfaceCommands(
           ControlTransfers(ControlEx(Pipes(Callbacks @@ SyncReading @@ SyncWriting @@
           AsyncReleases @@ BulkRemoteCallbacks @@ Notices)))))))))))))))))))

Lives ==
    {<<"new", "Bind", "bound", "gone">>,
     <<"bound", "Init", "up", "up">>,
     <<"up", "Release", "gone", "gone">>}
    \cup {<<"up", e, "up", "up">> :
          e \in {"Event", "Subscriber", "Function", "Open", "Device", "Config", "Sync", "Async",
                 "Done", "Bulk",
                "BulkDone"}}
==============================================================================
